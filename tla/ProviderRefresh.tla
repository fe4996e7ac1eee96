--------------------------- MODULE ProviderRefresh ---------------------------
(***************************************************************************)
(* How runtime.py changes the model route: discovery and selection         *)
(* (_refresh_providers, _perform_provider_refresh), unloading              *)
(* (_perform_model_unload) and the turns that use the route meanwhile.  A  *)
(* request cancels the one before it, a lock orders their tasks, an epoch  *)
(* tells the newest, and any client that disconnects cancels the current   *)
(* one.  Each discovery makes a provider object of its own; one that is    *)
(* not taken, or that is replaced, is closed, which is awaited.            *)
(***************************************************************************)
EXTENDS Naturals, Sequences, FiniteSets, SequencesExt, Selection

CONSTANTS
    MaxRequests,    \* bound: requests, which are numbered 1 .. MaxRequests
    MaxTurns,       \* bound: turns
    MaxRetries      \* Len(_PROVIDER_RETRY_DELAYS)

VARIABLES
    work,           \* the task of each request
    currentTask,    \* _provider_refresh_task
    refreshLock,    \* _provider_refresh_lock: its holder, then those who wait
    epoch,          \* _provider_refresh_epoch
    route,          \* self.provider and whether self._model is set
    fence,          \* _model_unavailable_reason
    scanActive,     \* _provider_scan_active
    phase,          \* _provider_phase
    turn,           \* the committed target of the active response
    turns,          \* how many turns there were
    closedProviders \* provider objects whose aclose() was called

providerVars == <<work, currentTask, refreshLock, epoch, route, fence,
                  scanActive, phase, turn, turns, closedProviders>>

Requests == 1 .. MaxRequests
Work(kind, pc, e, explicit, previous) ==
    [kind |-> kind, pc |-> pc, epoch |-> e, explicit |-> explicit, retries |-> 0,
     previous |-> previous]
NoWork == Work("none", "none", 0, FALSE, 0)
NoTurn == [active |-> FALSE, object |-> 0, model |-> FALSE, fenced |-> FALSE]

\* The provider of the start-up is object 0; request r discovers object r.
ProviderInit ==
    /\ work = [r \in Requests |-> NoWork]
    /\ currentTask = 0 /\ refreshLock = <<>> /\ epoch = 0
    /\ route \in [object : {0}, model : BOOLEAN]
    /\ fence = "none" /\ scanActive = FALSE /\ phase = "ready"
    /\ turn = NoTurn /\ turns = 0 /\ closedProviders = {}

Live(r) == r # 0 /\ work[r].pc \notin {"none", "done"}
NextRequest == {r \in Requests : work[r].pc = "none" /\ \A s \in 1 .. r - 1 : work[s].pc # "none"}

\* The lock passes on when a task ends.
Finished(r) ==
    /\ work' = [work EXCEPT ![r].pc = "done"]
    /\ refreshLock' = Only(refreshLock, Requests \ {r})
At(r, pc) == work' = [work EXCEPT ![r].pc = pc] /\ UNCHANGED refreshLock

-----------------------------------------------------------------------------
(* Requests *)

\* Cancelling a task: in its adapter's call it has to unwind, at any other await
\* it ends there.  What it has published of its phase stays.
InAdapter(r) == work[r].pc \in {"scan", "retry", "unload", "unwind"}
CancelWork(r) == IF InAdapter(r) THEN At(r, "unwind") ELSE Finished(r)

\* A task runs to its first await when it is created: to the lock, or into it.
Created(r, kind, explicit, e) ==
    /\ work' = [work EXCEPT ![r] = Work(kind, "lock", e, explicit, route.object)]
    /\ refreshLock' = Append(refreshLock, r)
    /\ currentTask' = r

\* _refresh_providers, from a client's command or the voice loop: rescan (not
\* explicit) or switch.  Two requests may await the same predecessor.
RequestRefresh(r, explicit) ==
    /\ ~turn.active
    /\ epoch' = epoch + 1
    /\ IF Live(currentTask)
       THEN /\ work' = [work EXCEPT
                   ![currentTask].pc = IF InAdapter(currentTask) THEN "unwind" ELSE "done",
                   ![r] = Work("refresh", "starting", epoch', explicit, currentTask)]
            /\ refreshLock' = IF InAdapter(currentTask) THEN refreshLock
                             ELSE Only(refreshLock, Requests \ {currentTask})
            /\ UNCHANGED currentTask
       ELSE Created(r, "refresh", explicit, epoch')
    /\ UNCHANGED <<route, fence, scanActive, phase, turn, turns, closedProviders>>

\* Who awaits the same predecessor goes on in the order of the requests; one that
\* comes after its end may be ahead of them.
StartAwaited(r) ==
    /\ work[r].pc = "starting" /\ ~Live(work[r].previous)
    /\ \A s \in 1 .. r - 1 :
          ~(work[s].pc = "starting" /\ work[s].previous = work[r].previous)
    /\ Created(r, "refresh", work[r].explicit, work[r].epoch)
    /\ UNCHANGED <<epoch, route, fence, scanActive, phase, turn, turns, closedProviders>>

\* execute_local_control, UNLOAD_INFERENCE: new generations are fenced before
\* anything is awaited.
RequestUnload(r) ==
    /\ ~turn.active /\ ~scanActive /\ route.model
    /\ epoch' = epoch + 1
    /\ scanActive' = TRUE /\ phase' = "unloading_model" /\ fence' = "unloading"
    /\ Created(r, "unload", TRUE, epoch')
    /\ UNCHANGED <<route, turn, turns, closedProviders>>

\* _detach_owner and _request_shutdown cancel whatever task is current.
CancelCurrent ==
    /\ Live(currentTask)
    /\ CancelWork(currentTask)
    /\ UNCHANGED <<currentTask, epoch, route, fence, scanActive, phase, turn,
                   turns, closedProviders>>

-----------------------------------------------------------------------------
(* The tasks *)

\* _publish_provider_status: these states end the scan before they are published.
Status(state) ==
    /\ phase' = state
    /\ scanActive' = IF state \in {"ready", "blocked", "failed", "unloaded"}
                     THEN FALSE ELSE scanActive

Running(r, pc) == work[r].pc = pc /\ refreshLock # <<>> /\ Head(refreshLock) = r

Announce(r) ==
    /\ Running(r, "lock")
    /\ phase' = IF work[r].kind = "unload" THEN "unloading_model" ELSE "scanning"
    /\ scanActive' = TRUE
    /\ At(r, "announce")
    /\ UNCHANGED <<currentTask, epoch, route, fence, turn, turns, closedProviders>>

Announced(r) ==
    /\ Running(r, "announce")
    /\ At(r, IF work[r].kind = "unload" THEN "unload" ELSE "scan")
    /\ UNCHANGED <<currentTask, epoch, route, fence, scanActive, phase, turn,
                   turns, closedProviders>>

\* _recover_provider_inventory: a transient answer is retried after a status.
ScanRetries(r) ==
    /\ Running(r, "scan") /\ work[r].epoch = epoch
    /\ work[r].retries < MaxRetries
    /\ work' = [work EXCEPT ![r].pc = "retry", ![r].retries = @ + 1]
    /\ Status("scanning")
    /\ UNCHANGED <<currentTask, refreshLock, epoch, route, fence, turn, turns,
                   closedProviders>>

RetryDelayPasses(r) ==
    /\ Running(r, "retry")
    /\ At(r, "scan")
    /\ UNCHANGED <<currentTask, epoch, route, fence, scanActive, phase, turn,
                   turns, closedProviders>>

\* An answer for an old epoch is discarded, its provider closed.
ScanIsStale(r) ==
    /\ Running(r, "scan") /\ work[r].epoch # epoch
    /\ \/ Finished(r) /\ UNCHANGED closedProviders
       \/ At(r, "stale") /\ closedProviders' = closedProviders \cup {r}
    /\ UNCHANGED <<currentTask, epoch, route, fence, scanActive, phase, turn, turns>>

StaleIsClosed(r) ==
    /\ Running(r, "stale")
    /\ Finished(r)
    /\ UNCHANGED <<currentTask, epoch, route, fence, scanActive, phase, turn, turns,
                   closedProviders>>

\* The route loses its model, or is kept.
Drops(keeps) ==
    IF keeps THEN UNCHANGED <<route, fence>>
    ELSE route' = [route EXCEPT !.model = FALSE] /\ fence' = "unavailable"

\* The refresher raises: a rescan drops the route, a switch keeps it.  The epoch
\* is not looked at.
ScanFails(r) ==
    /\ Running(r, "scan")
    /\ Drops(work[r].explicit)
    /\ Status("failed")
    /\ At(r, "report")
    /\ UNCHANGED <<currentTask, epoch, turn, turns, closedProviders>>

Unavailable(r, keeps) ==
    /\ Drops(keeps)
    /\ \/ Status("failed")
       \/ (keeps => work[r].explicit) /\ Status("blocked")
    /\ At(r, "report")
    /\ UNCHANGED <<currentTask, epoch, turn, turns>>

\* Nothing that was asked for is there.  A switch keeps the route, and so does an
\* inventory that failed, if the route works; that is decided before another
\* provider that was discovered is closed, and the route is dropped after it.
ScanFindsNothing(r) ==
    /\ Running(r, "scan") /\ work[r].epoch = epoch
    /\ \E keeps \in BOOLEAN :
          /\ keeps => work[r].explicit \/ (fence = "none" /\ route.model)
          /\ work[r].explicit => keeps
          /\ \/ Unavailable(r, keeps) /\ UNCHANGED closedProviders
             \/ /\ At(r, IF keeps THEN "sparing" ELSE "dropping")
                /\ closedProviders' = closedProviders \cup {r}
                /\ UNCHANGED <<currentTask, epoch, route, fence, scanActive, phase, turn, turns>>

FoundIsClosed(r) ==
    /\ \/ Running(r, "sparing") /\ Unavailable(r, TRUE)
       \/ Running(r, "dropping") /\ Unavailable(r, FALSE)
    /\ UNCHANGED closedProviders

\* A response started meanwhile, or the choice could not be saved: the provider
\* is closed, and the status says so after it.
ScanIsRefused(r) ==
    /\ Running(r, "scan") /\ work[r].epoch = epoch
    /\ closedProviders' = closedProviders \cup {r}
    /\ At(r, "refusing")
    /\ UNCHANGED <<currentTask, epoch, route, fence, scanActive, phase, turn, turns>>

RefusedIsClosed(r) ==
    /\ Running(r, "refusing")
    /\ Status("failed")
    /\ At(r, "report")
    /\ UNCHANGED <<currentTask, epoch, route, fence, turn, turns, closedProviders>>

\* The route is replaced in one step; the one before is closed after the status
\* has been published.
\* Variants: the epoch, or whether a response is active, is not looked at again
\* after the inventory was awaited.
TakeRoute_AnyEpoch(r) ==
    /\ Running(r, "scan") /\ ~turn.active
    /\ route' = [object |-> r, model |-> TRUE]
    /\ fence' = "none"
    /\ Status("ready")
    /\ work' = [work EXCEPT ![r].pc = "committed", ![r].previous = route.object]
    /\ UNCHANGED <<currentTask, refreshLock, epoch, turn, turns, closedProviders>>

TakeRoute_DuringTurn(r) ==
    /\ Running(r, "scan") /\ work[r].epoch = epoch
    /\ route' = [object |-> r, model |-> TRUE]
    /\ fence' = "none"
    /\ Status("ready")
    /\ work' = [work EXCEPT ![r].pc = "committed", ![r].previous = route.object]
    /\ UNCHANGED <<currentTask, refreshLock, epoch, turn, turns, closedProviders>>

TakeRoute(r) ==
    /\ Running(r, "scan") /\ work[r].epoch = epoch /\ ~turn.active
    /\ route' = [object |-> r, model |-> TRUE]
    /\ fence' = "none"
    /\ Status("ready")
    /\ work' = [work EXCEPT ![r].pc = "committed", ![r].previous = route.object]
    /\ UNCHANGED <<currentTask, refreshLock, epoch, turn, turns, closedProviders>>

ClosePrevious(r) ==
    /\ Running(r, "committed")
    /\ closedProviders' = closedProviders \cup {work[r].previous}
    /\ Finished(r)
    /\ UNCHANGED <<currentTask, epoch, route, fence, scanActive, phase, turn, turns>>

\* An unload that is given up drops the route it was asked for, if that is still
\* there: the unload may have come to pass.
UnloadGivenUp(r) ==
    /\ \/ route.model /\ route' = [route EXCEPT !.model = FALSE] /\ fence' = "cancelled"
       \/ (route.model => route.object # work[r].previous) /\ UNCHANGED <<route, fence>>
    /\ Finished(r)
    /\ UNCHANGED <<scanActive, phase>>

\* A cancelled refresh says so unless a newer request has taken over.
Unwound(r) ==
    /\ Running(r, "unwind")
    /\ IF work[r].kind = "unload" THEN UnloadGivenUp(r)
       ELSE /\ UNCHANGED <<route, fence>>
            /\ IF work[r].epoch = epoch THEN Status("failed") /\ At(r, "report")
               ELSE Finished(r) /\ UNCHANGED <<scanActive, phase>>
    /\ UNCHANGED <<currentTask, epoch, turn, turns, closedProviders>>

\* _perform_model_unload, after the unloader answered within its time or not.
UnloadReturns(r) ==
    /\ Running(r, "unload")
    /\ \/ /\ work[r].epoch = epoch
          /\ route' = [route EXCEPT !.model = FALSE]
          /\ fence' = "unloaded"
          /\ Status("unloaded")
       \/ fence' = "none" /\ Status("failed") /\ UNCHANGED route
    /\ At(r, "report")
    /\ UNCHANGED <<currentTask, epoch, turn, turns, closedProviders>>

\* An answer for an old epoch is taken for a cancellation.
UnloadIsStale(r) ==
    /\ Running(r, "unload") /\ work[r].epoch # epoch
    /\ UnloadGivenUp(r)
    /\ UNCHANGED <<currentTask, epoch, turn, turns, closedProviders>>

Reported(r) ==
    /\ Running(r, "report")
    /\ Finished(r)
    /\ UNCHANGED <<currentTask, epoch, route, fence, scanActive, phase, turn,
                   turns, closedProviders>>

-----------------------------------------------------------------------------
(* Turns *)

\* submit_user_message takes the committed target; only the phase refuses it.
SubmitTurn ==
    /\ turns < MaxTurns /\ phase # "unloading_model"
    /\ turns' = turns + 1
    /\ turn' = [active |-> TRUE, object |-> route.object, model |-> route.model,
                fenced |-> fence # "none"]
    /\ UNCHANGED <<work, currentTask, refreshLock, epoch, route, fence,
                   scanActive, phase, closedProviders>>

\* _select_model: a fenced target fails the turn; one without a model takes the
\* first the provider lists, and the route remembers it if it is still the same.
SelectModel ==
    /\ turn.active /\ ~turn.model
    /\ IF turn.fenced THEN turn' = NoTurn /\ UNCHANGED route
       ELSE /\ turn' = [turn EXCEPT !.model = TRUE]
            /\ route' = IF turn.object = route.object THEN [route EXCEPT !.model = TRUE]
                        ELSE route
    /\ UNCHANGED <<work, currentTask, refreshLock, epoch, fence, scanActive,
                   phase, turns, closedProviders>>

TurnEnds ==
    /\ turn.active
    /\ turn' = NoTurn
    /\ UNCHANGED <<work, currentTask, refreshLock, epoch, route, fence,
                   scanActive, phase, turns, closedProviders>>

-----------------------------------------------------------------------------
WorkStep(r) ==
    \/ StartAwaited(r) \/ Announce(r) \/ Announced(r) \/ ScanRetries(r) \/ RetryDelayPasses(r)
    \/ ScanIsStale(r) \/ StaleIsClosed(r) \/ ScanFails(r)
    \/ ScanFindsNothing(r) \/ FoundIsClosed(r) \/ ScanIsRefused(r) \/ RefusedIsClosed(r)
    \/ TakeRoute(r) \/ ClosePrevious(r) \/ Unwound(r)
    \/ UnloadReturns(r) \/ UnloadIsStale(r) \/ Reported(r)

ProviderNext ==
    \/ \E r \in NextRequest : RequestUnload(r) \/ \E e \in BOOLEAN : RequestRefresh(r, e)
    \/ \E r \in Requests : WorkStep(r)
    \/ CancelCurrent \/ SubmitTurn \/ SelectModel \/ TurnEnds

ProviderSpec == ProviderInit /\ [][ProviderNext]_providerVars

-----------------------------------------------------------------------------
Fences == {"none", "unloading", "cancelled", "unloaded", "unavailable"}

ProviderTypeInv ==
    /\ \A r \in Requests : work[r].epoch \in 0 .. MaxRequests
    /\ currentTask \in 0 .. MaxRequests
    /\ ToSet(refreshLock) \subseteq Requests
    /\ route \in [object : 0 .. MaxRequests, model : BOOLEAN]
    /\ fence \in Fences

\* Neither the route nor the response that runs names a provider that was closed,
\* whatever was cancelled between the switch and the closing of the old one.
RouteIsUsable ==
    /\ route.object \notin closedProviders
    /\ turn.active => turn.object \notin closedProviders

\* The route never goes back: once a request has taken it, a result of an older one
\* that comes late, because it was ahead in the lock or behind, does not adopt it
\* (_recover_provider_inventory).
LateResultsAdoptNoRoute ==
    [][route'.object # route.object => route'.object > route.object]_providerVars

\* docs/DECISIONS.md:652-653, "stale results are closed and cannot overwrite newer
\* state": a route that the newest request has confirmed keeps its model until the
\* next request.  A rescan that was overtaken and raises drops it all the same.
StaleCannotOverwrite ==
    [][route.object = epoch /\ epoch # 0 /\ route.model => route'.model]_providerVars

-----------------------------------------------------------------------------
(* The inductive invariant of the route.                                    *)

Objects == {0} \cup Requests
Ending == {"stale", "sparing", "dropping", "refusing", "report", "done"}
WorkPcs == {"none", "starting", "lock", "announce", "scan", "retry", "unload", "unwind",
            "committed"} \cup Ending
Works == [kind : {"none", "refresh", "unload"}, pc : WorkPcs,
          epoch : Nat, explicit : BOOLEAN, retries : Nat, previous : Objects]

RouteTypes ==
    /\ work \in [Requests -> Works] /\ epoch \in Nat
    /\ currentTask \in Objects
    /\ route \in [object : Objects, model : BOOLEAN]
    /\ turn \in [active : BOOLEAN, object : Objects, model : BOOLEAN, fenced : BOOLEAN]
    /\ closedProviders \subseteq Objects

\* A provider is in use, or was, when its request took the route.
Taken(o) == o = 0 \/ work[o].pc \in {"committed", "done"}
Over(o) == Taken(o) \/ work[o].pc \in Ending

\* A response uses the route of the moment, and what is to be closed is not it.
RouteWasTaken ==
    /\ Taken(route.object) /\ \A o \in closedProviders : Over(o)
    /\ turn.active => turn.object = route.object
    /\ \A r \in Requests : work[r].pc = "committed" =>
           Taken(work[r].previous) /\ work[r].previous # route.object

RouteInv == RouteTypes /\ RouteWasTaken /\ RouteIsUsable

\* The epoch counts the requests, each remembers the one it was made in, and the
\* route was discovered by one of them.
RequestsAreCounted ==
    /\ epoch <= MaxRequests /\ route.object <= epoch
    /\ \A r \in Requests : /\ work[r].pc = "none" <=> epoch < r
                           /\ work[r].epoch = IF epoch < r THEN 0 ELSE r
    /\ refreshLock \in Seq(Requests) /\ fence \in Fences
=============================================================================
