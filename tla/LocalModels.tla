----------------------------- MODULE LocalModels -----------------------------
(***************************************************************************)
(* The local model server Sam may start and the models it may load there,  *)
(* and what it gives back when it quits: adapters/local_discovery.py       *)
(* (discover_local, bootstrap_service, unload_owned_model,                 *)
(* stop_owned_service, cleanup_discoveries) and run_runtime of cli.py,     *)
(* which keeps what is Sam's per application instance, so that a core the  *)
(* supervisor restarts still knows it.  The server is LM Studio's, driven  *)
(* through its CLI; other programs start, stop, load and unload as well.   *)
(* A look at it may fail, and so may a command, with or without an effect; *)
(* the CLI is taken to refuse a port or a model that is in use.            *)
(***************************************************************************)
EXTENDS Naturals

CONSTANTS
    Models,         \* installed conversational models
    Replaces,       \* whether others load anew a model that Sam once loaded
    MaxRefreshes,   \* bound: discoveries that may start and load
    MaxRestarts,    \* bound: restarts of the core
    MaxOutside      \* bound: what other programs do

VARIABLES
    server,         \* who started the server: "none", "sam" or "other"
    loaded,         \* who loaded each model: "none", "sam" or "other"
    step,           \* the await the core's task is at
    seen,           \* what that task has seen and done
    held,           \* started_by_sam and models_loaded_by_sam of the snapshots
    ledger,         \* the ownership kept for the application instance
    made,           \* what Sam ever created: models and "server"
    spent           \* what is used up of the bounds

localVars == <<server, loaded, step, seen, held, ledger, made, spent>>
world == <<server, loaded, made>>

Unowned == [started |-> FALSE, claims |-> {}]
Unseen == [model |-> "none", status |-> "unknown", running |-> FALSE, shown |-> {},
           started |-> FALSE, claims |-> {}, unload |-> FALSE, stop |-> FALSE]

LocalInit ==
    /\ server \in {"none", "other"} /\ loaded \in [Models -> {"none", "other"}]
    /\ step = "down" /\ seen = Unseen /\ held = Unowned /\ ledger = Unowned
    /\ made = {} /\ spent = [refreshes |-> 0, restarts |-> 0, outside |-> 0]

-----------------------------------------------------------------------------
(* Looks and commands *)

\* probe_service: what answers on the endpoint and which models it serves, or
\* nothing, within its deadline.
Shown == {m \in Models : loaded[m] # "none"}
Looks == {[running |-> FALSE, shown |-> {}]} \cup
         (IF server = "none" THEN {} ELSE {[running |-> TRUE, shown |-> Shown]})

Sees(s, look) == [s EXCEPT !.running = look.running, !.shown = look.shown]

StartsServer == server = "none" /\ server' = "sam" /\ made' = made \cup {"server"}
                /\ UNCHANGED loaded
LoadsModel(m) == loaded[m] = "none" /\ loaded' = [loaded EXCEPT ![m] = "sam"]
                 /\ made' = made \cup {m} /\ UNCHANGED server
UnloadsModel(m) == loaded' = [loaded EXCEPT ![m] = "none"] /\ UNCHANGED <<server, made>>
StopsServer == server' = "none" /\ UNCHANGED <<loaded, made>>

Goto(next, s) == step' = next /\ seen' = s

-----------------------------------------------------------------------------
(* The ledger *)

\* _restore_instance_resource_ownership: a claim holds while what it is about
\* is still seen.
Restored(s) == [started |-> s.started \/ (ledger.started /\ s.running),
                claims |-> s.claims \cup (ledger.claims \cap s.shown)]

\* _instance_resource_ownership
Proven(own, s) == [started |-> own.started /\ s.running, claims |-> own.claims \cap s.shown]

Merged(a, b) == [started |-> a.started \/ b.started, claims |-> a.claims \cup b.claims]
Without(own, m) == [own EXCEPT !.claims = @ \ {m}]

-----------------------------------------------------------------------------
(* discover_local *)

\* The discovery at the start of the core looks, and starts nothing.
CoreStarts ==
    /\ step = "down"
    /\ \E look \in Looks : held' = Restored(Sees(Unseen, look))
    /\ Goto("idle", Unseen)
    /\ UNCHANGED <<world, ledger, spent>>

\* The owner asks for a model; lms_status may say nothing.
Refresh(m) ==
    /\ step = "idle" /\ spent.refreshes < MaxRefreshes
    /\ spent' = [spent EXCEPT !.refreshes = @ + 1]
    /\ \E status \in {"unknown", IF server = "none" THEN "down" ELSE "up"} :
           Goto("probing", [Unseen EXCEPT !.model = m, !.status = status])
    /\ UNCHANGED <<world, held, ledger>>

\* What is left to do once the server and its models have been seen.
Ahead(s) == CASE s.running /\ s.model \in s.shown -> "recording"
              [] s.running -> "loading"
              [] s.status = "up" \/ s.started -> "waiting"
              [] OTHER -> "starting"

Probe ==
    /\ step \in {"probing", "waiting"}
    /\ \E look \in Looks : LET s == Sees(seen, look) IN Goto(Ahead(s), s)
    /\ UNCHANGED <<world, held, ledger, spent>>

\* bootstrap_service reports what fails and leaves the service as it is.
GivesUp == Goto("recording", seen)

\* The mark is set when the command has succeeded.
StartFails_Marked == Goto("recording", [seen EXCEPT !.started = TRUE])
StartFails == GivesUp

StartServer ==
    /\ step = "starting"
    /\ \/ StartsServer /\ Goto("waiting", [seen EXCEPT !.started = TRUE])
       \/ StartsServer /\ StartFails
       \/ UNCHANGED world /\ StartFails
    /\ UNCHANGED <<held, ledger, spent>>

ReadinessEnds ==
    /\ step = "waiting" /\ GivesUp
    /\ UNCHANGED <<world, held, ledger, spent>>

LoadModel ==
    /\ step = "loading"
    /\ \/ LoadsModel(seen.model) /\ Goto("confirming", seen)
       \/ LoadsModel(seen.model) /\ GivesUp
       \/ UNCHANGED world /\ GivesUp
    /\ UNCHANGED <<held, ledger, spent>>

\* Only a model that the endpoint then serves is Sam's.
Confirm ==
    /\ step = "confirming"
    /\ \E look \in Looks :
           LET s == Sees(seen, look) IN
           Goto("recording", IF s.model \in s.shown
                             THEN [s EXCEPT !.claims = @ \cup {s.model}] ELSE s)
    /\ UNCHANGED <<world, held, ledger, spent>>

\* refresh of run_runtime: the ledger follows what was seen, and a snapshot
\* that selects no route is dropped.
Record ==
    /\ step = "recording" /\ Goto("idle", Unseen)
    /\ LET own == Restored(seen) IN
       /\ ledger' = Proven(own, seen)
       /\ held' = IF seen.running /\ seen.model \in seen.shown THEN Merged(held, own) ELSE held
    /\ UNCHANGED <<world, spent>>

Refreshing == {"probing", "starting", "waiting", "loading", "confirming"}

\* A newer request or the end of the turn cancels the task, and kills the CLI.
CancelRefresh ==
    /\ step \in Refreshing /\ Goto("idle", Unseen)
    /\ \/ step = "starting" /\ StartsServer
       \/ step = "loading" /\ LoadsModel(seen.model)
       \/ UNCHANGED world
    /\ UNCHANGED <<held, ledger, spent>>

-----------------------------------------------------------------------------
(* Giving back *)

\* unload_owned_model looks before and after its command.
CanUnload(m, look) == look.running /\ m \in look.shown

\* control.model.unload, for whoever loaded the model.
OwnerUnload(m) ==
    /\ step = "idle"
    /\ \E look \in Looks :
           CASE CanUnload(m, look) -> Goto("unloading", [Unseen EXCEPT !.model = m])
                                      /\ UNCHANGED <<held, ledger>>
             [] look.running /\ m \notin look.shown -> held' = Without(held, m)
                    /\ ledger' = Without(ledger, m) /\ UNCHANGED <<step, seen>>
             [] OTHER -> FALSE
    /\ UNCHANGED <<world, spent>>

UnloadModel ==
    /\ step = "unloading"
    /\ \/ UnloadsModel(seen.model) /\ step' \in {"unloaded", "idle"}
       \/ UNCHANGED world /\ step' = "idle"
    /\ seen' = IF step' = "idle" THEN Unseen ELSE seen
    /\ UNCHANGED <<held, ledger, spent>>

ConfirmUnload ==
    /\ step = "unloaded" /\ Goto("idle", Unseen)
    /\ \E look \in Looks :
           IF look.running /\ seen.model \notin look.shown
           THEN held' = Without(held, seen.model) /\ ledger' = Without(ledger, seen.model)
           ELSE UNCHANGED <<held, ledger>>
    /\ UNCHANGED <<world, spent>>

\* The runtime has ended with the intent to quit; the owner's settings and the
\* flags of the session say what is given back.
Quit ==
    /\ step \in {"idle", "unloading", "unloaded"} \cup Refreshing
    /\ \E unload, stop \in BOOLEAN :
           Goto("closing", [Unseen EXCEPT !.unload = unload, !.stop = stop])
    /\ UNCHANGED <<world, held, ledger, spent>>

\* Every claimed model in turn, with a look before the command.
CloseModel(m) ==
    /\ step = "closing" /\ seen.unload /\ m \in held.claims
    /\ \E look \in Looks :
           IF CanUnload(m, look)
           THEN Goto("releasing", [seen EXCEPT !.model = m]) /\ UNCHANGED held
           ELSE held' = Without(held, m) /\ UNCHANGED <<step, seen>>
    /\ UNCHANGED <<world, ledger, spent>>

ReleaseModel ==
    /\ step = "releasing" /\ Goto("closing", seen)
    /\ UnloadsModel(seen.model) \/ UNCHANGED world
    /\ held' = Without(held, seen.model)
    /\ UNCHANGED <<ledger, spent>>

CloseServer ==
    /\ step = "closing" /\ seen.stop /\ held.started
    /\ seen.unload => held.claims = {}
    /\ StopsServer \/ UNCHANGED world
    /\ held' = [held EXCEPT !.started = FALSE]
    /\ UNCHANGED <<step, seen, ledger, spent>>

\* All is done or the time is up; the instance is over.
QuitEnds ==
    /\ step \in {"closing", "releasing"} /\ Goto("quit", Unseen)
    /\ held' = Unowned /\ ledger' = Unowned
    /\ UNCHANGED <<world, spent>>

\* The core crashes or is restarted: nothing is given back.
CoreEnds ==
    /\ step \notin {"down", "quit"} /\ spent.restarts < MaxRestarts
    /\ spent' = [spent EXCEPT !.restarts = @ + 1]
    /\ Goto("down", Unseen) /\ held' = Unowned
    /\ UNCHANGED <<world, ledger>>

-----------------------------------------------------------------------------
(* Other programs *)

Outside ==
    /\ spent.outside < MaxOutside /\ step # "quit"
    /\ spent' = [spent EXCEPT !.outside = @ + 1]
    /\ \/ server = "none" /\ server' = "other" /\ UNCHANGED <<loaded, made>>
       \/ server # "none" /\ StopsServer
       \/ \E m \in Models :
             \/ /\ loaded[m] = "none" /\ (Replaces \/ m \notin made)
                /\ loaded' = [loaded EXCEPT ![m] = "other"] /\ UNCHANGED <<server, made>>
             \/ loaded[m] # "none" /\ UnloadsModel(m)
    /\ UNCHANGED <<step, seen, held, ledger>>

-----------------------------------------------------------------------------
LocalNext ==
    \/ CoreStarts \/ Probe \/ StartServer \/ ReadinessEnds \/ LoadModel \/ Confirm \/ Record
    \/ CancelRefresh \/ UnloadModel \/ ConfirmUnload \/ Quit \/ ReleaseModel \/ CloseServer
    \/ QuitEnds \/ CoreEnds \/ Outside
    \/ \E m \in Models : Refresh(m) \/ OwnerUnload(m) \/ CloseModel(m)

LocalSpec == LocalInit /\ [][LocalNext]_localVars

-----------------------------------------------------------------------------
\* Sam claims no server it never started and no model that another program loaded:
\* not in the task under way, in its snapshots or in the ledger that outlives a
\* restart of the core, whatever looks and commands failed on the way
\* (bootstrap_service, cleanup_discoveries and run_runtime).
IsOwn(own) == /\ own.started => "server" \in made
              /\ \A m \in own.claims : loaded[m] # "other"

ClaimsAreOwn == IsOwn(held) /\ IsOwn(ledger) /\ IsOwn(seen)

\* docs/ARCHITECTURE.md:485-486, "then stop a service only when Sam started it": no
\* step of Sam's stops a server that another program started.  Sam keeps its claim
\* when its own server ends and another program starts one in its place.
OnlySamsServerIsStopped ==
    [][server = "other" /\ UNCHANGED spent => server' = "other"]_localVars

\* A claim ends when a refresh sees the model absent; not held: the older
\* snapshots keep it, and cleanup merges them all.
SeenAbsentIsUnclaimed ==
    [][step = "recording" /\ step' = "idle" /\ seen.running =>
          held'.claims \subseteq seen.shown]_localVars

-----------------------------------------------------------------------------
(* The inductive invariant of the claims                                    *)

Claims == [started : BOOLEAN, claims : SUBSET Models]
LocalTypes ==
    /\ server \in {"none", "sam", "other"} /\ loaded \in [Models -> {"none", "sam", "other"}]
    /\ held \in Claims /\ ledger \in Claims
    /\ seen \in [model : Models \cup {"none"}, status : {"unknown", "down", "up"},
                 running : BOOLEAN, shown : SUBSET Models, started : BOOLEAN,
                 claims : SUBSET Models, unload : BOOLEAN, stop : BOOLEAN]
    /\ step \in Refreshing => seen.model \in Models

\* A model Sam once loaded is not another program's, unless that loads it anew.
MadeIsSams == \A m \in Models \cap made : loaded[m] # "other"

\* What is claimed was made, by whom and however long ago the claim was made.
IsMade(own) == own.claims \subseteq made /\ (own.started => "server" \in made)

ClaimsInv ==
    /\ LocalTypes /\ MadeIsSams /\ IsMade(held) /\ IsMade(ledger) /\ IsMade(seen)
    /\ step = "confirming" => seen.model \in made
=============================================================================
