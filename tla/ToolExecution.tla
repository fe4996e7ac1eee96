---------------------------- MODULE ToolExecution ----------------------------
(***************************************************************************)
(* The tool executor, its approvals and the capability authority           *)
(* (src/sam_ambient/core/tools/executor.py, authority.py), with the part   *)
(* of the runtime that says which generation is current and cancels its    *)
(* token.                                                                  *)
(*                                                                         *)
(* A caller is an asyncio task inside ToolExecutor.execute.  It runs alone *)
(* until it awaits; pc names the await: the publication of an event, the   *)
(* owner's approval, the tool, or the leader's future.  A publication may  *)
(* wait while a subscriber's queue is full, so anything can happen in it.  *)
(* Its events reach the first subscribers before it waits.                 *)
(*                                                                         *)
(* Invocations are compared by their authority identity and approvals by   *)
(* generation and tool_call_id (session and turn go with the generation).  *)
(* Providers number their calls per turn, so two generations may use one   *)
(* tool_call_id.  Arguments, results and payloads are left out; that the   *)
(* registry or the policy refuses a call is a choice.                      *)
(***************************************************************************)
EXTENDS Naturals, Sequences, FiniteSets

CONSTANTS
    Callers,            \* tasks that call execute, once each
    Invocations, Generations, CallIds,
    InvocationOf,       \* what each caller executes
    GenerationOf,       \* the generation of each invocation
    CallIdOf,           \* the tool_call_id of each invocation
    Policies,           \* the sets of invocations a policy may want approved
    Cancellable,        \* invocations whose tool supports_cancellation
    OwnerActions,       \* generations of owner actions; the others are model turns
    MaxHistory,         \* config.max_history
    MaxEpoch,           \* bound: revocations and restorations
    None

ASSUME ToolAssumption ==
    /\ InvocationOf \in [Callers -> Invocations]
    /\ GenerationOf \in [Invocations -> Generations]
    /\ CallIdOf \in [Invocations -> CallIds]
    /\ Cancellable \subseteq Invocations
    /\ Policies \subseteq SUBSET Invocations
    /\ OwnerActions \subseteq Generations
    /\ MaxHistory \in Nat \ {0}
    /\ MaxEpoch \in Nat
    /\ None \notin Callers

VARIABLES
    begun,          \* generations that ever were current
    current,        \* generations is_current accepts
    token,          \* is the generation's CancellationToken cancelled
    scheduled,      \* callers a scheduled task.cancel will reach
    authority,      \* CapabilityAuthority._active
    epoch,          \* CapabilityAuthority._epoch
    sensitive,      \* what CapabilityPolicy.authorize wants approved, fixed
                    \* by the configuration the runtime started with
    pc,             \* the await each caller is at
    reported,       \* the status in the terminal event it is publishing
    lease,          \* the epoch of its lease
    decision,       \* its approval future
    pending,        \* ApprovalBroker._pending: the caller per tool_call_id
    inflight,       \* _inflight: the leading caller of each invocation
    cancellables,   \* _active_cancellable
    history,        \* _history: the invocations whose results are kept, in order
    forgotten,      \* invocations that left the history
    runs,           \* how often the tool of each invocation was entered
    published,      \* how many terminal tool events each invocation had
    granted         \* what the owner approved: generation and tool_call_id

turns == <<begun, current, sensitive>>
capability == <<authority, epoch>>
memory == <<history, forgotten>>
books == <<pending, decision, inflight, cancellables, memory>>
call == <<pc, reported, published>>
vars == <<turns, token, scheduled, capability, call, lease, books, runs, granted>>

Statuses == {"COMPLETED", "FAILED", "DENIED", "CANCELLED"}
\* Awaits of _execute_once.
Inside == {"requesting", "authorizing", "asking", "starting", "executing", "unwinding",
           "finishing", "reporting"}
Pcs == Inside \cup {"idle", "following", "done"}

Gen(c) == GenerationOf[InvocationOf[c]]
Correlation(i) == <<GenerationOf[i], CallIdOf[i]>>
IdOf(c) == CallIdOf[InvocationOf[c]]

\* The callers whose cancellation callback a generation's token holds.
CallbacksOf(g) == {c \in Callers : Gen(c) = g /\ pc[c] \in Inside}

-----------------------------------------------------------------------------
(* Ends of a call.                                                          *)

\* _is_current
IsCurrent(c) == Gen(c) \in current

\* CapabilityAuthority.is_valid
LeaseIsValid(c) == authority /\ lease[c] = epoch

\* The ending of execute: a call that returned is remembered, whatever its
\* status, and the oldest one goes.
Remember(c, how) ==
    IF how = "raised" THEN UNCHANGED memory
    ELSE IF Len(history) < MaxHistory
    THEN history' = Append(history, InvocationOf[c]) /\ UNCHANGED forgotten
    ELSE /\ history' = Append(Tail(history), InvocationOf[c])
         /\ forgotten' = forgotten \cup {Head(history)}

\* ApprovalBroker.abandon: by tool_call_id, whoever opened it.
Abandon(id) ==
    /\ pending' = [pending EXCEPT ![id] = None]
    /\ decision' = [c \in Callers |->
          IF c = pending[id] /\ decision[c] = "open" THEN "abandoned" ELSE decision[c]]

Leave_KeepsApproval(c, how, arriving) ==
    /\ pc' = [d \in Callers |->
          IF d = c \/ (pc[d] = "following" /\ InvocationOf[d] = InvocationOf[c])
          THEN "done" ELSE pc[d]]
    /\ reported' = [reported EXCEPT ![c] = "none"]
    /\ inflight' = [inflight EXCEPT ![InvocationOf[c]] = None]
    /\ cancellables' = cancellables \ {c}
    /\ scheduled' = {d \in arriving : pc'[d] # "done"}
    /\ Remember(c, how)
    /\ UNCHANGED <<published, pending, decision>>

Leave_StrandsFollowers(c, how, arriving) ==
    /\ pc' = [pc EXCEPT ![c] = "done"]
    /\ reported' = [reported EXCEPT ![c] = "none"]
    /\ inflight' = [inflight EXCEPT ![InvocationOf[c]] = None]
    /\ cancellables' = cancellables \ {c}
    /\ scheduled' = {d \in arriving : pc'[d] # "done"}
    /\ Remember(c, how)
    /\ Abandon(IdOf(c))
    /\ UNCHANGED published

\* The finally block of _execute_once and the rest of execute, without an
\* await: the callers that follow get what the leader got.
Leave(c, how, arriving) ==
    /\ pc' = [d \in Callers |->
          IF d = c \/ (pc[d] = "following" /\ InvocationOf[d] = InvocationOf[c])
          THEN "done" ELSE pc[d]]
    /\ reported' = [reported EXCEPT ![c] = "none"]
    /\ inflight' = [inflight EXCEPT ![InvocationOf[c]] = None]
    /\ cancellables' = cancellables \ {c}
    /\ scheduled' = {d \in arriving : pc'[d] # "done"}
    /\ Remember(c, how)
    /\ Abandon(IdOf(c))
    /\ UNCHANGED published

\* _finish, from the try block ("finishing") or from a handler ("reporting").
Report(c, s, place, arriving) ==
    IF ~IsCurrent(c)
    THEN Leave(c, "stale", arriving)
    ELSE /\ published' = [published EXCEPT ![InvocationOf[c]] = @ + 1]
         /\ reported' = [reported EXCEPT ![c] = s]
         /\ pc' = [pc EXCEPT ![c] = place]
         /\ scheduled' = arriving
         /\ UNCHANGED books

Finish(c, s) == Report(c, s, "finishing", scheduled) /\ UNCHANGED token
FinishInHandler(c, s) == Report(c, s, "reporting", scheduled) /\ UNCHANGED token

\* except asyncio.CancelledError: swallowed; the token is cancelled if it was
\* not, which reaches every other callback it holds.
HandleCancelled(c, arriving) ==
    /\ token' = [token EXCEPT ![Gen(c)] = TRUE]
    /\ Report(c, "CANCELLED", "reporting",
              arriving \cup (IF token[Gen(c)] THEN {} ELSE CallbacksOf(Gen(c)) \ {c}))

Proceed(c, place) ==
    /\ pc' = [pc EXCEPT ![c] = place]
    /\ UNCHANGED <<reported, published, scheduled, token>>

-----------------------------------------------------------------------------
Init ==
    /\ begun = {}
    /\ current = {}
    /\ token = [g \in Generations |-> FALSE]
    /\ scheduled = {}
    /\ authority = TRUE
    /\ epoch = 0
    /\ sensitive \in Policies
    /\ pc = [c \in Callers |-> "idle"]
    /\ reported = [c \in Callers |-> "none"]
    /\ lease = [c \in Callers |-> 0]
    /\ decision = [c \in Callers |-> "none"]
    /\ pending = [id \in CallIds |-> None]
    /\ inflight = [i \in Invocations |-> None]
    /\ cancellables = {}
    /\ history = <<>>
    /\ forgotten = {}
    /\ runs = [i \in Invocations |-> 0]
    /\ published = [i \in Invocations |-> 0]
    /\ granted = {}

-----------------------------------------------------------------------------
(* execute                                                                  *)

Remembered(i) == \E n \in DOMAIN history : history[n] = i

\* A task.cancel that superseding a turn scheduled arrives in the next pass of
\* the event loop; the new turn calls a tool only after many passes.  Owner
\* actions are tasks beside the turns.
CallerStarts(c) ==
    /\ pc[c] = "idle"
    /\ Gen(c) \in begun
    /\ \A d \in scheduled : {Gen(c), Gen(d)} \cap OwnerActions = {} => Gen(d) = Gen(c)

\* Answered at once: the generation is over, or the result is known.
ExecuteAnswers(c) ==
    /\ CallerStarts(c)
    /\ ~IsCurrent(c) \/ Remembered(InvocationOf[c])
    /\ pc' = [pc EXCEPT ![c] = "done"]
    /\ UNCHANGED <<reported, published, books, token, scheduled, lease, runs>>

ExecuteFollows(c) ==
    /\ CallerStarts(c)
    /\ IsCurrent(c)
    /\ ~Remembered(InvocationOf[c])
    /\ inflight[InvocationOf[c]] # None
    /\ pc' = [pc EXCEPT ![c] = "following"]
    /\ UNCHANGED <<reported, published, books, token, scheduled, lease, runs>>

ExecuteLeads_Always(c) ==
    /\ CallerStarts(c)
    /\ IsCurrent(c)
    /\ ~Remembered(InvocationOf[c])
    /\ inflight' = [inflight EXCEPT ![InvocationOf[c]] = c]
    /\ pc' = [pc EXCEPT ![c] = "requesting"]
    /\ scheduled' = scheduled \cup (IF token[Gen(c)] THEN {c} ELSE {})
    /\ UNCHANGED <<reported, published, pending, decision, cancellables, memory, token,
                   lease, runs>>

\* A token that is cancelled already calls the new callback at once.
ExecuteLeads(c) ==
    /\ CallerStarts(c)
    /\ IsCurrent(c)
    /\ ~Remembered(InvocationOf[c])
    /\ inflight[InvocationOf[c]] = None
    /\ inflight' = [inflight EXCEPT ![InvocationOf[c]] = c]
    /\ pc' = [pc EXCEPT ![c] = "requesting"]
    /\ scheduled' = scheduled \cup (IF token[Gen(c)] THEN {c} ELSE {})
    /\ UNCHANGED <<reported, published, pending, decision, cancellables, memory, token,
                   lease, runs>>

-----------------------------------------------------------------------------
(* _execute_once                                                            *)

\* issue_lease, then the registry and owner_only; any of them may refuse.
Requested(c) ==
    /\ pc[c] = "requesting"
    /\ \/ /\ Finish(c, "DENIED")
          /\ UNCHANGED lease
       \/ /\ authority
          /\ FinishInHandler(c, "FAILED")
          /\ UNCHANGED lease
       \/ /\ authority
          /\ lease' = [lease EXCEPT ![c] = epoch]
          /\ Proceed(c, "authorizing")
          /\ UNCHANGED books
    /\ UNCHANGED runs

\* From the decision to the publication of TOOL_STARTED.
Admit(c) ==
    IF ~LeaseIsValid(c) THEN FinishInHandler(c, "DENIED")
    ELSE IF token[Gen(c)] THEN HandleCancelled(c, scheduled)
    ELSE IF ~IsCurrent(c) THEN Leave(c, "stale", scheduled) /\ UNCHANGED token
    ELSE /\ Proceed(c, "starting")
         /\ cancellables' = cancellables \cup ({c} \cap {d \in Callers : InvocationOf[d] \in Cancellable})
         /\ UNCHANGED <<pending, decision, inflight, memory>>

\* policy.authorize; ApprovalBroker.open raises when the id is taken.
Authorized(c) ==
    /\ pc[c] = "authorizing"
    /\ \/ Finish(c, "DENIED")
       \/ InvocationOf[c] \notin sensitive /\ Admit(c)
       \/ /\ InvocationOf[c] \in sensitive
          /\ pending[IdOf(c)] # None
          /\ FinishInHandler(c, "FAILED")
       \/ /\ InvocationOf[c] \in sensitive
          /\ pending[IdOf(c)] = None
          /\ pending' = [pending EXCEPT ![IdOf(c)] = c]
          /\ decision' = [decision EXCEPT ![c] = "open"]
          /\ Proceed(c, "asking")
          /\ UNCHANGED <<inflight, cancellables, memory>>
    /\ UNCHANGED <<lease, runs>>

\* _request_approval returns, times out or is cancelled under the caller.
Asked(c) ==
    /\ pc[c] = "asking"
    /\ \/ decision[c] = "yes" /\ Admit(c)
       \/ decision[c] \in {"no", "open"} /\ Finish(c, "DENIED")
       \/ decision[c] = "abandoned" /\ HandleCancelled(c, scheduled)
    /\ UNCHANGED <<lease, runs>>

Started_Unchecked(c) ==
    /\ pc[c] = "starting"
    /\ runs' = [runs EXCEPT ![InvocationOf[c]] = @ + 1]
    /\ Proceed(c, "executing")
    /\ UNCHANGED <<books, lease>>

\* TOOL_STARTED is out: everything is checked again, then the tool is entered.
Started(c) ==
    /\ pc[c] = "starting"
    /\ \/ /\ LeaseIsValid(c) /\ ~token[Gen(c)] /\ IsCurrent(c)
          /\ runs' = [runs EXCEPT ![InvocationOf[c]] = @ + 1]
          /\ Proceed(c, "executing")
          /\ UNCHANGED books
       \/ /\ ~LeaseIsValid(c)
          /\ FinishInHandler(c, IF c \in cancellables THEN "CANCELLED" ELSE "DENIED")
          /\ UNCHANGED runs
       \/ /\ LeaseIsValid(c) /\ token[Gen(c)]
          /\ HandleCancelled(c, scheduled)
          /\ UNCHANGED runs
       \/ /\ LeaseIsValid(c) /\ ~token[Gen(c)] /\ ~IsCurrent(c)
          /\ Leave(c, "stale", scheduled)
          /\ UNCHANGED <<runs, token>>
    /\ UNCHANGED lease

\* The tool answered.
ToolReturns(c) ==
    /\ pc[c] = "executing"
    /\ IF token[Gen(c)] THEN HandleCancelled(c, scheduled)
       ELSE IF ~LeaseIsValid(c) THEN Finish(c, "CANCELLED")
       ELSE IF ~IsCurrent(c) THEN Leave(c, "stale", scheduled) /\ UNCHANGED token
       ELSE Finish(c, "COMPLETED")
    /\ UNCHANGED <<lease, runs>>

\* It ran out of time, raised, or raised OperationCancelled for its token.
ToolFails(c) ==
    /\ pc[c] = "executing"
    /\ \/ Finish(c, "FAILED")
       \/ FinishInHandler(c, "FAILED")
       \/ token[Gen(c)] /\ HandleCancelled(c, scheduled)
    /\ UNCHANGED <<lease, runs>>

\* A tool told to stop may take its time: process.run waits for the process.
Unwound(c) ==
    /\ pc[c] = "unwinding"
    /\ HandleCancelled(c, scheduled)
    /\ UNCHANGED <<lease, runs>>

Reported(c) ==
    /\ pc[c] \in {"finishing", "reporting"}
    /\ Leave(c, "reported", scheduled)
    /\ UNCHANGED <<token, lease, runs>>

\* task.cancel arrives.  A handler that is publishing has no handler of its
\* own: the call raises, and nothing is remembered.
CancelArrives(c) ==
    /\ c \in scheduled
    /\ \/ /\ pc[c] \in Inside \ {"executing", "reporting"}
          /\ HandleCancelled(c, scheduled \ {c})
       \/ /\ pc[c] = "executing"
          /\ pc' = [pc EXCEPT ![c] = "unwinding"]
          /\ scheduled' = scheduled \ {c}
          /\ UNCHANGED <<reported, published, books, token>>
       \/ /\ pc[c] = "reporting"
          /\ Leave(c, "raised", scheduled)
          /\ UNCHANGED token
       \/ /\ pc[c] = "following"
          /\ pc' = [pc EXCEPT ![c] = "done"]
          /\ scheduled' = scheduled \ {c}
          /\ UNCHANGED <<reported, published, books, token>>
    /\ UNCHANGED <<lease, runs>>

CallStep(c) ==
    /\ \/ ExecuteAnswers(c) \/ ExecuteFollows(c) \/ ExecuteLeads(c)
       \/ Requested(c) \/ Authorized(c) \/ Asked(c) \/ Started(c)
       \/ ToolReturns(c) \/ ToolFails(c) \/ Unwound(c) \/ Reported(c)
       \/ CancelArrives(c)
    /\ UNCHANGED <<turns, capability, granted>>

-----------------------------------------------------------------------------
(* The owner and the runtime.                                               *)

\* CancellationToken.cancel for some generations, and task.cancel for callers.
Cancel(gs, callers) ==
    /\ token' = [g \in Generations |-> token[g] \/ g \in gs]
    /\ scheduled' = scheduled \cup callers
          \cup UNION {CallbacksOf(g) : g \in {h \in gs : ~token[h]}}

\* A new turn supersedes the one before it, whose token and task are cancelled.
\* An owner action runs beside the turns: it supersedes nothing and is current as
\* long as OwnerActions lists it (_is_current_tool).
Begin(g) ==
    LET superseded == IF g \in OwnerActions THEN {} ELSE current \ OwnerActions
    IN  /\ g \notin begun
        /\ begun' = begun \cup {g}
        /\ current' = (current \ superseded) \cup {g}
        /\ Cancel(superseded, {c \in Callers :
              Gen(c) \in superseded /\ pc[c] \in Inside \cup {"following"}})
        /\ UNCHANGED <<sensitive, capability, call, lease, books, runs, granted>>

\* The owner's stop (MODEL_GENERATION), or the cancellation of an owner action,
\* by its client or because its connection, which may be retired by then, is
\* detached.
Stop(g) ==
    /\ g \in current \/ g \in OwnerActions \cap begun
    /\ ~token[g]
    /\ Cancel({g}, {})
    /\ UNCHANGED <<turns, capability, call, lease, books, runs, granted>>

\* The generation is over: is_current no longer accepts it.  A turn's own task
\* makes its calls, so it ends outside of them; an owner action is rejected when
\* its connection retires, whatever it is doing.
Withdraw(g) ==
    /\ g \in current
    /\ g \in OwnerActions \/ CallbacksOf(g) = {}
    /\ current' = current \ {g}
    /\ UNCHANGED <<begun, sensitive, token, scheduled, capability, call, lease, books, runs,
                   granted>>

Decide_ByCallId(i, approved) ==
    LET c == pending[CallIdOf[i]]
    IN  /\ c # None
        /\ pc[c] = "asking" /\ decision[c] = "open"
        /\ decision' = [decision EXCEPT ![c] = IF approved THEN "yes" ELSE "no"]
        /\ granted' = granted \cup (IF approved THEN {Correlation(i)} ELSE {})
        /\ UNCHANGED <<turns, token, scheduled, capability, call, lease, pending, inflight,
                       cancellables, memory, runs>>

\* ApprovalBroker.resolve, with the correlation of an invocation the owner was
\* asked about now or earlier.
Decide(i, approved) ==
    LET c == pending[CallIdOf[i]]
    IN  /\ c # None
        /\ Correlation(InvocationOf[c]) = Correlation(i)
        /\ pc[c] = "asking" /\ decision[c] = "open"
        /\ decision' = [decision EXCEPT ![c] = IF approved THEN "yes" ELSE "no"]
        /\ granted' = granted \cup (IF approved THEN {Correlation(i)} ELSE {})
        /\ UNCHANGED <<turns, token, scheduled, capability, call, lease, pending, inflight,
                       cancellables, memory, runs>>

Revoke_LeavesRunning ==
    /\ authority
    /\ epoch < MaxEpoch
    /\ authority' = FALSE
    /\ epoch' = epoch + 1
    /\ decision' = [c \in Callers |->
          IF decision[c] = "open" /\ pending[IdOf(c)] = c THEN "no" ELSE decision[c]]
    /\ UNCHANGED <<turns, token, scheduled, call, lease, pending, inflight, cancellables,
                   memory, runs, granted>>

\* CapabilityAuthority.revoke and _on_authority_revoked.
Revoke ==
    /\ authority
    /\ epoch < MaxEpoch
    /\ authority' = FALSE
    /\ epoch' = epoch + 1
    /\ decision' = [c \in Callers |->
          IF decision[c] = "open" /\ pending[IdOf(c)] = c THEN "no" ELSE decision[c]]
    /\ Cancel({Gen(c) : c \in cancellables}, {})
    /\ UNCHANGED <<turns, call, lease, pending, inflight, cancellables, memory, runs, granted>>

\* restore_trusted
Restore ==
    /\ ~authority
    /\ epoch < MaxEpoch
    /\ authority' = TRUE
    /\ epoch' = epoch + 1
    /\ UNCHANGED <<turns, token, scheduled, call, lease, books, runs, granted>>

-----------------------------------------------------------------------------
Next ==
    \/ \E c \in Callers : CallStep(c)
    \/ \E g \in Generations : Begin(g) \/ Stop(g) \/ Withdraw(g)
    \/ \E i \in Invocations, approved \in BOOLEAN : Decide(i, approved)
    \/ Revoke \/ Restore

\* The event loop runs every task that can go on, and the tool's and the
\* approval's timeouts end every wait of a caller.
Fairness == \A c \in Callers : WF_vars(CallStep(c))

Spec == Init /\ [][Next]_vars /\ Fairness

-----------------------------------------------------------------------------
(* Properties.                                                              *)

TypeInv ==
    /\ current \subseteq begun /\ begun \subseteq Generations
    /\ token \in [Generations -> BOOLEAN]
    /\ scheduled \subseteq Callers
    /\ authority \in BOOLEAN
    /\ epoch \in 0 .. MaxEpoch
    /\ sensitive \in Policies
    /\ pc \in [Callers -> Pcs]
    /\ reported \in [Callers -> Statuses \cup {"none"}]
    /\ lease \in [Callers -> 0 .. MaxEpoch]
    /\ decision \in [Callers -> {"none", "open", "yes", "no", "abandoned"}]
    /\ pending \in [CallIds -> Callers \cup {None}]
    /\ inflight \in [Invocations -> Callers \cup {None}]
    /\ cancellables \subseteq Callers
    /\ history \in Seq(Invocations) /\ Len(history) <= MaxHistory
    /\ forgotten \subseteq Invocations
    /\ runs \in [Invocations -> Nat]
    /\ published \in [Invocations -> Nat]
    /\ granted \subseteq Generations \X CallIds

Enters(c) == pc[c] # "executing" /\ pc'[c] = "executing"
Completes(c) == pc[c] = "executing" /\ reported'[c] = "COMPLETED"

\* A tool is entered, and its result is reported, only while the authority the
\* call was requested under is still in force, its generation is current and
\* nobody told it to stop: never on the strength of what was true before the
\* owner was asked, TOOL_STARTED was published or the tool was waited for.
ActsWithAuthority ==
    [][\A c \in Callers : Enters(c) \/ Completes(c) =>
          authority /\ lease[c] = epoch /\ Gen(c) \in current /\ ~token[Gen(c)]]_vars

\* The tool of a sensitive invocation runs only after the owner approved that
\* very call; an approval for an older generation's call of the same
\* tool_call_id does not count.
RunsAreApproved ==
    \A i \in sensitive : runs[i] > 0 => Correlation(i) \in granted

\* Duplicate calls of one invocation, together or one after the other, run its
\* tool at most once as long as the history remembers it.
RunsAtMostOnce ==
    \A i \in Invocations : i \notin forgotten => runs[i] <= 1

\* Revocation reaches every tool that can be cancelled: one that still runs
\* under an authority that is gone has been told to stop.
RevocationReachesTools ==
    \A c \in Callers :
        /\ pc[c] = "executing" /\ InvocationOf[c] \in Cancellable
        /\ ~(authority /\ lease[c] = epoch)
        => token[Gen(c)]

\* Nothing is left behind for a call that is over: an approval entry, an
\* in-flight entry or a cancellable entry belongs to a caller that is inside.
NothingLeftBehind ==
    /\ \A id \in CallIds : pending[id] # None =>
          pc[pending[id]] \in Inside /\ IdOf(pending[id]) = id
    /\ \A i \in Invocations : inflight[i] # None =>
          pc[inflight[i]] \in Inside /\ InvocationOf[inflight[i]] = i
    /\ \A c \in Callers :
          /\ c \in cancellables => pc[c] \in Inside
          /\ pc[c] = "following" => inflight[InvocationOf[c]] # None

\* Every call returns or raises: a follower is never left waiting for a leader
\* that was cancelled, and no approval or tool is waited for without end.
CallsReturn ==
    \A c \in Callers : pc[c] \notin {"idle", "done"} ~> pc[c] = "done"

-----------------------------------------------------------------------------
(* A claim of the documents that the code does not keep.                    *)

\* "one applicable terminal event (completed, failed, cancelled, or denied)".
OneTerminalToolEvent ==
    \A i \in Invocations : i \notin forgotten => published[i] <= 1

-----------------------------------------------------------------------------
(* What makes the invariants inductive (module ToolExecutionProofs).        *)

\* A call inside _execute_once leads its invocation, which has no result yet.
LeaderInv ==
    \A c \in Callers : pc[c] \in Inside =>
        inflight[InvocationOf[c]] = c /\ ~Remembered(InvocationOf[c])

\* A status is reported while its event is published, and task.cancel comes
\* only with the cancellation of the token.
ReportInv ==
    /\ \A c \in Callers : reported[c] # "none" => pc[c] \in {"finishing", "reporting"}
    /\ \A c \in scheduled : token[Gen(c)]

\* The owner's yes, and the passage past it, are for that very call.
ApprovalInv ==
    \A c \in Callers :
        /\ InvocationOf[c] \in sensitive
        /\ decision[c] = "yes" \/ pc[c] = "starting"
        => Correlation(InvocationOf[c]) \in granted

\* A call that will enter or is in a cancellable tool can be found by Revoke.
CancellableInv ==
    \A c \in Callers :
        pc[c] \in {"starting", "executing"} /\ InvocationOf[c] \in Cancellable
            => c \in cancellables

\* What has run is remembered or was, is not over yet, or cannot run again
\* because its token is cancelled.
RanOnce(i) ==
    \/ i \in forgotten \/ Remembered(i) \/ token[GenerationOf[i]]
    \/ \E c \in Callers : /\ InvocationOf[c] = i
                           /\ pc[c] \in {"executing", "unwinding", "finishing", "reporting"}

RunInv == \A i \in Invocations : runs[i] > 0 => RanOnce(i)

IInv ==
    /\ TypeInv /\ LeaderInv /\ NothingLeftBehind /\ ReportInv
    /\ ApprovalInv /\ RunsAreApproved
    /\ CancellableInv /\ RevocationReachesTools
    /\ RunInv /\ RunsAtMostOnce
=============================================================================
