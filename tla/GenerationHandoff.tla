------------------------- MODULE GenerationHandoff -------------------------
(***************************************************************************)
(* How the runtime hands the conversation from one typed turn to the next  *)
(* (src/sam_ambient/runtime.py: submit_user_message, _cancel_predecessor,  *)
(* _retire_predecessor, _run_turn_after_predecessor, _run_turn).           *)
(*                                                                         *)
(* Each turn is an asyncio task.  A task runs alone until it awaits, so an *)
(* action is what one task does from one await to the next; pc names the   *)
(* await it is at.  Tasks of older turns go on beside the newest one: they *)
(* are told to stop, and nobody waits for them.                            *)
(*                                                                         *)
(* A turn is told to stop in two ways.  Its token is a flag that is read   *)
(* where the code calls raise_if_cancelled, and that its provider, tool or *)
(* playback adapter reads when it likes.  task.cancel() makes the next     *)
(* await of the task raise CancelledError; only a turn that has opened its *)
(* delivery record (started) gets it.                                      *)
(*                                                                         *)
(* Modelled is the turn without a microphone, where the runtime itself     *)
(* reports its states; the voice paths are in TurnManager.  Text, deltas   *)
(* and history contents are left out; a turn asks for tools or answers.    *)
(***************************************************************************)
EXTENDS Naturals, Sequences, FiniteSets

CONSTANTS
    Turns,          \* bound: how many messages the owner submits
    MaxToolRounds,  \* config.max_tool_rounds
    Backpressure    \* TRUE: a subscriber's queue may be full, so that a
                    \* publication can wait after others have the event

ASSUME HandoffAssumption ==
    /\ Turns \in Nat \ {0}
    /\ MaxToolRounds \in Nat
    /\ Backpressure \in BOOLEAN

VARIABLES
    submitted,      \* how many messages were submitted; turns are 1 .. submitted
    active,         \* _active_generation_id and its companions, 0 for None
    predecessor,    \* the owner each turn found when it was submitted
    pc,             \* the await each turn's task is at
    token,          \* is the turn's CancellationToken cancelled
    interrupt,      \* task.cancel() was called and not yet raised
    cancelling,     \* task.cancelling()
    started,        \* the turn's started event
    terminal,       \* the turn's terminal event
    rounds,         \* tool rounds taken
    lock,           \* holder of _terminal_publish_lock, 0 when free
    delivered,      \* terminal protocol events subscribers got, per turn
    ledger,         \* the delivery ledger's record of each generation
    speaker,        \* AssistantDeliveryLedger.active_generation_id, 0 for None
    answered,       \* turns whose answer is in the conversation store
    toolstop,       \* turns that ended because their tool was stopped
    blocked         \* turns the ledger refused to start

reporting == <<terminal, lock, delivered>>
speech == <<ledger, speaker>>
marks == <<answered, toolstop, blocked>>
vars == <<submitted, active, predecessor, pc, token, interrupt, cancelling, started,
          rounds, reporting, speech, marks>>

AllTurns == 1 .. Turns
Submitted == 1 .. submitted
Outcomes == {"MODEL_COMPLETED", "MODEL_CANCELLED", "COMPONENT_ERROR"}

\* Awaits on something outside the core: the provider, a tool, the speaker.
AdapterAwaits == {"context", "stream", "tool", "speak"}
\* Awaits of _run_turn's try block that CancelledError leaves for the handler.
TryAwaits == {"append", "context", "stream", "remember", "complete", "answer", "speak"}
HandlerAwaits == {"report_cancel", "report_error"}
Awaits == TryAwaits \cup HandlerAwaits
            \cup {"none", "submitted", "retire", "tool", "report_outer", "done"}

-----------------------------------------------------------------------------
(* Helpers.                                                                 *)

Goto(g, place) == pc' = [pc EXCEPT ![g] = place]

\* cancel_generation: the ledger record is closed unless it already is.
CancelledLedger(g) ==
    [ledger EXCEPT ![g] = IF @ = "open" THEN "cancelled" ELSE @]
CancelDelivery(g) ==
    /\ ledger' = CancelledLedger(g)
    /\ speaker' = IF speaker = g THEN 0 ELSE speaker

ReportReturns_AnyTime(turn, g, outcome) ==
    \/ /\ lock = 0
       /\ delivered' = [delivered EXCEPT ![turn] = Append(@, outcome)]
       /\ terminal' = [terminal EXCEPT ![turn] = TRUE]
       /\ UNCHANGED lock
    \/ /\ lock = g
       /\ terminal' = [terminal EXCEPT ![turn] = TRUE]
       /\ lock' = 0
       /\ UNCHANGED delivered

\* _publish_terminal_event, when it returns: the event was reported before, is
\* reported now, or was waiting for a subscriber that now has room.
ReportReturns(turn, g, outcome) ==
    \/ /\ lock = 0
       /\ terminal[turn]
       /\ UNCHANGED reporting
    \/ /\ lock = 0
       /\ ~terminal[turn]
       /\ delivered' = [delivered EXCEPT ![turn] = Append(@, outcome)]
       /\ terminal' = [terminal EXCEPT ![turn] = TRUE]
       /\ UNCHANGED lock
    \/ /\ lock = g
       /\ terminal' = [terminal EXCEPT ![turn] = TRUE]
       /\ lock' = 0
       /\ UNCHANGED delivered

\* It waits inside events.publish, with the lock held: some subscribers have
\* the event and terminal is not set yet.
ReportWaits(turn, g, outcome) ==
    /\ Backpressure
    /\ lock = 0
    /\ ~terminal[turn]
    /\ delivered' = [delivered EXCEPT ![turn] = Append(@, outcome)]
    /\ lock' = g
    /\ UNCHANGED terminal

\* Variants that show that the properties can fail are named after the
\* definition they change.
Retire_TakesOwnership(g) ==
    /\ IF speaker = g THEN CancelDelivery(g) ELSE UNCHANGED speech
    /\ active' = 0
    /\ Goto(g, "done")

Retire_KeepsOwnership(g) ==
    /\ IF speaker = g THEN CancelDelivery(g) ELSE UNCHANGED speech
    /\ Goto(g, "done")
    /\ UNCHANGED active

Retire_LeavesLedger(g) ==
    /\ active' = IF active = g THEN 0 ELSE active
    /\ Goto(g, "done")
    /\ UNCHANGED speech

\* The finally blocks of _run_turn and of _run_turn_after_predecessor.
Retire(g) ==
    /\ IF speaker = g THEN CancelDelivery(g) ELSE UNCHANGED speech
    /\ active' = IF active = g THEN 0 ELSE active
    /\ Goto(g, "done")

\* except (OperationCancelled, CancelledError): delivery is closed first.
HandleCancelled(g) ==
    /\ CancelDelivery(g)
    /\ Goto(g, "report_cancel")
    /\ UNCHANGED active

HandleError_SilentWhenStopped(g) ==
    IF token[g]
    THEN Retire(g)
    ELSE /\ Goto(g, "report_error")
         /\ UNCHANGED <<active, speech>>

\* except Exception: a stopped turn that no longer owns the conversation says
\* nothing; a playback failure after the outcome is no second outcome.
HandleError(g) ==
    IF \/ token[g] /\ active # g
       \/ pc[g] = "speak" /\ terminal[g]
    THEN Retire(g)
    ELSE /\ Goto(g, "report_error")
         /\ UNCHANGED <<active, speech>>

\* raise_if_cancelled, then go on.
Unless(g, place) ==
    IF token[g]
    THEN HandleCancelled(g)
    ELSE Goto(g, place) /\ UNCHANGED <<active, speech>>

-----------------------------------------------------------------------------
Init ==
    /\ submitted = 0
    /\ active = 0
    /\ predecessor = [g \in AllTurns |-> 0]
    /\ pc = [g \in AllTurns |-> "none"]
    /\ token = [g \in AllTurns |-> FALSE]
    /\ interrupt = [g \in AllTurns |-> FALSE]
    /\ cancelling = [g \in AllTurns |-> FALSE]
    /\ started = [g \in AllTurns |-> FALSE]
    /\ terminal = [g \in AllTurns |-> FALSE]
    /\ rounds = [g \in AllTurns |-> 0]
    /\ lock = 0
    /\ delivered = [g \in AllTurns |-> <<>>]
    /\ ledger = [g \in AllTurns |-> "absent"]
    /\ speaker = 0
    /\ answered = {}
    /\ toolstop = {}
    /\ blocked = {}

CancelsTask_Never(p) == FALSE

\* _cancel_predecessor: the task itself only when it has started.
CancelsTask(p) == started[p] /\ pc[p] # "done" /\ ~cancelling[p]

CancelPredecessor(p) ==
    IF p = 0
    THEN UNCHANGED <<token, interrupt, cancelling>>
    ELSE /\ token' = [token EXCEPT ![p] = TRUE]
         /\ interrupt' = [interrupt EXCEPT ![p] = @ \/ CancelsTask(p)]
         /\ cancelling' = [cancelling EXCEPT ![p] = @ \/ CancelsTask(p)]

\* submit_user_message never awaits: the newest message owns the conversation
\* as soon as it is accepted.
SubmitUserMessage ==
    /\ submitted < Turns
    /\ submitted' = submitted + 1
    /\ active' = submitted'
    /\ predecessor' = [predecessor EXCEPT ![submitted'] = active]
    /\ Goto(submitted', "submitted")
    /\ CancelPredecessor(active)
    /\ UNCHANGED <<started, rounds, reporting, speech, marks>>

\* _cancel_active with MODEL_GENERATION: the owner's stop, token only.
CancelActive ==
    /\ active # 0
    /\ ~token[active]
    /\ token' = [token EXCEPT ![active] = TRUE]
    /\ UNCHANGED <<submitted, active, predecessor, pc, interrupt, cancelling, started,
                   rounds, reporting, speech, marks>>

-----------------------------------------------------------------------------
(* The task of a turn, await by await.                                      *)

\* What follows _retire_predecessor: raise_if_cancelled, then the first await
\* of _run_turn.  A turn stopped this early is reported by the outer handler.
AfterRetirement(g) == IF token[g] THEN "report_outer" ELSE "append"

BeginTurn_TrustsPredecessor(g) ==
    /\ pc[g] = "submitted"
    /\ Goto(g, AfterRetirement(g))
    /\ IF predecessor[g] = 0 THEN UNCHANGED speech ELSE CancelDelivery(predecessor[g])
    /\ UNCHANGED <<active, started, rounds, reporting, marks>>

\* The first instructions: the predecessor's speech is closed.
BeginTurn(g) ==
    /\ pc[g] = "submitted"
    /\ IF predecessor[g] = 0
       THEN Goto(g, AfterRetirement(g)) /\ UNCHANGED speech
       ELSE Goto(g, "retire") /\ CancelDelivery(predecessor[g])
    /\ UNCHANGED <<active, started, rounds, reporting, marks>>

\* The predecessor's outcome is reported for it, unless it has one.
RetirePredecessor(g) ==
    /\ pc[g] = "retire"
    /\ \/ /\ ReportReturns(predecessor[g], g, "MODEL_CANCELLED")
          /\ Goto(g, AfterRetirement(g))
       \/ /\ ReportWaits(predecessor[g], g, "MODEL_CANCELLED")
          /\ UNCHANGED pc
    /\ UNCHANGED <<active, started, rounds, speech, marks>>

\* The user's message is stored and delivery.start_generation is called.  The
\* token is not read in between, and the ledger takes one generation at a time.
StartGeneration(g) ==
    /\ pc[g] = "append"
    /\ IF speaker # 0
       THEN /\ blocked' = blocked \cup {g}
            /\ HandleError(g)
            /\ UNCHANGED started
       ELSE /\ ledger' = [ledger EXCEPT ![g] = "open"]
            /\ speaker' = g
            /\ started' = [started EXCEPT ![g] = TRUE]
            /\ Goto(g, "context")
            /\ UNCHANGED <<active, blocked>>
    /\ UNCHANGED <<rounds, reporting, answered, toolstop>>

\* The conversation store raised.
StoreFails(g) ==
    /\ pc[g] \in {"append", "answer"}
    /\ HandleError(g)
    /\ UNCHANGED <<started, rounds, reporting, marks>>

\* _select_model, _conversation_context and _memory_context returned.
ContextReady(g) ==
    /\ pc[g] = "context"
    /\ Unless(g, "stream")
    /\ UNCHANGED <<started, rounds, reporting, marks>>

\* The model asks for tools, once more than allowed at most.
StreamAsksForTool(g) ==
    /\ pc[g] = "stream"
    /\ IF token[g] THEN HandleCancelled(g)
       ELSE IF rounds[g] >= MaxToolRounds THEN HandleError(g)
       ELSE Goto(g, "tool") /\ UNCHANGED <<active, speech>>
    /\ UNCHANGED <<started, rounds, reporting, marks>>

\* The model answered; the model preference is stored for a local provider.
StreamAnswers(g) ==
    /\ pc[g] = "stream"
    /\ \/ Unless(g, "remember")
       \/ Unless(g, "complete")
    /\ UNCHANGED <<started, rounds, reporting, marks>>

\* The provider, the model list or playback raised.
AdapterFails(g) ==
    /\ pc[g] \in {"context", "stream", "speak"}
    /\ HandleError(g)
    /\ UNCHANGED <<started, rounds, reporting, marks>>

\* tool_executor.execute answers CANCELLED or STALE instead of raising when the
\* turn was told to stop, and _run_turn returns.
ToolReturns(g) ==
    /\ pc[g] = "tool"
    /\ IF token[g] \/ active # g
       THEN /\ Retire(g)
            /\ toolstop' = toolstop \cup {g}
            /\ UNCHANGED rounds
       ELSE /\ rounds' = [rounds EXCEPT ![g] = @ + 1]
            /\ Goto(g, "stream")
            /\ UNCHANGED <<active, speech, toolstop>>
    /\ UNCHANGED <<started, reporting, answered, blocked>>

ModelRemembered(g) ==
    /\ pc[g] = "remember"
    /\ Goto(g, "complete")
    /\ UNCHANGED <<active, started, rounds, reporting, speech, marks>>

ReportCompleted(g) ==
    /\ pc[g] = "complete"
    /\ \/ /\ ReportReturns(g, g, "MODEL_COMPLETED")
          /\ Goto(g, "answer")
       \/ /\ ReportWaits(g, g, "MODEL_COMPLETED")
          /\ UNCHANGED pc
    /\ UNCHANGED <<active, started, rounds, speech, marks>>

\* The answer is stored; then it is spoken, or nothing is and it is finished.
StoreAnswer(g) ==
    /\ pc[g] = "answer"
    /\ answered' = answered \cup {g}
    /\ \/ Unless(g, "speak")
       \/ /\ speaker' = IF speaker = g THEN 0 ELSE speaker
          /\ ledger' = [ledger EXCEPT ![g] = IF speaker = g THEN "completed" ELSE @]
          /\ active' = IF active = g THEN 0 ELSE active
          /\ Goto(g, "done")
    /\ UNCHANGED <<started, rounds, reporting, toolstop, blocked>>

\* Playback ended: mark_spoken and finish_generation, or it saw the token.
PlaybackReturns(g) ==
    /\ pc[g] = "speak"
    /\ \/ /\ token[g]
          /\ HandleCancelled(g)
       \/ /\ speaker' = IF speaker = g THEN 0 ELSE speaker
          /\ ledger' = [ledger EXCEPT ![g] = IF speaker = g THEN "completed" ELSE @]
          /\ active' = IF active = g THEN 0 ELSE active
          /\ Goto(g, "done")
    /\ UNCHANGED <<started, rounds, reporting, marks>>

HandlerOutcome(g) ==
    IF pc[g] = "report_error" THEN "COMPONENT_ERROR" ELSE "MODEL_CANCELLED"

\* The handlers report, then the finally blocks run.
ReportStopped(g) ==
    /\ pc[g] \in HandlerAwaits \cup {"report_outer"}
    /\ \/ /\ ReportReturns(g, g, HandlerOutcome(g))
          /\ Retire(g)
       \/ /\ ReportWaits(g, g, HandlerOutcome(g))
          /\ UNCHANGED <<active, pc, speech>>
    /\ UNCHANGED <<started, rounds, marks>>

TaskStep(g) ==
    \/ BeginTurn(g) \/ RetirePredecessor(g)
    \/ StartGeneration(g) \/ StoreFails(g) \/ ContextReady(g)
    \/ StreamAsksForTool(g) \/ StreamAnswers(g) \/ AdapterFails(g) \/ ToolReturns(g)
    \/ ModelRemembered(g) \/ ReportCompleted(g) \/ StoreAnswer(g) \/ PlaybackReturns(g)
    \/ ReportStopped(g)

RunTask(g) ==
    /\ ~interrupt[g]
    /\ TaskStep(g)
    /\ UNCHANGED <<submitted, predecessor, token, interrupt, cancelling>>

-----------------------------------------------------------------------------
(* CancelledError, raised at the await a task.cancel() finds.               *)

\* A publication that was waiting gives the lock back without setting terminal.
ReleaseLock(g) ==
    /\ lock' = IF lock = g THEN 0 ELSE lock
    /\ UNCHANGED <<terminal, delivered>>

\* In the try block.  A store call runs in a thread that finishes anyway.
InterruptTurn(g) ==
    /\ pc[g] \in TryAwaits
    /\ HandleCancelled(g)
    /\ answered' \in IF pc[g] = "answer" THEN {answered, answered \cup {g}} ELSE {answered}
    /\ UNCHANGED <<rounds, toolstop, blocked>>

\* In the tool executor, which swallows it.
InterruptTool(g) ==
    /\ pc[g] = "tool"
    /\ Retire(g)
    /\ toolstop' = toolstop \cup {g}
    /\ UNCHANGED <<rounds, answered, blocked>>

\* In a handler: _run_turn's finally block runs, the outer handler reports.
InterruptHandler(g) ==
    /\ pc[g] \in HandlerAwaits
    /\ IF speaker = g THEN CancelDelivery(g) ELSE UNCHANGED speech
    /\ active' = IF active = g THEN 0 ELSE active
    /\ Goto(g, "report_outer")
    /\ UNCHANGED <<rounds, marks>>

Interrupt(g) ==
    /\ interrupt[g]
    /\ interrupt' = [interrupt EXCEPT ![g] = FALSE]
    /\ ReleaseLock(g)
    /\ InterruptTurn(g) \/ InterruptTool(g) \/ InterruptHandler(g)
    /\ UNCHANGED <<submitted, predecessor, token, cancelling, started>>

-----------------------------------------------------------------------------
Next ==
    \/ SubmitUserMessage
    \/ CancelActive
    \/ \E g \in Submitted : RunTask(g) \/ Interrupt(g)

\* The event loop runs every task that can go on.  A provider, tool or speaker
\* is only trusted to return to the turn that owns the conversation: the
\* adapters of a stopped turn may take as long as they like.
Fairness ==
    \A g \in AllTurns :
        WF_vars((RunTask(g) \/ Interrupt(g)) /\ (pc[g] \notin AdapterAwaits \/ active = g))

Spec == Init /\ [][Next]_vars /\ Fairness

-----------------------------------------------------------------------------
(* Properties.                                                              *)

TypeInv ==
    /\ submitted \in 0 .. Turns
    /\ active \in 0 .. submitted
    /\ predecessor \in [AllTurns -> 0 .. Turns]
    /\ pc \in [AllTurns -> Awaits]
    /\ token \in [AllTurns -> BOOLEAN]
    /\ interrupt \in [AllTurns -> BOOLEAN]
    /\ cancelling \in [AllTurns -> BOOLEAN]
    /\ started \in [AllTurns -> BOOLEAN]
    /\ terminal \in [AllTurns -> BOOLEAN]
    /\ rounds \in [AllTurns -> 0 .. MaxToolRounds]
    /\ lock \in 0 .. submitted
    /\ delivered \in [AllTurns -> Seq(Outcomes)]
    /\ ledger \in [AllTurns -> {"absent", "open", "cancelled", "completed"}]
    /\ speaker \in 0 .. submitted
    /\ answered \subseteq Submitted
    /\ toolstop \subseteq Submitted
    /\ blocked \subseteq Submitted

Running(g) == pc[g] \notin {"none", "done"}

\* Late work of a stopped turn never takes the conversation from its successor:
\* the newest turn owns it until that turn's own finally block.
NewestTurnKeepsOwnership ==
    submitted # 0 /\ Running(submitted) => active = submitted

\* The ledger's one active generation belongs to a task that is still running
\* and will close it, so a finished or abandoned turn cannot block every later
\* one; and a turn that nobody stopped owns it while it talks to its adapters.
LedgerBelongsToRunningTurn ==
    /\ speaker # 0 => Running(speaker) /\ ledger[speaker] = "open" /\ started[speaker]
    /\ \A g \in Submitted :
          pc[g] \in TryAwaits \ {"append"} /\ ~token[g] => speaker = g

\* A turn is stored with an answer only if its completion was reported, so a
\* stopped turn never commits an answer.
AnswerWasReported ==
    \A g \in answered : "MODEL_COMPLETED" \in {delivered[g][i] : i \in 1 .. Len(delivered[g])}

\* Subscribers get at most one outcome of a turn, whoever reports it: the turn
\* itself, its handlers or its successor.
AtMostOneOutcome ==
    \A g \in AllTurns : Len(delivered[g]) <= 1

\* A turn that is over has had its outcome reported, or a successor is about to
\* report it, or it was stopped while a tool ran.
FinishedTurnIsReported ==
    \A g \in Submitted :
        pc[g] = "done" =>
            \/ terminal[g]
            \/ g \in toolstop
            \/ \E h \in Submitted : predecessor[h] = g /\ pc[h] \in {"submitted", "retire"}

\* Every accepted turn gets an outcome, even when its provider never answers
\* again after a newer message arrived; unless it was stopped while a tool ran.
EveryTurnIsReported ==
    \A g \in AllTurns : pc[g] # "none" ~> terminal[g] \/ g \in toolstop

\* No turn keeps the conversation for ever.
ConversationIsReleased == []<>(active = 0)

-----------------------------------------------------------------------------
(* Claims of the documents that the code does not keep.                     *)

\* "Every accepted generation now reaches one explicit completed,
\* cancelled/superseded, timeout, empty-response or error outcome."
FinishedTurnHasOutcome ==
    \A g \in Submitted :
        pc[g] = "done" =>
            \/ terminal[g]
            \/ \E h \in Submitted : predecessor[h] = g /\ pc[h] \in {"submitted", "retire"}

\* "terminalizes its model and speech ownership before starting the successor":
\* a turn that nobody stopped is not refused by the delivery ledger.
SuccessorFindsLedgerFree == \A g \in blocked : token[g]

-----------------------------------------------------------------------------
(* The inductive invariant.                                                 *)

Superseded(g) == \E h \in Submitted : predecessor[h] = g

\* Turns not submitted yet, and the chain of predecessors.
ChainInv ==
    /\ \A g \in AllTurns : pc[g] = "none" <=> g \notin Submitted
    /\ \A g \in AllTurns : pc[g] = "none" => predecessor[g] = 0
    /\ \A g \in Submitted : predecessor[g] < g
    /\ \A g \in Submitted : predecessor[g] # 0 => token[predecessor[g]]

\* A running turn lost the conversation only to a successor.
OwnershipInv ==
    \A g \in Submitted : Running(g) => active = g \/ Superseded(g)

\* Awaits of a turn whose delivery record was opened.
Delivering == (TryAwaits \ {"append"}) \cup {"tool"}

DeliveryInv ==
    /\ LedgerBelongsToRunningTurn
    /\ \A g \in Submitted : pc[g] \in Delivering => started[g]
    /\ \A g \in Submitted : pc[g] = "tool" => rounds[g] < MaxToolRounds
    /\ \A g \in Submitted : pc[g] \in Delivering /\ ~token[g] => speaker = g

\* Awaits of a turn that read its token after its context was there.
Committed == Delivering \ {"context"}

\* A turn is interrupted as soon as it is superseded, unless it reads its token
\* before it does anything that cannot be taken back.
CancellationInv ==
    /\ \A g \in AllTurns : interrupt[g] => Superseded(g)
    /\ \A g \in AllTurns : cancelling[g] => started[g]
    /\ \A g \in AllTurns : started[g] => pc[g] \notin {"none", "submitted", "retire", "append"}
    /\ \A g \in Submitted : pc[g] \in Committed /\ Superseded(g) => cancelling[g]
    /\ \A g \in Submitted : pc[g] \in Delivering /\ cancelling[g] => interrupt[g]

BeforeReport ==
    {"none", "submitted", "retire", "append", "context", "stream", "tool", "remember",
     "complete"}

\* Who reported what.
ReportInv ==
    /\ \A g \in AllTurns :
          terminal[g] /\ pc[g] \in BeforeReport => Superseded(g)
    /\ \A g \in Submitted : pc[g] \in {"answer", "speak"} => terminal[g]
    /\ \A h \in Submitted :
          predecessor[h] # 0 /\ pc[h] \notin {"submitted", "retire"} =>
              terminal[predecessor[h]]
    /\ FinishedTurnIsReported

\* Without backpressure a report never waits, so terminal says what was reported.
DirectReports ==
    /\ lock = 0
    /\ \A g \in AllTurns : Len(delivered[g]) = IF terminal[g] THEN 1 ELSE 0
    /\ \A g \in Submitted : pc[g] \in {"answer", "speak"} =>
          delivered[g] = <<"MODEL_COMPLETED">>

IInv == TypeInv /\ ChainInv /\ OwnershipInv /\ DeliveryInv /\ CancellationInv /\ ReportInv
DirectInv == IInv /\ DirectReports /\ AnswerWasReported

=============================================================================
