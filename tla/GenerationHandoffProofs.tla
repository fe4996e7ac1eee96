---------------------- MODULE GenerationHandoffProofs ----------------------
(***************************************************************************)
(* Proofs about GenerationHandoff for any number of turns and tool rounds: *)
(* the newest turn keeps the conversation, the delivery ledger stays with  *)
(* a running turn, every turn that ends is reported and, as long as no     *)
(* subscriber makes a publication wait, it is reported once.               *)
(*                                                                         *)
(* What one step of a task changes is stated variable by variable, with    *)
(* one case for each group of actions; the parts of the invariant are then *)
(* shown to be kept from these facts alone.                                *)
(***************************************************************************)
EXTENDS GenerationHandoff, SequenceTheorems, TLAPS

\* What a turn's task does between two awaits.
TurnStep(g) == RunTask(g) \/ Interrupt(g)

\* It was not told to stop, or CancelledError is raised.
Calm(g) == ~interrupt[g] /\ UNCHANGED interrupt
Raised(g) ==
    /\ interrupt[g]
    /\ interrupt' = [interrupt EXCEPT ![g] = FALSE]
    /\ ReleaseLock(g)
    /\ UNCHANGED started

-----------------------------------------------------------------------------
(* What one step of a task may change.                                      *)

\* A step of a turn is an action of its task, or the CancelledError that its interrupt
\* leaves pending.
LEMMA TurnCases ==
    ASSUME NEW g, TurnStep(g)
    PROVE  \/ /\ Calm(g)
              /\ \/ BeginTurn(g) \/ RetirePredecessor(g)
                 \/ StartGeneration(g) \/ StoreFails(g) \/ ContextReady(g)
                 \/ StreamAsksForTool(g) \/ StreamAnswers(g) \/ AdapterFails(g)
                 \/ ToolReturns(g) \/ ModelRemembered(g) \/ ReportCompleted(g)
                 \/ StoreAnswer(g) \/ PlaybackReturns(g) \/ ReportStopped(g)
           \/ /\ Raised(g)
              /\ InterruptTurn(g) \/ InterruptTool(g) \/ InterruptHandler(g)
PROOF
  BY DEF TurnStep, RunTask, TaskStep, Interrupt, Calm, Raised

\* Submitted turns are turns.
LEMMA TurnExists == TypeInv => Submitted \subseteq AllTurns
PROOF
  BY HandoffAssumption DEF TypeInv, Submitted, AllTurns

\* No task submits, links or tells another turn to stop.
LEMMA TurnKeeps ==
    ASSUME NEW g, TurnStep(g)
    PROVE  UNCHANGED <<submitted, predecessor, token, cancelling>>
PROOF
  BY DEF TurnStep, RunTask, Interrupt

\* The awaits of a turn, spelled out.
LEMMA Places ==
    Awaits = {"none", "submitted", "retire", "append", "context", "stream", "tool",
              "remember", "complete", "answer", "speak", "report_cancel", "report_error",
              "report_outer", "done"}
PROOF
  BY DEF Awaits, TryAwaits, HandlerAwaits

\* Only a task that was created and is not over takes a step.
LEMMA TurnActs ==
    ASSUME NEW g, TurnStep(g)
    PROVE  pc[g] # "done" /\ pc[g] # "none"
PROOF
  <1> USE DEF TryAwaits, HandlerAwaits
  <1>1. CASE Calm(g) /\ BeginTurn(g)
    BY <1>1 DEF BeginTurn
  <1>2. CASE Calm(g) /\ StartGeneration(g)
    BY <1>2 DEF StartGeneration
  <1>3. CASE Calm(g) /\ (StoreFails(g) \/ AdapterFails(g))
    BY <1>3 DEF StoreFails, AdapterFails
  <1>4. CASE Calm(g) /\ (ContextReady(g) \/ StreamAsksForTool(g) \/ StreamAnswers(g))
    BY <1>4 DEF ContextReady, StreamAsksForTool, StreamAnswers
  <1>5. CASE Calm(g) /\ (ToolReturns(g) \/ ModelRemembered(g))
    BY <1>5 DEF ToolReturns, ModelRemembered
  <1>6. CASE Calm(g) /\ (StoreAnswer(g) \/ PlaybackReturns(g))
    BY <1>6 DEF StoreAnswer, PlaybackReturns
  <1>7. CASE Calm(g) /\ (RetirePredecessor(g) \/ ReportCompleted(g) \/ ReportStopped(g))
    BY <1>7 DEF RetirePredecessor, ReportCompleted, ReportStopped
  <1>8. CASE Raised(g) /\ (InterruptTurn(g) \/ InterruptTool(g) \/ InterruptHandler(g))
    BY <1>8 DEF InterruptTurn, InterruptTool, InterruptHandler
  <1> QED
    BY <1>1, <1>2, <1>3, <1>4, <1>5, <1>6, <1>7, <1>8, TurnCases

\* A step takes its own task to a later await and moves no other task.
LEMMA Moves ==
    ASSUME TypeInv, NEW g \in Submitted, TurnStep(g)
    PROVE  \E a \in Awaits \ {"none", "submitted"} : pc' = [pc EXCEPT ![g] = a]
PROOF
  <1>0. pc' = pc => pc' = [pc EXCEPT ![g] = pc[g]]
    BY DEF TypeInv
  <1> USE Places DEF Goto, Retire, HandleCancelled, HandleError, Unless, AfterRetirement,
      HandlerAwaits
  <1>1. CASE Calm(g) /\ BeginTurn(g)
    BY <1>1 DEF BeginTurn
  <1>2. CASE Calm(g) /\ StartGeneration(g)
    BY <1>2 DEF StartGeneration
  <1>3. CASE Calm(g) /\ (StoreFails(g) \/ AdapterFails(g))
    BY <1>3 DEF StoreFails, AdapterFails
  <1>4. CASE Calm(g) /\ (ContextReady(g) \/ StreamAsksForTool(g) \/ StreamAnswers(g))
    BY <1>4 DEF ContextReady, StreamAsksForTool, StreamAnswers
  <1>5. CASE Calm(g) /\ (ToolReturns(g) \/ ModelRemembered(g))
    BY <1>5 DEF ToolReturns, ModelRemembered
  <1>6. CASE Calm(g) /\ (StoreAnswer(g) \/ PlaybackReturns(g))
    BY <1>6 DEF StoreAnswer, PlaybackReturns
  <1>7. CASE Calm(g) /\ (RetirePredecessor(g) \/ ReportCompleted(g) \/ ReportStopped(g))
    BY <1>0, <1>7 DEF RetirePredecessor, ReportCompleted, ReportStopped
  <1>8. CASE Raised(g) /\ (InterruptTurn(g) \/ InterruptTool(g) \/ InterruptHandler(g))
    BY <1>8 DEF InterruptTurn, InterruptTool, InterruptHandler
  <1> QED
    BY <1>1, <1>2, <1>3, <1>4, <1>5, <1>6, <1>7, <1>8, TurnCases

\* A task gives the conversation up only if it is its own, and then it is over or was
\* interrupted in a handler.
LEMMA Own ==
    ASSUME TypeInv, NEW g \in Submitted, TurnStep(g)
    PROVE  \/ active' = active
           \/ active = g /\ active' = 0 /\ (pc'[g] = "done" \/ interrupt[g])
PROOF
  <1>0. \A a : pc' = [pc EXCEPT ![g] = a] => pc'[g] = a
    BY TurnExists DEF TypeInv
  <1> USE <1>0 DEF Goto, Retire, HandleCancelled, HandleError, Unless, Raised
  <1>1. CASE Calm(g) /\ BeginTurn(g)
    BY <1>1 DEF BeginTurn
  <1>2. CASE Calm(g) /\ StartGeneration(g)
    BY <1>2 DEF StartGeneration
  <1>3. CASE Calm(g) /\ (StoreFails(g) \/ AdapterFails(g))
    BY <1>3 DEF StoreFails, AdapterFails
  <1>4. CASE Calm(g) /\ (ContextReady(g) \/ StreamAsksForTool(g) \/ StreamAnswers(g))
    BY <1>4 DEF ContextReady, StreamAsksForTool, StreamAnswers
  <1>5. CASE Calm(g) /\ (ToolReturns(g) \/ ModelRemembered(g))
    BY <1>5 DEF ToolReturns, ModelRemembered
  <1>6. CASE Calm(g) /\ (StoreAnswer(g) \/ PlaybackReturns(g))
    BY <1>6 DEF StoreAnswer, PlaybackReturns
  <1>7. CASE Calm(g) /\ (RetirePredecessor(g) \/ ReportCompleted(g) \/ ReportStopped(g))
    BY <1>7 DEF RetirePredecessor, ReportCompleted, ReportStopped
  <1>8. CASE Raised(g) /\ (InterruptTurn(g) \/ InterruptTool(g) \/ InterruptHandler(g))
    BY <1>8 DEF InterruptTurn, InterruptTool, InterruptHandler
  <1> QED
    BY <1>1, <1>2, <1>3, <1>4, <1>5, <1>6, <1>7, <1>8, TurnCases

\* A task takes or releases the ledger, and marks only itself as answered or stopped.
LEMMA Speech ==
    ASSUME TypeInv, NEW g \in Submitted, TurnStep(g)
    PROVE  /\ speaker' \in {speaker, 0, g}
           /\ answered' \in {answered, answered \cup {g}}
           /\ toolstop' \in {toolstop, toolstop \cup {g}}
           /\ blocked' \in {blocked, blocked \cup {g}}
PROOF
  <1> USE DEF Retire, HandleCancelled, HandleError, Unless, CancelDelivery, speech, marks
  <1>1. CASE Calm(g) /\ BeginTurn(g)
    BY <1>1 DEF BeginTurn
  <1>2. CASE Calm(g) /\ StartGeneration(g)
    BY <1>2 DEF StartGeneration
  <1>3. CASE Calm(g) /\ (StoreFails(g) \/ AdapterFails(g))
    BY <1>3 DEF StoreFails, AdapterFails
  <1>4. CASE Calm(g) /\ (ContextReady(g) \/ StreamAsksForTool(g) \/ StreamAnswers(g))
    BY <1>4 DEF ContextReady, StreamAsksForTool, StreamAnswers
  <1>5. CASE Calm(g) /\ (ToolReturns(g) \/ ModelRemembered(g))
    BY <1>5 DEF ToolReturns, ModelRemembered
  <1>6. CASE Calm(g) /\ (StoreAnswer(g) \/ PlaybackReturns(g))
    BY <1>6 DEF StoreAnswer, PlaybackReturns
  <1>7. CASE Calm(g) /\ (RetirePredecessor(g) \/ ReportCompleted(g) \/ ReportStopped(g))
    BY <1>7 DEF RetirePredecessor, ReportCompleted, ReportStopped
  <1>8. CASE Raised(g) /\ (InterruptTurn(g) \/ InterruptTool(g) \/ InterruptHandler(g))
    BY <1>8 DEF InterruptTurn, InterruptTool, InterruptHandler
  <1> QED
    BY <1>1, <1>2, <1>3, <1>4, <1>5, <1>6, <1>7, <1>8, TurnCases

\* Only the step that leaves the append of the message opens a delivery record.
LEMMA Start ==
    ASSUME TypeInv, NEW g \in Submitted, TurnStep(g)
    PROVE  started' \in [AllTurns -> BOOLEAN] /\ (pc[g] # "append" => started' = started)
PROOF
  <1> USE DEF TypeInv, Raised
  <1>1. CASE Calm(g) /\ BeginTurn(g)
    BY <1>1 DEF BeginTurn
  <1>2. CASE Calm(g) /\ StartGeneration(g)
    BY <1>2 DEF StartGeneration
  <1>3. CASE Calm(g) /\ (StoreFails(g) \/ AdapterFails(g))
    BY <1>3 DEF StoreFails, AdapterFails
  <1>4. CASE Calm(g) /\ (ContextReady(g) \/ StreamAsksForTool(g) \/ StreamAnswers(g))
    BY <1>4 DEF ContextReady, StreamAsksForTool, StreamAnswers
  <1>5. CASE Calm(g) /\ (ToolReturns(g) \/ ModelRemembered(g))
    BY <1>5 DEF ToolReturns, ModelRemembered
  <1>6. CASE Calm(g) /\ (StoreAnswer(g) \/ PlaybackReturns(g))
    BY <1>6 DEF StoreAnswer, PlaybackReturns
  <1>7. CASE Calm(g) /\ (RetirePredecessor(g) \/ ReportCompleted(g) \/ ReportStopped(g))
    BY <1>7 DEF RetirePredecessor, ReportCompleted, ReportStopped
  <1>8. CASE Raised(g) /\ (InterruptTurn(g) \/ InterruptTool(g) \/ InterruptHandler(g))
    BY <1>8 DEF InterruptTurn, InterruptTool, InterruptHandler
  <1> QED
    BY <1>1, <1>2, <1>3, <1>4, <1>5, <1>6, <1>7, <1>8, TurnCases

\* The ledger keeps its type.
LEMMA Ledger ==
    ASSUME TypeInv, NEW g \in Submitted, TurnStep(g)
    PROVE  ledger' \in [AllTurns -> {"absent", "open", "cancelled", "completed"}]
PROOF
  <1>0. \A h : CancelledLedger(h) \in [AllTurns -> {"absent", "open", "cancelled", "completed"}]
   BY DEF TypeInv, CancelledLedger
  <1> USE DEF TypeInv, Retire, HandleCancelled, HandleError, Unless, CancelDelivery, speech
  <1>1. CASE Calm(g) /\ BeginTurn(g)
    BY <1>0, <1>1 DEF BeginTurn
  <1>2. CASE Calm(g) /\ StartGeneration(g)
    BY <1>0, <1>2 DEF StartGeneration
  <1>3. CASE Calm(g) /\ (StoreFails(g) \/ AdapterFails(g))
    BY <1>0, <1>3 DEF StoreFails, AdapterFails
  <1>4. CASE Calm(g) /\ (ContextReady(g) \/ StreamAsksForTool(g) \/ StreamAnswers(g))
    BY <1>0, <1>4 DEF ContextReady, StreamAsksForTool, StreamAnswers
  <1>5. CASE Calm(g) /\ (ToolReturns(g) \/ ModelRemembered(g))
    BY <1>0, <1>5 DEF ToolReturns, ModelRemembered
  <1>6. CASE Calm(g) /\ (StoreAnswer(g) \/ PlaybackReturns(g))
    BY <1>0, <1>6 DEF StoreAnswer, PlaybackReturns
  <1>7. CASE Calm(g) /\ (RetirePredecessor(g) \/ ReportCompleted(g) \/ ReportStopped(g))
    BY <1>0, <1>7 DEF RetirePredecessor, ReportCompleted, ReportStopped
  <1>8. CASE Raised(g) /\ (InterruptTurn(g) \/ InterruptTool(g) \/ InterruptHandler(g))
    BY <1>0, <1>8 DEF InterruptTurn, InterruptTool, InterruptHandler
  <1> QED
    BY <1>1, <1>2, <1>3, <1>4, <1>5, <1>6, <1>7, <1>8, TurnCases

\* Reports keep their types; the publish lock is taken for the task itself.
LEMMA Reports ==
    ASSUME TypeInv, NEW g \in Submitted, TurnStep(g)
    PROVE  /\ terminal' \in [AllTurns -> BOOLEAN]
           /\ lock' \in {lock, 0, g}
           /\ delivered' \in [AllTurns -> Seq(Outcomes)]
PROOF
  <1>0. \A h \in AllTurns, e \in Outcomes : Append(delivered[h], e) \in Seq(Outcomes)
    BY AppendProperties DEF TypeInv
  <1>a. ASSUME NEW turn, NEW e \in Outcomes, ReportReturns(turn, g, e) \/ ReportWaits(turn, g, e)
        PROVE  /\ terminal' \in [AllTurns -> BOOLEAN]
               /\ lock' \in {lock, 0, g}
               /\ delivered' \in [AllTurns -> Seq(Outcomes)]
    <2>1. terminal' \in [AllTurns -> BOOLEAN]
      BY <1>a DEF TypeInv, ReportReturns, ReportWaits, reporting
    <2>2. lock' \in {lock, 0, g}
      BY <1>a DEF ReportReturns, ReportWaits, reporting
    <2>3. delivered' = delivered \/ delivered' = [delivered EXCEPT ![turn] = Append(@, e)]
      BY <1>a DEF ReportReturns, ReportWaits, reporting
    <2>4. delivered' \in [AllTurns -> Seq(Outcomes)]
      <3> DEFINE more == [delivered EXCEPT ![turn] = Append(@, e)]
      <3>1. delivered \in [AllTurns -> Seq(Outcomes)]
        BY DEF TypeInv
      <3>2. \A h \in AllTurns : more[h] = delivered[h] \/ more[h] = Append(delivered[h], e)
        BY <3>1
      <3>3. \A h \in AllTurns : more[h] \in Seq(Outcomes)
        BY <3>1, <3>2, <1>0
      <3>4. more \in [AllTurns -> Seq(Outcomes)]
        BY <3>1, <3>3
      <3> QED
        BY <2>3, <3>1, <3>4
    <2> QED
      BY <2>1, <2>2, <2>4
  <1>b. HandlerOutcome(g) \in Outcomes /\ "MODEL_COMPLETED" \in Outcomes /\ "MODEL_CANCELLED" \in Outcomes
    BY DEF HandlerOutcome, Outcomes
  <1> USE DEF Raised, ReleaseLock, reporting, TypeInv
  <1>1. CASE Calm(g) /\ BeginTurn(g)
    BY <1>1 DEF BeginTurn
  <1>2. CASE Calm(g) /\ StartGeneration(g)
    BY <1>2 DEF StartGeneration
  <1>3. CASE Calm(g) /\ (StoreFails(g) \/ AdapterFails(g))
    BY <1>3 DEF StoreFails, AdapterFails
  <1>4. CASE Calm(g) /\ (ContextReady(g) \/ StreamAsksForTool(g) \/ StreamAnswers(g))
    BY <1>4 DEF ContextReady, StreamAsksForTool, StreamAnswers
  <1>5. CASE Calm(g) /\ (ToolReturns(g) \/ ModelRemembered(g))
    BY <1>5 DEF ToolReturns, ModelRemembered
  <1>6. CASE Calm(g) /\ (StoreAnswer(g) \/ PlaybackReturns(g))
    BY <1>6 DEF StoreAnswer, PlaybackReturns
  <1>7. CASE Calm(g) /\ (RetirePredecessor(g) \/ ReportCompleted(g) \/ ReportStopped(g))
    BY <1>a, <1>b, <1>7 DEF RetirePredecessor, ReportCompleted, ReportStopped
  <1>8. CASE Raised(g) /\ (InterruptTurn(g) \/ InterruptTool(g) \/ InterruptHandler(g))
    BY <1>8 DEF InterruptTurn, InterruptTool, InterruptHandler
  <1> QED
    BY <1>1, <1>2, <1>3, <1>4, <1>5, <1>6, <1>7, <1>8, TurnCases

\* No turn takes more tool rounds than configured.
LEMMA Rounds ==
    ASSUME TypeInv, DeliveryInv, NEW g \in Submitted, TurnStep(g)
    PROVE  rounds' \in [AllTurns -> 0 .. MaxToolRounds]
PROOF
  <1>0. pc[g] = "tool" => rounds[g] + 1 \in 0 .. MaxToolRounds
    BY TurnExists, HandoffAssumption DEF TypeInv, DeliveryInv
  <1> USE DEF TypeInv
  <1>1. CASE Calm(g) /\ BeginTurn(g)
    BY <1>1 DEF BeginTurn
  <1>2. CASE Calm(g) /\ StartGeneration(g)
    BY <1>2 DEF StartGeneration
  <1>3. CASE Calm(g) /\ (StoreFails(g) \/ AdapterFails(g))
    BY <1>3 DEF StoreFails, AdapterFails
  <1>4. CASE Calm(g) /\ (ContextReady(g) \/ StreamAsksForTool(g) \/ StreamAnswers(g))
    BY <1>4 DEF ContextReady, StreamAsksForTool, StreamAnswers
  <1>5. CASE Calm(g) /\ (ToolReturns(g) \/ ModelRemembered(g))
    BY <1>0, <1>5 DEF ToolReturns, ModelRemembered
  <1>6. CASE Calm(g) /\ (StoreAnswer(g) \/ PlaybackReturns(g))
    BY <1>6 DEF StoreAnswer, PlaybackReturns
  <1>7. CASE Calm(g) /\ (RetirePredecessor(g) \/ ReportCompleted(g) \/ ReportStopped(g))
    BY <1>7 DEF RetirePredecessor, ReportCompleted, ReportStopped
  <1>8. CASE Raised(g) /\ (InterruptTurn(g) \/ InterruptTool(g) \/ InterruptHandler(g))
    BY <1>8 DEF InterruptTurn, InterruptTool, InterruptHandler
  <1> QED
    BY <1>1, <1>2, <1>3, <1>4, <1>5, <1>6, <1>7, <1>8, TurnCases

-----------------------------------------------------------------------------
(* Types, predecessors and ownership.                                       *)

\* Accepting a message keeps the types.
LEMMA SubmitTypes ==
    ASSUME TypeInv, SubmitUserMessage
    PROVE  TypeInv'
PROOF
  <1> USE HandoffAssumption DEF TypeInv, SubmitUserMessage, AllTurns, Submitted
  <1>1. submitted' \in 0 .. Turns /\ active' \in 0 .. submitted' /\ lock' \in 0 .. submitted' /\ speaker' \in 0 .. submitted'
    BY DEF reporting, speech
  <1>2. predecessor' \in [AllTurns -> 0 .. Turns] /\ pc' \in [AllTurns -> Awaits]
    BY Places DEF Goto
  <1>3. token' \in [AllTurns -> BOOLEAN] /\ interrupt' \in [AllTurns -> BOOLEAN] /\ cancelling' \in [AllTurns -> BOOLEAN]
    BY DEF CancelPredecessor
  <1>4. answered' \subseteq Submitted' /\ toolstop' \subseteq Submitted' /\ blocked' \subseteq Submitted'
    BY DEF marks
  <1> QED
    BY <1>1, <1>2, <1>3, <1>4 DEF reporting, speech

\* Every step keeps the types.
LEMMA TypeStep ==
    ASSUME TypeInv, DeliveryInv, [Next]_vars
    PROVE  TypeInv'
PROOF
  <1>1. CASE UNCHANGED vars
    BY <1>1 DEF vars, reporting, speech, marks, TypeInv, Submitted
  <1>2. CASE SubmitUserMessage
    BY <1>2, SubmitTypes
  <1>3. CASE CancelActive
    <2>1. token' \in [AllTurns -> BOOLEAN]
      BY <1>3 DEF CancelActive, TypeInv
    <2> QED
      BY <1>3, <2>1 DEF CancelActive, reporting, speech, marks, TypeInv, Submitted
  <1>4. ASSUME NEW g \in Submitted, TurnStep(g)
        PROVE  TypeInv'
    <2>1. UNCHANGED <<submitted, predecessor, token, cancelling>> /\ Submitted' = Submitted
      BY <1>4, TurnKeeps DEF Submitted
    <2>2. interrupt' \in [AllTurns -> BOOLEAN]
      BY <1>4, TurnCases DEF Calm, Raised, TypeInv
    <2>3. pc' \in [AllTurns -> Awaits]
      BY <1>4, Moves DEF TypeInv
    <2>4. active' \in 0 .. submitted'
      BY <1>4, <2>1, Own DEF TypeInv
    <2>5. /\ g \in 0 .. submitted /\ 0 \in 0 .. submitted
          /\ speaker \in 0 .. submitted /\ lock \in 0 .. submitted
      BY DEF Submitted, TypeInv
    <2>6. speaker' \in 0 .. submitted'
      <3>1. speaker' \in {speaker, 0, g}
        BY <1>4, Speech
      <3> QED
        BY <2>1, <2>5, <3>1
    <2>7. lock' \in 0 .. submitted'
      <3>1. lock' \in {lock, 0, g}
        BY <1>4, Reports
      <3> QED
        BY <2>1, <2>5, <3>1
    <2>8. answered' \subseteq Submitted' /\ toolstop' \subseteq Submitted'
          /\ blocked' \subseteq Submitted'
      <3>1. answered \subseteq Submitted /\ toolstop \subseteq Submitted /\ blocked \subseteq Submitted
        BY DEF TypeInv
      <3> QED
        BY <1>4, <2>1, <3>1, Speech
    <2> QED
      BY <1>4, <2>1, <2>2, <2>3, <2>4, <2>6, <2>7, <2>8, Start, Ledger, Reports, Rounds
      DEF TypeInv
  <1> QED
    BY <1>1, <1>2, <1>3, <1>4 DEF Next, TurnStep

\* Each turn succeeds an older one that was told to stop.
LEMMA ChainStep ==
    ASSUME TypeInv, ChainInv, [Next]_vars
    PROVE  ChainInv'
PROOF
  <1>1. CASE UNCHANGED vars
    BY <1>1 DEF vars, ChainInv, Submitted
  <1>2. CASE SubmitUserMessage
    <2> USE <1>2, HandoffAssumption DEF SubmitUserMessage, TypeInv, Submitted, AllTurns
    <2>1. \A g \in AllTurns : pc'[g] = "none" <=> g \notin Submitted'
      BY SMTT(60) DEF Goto, ChainInv
    <2>2. \A g \in AllTurns : pc'[g] = "none" => predecessor'[g] = 0
      BY DEF Goto, ChainInv
    <2>3. \A g \in Submitted' : predecessor'[g] < g
      BY DEF ChainInv
    <2>4. \A g \in Submitted' : predecessor'[g] # 0 => token'[predecessor'[g]]
      <3>1. \A g \in Submitted' : g = submitted' \/ g \in Submitted
        OBVIOUS
      <3>2. \A g \in Submitted : predecessor'[g] = predecessor[g]
        OBVIOUS
      <3>3. \A g \in AllTurns : token[g] => token'[g]
        BY DEF CancelPredecessor
      <3>4. predecessor'[submitted'] = active
        OBVIOUS
      <3>5. active # 0 => token'[active]
        BY DEF CancelPredecessor
      <3>6. \A g \in Submitted : predecessor[g] # 0 => predecessor[g] \in AllTurns /\ token[predecessor[g]]
        BY SMTT(60) DEF ChainInv
      <3> HIDE DEF SubmitUserMessage, TypeInv, Submitted, AllTurns
      <3> QED
        BY <3>1, <3>2, <3>3, <3>4, <3>5, <3>6
    <2> QED
      BY <2>1, <2>2, <2>3, <2>4 DEF ChainInv
  <1>3. CASE CancelActive
    BY <1>3 DEF CancelActive, TypeInv, ChainInv, Submitted
  <1>4. ASSUME NEW g \in Submitted, TurnStep(g)
        PROVE  ChainInv'
    <2>1. PICK a \in Awaits \ {"none", "submitted"} : pc' = [pc EXCEPT ![g] = a]
      BY <1>4, Moves
    <2>2. \A h \in AllTurns : pc'[h] = "none" <=> pc[h] = "none"
      BY <2>1, TurnExists DEF TypeInv, ChainInv
    <2> QED
      BY <1>4, <2>2, TurnKeeps DEF ChainInv, Submitted
  <1> QED
    BY <1>1, <1>2, <1>3, <1>4 DEF Next, TurnStep

\* A running turn that does not own the conversation has a successor.
LEMMA OwnershipStep ==
    ASSUME TypeInv, ChainInv, OwnershipInv, CancellationInv, [Next]_vars
    PROVE  OwnershipInv'
PROOF
  <1>1. CASE UNCHANGED vars
    BY <1>1 DEF vars, OwnershipInv, Submitted, Superseded, Running
  <1>2. CASE SubmitUserMessage
    <2> USE <1>2, HandoffAssumption DEF SubmitUserMessage, TypeInv, Submitted, AllTurns
    <2>1. \A g \in Submitted : Superseded(g) => Superseded(g)'
      BY DEF Superseded
    <2>2. \A g \in Submitted : g = active => Superseded(g)'
      <3>1. submitted' \in Submitted' /\ predecessor'[submitted'] = active
        OBVIOUS
      <3> QED
        BY <3>1 DEF Superseded
    <2>3. \A g \in Submitted : Running(g)' => Running(g)
      BY DEF Running, Goto
    <2>4. \A g \in Submitted' : g = active' \/ g \in Submitted
      OBVIOUS
    <2> HIDE DEF SubmitUserMessage, TypeInv, Submitted, AllTurns
    <2> QED
      BY <2>1, <2>2, <2>3, <2>4 DEF OwnershipInv
  <1>3. CASE CancelActive
    BY <1>3 DEF CancelActive, OwnershipInv, Submitted, Superseded, Running
  <1>4. ASSUME NEW g \in Submitted, TurnStep(g)
        PROVE  OwnershipInv'
    <2>1. PICK a \in Awaits \ {"none", "submitted"} : pc' = [pc EXCEPT ![g] = a]
      BY <1>4, Moves
    <2>2. \A h \in Submitted : Superseded(h)' <=> Superseded(h)
      BY <1>4, TurnKeeps DEF Superseded, Submitted
    <2>3. Submitted' = Submitted
      BY <1>4, TurnKeeps DEF Submitted
    <2>4. pc[g] # "done" /\ pc[g] # "none"
      BY <1>4, TurnActs
    <2>5. \A h \in Submitted : Running(h)' => Running(h)
      BY <2>1, <2>4, TurnExists DEF TypeInv, Running
    <2>6. interrupt[g] => Superseded(g)
      BY TurnExists DEF CancellationInv
    <2> QED
      BY <1>4, <2>2, <2>3, <2>5, <2>6, Own DEF OwnershipInv, Running
  <1> QED
    BY <1>1, <1>2, <1>3, <1>4 DEF Next, TurnStep

-----------------------------------------------------------------------------
(* The delivery ledger.                                                     *)

\* The ledger changes hands only from the acting task, from its predecessor as its
\* first step, or to the acting task when it is free.
LEMMA SpeakerMoves ==
    ASSUME TypeInv, NEW g \in Submitted, TurnStep(g)
    PROVE  \/ speaker' = speaker
           \/ speaker' = 0 /\ speaker = predecessor[g] /\ pc[g] = "submitted"
           \/ speaker' = 0 /\ speaker = g
           \/ speaker' = g /\ speaker = 0
PROOF
  <1> USE DEF Retire, HandleCancelled, HandleError, Unless, CancelDelivery, speech
  <1>1. CASE Calm(g) /\ BeginTurn(g)
    BY <1>1 DEF BeginTurn
  <1>2. CASE Calm(g) /\ StartGeneration(g)
    BY <1>2 DEF StartGeneration
  <1>3. CASE Calm(g) /\ (StoreFails(g) \/ AdapterFails(g))
    BY <1>3 DEF StoreFails, AdapterFails
  <1>4. CASE Calm(g) /\ (ContextReady(g) \/ StreamAsksForTool(g) \/ StreamAnswers(g))
    BY <1>4 DEF ContextReady, StreamAsksForTool, StreamAnswers
  <1>5. CASE Calm(g) /\ (ToolReturns(g) \/ ModelRemembered(g))
    BY <1>5 DEF ToolReturns, ModelRemembered
  <1>6. CASE Calm(g) /\ (StoreAnswer(g) \/ PlaybackReturns(g))
    BY <1>6 DEF StoreAnswer, PlaybackReturns
  <1>7. CASE Calm(g) /\ (RetirePredecessor(g) \/ ReportCompleted(g) \/ ReportStopped(g))
    BY <1>7 DEF RetirePredecessor, ReportCompleted, ReportStopped
  <1>8. CASE Raised(g) /\ (InterruptTurn(g) \/ InterruptTool(g) \/ InterruptHandler(g))
    BY <1>8 DEF InterruptTurn, InterruptTool, InterruptHandler
  <1> QED
    BY <1>1, <1>2, <1>3, <1>4, <1>5, <1>6, <1>7, <1>8, TurnCases

\* A task that takes the ledger has just opened its record.
LEMMA RecordOpened ==
    ASSUME TypeInv, NEW g \in Submitted, TurnStep(g), speaker' = g, speaker = 0
    PROVE  started'[g] /\ ledger'[g] = "open" /\ pc'[g] = "context"
PROOF
  <1>0. \A a : pc' = [pc EXCEPT ![g] = a] => pc'[g] = a
    BY TurnExists DEF TypeInv
  <1> USE <1>0 DEF Goto, Retire, HandleCancelled, HandleError, Unless
  <1>z. g # 0
    BY DEF Submitted
  <1> USE TurnExists, <1>z DEF CancelDelivery, speech, TypeInv
  <1>1. CASE Calm(g) /\ BeginTurn(g)
    BY <1>1 DEF BeginTurn
  <1>2. CASE Calm(g) /\ StartGeneration(g)
    BY <1>2 DEF StartGeneration
  <1>3. CASE Calm(g) /\ (StoreFails(g) \/ AdapterFails(g))
    BY <1>3 DEF StoreFails, AdapterFails
  <1>4. CASE Calm(g) /\ (ContextReady(g) \/ StreamAsksForTool(g) \/ StreamAnswers(g))
    BY <1>4 DEF ContextReady, StreamAsksForTool, StreamAnswers
  <1>5. CASE Calm(g) /\ (ToolReturns(g) \/ ModelRemembered(g))
    BY <1>5 DEF ToolReturns, ModelRemembered
  <1>6. CASE Calm(g) /\ (StoreAnswer(g) \/ PlaybackReturns(g))
    BY <1>6 DEF StoreAnswer, PlaybackReturns
  <1>7. CASE Calm(g) /\ (RetirePredecessor(g) \/ ReportCompleted(g) \/ ReportStopped(g))
    BY <1>7 DEF RetirePredecessor, ReportCompleted, ReportStopped
  <1>8. CASE Raised(g) /\ (InterruptTurn(g) \/ InterruptTool(g) \/ InterruptHandler(g))
    BY <1>8 DEF InterruptTurn, InterruptTool, InterruptHandler
  <1> QED
    BY <1>1, <1>2, <1>3, <1>4, <1>5, <1>6, <1>7, <1>8, TurnCases

\* A task that ends leaves the ledger to others.
LEMMA DoneCloses ==
    ASSUME TypeInv, NEW g \in Submitted, TurnStep(g), pc'[g] = "done"
    PROVE  speaker' # g
PROOF
  <1>0. \A a : pc' = [pc EXCEPT ![g] = a] => pc'[g] = a
    BY TurnExists DEF TypeInv
  <1> USE <1>0 DEF Goto, Retire, HandleCancelled, HandleError, Unless
  <1>z. g # 0
    BY DEF Submitted
  <1> USE <1>z DEF CancelDelivery, speech, AfterRetirement
  <1>1. CASE Calm(g) /\ BeginTurn(g)
    BY <1>1 DEF BeginTurn
  <1>2. CASE Calm(g) /\ StartGeneration(g)
    BY <1>2 DEF StartGeneration
  <1>3. CASE Calm(g) /\ (StoreFails(g) \/ AdapterFails(g))
    BY <1>3 DEF StoreFails, AdapterFails
  <1>4. CASE Calm(g) /\ (ContextReady(g) \/ StreamAsksForTool(g) \/ StreamAnswers(g))
    BY <1>4 DEF ContextReady, StreamAsksForTool, StreamAnswers
  <1>5. CASE Calm(g) /\ (ToolReturns(g) \/ ModelRemembered(g))
    BY <1>5 DEF ToolReturns, ModelRemembered
  <1>6. CASE Calm(g) /\ (StoreAnswer(g) \/ PlaybackReturns(g))
    BY <1>6 DEF StoreAnswer, PlaybackReturns
  <1>7. CASE Calm(g) /\ (RetirePredecessor(g) \/ ReportCompleted(g) \/ ReportStopped(g))
    BY TurnActs, <1>7 DEF RetirePredecessor, ReportCompleted, ReportStopped
  <1>8. CASE Raised(g) /\ (InterruptTurn(g) \/ InterruptTool(g) \/ InterruptHandler(g))
    BY <1>8 DEF InterruptTurn, InterruptTool, InterruptHandler
  <1> QED
    BY <1>1, <1>2, <1>3, <1>4, <1>5, <1>6, <1>7, <1>8, TurnCases

\* A turn talks to its adapters only with the ledger it took.
LEMMA DeliveringKeeps ==
    ASSUME TypeInv, NEW g \in Submitted, TurnStep(g), pc'[g] \in Delivering
    PROVE  speaker' = g \/ (pc[g] \in Delivering /\ speaker' = speaker)
PROOF
  <1>0. \A a : pc' = [pc EXCEPT ![g] = a] => pc'[g] = a
    BY TurnExists DEF TypeInv
  <1> USE <1>0 DEF Goto, Retire, HandleCancelled, HandleError, Unless
  <1> USE DEF CancelDelivery, speech, AfterRetirement, Delivering, TryAwaits, HandlerAwaits
  <1>1. CASE Calm(g) /\ BeginTurn(g)
    BY <1>1 DEF BeginTurn
  <1>2. CASE Calm(g) /\ StartGeneration(g)
    BY <1>2 DEF StartGeneration
  <1>3. CASE Calm(g) /\ (StoreFails(g) \/ AdapterFails(g))
    BY <1>3 DEF StoreFails, AdapterFails
  <1>4. CASE Calm(g) /\ (ContextReady(g) \/ StreamAsksForTool(g) \/ StreamAnswers(g))
    BY <1>4 DEF ContextReady, StreamAsksForTool, StreamAnswers
  <1>5. CASE Calm(g) /\ (ToolReturns(g) \/ ModelRemembered(g))
    BY <1>5 DEF ToolReturns, ModelRemembered
  <1>6. CASE Calm(g) /\ (StoreAnswer(g) \/ PlaybackReturns(g))
    BY <1>6 DEF StoreAnswer, PlaybackReturns
  <1>7. CASE Calm(g) /\ (RetirePredecessor(g) \/ ReportCompleted(g) \/ ReportStopped(g))
    BY <1>7 DEF RetirePredecessor, ReportCompleted, ReportStopped
  <1>8. CASE Raised(g) /\ (InterruptTurn(g) \/ InterruptTool(g) \/ InterruptHandler(g))
    BY <1>8 DEF InterruptTurn, InterruptTool, InterruptHandler
  <1> QED
    BY <1>1, <1>2, <1>3, <1>4, <1>5, <1>6, <1>7, <1>8, TurnCases

\* A turn talks to its adapters only after its record was opened.
LEMMA DeliveringStarted ==
    ASSUME TypeInv, NEW g \in Submitted, TurnStep(g), pc'[g] \in Delivering
    PROVE  pc[g] \in Delivering \/ started'[g]
PROOF
  <1>0. \A a : pc' = [pc EXCEPT ![g] = a] => pc'[g] = a
    BY TurnExists DEF TypeInv
  <1> USE <1>0 DEF Goto, Retire, HandleCancelled, HandleError, Unless
  <1> USE TurnExists DEF AfterRetirement, Delivering, TryAwaits, HandlerAwaits, TypeInv
  <1>1. CASE Calm(g) /\ BeginTurn(g)
    BY <1>1 DEF BeginTurn
  <1>2. CASE Calm(g) /\ StartGeneration(g)
    BY <1>2 DEF StartGeneration
  <1>3. CASE Calm(g) /\ (StoreFails(g) \/ AdapterFails(g))
    BY <1>3 DEF StoreFails, AdapterFails
  <1>4. CASE Calm(g) /\ (ContextReady(g) \/ StreamAsksForTool(g) \/ StreamAnswers(g))
    BY <1>4 DEF ContextReady, StreamAsksForTool, StreamAnswers
  <1>5. CASE Calm(g) /\ (ToolReturns(g) \/ ModelRemembered(g))
    BY <1>5 DEF ToolReturns, ModelRemembered
  <1>6. CASE Calm(g) /\ (StoreAnswer(g) \/ PlaybackReturns(g))
    BY <1>6 DEF StoreAnswer, PlaybackReturns
  <1>7. CASE Calm(g) /\ (RetirePredecessor(g) \/ ReportCompleted(g) \/ ReportStopped(g))
    BY <1>7 DEF RetirePredecessor, ReportCompleted, ReportStopped
  <1>8. CASE Raised(g) /\ (InterruptTurn(g) \/ InterruptTool(g) \/ InterruptHandler(g))
    BY <1>8 DEF InterruptTurn, InterruptTool, InterruptHandler
  <1> QED
    BY <1>1, <1>2, <1>3, <1>4, <1>5, <1>6, <1>7, <1>8, TurnCases

\* The open record of the active generation stays open while it is active.
LEMMA OpenStays ==
    ASSUME TypeInv, NEW g \in Submitted, TurnStep(g),
           NEW h \in AllTurns, ledger[h] = "open", speaker' = h, speaker = h
    PROVE  ledger'[h] = "open"
PROOF
  <1>z. h # 0
    BY DEF AllTurns
  <1> USE <1>z DEF Retire, HandleCancelled, HandleError, Unless, CancelDelivery,
      CancelledLedger, speech, TypeInv
  <1>1. CASE Calm(g) /\ BeginTurn(g)
    BY <1>1 DEF BeginTurn
  <1>2. CASE Calm(g) /\ StartGeneration(g)
    BY <1>2 DEF StartGeneration
  <1>3. CASE Calm(g) /\ (StoreFails(g) \/ AdapterFails(g))
    BY <1>3 DEF StoreFails, AdapterFails
  <1>4. CASE Calm(g) /\ (ContextReady(g) \/ StreamAsksForTool(g) \/ StreamAnswers(g))
    BY <1>4 DEF ContextReady, StreamAsksForTool, StreamAnswers
  <1>5. CASE Calm(g) /\ (ToolReturns(g) \/ ModelRemembered(g))
    BY <1>5 DEF ToolReturns, ModelRemembered
  <1>6. CASE Calm(g) /\ (StoreAnswer(g) \/ PlaybackReturns(g))
    BY <1>6 DEF StoreAnswer, PlaybackReturns
  <1>7. CASE Calm(g) /\ (RetirePredecessor(g) \/ ReportCompleted(g) \/ ReportStopped(g))
    BY <1>7 DEF RetirePredecessor, ReportCompleted, ReportStopped
  <1>8. CASE Raised(g) /\ (InterruptTurn(g) \/ InterruptTool(g) \/ InterruptHandler(g))
    BY <1>8 DEF InterruptTurn, InterruptTool, InterruptHandler
  <1> QED
    BY <1>1, <1>2, <1>3, <1>4, <1>5, <1>6, <1>7, <1>8, TurnCases

\* An opened record is never taken back.
LEMMA StartedStays ==
    ASSUME TypeInv, NEW g \in Submitted, TurnStep(g), NEW h \in AllTurns, started[h]
    PROVE  started'[h]
PROOF
  <1> USE DEF TypeInv, Raised
  <1>1. CASE Calm(g) /\ BeginTurn(g)
    BY <1>1 DEF BeginTurn
  <1>2. CASE Calm(g) /\ StartGeneration(g)
    BY <1>2 DEF StartGeneration
  <1>3. CASE Calm(g) /\ (StoreFails(g) \/ AdapterFails(g))
    BY <1>3 DEF StoreFails, AdapterFails
  <1>4. CASE Calm(g) /\ (ContextReady(g) \/ StreamAsksForTool(g) \/ StreamAnswers(g))
    BY <1>4 DEF ContextReady, StreamAsksForTool, StreamAnswers
  <1>5. CASE Calm(g) /\ (ToolReturns(g) \/ ModelRemembered(g))
    BY <1>5 DEF ToolReturns, ModelRemembered
  <1>6. CASE Calm(g) /\ (StoreAnswer(g) \/ PlaybackReturns(g))
    BY <1>6 DEF StoreAnswer, PlaybackReturns
  <1>7. CASE Calm(g) /\ (RetirePredecessor(g) \/ ReportCompleted(g) \/ ReportStopped(g))
    BY <1>7 DEF RetirePredecessor, ReportCompleted, ReportStopped
  <1>8. CASE Raised(g) /\ (InterruptTurn(g) \/ InterruptTool(g) \/ InterruptHandler(g))
    BY <1>8 DEF InterruptTurn, InterruptTool, InterruptHandler
  <1> QED
    BY <1>1, <1>2, <1>3, <1>4, <1>5, <1>6, <1>7, <1>8, TurnCases

\* A record is opened only on the way to the context.
LEMMA StartedLater ==
    ASSUME TypeInv, NEW g \in Submitted, TurnStep(g)
    PROVE  \/ started' = started
           \/ started' = [started EXCEPT ![g] = TRUE] /\ pc'[g] = "context"
PROOF
  <1>0. \A a : pc' = [pc EXCEPT ![g] = a] => pc'[g] = a
    BY TurnExists DEF TypeInv
  <1> USE <1>0 DEF Goto, Retire, HandleCancelled, HandleError, Unless
  <1> USE DEF Raised
  <1>1. CASE Calm(g) /\ BeginTurn(g)
    BY <1>1 DEF BeginTurn
  <1>2. CASE Calm(g) /\ StartGeneration(g)
    BY <1>2 DEF StartGeneration
  <1>3. CASE Calm(g) /\ (StoreFails(g) \/ AdapterFails(g))
    BY <1>3 DEF StoreFails, AdapterFails
  <1>4. CASE Calm(g) /\ (ContextReady(g) \/ StreamAsksForTool(g) \/ StreamAnswers(g))
    BY <1>4 DEF ContextReady, StreamAsksForTool, StreamAnswers
  <1>5. CASE Calm(g) /\ (ToolReturns(g) \/ ModelRemembered(g))
    BY <1>5 DEF ToolReturns, ModelRemembered
  <1>6. CASE Calm(g) /\ (StoreAnswer(g) \/ PlaybackReturns(g))
    BY <1>6 DEF StoreAnswer, PlaybackReturns
  <1>7. CASE Calm(g) /\ (RetirePredecessor(g) \/ ReportCompleted(g) \/ ReportStopped(g))
    BY <1>7 DEF RetirePredecessor, ReportCompleted, ReportStopped
  <1>8. CASE Raised(g) /\ (InterruptTurn(g) \/ InterruptTool(g) \/ InterruptHandler(g))
    BY <1>8 DEF InterruptTurn, InterruptTool, InterruptHandler
  <1> QED
    BY <1>1, <1>2, <1>3, <1>4, <1>5, <1>6, <1>7, <1>8, TurnCases

\* A task counts only its own tool rounds.
LEMMA OtherRounds ==
    ASSUME TypeInv, NEW g \in Submitted, TurnStep(g), NEW h \in AllTurns, h # g
    PROVE  rounds'[h] = rounds[h]
PROOF
  <1> USE DEF TypeInv
  <1>1. CASE Calm(g) /\ BeginTurn(g)
    BY <1>1 DEF BeginTurn
  <1>2. CASE Calm(g) /\ StartGeneration(g)
    BY <1>2 DEF StartGeneration
  <1>3. CASE Calm(g) /\ (StoreFails(g) \/ AdapterFails(g))
    BY <1>3 DEF StoreFails, AdapterFails
  <1>4. CASE Calm(g) /\ (ContextReady(g) \/ StreamAsksForTool(g) \/ StreamAnswers(g))
    BY <1>4 DEF ContextReady, StreamAsksForTool, StreamAnswers
  <1>5. CASE Calm(g) /\ (ToolReturns(g) \/ ModelRemembered(g))
    BY <1>5 DEF ToolReturns, ModelRemembered
  <1>6. CASE Calm(g) /\ (StoreAnswer(g) \/ PlaybackReturns(g))
    BY <1>6 DEF StoreAnswer, PlaybackReturns
  <1>7. CASE Calm(g) /\ (RetirePredecessor(g) \/ ReportCompleted(g) \/ ReportStopped(g))
    BY <1>7 DEF RetirePredecessor, ReportCompleted, ReportStopped
  <1>8. CASE Raised(g) /\ (InterruptTurn(g) \/ InterruptTool(g) \/ InterruptHandler(g))
    BY <1>8 DEF InterruptTurn, InterruptTool, InterruptHandler
  <1> QED
    BY <1>1, <1>2, <1>3, <1>4, <1>5, <1>6, <1>7, <1>8, TurnCases

\* A tool is asked for only while rounds are left.
LEMMA ToolRounds ==
    ASSUME TypeInv, NEW g \in Submitted, TurnStep(g), pc'[g] = "tool"
    PROVE  rounds'[g] < MaxToolRounds
PROOF
  <1>0. \A a : pc' = [pc EXCEPT ![g] = a] => pc'[g] = a
    BY TurnExists DEF TypeInv
  <1> USE <1>0 DEF Goto, Retire, HandleCancelled, HandleError, Unless
  <1> USE TurnExists, HandoffAssumption DEF AfterRetirement, HandlerAwaits, TypeInv
  <1>1. CASE Calm(g) /\ BeginTurn(g)
    BY <1>1 DEF BeginTurn
  <1>2. CASE Calm(g) /\ StartGeneration(g)
    BY <1>2 DEF StartGeneration
  <1>3. CASE Calm(g) /\ (StoreFails(g) \/ AdapterFails(g))
    BY <1>3 DEF StoreFails, AdapterFails
  <1>4. CASE Calm(g) /\ (ContextReady(g) \/ StreamAsksForTool(g) \/ StreamAnswers(g))
    BY <1>4 DEF ContextReady, StreamAsksForTool, StreamAnswers
  <1>5. CASE Calm(g) /\ (ToolReturns(g) \/ ModelRemembered(g))
    BY <1>5 DEF ToolReturns, ModelRemembered
  <1>6. CASE Calm(g) /\ (StoreAnswer(g) \/ PlaybackReturns(g))
    BY <1>6 DEF StoreAnswer, PlaybackReturns
  <1>7. CASE Calm(g) /\ (RetirePredecessor(g) \/ ReportCompleted(g) \/ ReportStopped(g))
    BY <1>7 DEF RetirePredecessor, ReportCompleted, ReportStopped
  <1>8. CASE Raised(g) /\ (InterruptTurn(g) \/ InterruptTool(g) \/ InterruptHandler(g))
    BY <1>8 DEF InterruptTurn, InterruptTool, InterruptHandler
  <1> QED
    BY <1>1, <1>2, <1>3, <1>4, <1>5, <1>6, <1>7, <1>8, TurnCases

\* No task leaves the ledger with a turn that is over, or takes it from a turn that
\* nobody stopped.
LEMMA TurnDelivery ==
    ASSUME TypeInv, ChainInv, DeliveryInv, NEW g \in Submitted, TurnStep(g)
    PROVE  DeliveryInv'
PROOF
  <1>1. PICK a \in Awaits \ {"none", "submitted"} : pc' = [pc EXCEPT ![g] = a]
    BY Moves
  <1>2. Submitted' = Submitted /\ token' = token
    BY TurnKeeps DEF Submitted
  <1>3. \A h \in Submitted : h # g => pc'[h] = pc[h]
    BY <1>1, TurnExists DEF TypeInv
  <1>4. speaker' # 0 => Running(speaker)' /\ ledger'[speaker'] = "open" /\ started'[speaker']
    <2>1. CASE speaker' = speaker
      <3>1. ASSUME speaker # 0
            PROVE  /\ speaker \in Submitted /\ speaker \in AllTurns
                   /\ Running(speaker) /\ ledger[speaker] = "open" /\ started[speaker]
        BY <3>1, HandoffAssumption DEF TypeInv, DeliveryInv, LedgerBelongsToRunningTurn,
            Submitted, AllTurns
      <3>2. ASSUME speaker # 0
            PROVE  ledger'[speaker] = "open" /\ started'[speaker]
        BY <2>1, <3>1, <3>2, OpenStays, StartedStays
      <3>3. ASSUME speaker # 0
            PROVE  pc'[speaker] # "done" /\ pc'[speaker] # "none"
        <4>1. CASE speaker = g
          <5>1. pc'[g] = a
            BY <1>1, TurnExists DEF TypeInv
          <5> QED
            BY <2>1, <4>1, <5>1, DoneCloses
        <4>2. CASE speaker # g
          BY <1>3, <3>1, <3>3, <4>2 DEF Running
        <4> QED
          BY <4>1, <4>2
      <3> QED
        BY <2>1, <3>2, <3>3 DEF Running
    <2>2. CASE speaker' = g /\ speaker = 0
      BY <2>2, RecordOpened DEF Running
    <2> QED
      BY <2>1, <2>2, SpeakerMoves
  <1>5. \A h \in Submitted : pc'[h] \in Delivering /\ ~token[h] => speaker' = h
    <2>1. pc'[g] \in Delivering /\ ~token[g] => speaker' = g
      BY DeliveringKeeps DEF DeliveryInv
    <2>2. ASSUME NEW h \in Submitted, h # g, pc'[h] \in Delivering, ~token[h]
          PROVE  speaker' = h
      <3>1. speaker = h
        BY <1>3, <2>2 DEF DeliveryInv
      <3>2. h # 0
        BY DEF Submitted
      <3>3. h # predecessor[g]
        BY <2>2, <3>2 DEF ChainInv
      <3> QED
        BY <2>2, <3>1, <3>2, <3>3, SpeakerMoves
    <2> QED
      BY <2>1, <2>2
  <1>6. \A h \in Submitted : pc'[h] \in Delivering => started'[h]
    <2>1. ASSUME pc'[g] \in Delivering
          PROVE  started'[g]
      <3>1. started[g] => started'[g]
        BY StartedStays, TurnExists
      <3> QED
        BY <2>1, <3>1, DeliveringStarted DEF DeliveryInv
    <2>2. ASSUME NEW h \in Submitted, h # g, pc'[h] \in Delivering
          PROVE  started'[h]
      BY <1>3, <2>2, StartedStays, TurnExists DEF DeliveryInv
    <2> QED
      BY <2>1, <2>2
  <1>7. \A h \in Submitted : pc'[h] = "tool" => rounds'[h] < MaxToolRounds
    <2>1. pc'[g] = "tool" => rounds'[g] < MaxToolRounds
      BY ToolRounds
    <2>2. \A h \in Submitted : h # g => pc'[h] = pc[h] /\ rounds'[h] = rounds[h]
      BY <1>3, OtherRounds, TurnExists
    <2> QED
      BY <2>1, <2>2 DEF DeliveryInv
  <1>8. \A h \in Submitted : pc'[h] \in TryAwaits \ {"append"} => pc'[h] \in Delivering
    BY DEF Delivering
  <1> QED
    BY <1>2, <1>4, <1>5, <1>6, <1>7, <1>8 DEF DeliveryInv, LedgerBelongsToRunningTurn

\* A token is never reset.
LEMMA TokenKept ==
    ASSUME TypeInv, SubmitUserMessage \/ CancelActive, NEW g \in AllTurns, token[g]
    PROVE  token'[g]
PROOF
  <1>1. token \in [AllTurns -> BOOLEAN]
    BY DEF TypeInv
  <1>2. token' = token \/ token' = [token EXCEPT ![active] = TRUE]
    BY DEF SubmitUserMessage, CancelActive, CancelPredecessor
  <1>3. CASE g = active
    BY <1>1, <1>2, <1>3
  <1>4. CASE g # active
    BY <1>1, <1>2, <1>4
  <1> QED
    BY <1>3, <1>4

\* Accepting a message leaves the ledger alone.
LEMMA SubmitDelivery ==
    ASSUME TypeInv, DeliveryInv, SubmitUserMessage
    PROVE  DeliveryInv'
PROOF
  <1> USE HandoffAssumption DEF SubmitUserMessage, TypeInv, Submitted, AllTurns,
      reporting, speech
  <1>1. \A g \in Submitted' : g = submitted' \/ g \in Submitted
    OBVIOUS
  <1>2. pc'[submitted'] = "submitted"
    BY DEF Goto
  <1>3. \A g \in Submitted : g # submitted' /\ pc'[g] = pc[g]
    BY DEF Goto
  <1>4. \A g \in Submitted : token[g] => token'[g]
    BY TokenKept, SMTT(60)
  <1>5. speaker # 0 => speaker \in Submitted
    OBVIOUS
  <1>6. UNCHANGED <<speaker, ledger, started, rounds>>
    OBVIOUS
  <1> HIDE DEF SubmitUserMessage, TypeInv, Submitted, AllTurns
  <1>7. speaker' # 0 => Running(speaker)' /\ ledger'[speaker'] = "open" /\ started'[speaker']
    BY <1>3, <1>5, <1>6 DEF DeliveryInv, LedgerBelongsToRunningTurn, Running
  <1>8. \A g \in Submitted' : pc'[g] \in Delivering => g \in Submitted /\ pc[g] \in Delivering
    BY <1>1, <1>2, <1>3 DEF Delivering, TryAwaits
  <1>9. \A g \in Submitted' : pc'[g] = "tool" => g \in Submitted /\ pc[g] = "tool"
    BY <1>1, <1>2, <1>3
  <1>10. \A g \in Submitted' : pc'[g] \in TryAwaits \ {"append"} => pc'[g] \in Delivering
    BY DEF Delivering
  <1> QED
    BY <1>4, <1>6, <1>7, <1>8, <1>9, <1>10 DEF DeliveryInv, LedgerBelongsToRunningTurn

\* Every step keeps the ledger with a running turn.
LEMMA DeliveryStep ==
    ASSUME TypeInv, ChainInv, DeliveryInv, [Next]_vars
    PROVE  DeliveryInv'
PROOF
  <1>1. CASE UNCHANGED vars
    BY <1>1 DEF vars, speech, DeliveryInv, LedgerBelongsToRunningTurn, Submitted, Running
  <1>2. CASE SubmitUserMessage
    BY <1>2, SubmitDelivery
  <1>3. CASE CancelActive
    <2>1. \A g \in Submitted : token[g] => token'[g]
      BY <1>3, TokenKept, TurnExists
    <2>2. /\ Submitted' = Submitted
          /\ UNCHANGED <<pc, speaker, ledger, started, rounds>>
      BY <1>3 DEF CancelActive, Submitted, speech
    <2> QED
      BY <2>1, <2>2 DEF DeliveryInv, LedgerBelongsToRunningTurn, Running
  <1>4. ASSUME NEW g \in Submitted, TurnStep(g)
        PROVE  DeliveryInv'
    BY <1>4, TurnDelivery
  <1> QED
    BY <1>1, <1>2, <1>3, <1>4 DEF Next, TurnStep

-----------------------------------------------------------------------------
(* Interrupts.                                                              *)

\* A turn comes past its context only if its token is not set, and goes on delivering
\* only if it was not interrupted.
LEMMA CommittedKeeps ==
    ASSUME TypeInv, NEW g \in Submitted, TurnStep(g), pc'[g] \in Delivering
    PROVE  /\ Calm(g)
           /\ pc'[g] \in Committed => pc[g] \in Committed \/ ~token[g]
           /\ pc[g] \in Delivering \/ pc[g] = "append"
PROOF
  <1>0. \A a : pc' = [pc EXCEPT ![g] = a] => pc'[g] = a
    BY TurnExists DEF TypeInv
  <1> USE <1>0 DEF Goto, Retire, HandleCancelled, HandleError, Unless
  <1> USE TurnExists DEF AfterRetirement, HandlerAwaits, TryAwaits, Delivering, Committed,
      Calm
  <1>1. CASE Calm(g) /\ BeginTurn(g)
    BY <1>1 DEF BeginTurn
  <1>2. CASE Calm(g) /\ StartGeneration(g)
    BY <1>2 DEF StartGeneration
  <1>3. CASE Calm(g) /\ (StoreFails(g) \/ AdapterFails(g))
    BY <1>3 DEF StoreFails, AdapterFails
  <1>4. CASE Calm(g) /\ (ContextReady(g) \/ StreamAsksForTool(g) \/ StreamAnswers(g))
    BY <1>4 DEF ContextReady, StreamAsksForTool, StreamAnswers
  <1>5. CASE Calm(g) /\ (ToolReturns(g) \/ ModelRemembered(g))
    BY <1>5 DEF ToolReturns, ModelRemembered
  <1>6. CASE Calm(g) /\ (StoreAnswer(g) \/ PlaybackReturns(g))
    BY <1>6 DEF StoreAnswer, PlaybackReturns
  <1>7. CASE Calm(g) /\ (RetirePredecessor(g) \/ ReportCompleted(g) \/ ReportStopped(g))
    BY <1>7 DEF RetirePredecessor, ReportCompleted, ReportStopped
  <1>8. CASE Raised(g) /\ (InterruptTurn(g) \/ InterruptTool(g) \/ InterruptHandler(g))
    BY <1>8 DEF InterruptTurn, InterruptTool, InterruptHandler
  <1> QED
    BY <1>1, <1>2, <1>3, <1>4, <1>5, <1>6, <1>7, <1>8, TurnCases

\* No task returns to the awaits before its record is opened.
LEMMA EarlyKeeps ==
    ASSUME TypeInv, NEW g \in Submitted, TurnStep(g),
           pc'[g] \in {"none", "submitted", "retire", "append"}
    PROVE  pc[g] \in {"submitted", "retire", "append"} /\ started' = started
PROOF
  <1>0. \A a : pc' = [pc EXCEPT ![g] = a] => pc'[g] = a
    BY TurnExists DEF TypeInv
  <1> USE <1>0 DEF Goto, Retire, HandleCancelled, HandleError, Unless
  <1> USE TurnExists DEF AfterRetirement, HandlerAwaits, TryAwaits, Raised, TypeInv
  <1>1. CASE Calm(g) /\ BeginTurn(g)
    BY <1>1 DEF BeginTurn
  <1>2. CASE Calm(g) /\ StartGeneration(g)
    BY TurnActs, <1>2 DEF StartGeneration
  <1>3. CASE Calm(g) /\ (StoreFails(g) \/ AdapterFails(g))
    BY <1>3 DEF StoreFails, AdapterFails
  <1>4. CASE Calm(g) /\ (ContextReady(g) \/ StreamAsksForTool(g) \/ StreamAnswers(g))
    BY <1>4 DEF ContextReady, StreamAsksForTool, StreamAnswers
  <1>5. CASE Calm(g) /\ (ToolReturns(g) \/ ModelRemembered(g))
    BY <1>5 DEF ToolReturns, ModelRemembered
  <1>6. CASE Calm(g) /\ (StoreAnswer(g) \/ PlaybackReturns(g))
    BY <1>6 DEF StoreAnswer, PlaybackReturns
  <1>7. CASE Calm(g) /\ (RetirePredecessor(g) \/ ReportCompleted(g) \/ ReportStopped(g))
    BY <1>7 DEF RetirePredecessor, ReportCompleted, ReportStopped
  <1>8. CASE Raised(g) /\ (InterruptTurn(g) \/ InterruptTool(g) \/ InterruptHandler(g))
    BY <1>8 DEF InterruptTurn, InterruptTool, InterruptHandler
  <1> QED
    BY <1>1, <1>2, <1>3, <1>4, <1>5, <1>6, <1>7, <1>8, TurnCases

\* A superseded turn past its context is interrupted at its next await.
LEMMA TurnCancellation ==
    ASSUME TypeInv, ChainInv, CancellationInv, NEW g \in Submitted, TurnStep(g)
    PROVE  CancellationInv'
PROOF
  <1>1. PICK a \in Awaits \ {"none", "submitted"} : pc' = [pc EXCEPT ![g] = a]
    BY Moves
  <1>2. Submitted' = Submitted /\ UNCHANGED <<token, predecessor, cancelling>>
    BY TurnKeeps DEF Submitted
  <1>3. \A h \in AllTurns : h # g => pc'[h] = pc[h]
    BY <1>1 DEF TypeInv
  <1>4. \A h : Superseded(h)' <=> Superseded(h)
    BY <1>2 DEF Superseded
  <1>5. \A h \in AllTurns : interrupt'[h] => interrupt[h]
    BY TurnCases DEF Calm, Raised, TypeInv
  <1>6. ASSUME NEW h \in AllTurns, h # g
        PROVE  interrupt'[h] <=> interrupt[h]
    <2>1. interrupt' = interrupt \/ interrupt' = [interrupt EXCEPT ![g] = FALSE]
      BY TurnCases DEF Calm, Raised
    <2>2. interrupt \in [AllTurns -> BOOLEAN]
      BY DEF TypeInv
    <2>3. CASE interrupt' = interrupt
      BY <2>3
    <2>4. CASE interrupt' = [interrupt EXCEPT ![g] = FALSE]
      BY <1>6, <2>2, <2>4
    <2> QED
      BY <2>1, <2>3, <2>4
  <1>7. \A h \in AllTurns : started[h] => started'[h]
    BY StartedStays
  <1>8. Superseded(g) => token[g]
    BY DEF Superseded, ChainInv, Submitted
  <1>9. pc'[g] \in Committed /\ Superseded(g) => cancelling[g]
    <2>1. pc'[g] \in Committed => pc'[g] \in Delivering
      BY DEF Committed
    <2> QED
      BY <1>8, <2>1, CommittedKeeps DEF CancellationInv
  <1>10. pc'[g] \in Delivering /\ cancelling[g] => interrupt'[g]
    <2>1. ASSUME pc'[g] \in Delivering, cancelling[g]
          PROVE  interrupt'[g]
      <3>1. pc[g] # "append"
        BY <2>1, TurnExists DEF CancellationInv
      <3>2. pc[g] \in Delivering /\ Calm(g)
        BY <2>1, <3>1, CommittedKeeps
      <3> QED
        BY <2>1, <3>2 DEF Calm, CancellationInv
    <2> QED
      BY <2>1
  <1>11. \A h \in AllTurns :
            started'[h] => pc'[h] \notin {"none", "submitted", "retire", "append"}
    <2>1. started'[g] => pc'[g] \notin {"none", "submitted", "retire", "append"}
      BY EarlyKeeps, TurnExists DEF CancellationInv
    <2>2. \A h \in AllTurns : h # g => started'[h] = started[h]
      BY StartedLater, ZenonT(60) DEF TypeInv
    <2> QED
      BY <1>3, <2>1, <2>2 DEF CancellationInv
  <1> QED
    BY <1>2, <1>3, <1>4, <1>5, <1>6, <1>7, <1>9, <1>10, <1>11, TurnExists DEF
        CancellationInv

\* Accepting a message calls task.cancel() for the owner alone, if it has started.
LEMMA CancelOne ==
    ASSUME TypeInv, SubmitUserMessage, NEW g \in AllTurns
    PROVE  /\ interrupt'[g] <=> interrupt[g] \/ (g = active /\ CancelsTask(g))
           /\ cancelling'[g] <=> cancelling[g] \/ (g = active /\ CancelsTask(g))
PROOF
  <1>1. /\ interrupt \in [AllTurns -> BOOLEAN] /\ cancelling \in [AllTurns -> BOOLEAN]
        /\ CancelPredecessor(active)
    BY DEF TypeInv, SubmitUserMessage
  <1>2. g # 0
    BY DEF AllTurns
  <1>3. CASE g # active
    BY <1>1, <1>3 DEF CancelPredecessor
  <1>4. CASE g = active
    <2>1. /\ interrupt' = [interrupt EXCEPT ![g] = @ \/ CancelsTask(g)]
          /\ cancelling' = [cancelling EXCEPT ![g] = @ \/ CancelsTask(g)]
      BY <1>1, <1>2, <1>4 DEF CancelPredecessor
    <2>2. /\ interrupt'[g] = (interrupt[g] \/ CancelsTask(g))
          /\ cancelling'[g] = (cancelling[g] \/ CancelsTask(g))
      BY <1>1, <2>1
    <2> QED
      BY <1>4, <2>2
  <1> QED
    BY <1>3, <1>4

\* A turn superseded past its context is interrupted.
LEMMA SubmitCancellation ==
    ASSUME TypeInv, ChainInv, DeliveryInv, CancellationInv, SubmitUserMessage
    PROVE  CancellationInv'
PROOF
  <1> USE HandoffAssumption DEF SubmitUserMessage, TypeInv, Submitted, AllTurns
  <1>1. \A g \in Submitted' : g = submitted' \/ g \in Submitted
    OBVIOUS
  <1>2. pc'[submitted'] = "submitted" /\ submitted' \in AllTurns
    BY DEF Goto
  <1>3. \A g \in AllTurns : g # submitted' => pc'[g] = pc[g]
    BY DEF Goto
  <1>4. \A g \in AllTurns : Superseded(g) => Superseded(g)'
    BY DEF Superseded
  <1>5. \A g \in AllTurns : Superseded(g)' => Superseded(g) \/ (g = active /\ active # 0)
    BY SMTT(60) DEF Superseded
  <1>6. \A g \in AllTurns : g = active => Superseded(g)'
    <2>1. submitted' \in Submitted' /\ predecessor'[submitted'] = active
      OBVIOUS
    <2> QED
      BY <2>1 DEF Superseded
  <1>7. \A g \in AllTurns : ~(g = active /\ CancelsTask(g)) =>
           (interrupt'[g] <=> interrupt[g]) /\ (cancelling'[g] <=> cancelling[g])
    BY CancelOne
  <1>8. \A g \in AllTurns : g = active /\ CancelsTask(g) => interrupt'[g] /\ cancelling'[g]
    BY CancelOne
  <1>9. started' = started /\ (active # 0 => active \in Submitted /\ active # submitted')
    OBVIOUS
  <1>10. ~started[submitted']
    BY <1>2 DEF ChainInv, CancellationInv
  <1>11. \A g \in AllTurns : g \in Submitted => g # submitted'
    OBVIOUS
  <1> HIDE DEF SubmitUserMessage, TypeInv, Submitted, AllTurns
  <1>12. \A g \in AllTurns : interrupt'[g] => Superseded(g)'
    BY <1>4, <1>6, <1>7 DEF CancellationInv
  <1>13. \A g \in AllTurns : cancelling'[g] => started'[g]
    BY <1>7, <1>9 DEF CancellationInv, CancelsTask
  <1>14. \A g \in AllTurns :
            started'[g] => pc'[g] \notin {"none", "submitted", "retire", "append"}
    BY <1>2, <1>3, <1>9, <1>10 DEF CancellationInv
  <1>15. ASSUME NEW g \in Submitted', pc'[g] \in Delivering
         PROVE  g \in Submitted /\ g \in AllTurns /\ pc[g] = pc'[g] /\ started[g] /\ pc[g] # "done"
    <2>1. g # submitted'
      BY <1>2, <1>15 DEF Delivering, TryAwaits
    <2>2. g \in Submitted /\ g \in AllTurns
      BY <1>1, <2>1, TurnExists
    <2>3. pc[g] = pc'[g]
      BY <1>3, <2>1, <2>2
    <2> QED
      BY <1>15, <2>2, <2>3 DEF DeliveryInv, Delivering, TryAwaits
  <1>16. \A g \in Submitted' : pc'[g] \in Committed /\ Superseded(g)' => cancelling'[g]
    <2>1. ASSUME NEW g \in Submitted', pc'[g] \in Committed, Superseded(g)'
          PROVE  cancelling'[g]
      <3>1. pc'[g] \in Delivering
        BY <2>1 DEF Committed
      <3>2. g \in Submitted /\ g \in AllTurns /\ pc[g] = pc'[g] /\ started[g] /\ pc[g] # "done"
        BY <1>15, <3>1
      <3>3. CASE g = active /\ CancelsTask(g)
        BY <1>8, <3>2, <3>3
      <3>4. CASE g = active /\ ~CancelsTask(g)
        BY <1>7, <3>2, <3>4 DEF CancelsTask
      <3>5. CASE g # active
        BY <1>5, <1>7, <2>1, <3>2, <3>5 DEF CancellationInv
      <3> QED
        BY <3>3, <3>4, <3>5
    <2> QED
      BY <2>1
  <1>17. \A g \in Submitted' : pc'[g] \in Delivering /\ cancelling'[g] => interrupt'[g]
    BY <1>7, <1>8, <1>15 DEF CancellationInv
  <1> QED
    BY <1>12, <1>13, <1>14, <1>16, <1>17 DEF CancellationInv

\* Every step keeps what interrupts and tokens say of superseded turns.
LEMMA CancellationStep ==
    ASSUME TypeInv, ChainInv, DeliveryInv, CancellationInv, [Next]_vars
    PROVE  CancellationInv'
PROOF
  <1>1. CASE UNCHANGED vars
    BY <1>1 DEF vars, CancellationInv, Submitted, Superseded
  <1>2. CASE SubmitUserMessage
    BY <1>2, SubmitCancellation
  <1>3. CASE CancelActive
    BY <1>3 DEF CancelActive, CancellationInv, Submitted, Superseded
  <1>4. ASSUME NEW g \in Submitted, TurnStep(g)
        PROVE  CancellationInv'
    BY <1>4, TurnCancellation
  <1> QED
    BY <1>1, <1>2, <1>3, <1>4 DEF Next, TurnStep

-----------------------------------------------------------------------------
(* Reports.                                                                 *)

\* A report is never taken back, and is about the task itself or its predecessor.
LEMMA TerminalMoves ==
    ASSUME TypeInv, NEW g \in Submitted, TurnStep(g), NEW h \in AllTurns
    PROVE  /\ terminal[h] => terminal'[h]
           /\ terminal'[h] =>
                \/ terminal[h]
                \/ h = predecessor[g]
                \/ h = g /\ pc'[g] \notin BeforeReport
PROOF
  <1>0. \A a : pc' = [pc EXCEPT ![g] = a] => pc'[g] = a
    BY TurnExists DEF TypeInv
  <1> USE <1>0 DEF Goto, Retire, HandleCancelled, HandleError, Unless
  <1>a. ASSUME NEW turn, NEW e, ReportReturns(turn, g, e)
        PROVE  /\ terminal[h] => terminal'[h]
               /\ terminal'[h] => terminal[h] \/ h = turn
    <2>1. terminal \in [AllTurns -> BOOLEAN]
      BY DEF TypeInv
    <2>2. terminal' = terminal \/ terminal' = [terminal EXCEPT ![turn] = TRUE]
      BY <1>a DEF ReportReturns, reporting
    <2>3. CASE h = turn
      BY <2>1, <2>2, <2>3
    <2>4. CASE h # turn
      BY <2>1, <2>2, <2>4
    <2> QED
      BY <2>3, <2>4
  <1> USE DEF BeforeReport, reporting, Raised, ReleaseLock, ReportWaits
  <1>1. CASE Calm(g) /\ BeginTurn(g)
    BY <1>1 DEF BeginTurn
  <1>2. CASE Calm(g) /\ StartGeneration(g)
    BY <1>2 DEF StartGeneration
  <1>3. CASE Calm(g) /\ (StoreFails(g) \/ AdapterFails(g))
    BY <1>3 DEF StoreFails, AdapterFails
  <1>4. CASE Calm(g) /\ (ContextReady(g) \/ StreamAsksForTool(g) \/ StreamAnswers(g))
    BY <1>4 DEF ContextReady, StreamAsksForTool, StreamAnswers
  <1>5. CASE Calm(g) /\ (ToolReturns(g) \/ ModelRemembered(g))
    BY <1>5 DEF ToolReturns, ModelRemembered
  <1>6. CASE Calm(g) /\ (StoreAnswer(g) \/ PlaybackReturns(g))
    BY <1>6 DEF StoreAnswer, PlaybackReturns
  <1>7. CASE Calm(g) /\ (RetirePredecessor(g) \/ ReportCompleted(g) \/ ReportStopped(g))
    BY <1>a, <1>7 DEF RetirePredecessor, ReportCompleted, ReportStopped
  <1>8. CASE Raised(g) /\ (InterruptTurn(g) \/ InterruptTool(g) \/ InterruptHandler(g))
    BY <1>8 DEF InterruptTurn, InterruptTool, InterruptHandler
  <1> QED
    BY <1>1, <1>2, <1>3, <1>4, <1>5, <1>6, <1>7, <1>8, TurnCases

\* A report that returns leaves the turn reported.
LEMMA ReportSetsTerminal ==
    ASSUME TypeInv, NEW g, NEW h \in AllTurns, NEW e, ReportReturns(h, g, e)
    PROVE  terminal'[h]
PROOF
  BY DEF ReportReturns, reporting, TypeInv

\* No task returns to the awaits before its outcome.
LEMMA BeforeKeeps ==
    ASSUME TypeInv, NEW g \in Submitted, TurnStep(g), pc'[g] \in BeforeReport
    PROVE  pc[g] \in BeforeReport
PROOF
  <1>0. \A a : pc' = [pc EXCEPT ![g] = a] => pc'[g] = a
    BY TurnExists DEF TypeInv
  <1> USE <1>0 DEF Goto, Retire, HandleCancelled, HandleError, Unless
  <1> USE DEF BeforeReport, AfterRetirement, HandlerAwaits, TryAwaits
  <1>1. CASE Calm(g) /\ BeginTurn(g)
    BY <1>1 DEF BeginTurn
  <1>2. CASE Calm(g) /\ StartGeneration(g)
    BY <1>2 DEF StartGeneration
  <1>3. CASE Calm(g) /\ (StoreFails(g) \/ AdapterFails(g))
    BY <1>3 DEF StoreFails, AdapterFails
  <1>4. CASE Calm(g) /\ (ContextReady(g) \/ StreamAsksForTool(g) \/ StreamAnswers(g))
    BY <1>4 DEF ContextReady, StreamAsksForTool, StreamAnswers
  <1>5. CASE Calm(g) /\ (ToolReturns(g) \/ ModelRemembered(g))
    BY <1>5 DEF ToolReturns, ModelRemembered
  <1>6. CASE Calm(g) /\ (StoreAnswer(g) \/ PlaybackReturns(g))
    BY <1>6 DEF StoreAnswer, PlaybackReturns
  <1>7. CASE Calm(g) /\ (RetirePredecessor(g) \/ ReportCompleted(g) \/ ReportStopped(g))
    BY <1>7 DEF RetirePredecessor, ReportCompleted, ReportStopped
  <1>8. CASE Raised(g) /\ (InterruptTurn(g) \/ InterruptTool(g) \/ InterruptHandler(g))
    BY <1>8 DEF InterruptTurn, InterruptTool, InterruptHandler
  <1> QED
    BY <1>1, <1>2, <1>3, <1>4, <1>5, <1>6, <1>7, <1>8, TurnCases

\* An answer is stored and spoken only after MODEL_COMPLETED was reported.
LEMMA AnswerFollowsReport ==
    ASSUME TypeInv, NEW g \in Submitted, TurnStep(g), pc'[g] \in {"answer", "speak"}
    PROVE  \/ pc[g] \in {"answer", "speak"}
           \/ /\ Calm(g) /\ pc[g] = "complete" /\ pc'[g] = "answer"
              /\ ReportReturns(g, g, "MODEL_COMPLETED")
PROOF
  <1>0. \A a : pc' = [pc EXCEPT ![g] = a] => pc'[g] = a
    BY TurnExists DEF TypeInv
  <1> USE <1>0 DEF Goto, Retire, HandleCancelled, HandleError, Unless
  <1> USE DEF AfterRetirement, HandlerAwaits, TryAwaits
  <1>1. CASE Calm(g) /\ BeginTurn(g)
    BY <1>1 DEF BeginTurn
  <1>2. CASE Calm(g) /\ StartGeneration(g)
    BY <1>2 DEF StartGeneration
  <1>3. CASE Calm(g) /\ (StoreFails(g) \/ AdapterFails(g))
    BY <1>3 DEF StoreFails, AdapterFails
  <1>4. CASE Calm(g) /\ (ContextReady(g) \/ StreamAsksForTool(g) \/ StreamAnswers(g))
    BY <1>4 DEF ContextReady, StreamAsksForTool, StreamAnswers
  <1>5. CASE Calm(g) /\ (ToolReturns(g) \/ ModelRemembered(g))
    BY <1>5 DEF ToolReturns, ModelRemembered
  <1>6. CASE Calm(g) /\ (StoreAnswer(g) \/ PlaybackReturns(g))
    BY <1>6 DEF StoreAnswer, PlaybackReturns
  <1>7. CASE Calm(g) /\ (RetirePredecessor(g) \/ ReportCompleted(g) \/ ReportStopped(g))
    BY <1>7 DEF RetirePredecessor, ReportCompleted, ReportStopped
  <1>8. CASE Raised(g) /\ (InterruptTurn(g) \/ InterruptTool(g) \/ InterruptHandler(g))
    BY <1>8 DEF InterruptTurn, InterruptTool, InterruptHandler
  <1> QED
    BY <1>1, <1>2, <1>3, <1>4, <1>5, <1>6, <1>7, <1>8, TurnCases

\* A task leaves its retirement only with its predecessor's outcome reported.
LEMMA RetirementReports ==
    ASSUME TypeInv, NEW g \in Submitted, TurnStep(g), predecessor[g] # 0,
           pc'[g] \notin {"submitted", "retire"}
    PROVE  \/ pc[g] \notin {"submitted", "retire"}
           \/ ReportReturns(predecessor[g], g, "MODEL_CANCELLED")
PROOF
  <1>0. \A a : pc' = [pc EXCEPT ![g] = a] => pc'[g] = a
    BY TurnExists DEF TypeInv
  <1> USE <1>0 DEF Goto, Retire, HandleCancelled, HandleError, Unless
  <1> USE DEF HandlerAwaits, TryAwaits
  <1>1. CASE Calm(g) /\ BeginTurn(g)
    BY <1>1 DEF BeginTurn
  <1>2. CASE Calm(g) /\ StartGeneration(g)
    BY <1>2 DEF StartGeneration
  <1>3. CASE Calm(g) /\ (StoreFails(g) \/ AdapterFails(g))
    BY <1>3 DEF StoreFails, AdapterFails
  <1>4. CASE Calm(g) /\ (ContextReady(g) \/ StreamAsksForTool(g) \/ StreamAnswers(g))
    BY <1>4 DEF ContextReady, StreamAsksForTool, StreamAnswers
  <1>5. CASE Calm(g) /\ (ToolReturns(g) \/ ModelRemembered(g))
    BY <1>5 DEF ToolReturns, ModelRemembered
  <1>6. CASE Calm(g) /\ (StoreAnswer(g) \/ PlaybackReturns(g))
    BY <1>6 DEF StoreAnswer, PlaybackReturns
  <1>7. CASE Calm(g) /\ (RetirePredecessor(g) \/ ReportCompleted(g) \/ ReportStopped(g))
    BY <1>7 DEF RetirePredecessor, ReportCompleted, ReportStopped
  <1>8. CASE Raised(g) /\ (InterruptTurn(g) \/ InterruptTool(g) \/ InterruptHandler(g))
    BY <1>8 DEF InterruptTurn, InterruptTool, InterruptHandler
  <1> QED
    BY <1>1, <1>2, <1>3, <1>4, <1>5, <1>6, <1>7, <1>8, TurnCases

\* A task that ends reports its outcome, or was reported before, or was stopped in a
\* tool, or has lost the conversation.
LEMMA EndIsReported ==
    ASSUME TypeInv, NEW g \in Submitted, TurnStep(g), pc'[g] = "done"
    PROVE  \/ \E e : ReportReturns(g, g, e)
           \/ g \in toolstop'
           \/ terminal[g]
           \/ pc[g] \in {"answer", "speak"}
           \/ active # g
PROOF
  <1>0. \A a : pc' = [pc EXCEPT ![g] = a] => pc'[g] = a
    BY TurnExists DEF TypeInv
  <1> USE <1>0 DEF Goto, Retire, HandleCancelled, HandleError, Unless
  <1> USE DEF AfterRetirement, HandlerAwaits, TryAwaits
  <1>1. CASE Calm(g) /\ BeginTurn(g)
    BY <1>1 DEF BeginTurn
  <1>2. CASE Calm(g) /\ StartGeneration(g)
    BY <1>2 DEF StartGeneration
  <1>3. CASE Calm(g) /\ (StoreFails(g) \/ AdapterFails(g))
    BY <1>3 DEF StoreFails, AdapterFails
  <1>4. CASE Calm(g) /\ (ContextReady(g) \/ StreamAsksForTool(g) \/ StreamAnswers(g))
    BY <1>4 DEF ContextReady, StreamAsksForTool, StreamAnswers
  <1>5. CASE Calm(g) /\ (ToolReturns(g) \/ ModelRemembered(g))
    BY <1>5 DEF ToolReturns, ModelRemembered
  <1>6. CASE Calm(g) /\ (StoreAnswer(g) \/ PlaybackReturns(g))
    BY <1>6 DEF StoreAnswer, PlaybackReturns
  <1>7. CASE Calm(g) /\ (RetirePredecessor(g) \/ ReportCompleted(g) \/ ReportStopped(g))
    BY TurnActs, <1>7 DEF RetirePredecessor, ReportCompleted, ReportStopped
  <1>8. CASE Raised(g) /\ (InterruptTurn(g) \/ InterruptTool(g) \/ InterruptHandler(g))
    BY <1>8 DEF InterruptTurn, InterruptTool, InterruptHandler
  <1> QED
    BY <1>1, <1>2, <1>3, <1>4, <1>5, <1>6, <1>7, <1>8, TurnCases

\* A task that ends is reported, unless its tool was stopped or its successor is about
\* to report it.
LEMMA TurnReport ==
    ASSUME TypeInv, ChainInv, OwnershipInv, ReportInv, NEW g \in Submitted, TurnStep(g)
    PROVE  ReportInv'
PROOF
  <1>1. PICK a \in Awaits \ {"none", "submitted"} : pc' = [pc EXCEPT ![g] = a]
    BY Moves
  <1>2. Submitted' = Submitted /\ predecessor' = predecessor
    BY TurnKeeps DEF Submitted
  <1>3. \A h \in AllTurns : h # g => pc'[h] = pc[h]
    BY <1>1 DEF TypeInv
  <1>4. \A h : Superseded(h)' <=> Superseded(h)
    BY <1>2 DEF Superseded
  <1>5. \A h \in AllTurns : terminal[h] => terminal'[h]
    BY TerminalMoves
  <1>6. \A h \in AllTurns : terminal'[h] /\ pc'[h] \in BeforeReport => Superseded(h)
    <2>1. ASSUME NEW h \in AllTurns, terminal'[h], pc'[h] \in BeforeReport
          PROVE  Superseded(h)
      <3>1. pc[h] \in BeforeReport
        BY <1>3, <2>1, BeforeKeeps
      <3>2. CASE terminal[h]
        BY <3>1, <3>2 DEF ReportInv
      <3>3. CASE h = predecessor[g]
        BY <3>3 DEF Superseded
      <3> QED
        BY <2>1, <3>2, <3>3, TerminalMoves
    <2> QED
      BY <2>1
  <1>7. \A h \in Submitted : pc'[h] \in {"answer", "speak"} => terminal'[h]
    <2>1. ASSUME pc'[g] \in {"answer", "speak"}
          PROVE  terminal'[g]
      <3>1. CASE pc[g] \in {"answer", "speak"}
        BY <1>5, <3>1, TurnExists DEF ReportInv
      <3>2. CASE ReportReturns(g, g, "MODEL_COMPLETED")
        BY <3>2, ReportSetsTerminal, TurnExists
      <3> QED
        BY <2>1, <3>1, <3>2, AnswerFollowsReport
    <2> QED
      BY <1>3, <1>5, <2>1, TurnExists DEF ReportInv
  <1>8. \A h \in Submitted :
           predecessor[h] # 0 /\ pc'[h] \notin {"submitted", "retire"} =>
               terminal'[predecessor[h]]
    <2>0. \A h \in Submitted : predecessor[h] # 0 => predecessor[h] \in AllTurns
      BY TurnExists, HandoffAssumption, SMTT(60) DEF TypeInv, AllTurns
    <2>1. ASSUME predecessor[g] # 0, pc'[g] \notin {"submitted", "retire"}
          PROVE  terminal'[predecessor[g]]
      <3>1. CASE pc[g] \notin {"submitted", "retire"}
        BY <1>5, <2>0, <2>1, <3>1 DEF ReportInv
      <3>2. CASE ReportReturns(predecessor[g], g, "MODEL_CANCELLED")
        BY <2>0, <2>1, <3>2, ReportSetsTerminal
      <3> QED
        BY <2>1, <3>1, <3>2, RetirementReports
    <2> QED
      BY <1>3, <1>5, <2>0, <2>1, TurnExists DEF ReportInv
  <1>9. \A h \in Submitted :
           pc'[h] = "done" =>
               \/ terminal'[h]
               \/ h \in toolstop'
               \/ Superseded(h)
    <2>1. pc'[g] = "done" => terminal'[g] \/ g \in toolstop' \/ Superseded(g)
      <3>1. ASSUME NEW e, ReportReturns(g, g, e)
            PROVE  terminal'[g]
        BY <3>1, ReportSetsTerminal, TurnExists
      <3>2. active # g => Superseded(g)
        BY TurnActs DEF OwnershipInv, Running
      <3>3. pc[g] \in {"answer", "speak"} => terminal'[g]
        BY <1>5, TurnExists DEF ReportInv
      <3>4. terminal[g] => terminal'[g]
        BY <1>5, TurnExists
      <3> QED
        BY <3>1, <3>2, <3>3, <3>4, EndIsReported
    <2>2. ASSUME NEW h \in Submitted, h # g, pc'[h] = "done"
          PROVE  terminal'[h] \/ h \in toolstop' \/ Superseded(h)
      <3>1. pc[h] = "done"
        BY <1>3, <2>2, TurnExists
      <3>2. terminal[h] \/ h \in toolstop \/ Superseded(h)
        BY <3>1 DEF ReportInv, FinishedTurnIsReported, Superseded
      <3>3. terminal[h] => terminal'[h]
        BY <1>5, TurnExists
      <3>4. h \in toolstop => h \in toolstop'
        BY Speech
      <3> QED
        BY <3>2, <3>3, <3>4
    <2> QED
      BY <2>1, <2>2
  <1>10. FinishedTurnIsReported'
    <2>1. ASSUME NEW h \in Submitted, Superseded(h), ~terminal'[h]
          PROVE  \E k \in Submitted : predecessor[k] = h /\ pc'[k] \in {"submitted", "retire"}
      <3>1. PICK k \in Submitted : predecessor[k] = h
        BY <2>1 DEF Superseded
      <3>2. h # 0
        BY DEF Submitted
      <3> QED
        BY <1>8, <2>1, <3>1, <3>2
    <2> QED
      BY <1>2, <1>9, <2>1 DEF FinishedTurnIsReported
  <1> QED
    BY <1>2, <1>4, <1>6, <1>7, <1>8, <1>10 DEF ReportInv

\* Accepting a message reports nothing.
LEMMA SubmitReport ==
    ASSUME TypeInv, ChainInv, ReportInv, SubmitUserMessage
    PROVE  ReportInv'
PROOF
  <1> USE HandoffAssumption DEF SubmitUserMessage, TypeInv, Submitted, AllTurns,
      reporting, marks
  <1>1. \A g \in Submitted' : g = submitted' \/ g \in Submitted
    OBVIOUS
  <1>2. pc'[submitted'] = "submitted" /\ pc[submitted'] = "none"
    BY DEF Goto, ChainInv
  <1>3. \A g \in AllTurns : g # submitted' => pc'[g] = pc[g]
    BY DEF Goto
  <1>4. \A g \in AllTurns : Superseded(g) => Superseded(g)'
    BY DEF Superseded
  <1>5. UNCHANGED <<terminal, toolstop>>
    OBVIOUS
  <1>6. \A g \in Submitted : g # submitted' /\ predecessor'[g] = predecessor[g]
    OBVIOUS
  <1>7. Submitted \subseteq Submitted'
    OBVIOUS
  <1>8. submitted' \in AllTurns
    OBVIOUS
  <1> HIDE DEF SubmitUserMessage, TypeInv, Submitted, AllTurns, reporting, marks
  <1>9. \A g \in Submitted : pc'[g] = pc[g]
    BY <1>3, <1>6, TurnExists
  <1>10. \A g \in AllTurns : terminal'[g] /\ pc'[g] \in BeforeReport => Superseded(g)'
    BY <1>2, <1>3, <1>4, <1>5, <1>8 DEF ReportInv, BeforeReport
  <1>11. \A g \in Submitted' : pc'[g] \in {"answer", "speak"} => terminal'[g]
    BY <1>1, <1>2, <1>5, <1>9 DEF ReportInv
  <1>12. \A g \in Submitted' :
            predecessor'[g] # 0 /\ pc'[g] \notin {"submitted", "retire"} =>
                terminal'[predecessor'[g]]
    BY <1>1, <1>2, <1>5, <1>6, <1>9 DEF ReportInv
  <1>13. FinishedTurnIsReported'
    <2>1. ASSUME NEW g \in Submitted', pc'[g] = "done", ~terminal'[g], g \notin toolstop'
          PROVE  \E k \in Submitted' : predecessor'[k] = g /\ pc'[k] \in {"submitted", "retire"}
      <3>1. g \in Submitted /\ pc[g] = "done"
        BY <1>1, <1>2, <1>9, <2>1
      <3>2. PICK k \in Submitted : predecessor[k] = g /\ pc[k] \in {"submitted", "retire"}
        BY <1>5, <2>1, <3>1 DEF ReportInv, FinishedTurnIsReported
      <3> QED
        BY <1>6, <1>7, <1>9, <3>2
    <2> QED
      BY <2>1 DEF FinishedTurnIsReported
  <1> QED
    BY <1>10, <1>11, <1>12, <1>13 DEF ReportInv

\* Every step keeps what is known of reports.
LEMMA ReportStep ==
    ASSUME TypeInv, ChainInv, OwnershipInv, ReportInv, [Next]_vars
    PROVE  ReportInv'
PROOF
  <1>1. CASE UNCHANGED vars
    BY <1>1 DEF vars, reporting, marks, ReportInv, FinishedTurnIsReported, Submitted,
        Superseded
  <1>2. CASE SubmitUserMessage
    BY <1>2, SubmitReport
  <1>3. CASE CancelActive
    BY <1>3 DEF CancelActive, reporting, marks, ReportInv, FinishedTurnIsReported,
        Submitted, Superseded
  <1>4. ASSUME NEW g \in Submitted, TurnStep(g)
        PROVE  ReportInv'
    BY <1>4, TurnReport
  <1> QED
    BY <1>1, <1>2, <1>3, <1>4 DEF Next, TurnStep

-----------------------------------------------------------------------------
(* Reports without backpressure.                                            *)

\* Without backpressure a report is delivered and marked in one step, once.
LEMMA DirectMoves ==
    ASSUME TypeInv, ~Backpressure, lock = 0, NEW g \in Submitted, TurnStep(g), NEW h \in AllTurns
    PROVE  /\ lock' = 0
           /\ \/ delivered'[h] = delivered[h] /\ terminal'[h] = terminal[h]
              \/ /\ ~terminal[h] /\ terminal'[h]
                 /\ \E e \in Outcomes : delivered'[h] = Append(delivered[h], e)
PROOF
  <1>a. ASSUME NEW turn, NEW e \in Outcomes, ReportReturns(turn, g, e)
        PROVE  /\ lock' = 0
               /\ \/ delivered'[h] = delivered[h] /\ terminal'[h] = terminal[h]
                  \/ /\ ~terminal[h] /\ terminal'[h]
                     /\ delivered'[h] = Append(delivered[h], e)
    <2>1. g # 0
      BY DEF Submitted
    <2>2. lock' = 0
      BY <1>a, <2>1 DEF ReportReturns, reporting
    <2>3. CASE h # turn
      BY <1>a, <2>1, <2>3 DEF ReportReturns, reporting, TypeInv
    <2>4. CASE h = turn
      BY <1>a, <2>1, <2>4 DEF ReportReturns, reporting, TypeInv
    <2> QED
      BY <2>2, <2>3, <2>4
  <1>b. HandlerOutcome(g) \in Outcomes /\ "MODEL_COMPLETED" \in Outcomes /\ "MODEL_CANCELLED" \in Outcomes
    BY DEF HandlerOutcome, Outcomes
  <1> USE DEF reporting, Raised, ReleaseLock, ReportWaits
  <1>1. CASE Calm(g) /\ BeginTurn(g)
    BY <1>1 DEF BeginTurn
  <1>2. CASE Calm(g) /\ StartGeneration(g)
    BY <1>2 DEF StartGeneration
  <1>3. CASE Calm(g) /\ (StoreFails(g) \/ AdapterFails(g))
    BY <1>3 DEF StoreFails, AdapterFails
  <1>4. CASE Calm(g) /\ (ContextReady(g) \/ StreamAsksForTool(g) \/ StreamAnswers(g))
    BY <1>4 DEF ContextReady, StreamAsksForTool, StreamAnswers
  <1>5. CASE Calm(g) /\ (ToolReturns(g) \/ ModelRemembered(g))
    BY <1>5 DEF ToolReturns, ModelRemembered
  <1>6. CASE Calm(g) /\ (StoreAnswer(g) \/ PlaybackReturns(g))
    BY <1>6 DEF StoreAnswer, PlaybackReturns
  <1>7. CASE Calm(g) /\ (RetirePredecessor(g) \/ ReportCompleted(g) \/ ReportStopped(g))
    BY <1>a, <1>b, <1>7 DEF RetirePredecessor, ReportCompleted, ReportStopped
  <1>8. CASE Raised(g) /\ (InterruptTurn(g) \/ InterruptTool(g) \/ InterruptHandler(g))
    BY <1>8 DEF InterruptTurn, InterruptTool, InterruptHandler
  <1> QED
    BY <1>1, <1>2, <1>3, <1>4, <1>5, <1>6, <1>7, <1>8, TurnCases

\* An answer is stored by the turn that has just been reported completed.
LEMMA AnswersCommitted ==
    ASSUME TypeInv, NEW g \in Submitted, TurnStep(g)
    PROVE  \/ answered' = answered
           \/ answered' = answered \cup {g} /\ pc[g] = "answer" /\ delivered' = delivered
PROOF
  <1> USE DEF marks, reporting, Raised, ReleaseLock
  <1>1. CASE Calm(g) /\ BeginTurn(g)
    BY <1>1 DEF BeginTurn
  <1>2. CASE Calm(g) /\ StartGeneration(g)
    BY <1>2 DEF StartGeneration
  <1>3. CASE Calm(g) /\ (StoreFails(g) \/ AdapterFails(g))
    BY <1>3 DEF StoreFails, AdapterFails
  <1>4. CASE Calm(g) /\ (ContextReady(g) \/ StreamAsksForTool(g) \/ StreamAnswers(g))
    BY <1>4 DEF ContextReady, StreamAsksForTool, StreamAnswers
  <1>5. CASE Calm(g) /\ (ToolReturns(g) \/ ModelRemembered(g))
    BY <1>5 DEF ToolReturns, ModelRemembered
  <1>6. CASE Calm(g) /\ (StoreAnswer(g) \/ PlaybackReturns(g))
    BY <1>6 DEF StoreAnswer, PlaybackReturns
  <1>7. CASE Calm(g) /\ (RetirePredecessor(g) \/ ReportCompleted(g) \/ ReportStopped(g))
    BY <1>7 DEF RetirePredecessor, ReportCompleted, ReportStopped
  <1>8. CASE Raised(g) /\ (InterruptTurn(g) \/ InterruptTool(g) \/ InterruptHandler(g))
    BY <1>8 DEF InterruptTurn, InterruptTool, InterruptHandler
  <1> QED
    BY <1>1, <1>2, <1>3, <1>4, <1>5, <1>6, <1>7, <1>8, TurnCases

\* Without backpressure a turn that was not interrupted reports its completion itself,
\* so the answer it stores is one that was reported.
LEMMA TurnDirect ==
    ASSUME TypeInv, ChainInv, CancellationInv, ReportInv, DirectReports, AnswerWasReported,
           ~Backpressure, NEW g \in Submitted, TurnStep(g)
    PROVE  DirectReports' /\ AnswerWasReported'
PROOF
  <1>1. PICK a \in Awaits \ {"none", "submitted"} : pc' = [pc EXCEPT ![g] = a]
    BY Moves
  <1>2. Submitted' = Submitted
    BY TurnKeeps DEF Submitted
  <1>3. \A h \in AllTurns : h # g => pc'[h] = pc[h]
    BY <1>1 DEF TypeInv
  <1>4. lock' = 0
    BY DirectMoves, TurnExists DEF DirectReports
  <1>5. \A h \in AllTurns : delivered[h] \in Seq(Outcomes)
    BY DEF TypeInv
  <1>6. \A h \in AllTurns : Len(delivered'[h]) = IF terminal'[h] THEN 1 ELSE 0
    <2>1. ASSUME NEW h \in AllTurns
          PROVE  Len(delivered'[h]) = IF terminal'[h] THEN 1 ELSE 0
      <3>1. CASE delivered'[h] = delivered[h] /\ terminal'[h] = terminal[h]
        BY <3>1 DEF DirectReports
      <3>2. ASSUME NEW e \in Outcomes, ~terminal[h], terminal'[h],
                   delivered'[h] = Append(delivered[h], e)
            PROVE  Len(delivered'[h]) = 1
        <4>1. Len(delivered[h]) = 0
          BY <3>2 DEF DirectReports
        <4> QED
          BY <1>5, <3>2, <4>1, AppendProperties
      <3> QED
        BY <3>1, <3>2, DirectMoves DEF DirectReports
    <2> QED
      BY <2>1
  <1>7. \A h \in AllTurns : terminal[h] => delivered'[h] = delivered[h]
    BY DirectMoves DEF DirectReports
  <1>8. \A h \in Submitted :
           pc'[h] \in {"answer", "speak"} => delivered'[h] = <<"MODEL_COMPLETED">>
    <2>1. ASSUME NEW h \in Submitted, pc[h] \in {"answer", "speak"}
          PROVE  delivered'[h] = <<"MODEL_COMPLETED">>
      BY <1>7, <2>1, TurnExists DEF ReportInv, DirectReports
    <2>2. ASSUME Calm(g), pc[g] = "complete", ReportReturns(g, g, "MODEL_COMPLETED")
          PROVE  delivered'[g] = <<"MODEL_COMPLETED">>
      <3>1. pc[g] \in Delivering /\ pc[g] \in Committed /\ pc[g] \in BeforeReport
        BY <2>2 DEF Delivering, Committed, TryAwaits, BeforeReport
      <3>2. ~Superseded(g)
        BY <2>2, <3>1 DEF Calm, CancellationInv
      <3>3. ~terminal[g] /\ lock # g
        BY <3>1, <3>2, TurnExists DEF ReportInv, DirectReports, Submitted
      <3>4. delivered' = [delivered EXCEPT ![g] = Append(@, "MODEL_COMPLETED")]
        BY <2>2, <3>3 DEF ReportReturns
      <3>5. delivered'[g] = Append(delivered[g], "MODEL_COMPLETED")
        BY <3>4, TurnExists DEF TypeInv
      <3>6. delivered[g] = <<>>
        BY <1>5, <3>3, TurnExists, EmptySeq DEF DirectReports
      <3> QED
        BY <3>5, <3>6
    <2> QED
      BY <1>3, <2>1, <2>2, AnswerFollowsReport, TurnExists
  <1>9. AnswerWasReported'
    <2>1. ASSUME NEW h \in answered
          PROVE  \E i \in 1 .. Len(delivered'[h]) : "MODEL_COMPLETED" = delivered'[h][i]
      <3>1. h \in AllTurns
        BY TurnExists DEF TypeInv
      <3>2. PICK i \in 1 .. Len(delivered[h]) : "MODEL_COMPLETED" = delivered[h][i]
        BY DEF AnswerWasReported
      <3>3. terminal[h]
        BY <3>1, <3>2 DEF DirectReports
      <3> QED
        BY <1>7, <3>1, <3>2, <3>3
    <2>2. ASSUME pc[g] = "answer", delivered' = delivered
          PROVE  \E i \in 1 .. Len(delivered'[g]) : "MODEL_COMPLETED" = delivered'[g][i]
      <3>1. delivered'[g] = <<"MODEL_COMPLETED">>
        BY <2>2 DEF DirectReports
      <3> QED
        BY <3>1
    <2>3. \A h \in answered' :
             \E i \in 1 .. Len(delivered'[h]) : "MODEL_COMPLETED" = delivered'[h][i]
      BY <2>1, <2>2, AnswersCommitted
    <2> QED
      BY <2>3 DEF AnswerWasReported
  <1> QED
    BY <1>2, <1>4, <1>6, <1>8, <1>9 DEF DirectReports

\* Accepting a message publishes no outcome.
LEMMA SubmitDirect ==
    ASSUME TypeInv, DirectReports, AnswerWasReported, SubmitUserMessage
    PROVE  DirectReports' /\ AnswerWasReported'
PROOF
  <1>1. UNCHANGED <<terminal, lock, delivered, answered>>
    BY DEF SubmitUserMessage, reporting, marks
  <1>2. \A g \in Submitted' : pc'[g] \in {"answer", "speak"} => g \in Submitted /\ pc'[g] = pc[g]
    BY HandoffAssumption DEF SubmitUserMessage, Goto, TypeInv, Submitted, AllTurns
  <1> QED
    BY <1>1, <1>2 DEF DirectReports, AnswerWasReported

\* Every step keeps outcomes single and answers reported, without backpressure.
LEMMA DirectStep ==
    ASSUME IInv, DirectReports, AnswerWasReported, ~Backpressure, [Next]_vars
    PROVE  DirectReports' /\ AnswerWasReported'
PROOF
  <1>1. CASE UNCHANGED vars
    BY <1>1 DEF vars, reporting, marks, DirectReports, AnswerWasReported, Submitted
  <1>2. CASE SubmitUserMessage
    BY <1>2, SubmitDirect DEF IInv
  <1>3. CASE CancelActive
    BY <1>3 DEF CancelActive, reporting, marks, DirectReports, AnswerWasReported, Submitted
  <1>4. ASSUME NEW g \in Submitted, TurnStep(g)
        PROVE  DirectReports' /\ AnswerWasReported'
    BY <1>4, TurnDirect DEF IInv
  <1> QED
    BY <1>1, <1>2, <1>3, <1>4 DEF Next, TurnStep

-----------------------------------------------------------------------------
(* Theorems.                                                                *)

\* The invariant holds before the first message.
LEMMA InitHolds == Init => IInv
PROOF
  <1> SUFFICES ASSUME Init PROVE IInv
    OBVIOUS
  <1> USE HandoffAssumption DEF Init, Submitted
  <1>1. TypeInv
    <2>1. <<>> \in Seq(Outcomes)
      OBVIOUS
    <2> QED
      BY <2>1, Places DEF TypeInv
  <1>2. ChainInv /\ OwnershipInv
    BY DEF ChainInv, OwnershipInv
  <1>3. DeliveryInv
    BY DEF DeliveryInv, LedgerBelongsToRunningTurn
  <1>4. CancellationInv /\ ReportInv
    BY DEF CancellationInv, ReportInv, FinishedTurnIsReported
  <1> QED
    BY <1>1, <1>2, <1>3, <1>4 DEF IInv

\* The inductive invariant holds for every number of turns and tool rounds, with and
\* without backpressure.
THEOREM HandoffInvariant == Spec => []IInv
PROOF
  <1>1. IInv /\ [Next]_vars => IInv'
    BY TypeStep, ChainStep, OwnershipStep, DeliveryStep, CancellationStep, ReportStep DEF
        IInv
  <1> QED
    BY <1>1, InitHolds, PTL DEF Spec

\* The handoff stays well typed; in particular no turn takes more tool rounds than
\* config.max_tool_rounds.
THEOREM HandoffTypes == Spec => []TypeInv
PROOF
  <1>1. IInv => TypeInv
    BY DEF IInv
  <1> QED
    BY <1>1, HandoffInvariant, PTL

\* Late work of stopped turns never takes the conversation from the newest turn: the
\* finally blocks of _run_turn clear the ownership only of their own generation.
THEOREM NewestTurnOwns == Spec => []NewestTurnKeepsOwnership
PROOF
  <1>1. IInv => NewestTurnKeepsOwnership
    <2> SUFFICES ASSUME IInv, submitted # 0, Running(submitted)
                 PROVE  active = submitted
      BY DEF NewestTurnKeepsOwnership
    <2>1. submitted \in Submitted
      BY HandoffAssumption DEF IInv, TypeInv, Submitted
    <2>2. ~Superseded(submitted)
      <3>1. \A h \in Submitted : predecessor[h] < h /\ h \leq submitted
        BY DEF IInv, ChainInv, Submitted
      <3> QED
        BY <3>1, HandoffAssumption, TurnExists DEF Superseded, IInv, TypeInv, Submitted
    <2> QED
      BY <2>1, <2>2 DEF IInv, OwnershipInv
  <1> QED
    BY <1>1, HandoffInvariant, PTL

\* The delivery ledger's active generation always belongs to a running turn with an open
\* record, so no finished turn blocks delivery.start_generation for ever.
THEOREM LedgerIsNotStuck == Spec => []LedgerBelongsToRunningTurn
PROOF
  <1>1. IInv => LedgerBelongsToRunningTurn
    BY DEF IInv, DeliveryInv
  <1> QED
    BY <1>1, HandoffInvariant, PTL

\* A turn that is over was reported, or its successor in _retire_predecessor is about to
\* report it, or it was stopped in a tool.
THEOREM EveryEndIsReported == Spec => []FinishedTurnIsReported
PROOF
  <1>1. IInv => FinishedTurnIsReported
    BY DEF IInv, ReportInv
  <1> QED
    BY <1>1, HandoffInvariant, PTL

\* Without backpressure the invariant extends to what subscribers got.
LEMMA DirectInvariant ==
    ASSUME ~Backpressure
    PROVE  Spec => []DirectInv
PROOF
  <1>1. Init => DirectReports /\ AnswerWasReported
    BY DEF Init, DirectReports, AnswerWasReported, Submitted
  <1>2. /\ IInv /\ DirectReports /\ AnswerWasReported
        /\ [Next]_vars
        => (DirectReports /\ AnswerWasReported)'
    BY DirectStep
  <1> QED
    BY <1>1, <1>2, HandoffInvariant, PTL DEF Spec, DirectInv

\* While no subscriber makes a publication wait, subscribers get at most one outcome of
\* a turn, whoever reports it.
THEOREM OneOutcomePerTurn ==
    ASSUME ~Backpressure
    PROVE  Spec => []AtMostOneOutcome
PROOF
  <1>1. DirectInv => AtMostOneOutcome
    BY DEF DirectInv, DirectReports, AtMostOneOutcome
  <1> QED
    BY <1>1, DirectInvariant, PTL

\* While no subscriber makes a publication wait, every stored answer is one whose
\* completion was reported.
THEOREM AnswersAreReported ==
    ASSUME ~Backpressure
    PROVE  Spec => []AnswerWasReported
PROOF
  <1>1. DirectInv => AnswerWasReported
    BY DEF DirectInv
  <1> QED
    BY <1>1, DirectInvariant, PTL

=============================================================================
