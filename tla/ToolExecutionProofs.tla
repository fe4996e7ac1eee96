------------------------- MODULE ToolExecutionProofs -------------------------
(***************************************************************************)
(* That tools run once, approved, with authority that is still in force,   *)
(* and can be reached by revocation, for any callers, invocations,         *)
(* policies, lengths of the history and number of revocations.             *)
(***************************************************************************)
EXTENDS ToolExecution, SequenceTheorems, TLAPS

\* No caller enters a tool at this step, or has its result accepted.
Quiet == \A c \in Callers : ~Enters(c) /\ ~Completes(c)

\* What is said of the steps of one caller: they leave these alone.
CallFrame == UNCHANGED <<turns, capability, granted>>

\* A token that is cancelled stays so.
TokensKeep ==
    /\ token' \in [Generations -> BOOLEAN]
    /\ \A g \in Generations : token[g] => token'[g]

-----------------------------------------------------------------------------
\* Remembering a result forgets the oldest one at most.
LEMMA RememberFacts ==
    ASSUME TypeInv, NEW c \in Callers, NEW how, Remember(c, how)
    PROVE  /\ history' \in Seq(Invocations) /\ Len(history') <= MaxHistory
           /\ forgotten' \subseteq Invocations /\ forgotten \subseteq forgotten'
           /\ \A i \in Invocations : Remembered(i) => Remembered(i)' \/ i \in forgotten'
           /\ how # "raised" => Remembered(InvocationOf[c])'
           /\ \A i \in Invocations :
                 Remembered(i)' => Remembered(i) \/ i = InvocationOf[c]
PROOF
  <1> DEFINE j == InvocationOf[c]
  <1>1. j \in Invocations /\ history \in Seq(Invocations) /\ Len(history) <= MaxHistory
        /\ MaxHistory \in Nat \ {0} /\ forgotten \subseteq Invocations
    BY ToolAssumption DEF TypeInv
  <1>2. Len(history) \in Nat /\ DOMAIN history = 1 .. Len(history)
    BY <1>1, LenProperties
  <1>3. CASE how = "raised"
    BY <1>1, <1>3 DEF Remember, memory, Remembered
  <1>4. CASE how # "raised" /\ Len(history) < MaxHistory
    <2>1. history' = Append(history, j) /\ forgotten' = forgotten
      BY <1>4 DEF Remember
    <2>2. /\ history' \in Seq(Invocations) /\ Len(history') = Len(history) + 1
          /\ history'[Len(history) + 1] = j
          /\ \A n \in 1 .. Len(history) : history'[n] = history[n]
      BY <1>1, <2>1, AppendProperties
    <2>3. DOMAIN history' = 1 .. Len(history) + 1
      BY <2>2, LenProperties
    <2> QED
      BY <1>1, <1>2, <1>4, <2>1, <2>2, <2>3 DEF Remembered
  <1>5. CASE how # "raised" /\ ~(Len(history) < MaxHistory)
    <2>1. history' = Append(Tail(history), j) /\ forgotten' = forgotten \cup {Head(history)}
      BY <1>5 DEF Remember
    <2>2. history # << >> /\ Len(history) >= 1
      BY <1>1, <1>2, <1>5, EmptySeq
    <2>3. /\ Tail(history) \in Seq(Invocations) /\ Len(Tail(history)) = Len(history) - 1
          /\ \A n \in 1 .. Len(history) - 1 : Tail(history)[n] = history[n + 1]
          /\ Head(history) = history[1] /\ Head(history) \in Invocations
      BY <1>1, <2>2, HeadTailProperties, ElementOfSeq
    <2>4. /\ history' \in Seq(Invocations) /\ Len(history') = Len(history)
          /\ history'[Len(history)] = j
          /\ \A n \in 1 .. Len(history) - 1 : history'[n] = history[n + 1]
      BY <1>1, <1>2, <2>1, <2>3, AppendProperties
    <2>5. DOMAIN history' = 1 .. Len(history)
      BY <2>4, LenProperties
    <2>6. ASSUME NEW i \in Invocations, Remembered(i)
          PROVE  Remembered(i)' \/ i \in forgotten'
      <3> PICK n \in 1 .. Len(history) : history[n] = i
        BY <1>2, <2>6 DEF Remembered
      <3>1. CASE n = 1
        BY <2>1, <2>3, <3>1
      <3>2. CASE n # 1
        <4>1. n - 1 \in 1 .. Len(history) - 1 /\ (n - 1) + 1 = n /\ n - 1 \in 1 .. Len(history)
          BY <1>2, <3>2
        <4>2. history'[n - 1] = i
          BY <2>4, <4>1
        <4> QED
          BY <2>5, <4>1, <4>2 DEF Remembered
      <3> QED
        BY <3>1, <3>2
    <2>7. ASSUME NEW i \in Invocations, Remembered(i)'
          PROVE  Remembered(i) \/ i = j
      <3> PICK n \in 1 .. Len(history) : history'[n] = i
        BY <2>5, <2>7 DEF Remembered
      <3>1. CASE n = Len(history)
        BY <2>4, <3>1
      <3>2. CASE n # Len(history)
        BY <1>2, <2>4, <3>2 DEF Remembered
      <3> QED
        BY <3>1, <3>2
    <2>8. Remembered(j)'
      BY <1>2, <2>2, <2>4, <2>5 DEF Remembered
    <2> QED
      BY <1>1, <2>1, <2>3, <2>4, <2>6, <2>7, <2>8
  <1> QED
    BY <1>3, <1>4, <1>5

-----------------------------------------------------------------------------
\* A caller leaves, with its followers.
LEMMA LeaveKeeps ==
    ASSUME IInv, NEW c \in Callers, pc[c] \in Inside, NEW how, NEW arriving,
           arriving \subseteq Callers, \A d \in arriving : token'[Gen(d)],
           how = "raised" => token'[Gen(c)],
           TokensKeep, CallFrame, UNCHANGED <<lease, runs>>,
           Leave(c, how, arriving)
    PROVE  IInv' /\ Quiet
PROOF
  <1> DEFINE i == InvocationOf[c]
  <1> USE DEF CallFrame, turns, capability
  <1>1. /\ i \in Invocations /\ c # None
        /\ InvocationOf \in [Callers -> Invocations]
        /\ GenerationOf \in [Invocations -> Generations]
        /\ CallIdOf \in [Invocations -> CallIds]
    BY ToolAssumption
  <1>2. TypeInv /\ LeaderInv /\ NothingLeftBehind /\ ReportInv /\ ApprovalInv
        /\ RunsAreApproved /\ CancellableInv /\ RevocationReachesTools /\ RunInv
        /\ RunsAtMostOnce
    BY DEF IInv
  <1>3. /\ history' \in Seq(Invocations) /\ Len(history') <= MaxHistory
        /\ forgotten' \subseteq Invocations /\ forgotten \subseteq forgotten'
        /\ \A j \in Invocations : Remembered(j) => Remembered(j)' \/ j \in forgotten'
        /\ how # "raised" => Remembered(i)'
        /\ \A j \in Invocations : Remembered(j)' => Remembered(j) \/ j = i
    BY <1>2, RememberFacts DEF Leave
  <1>4. /\ pc' \in [Callers -> Pcs] /\ pc'[c] = "done"
        /\ \A d \in Callers \ {c} : pc'[d] # pc[d] =>
              pc[d] = "following" /\ pc'[d] = "done" /\ InvocationOf[d] = i
        /\ \A d \in Callers : pc[d] = "following" /\ InvocationOf[d] = i => pc'[d] = "done"
    BY <1>2 DEF TypeInv, Leave, Pcs
  <1>5. /\ reported' \in [Callers -> Statuses \cup {"none"}] /\ reported'[c] = "none"
        /\ \A d \in Callers \ {c} : reported'[d] = reported[d]
        /\ inflight' \in [Invocations -> Callers \cup {None}] /\ inflight'[i] = None
        /\ \A j \in Invocations \ {i} : inflight'[j] = inflight[j]
        /\ cancellables' = cancellables \ {c} /\ published' = published
        /\ scheduled' \subseteq arriving
    BY <1>1, <1>2 DEF TypeInv, Leave
  <1>6. IdOf(c) \in CallIds
    BY <1>1 DEF IdOf
  <1>7. /\ pending' \in [CallIds -> Callers \cup {None}] /\ pending'[IdOf(c)] = None
        /\ \A id \in CallIds \ {IdOf(c)} : pending'[id] = pending[id]
        /\ decision' \in [Callers -> {"none", "open", "yes", "no", "abandoned"}]
        /\ \A d \in Callers : decision'[d] # decision[d] => decision'[d] = "abandoned"
    BY <1>2, <1>6 DEF TypeInv, Leave, Abandon
  <1>8. Inside \cap {"following", "done"} = {}
    BY DEF Inside
  <1>9. \A d \in Callers : pc'[d] \in Inside => d # c /\ pc[d] = pc'[d] /\ InvocationOf[d] # i
    BY <1>1, <1>2, <1>4, <1>8 DEF LeaderInv
  <1>10. TypeInv'
    BY <1>2, <1>3, <1>4, <1>5, <1>7 DEF TypeInv, TokensKeep
  <1>11. LeaderInv'
    <2> SUFFICES ASSUME NEW d \in Callers, pc'[d] \in Inside
                 PROVE  inflight'[InvocationOf[d]] = d /\ ~Remembered(InvocationOf[d])'
      BY DEF LeaderInv
    <2> QED
      BY <1>1, <1>2, <1>3, <1>5, <1>9 DEF LeaderInv
  <1>12. NothingLeftBehind'
    <2>1. ASSUME NEW id \in CallIds, pending'[id] # None
          PROVE  pc'[pending'[id]] \in Inside /\ IdOf(pending'[id]) = id
      <3>1. id # IdOf(c) /\ pending'[id] = pending[id]
        BY <1>7, <2>1
      <3>2. pending[id] \in Callers /\ pc[pending[id]] \in Inside /\ IdOf(pending[id]) = id
        BY <1>2, <2>1, <3>1 DEF NothingLeftBehind, TypeInv
      <3> QED
        BY <1>4, <1>8, <3>1, <3>2
    <2>2. ASSUME NEW j \in Invocations, inflight'[j] # None
          PROVE  pc'[inflight'[j]] \in Inside /\ InvocationOf[inflight'[j]] = j
      <3>1. j # i /\ inflight'[j] = inflight[j]
        BY <1>5, <2>2
      <3>2. inflight[j] \in Callers /\ pc[inflight[j]] \in Inside /\ InvocationOf[inflight[j]] = j
        BY <1>2, <2>2, <3>1 DEF NothingLeftBehind, TypeInv
      <3> QED
        BY <1>4, <1>8, <3>1, <3>2
    <2>3. ASSUME NEW d \in Callers, d \in cancellables'
          PROVE  pc'[d] \in Inside
      BY <1>2, <1>4, <1>5, <1>8, <2>3 DEF NothingLeftBehind
    <2>4. ASSUME NEW d \in Callers, pc'[d] = "following"
          PROVE  inflight'[InvocationOf[d]] # None
      <3>1. d # c /\ pc[d] = "following" /\ InvocationOf[d] # i
        BY <1>4, <2>4
      <3> QED
        BY <1>1, <1>2, <1>5, <3>1 DEF NothingLeftBehind
    <2> QED
      BY <2>1, <2>2, <2>3, <2>4 DEF NothingLeftBehind, IdOf
  <1>13. ReportInv'
    BY <1>2, <1>4, <1>5, <1>8 DEF ReportInv, Gen
  <1>14. ApprovalInv'
    <2> SUFFICES ASSUME NEW d \in Callers, InvocationOf[d] \in sensitive,
                        decision'[d] = "yes" \/ pc'[d] = "starting"
                 PROVE  decision[d] = "yes" \/ pc[d] = "starting"
      BY <1>2 DEF ApprovalInv, Correlation
    <2> QED
      BY <1>4, <1>7
  <1>15. RunsAreApproved'
    BY <1>2 DEF RunsAreApproved, Correlation
  <1>16. CancellableInv'
    BY <1>2, <1>4, <1>5 DEF CancellableInv
  <1>17. RevocationReachesTools'
    <2> SUFFICES ASSUME NEW d \in Callers, pc'[d] = "executing", InvocationOf[d] \in Cancellable,
                        ~(authority /\ lease[d] = epoch)
                 PROVE  token'[Gen(d)]
      BY DEF RevocationReachesTools, Gen
    <2>1. pc[d] = "executing" /\ Gen(d) \in Generations
      BY <1>1, <1>4 DEF Gen
    <2> QED
      BY <1>2, <2>1 DEF RevocationReachesTools, TokensKeep
  <1>18. RunInv'
    <2> SUFFICES ASSUME NEW j \in Invocations, RanOnce(j)
                 PROVE  RanOnce(j)'
      BY <1>2 DEF RunInv
    <2>1. CASE j \in forgotten \/ Remembered(j)
      BY <1>3, <2>1 DEF RanOnce
    <2>2. CASE token[GenerationOf[j]]
      BY <1>1, <2>2 DEF RanOnce, TokensKeep
    <2>3. ASSUME NEW d \in Callers, InvocationOf[d] = j,
                 pc[d] \in {"executing", "unwinding", "finishing", "reporting"}
          PROVE  RanOnce(j)'
      <3>1. CASE d = c
        BY <1>3, <2>3, <3>1 DEF RanOnce, Gen
      <3>2. CASE d # c
        BY <1>4, <2>3, <3>2 DEF RanOnce
      <3> QED
        BY <3>1, <3>2
    <2> QED
      BY <2>1, <2>2, <2>3 DEF RanOnce
  <1>19. RunsAtMostOnce'
    BY <1>2, <1>3 DEF RunsAtMostOnce
  <1>20. Quiet
    BY <1>2, <1>4, <1>5 DEF Quiet, Enters, Completes, ReportInv
  <1> QED
    BY <1>10, <1>11, <1>12, <1>13, <1>14, <1>15, <1>16, <1>17, <1>18, <1>19, <1>20 DEF IInv

-----------------------------------------------------------------------------
Ran == {"executing", "unwinding", "finishing", "reporting"}

\* A caller goes from one await of _execute_once to another one.
LEMMA MoveKeeps ==
    ASSUME IInv, NEW c \in Callers, pc[c] \in Inside, NEW place \in Inside,
           TypeInv', TokensKeep, CallFrame,
           pc' = [pc EXCEPT ![c] = place],
           UNCHANGED <<inflight, memory>>,
           \A d \in scheduled' : token'[Gen(d)],
           \A d \in Callers \ {c} : reported'[d] = reported[d] /\ lease'[d] = lease[d],
           reported'[c] # "none" => place \in {"finishing", "reporting"},
           cancellables \subseteq cancellables', cancellables' \subseteq cancellables \cup {c},
           place \in {"starting", "executing"} /\ InvocationOf[c] \in Cancellable
               => c \in cancellables',
           place = "executing" => authority /\ lease'[c] = epoch,
           place = "starting" /\ InvocationOf[c] \in sensitive
               => Correlation(InvocationOf[c]) \in granted,
           \A d \in Callers : decision'[d] = "yes" => decision[d] = "yes",
           \A id \in CallIds : pending'[id] # pending[id] => pending'[id] = c /\ id = IdOf(c),
           pc[c] \in Ran => place \in Ran,
           \/ UNCHANGED runs
           \/ /\ runs' = [runs EXCEPT ![InvocationOf[c]] = @ + 1]
              /\ pc[c] = "starting" /\ place = "executing" /\ ~token[Gen(c)]
    PROVE  IInv'
PROOF
  <1> DEFINE i == InvocationOf[c]
  <1> USE DEF CallFrame, turns, capability, memory
  <1>1. /\ i \in Invocations /\ c # None
        /\ InvocationOf \in [Callers -> Invocations]
        /\ GenerationOf \in [Invocations -> Generations]
        /\ CallIdOf \in [Invocations -> CallIds]
    BY ToolAssumption
  <1>2. TypeInv /\ LeaderInv /\ NothingLeftBehind /\ ReportInv /\ ApprovalInv
        /\ RunsAreApproved /\ CancellableInv /\ RevocationReachesTools /\ RunInv
        /\ RunsAtMostOnce
    BY DEF IInv
  <1>3. /\ pc'[c] = place /\ \A d \in Callers \ {c} : pc'[d] = pc[d]
        /\ pc \in [Callers -> Pcs]
    BY <1>2 DEF TypeInv
  <1>4. \A d \in Callers : pc'[d] \in Inside <=> pc[d] \in Inside
    BY <1>3
  <1>5. "following" \notin Inside
    BY DEF Inside
  <1>6. \A j \in Invocations : Remembered(j)' <=> Remembered(j)
    BY DEF Remembered
  <1>7. LeaderInv'
    BY <1>1, <1>2, <1>4, <1>6 DEF LeaderInv
  <1>8. NothingLeftBehind'
    <2>1. ASSUME NEW id \in CallIds, pending'[id] # None
          PROVE  pc'[pending'[id]] \in Inside /\ IdOf(pending'[id]) = id
      <3>1. CASE pending'[id] = pending[id]
        BY <1>2, <1>4, <2>1, <3>1 DEF NothingLeftBehind, TypeInv
      <3>2. CASE pending'[id] # pending[id]
        BY <1>4, <3>2
      <3> QED
        BY <3>1, <3>2
    <2>2. \A j \in Invocations : inflight'[j] # None =>
              pc'[inflight'[j]] \in Inside /\ InvocationOf[inflight'[j]] = j
      BY <1>2, <1>4 DEF NothingLeftBehind, TypeInv
    <2>3. \A d \in Callers : d \in cancellables' => pc'[d] \in Inside
      BY <1>2, <1>4 DEF NothingLeftBehind
    <2>4. \A d \in Callers : pc'[d] = "following" => inflight'[InvocationOf[d]] # None
      BY <1>2, <1>3, <1>5 DEF NothingLeftBehind
    <2> QED
      BY <2>1, <2>2, <2>3, <2>4 DEF NothingLeftBehind, IdOf
  <1>9. ReportInv'
    BY <1>2, <1>3 DEF ReportInv, Gen
  <1>10. ApprovalInv'
    <2> SUFFICES ASSUME NEW d \in Callers, InvocationOf[d] \in sensitive,
                        decision'[d] = "yes" \/ pc'[d] = "starting"
                 PROVE  Correlation(InvocationOf[d]) \in granted
      BY DEF ApprovalInv, Correlation
    <2> QED
      BY <1>2, <1>3 DEF ApprovalInv
  <1>11. RunsAreApproved'
    <2> SUFFICES ASSUME NEW j \in sensitive, runs'[j] > 0
                 PROVE  Correlation(j) \in granted
      BY DEF RunsAreApproved, Correlation
    <2>1. j \in Invocations
      BY <1>2, ToolAssumption DEF TypeInv
    <2>2. CASE runs'[j] = runs[j]
      BY <1>2, <2>2 DEF RunsAreApproved
    <2>3. CASE runs'[j] # runs[j]
      <3>1. j = i /\ pc[c] = "starting"
        BY <1>2, <2>1, <2>3 DEF TypeInv
      <3> QED
        BY <1>2, <3>1 DEF ApprovalInv
    <2> QED
      BY <2>2, <2>3
  <1>12. CancellableInv'
    BY <1>2, <1>3 DEF CancellableInv
  <1>13. RevocationReachesTools'
    <2> SUFFICES ASSUME NEW d \in Callers, pc'[d] = "executing", InvocationOf[d] \in Cancellable,
                        ~(authority /\ lease'[d] = epoch)
                 PROVE  token'[Gen(d)]
      BY DEF RevocationReachesTools, Gen
    <2>1. d # c /\ Gen(d) \in Generations
      BY <1>1, <1>3 DEF Gen
    <2> QED
      BY <1>2, <1>3, <2>1 DEF RevocationReachesTools, TokensKeep
  <1>14. RunInv'
    <2>1. ASSUME NEW j \in Invocations, RanOnce(j)
          PROVE  RanOnce(j)'
      <3>1. CASE j \in forgotten \/ Remembered(j)
        BY <1>6, <3>1 DEF RanOnce
      <3>2. CASE token[GenerationOf[j]]
        BY <1>1, <3>2 DEF RanOnce, TokensKeep
      <3>3. ASSUME NEW d \in Callers, InvocationOf[d] = j, pc[d] \in Ran
            PROVE  RanOnce(j)'
        <4>1. pc'[d] \in Ran
          BY <1>3, <3>3
        <4> QED
          BY <3>3, <4>1 DEF RanOnce, Ran
      <3> QED
        BY <2>1, <3>1, <3>2, <3>3 DEF RanOnce, Ran
    <2>2. ASSUME NEW j \in Invocations, runs'[j] > 0
          PROVE  RanOnce(j)'
      <3>1. CASE runs'[j] = runs[j]
        BY <1>2, <2>1, <2>2, <3>1 DEF RunInv
      <3>2. CASE runs'[j] # runs[j]
        <4>1. j = i /\ pc'[c] = "executing"
          BY <1>2, <1>3, <2>2, <3>2 DEF TypeInv
        <4> QED
          BY <4>1 DEF RanOnce
      <3> QED
        BY <3>1, <3>2
    <2> QED
      BY <2>2 DEF RunInv
  <1>15. RunsAtMostOnce'
    <2> SUFFICES ASSUME NEW j \in Invocations, j \notin forgotten
                 PROVE  runs'[j] <= 1
      BY DEF RunsAtMostOnce
    <2>1. CASE runs'[j] = runs[j]
      BY <1>2, <2>1 DEF RunsAtMostOnce
    <2>2. CASE runs'[j] # runs[j]
      <3>1. /\ j = i /\ pc[c] = "starting" /\ ~token[Gen(c)] /\ runs[j] \in Nat
            /\ runs'[j] = runs[j] + 1
        BY <1>2, <2>2 DEF TypeInv
      <3>2. ~RanOnce(j)
        <4>1. ~Remembered(j) /\ inflight[j] = c
          BY <1>2, <3>1 DEF LeaderInv
        <4>2. ASSUME NEW d \in Callers, InvocationOf[d] = j, pc[d] \in Ran
              PROVE  FALSE
          <5>1. inflight[j] = d
            BY <1>2, <4>2 DEF LeaderInv, Inside, Ran
          <5> QED
            BY <3>1, <4>1, <4>2, <5>1 DEF Ran
        <4> QED
          BY <3>1, <4>1, <4>2 DEF RanOnce, Gen, Ran
      <3> QED
        BY <1>2, <3>1, <3>2 DEF RunInv
    <2> QED
      BY <2>1, <2>2
  <1> QED
    BY <1>7, <1>8, <1>9, <1>10, <1>11, <1>12, <1>13, <1>14, <1>15 DEF IInv

-----------------------------------------------------------------------------
\* The end of a call is reported, or the call is stale and leaves.
LEMMA ReportKeeps ==
    ASSUME IInv, NEW c \in Callers, pc[c] \in Inside,
           NEW s \in Statuses, NEW place \in {"finishing", "reporting"}, NEW arriving,
           arriving \subseteq Callers, \A d \in arriving : token'[Gen(d)],
           TokensKeep, CallFrame, UNCHANGED <<lease, runs>>,
           Report(c, s, place, arriving)
    PROVE  IInv' /\ \A d \in Callers : ~Enters(d) /\ (Completes(d) => d = c /\ s = "COMPLETED")
PROOF
  <1>1. TypeInv /\ ReportInv /\ InvocationOf[c] \in Invocations
    BY ToolAssumption DEF IInv
  <1>2. CASE ~IsCurrent(c)
    <2>1. Leave(c, "stale", arriving)
      BY <1>2 DEF Report
    <2> QED
      BY <2>1, LeaveKeeps DEF Quiet
  <1>3. CASE IsCurrent(c)
    <2>1. /\ published' = [published EXCEPT ![InvocationOf[c]] = @ + 1]
          /\ reported' = [reported EXCEPT ![c] = s]
          /\ pc' = [pc EXCEPT ![c] = place]
          /\ scheduled' = arriving
          /\ UNCHANGED books
      BY <1>3 DEF Report
    <2>2. place \in Inside /\ place \in Pcs
      BY DEF Inside, Pcs
    <2>3. TypeInv'
      BY <1>1, <2>1, <2>2 DEF TypeInv, CallFrame, turns, capability, books, memory, TokensKeep
    <2>4. IInv'
      BY <1>1, <2>1, <2>2, <2>3, MoveKeeps DEF books, Ran, TypeInv
    <2>5. ASSUME NEW d \in Callers
          PROVE  ~Enters(d) /\ (Completes(d) => d = c /\ s = "COMPLETED")
      BY <1>1, <2>1 DEF Enters, Completes, TypeInv, ReportInv
    <2> QED
      BY <2>4, <2>5
  <1> QED
    BY <1>2, <1>3

\* What _finish from the try block or a handler does, without cancelling.
LEMMA FinishKeeps ==
    ASSUME IInv, NEW c \in Callers, pc[c] \in Inside, NEW s \in Statuses,
           CallFrame, UNCHANGED <<lease, runs>>,
           Finish(c, s) \/ FinishInHandler(c, s)
    PROVE  IInv' /\ \A d \in Callers : ~Enters(d) /\ (Completes(d) => d = c /\ s = "COMPLETED")
PROOF
  <1>1. TokensKeep /\ scheduled \subseteq Callers /\ \A d \in scheduled : token'[Gen(d)]
    BY DEF IInv, TypeInv, ReportInv, TokensKeep, Finish, FinishInHandler
  <1>2. PICK place \in {"finishing", "reporting"} : Report(c, s, place, scheduled)
    BY DEF Finish, FinishInHandler
  <1> QED
    BY <1>1, <1>2, ReportKeeps

\* A call that is stale leaves.
LEMMA StaleKeeps ==
    ASSUME IInv, NEW c \in Callers, pc[c] \in Inside, CallFrame, UNCHANGED <<lease, runs, token>>,
           NEW how, how # "raised", Leave(c, how, scheduled)
    PROVE  IInv' /\ Quiet
PROOF
  <1>1. TokensKeep /\ scheduled \subseteq Callers /\ \A d \in scheduled : token'[Gen(d)]
    BY DEF IInv, TypeInv, ReportInv, TokensKeep
  <1> QED
    BY <1>1, LeaveKeeps

\* A cancellation is swallowed: the token is cancelled and CANCELLED reported.
LEMMA CancelledKeeps ==
    ASSUME IInv, NEW c \in Callers, pc[c] \in Inside, NEW arriving \in SUBSET scheduled,
           CallFrame, UNCHANGED <<lease, runs>>,
           HandleCancelled(c, arriving)
    PROVE  IInv' /\ Quiet
PROOF
  <1> DEFINE told == arriving \cup (IF token[Gen(c)] THEN {} ELSE CallbacksOf(Gen(c)) \ {c})
  <1>1. TypeInv /\ ReportInv /\ Gen(c) \in Generations
    BY ToolAssumption DEF IInv, Gen
  <1>2. token' = [token EXCEPT ![Gen(c)] = TRUE] /\ Report(c, "CANCELLED", "reporting", told)
    BY DEF HandleCancelled
  <1>3. TokensKeep
    BY <1>1, <1>2 DEF TypeInv, TokensKeep
  <1>4. told \subseteq Callers
    BY <1>1 DEF TypeInv, CallbacksOf
  <1>5. \A d \in told : token'[Gen(d)]
    <2> SUFFICES ASSUME NEW d \in told
                 PROVE  token'[Gen(d)]
      OBVIOUS
    <2>1. CASE d \in arriving
      <3>1. Gen(d) \in Generations /\ token[Gen(d)]
        BY <1>1, <2>1, ToolAssumption DEF ReportInv, TypeInv, Gen
      <3> QED
        BY <1>3, <3>1 DEF TokensKeep
    <2>2. CASE d \in CallbacksOf(Gen(c))
      BY <1>1, <1>2, <2>2 DEF CallbacksOf, TypeInv
    <2> QED
      BY <2>1, <2>2
  <1>6. "CANCELLED" \in Statuses /\ "CANCELLED" # "COMPLETED"
    BY DEF Statuses
  <1> HIDE DEF told
  <1> QED
    BY <1>2, <1>3, <1>4, <1>5, <1>6, ReportKeeps DEF Quiet

\* From the decision to TOOL_STARTED.
LEMMA AdmitKeeps ==
    ASSUME IInv, NEW c \in Callers, pc[c] \in {"authorizing", "asking"},
           InvocationOf[c] \in sensitive => Correlation(InvocationOf[c]) \in granted,
           CallFrame, UNCHANGED <<lease, runs>>,
           Admit(c)
    PROVE  IInv' /\ Quiet
PROOF
  <1>1. TypeInv /\ ReportInv /\ pc[c] \in Inside /\ InvocationOf[c] \in Invocations
    BY ToolAssumption DEF IInv, Inside
  <1>2. CASE FinishInHandler(c, "DENIED")
    BY <1>1, <1>2, FinishKeeps DEF Quiet, Statuses
  <1>3. CASE HandleCancelled(c, scheduled)
    BY <1>1, <1>3, CancelledKeeps
  <1>4. CASE Leave(c, "stale", scheduled) /\ UNCHANGED token
    BY <1>1, <1>4, StaleKeeps
  <1>5. CASE /\ Proceed(c, "starting")
             /\ cancellables' = cancellables
                    \cup ({c} \cap {d \in Callers : InvocationOf[d] \in Cancellable})
             /\ UNCHANGED <<pending, decision, inflight, memory>>
    <2>1. pc' = [pc EXCEPT ![c] = "starting"] /\ UNCHANGED <<reported, published, scheduled, token>>
      BY <1>5 DEF Proceed
    <2>2. TypeInv'
      BY <1>1, <1>5, <2>1 DEF TypeInv, CallFrame, turns, capability, memory, Pcs, Inside
    <2>3. TokensKeep /\ \A d \in scheduled' : token'[Gen(d)]
      BY <1>1, <2>1 DEF TypeInv, ReportInv, TokensKeep
    <2>4. reported'[c] = "none"
      BY <1>1, <2>1 DEF ReportInv
    <2>5. "starting" \in Inside /\ pc[c] \notin Ran
      BY DEF Inside, Ran
    <2>6. IInv'
      BY <1>1, <1>5, <2>1, <2>2, <2>3, <2>4, <2>5, MoveKeeps
    <2>7. Quiet
      BY <1>1, <2>1 DEF TypeInv, ReportInv, Quiet, Enters, Completes
    <2> QED
      BY <2>6, <2>7
  <1> QED
    BY <1>2, <1>3, <1>4, <1>5 DEF Admit

-----------------------------------------------------------------------------
\* What ActsWithAuthority says of one step.
Authorizes ==
    \A c \in Callers : Enters(c) \/ Completes(c) =>
        authority /\ lease[c] = epoch /\ Gen(c) \in current /\ ~token[Gen(c)]

\* The callers outside of a tool's call: answered at once, following or leading.
LEMMA ExecuteKeeps ==
    ASSUME IInv, NEW c \in Callers, CallFrame,
           ExecuteAnswers(c) \/ ExecuteFollows(c) \/ ExecuteLeads(c)
    PROVE  IInv' /\ Quiet
PROOF
  <1> USE DEF CallFrame, turns, capability, books, memory
  <1> DEFINE i == InvocationOf[c]
  <1>1. /\ TypeInv /\ LeaderInv /\ NothingLeftBehind /\ ReportInv /\ ApprovalInv
        /\ RunsAreApproved /\ CancellableInv /\ RevocationReachesTools /\ RunInv
        /\ RunsAtMostOnce
    BY DEF IInv
  <1>2. /\ i \in Invocations /\ Gen(c) \in Generations /\ c # None /\ pc[c] = "idle"
        /\ \A d \in Callers : InvocationOf[d] \in Invocations /\ Gen(d) \in Generations
    BY ToolAssumption DEF Gen, ExecuteAnswers, ExecuteFollows, ExecuteLeads, CallerStarts
  <1>3. PICK place \in {"done", "following", "requesting"} :
            /\ pc' = [pc EXCEPT ![c] = place]
            /\ place = "following" => inflight[i] # None
            /\ place = "requesting" => inflight[i] = None /\ ~Remembered(i)
    BY DEF ExecuteAnswers, ExecuteFollows, ExecuteLeads
  <1>4. /\ UNCHANGED <<reported, published, pending, decision, cancellables, history,
                        forgotten, token, lease, runs>>
        /\ inflight' = IF place = "requesting" THEN [inflight EXCEPT ![i] = c] ELSE inflight
        /\ scheduled' \subseteq scheduled \cup {c}
        /\ c \in scheduled' \ scheduled => token[Gen(c)]
    BY <1>1, <1>2, <1>3 DEF ExecuteAnswers, ExecuteFollows, ExecuteLeads, TypeInv
  <1>5. /\ pc'[c] = place /\ \A d \in Callers \ {c} : pc'[d] = pc[d]
        /\ pc' \in [Callers -> Pcs]
    BY <1>1, <1>3 DEF TypeInv, Pcs, Inside
  <1>6. /\ inflight' \in [Invocations -> Callers \cup {None}]
        /\ \A j \in Invocations : inflight'[j] # inflight[j] =>
              j = i /\ inflight'[j] = c /\ place = "requesting"
        /\ place = "requesting" => inflight'[i] = c /\ inflight[i] = None
    BY <1>1, <1>2, <1>3, <1>4 DEF TypeInv
  <1>7. "requesting" \in Inside /\ {"done", "following", "idle"} \cap Inside = {}
        /\ place \notin {"starting", "executing", "finishing", "reporting"}
    BY DEF Inside
  <1>8. \A j \in Invocations : Remembered(j)' <=> Remembered(j)
    BY <1>4 DEF Remembered
  <1>9. TypeInv'
    BY <1>1, <1>4, <1>5, <1>6 DEF TypeInv
  <1>19. \A d \in Callers : pc[d] \in Inside => pc'[d] \in Inside
    BY <1>2, <1>5, <1>7
  <1>10. LeaderInv'
    <2> SUFFICES ASSUME NEW d \in Callers, pc'[d] \in Inside
                 PROVE  inflight'[InvocationOf[d]] = d /\ ~Remembered(InvocationOf[d])
      BY <1>2, <1>8 DEF LeaderInv
    <2>1. CASE d = c
      BY <1>3, <1>5, <1>6, <1>7, <2>1
    <2>2. CASE d # c
      <3>1. inflight[InvocationOf[d]] = d /\ ~Remembered(InvocationOf[d]) /\ d # None
        BY <1>1, <1>5, <2>2, ToolAssumption DEF LeaderInv
      <3> QED
        BY <1>2, <1>6, <3>1
    <2> QED
      BY <2>1, <2>2
  <1>11. NothingLeftBehind'
    <2>1. ASSUME NEW id \in CallIds, pending'[id] # None
          PROVE  pc'[pending'[id]] \in Inside /\ IdOf(pending'[id]) = id
      <3>1. pending[id] \in Callers /\ pc[pending[id]] \in Inside /\ IdOf(pending[id]) = id
        BY <1>1, <1>4, <2>1 DEF NothingLeftBehind, TypeInv
      <3> QED
        BY <1>4, <1>19, <3>1
    <2>2. ASSUME NEW j \in Invocations, inflight'[j] # None
          PROVE  pc'[inflight'[j]] \in Inside /\ InvocationOf[inflight'[j]] = j
      <3>1. CASE inflight'[j] = inflight[j]
        <4>1. inflight[j] \in Callers /\ pc[inflight[j]] \in Inside
              /\ InvocationOf[inflight[j]] = j
          BY <1>1, <2>2, <3>1 DEF NothingLeftBehind, TypeInv
        <4> QED
          BY <1>19, <3>1, <4>1
      <3>2. CASE inflight'[j] # inflight[j]
        BY <1>5, <1>6, <1>7, <3>2
      <3> QED
        BY <3>1, <3>2
    <2>3. \A d \in Callers : d \in cancellables' => pc'[d] \in Inside
      BY <1>1, <1>2, <1>4, <1>5, <1>7 DEF NothingLeftBehind
    <2>4. ASSUME NEW d \in Callers, pc'[d] = "following"
          PROVE  inflight'[InvocationOf[d]] # None
      <3>1. inflight[InvocationOf[d]] # None
        BY <1>1, <1>3, <1>5, <2>4 DEF NothingLeftBehind
      <3> QED
        BY <1>2, <1>6, <3>1
    <2> QED
      BY <2>1, <2>2, <2>3, <2>4 DEF NothingLeftBehind, IdOf
  <1>12. ReportInv'
    BY <1>1, <1>2, <1>4, <1>5 DEF ReportInv, Gen
  <1>13. ApprovalInv'
    BY <1>1, <1>4, <1>5, <1>7 DEF ApprovalInv, Correlation
  <1>14. RunsAreApproved'
    BY <1>1, <1>4 DEF RunsAreApproved, Correlation
  <1>15. CancellableInv' /\ RevocationReachesTools'
    BY <1>1, <1>4, <1>5, <1>7 DEF CancellableInv, RevocationReachesTools, Gen
  <1>16. RunInv'
    <2> SUFFICES ASSUME NEW j \in Invocations, RanOnce(j)
                 PROVE  RanOnce(j)'
      BY <1>1, <1>4 DEF RunInv
    <2> QED
      BY <1>2, <1>4, <1>5, <1>8 DEF RanOnce
  <1>17. RunsAtMostOnce'
    BY <1>1, <1>4 DEF RunsAtMostOnce
  <1>18. Quiet
    BY <1>1, <1>4, <1>5, <1>7 DEF Quiet, Enters, Completes, ReportInv
  <1> QED
    BY <1>9, <1>10, <1>11, <1>12, <1>13, <1>14, <1>15, <1>16, <1>17, <1>18 DEF IInv

\* A call gets its lease, or is refused.
LEMMA RequestedKeeps ==
    ASSUME IInv, NEW c \in Callers, CallFrame, Requested(c)
    PROVE  IInv' /\ Quiet
PROOF
  <1>1. TypeInv /\ ReportInv /\ pc[c] = "requesting" /\ pc[c] \in Inside /\ pc[c] \notin Ran
    BY DEF IInv, Requested, Inside, Ran
  <1>2. CASE UNCHANGED <<lease, runs>> /\ (Finish(c, "DENIED") \/ FinishInHandler(c, "FAILED"))
    <2>1. {"DENIED", "FAILED"} \subseteq Statuses
      BY DEF Statuses
    <2> QED
      BY <1>1, <1>2, <2>1, FinishKeeps DEF Quiet
  <1>3. CASE /\ lease' = [lease EXCEPT ![c] = epoch]
             /\ Proceed(c, "authorizing") /\ UNCHANGED <<books, runs>>
    <2>1. /\ pc' = [pc EXCEPT ![c] = "authorizing"]
          /\ UNCHANGED <<reported, published, scheduled, token, books>>
      BY <1>3 DEF Proceed
    <2>2. TypeInv'
      BY <1>1, <1>3, <2>1 DEF TypeInv, CallFrame, turns, capability, books, memory, Pcs, Inside
    <2>3. TokensKeep /\ (\A d \in scheduled' : token'[Gen(d)]) /\ reported'[c] = "none"
      BY <1>1, <2>1 DEF TypeInv, ReportInv, TokensKeep
    <2>4. "authorizing" \in Inside
      BY DEF Inside
    <2>5. IInv'
      BY <1>1, <1>3, <2>1, <2>2, <2>3, <2>4, MoveKeeps DEF books, TypeInv
    <2>6. Quiet
      BY <1>1, <2>1 DEF TypeInv, ReportInv, Quiet, Enters, Completes
    <2> QED
      BY <2>5, <2>6
  <1> QED
    BY <1>2, <1>3 DEF Requested

\* The policy decides, or the owner is asked.
LEMMA AuthorizedKeeps ==
    ASSUME IInv, NEW c \in Callers, CallFrame, Authorized(c)
    PROVE  IInv' /\ Quiet
PROOF
  <1>1. /\ TypeInv /\ ReportInv /\ UNCHANGED <<lease, runs>>
        /\ pc[c] = "authorizing" /\ pc[c] \in Inside /\ pc[c] \notin Ran
    BY DEF IInv, Authorized, Inside, Ran
  <1>2. {"DENIED", "FAILED"} \subseteq Statuses /\ IdOf(c) \in CallIds
    BY ToolAssumption DEF Statuses, IdOf
  <1>3. CASE Finish(c, "DENIED") \/ FinishInHandler(c, "FAILED")
    BY <1>1, <1>2, <1>3, FinishKeeps DEF Quiet
  <1>4. CASE InvocationOf[c] \notin sensitive /\ Admit(c)
    BY <1>1, <1>4, AdmitKeeps
  <1>5. CASE /\ pending[IdOf(c)] = None
             /\ pending' = [pending EXCEPT ![IdOf(c)] = c]
             /\ decision' = [decision EXCEPT ![c] = "open"]
             /\ Proceed(c, "asking") /\ UNCHANGED <<inflight, cancellables, memory>>
    <2>1. /\ pc' = [pc EXCEPT ![c] = "asking"]
          /\ UNCHANGED <<reported, published, scheduled, token>>
      BY <1>5 DEF Proceed
    <2>2. TypeInv'
      BY <1>1, <1>2, <1>5, <2>1 DEF TypeInv, CallFrame, turns, capability, memory, Pcs, Inside
    <2>3. TokensKeep /\ (\A d \in scheduled' : token'[Gen(d)]) /\ reported'[c] = "none"
      BY <1>1, <2>1 DEF TypeInv, ReportInv, TokensKeep
    <2>4. "asking" \in Inside
      BY DEF Inside
    <2>5. /\ \A d \in Callers : decision'[d] = "yes" => decision[d] = "yes"
          /\ \A id \in CallIds : pending'[id] # pending[id] => pending'[id] = c /\ id = IdOf(c)
      BY <1>1, <1>2, <1>5 DEF TypeInv
    <2>6. IInv'
      BY <1>1, <1>5, <2>1, <2>2, <2>3, <2>4, <2>5, MoveKeeps
    <2>7. Quiet
      BY <1>1, <2>1 DEF TypeInv, ReportInv, Quiet, Enters, Completes
    <2> QED
      BY <2>6, <2>7
  <1> QED
    BY <1>3, <1>4, <1>5 DEF Authorized

\* The owner answered, or the question was given up.
LEMMA AskedKeeps ==
    ASSUME IInv, NEW c \in Callers, CallFrame, Asked(c)
    PROVE  IInv' /\ Quiet
PROOF
  <1>1. /\ TypeInv /\ ApprovalInv /\ UNCHANGED <<lease, runs>>
        /\ pc[c] = "asking" /\ pc[c] \in Inside /\ "DENIED" \in Statuses
    BY DEF IInv, Asked, Inside, Statuses
  <1>2. CASE decision[c] = "yes" /\ Admit(c)
    BY <1>1, <1>2, AdmitKeeps DEF ApprovalInv
  <1>3. CASE Finish(c, "DENIED")
    BY <1>1, <1>3, FinishKeeps DEF Quiet
  <1>4. CASE HandleCancelled(c, scheduled)
    BY <1>1, <1>4, CancelledKeeps
  <1> QED
    BY <1>2, <1>3, <1>4 DEF Asked

\* The one step that enters a tool has just checked everything again.
LEMMA StartedKeeps ==
    ASSUME IInv, NEW c \in Callers, CallFrame, Started(c)
    PROVE  IInv' /\ Authorizes
PROOF
  <1>1. /\ TypeInv /\ ReportInv /\ CancellableInv /\ UNCHANGED lease
        /\ pc[c] = "starting" /\ pc[c] \in Inside /\ pc[c] \notin Ran
        /\ InvocationOf[c] \in Invocations
    BY ToolAssumption DEF IInv, Started, Inside, Ran
  <1>2. {"CANCELLED", "DENIED"} \subseteq Statuses
    BY DEF Statuses
  <1>3. CASE UNCHANGED runs /\ FinishInHandler(c, IF c \in cancellables THEN "CANCELLED" ELSE "DENIED")
    BY <1>1, <1>2, <1>3, FinishKeeps DEF Authorizes
  <1>4. CASE UNCHANGED runs /\ HandleCancelled(c, scheduled)
    BY <1>1, <1>4, CancelledKeeps DEF Authorizes, Quiet
  <1>5. CASE Leave(c, "stale", scheduled) /\ UNCHANGED <<runs, token>>
    BY <1>1, <1>5, StaleKeeps DEF Authorizes, Quiet
  <1>6. CASE /\ LeaseIsValid(c) /\ ~token[Gen(c)] /\ IsCurrent(c)
             /\ runs' = [runs EXCEPT ![InvocationOf[c]] = @ + 1]
             /\ Proceed(c, "executing") /\ UNCHANGED books
    <2>1. /\ pc' = [pc EXCEPT ![c] = "executing"]
          /\ UNCHANGED <<reported, published, scheduled, token, books>>
      BY <1>6 DEF Proceed
    <2>2. TypeInv'
      BY <1>1, <1>6, <2>1 DEF TypeInv, CallFrame, turns, capability, books, memory, Pcs, Inside
    <2>3. TokensKeep /\ (\A d \in scheduled' : token'[Gen(d)]) /\ reported'[c] = "none"
      BY <1>1, <2>1 DEF TypeInv, ReportInv, TokensKeep
    <2>4. "executing" \in Inside /\ (InvocationOf[c] \in Cancellable => c \in cancellables)
      BY <1>1 DEF Inside, CancellableInv
    <2>5. authority /\ lease'[c] = epoch
      BY <1>1, <1>6 DEF LeaseIsValid
    <2>6. IInv'
      BY <1>1, <1>6, <2>1, <2>2, <2>3, <2>4, <2>5, MoveKeeps DEF books
    <2>7. \A d \in Callers : ~Completes(d) /\ (Enters(d) => d = c)
      BY <1>1, <2>1 DEF TypeInv, ReportInv, Enters, Completes
    <2> QED
      BY <1>6, <2>6, <2>7 DEF Authorizes, LeaseIsValid, IsCurrent
  <1> QED
    BY <1>3, <1>4, <1>5, <1>6 DEF Started

\* The tool answers, fails or is done unwinding; a result is accepted only with
\* the authority the tool was entered with.
LEMMA ToolKeeps ==
    ASSUME IInv, NEW c \in Callers, CallFrame, ToolReturns(c) \/ ToolFails(c) \/ Unwound(c)
    PROVE  IInv' /\ Authorizes
PROOF
  <1>1. UNCHANGED <<lease, runs>> /\ pc[c] \in Inside
    BY DEF ToolReturns, ToolFails, Unwound, Inside
  <1>2. {"FAILED", "CANCELLED", "COMPLETED"} \subseteq Statuses
    BY DEF Statuses
  <1>3. CASE HandleCancelled(c, scheduled)
    <2>1. IInv' /\ Quiet
      BY <1>1, <1>3, CancelledKeeps
    <2> QED
      BY <2>1 DEF Quiet, Authorizes
  <1>4. CASE Leave(c, "stale", scheduled) /\ UNCHANGED token
    BY <1>1, <1>4, StaleKeeps DEF Quiet, Authorizes
  <1>5. CASE Finish(c, "FAILED") \/ FinishInHandler(c, "FAILED") \/ Finish(c, "CANCELLED")
    BY <1>1, <1>2, <1>5, FinishKeeps DEF Authorizes
  <1>6. CASE LeaseIsValid(c) /\ IsCurrent(c) /\ ~token[Gen(c)] /\ Finish(c, "COMPLETED")
    BY <1>1, <1>2, <1>6, FinishKeeps DEF Authorizes, LeaseIsValid, IsCurrent
  <1> QED
    BY <1>3, <1>4, <1>5, <1>6 DEF ToolReturns, ToolFails, Unwound

\* A call that reported leaves, and task.cancel arrives at any await.
LEMMA ReportedKeeps ==
    ASSUME IInv, NEW c \in Callers, CallFrame, Reported(c)
    PROVE  IInv' /\ Quiet
PROOF
  BY StaleKeeps DEF Reported, Inside

LEMMA CancelArrivesKeeps ==
    ASSUME IInv, NEW c \in Callers, CallFrame, CancelArrives(c)
    PROVE  IInv' /\ Quiet
PROOF
  <1>1. /\ TypeInv /\ ReportInv /\ c \in scheduled /\ token[Gen(c)]
        /\ UNCHANGED <<lease, runs>> /\ scheduled \subseteq Callers
    BY DEF IInv, TypeInv, ReportInv, CancelArrives
  <1>2. CASE pc[c] \in Inside \ {"executing", "reporting"} /\ HandleCancelled(c, scheduled \ {c})
    BY <1>1, <1>2, CancelledKeeps
  <1>3. CASE /\ pc[c] = "executing"
             /\ pc' = [pc EXCEPT ![c] = "unwinding"]
             /\ scheduled' = scheduled \ {c}
             /\ UNCHANGED <<reported, published, books, token>>
    <2>1. TypeInv'
      BY <1>1, <1>3 DEF TypeInv, CallFrame, turns, capability, books, memory, Pcs, Inside
    <2>2. TokensKeep /\ (\A d \in scheduled' : token'[Gen(d)]) /\ reported'[c] = "none"
      BY <1>1, <1>3 DEF TypeInv, ReportInv, TokensKeep
    <2>3. "unwinding" \in Inside /\ pc[c] \in Inside /\ "unwinding" \in Ran
      BY <1>3 DEF Inside, Ran
    <2>4. IInv'
      BY <1>1, <1>3, <2>1, <2>2, <2>3, MoveKeeps DEF books
    <2>5. Quiet
      BY <1>1, <1>3 DEF TypeInv, ReportInv, Quiet, Enters, Completes
    <2> QED
      BY <2>4, <2>5
  <1>4. CASE pc[c] = "reporting" /\ Leave(c, "raised", scheduled) /\ UNCHANGED token
    <2>1. TokensKeep /\ (\A d \in scheduled : token'[Gen(d)]) /\ token'[Gen(c)] /\ pc[c] \in Inside
      BY <1>1, <1>4 DEF TypeInv, ReportInv, TokensKeep, Inside
    <2> QED
      BY <1>1, <1>4, <2>1, LeaveKeeps
  <1>5. CASE /\ pc[c] = "following"
             /\ pc' = [pc EXCEPT ![c] = "done"]
             /\ scheduled' = scheduled \ {c}
             /\ UNCHANGED <<reported, published, books, token>>
    <2> USE <1>5 DEF CallFrame, turns, capability, books, memory
    <2>1. /\ pc'[c] = "done" /\ \A d \in Callers \ {c} : pc'[d] = pc[d]
          /\ pc' \in [Callers -> Pcs]
      BY <1>1 DEF TypeInv, Pcs
    <2>2. {"following", "done"} \cap Inside = {} /\ \A j \in Invocations : Remembered(j)' <=> Remembered(j)
      BY DEF Inside, Remembered
    <2>3. TypeInv'
      BY <1>1, <2>1 DEF TypeInv
    <2>4. LeaderInv' /\ NothingLeftBehind'
      BY <1>1, <2>1, <2>2, ToolAssumption DEF IInv, TypeInv, LeaderInv, NothingLeftBehind, IdOf
    <2>5. ReportInv' /\ ApprovalInv' /\ RunsAreApproved' /\ CancellableInv'
          /\ RevocationReachesTools' /\ RunsAtMostOnce'
      BY <1>1, <2>1 DEF IInv, ReportInv, ApprovalInv, RunsAreApproved, CancellableInv,
                       RevocationReachesTools, RunsAtMostOnce, Correlation, Gen
    <2>6. RunInv'
      BY <1>1, <2>1, <2>2 DEF IInv, RunInv, RanOnce
    <2>7. Quiet
      BY <1>1, <2>1 DEF Quiet, Enters, Completes, ReportInv
    <2> QED
      BY <2>3, <2>4, <2>5, <2>6, <2>7 DEF IInv
  <1> QED
    BY <1>2, <1>3, <1>4, <1>5 DEF CancelArrives

-----------------------------------------------------------------------------
\* Cancelling tokens reaches callers whose token is cancelled then.
LEMMA CancelReaches ==
    ASSUME TypeInv, ReportInv, NEW gs \in SUBSET Generations, NEW callers \in SUBSET Callers,
           \A c \in callers : Gen(c) \in gs,
           Cancel(gs, callers)
    PROVE  /\ TokensKeep /\ scheduled' \subseteq Callers
           /\ \A d \in scheduled' : token'[Gen(d)]
           /\ \A g \in gs : token'[g]
PROOF
  <1>1. /\ \A d \in Callers : Gen(d) \in Generations
        /\ \A g \in Generations : CallbacksOf(g) \subseteq Callers
        /\ \A g \in Generations : \A d \in CallbacksOf(g) : Gen(d) = g
    BY ToolAssumption DEF Gen, CallbacksOf
  <1>2. /\ token' \in [Generations -> BOOLEAN]
        /\ \A g \in Generations : token'[g] <=> token[g] \/ g \in gs
    BY DEF TypeInv, Cancel
  <1>3. \A d \in scheduled' :
            \/ d \in scheduled \/ d \in callers
            \/ \E g \in gs : d \in CallbacksOf(g)
    BY DEF Cancel
  <1> QED
    BY <1>1, <1>2, <1>3 DEF TypeInv, ReportInv, TokensKeep

\* Steps of the owner and the runtime move no caller.
LEMMA EnvironmentKeeps ==
    ASSUME IInv, TypeInv', UNCHANGED <<sensitive, call, lease, pending, inflight, cancellables,
                                       memory, runs>>,
           TokensKeep, \A d \in scheduled' : token'[Gen(d)],
           granted \subseteq granted',
           \A d \in Callers : decision'[d] = "yes" =>
               decision[d] = "yes" \/ Correlation(InvocationOf[d]) \in granted',
           RevocationReachesTools'
    PROVE  IInv' /\ Quiet
PROOF
  <1> USE DEF call, memory
  <1>1. /\ LeaderInv /\ NothingLeftBehind /\ ReportInv /\ ApprovalInv /\ RunsAreApproved
        /\ CancellableInv /\ RunInv /\ RunsAtMostOnce
    BY DEF IInv
  <1>2. \A j \in Invocations : Remembered(j)' <=> Remembered(j)
    BY DEF Remembered
  <1>3. LeaderInv' /\ NothingLeftBehind' /\ CancellableInv' /\ RunsAtMostOnce'
    BY <1>1, <1>2, ToolAssumption
       DEF LeaderInv, NothingLeftBehind, CancellableInv, RunsAtMostOnce, IdOf
  <1>4. ReportInv' /\ ApprovalInv' /\ RunsAreApproved'
    BY <1>1 DEF ReportInv, ApprovalInv, RunsAreApproved, Correlation, Gen
  <1>5. RunInv'
    BY <1>1, <1>2, ToolAssumption DEF RunInv, RanOnce, TokensKeep
  <1>6. Quiet
    BY <1>1 DEF Quiet, Enters, Completes, ReportInv
  <1> QED
    BY <1>3, <1>4, <1>5, <1>6 DEF IInv

\* What runs with an authority that is gone stays told to stop.
LEMMA StaysTold ==
    ASSUME IInv, TokensKeep, UNCHANGED <<pc, lease>>,
           ~authority \/ UNCHANGED capability
    PROVE  RevocationReachesTools'
PROOF
  <1>1. \A d \in Callers : Gen(d) \in Generations
    BY ToolAssumption DEF Gen
  <1> QED
    BY <1>1 DEF IInv, RevocationReachesTools, TokensKeep, capability, Gen

LEMMA TurnsKeep ==
    ASSUME IInv, NEW g \in Generations, Begin(g) \/ Stop(g) \/ Withdraw(g)
    PROVE  IInv' /\ Quiet
PROOF
  <1>1. TypeInv /\ ReportInv
    BY DEF IInv
  <1>2. UNCHANGED <<sensitive, capability, call, lease, books, runs, granted>>
    BY DEF Begin, Stop, Withdraw, turns
  <1>3. TokensKeep /\ scheduled' \subseteq Callers /\ \A d \in scheduled' : token'[Gen(d)]
    <2>1. CASE Begin(g)
      <3> DEFINE superseded == IF g \in OwnerActions THEN {} ELSE current \ OwnerActions
                 callers == {c \in Callers :
                     Gen(c) \in superseded /\ pc[c] \in Inside \cup {"following"}}
      <3>1. Cancel(superseded, callers) /\ superseded \in SUBSET Generations
        BY <1>1, <2>1 DEF Begin, TypeInv
      <3> QED
        BY <1>1, <3>1, CancelReaches
    <2>2. CASE Stop(g)
      BY <1>1, <2>2, CancelReaches DEF Stop
    <2>3. CASE Withdraw(g)
      BY <1>1, <2>3 DEF Withdraw, TypeInv, ReportInv, TokensKeep
    <2> QED
      BY <2>1, <2>2, <2>3
  <1>4. current' \subseteq begun' /\ begun' \subseteq Generations
    BY <1>1 DEF Begin, Stop, Withdraw, turns, TypeInv
  <1>5. TypeInv'
    BY <1>1, <1>2, <1>3, <1>4 DEF TypeInv, capability, call, books, memory, TokensKeep
  <1>6. RevocationReachesTools'
    BY <1>2, <1>3, StaysTold DEF call
  <1> QED
    BY <1>2, <1>3, <1>5, <1>6, EnvironmentKeeps DEF books, TypeInv

LEMMA DecideKeeps ==
    ASSUME IInv, NEW i \in Invocations, NEW approved \in BOOLEAN, Decide(i, approved)
    PROVE  IInv' /\ Quiet
PROOF
  <1> DEFINE c == pending[CallIdOf[i]]
  <1>1. TypeInv /\ ReportInv /\ CallIdOf[i] \in CallIds /\ Correlation(i) \in Generations \X CallIds
    BY ToolAssumption DEF IInv, Correlation
  <1>2. /\ c \in Callers /\ Correlation(InvocationOf[c]) = Correlation(i)
        /\ decision' = [decision EXCEPT ![c] = IF approved THEN "yes" ELSE "no"]
        /\ granted' = granted \cup (IF approved THEN {Correlation(i)} ELSE {})
        /\ UNCHANGED <<turns, token, scheduled, capability, call, lease, pending, inflight,
                       cancellables, memory, runs>>
    BY <1>1 DEF Decide, TypeInv
  <1> HIDE DEF c
  <1>3. TypeInv' /\ TokensKeep /\ \A d \in scheduled' : token'[Gen(d)]
    BY <1>1, <1>2 DEF TypeInv, ReportInv, TokensKeep, turns, capability, call, memory
  <1>4. /\ granted \subseteq granted'
        /\ \A d \in Callers : decision'[d] = "yes" =>
               decision[d] = "yes" \/ Correlation(InvocationOf[d]) \in granted'
    BY <1>1, <1>2 DEF TypeInv
  <1>5. RevocationReachesTools'
    BY <1>2, <1>3, StaysTold DEF call
  <1> QED
    BY <1>2, <1>3, <1>4, <1>5, EnvironmentKeeps DEF turns

LEMMA RevokeKeeps ==
    ASSUME IInv, Revoke
    PROVE  IInv' /\ Quiet
PROOF
  <1> DEFINE gs == {Gen(c) : c \in cancellables}
  <1>1. TypeInv /\ ReportInv /\ \A d \in Callers : Gen(d) \in Generations
    BY ToolAssumption DEF IInv, Gen
  <1>2. Cancel(gs, {}) /\ gs \in SUBSET Generations
    BY <1>1 DEF Revoke, TypeInv
  <1>3. /\ TokensKeep /\ scheduled' \subseteq Callers /\ \A d \in scheduled' : token'[Gen(d)]
        /\ \A g \in gs : token'[g]
    BY <1>1, <1>2, CancelReaches
  <1>4. /\ decision' \in [Callers -> {"none", "open", "yes", "no", "abandoned"}]
        /\ \A d \in Callers : decision'[d] = "yes" => decision[d] = "yes"
    BY <1>1 DEF Revoke, TypeInv
  <1>5. authority' \in BOOLEAN /\ epoch' \in 0 .. MaxEpoch
    <2>1. epoch \in 0 .. MaxEpoch /\ MaxEpoch \in Nat
      BY <1>1, ToolAssumption DEF TypeInv
    <2>2. authority' = FALSE /\ epoch < MaxEpoch /\ epoch' = epoch + 1
      BY DEF Revoke
    <2>3. epoch' \in 0 .. MaxEpoch
      BY <2>1, <2>2
    <2> QED
      BY <2>2, <2>3
  <1>6. TypeInv'
    BY <1>1, <1>3, <1>4, <1>5 DEF TypeInv, Revoke, turns, call, memory, TokensKeep
  <1>7. RevocationReachesTools'
    <2> SUFFICES ASSUME NEW d \in Callers, pc[d] = "executing", InvocationOf[d] \in Cancellable
                 PROVE  token'[Gen(d)]
      BY DEF RevocationReachesTools, Revoke, call, Gen
    <2>1. d \in cancellables
      BY DEF IInv, CancellableInv
    <2> QED
      BY <1>3, <2>1
  <1> QED
    BY <1>3, <1>4, <1>6, <1>7, EnvironmentKeeps DEF Revoke, turns

LEMMA RestoreKeeps ==
    ASSUME IInv, Restore
    PROVE  IInv' /\ Quiet
PROOF
  <1>1. TypeInv /\ ReportInv
    BY DEF IInv
  <1>2. TokensKeep /\ \A d \in scheduled' : token'[Gen(d)]
    BY <1>1 DEF TypeInv, ReportInv, TokensKeep, Restore
  <1>3. TypeInv'
    BY <1>1, ToolAssumption DEF TypeInv, Restore, turns, call, books, memory
  <1>4. RevocationReachesTools'
    BY <1>2, StaysTold DEF Restore, call
  <1> QED
    BY <1>2, <1>3, <1>4, EnvironmentKeeps DEF Restore, turns, books

-----------------------------------------------------------------------------
LEMMA InitHolds == Init => IInv
PROOF
  <1> SUFFICES ASSUME Init
               PROVE  IInv
    OBVIOUS
  <1>1. << >> \in Seq(Invocations) /\ Len(<< >>) = 0 /\ DOMAIN << >> = {}
    BY EmptySeq
  <1>2. TypeInv
    BY <1>1, ToolAssumption DEF Init, TypeInv, Pcs
  <1>3. LeaderInv /\ NothingLeftBehind /\ ReportInv /\ ApprovalInv /\ CancellableInv
        /\ RevocationReachesTools
    BY ToolAssumption DEF Init, LeaderInv, NothingLeftBehind, ReportInv, ApprovalInv,
                         CancellableInv, RevocationReachesTools, Inside
  <1>4. RunsAreApproved /\ RunInv /\ RunsAtMostOnce
    <2>1. \A i \in Invocations : runs[i] = 0
      BY DEF Init
    <2>2. sensitive \subseteq Invocations
      BY <1>2, ToolAssumption DEF TypeInv
    <2> QED
      BY <2>1, <2>2 DEF RunsAreApproved, RunInv, RunsAtMostOnce
  <1> QED
    BY <1>2, <1>3, <1>4 DEF IInv

\* Every step keeps the invariant, and authorizes what it enters and accepts.
LEMMA StepKeeps ==
    ASSUME IInv, [Next]_vars
    PROVE  IInv' /\ Authorizes
PROOF
  <1>1. Quiet => Authorizes
    BY DEF Quiet, Authorizes
  <1>2. ASSUME NEW c \in Callers, CallStep(c)
        PROVE  IInv' /\ Authorizes
    <2>1. CallFrame
      BY <1>2 DEF CallStep, CallFrame
    <2>2. CASE ExecuteAnswers(c) \/ ExecuteFollows(c) \/ ExecuteLeads(c)
      BY <1>1, <2>1, <2>2, ExecuteKeeps
    <2>3. CASE Requested(c)
      BY <1>1, <2>1, <2>3, RequestedKeeps
    <2>4. CASE Authorized(c)
      BY <1>1, <2>1, <2>4, AuthorizedKeeps
    <2>5. CASE Asked(c)
      BY <1>1, <2>1, <2>5, AskedKeeps
    <2>6. CASE Started(c)
      BY <2>1, <2>6, StartedKeeps
    <2>7. CASE ToolReturns(c) \/ ToolFails(c) \/ Unwound(c)
      BY <2>1, <2>7, ToolKeeps
    <2>8. CASE Reported(c)
      BY <1>1, <2>1, <2>8, ReportedKeeps
    <2>9. CASE CancelArrives(c)
      BY <1>1, <2>1, <2>9, CancelArrivesKeeps
    <2> QED
      BY <1>2, <2>2, <2>3, <2>4, <2>5, <2>6, <2>7, <2>8, <2>9 DEF CallStep
  <1>3. ASSUME NEW g \in Generations, Begin(g) \/ Stop(g) \/ Withdraw(g)
        PROVE  IInv' /\ Authorizes
    BY <1>1, <1>3, TurnsKeep
  <1>4. ASSUME NEW i \in Invocations, NEW approved \in BOOLEAN, Decide(i, approved)
        PROVE  IInv' /\ Authorizes
    BY <1>1, <1>4, DecideKeeps
  <1>5. CASE Revoke \/ Restore
    BY <1>1, <1>5, RevokeKeeps, RestoreKeeps
  <1>6. CASE UNCHANGED vars
    <2>1. TypeInv' /\ RevocationReachesTools' /\ TokensKeep /\ \A d \in scheduled' : token'[Gen(d)]
      BY <1>6 DEF IInv, TypeInv, RevocationReachesTools, ReportInv, TokensKeep, vars, turns,
                 capability, call, books, memory, Gen
    <2> QED
      BY <1>1, <1>6, <2>1, EnvironmentKeeps DEF vars, turns, capability, call, books, memory
  <1> QED
    BY <1>2, <1>3, <1>4, <1>5, <1>6 DEF Next

\* The invariant that carries the properties.
THEOREM Invariant == Spec => []IInv
PROOF
  <1>1. IInv /\ [Next]_vars => IInv'
    BY StepKeeps
  <1> QED
    BY InitHolds, <1>1, PTL DEF Spec

\* The executor, its approvals and the authority stay well typed.
THEOREM TypeCorrect == Spec => []TypeInv
PROOF
  BY Invariant, PTL DEF IInv

\* The tool of a sensitive invocation runs only after the owner approved that
\* very call.
THEOREM EveryRunIsApproved == Spec => []RunsAreApproved
PROOF
  BY Invariant, PTL DEF IInv

\* However many callers execute an invocation, its tool runs at most once while
\* the history remembers it.
THEOREM DuplicatesRunOnce == Spec => []RunsAtMostOnce
PROOF
  BY Invariant, PTL DEF IInv

\* A cancellable tool that runs under an authority that is gone was told to stop.
THEOREM RevocationIsComplete == Spec => []RevocationReachesTools
PROOF
  BY Invariant, PTL DEF IInv

\* No entry of a call that is over is left, so nobody waits for one.
THEOREM CallsCleanUp == Spec => []NothingLeftBehind
PROOF
  BY Invariant, PTL DEF IInv

\* Tools are entered, and their results accepted, only under the authority that is
\* in force at that moment.
THEOREM AuthorityIsCurrent == Spec => ActsWithAuthority
PROOF
  <1>1. IInv /\ [Next]_vars => Authorizes
    BY StepKeeps
  <1>2. Authorizes => [\A c \in Callers : Enters(c) \/ Completes(c) =>
          authority /\ lease[c] = epoch /\ Gen(c) \in current /\ ~token[Gen(c)]]_vars
    BY DEF Authorizes
  <1> QED
    BY Invariant, <1>1, <1>2, PTL DEF ActsWithAuthority, Spec
=============================================================================
