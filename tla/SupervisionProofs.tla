-------------------------- MODULE SupervisionProofs --------------------------
(***************************************************************************)
(* That supervised components do not run past their budget of crashes, for *)
(* any number of components, failures and supervisors; and that a staged   *)
(* update can be recovered from wherever the supervisor's process ends,    *)
(* for any number of transactions, losses of the coordinator and versions  *)
(* kept: the pointer and the registry name one version that is there, and  *)
(* the last known good version was observed, unless a rollback failed.     *)
(***************************************************************************)
EXTENDS Supervisor, UpdateTransaction, FiniteSetTheorems, SequenceTheorems, TLAPS

-----------------------------------------------------------------------------
(* The supervisor *)

\* More failures do not end a crash loop.
LEMMA MoreIsACrashLoop ==
    ASSUME NEW S, NEW T, IsFiniteSet(T), S \subseteq T, CrashLoop(S)
    PROVE  CrashLoop(T)
PROOF
  <1>1. Cardinality(S) \in Nat /\ Cardinality(T) \in Nat /\ Cardinality(S) <= Cardinality(T)
    BY FS_Subset, FS_CardinalityType
  <1> QED
    BY <1>1, SupervisorAssumption DEF CrashLoop

LEMMA NoCrashLoopWithoutFailure == ~CrashLoop({})
PROOF
  BY FS_EmptySet, SupervisorAssumption DEF CrashLoop

LEMMA OrderHasLength == Len(Order) \in Nat /\ DOMAIN Order = 1 .. Len(Order)
PROOF
  BY LenProperties, SupervisorAssumption

LEMMA SupervisorStarts == SupervisorInit => SupervisorInv
PROOF
  <1> SUFFICES ASSUME SupervisorInit PROVE SupervisorInv
    OBVIOUS
  <1>1. SupervisorTypeInv
    BY OrderHasLength, SupervisorAssumption
    DEF SupervisorInit, StoreInit, SupervisorTypeInv, StoreTypeInv
  <1>2. PlannedRestartIsUsedUp
    BY DEF SupervisorInit, PlannedRestartIsUsedUp
  <1>3. \A c \in Components : Recent(c) = {} /\ monitor[c] = "off" /\ failed[c] = {}
    BY DEF SupervisorInit, Recent
  <1>4. CrashLoopIsFinal /\ CrashLoopIsKnown
    BY <1>3, NoCrashLoopWithoutFailure, SupervisorAssumption
    DEF CrashLoopIsFinal, CrashLoopIsKnown, Components
  <1>5. NothingIsLeft /\ FailuresAreCounted
    BY <1>3 DEF NothingIsLeft, FailuresAreCounted, SupervisorInit
  <1> QED
    BY <1>1, <1>2, <1>4, <1>5 DEF SupervisorInv, SupervisionIsSound

\* What is persisted about security keeps its type and never leaves safe mode
\* but by the operator.
LEMMA RevokedIsTyped ==
    ASSUME NEW s \in [epoch : Nat, revoked : BOOLEAN, safeMode : BOOLEAN]
    PROVE  /\ Revoked(s) \in [epoch : Nat, revoked : BOOLEAN, safeMode : BOOLEAN]
           /\ InSafeMode(s) \in [epoch : Nat, revoked : BOOLEAN, safeMode : BOOLEAN]
           /\ Restored(s) \in [epoch : Nat, revoked : BOOLEAN, safeMode : BOOLEAN]
           /\ Revoked(s).safeMode = s.safeMode
           /\ InSafeMode(s).safeMode
PROOF
  <1> DEFINE Security == [epoch : Nat, revoked : BOOLEAN, safeMode : BOOLEAN]
  <1>1. ASSUME NEW r \in Security
        PROVE  Revoked(r) \in Security /\ Revoked(r).safeMode = r.safeMode
    <2>1. r.epoch \in Nat /\ r.epoch + 1 \in Nat
      OBVIOUS
    <2> QED
      BY <2>1, Zenon DEF Revoked
  <1>2. Restored(s) \in Security
    BY DEF Restored
  <1>3. ASSUME NEW r \in Security
        PROVE  LET t == [r EXCEPT !.safeMode = TRUE] IN t \in Security /\ t.safeMode
    OBVIOUS
  <1>4. InSafeMode(s) \in Security /\ InSafeMode(s).safeMode
    <2>1. (IF s.revoked THEN s ELSE Revoked(s)) \in Security
      BY <1>1
    <2> QED
      BY <1>3, <2>1 DEF InSafeMode
  <1> QED
    BY <1>1, <1>2, <1>4

LEMMA SecurityIsTyped ==
    ASSUME StoreTypeInv, NEW c, NEW times
    PROVE  /\ SecurityAfter(c, times) \in [epoch : Nat, revoked : BOOLEAN, safeMode : BOOLEAN]
           /\ security.safeMode => SecurityAfter(c, times).safeMode
           /\ c \in Critical /\ CrashLoop(times) => SecurityAfter(c, times).safeMode
PROOF
  BY RevokedIsTyped DEF SecurityAfter, StoreTypeInv

LEMMA CountedIsTyped ==
    ASSUME SupervisorTypeInv, NEW c \in Components, NEW stable \in BOOLEAN
    PROVE  Counted(c, stable) \in SUBSET (1 .. failures + 1)
PROOF
  BY DEF SupervisorTypeInv, Counted

\* How a monitor may go on after a backoff.
LEMMA AfterBackoff ==
    ASSUME NEW c \in Components, BackoffEnds(c)
    PROVE  /\ monitor[c] = "backoff"
           /\ \/ monitor' = [monitor EXCEPT ![c] = "ended"] /\ UNCHANGED <<instance, health>>
              \/ /\ monitor' = [d \in Components |-> IF d = c THEN "launch" ELSE monitor[d]]
                 /\ instance' = [d \in Components |->
                        IF d = c THEN instance[d] + 1 ELSE instance[d]]
                 /\ health' = [health EXCEPT ![c] = "STARTING"]
           /\ UNCHANGED <<runs, supervised, security, journal, process, told,
                          restartCount, crashTimes, planned, shutdown, toStop,
                          failures, oldest, failed>>
PROOF
  <1>1. CASE Shutting
    BY <1>1 DEF BackoffEnds
  <1>2. CASE ~Shutting
    <2>1. Launching({c})
      BY <1>2 DEF BackoffEnds
    <2>2. /\ monitor' = [d \in Components |-> IF d = c THEN "launch" ELSE monitor[d]]
          /\ instance' = [d \in Components |->
                 IF d = c THEN instance[d] + 1 ELSE instance[d]]
      BY <2>1 DEF Launching
    <2> QED
      BY <1>2, <2>2 DEF BackoffEnds
  <1> QED
    BY <1>1, <1>2

LEMMA AfterBackoffEach ==
    ASSUME NEW c \in Components, BackoffEnds(c), SupervisorTypeInv
    PROVE  /\ monitor[c] = "backoff" /\ monitor'[c] \in {"ended", "launch"}
           /\ \A d \in Components \ {c} : monitor'[d] = monitor[d]
PROOF
  <1>1. CASE monitor' = [monitor EXCEPT ![c] = "ended"]
    BY <1>1, AfterBackoff DEF SupervisorTypeInv
  <1>2. CASE monitor' = [d \in Components |-> IF d = c THEN "launch" ELSE monitor[d]]
    BY <1>2, AfterBackoff
  <1> QED
    BY <1>1, <1>2, AfterBackoff

LEMMA SupervisorTypeStep ==
    ASSUME SupervisorTypeInv, [SupervisorNext]_superVars
    PROVE  SupervisorTypeInv'
PROOF
  <1> USE SupervisorAssumption, OrderHasLength
      DEF SupervisorTypeInv, StoreTypeInv
  <1>1. ASSUME NEW cs \in SUBSET Components, Start(cs) PROVE SupervisorTypeInv'
    BY <1>1 DEF Start, Launching
  <1>2. CASE RestoreTrusted
    BY <1>2, RevokedIsTyped DEF RestoreTrusted
  <1>3. ASSUME NEW c \in Components, Restart(c) PROVE SupervisorTypeInv'
    BY <1>3 DEF Restart
  <1>4. ASSUME NEW c \in Components, LaunchReturns(c) PROVE SupervisorTypeInv'
    BY <1>4 DEF LaunchReturns, Moves
  <1>5. ASSUME NEW c \in Components, MonitorStops(c) PROVE SupervisorTypeInv'
    BY <1>5 DEF MonitorStops, Forgotten
  <1>6. ASSUME NEW c \in Components, PlannedRestart(c) PROVE SupervisorTypeInv'
    BY <1>6 DEF PlannedRestart, Forgotten, Launching
  <1>7. ASSUME NEW c \in Components, Fails(c) PROVE SupervisorTypeInv'
    <2>1. PICK stable \in BOOLEAN :
             /\ crashTimes' = [crashTimes EXCEPT ![c] = Counted(c, stable)]
             /\ failed' = [failed EXCEPT ![c] =
                    {failures + 1} \cup (IF stable THEN {} ELSE @)]
             /\ security' = SecurityAfter(c, Counted(c, stable))
             /\ health' = [health EXCEPT ![c] =
                    IF CrashLoop(Counted(c, stable)) THEN "CRASH_LOOP" ELSE "UNHEALTHY"]
             /\ monitor' = [monitor EXCEPT ![c] =
                    IF CrashLoop(Counted(c, stable)) THEN "ended" ELSE "backoff"]
      BY <1>7 DEF Fails
    <2>2. Counted(c, stable) \in SUBSET (1 .. failures + 1)
      BY CountedIsTyped
    <2>3. StoreTypeInv'
      BY <2>1, SecurityIsTyped
    <2>4. /\ failures < MaxFailures /\ failures' = failures + 1
          /\ restartCount' = [restartCount EXCEPT ![c] = @ + 1]
          /\ process' = [process EXCEPT ![c] = "none"] /\ told' = told \ {c}
          /\ journal' = journal \cup {<<c, failures + 1>>}
          /\ UNCHANGED <<runs, supervised, instance, planned, shutdown, toStop, oldest>>
      BY <1>7 DEF Fails, Forgotten
    <2>5. crashTimes' \in [Components -> SUBSET (1 .. failures + 1)]
      <3>1. \A d \in Components : crashTimes[d] \in SUBSET (1 .. failures + 1)
        OBVIOUS
      <3> QED
        BY <2>1, <2>2, <3>1
    <2>6. failed' \in [Components -> SUBSET (1 .. failures + 1)]
      <3>1. \A d \in Components : failed[d] \in SUBSET (1 .. failures + 1)
        OBVIOUS
      <3> QED
        BY <2>1, <3>1
    <2> QED
      BY <2>1, <2>3, <2>4, <2>5, <2>6, SMTT(60)
  <1>8. ASSUME NEW c \in Components, BackoffEnds(c) PROVE SupervisorTypeInv'
    <2>1. /\ \/ monitor' = [monitor EXCEPT ![c] = "ended"] /\ UNCHANGED <<instance, health>>
             \/ /\ monitor' = [d \in Components |-> IF d = c THEN "launch" ELSE monitor[d]]
                /\ instance' = [d \in Components |->
                       IF d = c THEN instance[d] + 1 ELSE instance[d]]
                /\ health' = [health EXCEPT ![c] = "STARTING"]
          /\ UNCHANGED <<runs, supervised, security, journal, process, told,
                         restartCount, crashTimes, planned, shutdown, toStop,
                         failures, oldest, failed>>
      BY <1>8, AfterBackoff
    <2>2. /\ monitor' \in [Components ->
               {"off", "launch", "starting", "stopping", "up", "backoff", "ended"}]
          /\ instance' \in [Components -> Nat]
      <3>1. CASE monitor' = [monitor EXCEPT ![c] = "ended"] /\ UNCHANGED <<instance, health>>
        BY <3>1
      <3>2. CASE /\ monitor' = [d \in Components |-> IF d = c THEN "launch" ELSE monitor[d]]
                 /\ instance' = [d \in Components |->
                        IF d = c THEN instance[d] + 1 ELSE instance[d]]
        BY <3>2
      <3> QED
        BY <2>1, <3>1, <3>2
    <2>3. health' \in [Components ->
              {"STOPPED", "STARTING", "HEALTHY", "UNHEALTHY", "CRASH_LOOP", "SAFE_MODE"}]
      BY <2>1
    <2> QED
      BY <2>1, <2>2, <2>3
  <1>9. ASSUME NEW c \in Components, Environment(c) PROVE SupervisorTypeInv'
    BY <1>9 DEF Environment, Spawn, BecomesReady, ReadinessFails, ProcessExits, Moves
  <1>10. ASSUME NEW c \in Components, DiesRecording(c) PROVE SupervisorTypeInv'
    <2>1. \/ security' = Revoked(security)
          \/ \E times : security' = SecurityAfter(c, times)
      BY <1>10 DEF DiesRecording
    <2>2. StoreTypeInv'
      BY <2>1, SecurityIsTyped, RevokedIsTyped
    <2> QED
      BY <1>10, <2>2, SMTT(60) DEF DiesRecording, MemoryLost
  <1>11. CASE WindowMoves
    BY <1>11 DEF WindowMoves
  <1>12. CASE ShutdownBegins \/ ShutdownStops \/ ShutdownReturns
    <2>1. CASE ShutdownBegins
      BY <2>1 DEF ShutdownBegins
    <2>2. CASE ShutdownStops
      <3>1. Order[toStop] \in Components
        BY <2>2 DEF ShutdownStops, Components
      <3> QED
        BY <2>2, <3>1, SMTT(60) DEF ShutdownStops
    <2>3. CASE ShutdownReturns
      BY <2>3 DEF ShutdownReturns
    <2> QED
      BY <1>12, <2>1, <2>2, <2>3
  <1>13. CASE SupervisorEnds
    BY <1>13 DEF SupervisorEnds, MemoryLost
  <1>14. CASE UNCHANGED superVars
    BY <1>14 DEF superVars, ownVars, storeVars
  <1> QED
    BY <1>1, <1>2, <1>3, <1>4, <1>5, <1>6, <1>7, <1>8, <1>9, <1>10, <1>11, <1>12,
       <1>13, <1>14 DEF SupervisorNext, SupervisorStep, MonitorStep

\* The mark of a planned restart goes with the process it was meant for, and a
\* supervisor that is gone left none.
LEMMA MarksStep ==
    ASSUME SupervisorTypeInv, NothingIsLeft, PlannedRestartIsUsedUp,
           [SupervisorNext]_superVars
    PROVE  NothingIsLeft' /\ PlannedRestartIsUsedUp'
PROOF
  <1> USE DEF SupervisorTypeInv, NothingIsLeft, PlannedRestartIsUsedUp, Known, Shutting
  <1>1. ASSUME NEW cs \in SUBSET Components, Start(cs)
        PROVE  NothingIsLeft' /\ PlannedRestartIsUsedUp'
    BY <1>1 DEF Start, Launching
  <1>2. CASE RestoreTrusted
    BY <1>2 DEF RestoreTrusted
  <1>3. ASSUME NEW c \in Components, Restart(c)
        PROVE  NothingIsLeft' /\ PlannedRestartIsUsedUp'
    BY <1>3 DEF Restart
  <1>4. ASSUME NEW c \in Components, LaunchReturns(c) \/ MonitorStops(c)
        PROVE  NothingIsLeft' /\ PlannedRestartIsUsedUp'
    BY <1>4 DEF LaunchReturns, MonitorStops, Forgotten, Moves, Ended
  <1>5. ASSUME NEW c \in Components, PlannedRestart(c)
        PROVE  NothingIsLeft' /\ PlannedRestartIsUsedUp'
    BY <1>5 DEF PlannedRestart, Forgotten, Launching, Ended
  <1>6. ASSUME NEW c \in Components, Fails(c)
        PROVE  NothingIsLeft' /\ PlannedRestartIsUsedUp'
    <2>1. /\ Ended(c) /\ c \notin planned
          /\ \A d \in Components \ {c} : monitor'[d] = monitor[d]
          /\ UNCHANGED <<supervised, planned, shutdown>>
      BY <1>6 DEF Fails
    <2> QED
      BY <2>1 DEF Ended
  <1>7. ASSUME NEW c \in Components, BackoffEnds(c)
        PROVE  NothingIsLeft' /\ PlannedRestartIsUsedUp'
    BY <1>7, AfterBackoff, AfterBackoffEach
  <1>8. ASSUME NEW c \in Components, Environment(c)
        PROVE  NothingIsLeft' /\ PlannedRestartIsUsedUp'
    BY <1>8 DEF Environment, Spawn, BecomesReady, ReadinessFails, ProcessExits, Moves
  <1>9. ASSUME NEW c \in Components, DiesRecording(c)
        PROVE  NothingIsLeft' /\ PlannedRestartIsUsedUp'
    BY <1>9 DEF DiesRecording, MemoryLost
  <1>10. CASE WindowMoves \/ ShutdownBegins \/ ShutdownStops \/ ShutdownReturns
    BY <1>10 DEF WindowMoves, ShutdownBegins, ShutdownStops, ShutdownReturns
  <1>11. CASE SupervisorEnds
    BY <1>11 DEF SupervisorEnds, MemoryLost
  <1>12. CASE UNCHANGED superVars
    BY <1>12 DEF superVars, ownVars, storeVars
  <1> QED
    BY <1>1, <1>2, <1>3, <1>4, <1>5, <1>6, <1>7, <1>8, <1>9, <1>10, <1>11, <1>12
    DEF SupervisorNext, SupervisorStep, MonitorStep

\* What the steps other than a start, a failure and a restoration leave alone.
LEMMA FailuresKept ==
    ASSUME SupervisorTypeInv, [SupervisorNext]_superVars,
           ~Start(Components), ~Start(Components \cap Critical), ~RestoreTrusted,
           ~(\E c \in Components : Fails(c))
    PROVE  /\ UNCHANGED <<failed, journal, failures>>
           /\ oldest' >= oldest
           /\ security.safeMode => security'.safeMode
           /\ \A c \in Components :
                  monitor'[c] \notin {"off", "ended"} =>
                      monitor[c] \notin {"off", "ended"} /\ crashTimes'[c] = crashTimes[c]
PROOF
  <1> USE DEF SupervisorTypeInv
  <1> DEFINE Goal == /\ UNCHANGED <<failed, journal, failures>>
                     /\ oldest' >= oldest
                     /\ security.safeMode => security'.safeMode
                     /\ \A c \in Components :
                            monitor'[c] \notin {"off", "ended"} =>
                                /\ monitor[c] \notin {"off", "ended"}
                                /\ crashTimes'[c] = crashTimes[c]
  <1>1. ASSUME NEW c \in Components, Restart(c) PROVE Goal
    BY <1>1 DEF Restart
  <1>2. ASSUME NEW c \in Components, LaunchReturns(c) \/ MonitorStops(c) PROVE Goal
    BY <1>2 DEF LaunchReturns, MonitorStops, Forgotten, Moves
  <1>3. ASSUME NEW c \in Components, PlannedRestart(c) PROVE Goal
    BY <1>3 DEF PlannedRestart, Forgotten, Launching, Ended, Known
  <1>4. ASSUME NEW c \in Components, BackoffEnds(c) PROVE Goal
    BY <1>4, AfterBackoff, AfterBackoffEach
  <1>5. ASSUME NEW c \in Components, Environment(c) PROVE Goal
    BY <1>5 DEF Environment, Spawn, BecomesReady, ReadinessFails, ProcessExits, Moves
  <1>6. ASSUME NEW c \in Components, DiesRecording(c) PROVE Goal
    <2>1. \/ security' = Revoked(security)
          \/ \E times : security' = SecurityAfter(c, times)
      BY <1>6 DEF DiesRecording
    <2>2. security.safeMode => security'.safeMode
      BY <2>1, SecurityIsTyped, RevokedIsTyped DEF StoreTypeInv
    <2> QED
      BY <1>6, <2>2 DEF DiesRecording, MemoryLost
  <1>7. CASE WindowMoves \/ ShutdownBegins \/ ShutdownStops \/ ShutdownReturns
    BY <1>7 DEF WindowMoves, ShutdownBegins, ShutdownStops, ShutdownReturns
  <1>8. CASE SupervisorEnds
    BY <1>8 DEF SupervisorEnds, MemoryLost
  <1>9. CASE UNCHANGED superVars
    BY <1>9 DEF superVars, ownVars, storeVars
  <1> HIDE DEF SupervisorTypeInv
  <1>10. \/ \E c \in Components :
               \/ Restart(c) \/ LaunchReturns(c) \/ MonitorStops(c) \/ PlannedRestart(c)
               \/ BackoffEnds(c) \/ Environment(c) \/ DiesRecording(c)
         \/ WindowMoves \/ ShutdownBegins \/ ShutdownStops \/ ShutdownReturns
         \/ SupervisorEnds \/ UNCHANGED superVars
    BY Zenon DEF SupervisorNext, SupervisorStep, MonitorStep
  <1>11. Goal
    BY <1>1, <1>2, <1>3, <1>4, <1>5, <1>6, <1>7, <1>8, <1>9, <1>10
  <1> QED
    BY <1>11 DEF Goal

\* What a monitor that starts or fails counts, and the safe mode of a crash loop.
LEMMA CrashLoopStep ==
    ASSUME SupervisorTypeInv, SupervisorTypeInv', NothingIsLeft,
           FailuresAreCounted, CrashLoopIsKnown, CrashLoopIsFinal,
           [SupervisorNext]_superVars
    PROVE  FailuresAreCounted' /\ CrashLoopIsKnown' /\ CrashLoopIsFinal'
PROOF
  <1>0. \A c \in Critical : c \in Components
    BY SupervisorAssumption DEF Components
  <1>1. \A c \in Components : IsFiniteSet(Recent(c))
    <2>1. ASSUME NEW c \in Components PROVE IsFiniteSet(Recent(c))
      <3>1. Recent(c) \subseteq 1 .. failures /\ failures \in Nat
        BY DEF Recent, SupervisorTypeInv
      <3>2. IsFiniteSet(1 .. failures)
        BY <3>1, FS_Interval
      <3> QED
        BY <3>1, <3>2, FS_Subset
    <2> QED
      BY <2>1
  <1>2. ASSUME NEW cs \in SUBSET Components, Start(cs)
        PROVE  FailuresAreCounted' /\ CrashLoopIsKnown' /\ CrashLoopIsFinal'
    <2>1. /\ UNCHANGED <<security, journal, failures, oldest, failed>>
          /\ crashTimes' = [c \in Components |-> {n \in oldest .. failures : <<c, n>> \in journal}]
          /\ supervised = {}
          /\ \A c \in Components :
                 monitor'[c] # monitor[c] => ~(security.safeMode /\ c \in Critical)
      BY <1>2 DEF Start, Launching
    <2>2. \A c \in Components : Recent(c)' = Recent(c)
      BY <2>1 DEF Recent
    <2>3. FailuresAreCounted'
      <3>1. ASSUME NEW c \in Components, NEW n \in failed[c], n >= oldest
            PROVE  n \in oldest .. failures /\ <<c, n>> \in journal
        BY <3>1 DEF SupervisorTypeInv, FailuresAreCounted
      <3> QED
        BY <2>1, <2>2, <3>1 DEF FailuresAreCounted, Recent
    <2>4. CrashLoopIsKnown'
      BY <1>0, <2>1, <2>2 DEF CrashLoopIsKnown, CrashLoop
    <2>5. CrashLoopIsFinal'
      BY <1>0, <2>1, <2>2 DEF CrashLoopIsKnown, CrashLoopIsFinal, CrashLoop
    <2> QED
      BY <2>3, <2>4, <2>5
  <1>3. CASE RestoreTrusted
    <2>1. /\ \A c \in Components : failed'[c] = {} /\ monitor'[c] = "off"
      BY <1>3 DEF RestoreTrusted, NothingIsLeft
    <2>2. \A c \in Components : Recent(c)' = {} /\ ~CrashLoop(Recent(c)')
      BY <2>1, NoCrashLoopWithoutFailure DEF Recent
    <2> QED
      BY <1>0, <2>1, <2>2 DEF FailuresAreCounted, CrashLoopIsKnown, CrashLoopIsFinal, CrashLoop
  <1>4. ASSUME NEW c \in Components, Fails(c)
        PROVE  FailuresAreCounted' /\ CrashLoopIsKnown' /\ CrashLoopIsFinal'
    <2>1. PICK stable \in BOOLEAN :
             /\ crashTimes' = [crashTimes EXCEPT ![c] = Counted(c, stable)]
             /\ failed' = [failed EXCEPT ![c] =
                    {failures + 1} \cup (IF stable THEN {} ELSE @)]
             /\ security' = SecurityAfter(c, Counted(c, stable))
             /\ monitor' = [monitor EXCEPT ![c] =
                    IF CrashLoop(Counted(c, stable)) THEN "ended" ELSE "backoff"]
      BY <1>4 DEF Fails
    <2>2. /\ oldest' = oldest /\ Ended(c)
          /\ journal' = journal \cup {<<c, failures + 1>>}
      BY <1>4 DEF Fails
    <2>3. Recent(c) \subseteq crashTimes[c]
      BY <2>2 DEF FailuresAreCounted, Ended, Known
    <2>4. Recent(c)' \subseteq Counted(c, stable)
      BY <2>1, <2>2, <2>3 DEF Recent, Counted, SupervisorTypeInv
    <2>5. \A d \in Components \ {c} :
             Recent(d)' = Recent(d) /\ failed'[d] = failed[d] /\ monitor'[d] = monitor[d]
                 /\ crashTimes'[d] = crashTimes[d]
      BY <2>1, <2>2 DEF Recent, SupervisorTypeInv
    <2>6. FailuresAreCounted'
      <3>1. \A n \in failed'[c] : <<c, n>> \in journal'
        BY <2>1, <2>2 DEF FailuresAreCounted, SupervisorTypeInv
      <3>2. Recent(c)' \subseteq crashTimes'[c]
        BY <2>1, <2>4 DEF SupervisorTypeInv
      <3>3. \A d \in Components \ {c} : \A n \in failed'[d] : <<d, n>> \in journal'
        BY <2>2, <2>5 DEF FailuresAreCounted
      <3>4. \A d \in Components \ {c} :
               monitor'[d] \notin {"off", "ended"} => Recent(d)' \subseteq crashTimes'[d]
        BY <2>5 DEF FailuresAreCounted
      <3> QED
        BY <3>1, <3>2, <3>3, <3>4 DEF FailuresAreCounted
    <2>7. IsFiniteSet(Counted(c, stable))
      <3>1. failures + 1 \in Nat
        BY DEF SupervisorTypeInv
      <3>2. IsFiniteSet(1 .. failures + 1)
        BY <3>1, FS_Interval
      <3> QED
        BY <3>2, CountedIsTyped, FS_Subset
    <2>8. CrashLoop(Recent(c)') => CrashLoop(Counted(c, stable))
      BY <2>4, <2>7, MoreIsACrashLoop
    <2>9. /\ security.safeMode => security'.safeMode
          /\ c \in Critical /\ CrashLoop(Counted(c, stable)) => security'.safeMode
      BY <2>1, SecurityIsTyped DEF SupervisorTypeInv
    <2>10. CrashLoopIsKnown'
      BY <1>0, <2>5, <2>8, <2>9 DEF CrashLoopIsKnown, CrashLoop
    <2>11. CrashLoopIsFinal'
      <3>1. CrashLoop(Recent(c)') => monitor'[c] = "ended"
        BY <2>1, <2>8 DEF SupervisorTypeInv
      <3> QED
        BY <1>0, <2>5, <3>1 DEF CrashLoopIsFinal, CrashLoop
    <2> QED
      BY <2>6, <2>10, <2>11
  <1>5. CASE /\ ~Start(Components) /\ ~Start(Components \cap Critical) /\ ~RestoreTrusted
             /\ ~(\E c \in Components : Fails(c))
    <2>1. /\ UNCHANGED <<failed, journal, failures>>
          /\ oldest' >= oldest
          /\ security.safeMode => security'.safeMode
          /\ \A c \in Components :
                 monitor'[c] \notin {"off", "ended"} =>
                     monitor[c] \notin {"off", "ended"} /\ crashTimes'[c] = crashTimes[c]
      BY <1>5, FailuresKept
    <2>2. \A c \in Components : Recent(c)' \subseteq Recent(c)
      BY <2>1 DEF Recent, SupervisorTypeInv
    <2>3. \A c \in Components : CrashLoop(Recent(c)') => CrashLoop(Recent(c))
      BY <1>1, <2>2, MoreIsACrashLoop
    <2>4. FailuresAreCounted'
      BY <2>1, <2>2 DEF FailuresAreCounted
    <2>5. CrashLoopIsKnown' /\ CrashLoopIsFinal'
      BY <1>0, <2>1, <2>3 DEF CrashLoopIsKnown, CrashLoopIsFinal, CrashLoop
    <2> QED
      BY <2>4, <2>5
  <1>6. Components \in SUBSET Components /\ Components \cap Critical \in SUBSET Components
    OBVIOUS
  <1> QED
    BY <1>2, <1>3, <1>4, <1>5, <1>6

LEMMA SupervisorStepKeeps ==
    SupervisorInv /\ [SupervisorNext]_superVars => SupervisorInv'
PROOF
  BY SupervisorTypeStep, MarksStep, CrashLoopStep DEF SupervisorInv, SupervisionIsSound

\* For any components, budgets and windows, and however many supervisors follow
\* each other: a mark for a planned restart excuses the end it was meant for, and
\* a critical component in a crash loop stays down until the operator restores it
\* (manager.py _monitor, persistence.py enter_safe_mode).
THEOREM SupervisionStaysSound == SupervisorSpec => []SupervisionIsSound
PROOF
  <1>1. SupervisorInv => SupervisionIsSound
    BY DEF SupervisorInv
  <1> QED
    BY <1>1, SupervisorStarts, SupervisorStepKeeps, PTL DEF SupervisorSpec

-----------------------------------------------------------------------------
(* Updates *)

\* What is persisted of a rollback that failed is never revised.
StaysFailed == RollbackFailed => RollbackFailed'

\* cleanup_failed only removes versions, and none that is to be kept.
LEMMA CleanupFacts ==
    ASSUME NEW keep, Cleanup(keep)
    PROVE  staged' \subseteq staged /\ staged \cap keep \subseteq staged'
PROOF
  BY DEF Cleanup

\* A transaction moves to a state of its own, and what else is known of the
\* transactions stays.
LEMMA PersistFacts ==
    ASSUME UpdateTypeInv, NEW t \in Transactions, NEW s \in States, Persist(t, s)
    PROVE  /\ tx' \in [Transactions -> [state : States, previous : 0 .. MaxUpdates,
                                        activated : BOOLEAN]]
           /\ tx'[t].state = s
           /\ \A u \in Transactions \ {t} : tx'[u] = tx[u]
           /\ \A u \in Transactions : tx'[u].previous = tx[u].previous
                                      /\ tx'[u].activated = tx[u].activated
PROOF
  BY DEF Persist, UpdateTypeInv

\* A failure that is persisted stays so as long as only other transactions move.
LEMMA MoveStaysFailed ==
    ASSUME NEW t \in Transactions, tx[t].state # "FAILED",
           \A u \in Transactions \ {t} : tx'[u] = tx[u]
    PROVE  StaysFailed
PROOF
  BY DEF StaysFailed, RollbackFailed, Transactions

\* The call is about the same transaction and goes the same way.
Moved(pc) ==
    /\ call.pc # "none" /\ call'.pc = pc
    /\ call'.tx = call.tx /\ call'.back = call.back
    /\ call \in Calls /\ call' \in Calls

LEMMA GoFacts ==
    ASSUME UpdateTypeInv, NEW pc \in Pcs, call.pc # "none", Go(pc)
    PROVE  Moved(pc)
PROOF
  BY DEF UpdateTypeInv, Go, Moved, Calls, NoCall

LEMMA BrokenFacts ==
    ASSUME UpdateTypeInv, call.pc # "none", Broken("switch") \/ Broken("restart")
                                            \/ Broken("health") \/ Broken("target")
    PROVE  Moved("fail") \/ Moved("rollback")
PROOF
  <1>1. CASE ~call.back
    BY <1>1, GoFacts DEF Broken, Pcs
  <1>2. CASE call.back
    <2>1. PICK cause \in {"switch", "restart", "health", "target"} :
              call' = [call EXCEPT !.pc = "fail", !.cause = cause]
      BY <1>2 DEF Broken
    <2>2. call \in Calls
      BY DEF UpdateTypeInv, NoCall
    <2>3. Moved("fail")
      BY <2>1, <2>2 DEF Moved, Calls, Pcs
    <2> QED
      BY <2>3
  <1> QED
    BY <1>1, <1>2

LEMMA RestartedFacts ==
    ASSUME UpdateTypeInv, Restarted
    PROVE  Moved("observe")
PROOF
  <1>1. call.pc = "restart" /\ call \in Calls
    BY DEF UpdateTypeInv, Restarted, NoCall
  <1>2. call' = [call EXCEPT !.pc = "observe", !.ran = TRUE] /\ "observe" \in Pcs
    BY DEF Restarted, Pcs, Found, Pointed, Registered
  <1> QED
    BY <1>1, <1>2 DEF Moved, Calls

\* Revoking and entering safe mode keep the shape of the security state.
LEMMA SecurityTypes ==
    ASSUME StoreTypeInv
    PROVE  Revoked(security) \in [epoch : Nat, revoked : BOOLEAN, safeMode : BOOLEAN]
           /\ InSafeMode(security) \in [epoch : Nat, revoked : BOOLEAN, safeMode : BOOLEAN]
PROOF
  <1> DEFINE Security == [epoch : Nat, revoked : BOOLEAN, safeMode : BOOLEAN]
  <1>1. \A s \in Security : Revoked(s) \in Security
    <2> TAKE s \in Security
    <2>1. [s EXCEPT !.epoch = s.epoch + 1] \in Security
      OBVIOUS
    <2> QED
      BY <2>1 DEF Revoked
  <1>2. \A s \in Security : [s EXCEPT !.safeMode = TRUE] \in Security
    OBVIOUS
  <1> HIDE DEF Security
  <1>3. security \in Security
    BY DEF StoreTypeInv, Security
  <1>4. Revoked(security) \in Security
    BY <1>1, <1>3
  <1>5. InSafeMode(security) \in Security
    <2> DEFINE s == IF security.revoked THEN security ELSE Revoked(security)
    <2>1. s \in Security
      BY <1>3, <1>4
    <2> QED
      BY <2>1, <1>2 DEF InSafeMode
  <1> QED
    BY <1>4, <1>5 DEF Security

\* Steps of a call that change no transaction: the call moves on among the
\* stages of an activation or a rollback.
LEMMA StageKeeps ==
    ASSUME MaxUpdates \in Nat, UpdateInv,
           call.pc \notin {"none", "prepare", "safe"},
           UNCHANGED <<tx, staged, changed>>,
           NEW pc \in Pcs \ {"prepare", "safe"}, Moved(pc),
           StoreTypeInv',
           pointer' = pointer \/ (pointer' = Target /\ call.pc = "switch"),
           \/ registry' = registry
           \/ /\ registry' \in [active : 0 .. MaxUpdates, lastKnownGood : 0 .. MaxUpdates]
              /\ ~RollbackFailed => registry'.lastKnownGood \in proven',
           proven \subseteq proven' /\ proven' \subseteq 0 .. MaxUpdates,
           ~RollbackFailed => SwitchIsOrdered'
    PROVE  UpdateInv'
PROOF
  <1>1. UpdateTypeInv /\ OneIsUnfinished /\ call.tx \in Transactions
    BY DEF UpdateInv, UpdateTypeInv, Moved, Calls
  <1>2. Target \in 0 .. MaxUpdates
    BY <1>1 DEF Target, UpdateTypeInv, Transactions
  <1>3. UpdateTypeInv'
    BY <1>1, <1>2 DEF UpdateTypeInv, Moved
  <1>4. OneIsUnfinished'
    BY <1>1 DEF OneIsUnfinished, Unfinished, Moved
  <1>5. RollbackFailed' <=> RollbackFailed
    BY DEF RollbackFailed
  <1>6. tx[call.tx].state \in Ambiguous
    BY <1>1 DEF OneIsUnfinished
  <1>7. ~RollbackFailed => VersionsWereObserved'
    BY <1>1, <1>6 DEF UpdateInv, VersionsWereObserved
  <1> QED
    BY <1>3, <1>4, <1>5, <1>7 DEF UpdateInv

LEMMA StageSteps ==
    ASSUME MaxUpdates \in Nat, UpdateInv,
           \/ SwitchPointer \/ Register \/ Accept \/ CheckTarget
           \/ Restarted \/ RestartRaises \/ Stable \/ Rejected
    PROVE  UpdateInv'
PROOF
  <1> USE DEF Found, Pointed, Registered, Pcs
  <1>1. /\ UpdateTypeInv /\ OneIsUnfinished
        /\ call.pc # "none" => call.tx \in Transactions
        /\ ~RollbackFailed => VersionsWereObserved /\ SwitchIsOrdered
    BY DEF UpdateInv, UpdateTypeInv, Calls, NoCall
  <1> DEFINE Kept == /\ call.pc \notin {"none", "prepare", "safe"}
                     /\ UNCHANGED <<tx, staged, changed>>
                     /\ StoreTypeInv'
                     /\ proven \subseteq proven' /\ proven' \subseteq 0 .. MaxUpdates
  <1>2. CASE SwitchPointer
    <2>1. Kept /\ (pointer' = pointer \/ pointer' = Target) /\ registry' = registry
      BY <1>1, <1>2 DEF SwitchPointer, UpdateTypeInv, StoreTypeInv, storeVars
    <2>2. Moved("fail") \/ Moved("rollback") \/ (Moved("register") /\ pointer' = Target)
      BY <1>1, <1>2, GoFacts, BrokenFacts DEF SwitchPointer
    <2>3. ~RollbackFailed => SwitchIsOrdered'
      BY <1>1, <1>2, <2>1, <2>2 DEF SwitchPointer, SwitchIsOrdered, Target, Moved
    <2> QED
      BY <1>2, <2>1, <2>2, <2>3, StageKeeps DEF SwitchPointer
  <1>3. CASE Register
    <2>1. Kept /\ pointer' = pointer
      BY <1>1, <1>3 DEF Register, UpdateTypeInv, StoreTypeInv, storeVars
    <2>2. Target \in 0 .. MaxUpdates
      BY <1>1, <1>3 DEF Register, Target, UpdateTypeInv, Transactions
    <2>3. registry' \in [active : 0 .. MaxUpdates, lastKnownGood : 0 .. MaxUpdates]
      BY <1>1, <1>3, <2>2 DEF Register, UpdateTypeInv
    <2>4. ~RollbackFailed => registry'.lastKnownGood \in proven'
      BY <1>1, <1>3 DEF Register, VersionsWereObserved, Target
    <2>5. Moved("restart") \/ Moved("mark")
      <3>1. CASE call.back
        BY <1>1, <1>3, <3>1, GoFacts DEF Register
      <3>2. CASE ~call.back
        BY <1>1, <1>3, <3>2, GoFacts DEF Register
      <3> QED
        BY <3>1, <3>2
    <2>6. ~RollbackFailed => SwitchIsOrdered'
      BY <1>1, <1>3, <2>1, <2>5 DEF Register, SwitchIsOrdered, Target, Moved
    <2> QED
      BY <2>1, <2>3, <2>4, <2>5, <2>6, StageKeeps
  <1>4. CASE Accept
    <2>1. Kept /\ pointer' = pointer
      BY <1>1, <1>4 DEF Accept, UpdateTypeInv, StoreTypeInv, storeVars, Transactions
    <2>2. /\ registry' \in [active : 0 .. MaxUpdates, lastKnownGood : 0 .. MaxUpdates]
          /\ ~RollbackFailed => registry'.lastKnownGood \in proven'
      BY <1>1, <1>4 DEF Accept, UpdateTypeInv, VersionsWereObserved, Transactions
    <2>3. Moved("rollback") \/ (Moved("commit") /\ registry'.active = call.tx
                                              /\ call.tx \in proven' /\ ~call.back)
      BY <1>1, <1>4, GoFacts DEF Accept
    <2>4. ~RollbackFailed => SwitchIsOrdered'
      BY <1>1, <1>4, <2>1, <2>3 DEF Accept, SwitchIsOrdered, Target, Moved
    <2> QED
      BY <2>1, <2>2, <2>3, <2>4, StageKeeps
  <1>5. CASE CheckTarget
    <2>1. Kept /\ pointer' = pointer /\ registry' = registry
      <3>1. StoreTypeInv'
        BY <1>1, <1>5, SecurityTypes DEF CheckTarget, UpdateTypeInv, StoreTypeInv, storeVars
      <3> QED
        BY <1>1, <1>5, <3>1 DEF CheckTarget, UpdateTypeInv
    <2>2. Moved("fail") \/ Moved("rollback") \/ (Moved("switch") /\ Target \in staged)
      BY <1>1, <1>5, GoFacts, BrokenFacts DEF CheckTarget
    <2>3. ~RollbackFailed => SwitchIsOrdered'
      BY <1>1, <1>5, <2>1, <2>2 DEF CheckTarget, SwitchIsOrdered, Target, Moved
    <2> QED
      BY <2>1, <2>2, <2>3, StageKeeps
  <1>6. CASE Restarted \/ RestartRaises \/ Stable \/ Rejected
    <2> USE DEF Restarted, RestartRaises, Stable, Rejected, NothingPersisted
    <2>1. Kept /\ pointer' = pointer /\ registry' = registry
      BY <1>1, <1>6 DEF UpdateTypeInv, StoreTypeInv, storeVars
    <2>2. \/ Moved("fail") \/ Moved("rollback")
          \/ Moved("observe") /\ call.pc = "restart"
          \/ Moved("accepted") /\ call.pc = "observe"
      <3>1. CASE Restarted
        BY <1>1, <3>1, RestartedFacts
      <3>2. CASE Stable
        BY <1>1, <3>2, GoFacts
      <3>3. CASE RestartRaises \/ Rejected
        BY <1>1, <3>3, BrokenFacts
      <3> QED
        BY <1>6, <3>1, <3>2, <3>3
    <2>3. ~RollbackFailed => SwitchIsOrdered'
      BY <1>1, <1>6, <2>1, <2>2 DEF SwitchIsOrdered, Target, Moved
    <2> QED
      BY <2>1, <2>2, <2>3, StageKeeps
  <1> QED
    BY <1>2, <1>3, <1>4, <1>5, <1>6

-----------------------------------------------------------------------------
\* A transaction that ends or goes on is the unfinished one.
LEMMA TransitionKeeps ==
    ASSUME MaxUpdates \in Nat, UpdateInv, NEW t \in Transactions,
           tx' \in [Transactions -> [state : States, previous : 0 .. MaxUpdates,
                                    activated : BOOLEAN]],
           \A u \in Transactions \ {t} : tx'[u] = tx[u],
           tx[t].state # "FAILED",
           Unfinished \subseteq {t},
           tx'[t].state \in Ambiguous => tx'[t].activated,
           call'.pc \notin {"none", "safe"} =>
               /\ call'.tx = t
               /\ tx'[t].state \in IF call'.pc = "prepare" THEN Preparing ELSE Ambiguous
    PROVE  OneIsUnfinished' /\ StaysFailed
PROOF
  <1>1. StaysFailed
    BY MoveStaysFailed
  <1>2. Unfinished' \subseteq {t}
    BY DEF Unfinished
  <1>3. \A u \in Transactions : tx'[u].state \in Ambiguous => tx'[u].activated
    BY DEF UpdateInv, OneIsUnfinished
  <1> QED
    BY <1>1, <1>2, <1>3 DEF OneIsUnfinished

\* A call begins with a pc of its own, for a transaction that is there.
LEMMA FirstCalls ==
    ASSUME MaxUpdates \in Nat, NEW t \in Transactions, NEW b \in 0 .. MaxUpdates
    PROVE  /\ [pc |-> "prepare", tx |-> t, back |-> FALSE, before |-> 0,
               ran |-> FALSE, cause |-> "none"] \in Calls
           /\ [pc |-> "switch", tx |-> t, back |-> FALSE, before |-> b,
               ran |-> FALSE, cause |-> "none"] \in Calls
           /\ [pc |-> "rollback", tx |-> t, back |-> FALSE, before |-> b,
               ran |-> FALSE, cause |-> "none"] \in Calls
PROOF
  <1>1. 0 \in 0 .. MaxUpdates
    OBVIOUS
  <1>2. {"prepare", "switch", "rollback"} \subseteq Pcs
    BY DEF Pcs, Found
  <1> QED
    BY <1>1, <1>2 DEF Calls

\* When a call goes on, its transaction is the unfinished one.
LEMMA CallIsAboutUnfinished ==
    ASSUME UpdateInv, call.pc \notin {"none", "safe"}
    PROVE  /\ call.tx \in Transactions /\ Unfinished = {call.tx}
           /\ tx[call.tx].state \notin {"FAILED", "NONE", "READY"}
PROOF
  BY DEF UpdateInv, UpdateTypeInv, OneIsUnfinished, Unfinished, Preparing, Ambiguous, Calls, NoCall

LEMMA PrepareKeeps ==
    ASSUME MaxUpdates \in Nat, UpdateInv, NEW t \in Transactions, Prepare(t)
    PROVE  UpdateInv'
PROOF
  <1> USE DEF Prepare, Idling, Pcs
  <1>1. /\ UpdateTypeInv /\ OneIsUnfinished
        /\ ~RollbackFailed => VersionsWereObserved /\ SwitchIsOrdered
    BY DEF UpdateInv
  <1> DEFINE fresh == [state |-> "CREATED", previous |-> registry.active, activated |-> FALSE]
  <1>2. fresh \in [state : States, previous : 0 .. MaxUpdates, activated : BOOLEAN]
    <2>1. registry.active \in 0 .. MaxUpdates
      BY <1>1 DEF UpdateTypeInv
    <2>2. "CREATED" \in States
      BY DEF States, Preparing
    <2> QED
      BY <2>1, <2>2
  <1>0. tx' = [tx EXCEPT ![t] = fresh]
    OBVIOUS
  <1> HIDE DEF fresh
  <1>3. /\ tx' \in [Transactions -> [state : States, previous : 0 .. MaxUpdates,
                                    activated : BOOLEAN]]
        /\ tx'[t] = fresh /\ \A u \in Transactions \ {t} : tx'[u] = tx[u]
    BY <1>0, <1>1, <1>2 DEF UpdateTypeInv
  <1>4. call' = [pc |-> "prepare", tx |-> t, back |-> FALSE, before |-> 0,
                 ran |-> FALSE, cause |-> "none"]
    BY DEF NoCall
  <1>5. Unfinished = {}
    BY DEF Unfinished, Recovered
  <1>6. OneIsUnfinished' /\ StaysFailed
    BY <1>3, <1>4, <1>5, TransitionKeeps DEF Preparing, Ambiguous, fresh
  <1>7. UpdateTypeInv'
    <2>1. call' \in Calls
      BY <1>1, <1>4, FirstCalls, ZenonT(60) DEF UpdateTypeInv
    <2> QED
      BY <1>1, <1>3, <2>1 DEF UpdateTypeInv, StoreTypeInv, storeVars
  <1>8. ~RollbackFailed => VersionsWereObserved'
    BY <1>1, <1>3, <1>5 DEF VersionsWereObserved, Unfinished, fresh
  <1>9. SwitchIsOrdered'
    BY <1>4 DEF SwitchIsOrdered, Found, Pointed, Registered
  <1> QED
    BY <1>6, <1>7, <1>8, <1>9 DEF UpdateInv, StaysFailed

LEMMA PrepareStepKeeps ==
    ASSUME MaxUpdates \in Nat, UpdateInv, PrepareStep
    PROVE  UpdateInv'
PROOF
  <1> DEFINE t == call.tx
  <1>1. /\ UpdateTypeInv /\ OneIsUnfinished
        /\ ~RollbackFailed => VersionsWereObserved /\ SwitchIsOrdered
    BY DEF UpdateInv
  <1>2. /\ call.pc = "prepare" /\ t \in Transactions /\ tx[t].state \in Preparing
        /\ Unfinished = {t} /\ tx[t].state # "FAILED"
    BY <1>1, CallIsAboutUnfinished DEF PrepareStep, OneIsUnfinished
  <1>3. PICK s \in States :
            /\ Persist(t, s)
            /\ \/ tx[t].state # "VALIDATING" /\ s \in Preparing /\ call' = call
               \/ tx[t].state = "VALIDATING" /\ s = "READY" /\ call' = NoCall
    BY <1>2 DEF PrepareStep, States, Preparing
  <1>4. /\ staged \subseteq staged' /\ staged' \subseteq staged \cup {t}
        /\ UNCHANGED <<storeVars, pointer, registry, changed, proven, losses>>
    BY DEF PrepareStep
  <1> HIDE DEF t
  <1>5. /\ tx' \in [Transactions -> [state : States, previous : 0 .. MaxUpdates,
                                    activated : BOOLEAN]]
        /\ tx'[t].state = s
        /\ \A u \in Transactions \ {t} : tx'[u] = tx[u]
        /\ \A u \in Transactions : tx'[u].previous = tx[u].previous
    BY <1>1, <1>2, <1>3, PersistFacts
  <1>6. s \notin Ambiguous
    BY <1>3 DEF Preparing, Ambiguous
  <1>7. OneIsUnfinished' /\ StaysFailed
    <2>1. call'.pc \notin {"none", "safe"} =>
             /\ call'.tx = t /\ tx'[t].state \in IF call'.pc = "prepare" THEN Preparing
                                                                      ELSE Ambiguous
      BY <1>2, <1>3, <1>5 DEF NoCall, t
    <2> QED
      BY <1>2, <1>5, <1>6, <2>1, TransitionKeeps
  <1>8. UpdateTypeInv'
    <2>1. staged' \subseteq 0 .. MaxUpdates
      BY <1>1, <1>2, <1>4 DEF UpdateTypeInv, Transactions
    <2> QED
      BY <1>1, <1>3, <1>4, <1>5, <2>1 DEF UpdateTypeInv, StoreTypeInv, storeVars
  <1>9. ~RollbackFailed => VersionsWereObserved'
    <2>1. \A u \in Transactions : tx[u].state \notin Ambiguous
      BY <1>2 DEF Unfinished, Preparing, Ambiguous
    <2> QED
      BY <1>1, <1>4, <1>5, <2>1 DEF VersionsWereObserved
  <1>10. SwitchIsOrdered'
    BY <1>2, <1>3 DEF SwitchIsOrdered, Found, Pointed, Registered, NoCall
  <1> QED
    BY <1>7, <1>8, <1>9, <1>10 DEF UpdateInv, StaysFailed

\* A step that persists a new state of one transaction keeps the types and the one
\* unfinished transaction.
LEMMA PersistKeeps ==
    ASSUME MaxUpdates \in Nat, UpdateInv,
           NEW t \in Transactions, NEW s \in States, Persist(t, s),
           tx[t].state # "FAILED", Unfinished \subseteq {t},
           s \in Ambiguous => tx[t].activated,
           call' \in Calls \cup {NoCall},
           call'.pc \notin {"none", "safe"} =>
               call'.tx = t /\ s \in IF call'.pc = "prepare" THEN Preparing ELSE Ambiguous,
           staged' \subseteq staged, StoreTypeInv',
           UNCHANGED <<pointer, registry, changed, proven>>
    PROVE  /\ UpdateTypeInv' /\ OneIsUnfinished' /\ StaysFailed
           /\ tx'[t].state = s
           /\ \A u \in Transactions \ {t} : tx'[u].state = tx[u].state
           /\ \A u \in Transactions : tx'[u].previous = tx[u].previous
                                      /\ tx'[u].activated = tx[u].activated
PROOF
  <1>1. UpdateTypeInv
    BY DEF UpdateInv
  <1>2. /\ tx' \in [Transactions -> [state : States, previous : 0 .. MaxUpdates,
                                    activated : BOOLEAN]]
        /\ tx'[t].state = s
        /\ \A u \in Transactions \ {t} : tx'[u] = tx[u]
        /\ \A u \in Transactions : tx'[u].previous = tx[u].previous
                                   /\ tx'[u].activated = tx[u].activated
    BY <1>1, PersistFacts
  <1>3. OneIsUnfinished' /\ StaysFailed
    BY <1>2, TransitionKeeps
  <1>4. UpdateTypeInv'
    BY <1>1, <1>2 DEF UpdateTypeInv
  <1> QED
    BY <1>2, <1>3, <1>4

\* A call that ends leaves no call, and nothing is being switched.
LEMMA NoSwitch ==
    ASSUME call'.pc \notin Found
    PROVE  SwitchIsOrdered'
PROOF
  BY DEF SwitchIsOrdered, Found, Pointed, Registered

\* The ends of a call: what was prepared, committed or rolled back.
LEMMA EndsKeep ==
    ASSUME MaxUpdates \in Nat, UpdateInv, PrepareFails \/ Commit \/ RolledBack
    PROVE  UpdateInv'
PROOF
  <1> DEFINE t == call.tx
  <1>1. /\ UpdateTypeInv /\ OneIsUnfinished
        /\ ~RollbackFailed => VersionsWereObserved /\ SwitchIsOrdered
    BY DEF UpdateInv
  <1>2. /\ t \in Transactions /\ Unfinished = {t} /\ tx[t].state # "FAILED"
        /\ call.pc = "prepare" => tx[t].state \in Preparing
    BY <1>1, CallIsAboutUnfinished DEF PrepareFails, Commit, RolledBack, OneIsUnfinished
  <1>3. PICK s \in {"FAILED", "COMMITTED", "ROLLED_BACK"} : Persist(t, s)
    BY DEF PrepareFails, Commit, RolledBack
  <1>4. /\ UNCHANGED <<pointer, registry, changed, proven, storeVars>>
        /\ call' = NoCall
    BY DEF PrepareFails, Commit, RolledBack
  <1>5. staged' \subseteq staged
    BY CleanupFacts DEF PrepareFails, Commit, RolledBack
  <1>6. s \in States /\ s \notin Ambiguous
    BY DEF States, Ambiguous
  <1>7. /\ UpdateTypeInv' /\ OneIsUnfinished' /\ StaysFailed
        /\ tx'[t].state = s
        /\ \A u \in Transactions \ {t} : tx'[u].state = tx[u].state
        /\ \A u \in Transactions : tx'[u].previous = tx[u].previous
    <2>1. call'.pc = "none" /\ call' \in Calls \cup {NoCall} /\ StoreTypeInv'
      BY <1>1, <1>4 DEF NoCall, UpdateTypeInv, StoreTypeInv, storeVars
    <2> HIDE DEF t
    <2> QED
      BY <1>2, <1>3, <1>4, <1>5, <1>6, <2>1, PersistKeeps
  <1>8. ASSUME ~RollbackFailed
        PROVE  registry.active \in staged' \cap proven /\ pointer = registry.active
    <2>1. VersionsWereObserved /\ SwitchIsOrdered
      BY <1>1, <1>8
    <2>2. CASE PrepareFails
      <3>1. \A u \in Transactions : tx[u].state \notin Ambiguous
        BY <1>2, <2>2 DEF PrepareFails, Unfinished, Preparing, Ambiguous
      <3>2. registry.active \in staged \cap proven /\ pointer = registry.active
        BY <2>1, <3>1 DEF VersionsWereObserved
      <3>3. staged \cap {registry.active, registry.lastKnownGood} \subseteq staged'
        BY <2>2, CleanupFacts DEF PrepareFails
      <3> QED
        BY <3>2, <3>3
    <2>3. CASE Commit
      <3>1. /\ pointer = t /\ registry.active = t /\ t \in staged \cap proven
        BY <2>1, <2>3 DEF Commit, SwitchIsOrdered, Target, Found, Pointed, Registered
      <3>2. staged \cap {t, call.before} \subseteq staged'
        BY <2>3, CleanupFacts DEF Commit
      <3> QED
        BY <3>1, <3>2
    <2>4. CASE RolledBack
      <3>1. /\ pointer = Target /\ registry.active = Target /\ Target \in staged
            /\ Target = tx[t].previous
        BY <2>1, <2>4 DEF RolledBack, SwitchIsOrdered, Target, Found, Pointed, Registered
      <3>2. staged \cap {Target, t} \subseteq staged'
        BY <2>4, CleanupFacts DEF RolledBack
      <3>3. Target \in proven
        BY <1>2, <2>1, <3>1 DEF VersionsWereObserved
      <3> QED
        BY <3>1, <3>2, <3>3
    <2> QED
      BY <2>2, <2>3, <2>4
  <1>9. ~RollbackFailed => VersionsWereObserved'
    BY <1>1, <1>4, <1>7, <1>8 DEF VersionsWereObserved
  <1>10. SwitchIsOrdered'
    BY <1>4, NoSwitch DEF NoCall, Found, Pointed, Registered
  <1> QED
    BY <1>7, <1>9, <1>10 DEF UpdateInv, StaysFailed

\* The steps of a call that persist where an activation or a rollback is.
LEMMA MarksKeep ==
    ASSUME MaxUpdates \in Nat, UpdateInv, MarkObserving \/ BeginRollback \/ FailRollback
    PROVE  UpdateInv'
PROOF
  <1> DEFINE t == call.tx
  <1>1. /\ UpdateTypeInv /\ OneIsUnfinished
        /\ ~RollbackFailed => VersionsWereObserved /\ SwitchIsOrdered
    BY DEF UpdateInv
  <1>2. /\ t \in Transactions /\ Unfinished = {t} /\ tx[t].state # "FAILED"
        /\ tx[t].state \in Ambiguous /\ tx[t].activated
        /\ call \in Calls
    BY <1>1, CallIsAboutUnfinished
       DEF MarkObserving, BeginRollback, FailRollback, OneIsUnfinished, UpdateTypeInv, NoCall
  <1>3. PICK s \in {"OBSERVING", "ROLLING_BACK", "FAILED"} :
            /\ Persist(t, s)
            /\ s = "FAILED" => FailRollback
            /\ s # "FAILED" => MarkObserving \/ BeginRollback
    BY DEF MarkObserving, BeginRollback, FailRollback
  <1>4. UNCHANGED <<storeVars, pointer, registry, staged, changed, proven>>
    BY DEF MarkObserving, BeginRollback, FailRollback
  <1>5. /\ call' \in Calls /\ call'.tx = t
        /\ \/ MarkObserving /\ call'.pc = "restart" /\ call'.back = call.back
           \/ BeginRollback /\ call'.pc = "target"
           \/ FailRollback /\ call'.pc = "safe"
    BY <1>2 DEF MarkObserving, BeginRollback, FailRollback, Go, Calls, Pcs, Found, Pointed,
                Registered
  <1>6. s \in States /\ (s # "FAILED" => s \in Ambiguous)
    BY DEF States, Ambiguous
  <1>7. call'.pc \notin {"none", "safe"} => s \in Ambiguous /\ call'.pc # "prepare"
    BY <1>3, <1>5, <1>6 DEF MarkObserving, BeginRollback, FailRollback
  <1>8. /\ UpdateTypeInv' /\ OneIsUnfinished' /\ StaysFailed
        /\ tx'[t].state = s
        /\ \A u \in Transactions \ {t} : tx'[u].state = tx[u].state
        /\ \A u \in Transactions : tx'[u].previous = tx[u].previous
                                   /\ tx'[u].activated = tx[u].activated
    <2>1. StoreTypeInv' /\ staged' \subseteq staged
      BY <1>1, <1>4 DEF UpdateTypeInv, StoreTypeInv, storeVars
    <2> HIDE DEF t
    <2> QED
      BY <1>2, <1>3, <1>4, <1>5, <1>6, <1>7, <2>1, PersistKeeps
  <1>9. CASE s = "FAILED"
    <2>1. RollbackFailed'
      BY <1>2, <1>8, <1>9 DEF RollbackFailed
    <2> QED
      BY <1>8, <2>1 DEF UpdateInv
  <1>10. CASE s # "FAILED"
    <2>1. ~RollbackFailed => VersionsWereObserved'
      BY <1>1, <1>2, <1>4, <1>6, <1>8, <1>10 DEF VersionsWereObserved
    <2>2. ~RollbackFailed => SwitchIsOrdered'
      <3>1. CASE MarkObserving
        BY <1>1, <1>2, <1>4, <1>5, <1>8, <3>1
           DEF MarkObserving, BeginRollback, FailRollback, SwitchIsOrdered, Target, Found,
               Pointed, Registered
      <3>2. CASE ~MarkObserving
        BY <1>5, <3>2, NoSwitch DEF Found, Pointed, Registered
      <3> QED
        BY <3>1, <3>2
    <2> QED
      BY <1>8, <2>1, <2>2 DEF UpdateInv, StaysFailed
  <1> QED
    BY <1>9, <1>10

LEMMA ActivateKeeps ==
    ASSUME MaxUpdates \in Nat, UpdateInv, NEW t \in Transactions, Activate(t)
    PROVE  UpdateInv'
PROOF
  <1>1. /\ UpdateTypeInv /\ OneIsUnfinished
        /\ ~RollbackFailed => VersionsWereObserved /\ SwitchIsOrdered
    BY DEF UpdateInv
  <1>2. /\ call.pc = "none" /\ Unfinished = {} /\ tx[t].state = "READY" /\ t \in staged
        /\ \A u \in Transactions : tx[u].state \notin Ambiguous
        /\ UNCHANGED <<pointer, registry, staged, changed, proven>>
    BY DEF Activate, Idling, Recovered, Unfinished
  <1>3. StoreTypeInv'
    BY <1>1, SecurityTypes DEF Activate, UpdateTypeInv, StoreTypeInv, storeVars
  <1>4. CASE t \in changed
    <2>1. Persist(t, "FAILED") /\ call' = call
      BY <1>4 DEF Activate
    <2>2. "FAILED" \in States \ Ambiguous
      BY DEF States, Ambiguous
    <2>3. /\ UpdateTypeInv' /\ OneIsUnfinished' /\ StaysFailed
          /\ tx'[t].state = "FAILED"
          /\ \A u \in Transactions \ {t} : tx'[u].state = tx[u].state
          /\ \A u \in Transactions : tx'[u].previous = tx[u].previous
      <3>1. call' \in Calls \cup {NoCall} /\ call'.pc = "none"
        BY <1>1, <1>2, <2>1 DEF UpdateTypeInv
      <3> QED
        BY <1>2, <1>3, <2>1, <2>2, <3>1, PersistKeeps
    <2>4. ~RollbackFailed => VersionsWereObserved'
      BY <1>1, <1>2, <2>3 DEF VersionsWereObserved
    <2>5. SwitchIsOrdered'
      BY <1>2, <2>1, NoSwitch DEF Found, Pointed, Registered
    <2> QED
      BY <2>3, <2>4, <2>5 DEF UpdateInv, StaysFailed
  <1>5. CASE t \notin changed
    <2>1. tx' = [tx EXCEPT ![t].state = "ACTIVATING", ![t].activated = TRUE]
      BY <1>5 DEF Activate
    <2>2. call' = [pc |-> "switch", tx |-> t, back |-> FALSE, before |-> registry.active,
                   ran |-> FALSE, cause |-> "none"]
      BY <1>5 DEF Activate, NoCall
    <2>3. "ACTIVATING" \in States \cap Ambiguous
      BY DEF States, Ambiguous
    <2>4. /\ tx' \in [Transactions -> [state : States, previous : 0 .. MaxUpdates,
                                      activated : BOOLEAN]]
          /\ tx'[t].state = "ACTIVATING" /\ tx'[t].activated
          /\ tx'[t].previous = tx[t].previous
          /\ \A u \in Transactions \ {t} : tx'[u] = tx[u]
      BY <1>1, <2>1, <2>3 DEF UpdateTypeInv
    <2>5. OneIsUnfinished' /\ StaysFailed
      BY <1>2, <2>2, <2>3, <2>4, TransitionKeeps
    <2>6. UpdateTypeInv'
      <3>1. call' \in Calls
        BY <1>1, <2>2, FirstCalls DEF UpdateTypeInv
      <3> QED
        BY <1>1, <1>2, <1>3, <2>4, <3>1 DEF UpdateTypeInv
    <2>7. ~RollbackFailed => VersionsWereObserved'
      BY <1>1, <1>2, <2>3, <2>4 DEF VersionsWereObserved
    <2>8. SwitchIsOrdered'
      BY <1>2, <2>2 DEF SwitchIsOrdered, Target, Found, Pointed, Registered
    <2> QED
      BY <2>5, <2>6, <2>7, <2>8 DEF UpdateInv, StaysFailed
  <1> QED
    BY <1>4, <1>5

LEMMA RecoverKeeps ==
    ASSUME MaxUpdates \in Nat, UpdateInv, NEW t \in Transactions, Recover(t)
    PROVE  UpdateInv'
PROOF
  <1>1. /\ UpdateTypeInv /\ OneIsUnfinished
        /\ ~RollbackFailed => VersionsWereObserved /\ SwitchIsOrdered
    BY DEF UpdateInv
  <1>2. /\ call.pc = "none"
        /\ UNCHANGED <<storeVars, pointer, registry, staged, changed, proven>>
    BY DEF Recover, Idling
  <1>3. StoreTypeInv'
    BY <1>1, <1>2 DEF UpdateTypeInv, StoreTypeInv, storeVars
  <1>4. CASE tx[t].state \in Ambiguous /\ tx' = tx
             /\ call' = [NoCall EXCEPT !.pc = "rollback", !.tx = t, !.before = registry.active]
    <2>1. call' = [pc |-> "rollback", tx |-> t, back |-> FALSE, before |-> registry.active,
                   ran |-> FALSE, cause |-> "none"]
      BY <1>4 DEF NoCall
    <2>2. UpdateTypeInv'
      <3>1. call' \in Calls
        BY <1>1, <2>1, FirstCalls DEF UpdateTypeInv
      <3> QED
        BY <1>1, <1>2, <1>3, <1>4, <3>1 DEF UpdateTypeInv
    <2>3. OneIsUnfinished' /\ (RollbackFailed' <=> RollbackFailed)
      BY <1>1, <1>4, <2>1 DEF OneIsUnfinished, Unfinished, RollbackFailed
    <2>4. ~RollbackFailed => VersionsWereObserved'
      BY <1>1, <1>2, <1>4 DEF VersionsWereObserved
    <2>5. SwitchIsOrdered'
      BY <2>1, NoSwitch DEF Found, Pointed, Registered
    <2> QED
      BY <2>2, <2>3, <2>4, <2>5 DEF UpdateInv
  <1>5. CASE tx[t].state \in Preparing /\ Persist(t, "FAILED") /\ call' = call
    <2>1. "FAILED" \in States \ Ambiguous /\ tx[t].state # "FAILED" /\ tx[t].state \notin Ambiguous
      BY <1>5 DEF States, Ambiguous, Preparing
    <2>2. Unfinished = {t}
      BY <1>1, <1>5 DEF OneIsUnfinished, Unfinished
    <2>3. /\ UpdateTypeInv' /\ OneIsUnfinished' /\ StaysFailed
          /\ tx'[t].state = "FAILED"
          /\ \A u \in Transactions \ {t} : tx'[u].state = tx[u].state
          /\ \A u \in Transactions : tx'[u].previous = tx[u].previous
      <3>1. call' \in Calls \cup {NoCall} /\ call'.pc = "none"
        BY <1>1, <1>2, <1>5 DEF UpdateTypeInv
      <3> QED
        BY <1>2, <1>3, <1>5, <2>1, <2>2, <3>1, PersistKeeps
    <2>4. ~RollbackFailed => VersionsWereObserved'
      <3>1. \A u \in Transactions : tx[u].state \notin Ambiguous
        BY <2>1, <2>2 DEF Unfinished
      <3> QED
        BY <1>1, <1>2, <2>3, <3>1 DEF VersionsWereObserved
    <2>5. SwitchIsOrdered'
      BY <1>2, <1>5, NoSwitch DEF Found, Pointed, Registered
    <2> QED
      BY <2>3, <2>4, <2>5 DEF UpdateInv, StaysFailed
  <1> QED
    BY <1>4, <1>5 DEF Recover

\* Steps that leave what is persisted of the versions alone, at the end of a call
\* or beside it.
LEMMA OthersKeep ==
    ASSUME MaxUpdates \in Nat, UpdateInv, StoreTypeInv',
           UNCHANGED <<tx, pointer, registry, staged, proven>>,
           changed' \subseteq 0 .. MaxUpdates,
           call' \in {call, NoCall}
    PROVE  UpdateInv'
PROOF
  <1>1. UpdateTypeInv'
    BY DEF UpdateInv, UpdateTypeInv
  <1>2. OneIsUnfinished' /\ (RollbackFailed' <=> RollbackFailed)
    BY DEF UpdateInv, OneIsUnfinished, Unfinished, RollbackFailed, NoCall
  <1>3. ~RollbackFailed => VersionsWereObserved'
    BY DEF UpdateInv, VersionsWereObserved
  <1>4. ~RollbackFailed => SwitchIsOrdered'
    BY DEF UpdateInv, SwitchIsOrdered, Target, Found, Pointed, Registered, NoCall
  <1> QED
    BY <1>1, <1>2, <1>3, <1>4 DEF UpdateInv

-----------------------------------------------------------------------------
LEMMA UpdateInitHolds == MaxUpdates \in Nat /\ StoreInit /\ UpdateInit => UpdateInv
PROOF
  <1> SUFFICES ASSUME MaxUpdates \in Nat, StoreInit, UpdateInit
               PROVE  UpdateInv
    OBVIOUS
  <1> USE DEF StoreInit, UpdateInit
  <1>1. \A t \in Transactions :
            tx[t] = [state |-> "NONE", previous |-> 0, activated |-> FALSE]
    OBVIOUS
  <1>2. 0 \in 0 .. MaxUpdates /\ "NONE" \in States \ (Preparing \cup Ambiguous)
    BY DEF States, Preparing, Ambiguous
  <1>3. UpdateTypeInv
    <2>1. tx \in [Transactions -> [state : States, previous : 0 .. MaxUpdates,
                                  activated : BOOLEAN]]
      BY <1>2
    <2>2. StoreTypeInv
      BY DEF StoreTypeInv
    <2> QED
      BY <1>2, <2>1, <2>2 DEF UpdateTypeInv
  <1>4. OneIsUnfinished
    BY <1>1, <1>2 DEF OneIsUnfinished, Unfinished, NoCall
  <1>5. VersionsWereObserved /\ SwitchIsOrdered
    BY <1>1 DEF VersionsWereObserved, SwitchIsOrdered, Found, Pointed, Registered, NoCall
  <1> QED
    BY <1>3, <1>4, <1>5 DEF UpdateInv

LEMMA UpdateStepKeeps ==
    ASSUME MaxUpdates \in Nat, UpdateInv, [UpdateNext]_<<storeVars, updateVars>>
    PROVE  UpdateInv'
PROOF
  <1>1. UpdateTypeInv
    BY DEF UpdateInv
  <1>2. ASSUME NEW t \in Transactions, Prepare(t) \/ Activate(t) \/ Recover(t)
        PROVE  UpdateInv'
    BY <1>2, PrepareKeeps, ActivateKeeps, RecoverKeeps
  <1>3. ASSUME NEW v \in 0 .. MaxUpdates, ArtifactChanges(v)
        PROVE  UpdateInv'
    BY <1>1, <1>3, OthersKeep DEF ArtifactChanges, UpdateTypeInv, StoreTypeInv, storeVars
  <1>4. CASE EnterSafeMode
    BY <1>1, <1>4, SecurityTypes, OthersKeep DEF EnterSafeMode, UpdateTypeInv, StoreTypeInv
  <1>5. CASE CoordinatorLost \/ UNCHANGED <<storeVars, updateVars>>
    BY <1>1, <1>5, OthersKeep
       DEF CoordinatorLost, updateVars, UpdateTypeInv, StoreTypeInv, storeVars
  <1>6. CASE PrepareStep
    BY <1>6, PrepareStepKeeps
  <1>7. CASE PrepareFails \/ Commit \/ RolledBack
    BY <1>7, EndsKeep
  <1>8. CASE MarkObserving \/ BeginRollback \/ FailRollback
    BY <1>8, MarksKeep
  <1>9. CASE \/ SwitchPointer \/ Register \/ Accept \/ CheckTarget
             \/ Restarted \/ RestartRaises \/ Stable \/ Rejected
    BY <1>9, StageSteps
  <1> QED
    BY <1>2, <1>3, <1>4, <1>5, <1>6, <1>7, <1>8, <1>9 DEF UpdateNext, UpdateStep

\* Wherever the coordinator is lost, after a recovery the pointer and the registry
\* name one version that is on disk, and the last known good version was observed,
\* unless a rollback failed (updater.py recover_incomplete).
THEOREM EveryUpdateIsRecoverable ==
    ASSUME MaxUpdates \in Nat
    PROVE  UpdateSpec => []UpdateIsRecoverable
PROOF
  <1>1. StoreInit /\ UpdateInit => UpdateInv
    BY UpdateInitHolds
  <1>2. UpdateInv /\ [UpdateNext]_<<storeVars, updateVars>> => UpdateInv'
    BY UpdateStepKeeps
  <1>3. UpdateInv => UpdateIsRecoverable
    <2> SUFFICES ASSUME UpdateInv
                 PROVE  UpdateIsRecoverable
      OBVIOUS
    <2>1. UpdateTypeInv /\ LastKnownGoodWasObserved
      BY DEF UpdateInv, VersionsWereObserved, LastKnownGoodWasObserved
    <2>2. PointerMatchesRegistry
      BY DEF UpdateInv, VersionsWereObserved, PointerMatchesRegistry, Recovered
    <2> QED
      BY <2>1, <2>2 DEF UpdateIsRecoverable
  <1> QED
    BY <1>1, <1>2, <1>3, PTL DEF UpdateSpec
=============================================================================
