------------------------- MODULE TurnManagerProofs -------------------------
(***************************************************************************)
(* Proofs about TurnManager for every configuration, every number of       *)
(* turns and generations and an unbounded clock: the type invariant, the   *)
(* agreement of state, flags and clocks, and that captures, model runs and *)
(* playbacks end at most once under the identity they began with.          *)
(***************************************************************************)
EXTENDS TurnManager, TLAPS

-----------------------------------------------------------------------------
(* Types.                                                                   *)

\* What _event and its candidate form build from typed fields is an event.
LEMMA EventMade ==
    ASSUME IdentityTypes, NEW type \in EventTypes
    PROVE  EventOf(type) \in Event /\ CandidateEvent(type) \in Event
PROOF
  BY DEF IdentityTypes, EventOf, CandidateEvent, Event

\* Identities are only ever added, so an event stays an event.
LEMMA EventKept ==
    ASSUME IdentityTypes, IdentityTypes', drawn \leq drawn', started \leq started'
    PROVE  Event \subseteq Event'
PROOF
  BY DEF IdentityTypes, Event, Identities, Generations

\* Every call leaves a state of the table and typed flags.
LEMMA ControlStep ==
    ASSUME ControlTypes,
           [Next]_vars
    PROVE  /\ ControlTypes'
PROOF
  <1> DEFINE Kept == /\ ControlTypes'
  <1> USE ConfigAssumption
      DEF ControlTypes, States, Grades, Tentative, DrawIdentity,
          EndResponse, ResetObservation, ClearInterruptionCandidate,
          Transition, CandidateIdentity, CandidateReturnState, observation,
          tentative, response
  <1>1. ASSUME Tick PROVE Kept
    BY <1>1 DEF Tick
  <1>2. ASSUME StartListening PROVE Kept
    BY <1>2 DEF StartListening
  <1>3. ASSUME AcceptTextTurn PROVE Kept
    BY <1>3 DEF AcceptTextTurn
  <1>4. ASSUME CancelInput PROVE Kept
    BY <1>4 DEF CancelInput
  <1>5. ASSUME OnVad PROVE Kept
    BY <1>5 DEF OnVad, VadSpeechStarts, VadSpeechEnds, VadSpeechTooShort,
        VadSpeechResumes, VadOpensCandidate, VadResumesCandidate,
        VadDoubtsCandidate, BeginSpeech, SpeechTotal, ElapsedSince
  <1>6. ASSUME NEW text \in Grades, NEW credible \in BOOLEAN,
              OnTranscript(text, credible)
        PROVE  Kept
    BY <1>6, ZenonT(60) DEF OnTranscript, ConfirmInterruption
  <1>7. ASSUME RejectInterruption PROVE Kept
    BY <1>7 DEF RejectInterruption
  <1>8. ASSUME OnTimeCommits PROVE Kept
    BY <1>8 DEF OnTimeCommits, Commit
  <1>9. ASSUME OnTimeRecovers PROVE Kept
    BY <1>9 DEF OnTimeRecovers
  <1>10. ASSUME OnMaximumDuration PROVE Kept
    BY <1>10 DEF OnMaximumDuration, Commit, SpeechTotal, ElapsedSince
  <1>11. ASSUME OnModelStarted PROVE Kept
    BY <1>11 DEF OnModelStarted
  <1>12. ASSUME NEW g \in Generations, OnModelCompleted(g) PROVE Kept
    BY <1>12 DEF OnModelCompleted
  <1>13. ASSUME NEW g \in Generations, OnTtsStarted(g) PROVE Kept
    BY <1>13 DEF OnTtsStarted
  <1>14. ASSUME NEW g \in Generations, OnTtsCompleted(g) PROVE Kept
    BY <1>14 DEF OnTtsCompleted
  <1>15. ASSUME NEW g \in Generations, OnTtsCancelled(g) PROVE Kept
    BY <1>15 DEF OnTtsCancelled
  <1>16. ASSUME OnComponentError PROVE Kept
    BY <1>16 DEF OnComponentError
  <1>17. ASSUME OnAudioLost PROVE Kept
    BY <1>17 DEF OnAudioLost
  <1>18. ASSUME OnAudioRestored PROVE Kept
    BY <1>18 DEF OnAudioRestored
  <1>19. CASE UNCHANGED vars
    BY <1>19 DEF vars, events
  <1> QED
    BY <1>1, <1>2, <1>3, <1>4, <1>5, <1>6, <1>7, <1>8, <1>9, <1>10, <1>11,
        <1>12, <1>13, <1>14, <1>15, <1>16, <1>17, <1>18, <1>19 DEF Next

\* Every call keeps its timestamps in the past and its totals natural.
LEMMA ClockStep ==
    ASSUME ControlTypes,
           ClockTypes,
           [Next]_vars
    PROVE  /\ ClockTypes'
PROOF
  <1> DEFINE Kept == /\ ClockTypes'
  <1> USE ConfigAssumption
      DEF ClockTypes, Timestamps, DrawIdentity, EndResponse,
          ResetObservation, ClearInterruptionCandidate, Transition,
          CandidateIdentity, CandidateReturnState, observation, tentative,
          response
  <1>1. ASSUME Tick PROVE Kept
    BY <1>1 DEF Tick
  <1>2. ASSUME StartListening PROVE Kept
    BY <1>2 DEF StartListening
  <1>3. ASSUME AcceptTextTurn PROVE Kept
    BY <1>3 DEF AcceptTextTurn
  <1>4. ASSUME CancelInput PROVE Kept
    BY <1>4 DEF CancelInput
  <1>5. ASSUME OnVad PROVE Kept
    BY <1>5 DEF OnVad, VadSpeechStarts, VadSpeechEnds, VadSpeechTooShort,
        VadSpeechResumes, VadOpensCandidate, VadResumesCandidate,
        VadDoubtsCandidate, BeginSpeech, SpeechTotal, ElapsedSince
  <1>6. ASSUME NEW text \in Grades, NEW credible \in BOOLEAN,
              OnTranscript(text, credible)
        PROVE  Kept
    BY <1>6 DEF OnTranscript, ConfirmInterruption
  <1>7. ASSUME RejectInterruption PROVE Kept
    BY <1>7 DEF RejectInterruption
  <1>8. ASSUME OnTimeCommits PROVE Kept
    BY <1>8 DEF OnTimeCommits, Commit
  <1>9. ASSUME OnTimeRecovers PROVE Kept
    BY <1>9 DEF OnTimeRecovers
  <1>10. ASSUME OnMaximumDuration PROVE Kept
    BY <1>10 DEF OnMaximumDuration, Commit, SpeechTotal, ElapsedSince
  <1>11. ASSUME OnModelStarted PROVE Kept
    BY <1>11 DEF OnModelStarted
  <1>12. ASSUME NEW g \in Generations, OnModelCompleted(g) PROVE Kept
    BY <1>12 DEF OnModelCompleted
  <1>13. ASSUME NEW g \in Generations, OnTtsStarted(g) PROVE Kept
    BY <1>13 DEF OnTtsStarted
  <1>14. ASSUME NEW g \in Generations, OnTtsCompleted(g) PROVE Kept
    BY <1>14 DEF OnTtsCompleted
  <1>15. ASSUME NEW g \in Generations, OnTtsCancelled(g) PROVE Kept
    BY <1>15 DEF OnTtsCancelled
  <1>16. ASSUME OnComponentError PROVE Kept
    BY <1>16 DEF OnComponentError
  <1>17. ASSUME OnAudioLost PROVE Kept
    BY <1>17 DEF OnAudioLost
  <1>18. ASSUME OnAudioRestored PROVE Kept
    BY <1>18 DEF OnAudioRestored
  <1>19. CASE UNCHANGED vars
    BY <1>19 DEF vars, events
  <1> QED
    BY <1>1, <1>2, <1>3, <1>4, <1>5, <1>6, <1>7, <1>8, <1>9, <1>10, <1>11,
        <1>12, <1>13, <1>14, <1>15, <1>16, <1>17, <1>18, <1>19 DEF Next

\* Every call uses only identities that are drawn, and forgets none.
LEMMA IdentityStep ==
    ASSUME IdentityTypes,
           [Next]_vars
    PROVE  /\ IdentityTypes'
           /\ drawn \leq drawn'
           /\ started \leq started'
PROOF
  <1> DEFINE Kept == /\ IdentityTypes'
                   /\ drawn \leq drawn'
                   /\ started \leq started'
  <1> USE ConfigAssumption
      DEF IdentityTypes, Identities, Generations, DrawIdentity, EndResponse,
          ResetObservation, ClearInterruptionCandidate, Transition,
          CandidateIdentity, CandidateReturnState, observation, tentative,
          response
  <1>1. ASSUME Tick PROVE Kept
    BY <1>1 DEF Tick
  <1>2. ASSUME StartListening PROVE Kept
    BY <1>2 DEF StartListening
  <1>3. ASSUME AcceptTextTurn PROVE Kept
    BY <1>3 DEF AcceptTextTurn
  <1>4. ASSUME CancelInput PROVE Kept
    BY <1>4 DEF CancelInput
  <1>5. ASSUME OnVad PROVE Kept
    BY <1>5 DEF OnVad, VadSpeechStarts, VadSpeechEnds, VadSpeechTooShort,
        VadSpeechResumes, VadOpensCandidate, VadResumesCandidate,
        VadDoubtsCandidate, BeginSpeech, SpeechTotal, ElapsedSince
  <1>6. ASSUME NEW text \in Grades, NEW credible \in BOOLEAN,
              OnTranscript(text, credible)
        PROVE  Kept
    BY <1>6 DEF OnTranscript, ConfirmInterruption
  <1>7. ASSUME RejectInterruption PROVE Kept
    BY <1>7 DEF RejectInterruption
  <1>8. ASSUME OnTimeCommits PROVE Kept
    BY <1>8 DEF OnTimeCommits, Commit
  <1>9. ASSUME OnTimeRecovers PROVE Kept
    BY <1>9 DEF OnTimeRecovers
  <1>10. ASSUME OnMaximumDuration PROVE Kept
    BY <1>10 DEF OnMaximumDuration, Commit, SpeechTotal, ElapsedSince
  <1>11. ASSUME OnModelStarted PROVE Kept
    BY <1>11 DEF OnModelStarted
  <1>12. ASSUME NEW g \in Generations, OnModelCompleted(g) PROVE Kept
    BY <1>12 DEF OnModelCompleted
  <1>13. ASSUME NEW g \in Generations, OnTtsStarted(g) PROVE Kept
    BY <1>13 DEF OnTtsStarted
  <1>14. ASSUME NEW g \in Generations, OnTtsCompleted(g) PROVE Kept
    BY <1>14 DEF OnTtsCompleted
  <1>15. ASSUME NEW g \in Generations, OnTtsCancelled(g) PROVE Kept
    BY <1>15 DEF OnTtsCancelled
  <1>16. ASSUME OnComponentError PROVE Kept
    BY <1>16 DEF OnComponentError
  <1>17. ASSUME OnAudioLost PROVE Kept
    BY <1>17 DEF OnAudioLost
  <1>18. ASSUME OnAudioRestored PROVE Kept
    BY <1>18 DEF OnAudioRestored
  <1>19. CASE UNCHANGED vars
    BY <1>19 DEF vars, events
  <1> QED
    BY <1>1, <1>2, <1>3, <1>4, <1>5, <1>6, <1>7, <1>8, <1>9, <1>10, <1>11,
        <1>12, <1>13, <1>14, <1>15, <1>16, <1>17, <1>18, <1>19 DEF Next

\* What a call returns is kept with what earlier calls returned.
LEMMA EventsReturned ==
    ASSUME EventsTyped, IdentityTypes, IdentityTypes',
           drawn \leq drawn', started \leq started',
           NEW es \in SUBSET Event, Return(es)
    PROVE  EventsTyped'
PROOF
  BY EventKept DEF EventsTyped, Return

\* Every call returns events.
LEMMA EventsStep ==
    ASSUME IdentityTypes,
           EventsTyped,
           IdentityTypes',
           drawn \leq drawn',
           started \leq started',
           [Next]_vars
    PROVE  /\ EventsTyped'
PROOF
  <1> DEFINE Kept == /\ EventsTyped'
  <1> USE EventMade, EventsReturned
      DEF EventTypes, ModelEnds, TtsEnds, CaptureEnds, CandidateCancelled
  <1>1. ASSUME Tick PROVE Kept
    BY <1>1 DEF Tick
  <1>2. ASSUME StartListening PROVE Kept
    BY <1>2 DEF StartListening
  <1>3. ASSUME AcceptTextTurn PROVE Kept
    BY <1>3 DEF AcceptTextTurn
  <1>4. ASSUME CancelInput PROVE Kept
    BY <1>4 DEF CancelInput
  <1>5. ASSUME OnVad PROVE Kept
    BY <1>5 DEF OnVad
  <1>6. ASSUME NEW text \in Grades, NEW credible \in BOOLEAN,
              OnTranscript(text, credible)
        PROVE  Kept
    BY <1>6 DEF OnTranscript, ConfirmInterruption
  <1>7. ASSUME RejectInterruption PROVE Kept
    BY <1>7 DEF RejectInterruption
  <1>8. ASSUME OnTimeCommits PROVE Kept
    BY <1>8 DEF OnTimeCommits, Commit
  <1>9. ASSUME OnTimeRecovers PROVE Kept
    BY <1>9 DEF OnTimeRecovers
  <1>10. ASSUME OnMaximumDuration PROVE Kept
    BY <1>10 DEF OnMaximumDuration, Commit
  <1>11. ASSUME OnModelStarted PROVE Kept
    BY <1>11 DEF OnModelStarted
  <1>12. ASSUME NEW g \in Generations, OnModelCompleted(g) PROVE Kept
    BY <1>12 DEF OnModelCompleted
  <1>13. ASSUME NEW g \in Generations, OnTtsStarted(g) PROVE Kept
    BY <1>13 DEF OnTtsStarted
  <1>14. ASSUME NEW g \in Generations, OnTtsCompleted(g) PROVE Kept
    BY <1>14 DEF OnTtsCompleted
  <1>15. ASSUME NEW g \in Generations, OnTtsCancelled(g) PROVE Kept
    BY <1>15 DEF OnTtsCancelled
  <1>16. ASSUME OnComponentError PROVE Kept
    BY <1>16 DEF OnComponentError
  <1>17. ASSUME OnAudioLost PROVE Kept
    BY <1>17 DEF OnAudioLost
  <1>18. ASSUME OnAudioRestored PROVE Kept
    BY <1>18 DEF OnAudioRestored
  <1>19. CASE UNCHANGED vars
    BY <1>19, EventKept DEF vars, events, EventsTyped
  <1> QED
    BY <1>1, <1>2, <1>3, <1>4, <1>5, <1>6, <1>7, <1>8, <1>9, <1>10, <1>11,
        <1>12, <1>13, <1>14, <1>15, <1>16, <1>17, <1>18, <1>19 DEF Next

\* No call of the manager takes a field out of its type.
LEMMA TypeStep == TypeInv /\ [Next]_vars => TypeInv'
PROOF
  BY ControlStep, ClockStep, IdentityStep, EventsStep DEF TypeInv

\* State, clocks and flags stay in agreement.
LEMMA AgreementStep ==
    ASSUME TypeInv,
           ClockAnchors,
           ResponseMatchesState,
           CandidateIsSeparate,
           [Next]_vars
    PROVE  /\ ClockAnchors'
           /\ ResponseMatchesState'
           /\ CandidateIsSeparate'
PROOF
  <1> DEFINE Kept == /\ ClockAnchors'
                   /\ ResponseMatchesState'
                   /\ CandidateIsSeparate'
  <1> USE ConfigAssumption
      DEF TypeInv, ControlTypes, ClockTypes, Timestamps, IdentityTypes,
          Identities, Generations, ClockAnchors, ResponseMatchesState,
          CandidateIsSeparate, Tentative, Capturing, DrawIdentity,
          EndResponse, ResetObservation, ClearInterruptionCandidate,
          Transition, CandidateIdentity, CandidateReturnState, observation,
          tentative, response
  <1>1. ASSUME Tick PROVE Kept
    BY <1>1 DEF Tick
  <1>2. ASSUME StartListening PROVE Kept
    BY <1>2 DEF StartListening
  <1>3. ASSUME AcceptTextTurn PROVE Kept
    BY <1>3 DEF AcceptTextTurn
  <1>4. ASSUME CancelInput PROVE Kept
    BY <1>4 DEF CancelInput
  <1>5. ASSUME OnVad PROVE Kept
    BY <1>5 DEF OnVad, VadSpeechStarts, VadSpeechEnds, VadSpeechTooShort,
        VadSpeechResumes, VadOpensCandidate, VadResumesCandidate,
        VadDoubtsCandidate, BeginSpeech, SpeechTotal, ElapsedSince
  <1>6. ASSUME NEW text \in Grades, NEW credible \in BOOLEAN,
              OnTranscript(text, credible)
        PROVE  Kept
    BY <1>6 DEF OnTranscript, ConfirmInterruption
  <1>7. ASSUME RejectInterruption PROVE Kept
    BY <1>7 DEF RejectInterruption
  <1>8. ASSUME OnTimeCommits PROVE Kept
    BY <1>8 DEF OnTimeCommits, Commit
  <1>9. ASSUME OnTimeRecovers PROVE Kept
    BY <1>9 DEF OnTimeRecovers
  <1>10. ASSUME OnMaximumDuration PROVE Kept
    BY <1>10 DEF OnMaximumDuration, Commit, SpeechTotal, ElapsedSince
  <1>11. ASSUME OnModelStarted PROVE Kept
    BY <1>11 DEF OnModelStarted
  <1>12. ASSUME NEW g \in Generations, OnModelCompleted(g) PROVE Kept
    BY <1>12 DEF OnModelCompleted
  <1>13. ASSUME NEW g \in Generations, OnTtsStarted(g) PROVE Kept
    BY <1>13 DEF OnTtsStarted
  <1>14. ASSUME NEW g \in Generations, OnTtsCompleted(g) PROVE Kept
    BY <1>14 DEF OnTtsCompleted
  <1>15. ASSUME NEW g \in Generations, OnTtsCancelled(g) PROVE Kept
    BY <1>15 DEF OnTtsCancelled
  <1>16. ASSUME OnComponentError PROVE Kept
    BY <1>16 DEF OnComponentError
  <1>17. ASSUME OnAudioLost PROVE Kept
    BY <1>17 DEF OnAudioLost
  <1>18. ASSUME OnAudioRestored PROVE Kept
    BY <1>18 DEF OnAudioRestored
  <1>19. CASE UNCHANGED vars
    BY <1>19 DEF vars, events
  <1> QED
    BY <1>1, <1>2, <1>3, <1>4, <1>5, <1>6, <1>7, <1>8, <1>9, <1>10, <1>11,
        <1>12, <1>13, <1>14, <1>15, <1>16, <1>17, <1>18, <1>19 DEF Next

\* The flags keep telling what the events so far have said.
LEMMA HistoryStep ==
    ASSUME TypeInv,
           ResponseMatchesState,
           CandidateIsSeparate,
           HistoryInv,
           [Next]_vars
    PROVE  /\ HistoryInv'
PROOF
  <1> DEFINE Kept == /\ HistoryInv'
  <1> USE ConfigAssumption
      DEF TypeInv, ControlTypes, IdentityTypes, Identities, Generations,
          ResponseMatchesState, CandidateIsSeparate, EventsTyped, Event,
          Seen, ModelEnds, TtsEnds, CaptureEnds, Tentative, Capturing,
          HistoryInv, GenerationHasTurn, ActiveHasNotEnded,
          WaitsForPlayback, OpenCaptureHasNotEnded, EventOf, CandidateEvent,
          CandidateCancelled, DrawIdentity, EndResponse, ResetObservation,
          ClearInterruptionCandidate, Transition, CandidateIdentity,
          CandidateReturnState, Return, observation, tentative, response
  <1>1. ASSUME Tick PROVE Kept
    BY <1>1 DEF Tick
  <1>2. ASSUME StartListening PROVE Kept
    BY <1>2 DEF StartListening
  <1>3. ASSUME AcceptTextTurn PROVE Kept
    BY <1>3 DEF AcceptTextTurn
  <1>4. ASSUME CancelInput PROVE Kept
    BY <1>4 DEF CancelInput
  <1>5. ASSUME OnVad PROVE Kept
    BY <1>5 DEF OnVad, VadSpeechStarts, VadSpeechEnds, VadSpeechTooShort,
        VadSpeechResumes, VadOpensCandidate, VadResumesCandidate,
        VadDoubtsCandidate, BeginSpeech, SpeechTotal, ElapsedSince
  <1>6. ASSUME NEW text \in Grades, NEW credible \in BOOLEAN,
              OnTranscript(text, credible)
        PROVE  Kept
    BY <1>6 DEF OnTranscript, ConfirmInterruption
  <1>7. ASSUME RejectInterruption PROVE Kept
    BY <1>7 DEF RejectInterruption
  <1>8. ASSUME OnTimeCommits PROVE Kept
    BY <1>8 DEF OnTimeCommits, Commit
  <1>9. ASSUME OnTimeRecovers PROVE Kept
    BY <1>9 DEF OnTimeRecovers
  <1>10. ASSUME OnMaximumDuration PROVE Kept
    BY <1>10 DEF OnMaximumDuration, Commit, SpeechTotal, ElapsedSince
  <1>11. ASSUME OnModelStarted PROVE Kept
    BY <1>11 DEF OnModelStarted
  <1>12. ASSUME NEW g \in Generations, OnModelCompleted(g) PROVE Kept
    BY <1>12 DEF OnModelCompleted
  <1>13. ASSUME NEW g \in Generations, OnTtsStarted(g) PROVE Kept
    <2>1. /\ Seen' = Seen \cup {EventOf("TTS_STARTED")}
          /\ UNCHANGED <<generation, turn, model_active>>
          /\ generation # None
      BY <1>13 DEF OnTtsStarted
    <2>2. /\ EventOf("TTS_STARTED").type = "TTS_STARTED"
          /\ EventOf("TTS_STARTED").generation = generation
          /\ EventOf("TTS_STARTED").turn = turn
      OBVIOUS
    <2>3. GenerationHasTurn'
      BY <2>1, <2>2
    <2>4. ActiveHasNotEnded'
      <3>1. \A e \in Seen : e.type \in TtsEnds => e.generation # generation
        BY <1>13 DEF OnTtsStarted
      <3>2. \E e \in Seen' : e.type = "TTS_STARTED" /\ e.generation = generation
        BY <2>1, <2>2
      <3> QED
        BY <2>1, <2>2, <3>1, <3>2
    <2>5. WaitsForPlayback'
      BY <1>13 DEF OnTtsStarted
    <2>6. OpenCaptureHasNotEnded'
      BY <1>13 DEF OnTtsStarted
    <2> QED
      BY <2>3, <2>4, <2>5, <2>6
  <1>14. ASSUME NEW g \in Generations, OnTtsCompleted(g) PROVE Kept
    BY <1>14 DEF OnTtsCompleted
  <1>15. ASSUME NEW g \in Generations, OnTtsCancelled(g) PROVE Kept
    BY <1>15 DEF OnTtsCancelled
  <1>16. ASSUME OnComponentError PROVE Kept
    BY <1>16 DEF OnComponentError
  <1>17. ASSUME OnAudioLost PROVE Kept
    BY <1>17 DEF OnAudioLost
  <1>18. ASSUME OnAudioRestored PROVE Kept
    BY <1>18 DEF OnAudioRestored
  <1>19. CASE UNCHANGED vars
    BY <1>19 DEF vars, events
  <1> QED
    BY <1>1, <1>2, <1>3, <1>4, <1>5, <1>6, <1>7, <1>8, <1>9, <1>10, <1>11,
        <1>12, <1>13, <1>14, <1>15, <1>16, <1>17, <1>18, <1>19 DEF Next

\* What ends now has not ended before.
LEMMA EndsStep ==
    ASSUME TypeInv,
           ResponseMatchesState,
           CandidateIsSeparate,
           HistoryInv,
           ResponseEndsOnce,
           CaptureEndsOnce,
           EventsKeepTheirTurn,
           [Next]_vars
    PROVE  /\ ResponseEndsOnce'
           /\ CaptureEndsOnce'
           /\ EventsKeepTheirTurn'
PROOF
  <1> DEFINE Kept == /\ ResponseEndsOnce'
                   /\ CaptureEndsOnce'
                   /\ EventsKeepTheirTurn'
  <1> USE ConfigAssumption
      DEF TypeInv, ControlTypes, IdentityTypes, Identities, Generations,
          ResponseMatchesState, CandidateIsSeparate, EventsTyped, Event,
          Seen, ModelEnds, TtsEnds, CaptureEnds, Tentative, Capturing,
          HistoryInv, GenerationHasTurn, ActiveHasNotEnded,
          WaitsForPlayback, OpenCaptureHasNotEnded, EventOf, CandidateEvent,
          CandidateCancelled, DrawIdentity, EndResponse, ResetObservation,
          ClearInterruptionCandidate, Transition, CandidateIdentity,
          CandidateReturnState, Return, ResponseEndsOnce, CaptureEndsOnce,
          EventsKeepTheirTurn
  <1>1. ASSUME Tick PROVE Kept
    BY <1>1 DEF Tick
  <1>2. ASSUME StartListening PROVE Kept
    BY <1>2 DEF StartListening
  <1>3. ASSUME AcceptTextTurn PROVE Kept
    BY <1>3 DEF AcceptTextTurn
  <1>4. ASSUME CancelInput PROVE Kept
    BY <1>4 DEF CancelInput
  <1>5. ASSUME OnVad PROVE Kept
    BY <1>5 DEF OnVad, VadSpeechStarts, VadSpeechEnds, VadSpeechTooShort,
        VadSpeechResumes, VadOpensCandidate, VadResumesCandidate,
        VadDoubtsCandidate, BeginSpeech, SpeechTotal, ElapsedSince
  <1>6. ASSUME NEW text \in Grades, NEW credible \in BOOLEAN,
              OnTranscript(text, credible)
        PROVE  Kept
    BY <1>6 DEF OnTranscript, ConfirmInterruption
  <1>7. ASSUME RejectInterruption PROVE Kept
    BY <1>7 DEF RejectInterruption
  <1>8. ASSUME OnTimeCommits PROVE Kept
    BY <1>8 DEF OnTimeCommits, Commit
  <1>9. ASSUME OnTimeRecovers PROVE Kept
    BY <1>9 DEF OnTimeRecovers
  <1>10. ASSUME OnMaximumDuration PROVE Kept
    BY <1>10 DEF OnMaximumDuration, Commit, SpeechTotal, ElapsedSince
  <1>11. ASSUME OnModelStarted PROVE Kept
    BY <1>11 DEF OnModelStarted
  <1>12. ASSUME NEW g \in Generations, OnModelCompleted(g) PROVE Kept
    BY <1>12 DEF OnModelCompleted
  <1>13. ASSUME NEW g \in Generations, OnTtsStarted(g) PROVE Kept
    BY <1>13 DEF OnTtsStarted
  <1>14. ASSUME NEW g \in Generations, OnTtsCompleted(g) PROVE Kept
    BY <1>14 DEF OnTtsCompleted
  <1>15. ASSUME NEW g \in Generations, OnTtsCancelled(g) PROVE Kept
    BY <1>15 DEF OnTtsCancelled
  <1>16. ASSUME OnComponentError PROVE Kept
    BY <1>16 DEF OnComponentError
  <1>17. ASSUME OnAudioLost PROVE Kept
    BY <1>17 DEF OnAudioLost
  <1>18. ASSUME OnAudioRestored PROVE Kept
    BY <1>18 DEF OnAudioRestored
  <1>19. CASE UNCHANGED vars
    BY <1>19 DEF vars, events
  <1> QED
    BY <1>1, <1>2, <1>3, <1>4, <1>5, <1>6, <1>7, <1>8, <1>9, <1>10, <1>11,
        <1>12, <1>13, <1>14, <1>15, <1>16, <1>17, <1>18, <1>19 DEF Next

-----------------------------------------------------------------------------
(* Theorems.                                                                *)

\* A new manager satisfies the inductive invariant: it is listening to nobody
\* and has reported nothing.
LEMMA InitHolds == Init => IInv
PROOF
  <1> SUFFICES ASSUME Init PROVE IInv
    OBVIOUS
  <1> USE ConfigAssumption DEF Init
  <1>1. ControlTypes
    BY DEF ControlTypes, States, Grades
  <1>2. ClockTypes /\ IdentityTypes
    BY DEF ClockTypes, Timestamps, IdentityTypes
  <1>3. Seen = {} /\ EventsTyped
    BY DEF Seen, EventsTyped
  <1>4. ClockAnchors /\ ResponseMatchesState /\ CandidateIsSeparate
    BY DEF ClockAnchors, ResponseMatchesState, CandidateIsSeparate, Tentative,
           Capturing
  <1>5. HistoryInv
    BY <1>3 DEF HistoryInv, GenerationHasTurn, ActiveHasNotEnded, WaitsForPlayback,
                OpenCaptureHasNotEnded, Tentative, Capturing
  <1>6. ResponseEndsOnce /\ CaptureEndsOnce /\ EventsKeepTheirTurn
    BY DEF ResponseEndsOnce, CaptureEndsOnce, EventsKeepTheirTurn
  <1> QED
    BY <1>1, <1>2, <1>3, <1>4, <1>5, <1>6 DEF IInv, TypeInv

\* Every call keeps the inductive invariant, and so does time passing.
LEMMA StepHolds == IInv /\ [Next]_vars => IInv'
PROOF
  BY TypeStep, AgreementStep, HistoryStep, EndsStep DEF IInv

\* The inductive invariant holds after every sequence of calls.
LEMMA Inductive == Spec => []IInv
PROOF
  BY InitHolds, StepHolds, PTL DEF Spec

\* The manager's fields keep their types, its timestamps lie in the past and
\* the identities it uses have been drawn.
THEOREM TypeCorrect == Spec => []TypeInv
PROOF
  <1>1. IInv => TypeInv
    BY DEF IInv
  <1> QED
    BY <1>1, Inductive, PTL

\* Whatever the callers do, a state that counts a duration has the timestamp
\* it counts from, so no silence and no recovery waits for ever on a missing one.
THEOREM ClocksAreAnchored == Spec => []ClockAnchors
PROOF
  <1>1. IInv => ClockAnchors
    BY DEF IInv
  <1> QED
    BY <1>1, Inductive, PTL

\* The state and the flags of the response agree after every sequence of
\* calls, so a dismissed candidate returns to where the response really is.
THEOREM StateMatchesResponse == Spec => []ResponseMatchesState
PROOF
  <1>1. IInv => ResponseMatchesState
    BY DEF IInv
  <1> QED
    BY <1>1, Inductive, PTL

\* A tentative interruption never has the identity of the response.
THEOREM CandidateNeverShares == Spec => []CandidateIsSeparate
PROOF
  <1>1. IInv => CandidateIsSeparate
    BY DEF IInv
  <1> QED
    BY <1>1, Inductive, PTL

\* No sequence of calls, late ones included, reports two ends of a generation's
\* model run or of its playback, or both commits and cancels a capture.
THEOREM EndsAreSingle == Spec => []EachEndsOnce
PROOF
  <1>1. IInv => EachEndsOnce
    BY DEF IInv, EachEndsOnce
  <1> QED
    BY <1>1, Inductive, PTL

\* All events of a generation carry the turn it answers.
THEOREM EventsStayAttributed == Spec => []EventsKeepTheirTurn
PROOF
  <1>1. IInv => EventsKeepTheirTurn
    BY DEF IInv
  <1> QED
    BY <1>1, Inductive, PTL

\* What goes on and what is published is never taken for something else.
THEOREM IdentitiesStaySeparate == Spec => []IdentitiesAreSeparate
PROOF
  BY CandidateNeverShares, EventsStayAttributed, PTL DEF IdentitiesAreSeparate

=============================================================================
