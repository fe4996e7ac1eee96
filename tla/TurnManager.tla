---------------------------- MODULE TurnManager ----------------------------
(***************************************************************************)
(* The conversational turn state machine of                                *)
(* src/sam_ambient/core/turns/state_machine.py: one TurnManager object,    *)
(* driven by calls of the voice pipeline and of the runtime, which it      *)
(* answers with protocol events.                                           *)
(*                                                                         *)
(* Every public method that changes state is an action.  A call that the   *)
(* code answers with an exception or with an empty tuple is not enabled.   *)
(* Calls carry any generation ever started, so answers may come late.      *)
(*                                                                         *)
(* Abstractions.  turn_id and cancellation_id are always assigned together *)
(* and are one identity here; identities and generations are numbered in   *)
(* the order they are drawn.  A transcript is its endpointing grade and    *)
(* whether _credible_interrupt accepts it.  The stored candidate text is   *)
(* read only by the call that stores it, so it is not kept.  Of the events *)
(* only those that open or end a capture, a model run or a playback are in *)
(* out.                                                                    *)
(***************************************************************************)
EXTENDS Naturals, FiniteSets

CONSTANTS
    MinSpeech,          \* min_speech_ms
    TentativeSilence,   \* tentative_endpoint_silence_ms
    NormalSilence,      \* normal_endpoint_silence_ms
    UncertainSilence,   \* uncertain_endpoint_silence_ms
    MaxEndpointWait,    \* max_endpoint_wait_ms
    RecoveryWait,       \* false_interrupt_recovery_ms
    MaxTime,            \* bound: the clock stops here
    MaxTurns,           \* bound: identities drawn
    MaxGenerations,     \* bound: generations started
    None

ASSUME ConfigAssumption ==
    /\ {MinSpeech, TentativeSilence, NormalSilence, UncertainSilence,
        MaxEndpointWait, RecoveryWait, MaxTime, MaxTurns, MaxGenerations} \subseteq Nat
    /\ MaxEndpointWait >= UncertainSilence
    /\ None \notin Nat \cup {"THINKING", "SPEAKING"}

VARIABLES
    now,                \* _last_ms, the timestamp of the latest call
    state,
    turn,               \* turn_id and cancellation_id
    generation,         \* generation_id
    grade,              \* what transcript, _final and _confidence say
    speech_started, speech_accumulated, silence_started, vad_active,
    interruption_started, interruption_accumulated, recovery_started,
    origin,             \* _candidate_origin_state
    candidate,          \* _candidate_turn_id and _candidate_cancellation_id
    model_active, tts_active,
    drawn,              \* identities drawn from _id_factory or given by callers
    started,            \* generations started
    out,                \* the events the latest call returned
    past                \* history: the events returned by the calls before it

observation == <<grade, speech_started, speech_accumulated, silence_started>>
tentative == <<interruption_started, interruption_accumulated, recovery_started,
               origin, candidate>>
response == <<generation, model_active, tts_active, started>>
events == <<out, past>>
vars == <<now, state, turn, drawn, observation, vad_active, tentative, response, events>>

States ==
    {"IDLE", "LISTENING", "USER_SPEAKING", "ENDPOINT_CANDIDATE", "COMMITTING",
     "THINKING", "SPEAKING", "INTERRUPTION_CANDIDATE", "INTERRUPTED", "RECOVERING",
     "ERROR", "OFFLINE"}

Tentative == {"INTERRUPTION_CANDIDATE", "RECOVERING"}
Capturing == {"LISTENING", "USER_SPEAKING", "ENDPOINT_CANDIDATE"}

Grades == {"sentence", "final", "uncertain"}
ModelEnds == {"MODEL_COMPLETED", "MODEL_CANCELLED"}
TtsEnds == {"TTS_COMPLETED", "TTS_CANCELLED"}
CaptureEnds == {"TURN_COMMITTED", "STT_CANCELLED"}
EventTypes == ModelEnds \cup TtsEnds \cup CaptureEnds \cup {"TTS_STARTED"}

Timestamps == (0 .. now) \cup {None}
Identities == 1 .. drawn
Generations == 1 .. started
Event ==
    [type : EventTypes, turn : Identities \cup {None}, generation : Generations \cup {None}]

-----------------------------------------------------------------------------
(* Helpers of the class.                                                    *)

\* _ALLOWED_TRANSITIONS.
Allowed(from) ==
    CASE from = "IDLE" -> {"LISTENING", "COMMITTING", "ERROR", "OFFLINE"}
      [] from = "LISTENING" -> {"IDLE", "USER_SPEAKING", "ERROR", "OFFLINE"}
      [] from = "USER_SPEAKING" ->
            {"IDLE", "LISTENING", "ENDPOINT_CANDIDATE", "ERROR", "OFFLINE"}
      [] from = "ENDPOINT_CANDIDATE" ->
            {"IDLE", "USER_SPEAKING", "COMMITTING", "ERROR", "OFFLINE"}
      [] from = "COMMITTING" -> {"THINKING", "ERROR", "OFFLINE"}
      [] from = "THINKING" ->
            {"SPEAKING", "INTERRUPTION_CANDIDATE", "INTERRUPTED", "ERROR", "OFFLINE"}
      [] from = "SPEAKING" -> {"IDLE", "INTERRUPTION_CANDIDATE", "ERROR", "OFFLINE"}
      [] from = "INTERRUPTION_CANDIDATE" ->
            {"THINKING", "SPEAKING", "IDLE", "USER_SPEAKING", "INTERRUPTED",
             "RECOVERING", "ERROR", "OFFLINE"}
      [] from = "INTERRUPTED" -> {"USER_SPEAKING", "LISTENING", "ERROR", "OFFLINE"}
      [] from = "RECOVERING" ->
            {"SPEAKING", "THINKING", "IDLE", "INTERRUPTION_CANDIDATE", "INTERRUPTED",
             "ERROR", "OFFLINE"}
      [] from = "ERROR" -> {"IDLE", "LISTENING", "OFFLINE"}
      [] from = "OFFLINE" -> {"IDLE", "LISTENING", "ERROR"}

\* _transition: a target outside the table is an exception.
Transition(target) ==
    /\ target \in Allowed(state)
    /\ state' = target

\* Variants that show that the properties can fail are named after the
\* definition they change.
EventOf_Candidate(type) ==
    [type |-> type, turn |-> IF candidate = None THEN turn ELSE candidate,
     generation |-> generation]

\* _event: what the object's current identity, or the candidate's, is stamped on.
EventOf(type) == [type |-> type, turn |-> turn, generation |-> generation]

CandidateEvent_OfTurn(type) == EventOf(type)
CandidateEvent(type) == [type |-> type, turn |-> candidate, generation |-> None]

Return(es) ==
    /\ out' = es
    /\ past' = past \cup out

\* _candidate_stt_cancelled_event
CandidateCancelled ==
    IF state \in Tentative THEN {CandidateEvent("STT_CANCELLED")} ELSE {}

\* _clear_interruption_candidate
ClearInterruptionCandidate ==
    /\ interruption_started' = None
    /\ interruption_accumulated' = 0
    /\ recovery_started' = None
    /\ origin' = None
    /\ candidate' = None
    /\ vad_active' = FALSE

\* _reset_observation
ResetObservation ==
    /\ grade' = "uncertain"
    /\ speech_started' = None
    /\ speech_accumulated' = 0
    /\ silence_started' = None
    /\ ClearInterruptionCandidate

CandidateReturnState_StalePlayback == IF origin = None THEN "SPEAKING" ELSE origin

\* _candidate_return_state: a response whose playback ended meanwhile is over.
CandidateReturnState ==
    LET from == IF origin = None THEN "SPEAKING" ELSE origin
    IN  IF from = "SPEAKING" /\ ~tts_active THEN "IDLE" ELSE from

\* _elapsed_since
ElapsedSince(start) == IF start = None THEN 0 ELSE now - start

\* _endpoint_threshold_ms
EndpointThreshold ==
    CASE grade = "sentence" -> TentativeSilence
      [] grade = "final" -> NormalSilence
      [] OTHER -> UncertainSilence

\* self._id_factory(), or an identity the caller has just drawn.
DrawIdentity ==
    /\ drawn < MaxTurns
    /\ drawn' = drawn + 1

CandidateIdentity_OfTurn == turn

\* The identity _begin_interruption gives the possible new turn.
CandidateIdentity == drawn + 1

EndResponse_KeepsFlags ==
    /\ generation' = None
    /\ UNCHANGED <<model_active, tts_active, started>>

\* The three assignments of every method that starts another turn.
EndResponse ==
    /\ generation' = None
    /\ model_active' = FALSE
    /\ tts_active' = FALSE
    /\ UNCHANGED started

-----------------------------------------------------------------------------
Init ==
    /\ now = 0
    /\ state = "IDLE"
    /\ turn = None
    /\ generation = None
    /\ grade = "uncertain"
    /\ speech_started = None
    /\ speech_accumulated = 0
    /\ silence_started = None
    /\ vad_active = FALSE
    /\ interruption_started = None
    /\ interruption_accumulated = 0
    /\ recovery_started = None
    /\ origin = None
    /\ candidate = None
    /\ model_active = FALSE
    /\ tts_active = FALSE
    /\ drawn = 0
    /\ started = 0
    /\ out = {}
    /\ past = {}

\* _check_time: each call carries a timestamp at or after the previous one.
Tick ==
    /\ now < MaxTime
    /\ now' = now + 1
    /\ Return({})
    /\ UNCHANGED <<state, turn, drawn, observation, vad_active, tentative, response>>

StartListening ==
    /\ state \in {"IDLE", "ERROR", "OFFLINE"}
    /\ DrawIdentity
    /\ turn' = drawn'
    /\ EndResponse
    /\ ResetObservation
    /\ Transition("LISTENING")
    /\ Return({})
    /\ UNCHANGED now

\* A typed turn is a final transcript of confidence 1.0; its text decides the grade.
AcceptTextTurn ==
    /\ state = "IDLE"
    /\ DrawIdentity
    /\ turn' = drawn'
    /\ EndResponse
    /\ grade' \in {"sentence", "final"}
    /\ speech_started' = None
    /\ speech_accumulated' = 0
    /\ silence_started' = None
    /\ ClearInterruptionCandidate
    /\ Transition("COMMITTING")
    /\ Return({})
    /\ UNCHANGED now

CancelInput ==
    /\ state \in Capturing
    /\ Return({EventOf("STT_CANCELLED")})
    /\ ResetObservation
    /\ Transition("IDLE")
    /\ UNCHANGED <<now, turn, drawn, response>>

-----------------------------------------------------------------------------
(* on_vad, by the branch the code takes.                                    *)

BeginSpeech_Unheard ==
    /\ speech_started' = now
    /\ UNCHANGED vad_active

\* _begin_speech
BeginSpeech ==
    /\ vad_active' = TRUE
    /\ speech_started' = now

VadSpeechStarts ==
    /\ state = "LISTENING"
    /\ BeginSpeech
    /\ Transition("USER_SPEAKING")
    /\ UNCHANGED <<grade, speech_accumulated, silence_started, tentative>>

\* _end_speech, then the minimum-speech decision.
SpeechTotal == speech_accumulated + ElapsedSince(speech_started)

VadSpeechEnds ==
    /\ state = "USER_SPEAKING"
    /\ vad_active
    /\ SpeechTotal >= MinSpeech
    /\ speech_accumulated' = SpeechTotal
    /\ speech_started' = None
    /\ vad_active' = FALSE
    /\ silence_started' = now
    /\ Transition("ENDPOINT_CANDIDATE")
    /\ UNCHANGED <<grade, tentative>>

VadSpeechTooShort ==
    /\ state = "USER_SPEAKING"
    /\ vad_active
    /\ SpeechTotal < MinSpeech
    /\ ResetObservation
    /\ Transition("LISTENING")

VadSpeechResumes ==
    /\ state = "ENDPOINT_CANDIDATE"
    /\ BeginSpeech
    /\ silence_started' = None
    /\ Transition("USER_SPEAKING")
    /\ UNCHANGED <<grade, speech_accumulated, tentative>>

\* _begin_interruption draws an identity for the possible new turn.
VadOpensCandidate ==
    /\ state \in {"SPEAKING", "THINKING"}
    /\ origin' = state
    /\ vad_active' = TRUE
    /\ interruption_started' = now
    /\ interruption_accumulated' = 0
    /\ recovery_started' = None
    /\ candidate' = CandidateIdentity
    /\ Transition("INTERRUPTION_CANDIDATE")
    /\ UNCHANGED observation

VadResumesCandidate ==
    /\ state = "RECOVERING"
    /\ vad_active' = TRUE
    /\ interruption_started' = now
    /\ recovery_started' = None
    /\ Transition("INTERRUPTION_CANDIDATE")
    /\ UNCHANGED <<observation, interruption_accumulated, origin, candidate>>

VadDoubtsCandidate ==
    /\ state = "INTERRUPTION_CANDIDATE"
    /\ interruption_accumulated' =
            interruption_accumulated + ElapsedSince(interruption_started)
    /\ interruption_started' = None
    /\ vad_active' = FALSE
    /\ recovery_started' = now
    /\ Transition("RECOVERING")
    /\ UNCHANGED <<observation, origin, candidate>>

OnVad ==
    /\ \/ /\ \/ VadSpeechStarts
             \/ VadSpeechEnds
             \/ VadSpeechTooShort
             \/ VadSpeechResumes
             \/ VadResumesCandidate
             \/ VadDoubtsCandidate
          /\ UNCHANGED drawn
       \/ VadOpensCandidate /\ DrawIdentity
    /\ Return({})
    /\ UNCHANGED <<now, turn, response>>

-----------------------------------------------------------------------------
(* Transcripts and the interruption decision.                               *)

\* _confirm_interruption: the events keep the old identity, the object takes
\* the candidate's, and the candidate's speech becomes the new turn's.  The
\* stop at INTERRUPTED is inside the call.  "candidate_silence or at_ms" takes
\* the current time for a silence that began at 0.
ConfirmInterruption(text) ==
    LET ended == state = "RECOVERING"
    IN  /\ "INTERRUPTED" \in Allowed(state)
        /\ Return((IF model_active THEN {EventOf("MODEL_CANCELLED")} ELSE {})
                  \cup (IF tts_active THEN {EventOf("TTS_CANCELLED")} ELSE {}))
        /\ turn' = candidate
        /\ EndResponse
        /\ grade' = text
        /\ speech_accumulated' = interruption_accumulated
        /\ speech_started' = IF ended THEN None ELSE interruption_started
        /\ silence_started' = IF ~ended THEN None
                              ELSE IF recovery_started \in {None, 0} THEN now
                              ELSE recovery_started
        /\ vad_active' = ~ended
        /\ interruption_started' = None
        /\ interruption_accumulated' = 0
        /\ recovery_started' = None
        /\ origin' = None
        /\ candidate' = None
        /\ state' = IF ended THEN "ENDPOINT_CANDIDATE" ELSE "USER_SPEAKING"
        /\ UNCHANGED <<now, drawn>>

\* on_transcript.  Outside a tentative interruption the text replaces the
\* transcript whatever the state; inside one it decides it, or is only kept.
OnTranscript(text, credible) ==
    \/ /\ state \notin Tentative
       /\ grade' = text
       /\ Return({})
       /\ UNCHANGED <<now, state, turn, drawn, speech_started, speech_accumulated,
                      silence_started, vad_active, tentative, response>>
    \/ /\ state \in Tentative
       /\ credible
       /\ ConfirmInterruption(text)

\* reject_interruption
RejectInterruption ==
    /\ state \in Tentative
    /\ Return(CandidateCancelled)
    /\ Transition(CandidateReturnState)
    /\ ClearInterruptionCandidate
    /\ UNCHANGED <<now, turn, drawn, observation, response>>

-----------------------------------------------------------------------------
(* Time.                                                                    *)

\* _commit
Commit ==
    /\ Return({EventOf("TURN_COMMITTED")})
    /\ state' = "COMMITTING"
    /\ UNCHANGED <<now, turn, drawn, tentative, response>>

OnTimeCommits ==
    /\ state = "ENDPOINT_CANDIDATE"
    /\ \/ ElapsedSince(silence_started) >= EndpointThreshold
       \/ ElapsedSince(silence_started) >= MaxEndpointWait
    /\ Commit
    /\ UNCHANGED <<observation, vad_active>>

OnTimeRecovers ==
    /\ state = "RECOVERING"
    /\ ElapsedSince(recovery_started) >= RecoveryWait
    /\ Return(CandidateCancelled)
    /\ Transition(CandidateReturnState)
    /\ ClearInterruptionCandidate
    /\ UNCHANGED <<now, turn, drawn, observation, response>>

\* on_maximum_duration closes open speech before it commits.
OnMaximumDuration ==
    \/ /\ state = "USER_SPEAKING"
       /\ speech_accumulated' = SpeechTotal
       /\ speech_started' = None
       /\ vad_active' = FALSE
       /\ silence_started' = now
       /\ Commit
       /\ UNCHANGED grade
    \/ /\ state = "ENDPOINT_CANDIDATE"
       /\ Commit
       /\ UNCHANGED <<observation, vad_active>>

-----------------------------------------------------------------------------
(* The response: model, playback, errors, the audio device.                 *)

\* on_model_started, with the generation the runtime has just drawn.
OnModelStarted ==
    /\ state = "COMMITTING"
    /\ started < MaxGenerations
    /\ started' = started + 1
    /\ generation' = started'
    /\ model_active' = TRUE
    /\ Transition("THINKING")
    /\ Return({})
    /\ UNCHANGED <<now, turn, drawn, observation, vad_active, tentative, tts_active>>

OnModelCompleted(g) ==
    /\ g = generation
    /\ model_active
    /\ model_active' = FALSE
    /\ Return({EventOf("MODEL_COMPLETED")})
    /\ UNCHANGED <<now, state, turn, drawn, observation, vad_active, tentative,
                   generation, tts_active, started>>

OnTtsStarted(g) ==
    /\ g = generation
    /\ \/ /\ state \in Tentative
          /\ origin = "THINKING"
          /\ origin' = "SPEAKING"
          /\ UNCHANGED state
       \/ /\ state = "THINKING"
          /\ Transition("SPEAKING")
          /\ UNCHANGED origin
    /\ tts_active' = TRUE
    /\ Return({EventOf("TTS_STARTED")})
    /\ UNCHANGED <<now, turn, drawn, observation, vad_active, generation,
                   interruption_started, interruption_accumulated, recovery_started,
                   candidate, model_active, started>>

\* on_tts_completed: an open candidate outlives the playback it began under,
\* a doubted one does not.
OnTtsCompleted(g) ==
    /\ g = generation
    /\ tts_active
    /\ tts_active' = FALSE
    /\ model_active' = FALSE
    /\ \/ /\ state = "INTERRUPTION_CANDIDATE"
          /\ Return({EventOf("TTS_COMPLETED")})
          /\ UNCHANGED <<state, vad_active, tentative>>
       \/ /\ state = "RECOVERING"
          /\ Return({EventOf("TTS_COMPLETED")} \cup CandidateCancelled)
          /\ Transition("IDLE")
          /\ ClearInterruptionCandidate
       \/ /\ state = "SPEAKING"
          /\ Return({EventOf("TTS_COMPLETED")})
          /\ Transition("IDLE")
          /\ UNCHANGED <<vad_active, tentative>>
    /\ UNCHANGED <<now, turn, drawn, observation, generation, started>>

OnTtsCancelled(g) ==
    /\ g = generation
    /\ tts_active
    /\ state \in Tentative \cup {"SPEAKING"}
    /\ Return({EventOf("TTS_CANCELLED")} \cup CandidateCancelled)
    /\ tts_active' = FALSE
    /\ model_active' = FALSE
    /\ ClearInterruptionCandidate
    /\ Transition("IDLE")
    /\ UNCHANGED <<now, turn, drawn, observation, generation, started>>

\* on_component_error and on_audio_lost leave the response's flags and the
\* candidate's fields as they are; start_listening and accept_text_turn reset them.
OnComponentError ==
    /\ Return(CandidateCancelled)
    /\ Transition("ERROR")
    /\ UNCHANGED <<now, turn, drawn, observation, vad_active, tentative, response>>

OnAudioLost ==
    /\ state # "OFFLINE"
    /\ Return(CandidateCancelled)
    /\ Transition("OFFLINE")
    /\ UNCHANGED <<now, turn, drawn, observation, vad_active, tentative, response>>

OnAudioRestored ==
    /\ state = "OFFLINE"
    /\ Return({})
    /\ Transition("IDLE")
    /\ UNCHANGED <<now, turn, drawn, observation, vad_active, tentative, response>>

-----------------------------------------------------------------------------
Next ==
    \/ Tick
    \/ StartListening \/ AcceptTextTurn \/ CancelInput
    \/ OnVad
    \/ \E text \in Grades, credible \in BOOLEAN : OnTranscript(text, credible)
    \/ RejectInterruption
    \/ OnTimeCommits \/ OnTimeRecovers \/ OnMaximumDuration
    \/ OnModelStarted
    \/ \E g \in Generations :
          OnModelCompleted(g) \/ OnTtsStarted(g) \/ OnTtsCompleted(g) \/ OnTtsCancelled(g)
    \/ OnComponentError \/ OnAudioLost \/ OnAudioRestored

Spec == Init /\ [][Next]_vars

-----------------------------------------------------------------------------
(* Properties.                                                              *)

ControlTypes ==
    /\ state \in States \ {"INTERRUPTED"}
    /\ origin \in {"THINKING", "SPEAKING", None}
    /\ grade \in Grades
    /\ vad_active \in BOOLEAN
    /\ model_active \in BOOLEAN
    /\ tts_active \in BOOLEAN

ClockTypes ==
    /\ now \in Nat
    /\ speech_accumulated \in Nat
    /\ interruption_accumulated \in Nat
    /\ speech_started \in Timestamps
    /\ silence_started \in Timestamps
    /\ interruption_started \in Timestamps
    /\ recovery_started \in Timestamps

IdentityTypes ==
    /\ drawn \in Nat
    /\ started \in Nat
    /\ turn \in Identities \cup {None}
    /\ candidate \in Identities \cup {None}
    /\ generation \in Generations \cup {None}

EventsTyped ==
    /\ out \subseteq Event
    /\ past \subseteq Event

\* Every variable keeps its type; no timestamp lies in the future, no identity
\* is used before it is drawn, and every event names drawn identities.
TypeInv == ControlTypes /\ ClockTypes /\ IdentityTypes /\ EventsTyped

\* A state that waits for a duration has the timestamp the duration is counted
\* from: _elapsed_since answers 0 for a missing one, and a silence or a recovery
\* that was never started would never end.  Speech that is open is being heard:
\* on_vad ignores silence in USER_SPEAKING when _vad_active is false, so a
\* promoted interruption that lost its flag could never be endpointed.
ClockAnchors ==
    /\ state = "USER_SPEAKING" => vad_active /\ speech_started # None
    /\ state = "ENDPOINT_CANDIDATE" => ~vad_active /\ silence_started # None
    /\ state = "INTERRUPTION_CANDIDATE" =>
          vad_active /\ interruption_started # None /\ recovery_started = None
    /\ state = "RECOVERING" => ~vad_active /\ recovery_started # None

\* The state and the response's flags tell the same story, through candidates
\* that open before, during and after playback: the object says SPEAKING only
\* while playback runs, THINKING only before it, and while it captures or
\* commits the user's words no response is attached to it.
ResponseMatchesState ==
    /\ state = "SPEAKING" => generation # None /\ tts_active
    /\ state = "THINKING" => generation # None /\ ~tts_active
    /\ state \in Tentative => generation # None /\ origin # None /\ candidate # None
    /\ state \in Tentative /\ origin = "THINKING" => ~tts_active
    /\ state \in Capturing \cup {"COMMITTING"} =>
          generation = None /\ ~model_active /\ ~tts_active

\* A tentative interruption never shares the identity of the response it may
\* interrupt, so rejecting it cannot cancel that response.
CandidateIsSeparate ==
    state \in Tentative => candidate # turn

\* A generation's model run ends at most once, and so does its playback, which
\* ends only after it started; completion, interruption, cancellation and
\* late answers for older generations included.
ResponseEndsOnce ==
    \A e \in out :
        /\ e.type \in ModelEnds =>
              \A p \in past : p.type \in ModelEnds => p.generation # e.generation
        /\ e.type \in TtsEnds =>
              /\ \A p \in past : p.type \in TtsEnds => p.generation # e.generation
              /\ \E p \in past : p.type = "TTS_STARTED" /\ p.generation = e.generation

\* A capture, the user's or a tentative interruption's, is committed or
\* cancelled, never both and never twice.
CaptureEndsOnce ==
    \A e \in out :
        e.type \in CaptureEnds =>
            \A p \in past : p.type \in CaptureEnds => p.turn # e.turn

\* One end for each, whatever comes late or twice (_end_response, cancel_input).
EachEndsOnce == ResponseEndsOnce /\ CaptureEndsOnce

\* The events of one generation all carry the turn that generation answers,
\* even those returned by the call that already moved the object to the
\* interrupting turn.
EventsKeepTheirTurn ==
    \A e, f \in out \cup past :
        e.generation # None /\ e.generation = f.generation => e.turn = f.turn

\* Identities are never mixed up, neither of what is going on nor of what was
\* published about it: what rejects an interruption misses the response, and
\* what is told of a response tells of its turn (_begin_interruption, _event).
IdentitiesAreSeparate == CandidateIsSeparate /\ EventsKeepTheirTurn

-----------------------------------------------------------------------------
(* The inductive invariant.  The properties about returned events compare   *)
(* the latest call with the calls before it; they follow from what the      *)
(* flags and the state say about every event returned so far.               *)

Seen == out \cup past

\* Events stamped with the current generation carry the current turn.
GenerationHasTurn ==
    generation # None => \A e \in Seen : e.generation = generation => e.turn = turn

\* A run or a playback that is marked active has not ended.
ActiveHasNotEnded ==
    /\ model_active =>
          /\ generation # None
          /\ \A e \in Seen : e.type \in ModelEnds => e.generation # generation
    /\ tts_active =>
          /\ generation # None
          /\ \A e \in Seen : e.type \in TtsEnds => e.generation # generation
          /\ \E e \in Seen : e.type = "TTS_STARTED" /\ e.generation = generation

\* A response that still waits for its playback has never had one.
WaitsForPlayback ==
    state = "THINKING" \/ (state \in Tentative /\ origin = "THINKING") =>
        \A e \in Seen : e.type \in TtsEnds => e.generation # generation

\* An open capture has not been committed or cancelled.
OpenCaptureHasNotEnded ==
    /\ state \in Capturing =>
          /\ turn # None
          /\ \A e \in Seen : e.type \in CaptureEnds => e.turn # turn
    /\ state \in Tentative =>
          \A e \in Seen : e.type \in CaptureEnds => e.turn # candidate

HistoryInv ==
    /\ GenerationHasTurn
    /\ ActiveHasNotEnded
    /\ WaitsForPlayback
    /\ OpenCaptureHasNotEnded

IInv ==
    /\ TypeInv
    /\ ClockAnchors /\ ResponseMatchesState /\ CandidateIsSeparate
    /\ HistoryInv
    /\ ResponseEndsOnce /\ CaptureEndsOnce /\ EventsKeepTheirTurn

=============================================================================
