-------------------------- MODULE SpeechRecognition --------------------------
(***************************************************************************)
(* Speech to text through a local whisper.cpp server                       *)
(* (adapters/stt/whisper_cpp.py): an answering server is used as it is, an *)
(* absent one is started, owned and stopped again; utterances are streams  *)
(* that are finalised by one request, or by a second one in the language   *)
(* the conversation is in when the first detected none with confidence.    *)
(* The voice loop and a response's monitor share the adapter, and with it  *)
(* the language heard last.                                                *)
(***************************************************************************)
EXTENDS Naturals

CONSTANTS
    Streams,        \* the utterances of one behaviour
    Languages,      \* languages the server may detect
    Preferred,      \* preferred_languages
    MaxFrames       \* max_audio_seconds, in frames

VARIABLES
    service,        \* who answers on the port: "nobody", "foreign", "unready", "own"
    child,          \* the process: "none", "running", "terminated"
    owned,          \* whether _process refers to it
    startup,        \* where ensure_ready or aclose is
    recent,         \* _recent_language
    streams         \* the utterances

sttVars == <<service, child, owned, startup, recent, streams>>
serverVars == <<service, child, owned, startup>>

NewStream == [at |-> "none", auto |-> TRUE, frames |-> 0, detected |-> "none",
              confident |-> FALSE, blank |-> FALSE]

SttInit ==
    /\ service \in {"nobody", "foreign", "unready"}
    /\ child = "none" /\ owned = FALSE /\ startup = "none" /\ recent = "none"
    /\ streams = [s \in Streams |-> NewStream]

-----------------------------------------------------------------------------
(* ensure_ready, called once when the core is put together *)

IsReady == service \in {"foreign", "own"}

Probe ==
    /\ startup = "none"
    /\ startup' = CASE IsReady -> "ready"
                    [] service = "unready" -> "failed"
                    [] OTHER -> "launching"
    /\ UNCHANGED <<service, child, owned, recent, streams>>

Launch ==
    /\ startup = "launching"
    /\ \/ child' = "running" /\ owned' = TRUE /\ startup' = "waiting"
       \/ startup' = "failed" /\ UNCHANGED <<child, owned>>
    /\ UNCHANGED <<service, recent, streams>>

\* The child listens, or another server took the port meanwhile.
ServiceAppears ==
    /\ service = "nobody" /\ startup # "none"
    /\ \/ child = "running" /\ service' = "own"
       \/ service' \in {"foreign", "unready"}
    /\ UNCHANGED <<child, owned, startup, recent, streams>>

ChildExits ==
    /\ child \in {"running", "terminated"} /\ child' = "none"
    /\ service' = IF service = "own" THEN "nobody" ELSE service
    /\ UNCHANGED <<owned, startup, recent, streams>>

PollsReady ==
    /\ startup = "waiting" /\ child = "running" /\ IsReady
    /\ startup' = "ready"
    /\ UNCHANGED <<service, child, owned, recent, streams>>

\* The child exited, another server is not ready, the time is up, or the task is
\* cancelled: every way out stops what was started.
AbandonsStartup_UnlessTimeout == startup' \in {"stopping", "failed"}
AbandonsStartup == startup' = "stopping"

StartupFails ==
    /\ startup = "waiting" /\ AbandonsStartup
    /\ UNCHANGED <<service, child, owned, recent, streams>>

\* aclose, after a failed start or when the runtime closes.
Close ==
    /\ startup \in {"ready", "failed"} /\ startup' = "stopping"
    /\ UNCHANGED <<service, child, owned, recent, streams>>

\* _stop_owned_process forgets the process before it terminates it.
Terminate ==
    /\ startup = "stopping" /\ owned
    /\ owned' = FALSE
    /\ child' = IF child = "running" THEN "terminated" ELSE child
    /\ UNCHANGED <<service, startup, recent, streams>>

Stopped ==
    /\ startup = "stopping" /\ ~owned
    /\ startup' = "closed"
    /\ UNCHANGED <<service, child, owned, recent, streams>>

-----------------------------------------------------------------------------
(* Utterances *)

Set(s, r) == streams' = [streams EXCEPT ![s] = r]

StartStream(s, auto) ==
    /\ startup = "ready" /\ streams[s].at = "none"
    /\ Set(s, [NewStream EXCEPT !.at = "open", !.auto = auto])
    /\ UNCHANGED <<serverVars, recent>>

\* Audio over the limit ends the utterance.
PushAudio(s) ==
    /\ streams[s].at = "open"
    /\ Set(s, IF streams[s].frames = MaxFrames
              THEN [streams[s] EXCEPT !.at = "failed"]
              ELSE [streams[s] EXCEPT !.frames = @ + 1])
    /\ UNCHANGED <<serverVars, recent>>

Finalize(s) ==
    /\ streams[s].at = "open"
    /\ Set(s, [streams[s] EXCEPT !.at = IF streams[s].frames = 0 THEN "failed" ELSE "asking"])
    /\ UNCHANGED <<serverVars, recent>>

\* The language a doubtful utterance is heard in: the last one heard, or the
\* preferred one that scored best, for which any that was not detected may stand.
Fallback(d) == CASE recent # "none" -> recent
                 [] d \in Preferred -> d
                 [] OTHER -> CHOOSE p \in Preferred : TRUE

\* Only a confident detection of words changes the language of the conversation.
Evidence(r) == r.auto /\ r.detected # "none" /\ r.confident /\ ~r.blank
Heard_Selected(r) == IF r.auto /\ r.detected # "none" /\ ~r.blank
                     THEN (IF r.confident THEN r.detected ELSE Fallback(r.detected)) ELSE recent
Heard(r) == IF Evidence(r) THEN r.detected ELSE recent

\* The first answer; older servers leave the detection out.  A doubtful one is
\* asked for again, unless it said nothing.
Answered(s, detected, confident, blank) ==
    /\ streams[s].at = "asking" /\ service # "nobody"
    /\ LET r == [streams[s] EXCEPT !.detected = detected, !.confident = confident,
                                   !.blank = blank, !.frames = 0]
           again == /\ ~blank /\ r.auto /\ detected # "none" /\ ~confident
                    /\ detected # Fallback(detected)
       IN IF again
          THEN Set(s, [r EXCEPT !.at = "again", !.frames = streams[s].frames])
               /\ UNCHANGED recent
          ELSE Set(s, [r EXCEPT !.at = "done"]) /\ recent' = Heard(r)
    /\ UNCHANGED serverVars

AnsweredAgain(s, blank) ==
    /\ streams[s].at = "again" /\ service # "nobody"
    /\ LET r == [streams[s] EXCEPT !.at = "done", !.blank = blank, !.frames = 0]
       IN Set(s, r) /\ recent' = Heard(r)
    /\ UNCHANGED serverVars

\* Cancelled in the request or before it, timed out, too long or not an answer.
StreamFails(s) ==
    /\ streams[s].at \in {"open", "asking", "again"}
    /\ Set(s, [streams[s] EXCEPT !.at = "failed", !.frames = 0])
    /\ UNCHANGED <<serverVars, recent>>

-----------------------------------------------------------------------------
SttNext ==
    \/ Probe \/ Launch \/ ServiceAppears \/ ChildExits \/ PollsReady \/ StartupFails
    \/ Close \/ Terminate \/ Stopped
    \/ \E s \in Streams :
          \/ \E auto \in BOOLEAN : StartStream(s, auto)
          \/ PushAudio(s) \/ Finalize(s) \/ StreamFails(s)
          \/ \E d \in Languages \cup {"none"}, confident, blank \in BOOLEAN :
                Answered(s, d, confident, blank)
          \/ \E blank \in BOOLEAN : AnsweredAgain(s, blank)

SttSpec == SttInit /\ [][SttNext]_sttVars

-----------------------------------------------------------------------------
\* The language the next doubtful utterance is forced into was itself heard with
\* confidence, in words, by an utterance that was not cancelled; a forced answer
\* is no evidence for itself (WhisperCppServerSTT.transcribe).
LanguageHasEvidence ==
    recent = "none" \/ \E s \in Streams : /\ streams[s].at = "done"
                                          /\ Evidence(streams[s])
                                          /\ streams[s].detected = recent

\* No server Sam started runs on when nobody would stop it: _process names it as
\* long as it has not been told to end, and a start that failed has told it
\* (ensure_ready and _stop_owned_process).
ServerIsStoppedWithSam ==
    /\ child = "running" => owned
    /\ startup = "failed" => child # "running"

-----------------------------------------------------------------------------
(* The inductive invariant of the two                                       *)

Utterance == [at : {"none", "open", "asking", "again", "done", "failed"}, auto : BOOLEAN,
              frames : Nat, detected : Languages \cup {"none"}, confident : BOOLEAN,
              blank : BOOLEAN]
StreamTypes == streams \in [Streams -> Utterance]

\* Before the server is launched there is no process.
ServerIsNotStarted == startup \in {"none", "launching"} => child # "running"

RecognitionInv ==
    StreamTypes /\ ServerIsNotStarted /\ LanguageHasEvidence /\ ServerIsStoppedWithSam
=============================================================================
