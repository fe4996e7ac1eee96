----------------------------- MODULE VoiceSession -----------------------------
(***************************************************************************)
(* Who listens to the microphone and whose turn is next: the voice loop    *)
(* with its VoiceInputPipeline, the monitors that listen for barge-in      *)
(* while a response runs, the handoff of a committed voice turn and its    *)
(* race with typed messages (runtime.py, core/voice/pipeline.py).          *)
(*                                                                         *)
(* An identity is a cancellation token and the turn it may become.  One is *)
(* drawn when the loop listens, when a message is typed and when a barge-in*)
(* is suspected.  A manager is the TurnManager object made with it, of     *)
(* which the phases are kept that the tasks look at:                       *)
(*   idle       IDLE, ERROR, OFFLINE                                       *)
(*   listening  LISTENING                                                  *)
(*   speech     USER_SPEAKING, ENDPOINT_CANDIDATE                          *)
(*   committing COMMITTING                                                 *)
(*   response   THINKING, SPEAKING                                         *)
(*   candidate  INTERRUPTION_CANDIDATE, RECOVERING                         *)
(* Module TurnManager has all of it.  A step is what a task does from one  *)
(* await to the next; awaits of publications that find room are none.      *)
(***************************************************************************)
EXTENDS Naturals, Sequences, FiniteSets

CONSTANTS
    MaxIds,         \* bound: identities 1 .. MaxIds are drawn
    MaxTroubles     \* bound: microphone switches, stops and failures

VARIABLES
    drawn,          \* identities drawn so far
    cancelled,      \* tokens that are cancelled
    manager,        \* the TurnManager objects; 0 is the one made at start-up
    voiceTurns,     \* self.voice_turns
    micOn,          \* _microphone_enabled and controls.microphone_enabled
    listenToken,    \* _voice_listen_token, 0 for None
    ordinary,       \* _voice_ordinary_capture_enabled
    owner,          \* _voice_monitor_owner, 0 for None
    active,         \* _active_generation_id; 0 while _active_done is set
    epoch,          \* _generation_epoch
    handoff,        \* who holds _generation_handoff_lock
    response,       \* the task of each turn and the manager it reports to
    listener,       \* the voice loop, and the monitor of each typed response
    failures,       \* _voice_restart_failures
    troubles,       \* bound: switches, stops and failures so far
    openStreams,    \* history: STT streams neither finalised nor cancelled
    asked,          \* history: turns in the order their owner asked for them
    replacedBy      \* history: the turn each was cancelled for as predecessor

voiceVars == <<drawn, cancelled, manager, voiceTurns, micOn, listenToken,
               ordinary, owner, active, epoch, handoff, response, listener,
               failures, troubles, openStreams, asked, replacedBy>>

Ids == 1 .. MaxIds
Loop == 0
Listeners == {Loop} \cup Ids
MaxAttempts == 2        \* of the voice loop, and attempts of a monitor

NoListener == [pc |-> "off", manager |-> 0, token |-> 0, stream |-> "none",
               turn |-> 0, after |-> "none", epoch |-> 0, tries |-> 0]

VoiceInit ==
    /\ drawn = 0 /\ cancelled = {}
    /\ manager = [m \in Listeners |-> [state |-> "idle", turn |-> m, candidate |-> 0]]
    /\ voiceTurns = 0
    /\ micOn = TRUE /\ listenToken = 0 /\ ordinary = TRUE /\ owner = 0
    /\ active = 0 /\ epoch = 0 /\ handoff = {}
    /\ response = [t \in Ids |-> [pc |-> "none", manager |-> 0]]
    /\ listener = [k \in Listeners |->
                      IF k = Loop THEN [NoListener EXCEPT !.pc = "top"] ELSE NoListener]
    /\ failures = 0 /\ troubles = 0
    /\ openStreams = {} /\ asked = <<>>
    /\ replacedBy = [t \in Ids |-> 0]

At(k, pc) == listener[k].pc = pc
Goto(k, pc) == listener' = [listener EXCEPT ![k].pc = pc]
StateOf(k) == manager[listener[k].manager].state
Over(t) == response[t].pc = "done"

turnVars == <<voiceTurns, active, epoch, handoff, response, asked, replacedBy>>
flagVars == <<micOn, listenToken, ordinary, owner, failures>>

Trouble == troubles < MaxTroubles /\ troubles' = troubles + 1

\* _cancel_predecessor: whoever is active is told to stop.
Replace(t) ==
    /\ cancelled' = cancelled \cup ({active} \ {0})
    /\ replacedBy' = [u \in Ids |-> IF u = active THEN t ELSE replacedBy[u]]

-----------------------------------------------------------------------------
(* What the owner does *)

\* Variant: the loop is only told by its token.
TakeMicrophone_OnlyOwner(t) == owner' = t /\ UNCHANGED ordinary

TakeMicrophone(t) == owner' = t /\ ordinary' = FALSE

\* submit_user_message.  With the microphone on, the response gets a manager and
\* a monitor, and the loop has to stop listening.
SubmitTyped ==
    /\ drawn < MaxIds
    /\ LET t == drawn + 1
       IN /\ drawn' = t
          /\ active' = t /\ epoch' = epoch + 1
          /\ asked' = Append(asked, t)
          /\ response' = [response EXCEPT ![t] =
                 [pc |-> "queued", manager |-> IF micOn THEN t ELSE 0]]
          /\ replacedBy' = [u \in Ids |-> IF u = active THEN t ELSE replacedBy[u]]
          /\ cancelled' = cancelled \cup
                 (({active} \cup (IF micOn THEN {listenToken} ELSE {})) \ {0})
          /\ IF micOn
             THEN /\ TakeMicrophone(t)
                  /\ listener' = [listener EXCEPT ![t] =
                         [NoListener EXCEPT !.pc = "await", !.manager = t, !.turn = t]]
             ELSE UNCHANGED <<owner, ordinary, listener>>
    /\ UNCHANGED <<troubles, manager, voiceTurns, micOn, listenToken, handoff, failures, openStreams>>

\* _set_microphone; a loop that has returned is started again.
SetMicrophone ==
    /\ Trouble
    /\ micOn' = ~micOn
    /\ cancelled' = IF micOn THEN cancelled \cup ({listenToken} \ {0}) ELSE cancelled
    /\ IF ~micOn /\ At(Loop, "off")
       THEN Goto(Loop, "top") /\ failures' = 0
       ELSE UNCHANGED <<listener, failures>>
    /\ UNCHANGED <<turnVars, drawn, manager, listenToken, ordinary, owner, openStreams>>

\* _cancel_active with MODEL_GENERATION.
StopResponse ==
    /\ Trouble
    /\ active # 0 /\ active \notin cancelled
    /\ cancelled' = cancelled \cup {active}
    /\ UNCHANGED <<turnVars, flagVars, drawn, manager, listener, openStreams>>

-----------------------------------------------------------------------------
(* The task of a turn; module GenerationHandoff has all of it *)

Respond(t, pc) == response' = [response EXCEPT ![t].pc = pc]

Cleared(t) == active' = IF active = t THEN 0 ELSE active

\* _run_turn_after_predecessor and the start of _run_turn.
TurnBegins(t) ==
    /\ response[t].pc = "queued"
    /\ IF t \in cancelled
       THEN /\ Respond(t, "done") /\ Cleared(t)
            /\ UNCHANGED <<voiceTurns, manager>>
       ELSE LET m == response[t].manager
            IN /\ UNCHANGED active
               /\ IF m = t /\ manager[m].state = "idle"
                  THEN /\ voiceTurns' = t
                       /\ manager' = [manager EXCEPT ![m].state = "committing"]
                       /\ Respond(t, "accepted")
                  ELSE /\ Respond(t, "accepted")
                       /\ UNCHANGED <<voiceTurns, manager>>
    /\ UNCHANGED <<troubles, flagVars, drawn, cancelled, epoch, handoff, listener,
                   openStreams, asked, replacedBy>>

\* on_model_started refuses a manager that is not COMMITTING; start_generation.
TurnStarts(t) ==
    /\ response[t].pc = "accepted"
    /\ LET m == response[t].manager
       IN IF m # 0 /\ manager[m].state # "committing"
          THEN Respond(t, "done") /\ Cleared(t) /\ UNCHANGED manager
          ELSE /\ Respond(t, "running") /\ UNCHANGED active
               /\ manager' = IF m = 0 THEN manager
                             ELSE [manager EXCEPT ![m].state = "response", ![m].turn = t]
    /\ UNCHANGED <<troubles, flagVars, drawn, cancelled, voiceTurns, epoch, handoff,
                   listener, openStreams, asked, replacedBy>>

\* It is answered, fails or is stopped.  A turn that is stopped while it thinks
\* leaves its manager as it is; playback that is stopped ends a candidate.
TurnEnds(t) ==
    /\ response[t].pc = "running"
    /\ Respond(t, "done") /\ Cleared(t)
    /\ LET m == response[t].manager
           its == IF m # 0 /\ manager[m].turn = t THEN manager[m].state ELSE "other"
       IN \/ /\ its = "response"
             /\ manager' = [manager EXCEPT ![m].state = "idle"]
             /\ UNCHANGED cancelled
          \/ /\ its = "candidate"
             /\ manager' = [manager EXCEPT ![m].state = "idle", ![m].candidate = 0]
             /\ cancelled' = cancelled \cup {manager[m].candidate}
          \/ /\ its = "response" => t \in cancelled
             /\ UNCHANGED <<manager, cancelled>>
    /\ UNCHANGED <<troubles, flagVars, drawn, voiceTurns, epoch, handoff, listener,
                   openStreams, asked, replacedBy>>

-----------------------------------------------------------------------------
(* The voice loop and its pipeline *)

\* The awaits at the top of the loop; the microphone is looked at first only.
NextWait ==
    IF ~micOn THEN "mic" ELSE IF ~ordinary THEN "ordinary"
    ELSE IF active # 0 THEN "idle" ELSE "listen"

\* An await that was released, and those that follow it.
WaitAfter(pc) ==
    IF pc = "micSet" /\ ~ordinary THEN "ordinary"
    ELSE IF pc \in {"micSet", "ordinarySet"} /\ active # 0 THEN "idle"
    ELSE IF pc = "top" \/ ~ordinary \/ active # 0 THEN NextWait ELSE "listen"

EventSet ==
    \/ At(Loop, "mic") /\ micOn /\ Goto(Loop, "micSet")
    \/ At(Loop, "ordinary") /\ ordinary /\ Goto(Loop, "ordinarySet")
    \/ At(Loop, "idle") /\ active = 0 /\ Goto(Loop, "idleSet")

Released ==
    /\ EventSet
    /\ UNCHANGED <<troubles, turnVars, flagVars, drawn, cancelled, manager, openStreams>>

WaitOn ==
    /\ listener[Loop].pc \in {"top", "micSet", "ordinarySet", "idleSet"}
    /\ LET pc == WaitAfter(listener[Loop].pc)
       IN pc # "listen" /\ Goto(Loop, pc)
    /\ UNCHANGED <<troubles, turnVars, flagVars, drawn, cancelled, manager, openStreams>>

\* A new TurnManager, a new token and a pipeline over them.
Listen ==
    /\ listener[Loop].pc \in {"top", "micSet", "ordinarySet", "idleSet"}
    /\ WaitAfter(listener[Loop].pc) = "listen"
    /\ drawn < MaxIds
    /\ drawn' = drawn + 1
    /\ voiceTurns' = drawn' /\ listenToken' = drawn'
    /\ listener' = [listener EXCEPT ![Loop] =
           [NoListener EXCEPT !.pc = "listen", !.manager = drawn', !.token = drawn']]
    /\ UNCHANGED <<troubles, cancelled, manager, micOn, ordinary, owner, active, epoch, handoff,
                   response, failures, openStreams, asked, replacedBy>>

\* What a listener knows: it closes its frames next, and then goes on with after.
Close(k, pc, after) ==
    listener' = [listener EXCEPT ![k].pc = pc, ![k].after = after]

Token(k) == listener[k].token
ManagerIs(k, state) == manager' = [manager EXCEPT ![listener[k].manager].state = state]
Listening == At(Loop, "listen") /\ Token(Loop) \notin cancelled

\* The first frame; then speech, with which an STT stream is started.
Hear ==
    /\ Listening /\ listener[Loop].stream = "none"
    /\ IF StateOf(Loop) = "idle"
       THEN ManagerIs(Loop, "listening") /\ UNCHANGED <<listener, openStreams>>
       ELSE /\ ManagerIs(Loop, "speech")
            /\ listener' = [listener EXCEPT ![Loop].stream = "open"]
            /\ openStreams' = openStreams \cup {Token(Loop)}
    /\ UNCHANGED <<troubles, turnVars, flagVars, drawn, cancelled>>

\* A burst of noise, or speech too sparse to be any.
HearNothing ==
    /\ Listening /\ listener[Loop].stream = "open"
    /\ \/ ManagerIs(Loop, "listening")
       \/ UNCHANGED manager
    /\ Close(Loop, "close", "empty")
    /\ UNCHANGED <<troubles, turnVars, flagVars, drawn, cancelled, openStreams>>

\* Silence, or the longest utterance: stt_stream.finalize is awaited.
Finalize ==
    /\ Listening /\ listener[Loop].stream = "open"
    /\ Goto(Loop, "listenFinal")
    /\ UNCHANGED <<troubles, turnVars, flagVars, drawn, cancelled, manager, openStreams>>

\* The transcript is empty, a command to the application, or text that may have
\* to wait for the rest of the silence.
FinalArrives ==
    /\ At(Loop, "listenFinal") /\ Token(Loop) \notin cancelled
    /\ openStreams' = openStreams \ {Token(Loop)}
    /\ \/ /\ listener' = [listener EXCEPT ![Loop].pc = "close", ![Loop].after = "empty",
                                          ![Loop].stream = "final"]
          /\ UNCHANGED manager
       \/ /\ listener' = [listener EXCEPT ![Loop].pc = "listen", ![Loop].stream = "final"]
          /\ UNCHANGED manager
    /\ UNCHANGED <<troubles, turnVars, flagVars, drawn, cancelled>>

\* on_time, or on_maximum_duration.
Commit ==
    /\ Listening /\ listener[Loop].stream = "final"
    /\ ManagerIs(Loop, "committing")
    /\ asked' = Append(asked, Token(Loop))
    /\ Close(Loop, "close", "commit")
    /\ UNCHANGED <<troubles, flagVars, drawn, cancelled, voiceTurns, active, epoch, handoff,
                   response, openStreams, replacedBy>>

\* The token was cancelled, which aborts the frames or the request; or the
\* microphone or the recogniser failed.
ListenStops ==
    /\ listener[Loop].pc \in {"listen", "listenFinal"}
    /\ \/ Token(Loop) \in cancelled /\ Close(Loop, "close", "cancelled") /\ UNCHANGED troubles
       \/ Trouble /\ \E after \in {"fail", "give up"} : Close(Loop, "close", after)
    /\ UNCHANGED <<turnVars, flagVars, drawn, cancelled, manager, openStreams>>

\* The iteration ends: `finally' of the loop.
LoopEnds(pc) ==
    /\ listener' = [listener EXCEPT ![Loop] = [NoListener EXCEPT !.pc = pc]]
    /\ listenToken' = 0

\* The frames are closed, the stream is cancelled unless it was finalised, and
\* cancel_input ends what was not committed.  Nothing tells a token that is
\* cancelled meanwhile.
CloseFrames ==
    /\ At(Loop, "close")
    /\ openStreams' = openStreams \ {Token(Loop)}
    /\ cancelled' = IF listener[Loop].stream = "open" THEN cancelled \cup {Token(Loop)}
                    ELSE cancelled
    /\ manager' = IF StateOf(Loop) \in {"listening", "speech"}
                  THEN [manager EXCEPT ![listener[Loop].manager].state = "idle"] ELSE manager
    /\ LET after == listener[Loop].after
       IN \/ /\ after = "commit" /\ Goto(Loop, "handoff") /\ failures' = 0
             /\ UNCHANGED listenToken
          \/ after = "empty" /\ LoopEnds("top") /\ failures' = 0
          \/ after = "cancelled" /\ LoopEnds("top") /\ UNCHANGED failures
          \/ /\ after \notin {"commit", "empty", "cancelled"} /\ failures' = failures + 1
             /\ LoopEnds(IF after = "fail" /\ failures < MaxAttempts THEN "top" ELSE "off")
    /\ UNCHANGED <<troubles, turnVars, drawn, micOn, ordinary, owner>>

-----------------------------------------------------------------------------
(* _start_voice_turn: of the loop, and of a monitor after a barge-in *)

\* `finally' of _monitor_text_response: unless a newer typed response has taken
\* over, the loop may listen again.
MonitorEnds(k) ==
    /\ listener' = [listener EXCEPT ![k] = NoListener]
    /\ IF owner = k THEN owner' = 0 /\ ordinary' = TRUE ELSE UNCHANGED <<owner, ordinary>>

\* A listener whose turn did not start, or has ended.
Leave(k, pc) ==
    IF k = Loop
    THEN LoopEnds(pc) /\ UNCHANGED <<micOn, ordinary, owner>>
    ELSE MonitorEnds(k) /\ UNCHANGED <<micOn, listenToken>>

\* Under the lock, self.voice_turns has to be a manager that has committed: if it
\* is not, the loop returns.  The turn before is told to stop.
BeginHandoff(k) ==
    /\ At(k, "handoff") /\ handoff = {}
    /\ IF manager[voiceTurns].state = "committing"
       THEN /\ handoff' = {k}
            /\ Replace(Token(k))
            /\ listener' = [listener EXCEPT ![k].pc = "retire", ![k].manager = voiceTurns,
                                            ![k].epoch = epoch]
            /\ UNCHANGED flagVars
       ELSE /\ Leave(k, "off")
            /\ failures' = IF k = Loop THEN failures + 1 ELSE failures
            /\ UNCHANGED <<handoff, cancelled, replacedBy>>
    /\ UNCHANGED <<troubles, drawn, manager, voiceTurns, active, epoch, response, openStreams, asked>>

\* _retire_predecessor returned, and the turn starts unless it was overtaken.
Overtaken(k) ==
    \/ epoch # listener[k].epoch
    \/ voiceTurns # listener[k].manager
    \/ Token(k) \in cancelled

EndHandoff(k) ==
    /\ At(k, "retire")
    /\ IF Overtaken(k)
       THEN /\ cancelled' = cancelled \cup {Token(k)}
            /\ handoff' = {}
            /\ Leave(k, "top")
            /\ UNCHANGED <<active, epoch, response>>
       ELSE /\ epoch' = epoch + 1 /\ active' = Token(k)
            /\ response' = [response EXCEPT ![Token(k)] =
                   [pc |-> "queued", manager |-> listener[k].manager]]
            /\ listener' = [listener EXCEPT ![k] = [NoListener EXCEPT
                   !.pc = "starting", !.manager = listener[k].manager, !.turn = Token(k)]]
            /\ UNCHANGED <<cancelled, handoff, micOn, listenToken, ordinary, owner>>
    /\ UNCHANGED <<troubles, drawn, manager, voiceTurns, failures, openStreams, asked, replacedBy>>

\* started.set(): the turn runs or is over, and its listener goes on with it.
EnterMonitor(k) ==
    /\ At(k, "starting") /\ response[listener[k].turn].pc \in {"running", "done"}
    /\ handoff' = {}
    /\ listener' = [listener EXCEPT ![k] = [NoListener EXCEPT
           !.pc = IF Over(listener[k].turn) THEN "follow" ELSE "monitor",
           !.manager = voiceTurns, !.turn = listener[k].turn]]
    /\ UNCHANGED <<troubles, flagVars, drawn, cancelled, manager, voiceTurns, active, epoch,
                   response, openStreams, asked, replacedBy>>

\* The same for the monitor of a typed response, unless there is a newer one.
EnterTypedMonitor(k) ==
    /\ At(k, "await") /\ response[k].pc \in {"running", "done"}
    /\ IF Over(k) \/ voiceTurns # k \/ owner # k
       THEN MonitorEnds(k)
       ELSE Goto(k, "monitor") /\ UNCHANGED <<ordinary, owner>>
    /\ UNCHANGED <<troubles, turnVars, drawn, cancelled, manager, micOn, listenToken,
                   failures, openStreams>>

-----------------------------------------------------------------------------
(* _monitor_barge_in, with the attempts of _monitor_response_capture *)

Monitoring(k) ==
    /\ At(k, "monitor") /\ voiceTurns = listener[k].manager /\ StateOf(k) # "idle"

\* Where a suspected interruption returns to.
Resumed(m) == IF response[manager[m].turn].pc = "running" THEN "response" ELSE "idle"

\* reject_interruption, or the end of the recovery time: of a candidate only.
Rejected(k) ==
    LET m == listener[k].manager
    IN manager' = IF manager[m].state = "candidate"
                  THEN [manager EXCEPT ![m].state = Resumed(m), ![m].candidate = 0]
                  ELSE manager

\* The candidate's token is cancelled and its stream with it.
Dispose(k) ==
    /\ cancelled' = cancelled \cup {Token(k)}
    /\ openStreams' = openStreams \ {Token(k)}

Forget(k, pc) ==
    listener' = [listener EXCEPT ![k].pc = pc, ![k].token = 0, ![k].stream = "none"]

\* Another turn has taken over, or the response and what was said are over.
MonitorLeaves(k) ==
    /\ At(k, "monitor") /\ ~Monitoring(k)
    /\ Close(k, "monitorClose", "none")
    /\ UNCHANGED <<troubles, turnVars, flagVars, drawn, cancelled, manager, openStreams>>

\* Speech while the response runs: a candidate with an identity and a stream.
SuspectInterruption(k) ==
    /\ Monitoring(k) /\ StateOf(k) = "response" /\ Token(k) = 0
    /\ drawn < MaxIds
    /\ drawn' = drawn + 1
    /\ manager' = [manager EXCEPT ![listener[k].manager] =
           [@ EXCEPT !.state = "candidate", !.candidate = drawn']]
    /\ listener' = [listener EXCEPT ![k].token = drawn', ![k].stream = "open"]
    /\ openStreams' = openStreams \cup {drawn'}
    /\ UNCHANGED <<troubles, turnVars, flagVars, cancelled>>

\* It was none; or its token was cancelled elsewhere.
CandidateExpires(k) ==
    /\ Monitoring(k) /\ listener[k].stream = "open"
    /\ StateOf(k) = "candidate" \/ Token(k) \in cancelled
    /\ IF Token(k) \in cancelled THEN UNCHANGED manager ELSE Rejected(k)
    /\ Dispose(k) /\ Forget(k, "monitor")
    /\ UNCHANGED <<troubles, turnVars, flagVars, drawn>>

\* The credible words of a candidate end the response: it becomes the turn.
Confirmed(k) ==
    [manager EXCEPT ![listener[k].manager] =
        [state |-> "speech", turn |-> Token(k), candidate |-> 0]]
Interrupted(k) ==
    LET t == manager[listener[k].manager].turn
    IN IF response[t].pc = "running" THEN cancelled \cup {t} ELSE cancelled

\* By a partial transcript.
ConfirmInterruption(k) ==
    /\ Monitoring(k) /\ StateOf(k) = "candidate" /\ listener[k].stream = "open"
    /\ Token(k) \notin cancelled
    /\ manager' = Confirmed(k) /\ cancelled' = Interrupted(k)
    /\ UNCHANGED <<troubles, turnVars, flagVars, drawn, listener, openStreams>>

\* After 350 ms of silence, which is no longer than the manager needs to commit,
\* the stream is detached and finalised.
MonitorFinalize(k) ==
    /\ Monitoring(k) /\ StateOf(k) \in {"speech", "candidate"}
    /\ listener[k].stream = "open" /\ Token(k) \notin cancelled
    /\ Goto(k, "monitorFinal")
    /\ UNCHANGED <<troubles, turnVars, flagVars, drawn, cancelled, manager, openStreams>>

\* What was awaited may be about a candidate that is no more.
FinalIsStale(k) ==
    LET m == manager[listener[k].manager]
    IN \/ Token(k) \in cancelled
       \/ m.state \notin {"candidate", "speech"}
       \/ Token(k) \notin {m.candidate, m.turn}

MonitorFinalArrives(k) ==
    /\ At(k, "monitorFinal")
    /\ openStreams' = openStreams \ {Token(k)}
    /\ IF voiceTurns # listener[k].manager
       THEN /\ cancelled' = cancelled \cup {Token(k)}
            /\ listener' = [listener EXCEPT ![k].pc = "monitorClose", ![k].after = "none",
                                            ![k].stream = "final"]
            /\ UNCHANGED manager
       ELSE IF FinalIsStale(k)
       THEN /\ cancelled' = cancelled \cup {Token(k)}
            /\ Forget(k, "monitor")
            /\ UNCHANGED manager
       ELSE \/ \* It repeats what is being played, or is no credible interruption.
               /\ cancelled' = cancelled \cup {Token(k)}
               /\ Forget(k, "monitor")
               /\ Rejected(k)
            \/ \* It is the owner's next turn, once its silence is long enough.
               /\ IF StateOf(k) = "candidate"
                  THEN manager' = Confirmed(k) /\ cancelled' = Interrupted(k)
                  ELSE UNCHANGED <<manager, cancelled>>
               /\ listener' = [listener EXCEPT ![k].pc = "monitor", ![k].stream = "final"]
    /\ UNCHANGED <<troubles, turnVars, flagVars, drawn>>

MonitorCommit(k) ==
    /\ Monitoring(k) /\ StateOf(k) = "speech" /\ listener[k].stream = "final"
    /\ ManagerIs(k, "committing")
    /\ asked' = Append(asked, Token(k))
    /\ Close(k, "monitorClose", "commit")
    /\ UNCHANGED <<troubles, flagVars, drawn, cancelled, voiceTurns, active, epoch, handoff,
                   response, openStreams, replacedBy>>

\* Confirmed words whose final transcript was then taken for an echo are
\* committed without one, which is an error like one of the adapters.
MonitorFails(k) ==
    /\ \/ /\ listener[k].pc \in {"monitor", "monitorFinal"}
          /\ Trouble /\ \E after \in {"fail", "give up"} : Close(k, "monitorClose", after)
          /\ UNCHANGED manager
       \/ /\ Monitoring(k) /\ StateOf(k) = "speech" /\ Token(k) = 0
          /\ ManagerIs(k, "committing")
          /\ Close(k, "monitorClose", "give up")
          /\ UNCHANGED troubles
    /\ UNCHANGED <<turnVars, flagVars, drawn, cancelled, openStreams>>

\* What _monitor_response_capture and its callers do next: a transcript waits for
\* the response to unwind, a failed capture is tried again or the microphone is
\* switched off.
AfterMonitor(k) ==
    LET me == listener[k]
        again == me.after = "fail" /\ me.tries < MaxAttempts /\ ~Over(me.turn)
    IN /\ listener' = [listener EXCEPT ![k] =
              IF me.after = "commit" THEN [me EXCEPT !.pc = "gather", !.stream = "none"]
              ELSE IF again THEN [NoListener EXCEPT !.pc = "sleep", !.turn = me.turn,
                                                    !.tries = me.tries + 1]
              ELSE [NoListener EXCEPT !.pc = "follow", !.turn = me.turn]]
       /\ micOn' = (micOn /\ (again \/ me.after \notin {"fail", "give up"}))

\* Variant: a detached stream is only cancelled where it is finalised.
CloseMonitor_KeepsStream(k) ==
    /\ At(k, "monitorClose")
    /\ IF listener[k].after # "commit" /\ Token(k) # 0
       THEN /\ cancelled' = cancelled \cup {Token(k)}
            /\ Rejected(k)
       ELSE UNCHANGED <<cancelled, manager>>
    /\ AfterMonitor(k)
    /\ UNCHANGED <<troubles, turnVars, drawn, openStreams, listenToken, ordinary, owner, failures>>

\* `finally' of _monitor_barge_in.
CloseMonitor(k) ==
    /\ At(k, "monitorClose")
    /\ IF listener[k].after # "commit" /\ Token(k) # 0
       THEN Dispose(k) /\ Rejected(k)
       ELSE UNCHANGED <<cancelled, openStreams, manager>>
    /\ AfterMonitor(k)
    /\ UNCHANGED <<troubles, turnVars, drawn, listenToken, ordinary, owner, failures>>

\* The next attempt is for whatever manager is the current one by then.
MonitorAgain(k) ==
    /\ At(k, "sleep")
    /\ IF Over(listener[k].turn) THEN Goto(k, "follow")
       ELSE listener' = [listener EXCEPT ![k].pc = "monitor", ![k].manager = voiceTurns]
    /\ UNCHANGED <<troubles, turnVars, flagVars, drawn, cancelled, manager, openStreams>>

\* A committed turn whose text was screened to nothing is dropped.
Gathered(k) ==
    /\ At(k, "gather") /\ Over(listener[k].turn)
    /\ \/ Goto(k, "handoff") /\ UNCHANGED <<cancelled, ordinary, owner, listenToken>>
       \/ /\ cancelled' = cancelled \cup {Token(k)}
          /\ IF k = Loop THEN LoopEnds("top") /\ UNCHANGED <<ordinary, owner>>
             ELSE MonitorEnds(k) /\ UNCHANGED listenToken
    /\ UNCHANGED <<troubles, turnVars, drawn, manager, micOn, failures, openStreams>>

\* Nobody spoke, and the response is over.
Followed(k) ==
    /\ At(k, "follow") /\ Over(listener[k].turn)
    /\ Leave(k, "top")
    /\ UNCHANGED <<troubles, turnVars, drawn, cancelled, manager, failures, openStreams>>

-----------------------------------------------------------------------------
LoopStep ==
    \/ Released \/ WaitOn \/ Listen \/ Hear \/ HearNothing \/ Finalize
    \/ FinalArrives \/ Commit \/ ListenStops \/ CloseFrames

MonitorStep(k) ==
    \/ BeginHandoff(k) \/ EndHandoff(k) \/ EnterMonitor(k) \/ EnterTypedMonitor(k)
    \/ MonitorLeaves(k) \/ SuspectInterruption(k) \/ CandidateExpires(k)
    \/ ConfirmInterruption(k) \/ MonitorFinalize(k) \/ MonitorFinalArrives(k)
    \/ MonitorCommit(k) \/ MonitorFails(k) \/ CloseMonitor(k) \/ MonitorAgain(k)
    \/ Gathered(k) \/ Followed(k)

VoiceNext ==
    \/ SubmitTyped \/ SetMicrophone \/ StopResponse
    \/ \E t \in Ids : TurnBegins(t) \/ TurnStarts(t) \/ TurnEnds(t)
    \/ LoopStep
    \/ \E k \in Listeners : MonitorStep(k)

VoiceSpec == VoiceInit /\ [][VoiceNext]_voiceVars

-----------------------------------------------------------------------------
VoiceTypeInv ==
    /\ drawn \in 0 .. MaxIds
    /\ cancelled \cup openStreams \subseteq Ids
    /\ \A m \in Listeners : manager[m].state \in
           {"idle", "listening", "speech", "committing", "response", "candidate"}
    /\ {voiceTurns, owner, active, listenToken} \subseteq Listeners
    /\ handoff \subseteq Listeners
    /\ failures \in 0 .. MaxAttempts + 1
    /\ \A k \in Listeners : /\ listener[k].stream \in {"none", "open", "final"}
                            /\ listener[k].tries \in 0 .. MaxAttempts

\* A recogniser's stream is finalised or cancelled before its listener is done
\* with it, however the listening ends (pipeline.py run, runtime.py
\* _monitor_barge_in).
StreamsAreSettled ==
    openStreams \subseteq
        {Token(k) : k \in {l \in Listeners : listener[l].pc \in
            {"listen", "listenFinal", "close", "monitor", "monitorFinal", "monitorClose"}}}

\* What the monitor of the newest typed response is hearing, or has heard, is not
\* replaced by the loop beginning to listen, also when the response itself is over
\* by then (runtime.py _voice_loop, _monitor_text_response).
Hearing(k) ==
    /\ owner = k /\ Token(k) \notin cancelled \cup {0}
    /\ listener[k].pc \in {"monitor", "monitorFinal", "gather", "handoff"}

InterruptionIsHeardOut ==
    [][~At(Loop, "listen") /\ listener'[Loop].pc = "listen"
          => \A k \in Ids : ~Hearing(k)]_voiceVars

\* A monitor listens to the delivery it was started for (runtime.py:2484 "This
\* monitor owns one delivery.").
MonitorOwnsItsDelivery ==
    \A k \in Listeners : At(k, "monitor") =>
        listener[k].manager = response[listener[k].turn].manager

\* The loop does not open the microphone while it is switched off
\* (docs/USER_GUIDE.md:109 "Microphone/Voice controls mute input/output").
MutedMicrophoneStaysClosed ==
    [][~At(Loop, "listen") /\ listener'[Loop].pc = "listen" => micOn]_voiceVars

\* What is said does not replace a message that was typed after it
\* (docs/POST_0.2.3_BETA_PLAN.md:187 "An additional voice-handoff race let a
\* committed voice turn resume after its retirement await and claim active
\* generation ownership after a newer typed request.").
NewerMessageIsKept ==
    \A i, j \in DOMAIN asked : i < j => replacedBy[asked[j]] # asked[i]

-----------------------------------------------------------------------------
(* The inductive invariant of the microphone                                *)

Phases == {"idle", "listening", "speech", "committing", "response", "candidate"}
Streaming == {"listen", "listenFinal", "close", "monitor", "monitorFinal", "monitorClose"}
ListenerPcs == Streaming \cup
    {"off", "top", "mic", "micSet", "ordinary", "ordinarySet", "idle", "idleSet", "handoff",
     "retire", "starting", "await", "follow", "sleep", "gather"}

ListenerRecord ==
    [pc : ListenerPcs, manager : Listeners, token : Listeners,
     stream : {"none", "open", "final"}, turn : Listeners,
     after : {"none", "empty", "commit", "cancelled", "fail", "give up"},
     epoch : Nat, tries : 0 .. MaxAttempts]

ManagerTypes ==
    /\ manager \in [Listeners -> [state : Phases, turn : Listeners, candidate : Listeners]]
    /\ \A m \in Listeners :
          /\ manager[m].state = "candidate" => manager[m].candidate # 0
          /\ manager[m].state \in {"response", "candidate"} => manager[m].turn # 0

TurnTypes ==
    /\ voiceTurns \in Listeners /\ active \in Listeners
    /\ epoch \in Nat /\ handoff \subseteq Listeners
    /\ response \in [Ids -> [pc : {"none", "queued", "accepted", "running", "done"},
                              manager : Listeners]]

FlagTypes ==
    /\ micOn \in BOOLEAN /\ ordinary \in BOOLEAN
    /\ owner \in Listeners /\ listenToken \in Listeners
    /\ failures \in 0 .. MaxAttempts + 1
    /\ failures <= MaxAttempts \/ At(Loop, "off")

SessionTypes ==
    /\ drawn \in 0 .. MaxIds /\ cancelled \subseteq Ids /\ openStreams \subseteq Ids
    /\ listener \in [Listeners -> ListenerRecord]
    /\ ManagerTypes /\ TurnTypes /\ FlagTypes

\* Who has a stream, or words to commit, has a token to tell them by.
HasToken(l) ==
    \/ l.stream # "none"
    \/ l.pc \in {"listen", "listenFinal", "close", "monitorFinal", "gather", "handoff", "retire"}
    \/ l.pc = "monitorClose" /\ l.after = "commit"
    => l.token # 0

\* A token was drawn and is one listener's, and whoever was not drawn does nothing.
TokensAreOwn ==
    /\ \A k \in Listeners : Token(k) <= drawn /\ HasToken(listener[k])
    /\ \A j, k \in Listeners : Token(j) = Token(k) /\ j # k => Token(k) = 0
    /\ \A k \in Ids : k > drawn => At(k, "off")
    /\ \A t \in openStreams : t <= drawn

\* A listener that is done with its stream has settled it.
Settled(l) == l.stream = "final" \/ (l.pc = "monitorClose" /\ l.after = "commit")

StreamsAreHeld ==
    /\ StreamsAreSettled
    /\ \A k \in Listeners : Settled(listener[k]) => Token(k) \notin openStreams

\* The loop may listen while no typed response has the microphone; if it listens
\* already, its token has been cancelled.
MicrophoneIsTaken ==
    /\ owner # 0 => ~ordinary
    /\ listener[Loop].pc \in {"listen", "listenFinal"} =>
          /\ listenToken = Token(Loop)
          /\ owner # 0 => Token(Loop) \in cancelled

VoiceInv == SessionTypes /\ TokensAreOwn /\ StreamsAreHeld /\ MicrophoneIsTaken
=============================================================================
