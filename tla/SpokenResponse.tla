--------------------------- MODULE SpokenResponse ---------------------------
(***************************************************************************)
(* One typed response that is read aloud: SamRuntime._deliver_assistant    *)
(* and _metered_tts_frames with the adapters they drive, the system TTS    *)
(* (adapters/tts/system.py), which runs a process for the voices and one   *)
(* for the speech, and the output device (adapters/audio/sounddevice.py),  *)
(* which blocks in threads.  Muting or stopping cancels the token, whose   *)
(* callbacks abort the device at once and cancel the task through the      *)
(* event loop; the runtime may also cancel the task itself, and closes the *)
(* adapter after it has done so.  The text is one chunk.                   *)
(***************************************************************************)
EXTENDS Naturals, FiniteSets

CONSTANTS
    MaxFrames,      \* bound: frames of the synthesized speech
    MaxStrikes      \* bound: how often the runtime cancels the task itself

VARIABLES
    task,           \* the await the response's task is at
    wake,           \* whether what it waits for has arrived in the event loop
    struck,         \* cancellations of the task: thrown "next" into its await, or
                    \* "later", into the one after the wake-up queued before it
    cause,          \* why the task unwinds: "none", "cancelled" or "failed"
    turnToken,      \* "live" or "cancelled"
    bound,          \* which callbacks are on the token: "speech", "device"
    device,         \* the output stream
    threads,        \* what asyncio.to_thread is doing with the stream
    children,       \* TTS processes that run
    processes,      \* _processes of the adapter, which aclose ends
    adapter,        \* "open", or aclose is "closing" it or has "closed" it
    output,         \* controls.tts_output_enabled
    playback,       \* whether _active_playback_generation_id names the response
    record,         \* its delivery record
    announced,      \* the outcomes of the delivery that were published
    frames,         \* frames that sounded
    strikes         \* how often the runtime cancelled the task

outputVars == <<task, wake, struck, cause, turnToken, bound, device, threads, children,
                processes, adapter, output, playback, record, announced, frames, strikes>>

OutputInit ==
    /\ task = "starting" /\ wake = FALSE /\ struck = {} /\ cause = "none"
    /\ turnToken = "live" /\ bound = {} /\ device = "none" /\ threads = {}
    /\ children = {} /\ processes = {} /\ adapter = "open" /\ output = TRUE /\ playback = FALSE
    /\ record = "empty" /\ announced = {} /\ frames = 0 /\ strikes = 0

control == <<turnToken, output, strikes, adapter>>
synthesis == <<children, processes>>
machine == <<device, threads, synthesis, frames>>
delivery == <<playback, record, announced>>

\* Awaits of the device's threads, named as the threads are, and of the rest.
DeviceAwaits == {"opening", "beginning", "writing", "stopping", "closing"}
Playing ==
    {"language", "level", "gathering", "reaping", "beginning", "writing", "stopping"}

\* Awaits of create_subprocess_exec, and of what the process answers.
Spawning == {"listing", "spawning"}
Answering == {"voices", "speech"}

\* The task goes on to its next await, where a cancellation that found the
\* wake-up queued is thrown.
Await(next) ==
    /\ task' = next /\ wake' = FALSE
    /\ struck' = IF "later" \in struck THEN {"next"} ELSE {}

Resumes(at) == task = at /\ wake /\ "next" \notin struck

-----------------------------------------------------------------------------
(* What is awaited arrives *)

\* Published, detected, spawned, read or exited, or the deadline of the voices or
\* of the speech has passed.
Arrives ==
    /\ task \notin DeviceAwaits \cup {"over"} /\ ~wake /\ wake' = TRUE
    /\ UNCHANGED <<task, struck, cause, bound, machine, control, delivery>>

\* A process ends by itself.
Exits ==
    /\ children # {} /\ children' = {}
    /\ UNCHANGED <<task, wake, struck, cause, bound, device, threads, processes, frames,
                   control, delivery>>

\* A thread other than a write ends.  An aborted stream may still be started by
\* one, and nobody has the stream whose opening was given up.
ThreadEnds(op) ==
    /\ op \in threads \ {"writing"} /\ threads' = threads \ {op}
    /\ wake' = (wake \/ task = op)
    /\ device' = CASE op = "opening" -> IF task = "opening" THEN "open" ELSE "lost"
                   [] op = "beginning" /\ device \in {"open", "aborted"} -> "started"
                   [] op = "stopping" /\ device = "started" -> "stopped"
                   [] op = "closing" -> "closed"
                   [] OTHER -> device
    /\ UNCHANGED <<task, struck, cause, bound, synthesis, frames, control, delivery>>

\* A write sounds while the stream runs, and raises when it does not.
WriteEnds ==
    /\ "writing" \in threads /\ threads' = threads \ {"writing"}
    /\ wake' = (wake \/ task = "writing")
    /\ frames' = IF device = "started" THEN frames + 1 ELSE frames
    /\ UNCHANGED <<task, struck, cause, bound, device, synthesis, control, delivery>>

-----------------------------------------------------------------------------
(* Leaving by an exception *)

\* The process stays in _processes while the readers of its pipes are awaited.
Registered_DiscardedFirst == {}
Registered == processes

\* The finally clauses on the way out: the process of the moment is ended, then
\* the stream is closed in a thread nothing can cancel, then the turn reports.
\* The process of the speech is killed after its readers; that of the voices, and
\* by asyncio one whose spawn is cancelled, at once, and waited for.  A spawn
\* that fails made none.  A stream whose opening is cancelled is returned to
\* nobody.
Unwind(why) ==
    /\ cause' = why
    /\ CASE task = "speech" ->
                /\ Await("gathering") /\ bound' = bound \ {"speech"} /\ processes' = Registered
                /\ UNCHANGED <<threads, playback, children>>
         [] task = "voices" \/ (task \in Spawning /\ why = "cancelled") ->
                /\ Await("reaping") /\ bound' = bound \ {"speech"} /\ children' = {}
                /\ UNCHANGED <<threads, playback, processes>>
         [] task \in Playing \/ (task \in Spawning /\ why = "failed") ->
                /\ Await("closing") /\ bound' = {} /\ threads' = threads \cup {"closing"}
                /\ children' = IF task \in Spawning THEN {} ELSE children
                /\ UNCHANGED <<playback, processes>>
         [] task = "reporting" ->
                Await("over") /\ UNCHANGED <<bound, threads, playback, synthesis>>
         [] OTHER ->
                /\ Await("reporting") /\ bound' = {} /\ playback' = FALSE
                /\ UNCHANGED <<threads, synthesis>>
    /\ device' = IF task = "opening" /\ device = "open" THEN "lost" ELSE device
    /\ UNCHANGED <<frames, record, announced, control>>

\* CancelledError is thrown into the await.
Thrown == "next" \in struck /\ task # "over" /\ Unwind("cancelled")

\* A device, a spawn or a process fails.
ResponseFails ==
    /\ \/ task \in Spawning \cup {"language", "opening", "beginning", "writing", "stopping"}
       \/ task \in Answering /\ children = {}
    /\ Resumes(task) /\ Unwind("failed")

\* The deadline of the voices or the speech has passed, and the process runs.
TimesOut ==
    /\ task \in Answering /\ children # {}
    /\ Resumes(task) /\ Unwind("failed")

-----------------------------------------------------------------------------
(* The response, await by await *)

Started ==
    /\ Resumes("starting")
    /\ IF ~output
       THEN /\ record' = "completed" /\ Await("completing")
            /\ UNCHANGED <<cause, bound, device, threads, synthesis, frames, playback,
                           announced, control>>
       ELSE IF turnToken = "cancelled" THEN Unwind("cancelled")
       ELSE /\ playback' = TRUE /\ record' = "queued"
            /\ threads' = {"opening"} /\ Await("opening")
            /\ UNCHANGED <<cause, bound, device, synthesis, frames, announced, control>>

\* _bind_abort runs the callback at once if the token is cancelled already.
StreamOpened ==
    /\ Resumes("opening") /\ bound' = {"device"}
    /\ IF turnToken = "cancelled"
       THEN device' = "aborted" /\ task' = "language" /\ wake' = FALSE /\ struck' = {"next"}
       ELSE Await("language") /\ UNCHANGED device
    /\ UNCHANGED <<cause, threads, synthesis, frames, control, delivery>>

\* The process runs from here on; the adapter gets it when the spawn is over.
\* synthesize has a callback of its own on the token while the voices are listed.
Spawns(next, p) ==
    /\ children' = {p} /\ Await(next)
    /\ bound' = IF p = "voices" THEN bound \cup {"speech"} ELSE bound
    /\ UNCHANGED <<cause, device, threads, processes, frames, control, delivery>>

\* The adapter is asked whether it is closed, and may have the voices already.
Detected ==
    /\ Resumes("language")
    /\ CASE adapter # "open" -> Unwind("failed")
         [] adapter = "open" /\ turnToken = "cancelled" -> Unwind("cancelled")
         [] OTHER -> Spawns("listing", "voices") \/ Spawns("spawning", "speech")

\* _synthesize_wave has a callback of its own once its process is there; it asks
\* neither the token nor _closed.
Spawned(at, p) ==
    /\ Resumes(at) /\ processes' = processes \cup {p} /\ Await(p)
    /\ bound' = bound \cup {"speech"}
    /\ UNCHANGED <<cause, device, threads, children, frames, control, delivery>>

Listed ==
    /\ Resumes("voices") /\ children = {}
    /\ IF turnToken = "cancelled" THEN Unwind("cancelled")
       ELSE /\ children' = {"speech"} /\ processes' = {} /\ Await("spawning")
            /\ bound' = bound \ {"speech"}
            /\ UNCHANGED <<cause, device, threads, frames, control, delivery>>

Synthesized ==
    /\ Resumes("speech") /\ children = {}
    /\ Await("gathering") /\ bound' = bound \ {"speech"} /\ processes' = Registered
    /\ UNCHANGED <<cause, device, threads, children, frames, control, delivery>>

\* The process is waited for and discarded, and the frames or the way out follow.
Discards ==
    /\ processes' = {}
    /\ IF cause = "none"
       THEN Await("level") /\ UNCHANGED <<bound, threads>>
       ELSE Await("closing") /\ bound' = {} /\ threads' = threads \cup {"closing"}
    /\ UNCHANGED <<cause, device, children, frames, control, delivery>>

\* The readers are done: what still runs is killed and waited for.
Gathered ==
    /\ Resumes("gathering")
    /\ IF children = {} THEN Discards
       ELSE /\ children' = {} /\ Await("reaping")
            /\ UNCHANGED <<cause, bound, device, threads, processes, frames, control, delivery>>

Reaped == Resumes("reaping") /\ Discards

Hands(next) ==
    /\ threads' = threads \cup {next} /\ Await(next)
    /\ UNCHANGED <<cause, bound, device, synthesis, frames, control, delivery>>

\* The frame is measured, published and yielded; the first one starts the stream.
Measured ==
    /\ Resumes("level")
    /\ IF turnToken = "cancelled" THEN Unwind("cancelled")
       ELSE Hands(IF device = "open" THEN "beginning" ELSE "writing")

\* Nothing is asked between the start of the stream and its first write.
Begun == Resumes("beginning") /\ Hands("writing")

Written ==
    /\ Resumes("writing")
    /\ IF turnToken = "cancelled" THEN Unwind("cancelled")
       ELSE \/ /\ frames < MaxFrames /\ Await("level")
               /\ UNCHANGED <<cause, bound, device, threads, synthesis, frames, control, delivery>>
            \/ Hands("stopping")

Completed ==
    /\ Resumes("stopping")
    /\ IF turnToken = "cancelled" THEN Unwind("cancelled")
       ELSE /\ threads' = threads \cup {"closing"} /\ bound' = {} /\ Await("closing")
            /\ UNCHANGED <<cause, device, synthesis, frames, control, delivery>>

\* What was played is marked spoken; the component's health is published while
\* the response still counts as playing.
Closed ==
    /\ Resumes("closing")
    /\ Await(IF cause = "cancelled" THEN "reporting" ELSE "health")
    /\ playback' = (playback /\ cause # "cancelled")
    /\ UNCHANGED <<cause, bound, device, threads, synthesis, frames, record, announced, control>>

Settled ==
    /\ Resumes("health") /\ playback' = FALSE
    /\ Await(IF cause = "none" THEN "completing" ELSE "reporting")
    /\ record' = IF cause = "none" /\ record = "queued" THEN "completed" ELSE record
    /\ UNCHANGED <<cause, bound, device, threads, synthesis, frames, announced, control>>

\* TTS_COMPLETED, or what the handlers of _run_turn report.
Outcome ==
    CASE task = "completing" -> {"completed"}
      [] cause = "failed" -> {"failed"}
      [] record = "queued" -> {"cancelled"}
      [] OTHER -> {}

Reports ==
    /\ Resumes("completing") \/ Resumes("reporting")
    /\ announced' = announced \cup Outcome
    /\ record' = IF record = "queued" THEN "interrupted" ELSE record
    /\ Await("over")
    /\ UNCHANGED <<cause, bound, device, threads, synthesis, frames, playback, control>>

-----------------------------------------------------------------------------
(* The owner and the runtime *)

\* task.cancel() through call_soon_threadsafe, after what is already queued.
Strike_Nothing == struck' = struck
Strike == struck' = struck \cup {IF wake \/ struck # {} THEN "later" ELSE "next"}

\* The callbacks on the token: the stream is aborted, the task cancelled.
Abort_TaskOnly == device
Abort == IF "device" \in bound /\ device \in {"open", "started"} THEN "aborted" ELSE device

CancelResponseToken ==
    /\ turnToken' = "cancelled"
    /\ IF turnToken = "live" /\ bound # {} THEN Strike /\ device' = Abort
                                      ELSE UNCHANGED <<struck, device>>

\* _cancel_active_playback claims the stop before it publishes.
CancelPlayback ==
    /\ playback' = FALSE
    /\ IF playback /\ record # "completed"
       THEN announced' = announced \cup {"cancelled"} /\ record' = "interrupted"
       ELSE UNCHANGED <<announced, record>>

\* _set_tts_output(False); the coordinator only cancels a token whose delivery
\* is the active one.
Mute ==
    /\ output /\ output' = FALSE /\ task # "over"
    /\ CancelPlayback
    /\ IF playback /\ record = "queued" THEN CancelResponseToken ELSE UNCHANGED <<struck, turnToken, device>>
    /\ UNCHANGED <<task, wake, cause, bound, threads, synthesis, frames, strikes, adapter>>

\* _cancel_active
Stop ==
    /\ turnToken = "live" /\ task # "over"
    /\ CancelPlayback /\ CancelResponseToken
    /\ UNCHANGED <<task, wake, cause, bound, threads, synthesis, frames, output, strikes,
                   adapter>>

\* A predecessor that did not end in time, or close.
CancelTask ==
    /\ strikes < MaxStrikes /\ task # "over"
    /\ strikes' = strikes + 1 /\ struck' = struck \cup {"next"}
    /\ UNCHANGED <<task, wake, cause, bound, machine, turnToken, output, delivery,
                   adapter>>

\* The adapter's aclose, which close calls after it has cancelled the task and
\* waited for it, at most for its grace: what _processes names is killed, waited
\* for and forgotten.
CloseAdapter ==
    /\ adapter = "open" /\ (strikes > 0 \/ task = "over")
    /\ adapter' = "closing" /\ children' = children \ processes
    /\ UNCHANGED <<task, wake, struck, cause, bound, device, threads, processes, frames,
                   turnToken, output, strikes, delivery>>

AdapterCloses ==
    /\ adapter = "closing" /\ adapter' = "closed" /\ processes' = {}
    /\ UNCHANGED <<task, wake, struck, cause, bound, device, threads, children, frames,
                   turnToken, output, strikes, delivery>>

-----------------------------------------------------------------------------
TaskStep ==
    \/ Thrown \/ TimesOut \/ Started \/ StreamOpened \/ Detected \/ Listed \/ Synthesized
    \/ Spawned("listing", "voices") \/ Spawned("spawning", "speech") \/ Gathered \/ Reaped
    \/ Measured \/ Begun \/ Written \/ Completed \/ Closed \/ Settled \/ Reports

OutputNext ==
    \/ TaskStep \/ ResponseFails \/ Arrives \/ Exits \/ WriteEnds
    \/ \E op \in DeviceAwaits : ThreadEnds(op)
    \/ Mute \/ Stop \/ CancelTask \/ CloseAdapter \/ AdapterCloses

\* The event loop runs the task, a call to the device returns, and a publish or a
\* killed process ends; that a TTS process is spawned or answers is not assumed.
OutputFairness ==
    /\ WF_outputVars(TaskStep) /\ WF_outputVars(WriteEnds)
    /\ WF_outputVars(task \notin Spawning \cup Answering /\ Arrives)
    /\ \A op \in DeviceAwaits : WF_outputVars(ThreadEnds(op))

OutputSpec == OutputInit /\ [][OutputNext]_outputVars /\ OutputFairness

-----------------------------------------------------------------------------
\* From the moment the owner mutes or stops a response nothing more of it
\* sounds, whatever its task and its threads are at: an aborted stream that a
\* late start revives gets no further write (SoundDeviceCapture._bind_abort and
\* SoundDeviceOutput.play).  Only a frame whose task was cancelled otherwise and
\* is being closed already may still end.
SilentOnceStopped ==
    [][turnToken = "cancelled" /\ "closing" \notin threads => frames' = frames]_outputVars

\* A stopped response ends and closes its stream, even if the process that
\* makes the speech never answers (the callbacks of synthesize and
\* _synthesize_wave).
StoppedResponseEnds ==
    turnToken = "cancelled" ~> task = "over" /\ device \notin {"open", "started", "aborted"}

\* No TTS process is lost: one that runs is in _processes, where aclose finds it,
\* or is being spawned by a task that asyncio ends it for; nothing is taken out of
\* _processes before it is dead, even if the task is cancelled again while it
\* cleans up, and once the adapter is closed and the task has ended none runs
\* (list_voices, _synthesize_wave, aclose and the order of close).
BeingSpawned ==
    CASE task = "listing" -> {"voices"} [] task = "spawning" -> {"speech"} [] OTHER -> {}
NoProcessIsLost ==
    /\ children \subseteq processes \cup BeingSpawned
    /\ adapter = "closed" /\ task = "over" => children = {}

\* A delivery is reported cancelled, failed or completed, but not two of them.
OneDeliveryOutcome == Cardinality(announced) <= 1

-----------------------------------------------------------------------------
(* The inductive invariant of the stream.                                   *)

Unopened == {"starting", "opening"}
Awaiting == Playing \cup Spawning \cup Answering
Leaving == {"closing", "health", "completing", "reporting", "over"}

\* The callback of the token is bound as long as the task may use the stream.
CallbackIsBound ==
    /\ task = "starting" => threads = {} /\ device = "none"
    /\ task = "opening" => threads \subseteq {"opening"} /\ device \in {"none", "open"}
    /\ task \in Unopened \cup Leaving => bound = {}
    /\ task \notin Unopened \cup Leaving => task \in Awaiting /\ "device" \in bound
    /\ device \in {"open", "started", "aborted"} =>
           "device" \in bound \/ "closing" \in threads \/ task = "opening"

\* The start and the writes of the stream follow one another.
ThreadsInTurn ==
    /\ "beginning" \in threads =>
           /\ "writing" \notin threads
           /\ (task = "beginning" /\ ~wake) \/ task \in Leaving
    /\ "writing" \in threads => (task = "writing" /\ ~wake) \/ task \in Leaving

\* A cancellation finds the task before the stream can sound: what waits for the
\* wake-up that was queued has aborted the stream already.
StruckInTime ==
    /\ struck \subseteq {"next", "later"} /\ turnToken \in {"live", "cancelled"}
    /\ "later" \in struck => wake \/ "next" \in struck
    /\ turnToken = "cancelled" =>
           /\ task = "beginning" /\ "next" \notin struck => wake /\ device # "started"
           /\ device = "started" /\ "writing" \in threads => "closing" \in threads

StreamInv == CallbackIsBound /\ ThreadsInTurn /\ StruckInTime

\* The adapter is closed after the task was cancelled, so a task that still makes
\* speech is struck then, and nothing it spawned before is out of reach.
ClosedAfterCancelling ==
    /\ strikes \in Nat /\ (adapter # "open" => strikes > 0 \/ task = "over")
    /\ strikes > 0 => "next" \in struck \/ cause # "none" \/ task = "over"
    /\ cause # "none" => task \in {"gathering", "reaping"} \cup Leaving

ProcessInv ==
    /\ ClosedAfterCancelling
    /\ children \subseteq processes \cup BeingSpawned
    /\ adapter # "open" => children \subseteq BeingSpawned
    /\ task = "reaping" => children = {}
=============================================================================
