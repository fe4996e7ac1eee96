# A TLA+ model of the Sam ambient assistant

Sam (`src/sam_ambient`) is a local voice and text assistant: a Python core on one
asyncio event loop, a supervisor that keeps the core's processes alive and updated,
and a web user interface that only renders what the core publishes. The modules here
model the parts in which several tasks, threads, processes or programs share state.
Paths below are relative to the repository.

## 1. Inventory

| Part | State it keeps | Operations | Talks to | What is hard |
|---|---|---|---|---|
| Turn manager, `core/turns/state_machine.py` | voice state, turn and generation identities, capture and interruption clocks, model/TTS flags | 15 `on_*`, accept, cancel, listen and reject calls | called by the voice pipeline and the runtime; returns protocol events | calls of a response arrive late or in any order; tentative interruptions overlap playback |
| Cancellation, `core/turns/cancellation.py` | a flag, a reason, callbacks | `cancel`, `add_callback`, `raise_if_cancelled` | everything that awaits | cancelled before, during or after the await it is meant for |
| Generation handoff, `runtime.py` | owner fields of the active turn, its events and task, terminal lock | submit, supersede, run, report, retire, stop | ledger, store, providers, executor, event bus | tasks of stopped turns go on beside their successor |
| Speech delivery, `core/voice/delivery.py` | ledger of generations and chunks, bounded queue, in-flight chunks | start, enqueue, take, mark, cancel, finish | runtime's playback, interruption coordinator | a producer blocked on a full queue; cleanup of one generation while another plays |
| Tools, `core/tools/executor.py`, `authority.py`, `policy.py` | in-flight, history, approvals, cancellable tools, authority epoch | execute, resolve, revoke, restore | runtime, owner, event bus | checks made before an await and used after it |
| Event bus, `core/protocol/bus.py` | bounded queue per subscriber, its waiters | subscribe, publish, get, close | everything | one slow subscriber holds all publishers |
| Owner bridge, `adapters/ui/websocket.py`, `core/protocol/control.py`, `core/owner.py`, `core/tools/agency.py` | connections with their two tasks, dispatcher lock and history, sequence numbers, at most four actions | connect, dispatch, start, cancel, detach, close | event bus, runtime, executor | commands repeated on the next connection; a connection that ends while its command, action or refresh runs |
| Provider route, `runtime.py`, `core/providers/router.py` | route, refresh task, lock and epoch, fence of an unload | refresh, switch, unload, select, retry | discovery, turns, voice loop | a request overtaken in any of its awaits; the old provider is closed while turns run |
| Voice loop, `runtime.py`, `core/voice/pipeline.py` | capture, monitors, handoff epoch, ordinary-capture gate | listen, monitor a response, confirm, hand off, mute | turn manager, STT, VAD, TTS | values read before an await decide who has the microphone |
| Spoken response, `runtime.py`, `adapters/tts/system.py`, `adapters/audio/sounddevice.py` | task, token callbacks, speech processes, output stream and its threads | synthesize, play, mute, stop, close | delivery, operating system | threads and processes outlive the task that awaits them |
| Speech recognition, `adapters/stt/whisper_cpp.py` | owned server process, streams, the language heard last | ensure ready, transcribe, cancel, close | voice loop and monitors | a start-up that fails or is cancelled; state shared by streams |
| Supervisor, `supervisor/manager.py`, `process.py`, `persistence.py`, `cli.py` | process table, restart counts, health; persisted failures and safe mode | run, restart, shutdown, restore | component processes | crash window; shutdown against a launch; its own death |
| Updater, `supervisor/updater.py`, `update_layout.py`, `update_store.py` | persisted transactions, registry, pointer, version directories | prepare, activate, accept, commit, roll back, recover | supervisor, disk | a crash between any two writes |
| Memory, `core/memory` | SQLite rows with revisions, bounded inbox | create, propose, correct, approve, delete, recall | runtime, owner, tools | the row changed between the owner's look and the owner's word |
| Conversation state, `core/storage/sqlite.py`, `runtime.py` | committed messages, settings | append, select context, set | turns, owner | writes by threads of interrupted turns; memory and store changed in two steps |
| MCP client, `adapters/mcp.py` | pending requests by id, write lock, tool list | call, list, read, time out | configured server | answers after their request was given up |
| Local models, `adapters/local_discovery.py`, `cli.py` | what Sam started and loaded, in three places | discover, bootstrap, load, give back | model server, other programs, supervisor | a claim on what someone else started |
| File tools, `core/tools/filesystem.py` | temporary file; queue and counters of a walk | write, search, list | other programs | a look that is stale when used; limits met exactly |
| Model providers, configuration, CLI, diagnostics, UI, scripts | streams, files | I/O and presentation | the core through the ports above | seen as choices by their callers |

What makes each part correct:

* Turn manager: one state, one set of flags and one event stream agree; a capture and a
  response end once; a possible interruption is not mixed up with the response.
* Handoff: the newest turn owns the conversation; an accepted turn gets one outcome;
  a stopped turn stores no answer, and cannot block its successor.
* Delivery: what was heard is what was played, in order; nothing blocks for ever.
* Tools: nothing runs without current authority and the owner's approval of that very
  call; duplicates share one run; every call returns.
* Bus: a durable event reaches everyone it was published to, once and in its publisher's
  order, or its subscription closed; nobody waits for ever.
* Bridge: a request repeated on one connection starts nothing twice; one repeated on the next
  runs beside nothing but its cancelled predecessor; a connection that is gone holds nothing.
* Route and adapters: what is in use is open, what was opened is closed, and a late result does
  not replace a newer one.
* Voice and speech: an interruption that is being heard is heard out; a stopped response
  is silent and ends.
* Supervisor and updater: no restart past the budget; after any crash the version on
  disk, in the store and running can be made the same again.
* Stores and tools: what is reported as approved, stored, complete or created is so.

`PROJECT.json` lists the hazards line by line, with the properties about them.

## 2. Modules

| Module | Models | Extended or instantiated by |
|---|---|---|
| `TurnManager` | `TurnManager` | `MCTurnManager`, `TurnManagerProofs` |
| `GenerationHandoff` | `SamRuntime.submit_user_message` ... `_run_turn`, `_publish_terminal_event`, `_cancel_active` | `MCGenerationHandoff`, `GenerationHandoffProofs` |
| `Selection` | what is left of a queue when only some of its places are kept, in their order | `EventBus`, `SpeechDelivery`, `ProviderRefresh`, `FileSearch`, `RuntimeState`, `SelectionProofs` |
| `SpeechDelivery` | `AssistantDeliveryLedger`, `BoundedSpeechQueue`, `InterruptionCoordinator` | `MCProgress`, `SpeechDeliveryProofs` |
| `ToolExecution` | `ToolExecutor`, `ApprovalBroker`, `CapabilityAuthority` and the currency of generations | `MCToolExecution`, `ToolExecutionProofs` |
| `ReliableBroadcast` | what the event bus promises: abstract | `EventBus` |
| `EventBus` | `EventBus`, `EventSubscription` | `OwnerBridge`, `MCProgress`, `OwnerBridgeProofs` |
| `OwnerBridge` | websocket handler, control dispatcher, owner session, owner actions, `_detach_owner` | `MCOwnerBridge`, `OwnerBridgeProofs` |
| `ProviderRefresh` | provider route of `SamRuntime` | `Components`, `ComponentsProofs` |
| `SupervisorStore` | what is persisted and shared by supervisor and updater | `Supervisor`, `UpdateTransaction` |
| `Supervisor` | monitors, processes, commands of the operator | `MCProgress`, `SupervisedUpdate`, `SupervisionProofs` |
| `UpdateTransaction` | `UpdateCoordinator` with layout and store | `Components`, `SupervisedUpdate`, `SupervisionProofs` |
| `SupervisedUpdate` | `SupervisorUpdateRuntime`: both together | `MCSupervisedUpdate` |
| `VoiceSession` | `_voice_loop`, `VoiceInputPipeline`, monitors, voice handoff | `Components`, `ComponentsProofs` |
| `SpokenResponse` | `_deliver_assistant`, system TTS, output device | `MCProgress`, `SpeechDeliveryProofs` |
| `SpeechRecognition` | `WhisperCppServerSTT` | `Components`, `ComponentsProofs` |
| `MemoryStore` | `MemoryStore` and the tools and runtime calls that reach it | `Components`, `ComponentsProofs` |
| `McpClient` | `StdioMcpTransport`, `McpClient.call` | `Components`, `ComponentsProofs` |
| `LocalModels` | `local_discovery.py`, ownership kept by `run_runtime` | `MCLocalModels`, `Components`, `ComponentsProofs` |
| `FileWrite`, `FileSearch` | `files.write`; `files.search` and `files.list` | `Components`, `ComponentsProofs` |
| `RuntimeState` | committed messages, context, settings | `Components`, `ComponentsProofs` |

How they are composed:

* `OwnerBridge` extends `EventBus`: the acknowledgements, states and provider events its
  tasks publish go through the modelled queues, so a client that stops reading makes the
  task wait that holds the dispatcher's lock.
* `SupervisedUpdate` extends `Supervisor` and `UpdateTransaction`, which share
  `SupervisorStore`. Restarting, watching and rejecting a version are joint steps.
* `EventBus` implements `ReliableBroadcast`: `DurableEventsAreBroadcast` is the abstract
  specification, its fairness included, under the mapping at the end of `EventBus`
  (what a subscription accepted is what its reader had and the durable events queued).
  `BroadcastIsSafe` is its safety alone, and what section 4 proves of it.
* `Selection` says without recursion what `[x for x in queue if ...]` leaves, so that the
  modules with a queue that is thinned can be proved about.
* `Components` and `MCProgress` put components beside each other that share no state.
  `focus` names the component whose behaviour it is; the others keep their first values.
  This checks each one exactly as alone, in one run. `MCToolExecution` and `MCOwnerBridge` have
  two scenarios in the same way: which callers call and which turns begin, and which commands
  the clients send.

Concurrency follows asyncio: a task runs alone until it awaits, so an action is what one
task does between two awaits and `pc` names the await. `task.cancel()` takes effect at
the await of the task, some time after it was called.

**TurnManager.** One action per public method; `on_vad` is a disjunction of its branches
and `on_time` of its two outcomes. A call that raises or returns `()` without changing
anything is not enabled. Calls name any generation ever started, so late ones are
included; `ConfirmInterruption`, `Commit`, `ClearInterruptionCandidate` and so on are the
private methods of those names. `out` is what the latest call returned, `past` everything
before; only events that open or end a capture, a model run or a playback are kept.

**GenerationHandoff.** The states of `pc` are the awaits of `_run_turn_after_predecessor`
and `_run_turn`. `CancelPredecessor` is the code's rule which predecessor gets
`task.cancel()` and which only has its token cancelled. `HandleCancelled`, `HandleError`
and `Retire` are the two handlers and the finally blocks. `ReportReturns` and `ReportWaits`
split `_publish_terminal_event` at its await: the second is possible only under
`Backpressure`, the case of a full subscriber queue. `delivered` is what subscribers got.
The turns are typed ones with no microphone; with a microphone the outcome events come from
`TurnManager`. The successor's report about its predecessor happens in `RetirePredecessor`.

**SpeechDelivery.** `ledger` variables are the ledger's, `speech` the queue's, `tasks` the
producers and players. `asyncio.Queue.put` and `get` may wait; cancelling a token schedules
a `task.cancel` for the tasks that wait, which arrives later and may find the task woken.
`StopGeneration`, `CleanUp`, `PlaybackStops` and `ApplyInterruption` are the four places that
cancel a generation. Evicting the oldest ledger record is part of `StartGeneration`.

**ToolExecution.** `pc` is the await of `_execute_once` a caller is at: the publication of
an event, the approval, the tool, the leader's future. Whether the registry, a timeout or a
tool fails is a choice. `sensitive` says which invocations the configured policy wants
approved; it is drawn from `Policies` at the start and never changes. `OwnerActions` holds the
generations of owner actions (`_is_current_tool`): they are current beside the turn, begin
without superseding it and are not superseded by one, and stop being current when they are
over or their connection retires, whatever they are doing. A model turn stops being current
only once its calls are over, or when it is stopped or superseded. `CallerStarts` carries the one timing assumption: a cancellation
scheduled by superseding a turn arrives before the new turn calls a tool, because
`call_soon` runs in the next pass of the event loop and a turn reaches its first tool after
storing its message in a thread and after a stream from a provider.

**EventBus.** No lock is held across an await, so one step takes a publisher from
subscription to subscription until one is full. It waits there; a freed place wakes those
who wait, and one that is woken may find the place gone. Each event has the number it was
published under, a history that is not kept (`MaxEvents = 0`) where only the traffic of the
bus matters. `CancelPublish` is the cancellation
of a publisher at that await. Lossy events replace an older one of their type or are dropped.

**OwnerBridge.** `conn` is where `handle` is: open, its tasks ending, detaching, closing.
The consumer of a connection is at a read, the lock, the command or its answer; the
dispatcher's bounded history and the sequences of the owner actions decide whether a
repeated command is answered, refused or applied. Both are kept by connection and the
sequences are dropped on detach, so a command repeated on the next connection is a new one
there: `StartAction` starts a second action of the request unless the first is still listed. `DetachActions` and `Disconnect` are
`_detach_owner` and the finally block; the wait of one second is a choice to go on.

**ProviderRefresh.** A request is a task with its await in `pc`; request r discovers
provider object r. Cancelling a task at an adapter's call makes it unwind there, which may
take as long as it likes; at any other await it is over. `TakeRoute` is the commit of the
discovery with its checks, `ClosePrevious` what follows in the same task. A provider that is
not taken is closed in an await of its own, after the checks and before the route is dropped
(`stale`, `sparing`, `dropping`, `refusing`). A refresher that raises comes to a handler that
asks for no epoch (`ScanFails`), and an unload that is answered late to the one for
cancellations (`UnloadIsStale`).

**Supervisor.** A monitor is at the launch, the readiness, the process, the backoff or
over. `journal` holds the failures persisted in the crash window; time only matters as the
oldest failure that still counts. `SupervisorEnds` may come between any two
steps, and `DiesRecording` between recording a failure and acting on it.

**UpdateTransaction.** Pointer, registry and transaction are written one after the other
and the coordinator may be lost between any two; `Recover` is `recover_incomplete`. How
staging, health check and restart turn out is open.

**VoiceSession.** A token and the turn it may become share one number. The loop and the
monitors are listeners whose `pc` is their await; a manager keeps only the phase the tasks
look at, and moves as `TurnManager` allows.

**SpokenResponse.** Task, callbacks of the token, threads of the device and processes of
the synthesizer are separate actors. A process runs from the call of
`create_subprocess_exec`, and the adapter has it only when that await is over (`listing`,
`spawning`); its deadline may pass while it runs (`TimesOut`), and `aclose` may come at any of
these awaits. A callback is run by the caller of `cancel` at once,
`task.cancel()` comes through the event loop (`wake`). Cancelling the task while the stream
opens leaves the stream to its thread, as in the code: `device = "lost"`. `abort` of the stream is
taken to succeed; one that raises is logged (`sounddevice.py:156-159`) and is not modelled.

**SpeechRecognition, LocalModels, McpClient.** The external server, and other programs
beside it, move at any time. What the adapters remember (a process, a claim, a pending id)
is the state. `LocalModels` takes LM Studio's CLI to refuse a port or a model that is in
use, and with `Replaces = FALSE` leaves out that another program loads anew a model of a name
that Sam once loaded, which `docs/ARCHITECTURE.md:501-505` names as a limitation. Other
programs may start a server where Sam's was. A model
load that fails drops the snapshot; a pending MCP entry stays after a failed send.

**MemoryStore.** A job is a worker thread in one transaction; `wanted` is the check it makes
before and after. A cancellation that comes after the second check does not stop the commit.

**FileWrite, FileSearch, RuntimeState.** Threads of cancelled calls go on. A tree is a
sequence of directories, a file its number of matching lines; unreadable files are skipped
without a word, as in the code. Settings for visuals, audio and lifecycle are in force
before they are stored, the recognition language after.

Definitions named `X_Something` are wrong variants of `X`, used to show that a property can
fail. They are in no specification. `PROJECT.json` lists one for each property; the others
show the same for the parts of the properties that join several components (`AnswersAreTrue`
also fails with `Heard_Selected`, `Eligible_All`, `Confirmed_Anyway` and
`Placed_Renamed`, `ResourcesAreOwned` with `TakeRoute_DuringTurn`, `CloseMonitor_KeepsStream` and
`AbandonsStartup_UnlessTimeout`, `DurableEventsAreBroadcast` with `MarkClosed_Silently`,
`RequestsRunApart` with `Admissible_AnySequence` and `DetachActions_KeepsTokens`, `UpdateIsRecoverable` with `Accept_Unchecked`,
`ChunksAddUp` with `PlaybackEnds_AlwaysDone`, `IdentitiesAreSeparate` with `EventOf_Candidate`,
`SupervisionIsSound` with `Counted_Cleared`, `MemoryIsSound` with `InboxFull_OneMore`).

## 3. What the runs check

| Run | Result | Distinct states |
|---|---|---|
| `TurnManager` | five invariants hold | 1.48 million |
| `GenerationHandoff` | five invariants and two liveness properties hold | 349 thousand |
| `ToolExecution` | four invariants, one action property and one liveness property hold | 564 thousand |
| `OwnerBridge` | two invariants and one liveness property hold | 720 thousand |
| `Progress` | six invariants, two action properties, three liveness properties and the refinement hold | 415 thousand |
| `Components` | five invariants and two action properties hold | 1.34 million |
| `HandoffOutcome`, `HandoffLedger`, `HandoffBackpressure`, `ToolTerminalEvent`, `ServerStop`, `UpdateRollback` | a counterexample each | - |

The type invariants of `TurnManager`, `GenerationHandoff`, `SpeechDelivery`, `ToolExecution`,
`EventBus`, `Supervisor`, `UpdateTransaction`, `ProviderRefresh` and `MemoryStore` are proved
with the invariants of section 4; those of `VoiceSession` and `ProviderRefresh` are conjuncts of a
checked one, and the other components of `Components` have theirs in the inductive invariants.

**TurnManager.** `ClockAnchors`: a state that waits for a duration has the timestamp it is
counted from, and open speech is being heard. `ResponseMatchesState`: state and flags agree.
`EachEndsOnce`: one end for each response's
model run, playback and capture. `IdentitiesAreSeparate`: the
events of a generation name one turn, also across a confirmed interruption, and rejecting an
interruption cannot cancel the response (`EventsKeepTheirTurn`, `CandidateIsSeparate`).

**GenerationHandoff.** `NewestTurnKeepsOwnership` and `LedgerBelongsToRunningTurn`: late
work of a stopped turn takes neither the conversation nor the speech of its successor.
`AnswerWasReported`, `AtMostOneOutcome`, `FinishedTurnIsReported`: the outcome comes once and
before the answer is stored. `EveryTurnIsReported`, `ConversationIsReleased`: a provider that
never answers again cannot keep the conversation once a newer message has come.

**SpeechDelivery** (run `Progress`). `OneOpenRecord`, `ChunksAddUp` (`QueueAccounting`, `NoChunkLost`), `SpokenInOrder`,
`HeardIsSettled`, `BlockedProducerIsReleased`: see the comments; between them, ledger and
queue agree on every chunk through cancellation, eviction and late playback reports.

**ToolExecution.** `ActsWithAuthority`: at the moment a tool is entered, and when its result
is accepted, lease, currency and token are valid, not merely when they were checked.
`RunsAreApproved`: the owner approved this very invocation, not another of the same
`tool_call_id`. `RevocationReachesTools`: a revocation leaves no cancellable tool untold. `RunsAtMostOnce`,
`NothingLeftBehind`, `CallsReturn`: duplicates share one run, and every call returns and leaves
no approval, result or cancellable entry behind.

**OwnerBridge.** `RequestsRunApart`: on one connection a sequence starts at most one action,
within the bounded history or beyond it (`RepeatsStartNothing`). Across connections the code
does not promise that: a client that connects again and repeats a request starts a second
action. What holds is that of the actions of one request at most one is not cancelled and at
most one is listed (`OneOfRequest`), and that the end of the old action does not take the entry
of the new one, which its owner could then no longer cancel.
`NothingOutlivesConnection`: a connection that is gone has no lock, place in a queue, action,
subscription or waiting task. `CommandIsAnswered`: a command that was read is answered or its
connection ends, although the dispatcher publishes to full queues under its lock. The one
exception, `RefreshStranded`, is a cancelled refresh that reports to the queue of the leaving
connection that awaits it.

**Progress.** `DurableEventsAreBroadcast`: the bus implements `ReliableBroadcast`, safety and
liveness. `NobodyWaitsInVain`: who waits in the bus waits for
a queue that is still full, or still empty, so no wake-up was forgotten. `SupervisionIsSound`: the mark of a planned restart excuses one end of a process;
a critical component that used up its budget stays down across supervisors. It carries the
type invariants. `ShutdownCompletes`: a shutdown returns whatever its monitors are at, except
when it overtook a launch (`LaunchOvertaken`: the process registered afterwards is told
nothing). `NoProcessIsLost`: a speech process that runs is registered with the adapter or still
being spawned, and once the adapter is closed and the task over none runs. The order of `close`
is part of that: it cancels the task before it calls `aclose`, for `_synthesize_wave` does not
ask again whether the adapter is closed. `SilentOnceStopped`, `StoppedResponseEnds`: a muted or
stopped response sounds no more; it ends although the process that makes the speech never
answers.

**Components.** `UpdateIsRecoverable`: wherever the coordinator is lost, after recovery pointer
and registry name one version that is there, and the last known good version was observed.
`MemoryIsSound`: what counts as reviewed is what the owner wrote or approved; the inbox keeps
its limit. `InterruptionIsHeardOut`: the loop does not take the microphone from an interruption
that is being heard. `LateResultsAdoptNoRoute`: the provider route never goes back to what an older
request found. It is not said that an overtaken request leaves the route alone, which is false
(`StaleCannotOverwrite` below). `ResourcesAreOwned`: neither the route nor a running turn has a
closed provider, whichever task was cancelled between the switch and the closing of the old one
(`RouteIsUsable`); recogniser streams are settled (`StreamsAreSettled`); an owned speech server is stopped
(`ServerIsStoppedWithSam`); no model that is claimed is another program's, and the server is
claimed only if Sam once started it (`ClaimsAreOwn`).
`AnswersAreTrue`: MCP answers find their request (`AnswersFindTheirRequest`), a remembered
language has evidence (`LanguageHasEvidence`), a search keeps its limits (`WithinLimits`), contexts and settings are sound (`ContextIsSound`,
`ReportedSettingIsKept`), nothing is replaced without leave (`NothingIsOverwritten`).
`SearchIsComplete`: a search or listing that does not say it is truncated has found all there is
in reach of its arguments.

### Where code and documents differ

1. `HandoffOutcome`: a turn stopped while a tool runs ends without an outcome
   (`runtime.py:1782`), against `docs/RELEASE_NOTES_0.2.2.md:8`. `FinishedTurnIsReported`
   and `EveryTurnIsReported` exclude this one case by `toolstop`.
2. `HandoffLedger`: a turn superseded while its message is being stored takes the delivery
   ledger afterwards (`runtime.py:1653`); its successor is refused, against D-031 in
   `docs/DECISIONS.md:550-554`.
3. `HandoffBackpressure`: `terminal` is set after the publication it guards
   (`runtime.py:2892`), so a cancellation in between produces a second outcome, against
   `docs/RELIABILITY_AUDIT_0.2.2.md:352`. The passing run has `Backpressure = FALSE`; its
   `AtMostOneOutcome` is about bounded queues that have room.
4. `ToolTerminalEvent`: the same for the terminal event of a tool
   (`core/tools/executor.py:331`), against `docs/PROTOCOL.md:29-30`.

5. `UpdateRollback`: a candidate that crashes is unknown to the supervisor until its monitor
   has launched the next one; the rollback asks for a restart in that time, gets an error and
   enters safe mode (`updater.py:370`), although only one version failed, against
   `docs/ARCHITECTURE.md:530-531`.
6. `ServerStop`: Sam keeps the mark that it started the model server while any server answers
   (`cli.py:85-86`), and at quit stops one that another program has started in its place, against
   `docs/ARCHITECTURE.md:485-486`, "then stop a service only when Sam started it". The limitation
   of lines 501-505 is about a model that is replaced under its id.

The following are stated in the modules and refuted by TLC as well. No run is kept for them,
each comes from a counterexample of the instance of its module:

* `CommandIsAnswered` without `RefreshStranded`: `_detach_owner`
  (`runtime.py:3137-3140`) cancels the refresh and awaits it, while the refresh publishes its
  end to the full queue of the very connection that is being detached.
* `StaleCannotOverwrite`: a rescan that a newer request has overtaken, and whose refresher raises,
  drops the model of the route the newer one has confirmed (`runtime.py:1255-1262`, which compares
  no epoch); `docs/DECISIONS.md:652-653` says "stale results are closed and cannot overwrite newer
  state". Three requests and no response are enough.
* `MutedMicrophoneStaysClosed`: the loop waits for the microphone, the gate and the active turn
  one after the other and looks only at the last two again (`runtime.py:2295-2301`); a
  microphone muted during the later waits is opened (`docs/USER_GUIDE.md:109`).
* `NewerMessageIsKept`: an utterance that was committed before a typed message, but whose
  handoff begins after it, draws its epoch only then and cancels the typed turn before it looks
  at its own token, which that message had cancelled (`_start_voice_turn`; the race that
  `docs/POST_0.2.3_BETA_PLAN.md:187-190` calls rejected is the one in the other order).
* `MonitorOwnsItsDelivery`: the monitor takes the turn manager of the moment
  (`runtime.py:2484`), which may be that of a newer message by the time it first runs.
* `OneDeliveryOutcome`: `_cancel_active_playback` claims the stop before publishing
  (`runtime.py:2929-2930`), but the response's own task may have reported in between.
* `SeenAbsentIsUnclaimed`: after a refresh the claim on a model nobody sees any more stays in
  the older snapshots that cleanup merges; `cli.py:718-720` says such claims are discarded.
* `ReportIsTrue`: with overwrite, `files.write` reports created or overwritten from the look
  it began with (`core/tools/filesystem.py:332-349`).
* `ContextWasDelivered`: an answer is stored (`runtime.py:1842`) before it is delivered, while
  `_conversation_context` (`runtime.py:2054`) promises "never generated-but-undelivered content".

Known and not stated as a property: approvals are keyed by `tool_call_id` alone, so a
superseded call that still unwinds makes the successor's approval fail or be abandoned.

### Bounds

* `TurnManager`: two generations and three identities give a response, the interruption of
  it, the response to that and every late answer of the first; clock readings 0 to 3 with
  thresholds 0, 1 and 2 separate all order relations between the thresholds. The theorems
  below remove all of these bounds.
* `GenerationHandoff`: three turns, since a successor can itself be superseded while it
  retires its predecessor; one tool round, which reaches the limit.
* `SpeechDelivery`, in `Progress`: two generations and one record (so eviction happens), three chunks and
  a queue of two (so a producer waits and order could be lost).
* `ToolExecution`: either two callers of one invocation and one of another turn's, or a call of
  a turn and one of an owner action while a later turn begins that makes none, all with one
  `tool_call_id`; a history of one, so that forgetting happens; one revocation and one
  restoration (`MaxEpoch = 2`). Between two turns the policy wants the first approved or both;
  beside an owner action it wants both approved.
* `OwnerBridge`: two clients, two places for actions, queues and history of one entry, so that
  waiting and forgetting happen. Either the first may execute and rescan and the second cancel
  and quit, or both may send one request and its cancellation, each as often as the budget of
  four connections and commands allows: two connections and a command on each, or one
  connection and three commands.
* `Progress`: two publishers, two subscribers, a queue of one and two events in all
  (`MaxEvents` is the bound on the numbers they get), so that a
  publisher waits with a later one beside it; a critical component with three launches and a
  budget of two failures, a second component, two supervisors one after the other; two frames
  and two cancellations of a response.
* `Components`: three provider requests, so that one that was overtaken may come after two that
  took the route, one turn, one retry; two updates, two losses of the coordinator; three identities for the voice session;
  three memory jobs, two records, an inbox of one; two MCP callers; two speech streams and two
  languages; two models with two changes from outside, a restart of the core; two careful
  writes and a replacing one; two trees three levels deep with every kind of entry, limits
  below, at and above what they hold; three turns with messages of sizes
  that fit together, alone, or (the second turn's) not at all, in a context of three messages.
* `ServerStop`: one model, one refresh, two changes from outside.
* `UpdateRollback`: one component, one update.

`CHECK_DEADLOCK FALSE` is set where the bounds or the idle program stop: an idle assistant
waits for its owner.

### Fairness

* `GenerationHandoff`: every turn's task runs if it can, as the event loop guarantees,
  except that an adapter call (provider, tool, speaker, context) is trusted to return only
  for the turn that owns the conversation. Without that a provider that hangs with no newer
  message would be counted against the handoff; its own timeout is in the adapter.
* `SpeechDelivery`: only the delivery of scheduled cancellations is fair; nobody needs to
  take chunks.
* `ToolExecution`: each caller's next step is fair. The waits in it have timeouts in the
  code (approval, tool) or end with a publication.
* `EventBus`: publishers and readers that can go on do, and a subscription that is open is
  read. The bus cannot guarantee the latter; `OwnerBridge` has the reader that stops, where
  the ping timeout of the websocket server ends the connection, and assumes no more than that.
* `Supervisor`: monitors run, and a process that was told to stop ends, since it is killed
  after its grace period. Components need not crash, recover or become ready.
* `SpokenResponse`: the task runs, calls to the device return, killed processes end. That a
  TTS process answers by itself is not assumed.
* The components in `Components` are checked for safety only.

## 4. Proofs

`TurnManagerProofs` proves with TLAPS, for all thresholds, all bounds on time, identities
and generations, that `TypeInv` and the five invariants above hold of `Spec`: `TypeCorrect`,
`ClocksAreAnchored`, `StateMatchesResponse`, `CandidateNeverShares`, `RunsEndOnce`,
`CapturesEndOnce`, `EventsStayAttributed`, `IdentitiesStaySeparate`. The only assumption is `ConfigAssumption`:
thresholds are naturals, and the longest endpoint wait covers the uncertain silence, which
`TurnConfig.__post_init__` enforces.

None of the event properties is inductive: that an end is the first end of its generation
depends on the flags telling the truth about all earlier events. `IInv` adds what they say:

* `GenerationHasTurn`: events of the current generation carry the current turn;
* `ActiveHasNotEnded`: a run or playback marked active has not ended, and a playback marked
  active has started;
* `WaitsForPlayback`: a response that is THINKING, or would return to it, has had no playback;
* `OpenCaptureHasNotEnded`: an open capture has been neither committed nor cancelled.

The proof goes in layers, one lemma for each kind of type (`ControlStep`, `ClockStep`,
`IdentityStep`, `EventsStep`, joined in `TypeStep`), then `AgreementStep` for state, flags and
clocks, `HistoryStep` for the four conjuncts above, and `EndsStep` for the event properties;
each has one step per action. `InitHolds`, `StepHolds` and `Inductive` join them.

`SelectionProofs` has the lemmas on queues that are thinned, for any queue and any set of
places: `PlacesAreNumbered` (the places that are kept are numbered in their order, each once),
and what `Only` makes of an empty queue, of one that is appended to, shortened at its head, or
loses a member that would not be kept. They replace the induction that `SelectSeq` would need.

`SpeechDeliveryProofs` proves, for any number of generations, records, chunks and queue places
(`DeliveryAssumption`: all are positive), `DeliveryTypeInv` (`TypesAreKept`), `OneOpenRecord`
(`OneRecordIsOpen`), `ChunksAddUp` (`ChunksAreAccounted`),
`SpokenInOrder` (`ChunksAreHeardInOrder`) and the action property `HeardIsSettled`
(`HeardStaysSettled`). `LedgerInv` adds that a generation not yet opened is not over
(`UnopenedIsOpen`) and that a generation that is over has no chunk left that could be taken or
played (`SettledChunks`); with it the late steps of a stopped player find nothing to change.
`DeliveryInv` relates the ledger to queue and tasks: what is queued was written, is not in flight
as well, and is in the order of writing (`QueueInOrder`); the chunk a producer waits with is its
last and nowhere else (`PendingIsLast`), so it can be put without doubling or overtaking; and
`AllAccounted` is `NoChunkLost` without counting.

The second part of the module is about `SpokenResponse`, for any number of frames and
cancellations: the action property `SilentOnceStopped` (`MutedMeansSilent`) and
`NoProcessIsLost` (`ProcessesAreEnded`). `ProcessInv` adds what each await leaves of the
processes, and that the adapter is closed only after the task was cancelled or has ended
(`ClosedAfterCancelling`): a task that is struck in time starts no process, or has the one it
spawns ended, after `aclose` has looked. `StreamInv` says
why a stopped response is silent: the token's callback is bound from the opened stream to its
closing (`CallbackIsBound`), so a cancellation aborts whatever stream there is; start and writes
of the stream follow one another (`ThreadsInTurn`); and a task that starts the stream when the
token is cancelled is struck before it can go on to write (`StruckInTime`), which is what makes a
late start that revives an aborted stream harmless. It was checked on the instance of `Progress`
before it was proved; the constants need no assumption.

`GenerationHandoffProofs` proves, for any number of turns and tool rounds and with or without
backpressure, `TypeInv` (`HandoffTypes`), `NewestTurnKeepsOwnership` (`NewestTurnOwns`),
`LedgerBelongsToRunningTurn` (`LedgerIsNotStuck`) and `FinishedTurnIsReported`
(`EveryEndIsReported`). Under the assumption `~Backpressure`, which the backpressure run shows
to be needed for the first of them, it also proves `AtMostOneOutcome` (`OneOutcomePerTurn`) and
`AnswerWasReported` (`AnswersAreReported`). `HandoffAssumption` only says that there is at
least one turn. The inductive invariant `IInv` says what is known of turns that were overtaken:

* `ChainInv`: a predecessor is older than its successor and its token is set;
* `OwnershipInv`: a running turn that does not own the conversation has a successor;
* `DeliveryInv`: the ledger's active generation is a running turn, and a turn that nobody
  stopped has the ledger from its context to its end;
* `CancellationInv`: a turn overtaken after it read its token at the context has
  `task.cancel()` pending until its next await, which is why it cannot report a completion;
* `ReportInv`: a turn that still works was reported only by its successor, and a successor is
  past its retirement only once its predecessor was reported.

`DirectReports` adds, without backpressure, that `terminal` counts what subscribers got. The
proof first states, variable by variable, what one step of a task may change (one case per
group of actions), and then shows each conjunct preserved from these facts.

`ToolExecutionProofs` proves, for any callers, invocations and places in the history
(`ToolAssumption`), `TypeInv` (`TypeCorrect`), `RunsAreApproved`
(`EveryRunIsApproved`), `RunsAtMostOnce` (`DuplicatesRunOnce`), `RevocationReachesTools`
(`RevocationIsComplete`), `NothingLeftBehind` (`CallsCleanUp`) and the action property
`ActsWithAuthority` (`AuthorityIsCurrent`). The invariant is a conjunction of
`LeaderInv` (who is inside leads its invocation, which is not remembered yet), `ReportInv` (a
status is reported only while its event is published, and `task.cancel()` comes only with the
token), `ApprovalInv` (the owner's yes, and the passage past it, are for that very call),
`CancellableInv` (`Revoke` finds a call that is or will be in a cancellable tool) and `RunInv` (what
has run is remembered or was, is not over, or has its token cancelled). `MoveKeeps` and `LeaveKeeps` are the two ways a caller
moves; every action is one of them.

`SupervisionProofs` has two parts. `SupervisionStaysSound` proves `SupervisionIsSound` with the
types of everything supervisor and store keep, for any order of components, budgets, windows and
number of supervisors (`SupervisorAssumption`: the order is a sequence that has the critical
components, at least one failure is allowed, the bounds are naturals). `SupervisorInv` adds that
nothing is left of a supervisor that ended (`NothingIsLeft`), that the failures of a component
that still count are in the journal and known to the monitor that will judge the next one
(`FailuresAreCounted`), and that a critical component over its budget means safe mode
(`CrashLoopIsKnown`), which is why the next supervisor does not launch it.

`EveryUpdateIsRecoverable` proves `UpdateIsRecoverable` for any
number of transactions, losses and versions kept; it assumes only `MaxUpdates \in Nat`.
`UpdateInv` adds that at most one transaction is unfinished and it is the one the call is about
(`OneIsUnfinished`), that everything that could be gone back to was observed
(`VersionsWereObserved`), and how far the switch has come (`SwitchIsOrdered`). Once a rollback
failed the strengthening says nothing, as the property does not.

`OwnerBridgeProofs` goes from the bus to the bridge on it.

* `NoWakeUpIsLost` proves `NobodyWaitsInVain` for any publishers, subscribers and limits
  (`BusAssumption`: there is a place in a queue, no type is both lossy and durable, no publisher
  has the name of the reader or of nobody). `BusInv` adds that a publisher that is idle has
  nothing to deliver, one with a lossy event is running and nobody runs while waiting
  (`PublishersAreSound`).
* `BusRefinesBroadcast` proves `BroadcastIsSafe`: the initial states of `EventBus` are initial
  states of `ReliableBroadcast`, and each step is one of its steps or leaves its variables alone.
  The hypothesis `MaxEvents > 0` says that the history of what was read is kept; without it there
  is nothing to map. `NumbersGrow` (what a subscription took of a publisher is older than what it
  is still owed) gives the order, and the lemmas of `SelectionProofs` that lossy events come, go
  and are replaced without changing `Durable(queue[s])`.
* `RequestsStayApart` proves `RequestsRunApart` for any commands, connections and places. `ActionsInv`
  needs nothing of the bus: a connection that can still send keeps its last sequence, sequences
  started are below it, and connections never reopen. Beside it the proof keeps that an action
  whose connection is gone is cancelled and unlisted, and that a start finds no listed action
  of its request: the next action of a request is the only one of it that is not cancelled.
* `ConnectionsLetGo` proves `NothingOutlivesConnection`, and `BridgeKeepsTheBus` that the bus
  keeps `NobodyWaitsInVain` among all that the bridge does with it. `PublishersAssumption` names
  the tasks that publish, all different, and `PublishedAssumption` gives the bridge's events a
  type. `ConnectionsInv` is `BusInv` with what a connection may still hold at each stage of its
  end (`HoldingsShrink`: consumer, lock, place in the lock's queue, subscription, refresh), that
  its actions are cancelled and then detached (`ActionsAreDetached`), and that who applies a
  command holds the lock (`LockInv`).

`ComponentsProofs` proves the components that share no state, and what `Components` says of them
together.

`MemoryStaysSound` proves `MemoryIsSound` for
any number of worker threads, records and places in the inbox, assuming that the bounds are
naturals and no job has the name of the free lock (`Bounds`). `MemoryInv` adds that one job at a
time is in the transaction and was not refused (`OneTransaction`), that ids are drawn once
(`IdsAreFresh`), and that as long as a record has the revision the owner was shown it says what
the owner was shown (`RevisionTells`), because its revision only grows.

`LateResultsAreNotAdopted` and `RouteStaysUsable` prove `LateResultsAdoptNoRoute` and
`RouteIsUsable` for any number of requests. `RouteInv` says that objects that are in the
route or closed were found by a request that is past its scan, that a running turn uses the
route of the moment, and that what a request will close is not the route. `RequestsAreCounted`
adds that the epoch counts the requests that were made, that each has the epoch it was made in,
and that the route is from one of them: a request that takes the route is the newest one, so
newer than the one the route is from.

Three theorems are about `Components` as a whole. Each step of the whole is, for each component, a
step of its own or none (`EachSteps`), so that each keeps the inductive invariant that is stated
at the end of its module; `ComponentsInv` is their conjunction. `ComponentsAssumption` says that
what is searched is a tree (a directory names directories there are), that limits are positive, as
the tools demand of their arguments, and that bounds are naturals.

* `AnswersStayTrue` proves `AnswersAreTrue`. `RequestsInv`: every MCP request has an id of its own,
  and in `pending`, in the pipe to the server and in its answers an id stands for that request.
  `RecognitionInv` needs the types of the streams only: evidence that is done stays. `WalkInv`: what is queued in a search counts as
  searched, and the entries of a scan are the tree's. `StateInv`: a turn has one write at a time,
  its answer is not written before the model completed and its question is
  (`WritesInTurn`), so question and answer stay in order (`InOrder`) through the bound of the
  store and the selection of a context. `WritesInv`: who has not come to place has placed nothing,
  and who has placed says so unless the cleanup fails (`PlacesAreTold`).
* `ResourcesStayOwned` proves `ResourcesAreOwned`. `ClaimsInv` is the argument why a claim is
  safe in each of the places that keep one (`held`, `ledger`, `seen`), however old it is: what is
  claimed Sam once made (`IsMade`), and a model Sam once made nobody else has (`MadeIsSams`). The
  latter is the hypothesis `OthersLoadOnce` (`Replaces = FALSE`, the limitation named above in
  the notes on `LocalModels`, and that no model is called "server"), which the run has as well; it is
  needed for `ClaimsAreOwn` only. Of the server it claims no more than that Sam once started one:
  whose it is now the code does not know (`ServerStop`). `RecognitionInv` adds that there is no process before the launch.
  `StreamsAreSettled` is a part of `VoiceInv`.
* `InterruptionsAreHeardOut` proves the action property `InterruptionIsHeardOut`. `VoiceInv` says who
  may hear: the flag `ordinary` that lets the loop listen is down while a monitor owns the
  microphone, and a loop that still listens then has had its token cancelled
  (`MicrophoneIsTaken`); a token was drawn and is one listener's (`TokensAreOwn`); and a listener
  that is done with its stream has settled it (`StreamsAreHeld`).

The invariants were checked as invariants of the `Components` run before they were proved.
`ProviderRefresh`, `FileSearch` and `RuntimeState` select with `Only` of `Selection`, since the
provers cannot derive what the recursive `SelectSeq` returns.

Only model-checked is one invariant, `SearchIsComplete`: it compares a count with a sum over
the directories in reach of a tree, two recursive functions, and what a recursive function computes
needs an induction over data that the provers cannot do here.

The liveness properties (`EveryTurnIsReported`, `ConversationIsReleased`,
`BlockedProducerIsReleased`, `CallsReturn`, `CommandIsAnswered`, `ShutdownCompletes`,
`StoppedResponseEnds`) and the refinement with its fairness (`DurableEventsAreBroadcast`) stay with
TLC: TLAPS reasons about neither fairness nor ENABLED here.

## 5. Plan

Left to do: microphone capture beside `VoiceSession`, and the start-up of MCP servers.

## 6. Not modelled, and why

* Model providers (`adapters/ollama`, `adapters/openai_compatible`, `adapters/http.py`): HTTP
  and stream parsing. The handoff has them as an adapter that answers, asks for a tool, fails or
  takes its time.
* Configuration, command line, launcher, diagnostics: parsing, start-up and reporting, run once
  by one task; what `run_runtime` keeps of local models is in `LocalModels`.
* User interface, desktop shell, scripts: clients of the event bus, or outside the program.
* Of partly modelled parts: the capture device and audio buffers, MCP start-up, schema and size
  checks, the probes and output parsing of discovery, SQL schema and migration, single-call tools,
  observers of the bus.
* Data: texts, payloads, arguments and timestamps other than those of the turn manager decide
  nothing that the properties are about. Ranking of memories and transcript heuristics are
  choices: of a transcript only its endpointing grade and whether it is a credible
  interruption remain. Coordinates of the screen, paths and encodings do not appear.
