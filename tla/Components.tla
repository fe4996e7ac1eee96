----------------------------- MODULE Components -----------------------------
(***************************************************************************)
(* The components that share no state with the rest of the model, checked  *)
(* together: each behaviour is one of the component in focus, whose        *)
(* variables move while those of the others keep their first values.  Of   *)
(* components with several initial states, those out of focus have one.    *)
(* The route, the updates and the memory are extended, so that the runs    *)
(* check the very properties that are proved of them.                      *)
(***************************************************************************)
EXTENDS ProviderRefresh, UpdateTransaction, MemoryStore

CONSTANTS
    MaxIds, MaxTroubles,                                    \* VoiceSession
    Callers, MaxAnswers,                                    \* McpClient
    Streams, Languages, Preferred, MaxFrames,               \* SpeechRecognition
    Models, Replaces, MaxRefreshes, MaxRestarts, MaxOutside, \* LocalModels
    Careful, Replacing,                                     \* FileWrite
    Trees, Limits, MaxDepth,                                \* FileSearch
    Turns, Sizes, MaximumMessages, RecentLimit, Room, Values \* RuntimeState

VARIABLES
    focus,          \* the component whose behaviour this is
    \* VoiceSession
    drawn, cancelled, manager, voiceTurns, micOn, listenToken, ordinary, owner,
    active, voiceEpoch, handoff, response, listener, failures, troubles, openStreams,
    asked, replacedBy,
    \* McpClient
    mcpServer, reader, nextId, pending, writer, requests, calls, inbox, outbox,
    toolsChanged, answers,
    \* SpeechRecognition
    service, child, owned, startup, recent, streams,
    \* LocalModels
    server, loaded, step, seen, held, ledger, made, spent,
    \* FileWrite
    writeAt, existed, target, temporary, reported, replaced,
    \* FileSearch
    op, tree, limits, depth, queue, batch, directories, files, found, truncated, walkAt,
    \* RuntimeState
    turnAt, writing, messages, context, completed, delivered, running, stored, confirmed

voiceVars == <<drawn, cancelled, manager, voiceTurns, micOn, listenToken,
               ordinary, owner, active, voiceEpoch, handoff, response, listener,
               failures, troubles, openStreams, asked, replacedBy>>
mcpVars == <<mcpServer, reader, nextId, pending, writer, requests, calls, inbox,
             outbox, toolsChanged, answers>>
sttVars == <<service, child, owned, startup, recent, streams>>
localVars == <<server, loaded, step, seen, held, ledger, made, spent>>
writeVars == <<writeAt, existed, target, temporary, reported, replaced>>
walkVars == <<op, tree, limits, depth, queue, batch, directories, files, found,
              truncated, walkAt>>
stateVars == <<turnAt, writing, messages, context, completed, delivered, running,
               stored, confirmed>>
vars == <<focus, providerVars, storeVars, updateVars, voiceVars, memoryVars, mcpVars, sttVars,
          localVars, writeVars, walkVars, stateVars>>

-----------------------------------------------------------------------------
Voice == INSTANCE VoiceSession WITH epoch <- voiceEpoch
Mcp == INSTANCE McpClient WITH server <- mcpServer
Stt == INSTANCE SpeechRecognition
Local == INSTANCE LocalModels
Writing == INSTANCE FileWrite WITH at <- writeAt, told <- reported
Walk == INSTANCE FileSearch WITH at <- walkAt
State == INSTANCE RuntimeState WITH at <- turnAt

VoiceBounds == MaxIds \in Nat
StateBounds == MaximumMessages \in Nat /\ RecentLimit \in Nat /\ Room \in Nat
WalkBounds ==
    /\ \A t \in Trees : Walk!IsTree(t)
    /\ \A l \in Limits : Walk!IsLimits(l)
    /\ MaxDepth \in Nat

\* Counts are numbers, what is searched is a tree and limits are positive.
ASSUME ComponentsAssumption ==
    VoiceBounds /\ StateBounds /\ WalkBounds /\ MaxRequests \in Nat

-----------------------------------------------------------------------------
In(c) == focus = c

Init ==
    /\ focus \in {"provider", "update", "voice", "memory", "mcp", "stt", "local",
                  "write", "walk", "state"}
    /\ ProviderInit /\ (In("provider") \/ ~route.model)
    /\ StoreInit /\ UpdateInit
    /\ Voice!VoiceInit /\ MemoryInit /\ Mcp!McpInit
    /\ Stt!SttInit /\ (In("stt") \/ service = "nobody")
    /\ Local!LocalInit
    /\ In("local") \/ (server = "none" /\ \A m \in DOMAIN loaded : loaded[m] = "none")
    /\ Writing!WriteInit /\ (In("write") \/ target = "none")
    /\ Walk!WalkInit
    /\ In("walk") \/ (op = "list" /\ depth = 0 /\ tree = (CHOOSE t \in Trees : TRUE)
                      /\ limits = (CHOOSE l \in Limits : TRUE))
    /\ State!StateInit

Keeps(c, v) == IF In(c) THEN TRUE ELSE UNCHANGED v

\* The components out of focus keep their state.
Others ==
    /\ UNCHANGED focus
    /\ Keeps("provider", providerVars)
    /\ Keeps("update", <<storeVars, updateVars>>)
    /\ Keeps("voice", voiceVars) /\ Keeps("memory", memoryVars)
    /\ Keeps("mcp", mcpVars) /\ Keeps("stt", sttVars)
    /\ Keeps("local", localVars)
    /\ Keeps("write", writeVars) /\ Keeps("walk", walkVars)
    /\ Keeps("state", stateVars)

Next ==
    \/ In("provider") /\ ProviderNext /\ Others
    \/ In("update") /\ UpdateNext /\ Others
    \/ In("voice") /\ Voice!VoiceNext /\ Others
    \/ In("memory") /\ MemoryNext /\ Others
    \/ In("mcp") /\ Mcp!McpNext /\ Others
    \/ In("stt") /\ Stt!SttNext /\ Others
    \/ In("local") /\ Local!LocalNext /\ Others
    \/ In("write") /\ Writing!WriteNext /\ Others
    \/ In("walk") /\ Walk!WalkNext /\ Others
    \/ In("state") /\ State!StateNext /\ Others

Spec == Init /\ [][Next]_vars

-----------------------------------------------------------------------------
\* What the monitor of the newest typed response is hearing is not replaced by
\* the loop (VoiceSession).
InterruptionIsHeardOut == Voice!InterruptionIsHeardOut

\* What Sam uses is open, what it opened it can still close, and what it claims to
\* close it once opened: the provider of the route, the recogniser's streams, the
\* speech server, the model server and its models (ProviderRefresh, VoiceSession,
\* SpeechRecognition, LocalModels).
ResourcesAreOwned ==
    /\ ProviderTypeInv /\ RouteIsUsable
    /\ Voice!VoiceTypeInv /\ Voice!StreamsAreSettled
    /\ Stt!ServerIsStoppedWithSam
    /\ Local!ClaimsAreOwn

\* What an adapter or a tool answers is what it found out: the answer of another
\* request, a language nobody heard, a search beyond its limits, a context with the
\* question in it twice, a setting that was not stored and a file that took the
\* place of another one are none (McpClient, SpeechRecognition, FileSearch,
\* RuntimeState, FileWrite).
AnswersAreTrue ==
    /\ Mcp!AnswersFindTheirRequest
    /\ Stt!LanguageHasEvidence
    /\ Walk!WithinLimits
    /\ State!ContextIsSound /\ State!ReportedSettingIsKept
    /\ Writing!NothingIsOverwritten

\* A search that left something out says so (FileSearch).
SearchIsComplete == Walk!AnswerIsComplete
=============================================================================
