--------------------------- MODULE SpeechDelivery ---------------------------
(***************************************************************************)
(* The delivery ledger and the bounded speech queue of                     *)
(* src/sam_ambient/core/voice/delivery.py, used by asyncio tasks: of each  *)
(* generation, one that enqueues its speech chunks and one that takes      *)
(* chunks and plays them.                                                  *)
(*                                                                         *)
(* A task runs alone until it awaits.  It can wait in asyncio.Queue.put    *)
(* while the queue is full, in Queue.get, and in playback.  Cancelling a   *)
(* token schedules task.cancel for a task that waits in put or get; the    *)
(* call arrives some time later, and the task may have been woken before.  *)
(*                                                                         *)
(* Generations are numbered in the order they are started; chunk i of      *)
(* generation g is <<g, i>>.  Texts and timestamps are left out.  The      *)
(* identity checks of enqueue and of the coordinator compare identities    *)
(* that a generation draws together; they are one identity here.           *)
(***************************************************************************)
EXTENDS Integers, Sequences, FiniteSets, Selection

CONSTANTS
    MaxGenerations, \* bound: generations started
    MaxRecords,     \* max_generations: records the ledger keeps
    MaxChunks,      \* max_chunks_per_generation
    Capacity        \* max_chunks: chunks the queue holds

ASSUME DeliveryAssumption ==
    {MaxGenerations, MaxRecords, MaxChunks, Capacity} \subseteq Nat \ {0}

VARIABLES
    opened,         \* how many generations were started
    records,        \* generations the ledger still has a record of
    active,         \* active_generation_id, 0 for None
    chunks,         \* the state of each chunk of each generation
    fate,           \* interrupted_at_ms and completed
    fifo,           \* the asyncio.Queue
    in_flight,      \* _in_flight
    unfinished,     \* the queue's count of tasks that are not done
    token,          \* is the generation's token cancelled
    producer,       \* what the enqueuing task is doing
    player,         \* what the playing task is doing
    playing,        \* the chunk it plays
    scheduled       \* tasks that a scheduled task.cancel will reach

ledger == <<opened, records, active, chunks, fate>>
speech == <<fifo, in_flight, unfinished>>
tasks == <<token, producer, player, playing, scheduled>>
deliveryVars == <<ledger, speech, tasks>>

Generations == 1 .. MaxGenerations
Opened == 1 .. opened
Chunk == Generations \X (1 .. MaxChunks)
NoChunk == <<0, 0>>
ChunkStates == {"QUEUED", "PLAYING", "SPOKEN", "CANCELLED"}

-----------------------------------------------------------------------------
(* The ledger's methods.                                                    *)

\* chunk_state
ChunkState(c) ==
    IF c[1] \in records THEN chunks[c[1]][c[2]] ELSE "None"

\* Variants that show that the properties can fail are named after the
\* definition they change.
MarkSpoken_WhoeverIsActive(c) ==
    IF ChunkState(c) \in {"PLAYING", "CANCELLED"}
    THEN chunks' = [chunks EXCEPT ![c[1]][c[2]] = "SPOKEN"]
    ELSE UNCHANGED chunks

\* mark_spoken: late news of a generation that is over is ignored.
MarkSpoken(c) ==
    IF active = c[1] /\ ChunkState(c) = "PLAYING"
    THEN chunks' = [chunks EXCEPT ![c[1]][c[2]] = "SPOKEN"]
    ELSE UNCHANGED chunks

\* cancel_unspoken: once, and never for a completed generation.
CancelUnspoken(g) ==
    /\ IF g \in records /\ fate[g] = "open"
       THEN /\ fate' = [fate EXCEPT ![g] = "interrupted"]
            /\ chunks' = [chunks EXCEPT ![g] =
                  [i \in DOMAIN @ |-> IF @[i] = "SPOKEN" THEN "SPOKEN" ELSE "CANCELLED"]]
       ELSE UNCHANGED <<fate, chunks>>
    /\ active' = IF active = g THEN 0 ELSE active

-----------------------------------------------------------------------------
DeliveryInit ==
    /\ opened = 0
    /\ records = {}
    /\ active = 0
    /\ chunks = [g \in Generations |-> <<>>]
    /\ fate = [g \in Generations |-> "open"]
    /\ fifo = <<>>
    /\ in_flight = {}
    /\ unfinished = 0
    /\ token = [g \in Generations |-> FALSE]
    /\ producer = [g \in Generations |-> "ready"]
    /\ player = [g \in Generations |-> "ready"]
    /\ playing = [g \in Generations |-> NoChunk]
    /\ scheduled = {}

Oldest == CHOOSE g \in records : \A h \in records : g <= h

StartGeneration_Overlaps ==
    /\ opened < MaxGenerations
    /\ opened' = opened + 1
    /\ active' = opened'
    /\ records' = {opened'} \cup
          IF Cardinality(records) >= MaxRecords THEN records \ {Oldest} ELSE records
    /\ UNCHANGED <<chunks, fate, speech, tasks>>

\* start_generation: one at a time; the oldest record makes room.
StartGeneration ==
    /\ opened < MaxGenerations
    /\ active = 0
    /\ opened' = opened + 1
    /\ active' = opened'
    /\ records' = {opened'} \cup
          IF Cardinality(records) >= MaxRecords THEN records \ {Oldest} ELSE records
    /\ UNCHANGED <<chunks, fate, speech, tasks>>

\* finish_generation
FinishGeneration ==
    /\ active # 0
    /\ \A i \in DOMAIN chunks[active] : chunks[active][i] = "SPOKEN"
    /\ fate' = [fate EXCEPT ![active] = "completed"]
    /\ active' = 0
    /\ UNCHANGED <<opened, records, chunks, speech, tasks>>

-----------------------------------------------------------------------------
(* enqueue                                                                  *)

QueueIsFull == Len(fifo) >= Capacity

Put(c) ==
    /\ fifo' = Append(fifo, c)
    /\ unfinished' = unfinished + 1
    /\ UNCHANGED in_flight

\* The chunk is in the ledger before there is room for it in the queue.
Enqueue(g) ==
    /\ producer[g] = "ready"
    /\ ~token[g]
    /\ active = g
    /\ Len(chunks[g]) < MaxChunks
    /\ chunks' = [chunks EXCEPT ![g] = Append(@, "QUEUED")]
    /\ IF QueueIsFull
       THEN producer' = [producer EXCEPT ![g] = "putting"] /\ UNCHANGED speech
       ELSE Put(<<g, Len(chunks[g]) + 1>>) /\ UNCHANGED producer
    /\ UNCHANGED <<opened, records, active, fate, token, player, playing, scheduled>>

PutReturns(g) ==
    /\ producer[g] = "putting"
    /\ ~QueueIsFull
    /\ Put(<<g, Len(chunks[g])>>)
    /\ producer' = [producer EXCEPT ![g] = "ready"]
    /\ UNCHANGED <<ledger, token, player, playing, scheduled>>

PutCancelled_KeepsChunks(g) ==
    /\ <<"producer", g>> \in scheduled
    /\ scheduled' = scheduled \ {<<"producer", g>>}
    /\ producer' = [producer EXCEPT ![g] = "stopped"]
    /\ UNCHANGED <<ledger, speech, token, player, playing>>

\* task.cancel arrives: in put, where the ledger gives up the generation's
\* speech, or at a later await of a task whose put had already returned.
PutCancelled(g) ==
    /\ <<"producer", g>> \in scheduled
    /\ scheduled' = scheduled \ {<<"producer", g>>}
    /\ producer' = [producer EXCEPT ![g] = "stopped"]
    /\ IF producer[g] = "putting"
       THEN CancelUnspoken(g) /\ UNCHANGED <<opened, records>>
       ELSE UNCHANGED ledger
    /\ UNCHANGED <<speech, token, player, playing>>

-----------------------------------------------------------------------------
(* next_chunk, playback, mark_playing and mark_spoken                       *)

NextChunk(g) ==
    /\ g \in Opened
    /\ player[g] = "ready"
    /\ ~token[g]
    /\ player' = [player EXCEPT ![g] = "getting"]
    /\ UNCHANGED <<ledger, speech, token, producer, playing, scheduled>>

Live == {n \in DOMAIN fifo : ChunkState(fifo[n]) = "QUEUED"}

\* get returns: chunks that are no longer to be spoken are passed over, the
\* first that is becomes in flight and is marked playing before the next await.
GetReturns(g) ==
    /\ player[g] = "getting"
    /\ \E n \in Live : LET c == fifo[n] IN
       /\ \A m \in Live : n <= m
       /\ fifo' = SubSeq(fifo, n + 1, Len(fifo))
       /\ unfinished' = unfinished - (n - 1)
       /\ in_flight' = in_flight \cup {c}
       /\ chunks' = [chunks EXCEPT ![c[1]][c[2]] = "PLAYING"]
       /\ playing' = [playing EXCEPT ![g] = c]
    /\ player' = [player EXCEPT ![g] = "playing"]
    /\ UNCHANGED <<opened, records, active, fate, token, producer, scheduled>>

\* Every chunk there is passed over, and get waits again.
GetPassesOver(g) ==
    /\ player[g] = "getting"
    /\ fifo # <<>>
    /\ Live = {}
    /\ fifo' = <<>>
    /\ unfinished' = unfinished - Len(fifo)
    /\ UNCHANGED <<ledger, in_flight, tasks>>

GetCancelled(g) ==
    /\ <<"player", g>> \in scheduled
    /\ scheduled' = scheduled \ {<<"player", g>>}
    /\ player' = [player EXCEPT ![g] = "stopped"]
    /\ UNCHANGED <<ledger, speech, token, producer, playing>>

PlaybackEnds_AlwaysDone(g) ==
    /\ player[g] = "playing"
    /\ MarkSpoken(playing[g])
    /\ in_flight' = in_flight \ {playing[g]}
    /\ unfinished' = unfinished - 1
    /\ player' = [player EXCEPT ![g] = "ready"]
    /\ playing' = [playing EXCEPT ![g] = NoChunk]
    /\ UNCHANGED <<opened, records, active, fate, fifo, token, producer, scheduled>>

PlaybackEnds(g) ==
    /\ player[g] = "playing"
    /\ MarkSpoken(playing[g])
    /\ in_flight' = in_flight \ {playing[g]}
    /\ unfinished' = IF playing[g] \in in_flight THEN unfinished - 1 ELSE unfinished
    /\ player' = [player EXCEPT ![g] = "ready"]
    /\ playing' = [playing EXCEPT ![g] = NoChunk]
    /\ UNCHANGED <<opened, records, active, fate, fifo, token, producer, scheduled>>

\* The adapter fails or sees the token; the chunk stays in flight until
\* somebody cancels the generation.
PlaybackStops(g) ==
    /\ player[g] = "playing"
    /\ player' = [player EXCEPT ![g] = "stopped"]
    /\ playing' = [playing EXCEPT ![g] = NoChunk]
    /\ UNCHANGED <<ledger, speech, token, producer, scheduled>>

-----------------------------------------------------------------------------
(* Cancellation.                                                            *)

CancelToken_ForgetsProducer(g) ==
    /\ ~token[g]
    /\ token' = [token EXCEPT ![g] = TRUE]
    /\ scheduled' = scheduled \cup (IF player[g] = "getting" THEN {<<"player", g>>} ELSE {})

\* CancellationToken.cancel: the callbacks that enqueue and next_chunk hold.
CancelToken(g) ==
    /\ ~token[g]
    /\ token' = [token EXCEPT ![g] = TRUE]
    /\ scheduled' = scheduled
          \cup (IF producer[g] = "putting" THEN {<<"producer", g>>} ELSE {})
          \cup (IF player[g] = "getting" THEN {<<"player", g>>} ELSE {})

Others(g) == {n \in DOMAIN fifo : fifo[n][1] # g}

Retained_Reversed(g) ==
    LET kept == Kept(fifo, Others(g))
    IN  [n \in DOMAIN kept |-> kept[Len(kept) + 1 - n]]

\* The chunks of other generations, taken out and put back.
Retained(g) == Kept(fifo, Others(g))

\* cancel_generation
CancelGeneration(g) ==
    LET dropped == {c \in in_flight : c[1] = g}
    IN  /\ CancelUnspoken(g)
        /\ in_flight' = in_flight \ dropped
        /\ fifo' = Retained(g)
        /\ unfinished' = unfinished - Cardinality(dropped) - (Len(fifo) - Len(Retained(g)))

\* The owner of a generation, or its successor, cancels the token alone ...
StopGeneration(g) ==
    /\ g \in Opened
    /\ CancelToken(g)
    /\ UNCHANGED <<ledger, speech, producer, player, playing>>

\* ... and cleans up later; without a token, only when its tasks have stopped.
CleanUp(g) ==
    /\ g \in Opened
    /\ token[g] \/ (producer[g] # "putting" /\ player[g] = "stopped")
    /\ CancelGeneration(g)
    /\ UNCHANGED <<opened, records, tasks>>

\* InterruptionCoordinator.apply: an event bound to the active generation
\* cancels both at once; any other is passed over.
ApplyInterruption(g) ==
    /\ g = active
    /\ IF token[g] THEN UNCHANGED <<token, scheduled>> ELSE CancelToken(g)
    /\ CancelGeneration(g)
    /\ UNCHANGED <<opened, records, producer, player, playing>>

-----------------------------------------------------------------------------
DeliveryNext ==
    \/ StartGeneration \/ FinishGeneration
    \/ \E g \in Opened :
          \/ Enqueue(g) \/ PutReturns(g) \/ PutCancelled(g)
          \/ NextChunk(g) \/ GetReturns(g) \/ GetPassesOver(g) \/ GetCancelled(g)
          \/ PlaybackEnds(g) \/ PlaybackStops(g)
          \/ StopGeneration(g) \/ CleanUp(g) \/ ApplyInterruption(g)

\* The event loop delivers scheduled cancellations.
DeliveryFairness ==
    \A g \in Generations :
        WF_deliveryVars(PutCancelled(g)) /\ WF_deliveryVars(GetCancelled(g))

DeliverySpec == DeliveryInit /\ [][DeliveryNext]_deliveryVars /\ DeliveryFairness

-----------------------------------------------------------------------------
(* Properties.                                                              *)

DeliveryTypeInv ==
    /\ opened \in 0 .. MaxGenerations
    /\ records \subseteq Opened
    /\ active \in records \cup {0}
    /\ chunks \in [Generations -> Seq(ChunkStates)]
    /\ \A g \in Generations : Len(chunks[g]) <= MaxChunks
    /\ fate \in [Generations -> {"open", "interrupted", "completed"}]
    /\ fifo \in Seq(Chunk)
    /\ in_flight \subseteq Chunk
    /\ unfinished \in Nat
    /\ token \in [Generations -> BOOLEAN]
    /\ producer \in [Generations -> {"ready", "putting", "stopped"}]
    /\ player \in [Generations -> {"ready", "getting", "playing", "stopped"}]
    /\ playing \in [Generations -> Chunk \cup {NoChunk}]
    /\ scheduled \subseteq {"producer", "player"} \X Generations

\* The ledger's one open record is the active generation's: a generation that
\* was finished, interrupted or evicted never stays open behind its successor.
OneOpenRecord == \A g \in Opened : fate[g] = "open" <=> g = active

\* The queue's unfinished count is what is queued or in flight, through every
\* order of cancellation, late playback reports and eviction: task_done once for
\* each put.  And the chunks put back by cancel_generation always fit.
QueueAccounting ==
    /\ unfinished = Len(fifo) + Cardinality(in_flight)
    /\ Len(fifo) <= Capacity

\* Speech is never lost between the ledger and the queue: a chunk the ledger
\* calls queued is in the queue once or its producer is waiting to put it, and a
\* chunk it calls playing is in flight.
NoChunkLost ==
    \A g \in Generations : \A i \in DOMAIN chunks[g] :
        /\ chunks[g][i] = "QUEUED" =>
              \/ Cardinality({n \in DOMAIN fifo : fifo[n] = <<g, i>>}) = 1
              \/ producer[g] = "putting" /\ i = Len(chunks[g])
        /\ chunks[g][i] = "PLAYING" => <<g, i>> \in in_flight

\* The ledger, the queue's count and the tasks agree on every chunk: none is
\* counted twice, waited for after it is gone, or forgotten (enqueue, next_chunk,
\* mark_spoken and cancel_generation of the queue).
ChunksAddUp == QueueAccounting /\ NoChunkLost

\* Chunks of a generation are heard in the order they were written, also when
\* a late clean-up of another generation takes the queue apart.
SpokenInOrder ==
    \A g \in Generations : \A i, j \in DOMAIN chunks[g] :
        i < j /\ chunks[g][j] \in {"PLAYING", "SPOKEN"} => chunks[g][i] # "QUEUED"

\* What was heard of a generation is settled when it ends: late playback
\* reports, repeated cancellations and successors never revise it.
HeardIsSettled ==
    [][\A g \in Generations : fate[g] # "open" =>
          chunks'[g] = chunks[g] /\ fate'[g] = fate[g]]_deliveryVars

\* A producer that waits for room is released when its token is cancelled,
\* although nobody takes chunks any more.
BlockedProducerIsReleased ==
    \A g \in Generations : producer[g] = "putting" /\ token[g] ~> producer[g] # "putting"

-----------------------------------------------------------------------------
(* The inductive invariant of the ledger.                                   *)

LedgerTypes ==
    /\ opened \in 0 .. MaxGenerations
    /\ records \subseteq Opened
    /\ active \in records \cup {0}
    /\ chunks \in [Generations -> Seq(ChunkStates)]
    /\ fate \in [Generations -> {"open", "interrupted", "completed"}]

UnopenedIsOpen ==
    \A g \in Generations \ Opened : fate[g] = "open" /\ chunks[g] = <<>>

\* No chunk of a generation that is over can still be taken or played.
SettledChunks ==
    \A g \in Generations : fate[g] # "open" =>
        \A i \in DOMAIN chunks[g] : chunks[g][i] \in {"SPOKEN", "CANCELLED"}

LedgerInv == LedgerTypes /\ OneOpenRecord /\ UnopenedIsOpen /\ SettledChunks

-----------------------------------------------------------------------------
(* The inductive invariant of ledger, queue and tasks together.             *)

Queued(c) == \E n \in DOMAIN fifo : fifo[n] = c

\* What is queued was written, and is not in flight as well; the chunks of one
\* generation are queued in the order they were written.
QueueInOrder ==
    /\ \A n \in DOMAIN fifo :
          /\ fifo[n][2] \in DOMAIN chunks[fifo[n][1]]
          /\ fifo[n] \notin in_flight
    /\ \A m, n \in DOMAIN fifo :
          m < n /\ fifo[m][1] = fifo[n][1] => fifo[m][2] < fifo[n][2]

InFlightIsWritten == \A c \in in_flight : c[2] \in DOMAIN chunks[c[1]]

\* The chunk a producer waits with is its last, and nowhere else.
PendingIsLast ==
    \A g \in Generations : producer[g] = "putting" =>
        LET last == Len(chunks[g])
        IN  /\ last > 0
            /\ chunks[g][last] \in {"QUEUED", "CANCELLED"}
            /\ <<g, last>> \notin in_flight /\ ~Queued(<<g, last>>)

AllAccounted ==
    \A g \in Generations : \A i \in DOMAIN chunks[g] :
        /\ chunks[g][i] = "QUEUED" =>
              Queued(<<g, i>>) \/ (producer[g] = "putting" /\ i = Len(chunks[g]))
        /\ chunks[g][i] = "PLAYING" => <<g, i>> \in in_flight

DeliveryInv ==
    /\ LedgerInv /\ DeliveryTypeInv
    /\ QueueInOrder /\ InFlightIsWritten /\ PendingIsLast /\ AllAccounted
    /\ QueueAccounting /\ SpokenInOrder

=============================================================================
