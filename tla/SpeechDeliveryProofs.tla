------------------------ MODULE SpeechDeliveryProofs ------------------------
(***************************************************************************)
(* Speech, for any number of generations, records, chunks, places in the   *)
(* queue and frames.  Of the delivery: its ledger has one open record and  *)
(* settles what was heard of a generation when it ends, the queue's count  *)
(* of unfinished items adds up, no chunk is lost, and what is heard is     *)
(* heard in order (DeliveryInv).  Of the spoken response: it is silent     *)
(* once it was stopped, whatever its threads are at (StreamInv), and no    *)
(* process that makes its speech is lost, whenever its task is cancelled   *)
(* and its adapter closed (ProcessInv).                                    *)
(***************************************************************************)
EXTENDS SpeechDelivery, SpokenResponse, SelectionProofs

\* What maps 1 .. n into S is a sequence over S.
LEMMA SequenceOver ==
    ASSUME NEW S, NEW n \in Nat, NEW q \in [1 .. n -> S]
    PROVE  q \in Seq(S)
PROOF
  BY SeqDef

\* A generation that was opened is one.
LEMMA OpenedAreGenerations == LedgerTypes => Opened \subseteq Generations
PROOF
  BY DeliveryAssumption DEF LedgerTypes, Opened, Generations

\* cancel_unspoken keeps the ledger's invariant, whoever calls it and when.
LEMMA CancelUnspokenKeeps ==
    ASSUME LedgerInv, NEW g \in Opened, CancelUnspoken(g), UNCHANGED <<opened, records>>
    PROVE  LedgerInv'
PROOF
  <1> USE DeliveryAssumption DEF LedgerInv, CancelUnspoken, Opened, Generations
  <1>1. LedgerTypes'
    <2>1. g \in Generations /\ chunks[g] \in Seq(ChunkStates)
      BY DEF LedgerTypes
    <2> DEFINE settled == [i \in DOMAIN chunks[g] |->
                              IF chunks[g][i] = "SPOKEN" THEN "SPOKEN" ELSE "CANCELLED"]
    <2>2. Len(chunks[g]) \in Nat /\ DOMAIN chunks[g] = 1 .. Len(chunks[g])
      BY <2>1, LenProperties
    <2>3. settled \in [1 .. Len(chunks[g]) -> ChunkStates]
      BY <2>2 DEF ChunkStates
    <2>4. settled \in Seq(ChunkStates)
      BY <2>2, <2>3, SequenceOver
    <2> QED
      BY <2>1, <2>4 DEF LedgerTypes
  <1>2. OneOpenRecord'
    BY DEF LedgerTypes, OneOpenRecord
  <1>3. UnopenedIsOpen'
    BY DEF LedgerTypes, UnopenedIsOpen
  <1>4. SettledChunks'
    BY SMTT(60) DEF LedgerTypes, SettledChunks
  <1> QED
    BY <1>1, <1>2, <1>3, <1>4

\* A chunk of the active generation may change its state.
LEMMA ChunkMoves ==
    ASSUME LedgerInv, NEW g \in Generations, fate[g] = "open",
           NEW i, NEW s \in ChunkStates,
           chunks' = [chunks EXCEPT ![g][i] = s],
           UNCHANGED <<opened, records, active, fate>>
    PROVE  LedgerInv'
PROOF
  <1> USE DeliveryAssumption DEF LedgerInv, Opened, Generations
  <1>1. Len(chunks[g]) \in Nat /\ chunks[g] \in [1 .. Len(chunks[g]) -> ChunkStates]
    BY LenProperties DEF LedgerTypes
  <1>2. [chunks[g] EXCEPT ![i] = s] \in [1 .. Len(chunks[g]) -> ChunkStates]
    BY <1>1
  <1>3. [chunks[g] EXCEPT ![i] = s] \in Seq(ChunkStates)
    BY <1>1, <1>2, SequenceOver
  <1>4. LedgerTypes'
    BY <1>3 DEF LedgerTypes
  <1>5. SettledChunks'
    BY DEF LedgerTypes, SettledChunks
  <1> QED
    BY <1>4, <1>5 DEF OneOpenRecord, UnopenedIsOpen

\* A chunk that is taken to be played belongs to the active generation, or to
\* one that is over and has no such chunk, and then nothing changes.
LEMMA GetKeeps ==
    ASSUME LedgerInv, NEW g \in Opened, GetReturns(g)
    PROVE  /\ LedgerInv'
           /\ fate' = fate
           /\ \A h \in Generations : fate[h] # "open" => chunks'[h] = chunks[h]
PROOF
  <1> USE DEF LedgerInv, Generations, Opened
  <1> PICK n \in Live : chunks' = [chunks EXCEPT ![fifo[n][1]][fifo[n][2]] = "PLAYING"]
    BY DEF GetReturns
  <1> DEFINE c == fifo[n]
  <1>1. c[1] \in records /\ chunks[c[1]][c[2]] = "QUEUED"
    BY DEF Live, ChunkState
  <1>2. c[1] \in Generations /\ chunks[c[1]] \in Seq(ChunkStates)
    <2> HIDE DEF c
    <2>1. c[1] \in Generations
      BY <1>1, OpenedAreGenerations DEF LedgerTypes
    <2> QED
      BY <2>1 DEF LedgerTypes
  <1>3. UNCHANGED <<opened, records, active, fate>>
    BY DEF GetReturns
  <1>4. CASE fate[c[1]] = "open"
    BY <1>2, <1>3, <1>4, ChunkMoves DEF ChunkStates, LedgerTypes
  <1>5. CASE fate[c[1]] # "open"
    <2>1. c[2] \notin DOMAIN chunks[c[1]]
      BY <1>1, <1>2, <1>5 DEF SettledChunks
    <2>2. [chunks[c[1]] EXCEPT ![c[2]] = "PLAYING"] = chunks[c[1]]
      BY <2>1, <1>2, LenProperties
    <2>3. chunks' = chunks
      BY <2>2, <1>2, <1>3 DEF LedgerTypes
    <2> QED
      BY <2>3, <1>3 DEF LedgerTypes, OneOpenRecord, UnopenedIsOpen, SettledChunks
  <1> QED
    BY <1>4, <1>5

\* What was settled stays settled: at each step of the specification the ledger
\* keeps its invariant, and no generation that is over is revised.
LEMMA Step ==
    ASSUME LedgerInv, [DeliveryNext]_deliveryVars
    PROVE  /\ LedgerInv'
           /\ \A h \in Generations : fate[h] # "open" =>
                 chunks'[h] = chunks[h] /\ fate'[h] = fate[h]
PROOF
  <1> USE DEF LedgerInv
  <1> DEFINE StaysHeard == \A h \in Generations : fate[h] # "open" =>
                            chunks'[h] = chunks[h] /\ fate'[h] = fate[h]
  <1>1. CASE UNCHANGED ledger
    BY <1>1 DEF ledger, LedgerTypes, OneOpenRecord, UnopenedIsOpen, SettledChunks, Opened
  <1>2. CASE StartGeneration
    <2> USE <1>2, DeliveryAssumption DEF StartGeneration, Opened, Generations
    <2>1. LedgerTypes'
      <3>1. records' \subseteq records \cup {opened'} /\ opened' \in records'
        OBVIOUS
      <3>2. /\ opened \in Nat /\ MaxGenerations \in Nat
            /\ opened' = opened + 1 /\ opened < MaxGenerations
        BY DEF LedgerTypes
      <3>3. opened' \in 0 .. MaxGenerations
        BY <3>2
      <3>4. Opened \cup {opened'} \subseteq Opened'
        BY <3>2
      <3>5. records' \subseteq Opened'
        BY <3>1, <3>4 DEF LedgerTypes
      <3> QED
        BY <3>1, <3>3, <3>5 DEF LedgerTypes
    <2>2. OneOpenRecord'
      BY DEF LedgerTypes, OneOpenRecord, UnopenedIsOpen
    <2>3. UnopenedIsOpen' /\ SettledChunks'
      BY DEF LedgerTypes, UnopenedIsOpen, SettledChunks
    <2> QED
      BY <2>1, <2>2, <2>3
  <1>3. CASE FinishGeneration
    <2> USE <1>3, OpenedAreGenerations DEF FinishGeneration
    <2>1. active \in Opened /\ active \in Generations /\ active # 0
      BY DEF LedgerTypes
    <2>2. LedgerTypes'
      BY <2>1 DEF LedgerTypes, Opened
    <2>3. OneOpenRecord' /\ UnopenedIsOpen'
      BY <2>1 DEF LedgerTypes, OneOpenRecord, UnopenedIsOpen, Opened
    <2>4. SettledChunks'
      BY <2>1 DEF LedgerTypes, SettledChunks
    <2>5. StaysHeard
      BY <2>1 DEF LedgerTypes, OneOpenRecord
    <2> QED
      BY <2>2, <2>3, <2>4, <2>5
  <1>4. ASSUME NEW g \in Opened, CancelUnspoken(g), UNCHANGED <<opened, records>>
        PROVE  LedgerInv' /\ StaysHeard
    <2>1. LedgerInv'
      BY <1>4, CancelUnspokenKeeps
    <2>2. StaysHeard
      BY <1>4, OpenedAreGenerations DEF CancelUnspoken, LedgerTypes
    <2> QED
      BY <2>1, <2>2
  <1>5. ASSUME NEW g \in Opened, Enqueue(g)
        PROVE  LedgerInv' /\ StaysHeard
    <2> USE <1>5, OpenedAreGenerations DEF Enqueue
    <2>1. g \in Generations /\ fate[g] = "open" /\ chunks[g] \in Seq(ChunkStates)
      BY DEF LedgerTypes, OneOpenRecord
    <2>2. Append(chunks[g], "QUEUED") \in Seq(ChunkStates)
      BY <2>1, AppendProperties DEF ChunkStates
    <2>3. LedgerTypes'
      BY <2>1, <2>2 DEF LedgerTypes, Opened
    <2>4. SettledChunks' /\ StaysHeard
      BY <2>1 DEF LedgerTypes, SettledChunks
    <2> QED
      BY <2>3, <2>4 DEF OneOpenRecord, UnopenedIsOpen, Opened
  <1>6. ASSUME NEW g \in Opened, PutCancelled(g)
        PROVE  LedgerInv' /\ StaysHeard
    BY <1>1, <1>4, <1>6 DEF PutCancelled
  <1>7. ASSUME NEW g \in Opened, GetReturns(g)
        PROVE  LedgerInv' /\ StaysHeard
    BY <1>7, GetKeeps
  <1>8. ASSUME NEW g \in Opened, PlaybackEnds(g)
        PROVE  LedgerInv' /\ StaysHeard
    <2> DEFINE c == playing[g]
    <2>1. CASE active = c[1] /\ ChunkState(c) = "PLAYING"
      <3>1. c[1] \in Generations /\ fate[c[1]] = "open"
        <4> HIDE DEF c
        <4> QED
          BY <2>1, OpenedAreGenerations DEF ChunkState, LedgerTypes, OneOpenRecord
      <3>2. /\ chunks' = [chunks EXCEPT ![c[1]][c[2]] = "SPOKEN"]
            /\ UNCHANGED <<opened, records, active, fate>>
        BY <1>8, <2>1 DEF PlaybackEnds, MarkSpoken
      <3>3. LedgerInv'
        BY <3>1, <3>2, ChunkMoves DEF ChunkStates
      <3> QED
        BY <3>1, <3>2, <3>3 DEF LedgerTypes
    <2>2. CASE ~(active = c[1] /\ ChunkState(c) = "PLAYING")
      BY <1>1, <1>8, <2>2 DEF PlaybackEnds, MarkSpoken, ledger
    <2> QED
      BY <2>1, <2>2
  <1>9. ASSUME NEW g \in Opened, CleanUp(g) \/ ApplyInterruption(g)
        PROVE  LedgerInv' /\ StaysHeard
    BY <1>4, <1>9 DEF CleanUp, ApplyInterruption, CancelGeneration
  <1>10. ASSUME NEW g \in Opened,
                \/ PutReturns(g) \/ NextChunk(g) \/ GetPassesOver(g) \/ GetCancelled(g)
                \/ PlaybackStops(g) \/ StopGeneration(g)
         PROVE  UNCHANGED ledger
    BY <1>10 DEF PutReturns, NextChunk, GetPassesOver, GetCancelled, PlaybackStops,
                 StopGeneration
  <1> QED
    BY <1>1, <1>2, <1>3, <1>5, <1>6, <1>7, <1>8, <1>9, <1>10 DEF DeliveryNext, deliveryVars

LEMMA Starts == DeliveryInit => LedgerInv
PROOF
  BY DeliveryAssumption
     DEF DeliveryInit, LedgerInv, LedgerTypes, OneOpenRecord, UnopenedIsOpen, SettledChunks, Opened,
         Generations, ChunkStates

\* The delivery ledger has at most one open record, that of the active generation.
THEOREM OneRecordIsOpen == DeliverySpec => []OneOpenRecord
PROOF
  <1>1. LedgerInv /\ [DeliveryNext]_deliveryVars => LedgerInv'
    BY Step
  <1>2. LedgerInv => OneOpenRecord
    BY DEF LedgerInv
  <1> QED
    BY Starts, <1>1, <1>2, PTL DEF DeliverySpec

\* What was heard of a generation that is over is never revised.
THEOREM HeardStaysSettled == DeliverySpec => HeardIsSettled
PROOF
  <1>1. LedgerInv /\ [DeliveryNext]_deliveryVars => LedgerInv'
    BY Step
  <1>2. LedgerInv /\ [DeliveryNext]_deliveryVars =>
            [\A g \in Generations : fate[g] # "open" =>
                chunks'[g] = chunks[g] /\ fate'[g] = fate[g]]_deliveryVars
    BY Step
  <1> QED
    BY Starts, <1>1, <1>2, PTL DEF DeliverySpec, HeardIsSettled

-----------------------------------------------------------------------------
(* The queue and the tasks.                                                 *)

\* The shape of the sequences, where it is all a proof needs.
LEMMA Shapes ==
    ASSUME DeliveryTypeInv
    PROVE  /\ \A g \in Generations : /\ Len(chunks[g]) \in Nat
                                     /\ DOMAIN chunks[g] = 1 .. Len(chunks[g])
           /\ Len(fifo) \in Nat /\ DOMAIN fifo = 1 .. Len(fifo)
           /\ \A n \in DOMAIN fifo : fifo[n] \in Chunk /\ fifo[n][1] \in Generations
           /\ IsFiniteSet(in_flight) /\ Cardinality(in_flight) \in Nat
PROOF
  <1>1. \A g \in Generations : Len(chunks[g]) \in Nat /\ DOMAIN chunks[g] = 1 .. Len(chunks[g])
    BY LenProperties DEF DeliveryTypeInv
  <1>2. Len(fifo) \in Nat /\ DOMAIN fifo = 1 .. Len(fifo)
    BY LenProperties DEF DeliveryTypeInv
  <1>3. \A n \in DOMAIN fifo : fifo[n] \in Chunk
    BY <1>2, ElementOfSeq DEF DeliveryTypeInv
  <1>4. \A c \in Chunk : c[1] \in Generations
    BY DEF Chunk
  <1>5. IsFiniteSet(Generations) /\ IsFiniteSet(1 .. MaxChunks)
    BY DeliveryAssumption, FS_Interval DEF Generations
  <1>6. IsFiniteSet(in_flight) /\ Cardinality(in_flight) \in Nat
    BY <1>5, FS_Product, FS_Subset, FS_CardinalityType DEF DeliveryTypeInv, Chunk
  <1> QED
    BY <1>1, <1>2, <1>3, <1>4, <1>6

\* What a generation has queued is queued once.
LEMMA QueuedOnce ==
    ASSUME DeliveryTypeInv, QueueInOrder, NEW m \in DOMAIN fifo, NEW n \in DOMAIN fifo,
           fifo[m] = fifo[n]
    PROVE  m = n
PROOF
  <1>1. m \in Nat /\ n \in Nat
    BY Shapes
  <1>2. ~(fifo[m][2] < fifo[n][2]) /\ ~(fifo[n][2] < fifo[m][2])
    BY Shapes DEF Chunk
  <1> QED
    BY <1>1, <1>2 DEF QueueInOrder

\* Chunks that can still be taken or played are the active generation's.
LEMMA LiveIsActive ==
    ASSUME LedgerInv, DeliveryTypeInv, NEW g \in Generations, NEW i \in DOMAIN chunks[g],
           chunks[g][i] \in {"QUEUED", "PLAYING"}
    PROVE  /\ fate[g] = "open" /\ g = active /\ g \in records /\ g \in Opened
           /\ ChunkState(<<g, i>>) = chunks[g][i]
PROOF
  <1>1. fate[g] = "open"
    BY DEF LedgerInv, SettledChunks
  <1>2. g \in Opened
    BY DEF LedgerInv, UnopenedIsOpen
  <1>3. g = active /\ g # 0
    BY <1>1, <1>2, DeliveryAssumption DEF LedgerInv, OneOpenRecord, Generations
  <1>4. g \in records
    BY <1>3 DEF DeliveryTypeInv
  <1> QED
    BY <1>1, <1>2, <1>3, <1>4 DEF ChunkState

\* A step that leaves chunks, queue and producers alone.
LEMMA SpeechUnmoved ==
    ASSUME DeliveryInv, UNCHANGED <<chunks, speech, producer>>
    PROVE  /\ QueueInOrder' /\ InFlightIsWritten' /\ PendingIsLast' /\ AllAccounted'
           /\ QueueAccounting' /\ SpokenInOrder'
PROOF
  BY DEF DeliveryInv, speech, QueueInOrder, InFlightIsWritten, PendingIsLast, AllAccounted,
         QueueAccounting, SpokenInOrder, Queued

\* What cancel_unspoken does to the chunks: nothing, or those of g that were not
\* spoken are cancelled.  None of g can be taken or played after it.
LEMMA Withdrawn ==
    ASSUME LedgerInv, DeliveryTypeInv, NEW g \in Opened, CancelUnspoken(g)
    PROVE  /\ \A h \in Generations : DOMAIN chunks'[h] = DOMAIN chunks[h]
           /\ \A h \in Generations \ {g} : chunks'[h] = chunks[h]
           /\ \A i \in DOMAIN chunks[g] :
                 /\ chunks'[g][i] \in {"SPOKEN", "CANCELLED"}
                 /\ chunks[g][i] # "SPOKEN" => chunks'[g][i] = "CANCELLED"
PROOF
  <1>1. g \in Generations /\ chunks \in [Generations -> Seq(ChunkStates)]
    BY OpenedAreGenerations DEF LedgerInv, DeliveryTypeInv
  <1>2. CASE g \in records /\ fate[g] = "open"
    <2> DEFINE settled == [i \in DOMAIN chunks[g] |->
                              IF chunks[g][i] = "SPOKEN" THEN "SPOKEN" ELSE "CANCELLED"]
    <2>1. chunks' = [chunks EXCEPT ![g] = settled]
      BY <1>2 DEF CancelUnspoken
    <2> QED
      BY <1>1, <2>1
  <1>3. CASE ~(g \in records /\ fate[g] = "open")
    <2>1. fate[g] # "open"
      BY <1>3, DeliveryAssumption
         DEF LedgerInv, LedgerTypes, OneOpenRecord, Opened
    <2>2. chunks' = chunks
      BY <1>3 DEF CancelUnspoken
    <2> QED
      BY <1>1, <2>1, <2>2 DEF LedgerInv, SettledChunks
  <1> QED
    BY <1>2, <1>3

\* Of a queue of which some are left, in their order, what held of all still holds.
LEMMA ThinnedQueue ==
    ASSUME DeliveryTypeInv, QueueInOrder, NEW f \in [DOMAIN fifo' -> DOMAIN fifo],
           DOMAIN fifo' \subseteq Nat,
           \A k, m \in DOMAIN fifo' : k < m => f[k] < f[m],
           \A k \in DOMAIN fifo' : fifo'[k] = fifo[f[k]],
           \A g \in Generations : DOMAIN chunks'[g] = DOMAIN chunks[g],
           \A k \in DOMAIN fifo' : fifo'[k] \notin in_flight'
    PROVE  QueueInOrder'
PROOF
  <1>1. ASSUME NEW n \in DOMAIN fifo'
        PROVE  fifo'[n][2] \in DOMAIN chunks'[fifo'[n][1]]
    BY Shapes DEF QueueInOrder
  <1>2. ASSUME NEW m \in DOMAIN fifo', NEW n \in DOMAIN fifo',
               m < n, fifo'[m][1] = fifo'[n][1]
        PROVE  fifo'[m][2] < fifo'[n][2]
    BY <1>2 DEF QueueInOrder
  <1> QED
    BY <1>1, <1>2 DEF QueueInOrder

\* A finite set without a part of it.
LEMMA WithoutPart ==
    ASSUME NEW S, IsFiniteSet(S), NEW T \in SUBSET S
    PROVE  /\ IsFiniteSet(T) /\ IsFiniteSet(S \ T)
           /\ Cardinality(T) \in Nat /\ Cardinality(S \ T) \in Nat
           /\ Cardinality(S \ T) = Cardinality(S) - Cardinality(T)
PROOF
  <1>1. S \cap T = T
    OBVIOUS
  <1>2. IsFiniteSet(T)
    BY FS_Subset
  <1>3. IsFiniteSet(S \ T) /\ Cardinality(S \ T) = Cardinality(S) - Cardinality(S \cap T)
    BY FS_Difference
  <1>4. Cardinality(T) \in Nat /\ Cardinality(S \ T) \in Nat
    BY <1>2, <1>3, FS_CardinalityType
  <1> QED
    BY <1>1, <1>2, <1>3, <1>4

\* cancel_generation: whatever is left belongs to others.
LEMMA CancelGenerationKeeps ==
    ASSUME DeliveryInv, NEW g \in Opened, CancelGeneration(g), UNCHANGED producer, LedgerInv'
    PROVE  /\ fifo' \in Seq(Chunk) /\ in_flight' \subseteq Chunk /\ unfinished' \in Nat
           /\ QueueInOrder' /\ InFlightIsWritten' /\ PendingIsLast' /\ AllAccounted'
           /\ QueueAccounting' /\ SpokenInOrder'
PROOF
  <1> DEFINE dropped == {c \in in_flight : c[1] = g}
             f == [k \in DOMAIN fifo' |-> Place(Others(g), k)]
  <1>1. LedgerInv /\ DeliveryTypeInv
    BY DEF DeliveryInv
  <1>2. g \in Generations
    BY <1>1, OpenedAreGenerations DEF LedgerInv
  <1>3. CancelUnspoken(g) /\ in_flight' = in_flight \ dropped /\ fifo' = Kept(fifo, Others(g))
    BY DEF CancelGeneration, Retained
  <1>4. /\ fifo \in Seq(Chunk) /\ Len(fifo) \in Nat /\ DOMAIN fifo = 1 .. Len(fifo)
        /\ Others(g) \subseteq DOMAIN fifo
    BY <1>1, Shapes DEF DeliveryTypeInv, Others
  <1>5. /\ fifo' \in Seq(Chunk) /\ Len(fifo') = Cardinality(Others(g))
        /\ Len(fifo') \in Nat /\ Len(fifo') <= Len(fifo)
    BY <1>3, <1>4, KeptIsSequence
  <1>6. DOMAIN fifo' = 1 .. Len(fifo') /\ \A k \in DOMAIN fifo' : fifo'[k] = fifo[f[k]]
    BY <1>3, <1>5, LenProperties DEF Kept
  <1>7. /\ f \in [DOMAIN fifo' -> Others(g)]
        /\ \A k, m \in DOMAIN fifo' : k < m => f[k] < f[m]
        /\ \A i \in Others(g) : \E k \in DOMAIN fifo' : f[k] = i
    BY <1>4, <1>5, <1>6, PlacesAreNumbered, ZenonT(60)
  <1> HIDE DEF f
  <1>8. /\ \A h \in Generations : DOMAIN chunks'[h] = DOMAIN chunks[h]
        /\ \A h \in Generations \ {g} : chunks'[h] = chunks[h]
        /\ \A i \in DOMAIN chunks[g] :
              /\ chunks'[g][i] \in {"SPOKEN", "CANCELLED"}
              /\ chunks[g][i] # "SPOKEN" => chunks'[g][i] = "CANCELLED"
    BY <1>1, <1>3, Withdrawn
  <1>9. in_flight' \subseteq in_flight /\ \A c \in in_flight : c[1] # g => c \in in_flight'
    BY <1>3
  <1>10. QueueInOrder'
    <2>1. \A k \in DOMAIN fifo' : fifo'[k] \notin in_flight'
      BY <1>6, <1>7, <1>9, <1>4 DEF DeliveryInv, QueueInOrder
    <2>2. f \in [DOMAIN fifo' -> DOMAIN fifo] /\ DOMAIN fifo' \subseteq Nat
      BY <1>4, <1>6, <1>7
    <2> QED
      BY <1>1, <1>6, <1>7, <1>8, <2>1, <2>2, ThinnedQueue DEF DeliveryInv
  <1>11. InFlightIsWritten'
    <2>1. \A c \in in_flight : c[1] \in Generations
      BY <1>1 DEF DeliveryTypeInv, Chunk
    <2> QED
      BY <1>8, <1>9, <2>1 DEF DeliveryInv, InFlightIsWritten
  <1>12. \A c : Queued(c)' => Queued(c)
    BY <1>4, <1>6, <1>7 DEF Queued
  <1>13. \A c : Queued(c) /\ c[1] # g => Queued(c)'
    BY <1>6, <1>7 DEF Queued, Others
  <1>14. \A h \in Generations : Len(chunks'[h]) = Len(chunks[h]) /\ Len(chunks[h]) \in Nat
    BY <1>1, <1>2, <1>8, LenProperties DEF LedgerInv, LedgerTypes, DeliveryTypeInv
  <1>15. PendingIsLast'
    BY <1>1, <1>8, <1>9, <1>12, <1>14, Shapes DEF DeliveryInv, PendingIsLast
  <1>16. AllAccounted'
    BY <1>2, <1>8, <1>9, <1>13, <1>14 DEF DeliveryInv, AllAccounted
  <1>17. SpokenInOrder'
    BY <1>2, <1>8 DEF DeliveryInv, SpokenInOrder
  <1>18. QueueAccounting' /\ unfinished' \in Nat
    <2>1. IsFiniteSet(in_flight) /\ Cardinality(in_flight) \in Nat
      BY <1>1, Shapes
    <2>2. /\ IsFiniteSet(dropped) /\ IsFiniteSet(in_flight')
          /\ Cardinality(dropped) \in Nat /\ Cardinality(in_flight') \in Nat
          /\ Cardinality(in_flight') = Cardinality(in_flight) - Cardinality(dropped)
      BY <1>3, <2>1, WithoutPart
    <2>3. unfinished' = unfinished - Cardinality(dropped) - (Len(fifo) - Len(fifo'))
      BY <1>3 DEF CancelGeneration, Retained
    <2>4. /\ unfinished = Len(fifo) + Cardinality(in_flight) /\ Len(fifo) <= Capacity
          /\ unfinished \in Nat /\ Capacity \in Nat
      BY <1>1, DeliveryAssumption DEF DeliveryInv, QueueAccounting, DeliveryTypeInv
    <2> HIDE DEF dropped
    <2>5. unfinished' = Len(fifo') + Cardinality(in_flight') /\ Len(fifo') <= Capacity
      BY <1>4, <1>5, <2>1, <2>2, <2>3, <2>4, SMTT(60)
    <2> QED
      BY <1>5, <2>2, <2>5 DEF QueueAccounting
  <1> QED
    BY <1>1, <1>5, <1>9, <1>10, <1>11, <1>15, <1>16, <1>17, <1>18 DEF DeliveryTypeInv

\* task.cancel that reaches a producer.
LEMMA PutCancelledKeeps ==
    ASSUME DeliveryInv, NEW g \in Opened, PutCancelled(g)
    PROVE  /\ QueueInOrder' /\ InFlightIsWritten' /\ PendingIsLast' /\ AllAccounted'
           /\ QueueAccounting' /\ SpokenInOrder'
PROOF
  <1>1. LedgerInv /\ DeliveryTypeInv
    BY DEF DeliveryInv
  <1>2. g \in Generations
    BY <1>1, OpenedAreGenerations DEF LedgerInv
  <1>3. /\ UNCHANGED <<fifo, in_flight, unfinished>>
        /\ producer' = [producer EXCEPT ![g] = "stopped"]
    BY DEF PutCancelled, speech
  <1>4. /\ producer'[g] = "stopped" /\ \A h \in Generations \ {g} : producer'[h] = producer[h]
    BY <1>1, <1>2, <1>3 DEF DeliveryTypeInv
  <1>5. CASE producer[g] = "putting"
    <2>1. /\ \A h \in Generations : DOMAIN chunks'[h] = DOMAIN chunks[h]
          /\ \A h \in Generations \ {g} : chunks'[h] = chunks[h]
          /\ \A i \in DOMAIN chunks[g] :
                /\ chunks'[g][i] \in {"SPOKEN", "CANCELLED"}
                /\ chunks[g][i] # "SPOKEN" => chunks'[g][i] = "CANCELLED"
      BY <1>1, <1>5, Withdrawn DEF PutCancelled
    <2>2. QueueInOrder' /\ InFlightIsWritten' /\ QueueAccounting'
      <3>1. \A c \in in_flight : c[1] \in Generations
        BY <1>1 DEF DeliveryTypeInv, Chunk
      <3> QED
        BY <1>1, <1>3, <2>1, <3>1, Shapes
           DEF DeliveryInv, QueueInOrder, InFlightIsWritten, QueueAccounting
    <2>3. PendingIsLast'
      BY <1>3, <1>4, <2>1 DEF DeliveryInv, PendingIsLast, Queued
    <2>4. AllAccounted'
      <3> SUFFICES ASSUME NEW h \in Generations, NEW i \in DOMAIN chunks'[h]
                   PROVE  /\ chunks'[h][i] = "QUEUED" =>
                                \/ Queued(<<h, i>>)'
                                \/ producer'[h] = "putting" /\ i = Len(chunks'[h])
                          /\ chunks'[h][i] = "PLAYING" => <<h, i>> \in in_flight'
        BY DEF AllAccounted
      <3>1. Queued(<<h, i>>)' <=> Queued(<<h, i>>)
        BY <1>3 DEF Queued
      <3>2. CASE h = g
        BY <2>1, <3>2
      <3>3. CASE h # g
        BY <1>3, <1>4, <2>1, <3>1, <3>3 DEF DeliveryInv, AllAccounted
      <3> QED
        BY <3>2, <3>3
    <2>5. SpokenInOrder'
      BY <1>2, <2>1 DEF DeliveryInv, SpokenInOrder
    <2> QED
      BY <2>2, <2>3, <2>4, <2>5
  <1>6. CASE producer[g] # "putting"
    <2>1. UNCHANGED chunks
      BY <1>6 DEF PutCancelled, ledger
    <2>2. QueueInOrder' /\ InFlightIsWritten' /\ QueueAccounting' /\ SpokenInOrder'
      BY <1>3, <2>1
         DEF DeliveryInv, QueueInOrder, InFlightIsWritten, QueueAccounting, SpokenInOrder
    <2>3. PendingIsLast'
      BY <1>3, <1>4, <2>1 DEF DeliveryInv, PendingIsLast, Queued
    <2>4. AllAccounted'
      BY <1>3, <1>4, <1>6, <2>1 DEF DeliveryInv, AllAccounted, Queued
    <2> QED
      BY <2>2, <2>3, <2>4
  <1> QED
    BY <1>5, <1>6

\* A chunk that is written last is put behind all others of its generation.
LEMMA QueueGrows ==
    ASSUME DeliveryTypeInv, QueueInOrder, QueueAccounting, ~QueueIsFull,
           NEW g \in Generations, NEW last \in 1 .. MaxChunks,
           fifo' = Append(fifo, <<g, last>>), in_flight' = in_flight,
           unfinished' = unfinished + 1,
           \A h \in Generations : DOMAIN chunks[h] \subseteq DOMAIN chunks'[h],
           last \in DOMAIN chunks'[g], <<g, last>> \notin in_flight,
           \A n \in DOMAIN fifo : fifo[n][1] = g => fifo[n][2] < last
    PROVE  /\ fifo' \in Seq(Chunk) /\ unfinished' \in Nat
           /\ QueueInOrder' /\ QueueAccounting'
           /\ \A c : Queued(c)' <=> Queued(c) \/ c = <<g, last>>
PROOF
  <1>1. <<g, last>> \in Chunk /\ fifo \in Seq(Chunk)
    BY DEF Chunk, DeliveryTypeInv
  <1>2. Len(fifo) \in Nat /\ DOMAIN fifo = 1 .. Len(fifo)
    BY Shapes
  <1>3. /\ fifo' \in Seq(Chunk) /\ Len(fifo') = Len(fifo) + 1
        /\ \A n \in DOMAIN fifo : fifo'[n] = fifo[n]
        /\ fifo'[Len(fifo) + 1] = <<g, last>>
    BY <1>1, <1>2, AppendProperties
  <1>4. DOMAIN fifo' = DOMAIN fifo \cup {Len(fifo) + 1}
    BY <1>2, <1>3, LenProperties
  <1>5. QueueInOrder'
    <2>1. ASSUME NEW n \in DOMAIN fifo'
          PROVE  fifo'[n][2] \in DOMAIN chunks'[fifo'[n][1]] /\ fifo'[n] \notin in_flight'
      BY <1>3, <1>4, Shapes, SMTT(60) DEF QueueInOrder
    <2>2. ASSUME NEW m \in DOMAIN fifo', NEW n \in DOMAIN fifo',
                 m < n, fifo'[m][1] = fifo'[n][1]
          PROVE  fifo'[m][2] < fifo'[n][2]
      <3>1. m \in DOMAIN fifo
        BY <1>2, <1>4, <2>2
      <3>2. CASE n \in DOMAIN fifo
        BY <1>3, <2>2, <3>1, <3>2 DEF QueueInOrder
      <3>3. CASE n = Len(fifo) + 1
        BY <1>3, <2>2, <3>1, <3>3
      <3> QED
        BY <1>4, <3>2, <3>3
    <2> QED
      BY <2>1, <2>2 DEF QueueInOrder
  <1>6. QueueAccounting' /\ unfinished' \in Nat
    <2>1. Cardinality(in_flight) \in Nat /\ Capacity \in Nat /\ unfinished \in Nat
      BY Shapes, DeliveryAssumption DEF DeliveryTypeInv
    <2> QED
      BY <1>2, <1>3, <2>1 DEF QueueAccounting, QueueIsFull
  <1>7. \A c : Queued(c)' <=> Queued(c) \/ c = <<g, last>>
    BY <1>3, <1>4 DEF Queued
  <1> QED
    BY <1>3, <1>5, <1>6, <1>7

\* A chunk that is written waits with its producer or is queued at once.
LEMMA EnqueueKeeps ==
    ASSUME DeliveryInv, NEW g \in Opened, Enqueue(g)
    PROVE  /\ fifo' \in Seq(Chunk) /\ unfinished' \in Nat
           /\ \A h \in Generations : Len(chunks'[h]) <= MaxChunks
           /\ QueueInOrder' /\ InFlightIsWritten' /\ PendingIsLast' /\ AllAccounted'
           /\ QueueAccounting' /\ SpokenInOrder'
PROOF
  <1> DEFINE new == Len(chunks[g]) + 1
  <1>1. LedgerInv /\ DeliveryTypeInv
    BY DEF DeliveryInv
  <1>2. g \in Generations /\ chunks[g] \in Seq(ChunkStates) /\ Len(chunks[g]) \in Nat
    BY <1>1, OpenedAreGenerations, Shapes DEF LedgerInv, DeliveryTypeInv
  <1>3. /\ producer[g] = "ready" /\ Len(chunks[g]) < MaxChunks
        /\ chunks' = [chunks EXCEPT ![g] = Append(@, "QUEUED")] /\ in_flight' = in_flight
    BY DEF Enqueue, Put, speech
  <1>4. /\ Len(chunks'[g]) = new /\ DOMAIN chunks[g] = 1 .. Len(chunks[g])
        /\ DOMAIN chunks'[g] = DOMAIN chunks[g] \cup {new}
        /\ \A i \in DOMAIN chunks[g] : chunks'[g][i] = chunks[g][i]
        /\ chunks'[g][new] = "QUEUED"
    <2>1. chunks'[g] = Append(chunks[g], "QUEUED")
      BY <1>1, <1>2, <1>3 DEF DeliveryTypeInv
    <2>2. /\ chunks'[g] \in Seq(ChunkStates) /\ Len(chunks'[g]) = new
          /\ \A i \in 1 .. Len(chunks[g]) : chunks'[g][i] = chunks[g][i]
          /\ chunks'[g][new] = "QUEUED"
      BY <1>2, <2>1, AppendProperties DEF ChunkStates
    <2> QED
      BY <1>2, <2>2, LenProperties
  <1>5. \A h \in Generations \ {g} : chunks'[h] = chunks[h]
    BY <1>1, <1>3 DEF DeliveryTypeInv
  <1>6. new \in 1 .. MaxChunks /\ new \notin DOMAIN chunks[g] /\ MaxChunks \in Nat
    <2>1. MaxChunks \in Nat
      BY DeliveryAssumption
    <2> QED
      BY <1>2, <1>3, <1>4, <2>1
  <1>7. \A h \in Generations : Len(chunks'[h]) <= MaxChunks
    <2>1. Len(chunks'[g]) <= MaxChunks
      BY <1>4, <1>6
    <2>2. \A h \in Generations \ {g} : Len(chunks'[h]) <= MaxChunks
      BY <1>1, <1>5 DEF DeliveryTypeInv
    <2> QED
      BY <2>1, <2>2
  <1>8. <<g, new>> \notin in_flight /\ ~Queued(<<g, new>>)
    BY <1>6 DEF DeliveryInv, InFlightIsWritten, QueueInOrder, Queued
  <1>9. InFlightIsWritten'
    <2>1. \A c \in in_flight : c[1] \in Generations
      BY <1>1 DEF DeliveryTypeInv, Chunk
    <2> QED
      BY <1>3, <1>4, <1>5, <2>1 DEF DeliveryInv, InFlightIsWritten
  <1>10. SpokenInOrder'
    <2> SUFFICES ASSUME NEW h \in Generations, NEW i \in DOMAIN chunks'[h],
                        NEW j \in DOMAIN chunks'[h],
                        i < j, chunks'[h][j] \in {"PLAYING", "SPOKEN"}
                 PROVE  chunks'[h][i] # "QUEUED"
      BY DEF SpokenInOrder
    <2>1. CASE h # g
      BY <1>5, <2>1 DEF DeliveryInv, SpokenInOrder
    <2>2. CASE h = g
      <3>1. j \in DOMAIN chunks[g]
        BY <1>4, <2>2
      <3>2. i \in DOMAIN chunks[g]
        BY <1>2, <1>4, <2>2, <3>1
      <3> QED
        BY <1>4, <2>2, <3>1, <3>2 DEF DeliveryInv, SpokenInOrder
    <2> QED
      BY <2>1, <2>2
  <1>11. CASE QueueIsFull
    <2>1. UNCHANGED speech /\ producer' = [producer EXCEPT ![g] = "putting"]
      BY <1>11 DEF Enqueue
    <2>2. producer'[g] = "putting" /\ \A h \in Generations \ {g} : producer'[h] = producer[h]
      BY <1>1, <1>2, <2>1 DEF DeliveryTypeInv
    <2>3. QueueInOrder' /\ QueueAccounting'
      BY <1>1, <1>4, <1>5, <2>1, Shapes DEF DeliveryInv, QueueInOrder, QueueAccounting, speech
    <2>4. PendingIsLast'
      BY <1>2, <1>4, <1>5, <1>8, <2>1, <2>2 DEF DeliveryInv, PendingIsLast, Queued, speech
    <2>5. AllAccounted'
      <3> SUFFICES ASSUME NEW h \in Generations, NEW i \in DOMAIN chunks'[h]
                   PROVE  /\ chunks'[h][i] = "QUEUED" =>
                                \/ Queued(<<h, i>>)'
                                \/ producer'[h] = "putting" /\ i = Len(chunks'[h])
                          /\ chunks'[h][i] = "PLAYING" => <<h, i>> \in in_flight'
        BY DEF AllAccounted
      <3>1. Queued(<<h, i>>)' <=> Queued(<<h, i>>)
        BY <2>1 DEF Queued, speech
      <3>2. CASE h = g /\ i = new
        BY <1>4, <2>2, <3>2
      <3>3. CASE h = g /\ i # new
        BY <1>2, <1>3, <1>4, <3>1, <3>3 DEF DeliveryInv, AllAccounted
      <3>4. CASE h # g
        BY <1>3, <1>5, <2>2, <3>1, <3>4 DEF DeliveryInv, AllAccounted
      <3> QED
        BY <3>2, <3>3, <3>4
    <2> QED
      BY <1>1, <1>7, <1>9, <1>10, <2>1, <2>3, <2>4, <2>5 DEF DeliveryTypeInv, speech
  <1>12. CASE ~QueueIsFull
    <2>1. /\ fifo' = Append(fifo, <<g, new>>) /\ unfinished' = unfinished + 1
          /\ producer' = producer
      BY <1>12 DEF Enqueue, Put
    <2>2. \A n \in DOMAIN fifo : fifo[n][1] = g => fifo[n][2] < new
      BY <1>2, <1>4 DEF DeliveryInv, QueueInOrder
    <2>3. /\ fifo' \in Seq(Chunk) /\ unfinished' \in Nat /\ QueueInOrder' /\ QueueAccounting'
          /\ \A c : Queued(c)' <=> Queued(c) \/ c = <<g, new>>
      <3>1. /\ \A h \in Generations : DOMAIN chunks[h] \subseteq DOMAIN chunks'[h]
            /\ new \in DOMAIN chunks'[g]
        BY <1>4, <1>5
      <3> HIDE DEF new
      <3> QED
        BY <1>1, <1>2, <1>3, <1>6, <1>8, <1>12, <2>1, <2>2, <3>1, QueueGrows DEF DeliveryInv
    <2>4. PendingIsLast'
      BY <1>3, <1>5, <2>1, <2>3 DEF DeliveryInv, PendingIsLast
    <2>5. AllAccounted'
      <3> SUFFICES ASSUME NEW h \in Generations, NEW i \in DOMAIN chunks'[h]
                   PROVE  /\ chunks'[h][i] = "QUEUED" =>
                                \/ Queued(<<h, i>>)'
                                \/ producer'[h] = "putting" /\ i = Len(chunks'[h])
                          /\ chunks'[h][i] = "PLAYING" => <<h, i>> \in in_flight'
        BY DEF AllAccounted
      <3>1. Queued(<<h, i>>) \/ <<h, i>> = <<g, new>> => Queued(<<h, i>>)'
        BY <2>3
      <3>2. CASE h = g /\ i = new
        BY <1>4, <3>1, <3>2
      <3>3. CASE h = g /\ i # new
        BY <1>2, <1>3, <1>4, <3>1, <3>3 DEF DeliveryInv, AllAccounted
      <3>4. CASE h # g
        BY <1>3, <1>5, <2>1, <3>1, <3>4 DEF DeliveryInv, AllAccounted
      <3> QED
        BY <3>2, <3>3, <3>4
    <2> QED
      BY <1>7, <1>9, <1>10, <2>3, <2>4, <2>5
  <1> QED
    BY <1>11, <1>12

\* The chunk a producer waited with is queued.
LEMMA PutReturnsKeeps ==
    ASSUME DeliveryInv, NEW g \in Opened, PutReturns(g)
    PROVE  /\ fifo' \in Seq(Chunk) /\ unfinished' \in Nat
           /\ QueueInOrder' /\ InFlightIsWritten' /\ PendingIsLast' /\ AllAccounted'
           /\ QueueAccounting' /\ SpokenInOrder'
PROOF
  <1> DEFINE last == Len(chunks[g])
  <1>1. LedgerInv /\ DeliveryTypeInv
    BY DEF DeliveryInv
  <1>2. g \in Generations /\ last \in Nat /\ DOMAIN chunks[g] = 1 .. last
    BY <1>1, OpenedAreGenerations, Shapes DEF LedgerInv
  <1>3. /\ producer[g] = "putting" /\ ~QueueIsFull
        /\ fifo' = Append(fifo, <<g, last>>) /\ in_flight' = in_flight
        /\ unfinished' = unfinished + 1 /\ chunks' = chunks
        /\ producer' = [producer EXCEPT ![g] = "ready"]
    BY DEF PutReturns, Put, ledger
  <1>4. last > 0 /\ <<g, last>> \notin in_flight /\ ~Queued(<<g, last>>)
    BY <1>2, <1>3 DEF DeliveryInv, PendingIsLast
  <1>5. producer'[g] = "ready" /\ \A h \in Generations \ {g} : producer'[h] = producer[h]
    BY <1>1, <1>2, <1>3 DEF DeliveryTypeInv
  <1>6. last \in 1 .. MaxChunks /\ last \in DOMAIN chunks'[g]
    BY <1>1, <1>2, <1>3, <1>4, DeliveryAssumption DEF DeliveryTypeInv
  <1>7. \A n \in DOMAIN fifo : fifo[n][1] = g => fifo[n][2] < last
    <2> SUFFICES ASSUME NEW n \in DOMAIN fifo, fifo[n][1] = g
                 PROVE  fifo[n][2] < last
      OBVIOUS
    <2>1. fifo[n][2] \in 1 .. last
      BY <1>2 DEF DeliveryInv, QueueInOrder
    <2>2. fifo[n] = <<g, fifo[n][2]>>
      BY <1>1, Shapes DEF Chunk
    <2>3. fifo[n][2] # last
      BY <1>4, <2>2 DEF Queued
    <2> QED
      BY <1>2, <2>1, <2>3
  <1>8. /\ fifo' \in Seq(Chunk) /\ unfinished' \in Nat /\ QueueInOrder' /\ QueueAccounting'
        /\ \A c : Queued(c)' <=> Queued(c) \/ c = <<g, last>>
    <2>1. \A h \in Generations : DOMAIN chunks[h] \subseteq DOMAIN chunks'[h]
      BY <1>3
    <2> HIDE DEF last
    <2> QED
      BY <1>1, <1>2, <1>3, <1>4, <1>6, <1>7, <2>1, QueueGrows DEF DeliveryInv
  <1>9. InFlightIsWritten' /\ SpokenInOrder'
    BY <1>3 DEF DeliveryInv, InFlightIsWritten, SpokenInOrder
  <1>10. PendingIsLast'
    BY <1>3, <1>5, <1>8 DEF DeliveryInv, PendingIsLast
  <1>11. AllAccounted'
    <2> SUFFICES ASSUME NEW h \in Generations, NEW i \in DOMAIN chunks'[h]
                 PROVE  /\ chunks'[h][i] = "QUEUED" =>
                              \/ Queued(<<h, i>>)'
                              \/ producer'[h] = "putting" /\ i = Len(chunks'[h])
                        /\ chunks'[h][i] = "PLAYING" => <<h, i>> \in in_flight'
      BY DEF AllAccounted
    <2>1. Queued(<<h, i>>) \/ <<h, i>> = <<g, last>> => Queued(<<h, i>>)'
      BY <1>8
    <2> QED
      BY <1>3, <1>5, <2>1 DEF DeliveryInv, AllAccounted
  <1> QED
    BY <1>8, <1>9, <1>10, <1>11

\* A chunk that is taken was the first one that could be; what stood before it is
\* of no use to anybody.
LEMMA GetReturnsKeeps ==
    ASSUME DeliveryInv, NEW g \in Opened, GetReturns(g)
    PROVE  /\ fifo' \in Seq(Chunk) /\ in_flight' \subseteq Chunk /\ unfinished' \in Nat
           /\ \A h \in Generations : Len(chunks'[h]) = Len(chunks[h])
           /\ playing' \in [Generations -> Chunk \cup {NoChunk}]
           /\ QueueInOrder' /\ InFlightIsWritten' /\ PendingIsLast' /\ AllAccounted'
           /\ QueueAccounting' /\ SpokenInOrder'
PROOF
  <1>1. LedgerInv /\ DeliveryTypeInv
    BY DEF DeliveryInv
  <1>2. PICK n \in Live :
           /\ \A m \in Live : n <= m
           /\ fifo' = SubSeq(fifo, n + 1, Len(fifo))
           /\ unfinished' = unfinished - (n - 1)
           /\ in_flight' = in_flight \cup {fifo[n]}
           /\ chunks' = [chunks EXCEPT ![fifo[n][1]][fifo[n][2]] = "PLAYING"]
           /\ playing' = [playing EXCEPT ![g] = fifo[n]]
    BY DEF GetReturns
  <1> DEFINE c == fifo[n]
             left == Len(fifo) - n
             f == [k \in DOMAIN fifo' |-> k + n]
  <1>3. producer' = producer
    BY DEF GetReturns
  <1>4. /\ n \in DOMAIN fifo /\ n \in 1 .. Len(fifo) /\ Len(fifo) \in Nat
        /\ DOMAIN fifo = 1 .. Len(fifo) /\ fifo \in Seq(Chunk)
        /\ ChunkState(c) = "QUEUED"
    BY <1>1, Shapes DEF Live, DeliveryTypeInv
  <1>5. c \in Chunk /\ c[1] \in Generations /\ c = <<c[1], c[2]>> /\ c[2] \in Nat
    BY <1>1, <1>4, Shapes DEF Chunk
  <1>6. chunks[c[1]][c[2]] = "QUEUED"
    <2> HIDE DEF c
    <2> QED
      BY <1>4 DEF ChunkState
  <1>7. c[2] \in DOMAIN chunks[c[1]] /\ c \notin in_flight
    BY <1>4 DEF DeliveryInv, QueueInOrder
  <1>8. /\ \A h \in Generations : /\ DOMAIN chunks'[h] = DOMAIN chunks[h]
                                  /\ Len(chunks'[h]) = Len(chunks[h])
        /\ \A h \in Generations : \A i \in DOMAIN chunks[h] :
              chunks'[h][i] = IF <<h, i>> = c THEN "PLAYING" ELSE chunks[h][i]
    <2>1. chunks \in [Generations -> Seq(ChunkStates)]
      BY <1>1 DEF DeliveryTypeInv
    <2>2. chunks' = [chunks EXCEPT ![c[1]] = [@ EXCEPT ![c[2]] = "PLAYING"]]
      BY <1>2
    <2> HIDE DEF c
    <2>3. chunks'[c[1]] = [chunks[c[1]] EXCEPT ![c[2]] = "PLAYING"]
      BY <1>5, <2>1, <2>2
    <2>4. /\ Len(chunks'[c[1]]) = Len(chunks[c[1]])
          /\ DOMAIN chunks'[c[1]] = DOMAIN chunks[c[1]]
          /\ \A i \in DOMAIN chunks[c[1]] :
                chunks'[c[1]][i] = IF i = c[2] THEN "PLAYING" ELSE chunks[c[1]][i]
      BY <1>1, <1>5, <1>7, <2>1, <2>3, Shapes, ExceptSeq DEF ChunkStates
    <2>5. \A h \in Generations \ {c[1]} : chunks'[h] = chunks[h]
      BY <2>1, <2>2
    <2> QED
      BY <1>5, <2>4, <2>5
  <1>9. /\ fifo' \in Seq(Chunk) /\ Len(fifo') = left /\ left \in Nat
        /\ DOMAIN fifo' = 1 .. left /\ \A k \in 1 .. left : fifo'[k] = fifo[k + n]
    <2>1. \A k \in n + 1 .. Len(fifo) : fifo[k] \in Chunk
      BY <1>1, <1>4, Shapes
    <2>2. n + 1 \in Int /\ Len(fifo) \in Int
      BY <1>4
    <2>3. /\ fifo' \in Seq(Chunk)
          /\ Len(fifo') = IF n + 1 <= Len(fifo) THEN Len(fifo) - (n + 1) + 1 ELSE 0
          /\ \A k \in 1 .. Len(fifo) - (n + 1) + 1 : fifo'[k] = fifo[n + 1 + k - 1]
      BY <1>2, <2>1, <2>2, SubSeqProperties, SMTT(60)
    <2>4. Len(fifo') = left /\ left \in Nat
      BY <1>4, <2>3
    <2>5. \A k \in 1 .. left : fifo'[k] = fifo[k + n]
      <3> TAKE k \in 1 .. left
      <3>1. k \in 1 .. Len(fifo) - (n + 1) + 1 /\ n + 1 + k - 1 = k + n
        BY <1>4
      <3> QED
        BY <2>3, <3>1
    <2> QED
      BY <2>3, <2>4, <2>5, LenProperties
  <1>10. QueueInOrder'
    <2>1. f \in [DOMAIN fifo' -> DOMAIN fifo]
      BY <1>4, <1>9
    <2>2. \A k, m \in DOMAIN fifo' : k < m => f[k] < f[m]
      BY <1>4, <1>9
    <2>3. \A k \in DOMAIN fifo' : fifo'[k] = fifo[f[k]] /\ f[k] # n
      BY <1>4, <1>9
    <2>4. \A k \in DOMAIN fifo' : fifo'[k] \notin in_flight'
      <3> TAKE k \in DOMAIN fifo'
      <3>1. f[k] \in DOMAIN fifo
        BY <2>1
      <3>2. fifo[f[k]] # c
        BY <1>1, <1>4, <2>3, <3>1, QueuedOnce DEF DeliveryInv
      <3> QED
        BY <1>2, <2>3, <3>1, <3>2 DEF DeliveryInv, QueueInOrder
    <2>5. DOMAIN fifo' \subseteq Nat
      BY <1>9
    <2> HIDE DEF f
    <2> QED
      BY <1>1, <1>8, <2>1, <2>2, <2>3, <2>4, <2>5, ThinnedQueue DEF DeliveryInv
  <1>11. InFlightIsWritten'
    <2>1. \A d \in in_flight : d[1] \in Generations
      BY <1>1 DEF DeliveryTypeInv, Chunk
    <2> QED
      BY <1>2, <1>5, <1>7, <1>8, <2>1 DEF DeliveryInv, InFlightIsWritten
  \* Before the one that is taken there was none that can still be taken.
  <1>12. ASSUME NEW h \in Generations, NEW i \in DOMAIN chunks[h],
                chunks[h][i] = "QUEUED", <<h, i>> # c, NEW m \in DOMAIN fifo,
                fifo[m] = <<h, i>>
         PROVE  m > n /\ Queued(<<h, i>>)'
    <2>1. ChunkState(<<h, i>>) = "QUEUED"
      BY <1>1, <1>12, LiveIsActive
    <2>2. m \in Live
      BY <1>12, <2>1 DEF Live
    <2>3. m > n
      BY <1>2, <1>4, <1>12, <2>2
    <2>4. m - n \in DOMAIN fifo' /\ fifo'[m - n] = fifo[m]
      <3>1. m - n \in 1 .. left /\ (m - n) + n = m
        BY <1>4, <2>3
      <3> QED
        BY <1>9, <3>1
    <2> QED
      BY <1>12, <2>3, <2>4 DEF Queued
  <1>13. \A d : Queued(d)' => Queued(d)
    <2> SUFFICES ASSUME NEW d, NEW k \in DOMAIN fifo', fifo'[k] = d
                 PROVE  Queued(d)
      BY DEF Queued
    <2>1. k + n \in DOMAIN fifo /\ fifo[k + n] = d
      BY <1>4, <1>9
    <2> QED
      BY <2>1 DEF Queued
  <1>14. PendingIsLast'
    <2> SUFFICES ASSUME NEW h \in Generations, producer[h] = "putting"
                 PROVE  /\ Len(chunks[h]) > 0
                        /\ chunks'[h][Len(chunks[h])] \in {"QUEUED", "CANCELLED"}
                        /\ <<h, Len(chunks[h])>> \notin in_flight'
                        /\ ~Queued(<<h, Len(chunks[h])>>)'
      BY <1>3, <1>8 DEF PendingIsLast
    <2>1. /\ Len(chunks[h]) > 0
          /\ chunks[h][Len(chunks[h])] \in {"QUEUED", "CANCELLED"}
          /\ <<h, Len(chunks[h])>> \notin in_flight
          /\ ~Queued(<<h, Len(chunks[h])>>)
      BY DEF DeliveryInv, PendingIsLast
    <2>2. <<h, Len(chunks[h])>> # c
      BY <1>4, <2>1 DEF Queued
    <2>3. Len(chunks[h]) \in DOMAIN chunks[h]
      BY <1>1, <2>1, Shapes
    <2> QED
      BY <1>2, <1>8, <1>13, <2>1, <2>2, <2>3
  <1>15. AllAccounted'
    <2> SUFFICES ASSUME NEW h \in Generations, NEW i \in DOMAIN chunks[h]
                 PROVE  /\ chunks'[h][i] = "QUEUED" =>
                              \/ Queued(<<h, i>>)'
                              \/ producer'[h] = "putting" /\ i = Len(chunks'[h])
                        /\ chunks'[h][i] = "PLAYING" => <<h, i>> \in in_flight'
      BY <1>8 DEF AllAccounted
    <2>1. CASE <<h, i>> = c
      BY <1>2, <1>8, <2>1
    <2>2. CASE <<h, i>> # c
      <3>1. chunks'[h][i] = chunks[h][i]
        BY <1>8, <2>2
      <3>2. chunks[h][i] = "PLAYING" => <<h, i>> \in in_flight'
        BY <1>2 DEF DeliveryInv, AllAccounted
      <3>3. chunks[h][i] = "QUEUED" /\ Queued(<<h, i>>) => Queued(<<h, i>>)'
        BY <1>12, <2>2 DEF Queued
      <3> QED
        BY <1>3, <1>8, <3>1, <3>2, <3>3 DEF DeliveryInv, AllAccounted
    <2> QED
      BY <2>1, <2>2
  <1>16. SpokenInOrder'
    <2> SUFFICES ASSUME NEW h \in Generations, NEW i \in DOMAIN chunks[h],
                        NEW j \in DOMAIN chunks[h], i < j,
                        chunks'[h][j] \in {"PLAYING", "SPOKEN"}, chunks'[h][i] = "QUEUED"
                 PROVE  FALSE
      BY <1>8 DEF SpokenInOrder
    <2>1. <<h, i>> # c /\ chunks[h][i] = "QUEUED"
      BY <1>8
    <2>2. CASE <<h, j>> # c
      BY <1>8, <2>1, <2>2 DEF DeliveryInv, SpokenInOrder
    <2>3. CASE <<h, j>> = c
      <3>0. i \in 1 .. Len(chunks[h]) /\ j \in 1 .. Len(chunks[h]) /\ Len(chunks[h]) \in Nat
        BY <1>1, Shapes
      <3>1. i # Len(chunks[h])
        BY <3>0
      <3>2. Queued(<<h, i>>)
        BY <2>1, <3>1 DEF DeliveryInv, AllAccounted
      <3>3. PICK m \in DOMAIN fifo : fifo[m] = <<h, i>>
        BY <3>2 DEF Queued
      <3>4. m > n
        BY <1>12, <2>1, <3>3
      <3>5. fifo[n][1] = fifo[m][1] /\ fifo[n][2] = j /\ fifo[m][2] = i
        BY <2>3, <3>3
      <3>6. fifo[n][2] < fifo[m][2]
        BY <1>4, <3>4, <3>5 DEF DeliveryInv, QueueInOrder
      <3> QED
        BY <3>0, <3>5, <3>6
    <2> QED
      BY <2>2, <2>3
  <1>17. QueueAccounting' /\ unfinished' \in Nat
    <2>1. IsFiniteSet(in_flight) /\ Cardinality(in_flight) \in Nat
      BY <1>1, Shapes
    <2>2. Cardinality(in_flight') = Cardinality(in_flight) + 1
      BY <1>2, <1>7, <2>1, FS_AddElement
    <2>3. Capacity \in Nat /\ unfinished \in Nat
      BY <1>1, DeliveryAssumption DEF DeliveryTypeInv
    <2>4. unfinished = Len(fifo) + Cardinality(in_flight) /\ Len(fifo) <= Capacity
      BY DEF DeliveryInv, QueueAccounting
    <2>5. unfinished' = Len(fifo') + Cardinality(in_flight') /\ Len(fifo') <= Capacity
      <3>1. unfinished' = unfinished - (n - 1) /\ Len(fifo') = Len(fifo) - n
        BY <1>2, <1>9
      <3>2. n \in Nat /\ n <= Len(fifo) /\ Len(fifo) \in Nat
        BY <1>4
      <3> QED
        BY <2>1, <2>2, <2>3, <2>4, <3>1, <3>2, SMTT(60)
    <2> QED
      BY <1>9, <2>1, <2>2, <2>5 DEF QueueAccounting
  <1>18. in_flight' \subseteq Chunk /\ playing' \in [Generations -> Chunk \cup {NoChunk}]
    BY <1>1, <1>2, <1>5 DEF DeliveryTypeInv
  <1> QED
    BY <1>8, <1>9, <1>10, <1>11, <1>14, <1>15, <1>16, <1>17, <1>18

\* Nothing that is passed over could still be taken.
LEMMA GetPassesOverKeeps ==
    ASSUME DeliveryInv, NEW g \in Opened, GetPassesOver(g)
    PROVE  /\ fifo' \in Seq(Chunk) /\ unfinished' \in Nat
           /\ QueueInOrder' /\ InFlightIsWritten' /\ PendingIsLast' /\ AllAccounted'
           /\ QueueAccounting' /\ SpokenInOrder'
PROOF
  <1>1. LedgerInv /\ DeliveryTypeInv
    BY DEF DeliveryInv
  <1>2. /\ Live = {} /\ fifo' = <<>> /\ unfinished' = unfinished - Len(fifo)
        /\ UNCHANGED <<chunks, in_flight, producer>>
    BY DEF GetPassesOver, ledger, tasks
  <1>3. fifo' \in Seq(Chunk) /\ Len(fifo') = 0 /\ DOMAIN fifo' = {}
    BY <1>2, EmptySeq
  <1>4. QueueInOrder' /\ InFlightIsWritten' /\ SpokenInOrder'
    BY <1>2, <1>3 DEF DeliveryInv, QueueInOrder, InFlightIsWritten, SpokenInOrder
  <1>5. PendingIsLast'
    BY <1>2, <1>3 DEF DeliveryInv, PendingIsLast, Queued
  <1>6. AllAccounted'
    <2>1. ASSUME NEW h \in Generations, NEW i \in DOMAIN chunks[h], chunks[h][i] = "QUEUED"
          PROVE  ~Queued(<<h, i>>)
      <3>1. ChunkState(<<h, i>>) = "QUEUED"
        BY <1>1, <2>1, LiveIsActive
      <3> QED
        BY <1>2, <3>1 DEF Live, Queued
    <2> QED
      BY <1>2, <2>1 DEF DeliveryInv, AllAccounted
  <1>7. QueueAccounting' /\ unfinished' \in Nat
    <2>1. /\ Cardinality(in_flight) \in Nat /\ Len(fifo) \in Nat /\ Capacity \in Nat
          /\ unfinished \in Nat
      BY <1>1, Shapes, DeliveryAssumption DEF DeliveryTypeInv
    <2> QED
      BY <1>2, <1>3, <2>1 DEF DeliveryInv, QueueAccounting
  <1> QED
    BY <1>3, <1>4, <1>5, <1>6, <1>7

\* The end of a playback, reported in time or late.
LEMMA PlaybackEndsKeeps ==
    ASSUME DeliveryInv, NEW g \in Opened, PlaybackEnds(g)
    PROVE  /\ in_flight' \subseteq Chunk /\ unfinished' \in Nat
           /\ \A h \in Generations : Len(chunks'[h]) = Len(chunks[h])
           /\ QueueInOrder' /\ InFlightIsWritten' /\ PendingIsLast' /\ AllAccounted'
           /\ QueueAccounting' /\ SpokenInOrder'
PROOF
  <1> DEFINE c == playing[g]
  <1>1. LedgerInv /\ DeliveryTypeInv /\ g \in Generations
    BY OpenedAreGenerations DEF DeliveryInv, LedgerInv
  <1>2. /\ MarkSpoken(c) /\ in_flight' = in_flight \ {c}
        /\ unfinished' = IF c \in in_flight THEN unfinished - 1 ELSE unfinished
        /\ UNCHANGED <<fifo, producer>>
    BY DEF PlaybackEnds
  <1>3. /\ \A h \in Generations : /\ DOMAIN chunks'[h] = DOMAIN chunks[h]
                                  /\ Len(chunks'[h]) = Len(chunks[h])
        /\ \A h \in Generations : \A i \in DOMAIN chunks[h] :
              chunks'[h][i] = IF <<h, i>> = c /\ chunks[h][i] = "PLAYING"
                              THEN "SPOKEN" ELSE chunks[h][i]
    <2>1. chunks \in [Generations -> Seq(ChunkStates)] /\ c \in Chunk \cup {NoChunk}
      BY <1>1 DEF DeliveryTypeInv
    <2>2. CASE active = c[1] /\ ChunkState(c) = "PLAYING"
      <3> HIDE DEF c
      <3>1. c[1] \in records /\ chunks[c[1]][c[2]] = "PLAYING"
        BY <2>2 DEF ChunkState
      <3>2. c[1] \in Generations
        BY <1>1, <3>1, OpenedAreGenerations DEF LedgerInv, LedgerTypes
      <3>3. c \in Chunk /\ c = <<c[1], c[2]>>
        BY <2>1, <3>2, DeliveryAssumption DEF NoChunk, Chunk, Generations
      <3>4. chunks' = [chunks EXCEPT ![c[1]] = [@ EXCEPT ![c[2]] = "SPOKEN"]]
        BY <1>2, <2>2 DEF MarkSpoken
      <3>5. chunks'[c[1]] = [chunks[c[1]] EXCEPT ![c[2]] = "SPOKEN"]
        BY <2>1, <3>2, <3>4
      <3>6. \A h \in Generations \ {c[1]} : chunks'[h] = chunks[h]
        BY <2>1, <3>4
      <3>7. /\ chunks[c[1]] \in Seq(ChunkStates) /\ Len(chunks[c[1]]) \in Nat
            /\ DOMAIN chunks[c[1]] = 1 .. Len(chunks[c[1]])
        BY <1>1, <2>1, <3>2, Shapes
      <3>8. /\ Len(chunks'[c[1]]) = Len(chunks[c[1]])
            /\ DOMAIN chunks'[c[1]] = DOMAIN chunks[c[1]]
            /\ \A i \in DOMAIN chunks[c[1]] :
                  chunks'[c[1]][i] = IF i = c[2] THEN "SPOKEN" ELSE chunks[c[1]][i]
        <4>1. CASE c[2] \in DOMAIN chunks[c[1]]
          <5>1. [chunks[c[1]] EXCEPT ![c[2]] = "SPOKEN"] \in Seq(ChunkStates)
            BY <3>7, <4>1, ExceptSeq DEF ChunkStates
          <5> QED
            BY <3>5, <3>7, <4>1, ExceptSeq DEF ChunkStates
        <4>2. CASE c[2] \notin DOMAIN chunks[c[1]]
          BY <3>5, <3>7, <4>2
        <4> QED
          BY <4>1, <4>2
      <3> QED
        BY <3>1, <3>2, <3>3, <3>6, <3>8
    <2>3. CASE ~(active = c[1] /\ ChunkState(c) = "PLAYING")
      <3>1. chunks' = chunks
        BY <1>2, <2>3 DEF MarkSpoken
      <3>2. ASSUME NEW h \in Generations, NEW i \in DOMAIN chunks[h], chunks[h][i] = "PLAYING"
            PROVE  <<h, i>> # c
        <4>1. h = active /\ ChunkState(<<h, i>>) = "PLAYING"
          BY <1>1, <3>2, LiveIsActive
        <4> QED
          BY <2>3, <4>1
      <3> QED
        BY <3>1, <3>2
    <2> QED
      BY <2>2, <2>3
  <1> HIDE DEF c
  <1>4. QueueInOrder'
    BY <1>1, <1>2, <1>3, Shapes DEF DeliveryInv, QueueInOrder
  <1>5. InFlightIsWritten'
    <2>1. \A d \in in_flight : d[1] \in Generations
      BY <1>1 DEF DeliveryTypeInv, Chunk
    <2> QED
      BY <1>2, <1>3, <2>1 DEF DeliveryInv, InFlightIsWritten
  <1>6. PendingIsLast'
    <2> SUFFICES ASSUME NEW h \in Generations, producer[h] = "putting"
                 PROVE  /\ Len(chunks[h]) > 0
                        /\ chunks'[h][Len(chunks[h])] \in {"QUEUED", "CANCELLED"}
                        /\ <<h, Len(chunks[h])>> \notin in_flight'
                        /\ ~Queued(<<h, Len(chunks[h])>>)'
      BY <1>2, <1>3 DEF PendingIsLast
    <2>1. /\ Len(chunks[h]) > 0
          /\ chunks[h][Len(chunks[h])] \in {"QUEUED", "CANCELLED"}
          /\ <<h, Len(chunks[h])>> \notin in_flight
          /\ ~Queued(<<h, Len(chunks[h])>>)
      BY DEF DeliveryInv, PendingIsLast
    <2>2. Len(chunks[h]) \in DOMAIN chunks[h]
      BY <1>1, <2>1, Shapes
    <2> QED
      BY <1>2, <1>3, <2>1, <2>2 DEF Queued
  <1>7. AllAccounted'
    <2> SUFFICES ASSUME NEW h \in Generations, NEW i \in DOMAIN chunks[h]
                 PROVE  /\ chunks'[h][i] = "QUEUED" =>
                              \/ Queued(<<h, i>>)'
                              \/ producer'[h] = "putting" /\ i = Len(chunks'[h])
                        /\ chunks'[h][i] = "PLAYING" => <<h, i>> \in in_flight'
      BY <1>3 DEF AllAccounted
    <2>1. Queued(<<h, i>>)' <=> Queued(<<h, i>>)
      BY <1>2 DEF Queued
    <2> QED
      BY <1>2, <1>3, <2>1 DEF DeliveryInv, AllAccounted
  <1>8. SpokenInOrder'
    <2> SUFFICES ASSUME NEW h \in Generations, NEW i \in DOMAIN chunks[h],
                        NEW j \in DOMAIN chunks[h], i < j,
                        chunks'[h][j] \in {"PLAYING", "SPOKEN"}
                 PROVE  chunks'[h][i] # "QUEUED"
      BY <1>3 DEF SpokenInOrder
    <2>1. chunks[h][j] \in {"PLAYING", "SPOKEN"}
      BY <1>3
    <2> QED
      BY <1>3, <2>1 DEF DeliveryInv, SpokenInOrder
  <1>9. QueueAccounting' /\ unfinished' \in Nat
    <2>1. /\ IsFiniteSet(in_flight) /\ Cardinality(in_flight) \in Nat /\ Len(fifo) \in Nat
          /\ unfinished = Len(fifo) + Cardinality(in_flight) /\ Len(fifo) <= Capacity
      BY <1>1, Shapes DEF DeliveryInv, QueueAccounting
    <2>2. Cardinality(in_flight') = IF c \in in_flight THEN Cardinality(in_flight) - 1
                                                       ELSE Cardinality(in_flight)
      BY <1>2, <2>1, FS_RemoveElement
    <2>3. IsFiniteSet(in_flight')
      BY <1>2, <2>1, FS_RemoveElement
    <2>4. Cardinality(in_flight') \in Nat
      BY <2>3, FS_CardinalityType
    <2>5. unfinished' = Len(fifo') + Cardinality(in_flight') /\ Len(fifo') <= Capacity
      BY <1>2, <2>1, <2>2
    <2> QED
      BY <1>2, <2>1, <2>4, <2>5 DEF QueueAccounting
  <1> QED
    BY <1>1, <1>2, <1>3, <1>4, <1>5, <1>6, <1>7, <1>8, <1>9 DEF DeliveryTypeInv

LEMMA DeliveryStarts == DeliveryInit => DeliveryInv
PROOF
  <1> SUFFICES ASSUME DeliveryInit PROVE DeliveryInv
    OBVIOUS
  <1>1. LedgerInv
    BY Starts
  <1>2. {MaxGenerations, MaxChunks, Capacity} \subseteq Nat
    BY DeliveryAssumption
  <1>3. /\ Len(<<>>) = 0 /\ DOMAIN <<>> = {} /\ <<>> \in Seq(ChunkStates) /\ <<>> \in Seq(Chunk)
    BY EmptySeq
  <1>4. DeliveryTypeInv
    BY <1>2, <1>3 DEF DeliveryInit, DeliveryTypeInv, Generations, Opened
  <1>5. QueueInOrder /\ InFlightIsWritten /\ PendingIsLast /\ AllAccounted /\ SpokenInOrder
    BY <1>3 DEF DeliveryInit, QueueInOrder, InFlightIsWritten, PendingIsLast, AllAccounted, SpokenInOrder
  <1>6. QueueAccounting
    BY <1>2, <1>3, FS_EmptySet DEF DeliveryInit, QueueAccounting
  <1> QED
    BY <1>1, <1>4, <1>5, <1>6 DEF DeliveryInv

\* What the ledger's part leaves to be shown of the types.
LEMMA TypesFollow ==
    ASSUME DeliveryTypeInv, LedgerTypes',
           \A h \in Generations : Len(chunks'[h]) <= MaxChunks,
           fifo' \in Seq(Chunk), in_flight' \subseteq Chunk, unfinished' \in Nat,
           token' \in [Generations -> BOOLEAN],
           producer' \in [Generations -> {"ready", "putting", "stopped"}],
           player' \in [Generations -> {"ready", "getting", "playing", "stopped"}],
           playing' \in [Generations -> Chunk \cup {NoChunk}],
           scheduled' \subseteq {"producer", "player"} \X Generations
    PROVE  DeliveryTypeInv'
PROOF
  BY DEF DeliveryTypeInv, LedgerTypes

\* Tokens and cancellations that were scheduled keep their types.
LEMMA CancelTokenTypes ==
    ASSUME DeliveryTypeInv, NEW g \in Generations, CancelToken(g)
    PROVE  /\ token' \in [Generations -> BOOLEAN]
           /\ scheduled' \subseteq {"producer", "player"} \X Generations
PROOF
  BY DEF DeliveryTypeInv, CancelToken

LEMMA DeliveryStep ==
    ASSUME DeliveryInv, [DeliveryNext]_deliveryVars
    PROVE  DeliveryInv'
PROOF
  <1>1. LedgerInv /\ DeliveryTypeInv /\ LedgerInv' /\ LedgerTypes' /\ Opened \subseteq Generations
    BY Step, OpenedAreGenerations DEF DeliveryInv, LedgerInv
  <1> DEFINE Rest == /\ QueueInOrder' /\ InFlightIsWritten' /\ PendingIsLast' /\ AllAccounted'
                     /\ QueueAccounting' /\ SpokenInOrder'
  \* Where the types and the rest of the invariant are kept, it is.
  <1>2. DeliveryTypeInv' /\ Rest => DeliveryInv'
    BY <1>1 DEF DeliveryInv
  <1> DEFINE ChunkLengths == \A h \in Generations : Len(chunks'[h]) <= MaxChunks
  <1>3. UNCHANGED chunks => ChunkLengths
    BY <1>1 DEF DeliveryTypeInv
  <1>4. CASE UNCHANGED deliveryVars
    <2>1. Rest
      BY <1>4, SpeechUnmoved DEF deliveryVars, ledger, speech, tasks
    <2>2. DeliveryTypeInv'
      BY <1>1, <1>3, <1>4, TypesFollow DEF deliveryVars, ledger, speech, tasks, DeliveryTypeInv
    <2> QED
      BY <1>2, <2>1, <2>2
  <1>5. CASE StartGeneration \/ FinishGeneration
    <2>1. UNCHANGED <<chunks, speech, tasks>>
      BY <1>5 DEF StartGeneration, FinishGeneration
    <2>2. Rest
      BY <2>1, SpeechUnmoved DEF tasks
    <2>3. DeliveryTypeInv'
      BY <1>1, <1>3, <2>1, TypesFollow DEF speech, tasks, DeliveryTypeInv
    <2> QED
      BY <1>2, <2>2, <2>3
  <1>6. ASSUME NEW g \in Opened, Enqueue(g)
        PROVE  DeliveryInv'
    <2>1. Rest /\ fifo' \in Seq(Chunk) /\ unfinished' \in Nat /\ ChunkLengths
      BY <1>6, EnqueueKeeps
    <2>2. in_flight' = in_flight
      BY <1>6 DEF Enqueue, Put, speech
    <2>3. /\ UNCHANGED <<token, player, playing, scheduled>>
          /\ producer' = producer \/ producer' = [producer EXCEPT ![g] = "putting"]
      BY <1>6 DEF Enqueue
    <2>4. DeliveryTypeInv'
      BY <1>1, <2>1, <2>2, <2>3, TypesFollow DEF DeliveryTypeInv
    <2> QED
      BY <1>2, <2>1, <2>4
  <1>7. ASSUME NEW g \in Opened, PutReturns(g)
        PROVE  DeliveryInv'
    <2>1. Rest /\ fifo' \in Seq(Chunk) /\ unfinished' \in Nat
      BY <1>7, PutReturnsKeeps
    <2>2. /\ UNCHANGED <<chunks, in_flight, token, player, playing, scheduled>>
          /\ producer' = [producer EXCEPT ![g] = "ready"]
      BY <1>7 DEF PutReturns, Put, ledger
    <2>3. DeliveryTypeInv'
      BY <1>1, <1>3, <2>1, <2>2, TypesFollow DEF DeliveryTypeInv
    <2> QED
      BY <1>2, <2>1, <2>3
  <1>8. ASSUME NEW g \in Opened, PutCancelled(g)
        PROVE  DeliveryInv'
    <2>1. Rest
      BY <1>8, PutCancelledKeeps
    <2>2. /\ UNCHANGED <<fifo, in_flight, unfinished, token, player, playing>>
          /\ producer' = [producer EXCEPT ![g] = "stopped"]
          /\ scheduled' \subseteq scheduled
      BY <1>8 DEF PutCancelled, speech
    <2>3. ChunkLengths
      <3>1. CASE producer[g] = "putting"
        <4>1. \A h \in Generations : DOMAIN chunks'[h] = DOMAIN chunks[h]
          BY <1>1, <1>8, <3>1, Withdrawn DEF PutCancelled
        <4> QED
          BY <1>1, <4>1, LenProperties DEF LedgerTypes, DeliveryTypeInv
      <3>2. CASE producer[g] # "putting"
        BY <1>3, <1>8, <3>2 DEF PutCancelled, ledger
      <3> QED
        BY <3>1, <3>2
    <2>4. DeliveryTypeInv'
      BY <1>1, <2>2, <2>3, TypesFollow DEF DeliveryTypeInv
    <2> QED
      BY <1>2, <2>1, <2>4
  <1>9. ASSUME NEW g \in Opened, NextChunk(g) \/ GetCancelled(g) \/ PlaybackStops(g)
        PROVE  DeliveryInv'
    <2>1. /\ UNCHANGED <<ledger, speech, token, producer>>
          /\ \E s \in {"getting", "stopped"} : player' = [player EXCEPT ![g] = s]
          /\ playing' = playing \/ playing' = [playing EXCEPT ![g] = NoChunk]
          /\ scheduled' \subseteq scheduled
      BY <1>9 DEF NextChunk, GetCancelled, PlaybackStops
    <2>2. Rest
      BY <2>1, SpeechUnmoved DEF ledger
    <2>3. DeliveryTypeInv'
      BY <1>1, <1>3, <2>1, TypesFollow, ZenonT(60) DEF ledger, speech, DeliveryTypeInv
    <2> QED
      BY <1>2, <2>2, <2>3
  <1>10. ASSUME NEW g \in Opened, StopGeneration(g)
         PROVE  DeliveryInv'
    <2>1. UNCHANGED <<ledger, speech, producer, player, playing>> /\ CancelToken(g)
      BY <1>10 DEF StopGeneration
    <2>2. Rest
      BY <2>1, SpeechUnmoved DEF ledger
    <2>3. DeliveryTypeInv'
      BY <1>1, <1>3, <2>1, CancelTokenTypes, TypesFollow DEF ledger, speech, DeliveryTypeInv
    <2> QED
      BY <1>2, <2>2, <2>3
  <1>11. ASSUME NEW g \in Opened, GetReturns(g)
         PROVE  DeliveryInv'
    <2>1. /\ Rest /\ fifo' \in Seq(Chunk) /\ in_flight' \subseteq Chunk /\ unfinished' \in Nat
          /\ \A h \in Generations : Len(chunks'[h]) = Len(chunks[h])
          /\ playing' \in [Generations -> Chunk \cup {NoChunk}]
      BY <1>11, GetReturnsKeeps
    <2>2. UNCHANGED <<token, producer, scheduled>> /\ player' = [player EXCEPT ![g] = "playing"]
      BY <1>11 DEF GetReturns
    <2>3. DeliveryTypeInv'
      BY <1>1, <2>1, <2>2, TypesFollow DEF DeliveryTypeInv
    <2> QED
      BY <1>2, <2>1, <2>3
  <1>12. ASSUME NEW g \in Opened, GetPassesOver(g)
         PROVE  DeliveryInv'
    <2>1. Rest /\ fifo' \in Seq(Chunk) /\ unfinished' \in Nat
      BY <1>12, GetPassesOverKeeps
    <2>2. UNCHANGED <<ledger, in_flight, tasks>>
      BY <1>12 DEF GetPassesOver
    <2>3. DeliveryTypeInv'
      BY <1>1, <1>3, <2>1, <2>2, TypesFollow DEF DeliveryTypeInv, ledger, tasks
    <2> QED
      BY <1>2, <2>1, <2>3
  <1>13. ASSUME NEW g \in Opened, PlaybackEnds(g)
         PROVE  DeliveryInv'
    <2>1. /\ Rest /\ in_flight' \subseteq Chunk /\ unfinished' \in Nat
          /\ \A h \in Generations : Len(chunks'[h]) = Len(chunks[h])
      BY <1>13, PlaybackEndsKeeps
    <2>2. /\ UNCHANGED <<fifo, token, producer, scheduled>>
          /\ player' = [player EXCEPT ![g] = "ready"]
          /\ playing' = [playing EXCEPT ![g] = NoChunk]
      BY <1>13 DEF PlaybackEnds
    <2>3. DeliveryTypeInv'
      BY <1>1, <2>1, <2>2, TypesFollow DEF DeliveryTypeInv
    <2> QED
      BY <1>2, <2>1, <2>3
  <1>14. ASSUME NEW g \in Opened, CleanUp(g) \/ ApplyInterruption(g)
         PROVE  DeliveryInv'
    <2>1. CancelGeneration(g) /\ UNCHANGED <<producer, player, playing>>
      BY <1>14 DEF CleanUp, ApplyInterruption, tasks
    <2>2. /\ Rest /\ fifo' \in Seq(Chunk) /\ in_flight' \subseteq Chunk /\ unfinished' \in Nat
      BY <1>1, <2>1, CancelGenerationKeeps
    <2>3. ChunkLengths
      <3>1. \A h \in Generations : DOMAIN chunks'[h] = DOMAIN chunks[h]
        BY <1>1, <2>1, Withdrawn DEF CancelGeneration
      <3> QED
        BY <1>1, <3>1, LenProperties DEF LedgerTypes, DeliveryTypeInv
    <2>4. /\ token' \in [Generations -> BOOLEAN]
          /\ scheduled' \subseteq {"producer", "player"} \X Generations
      <3>1. CASE UNCHANGED <<token, scheduled>>
        BY <1>1, <3>1 DEF DeliveryTypeInv
      <3>2. CASE CancelToken(g)
        BY <1>1, <3>2, CancelTokenTypes
      <3> QED
        BY <1>14, <3>1, <3>2 DEF CleanUp, ApplyInterruption, tasks
    <2>5. DeliveryTypeInv'
      BY <1>1, <2>1, <2>2, <2>3, <2>4, TypesFollow DEF DeliveryTypeInv
    <2> QED
      BY <1>2, <2>2, <2>5
  <1> QED
    BY <1>4, <1>5, <1>6, <1>7, <1>8, <1>9, <1>10, <1>11, <1>12, <1>13, <1>14 DEF DeliveryNext

THEOREM DeliveryInvHolds == DeliverySpec => []DeliveryInv
PROOF
  <1>1. DeliveryInv /\ [DeliveryNext]_deliveryVars => DeliveryInv'
    BY DeliveryStep
  <1> QED
    BY DeliveryStarts, <1>1, PTL DEF DeliverySpec

\* Every variable keeps its type.
THEOREM TypesAreKept == DeliverySpec => []DeliveryTypeInv
PROOF
  <1>1. DeliveryInv => DeliveryTypeInv
    BY DEF DeliveryInv
  <1> QED
    BY DeliveryInvHolds, <1>1, PTL

\* What a queue holds once it holds at one place.
LEMMA OnePlace ==
    ASSUME DeliveryTypeInv, QueueInOrder, NEW c, Queued(c)
    PROVE  Cardinality({n \in DOMAIN fifo : fifo[n] = c}) = 1
PROOF
  <1>1. PICK m \in DOMAIN fifo : fifo[m] = c
    BY DEF Queued
  <1>2. \A n \in DOMAIN fifo : fifo[n] = c => n = m
    BY <1>1, QueuedOnce
  <1>3. {n \in DOMAIN fifo : fifo[n] = c} = {m}
    BY <1>1, <1>2
  <1> QED
    BY <1>3, FS_Singleton

\* No chunk is lost, or counted twice, between the ledger, the queue and the
\* tasks, whoever is cancelled where.
THEOREM ChunksAreAccounted == DeliverySpec => []ChunksAddUp
PROOF
  <1>1. DeliveryInv => ChunksAddUp
    BY OnePlace DEF DeliveryInv, AllAccounted, ChunksAddUp, NoChunkLost
  <1> QED
    BY DeliveryInvHolds, <1>1, PTL

\* A generation's chunks are heard in the order they were written.
THEOREM ChunksAreHeardInOrder == DeliverySpec => []SpokenInOrder
PROOF
  <1>1. DeliveryInv => SpokenInOrder
    BY DEF DeliveryInv
  <1> QED
    BY DeliveryInvHolds, <1>1, PTL

-----------------------------------------------------------------------------
(* The spoken response: its stream is silent once it was stopped.           *)

\* The invariant holds before the response starts.
LEMMA StreamStarts == OutputInit => StreamInv
PROOF
  BY DEF OutputInit, StreamInv, CallbackIsBound, ThreadsInTurn, StruckInTime,
         Unopened, Leaving

\* Leaving by an exception keeps the invariant, from every await: the callback
\* goes no sooner than the stream is being closed.
LEMMA UnwindKeeps ==
    ASSUME StreamInv, NEW why \in {"cancelled", "failed"}, Unwind(why)
    PROVE  StreamInv'
PROOF
  <1> USE DEF Unopened, Leaving, Awaiting, Playing, Spawning, Answering
  <1>1. turnToken' = turnToken /\ wake' = FALSE
    BY DEF Unwind, Await, control
  <1>2. struck' \in {{}, {"next"}}
    BY DEF Unwind, Await
  <1>3. CASE task' \in {"gathering", "reaping"}
    <2>1. /\ task \in Spawning \cup Answering
          /\ bound' = bound \ {"speech"} /\ threads' = threads /\ device' = device
      BY <1>3 DEF Unwind, Await
    <2> QED
      BY <1>1, <1>2, <1>3, <2>1 DEF StreamInv, CallbackIsBound, ThreadsInTurn, StruckInTime
  <1>4. CASE task' = "closing"
    <2>1. /\ bound' = {} /\ threads' = threads \cup {"closing"}
          /\ task \in Playing \cup Spawning /\ device' = device
      BY <1>4 DEF Unwind, Await
    <2> QED
      BY <1>1, <1>2, <1>4, <2>1 DEF StreamInv, CallbackIsBound, ThreadsInTurn, StruckInTime
  <1>5. CASE task' \notin {"gathering", "reaping", "closing"}
    <2>1. /\ task' \in {"reporting", "over"} /\ bound' \in {{}, bound} /\ threads' = threads
          /\ task # "reporting" => bound' = {}
          /\ task \notin Awaiting
          /\ device' = IF task = "opening" /\ device = "open" THEN "lost" ELSE device
      BY <1>5 DEF Unwind, Await
    <2> QED
      BY <1>1, <1>2, <1>5, <2>1 DEF StreamInv, CallbackIsBound, ThreadsInTurn, StruckInTime
  <1> QED
    BY <1>3, <1>4, <1>5

\* A step of the task that leaves the token, the stream and the threads alone
\* and goes on to another await than the start of the stream.
LEMMA StepKeepsStream ==
    ASSUME StreamInv, NEW next,
           task' = next, wake' = FALSE, struck' \in {{}, {"next"}},
           UNCHANGED <<turnToken, device, threads>>,
           bound' \in {bound, bound \cup {"speech"}, bound \ {"speech"}},
           task \in Awaiting, wake, next \in Awaiting \ {"beginning"}
    PROVE  StreamInv'
PROOF
  BY DEF StreamInv, CallbackIsBound, ThreadsInTurn, StruckInTime, Awaiting, Unopened,
         Leaving, Playing, Spawning, Answering

\* Every step of the task keeps it: the stream is only started, and written to,
\* by a task whose token was live when it asked.
LEMMA TaskKeeps ==
    ASSUME StreamInv, TaskStep
    PROVE  StreamInv'
PROOF
  <1> USE DEF Unopened, Leaving, Awaiting, Playing, Spawning, Answering, Resumes, Await, control
  <1>1. CASE Thrown \/ TimesOut
    BY <1>1, UnwindKeeps DEF Thrown, TimesOut
  <1>2. CASE Started
    <2>1. CASE ~output
      BY <1>2, <2>1 DEF Started, StreamInv, CallbackIsBound, ThreadsInTurn, StruckInTime
    <2>2. CASE output /\ turnToken = "cancelled"
      BY <1>2, <2>2, UnwindKeeps DEF Started
    <2>3. CASE output /\ turnToken # "cancelled"
      BY <1>2, <2>3 DEF Started, StreamInv, CallbackIsBound, ThreadsInTurn, StruckInTime
    <2> QED
      BY <2>1, <2>2, <2>3
  <1>3. CASE StreamOpened
    BY <1>3 DEF StreamOpened, StreamInv, CallbackIsBound, ThreadsInTurn, StruckInTime
  <1>4. CASE Detected
    <2>1. CASE \E why \in {"cancelled", "failed"} : Unwind(why)
      BY <2>1, UnwindKeeps
    <2>2. CASE \E next \in Spawning : \E p : Spawns(next, p)
      BY <1>4, <2>2, StepKeepsStream DEF Detected, Spawns
    <2> QED
      BY <1>4, <2>1, <2>2 DEF Detected
  <1>5. CASE Listed
    <2>1. CASE turnToken # "cancelled"
      BY <1>5, <2>1, StepKeepsStream DEF Listed
    <2> QED
      BY <1>5, <2>1, UnwindKeeps DEF Listed
  <1>6. CASE Synthesized
    <2>1. /\ task \in Awaiting /\ task' = "gathering" /\ bound' = bound \ {"speech"}
          /\ struck' \in {{}, {"next"}}
      BY <1>6 DEF Synthesized
    <2> QED
      BY <1>6, <2>1, StepKeepsStream DEF Synthesized
  <1>15. CASE Spawned("listing", "voices") \/ Spawned("spawning", "speech")
    BY <1>15, StepKeepsStream DEF Spawned
  <1>16. ASSUME Discards, task \in {"gathering", "reaping"}, wake
         PROVE  StreamInv'
    <2>1. CASE cause = "none"
      BY <1>16, <2>1, StepKeepsStream DEF Discards
    <2> QED
      BY <1>16, <2>1 DEF Discards, StreamInv, CallbackIsBound, ThreadsInTurn, StruckInTime
  <1>7. CASE Reaped
    BY <1>7, <1>16 DEF Reaped
  <1>17. CASE Gathered
    <2>1. CASE children = {}
      BY <1>16, <1>17, <2>1 DEF Gathered
    <2> QED
      BY <1>17, <2>1, StepKeepsStream DEF Gathered
  <1>8. CASE Measured
    <2>1. CASE turnToken = "cancelled"
      BY <1>8, <2>1, UnwindKeeps DEF Measured
    <2> QED
      BY <1>8, <2>1 DEF Measured, Hands, StreamInv, CallbackIsBound, ThreadsInTurn, StruckInTime
  <1>9. CASE Begun
    BY <1>9 DEF Begun, Hands, StreamInv, CallbackIsBound, ThreadsInTurn, StruckInTime
  <1>10. CASE Written
    <2>1. CASE turnToken = "cancelled"
      BY <1>10, <2>1, UnwindKeeps DEF Written
    <2>2. CASE turnToken # "cancelled" /\ Hands("stopping")
      BY <1>10, <2>2 DEF Written, Hands, StreamInv, CallbackIsBound, ThreadsInTurn, StruckInTime
    <2> QED
      BY <1>10, <2>1, <2>2, StepKeepsStream DEF Written
  <1>11. CASE Completed
    <2>1. CASE turnToken = "cancelled"
      BY <1>11, <2>1, UnwindKeeps DEF Completed
    <2> QED
      BY <1>11, <2>1 DEF Completed, StreamInv, CallbackIsBound, ThreadsInTurn, StruckInTime
  <1>12. CASE Closed
    BY <1>12 DEF Closed, StreamInv, CallbackIsBound, ThreadsInTurn, StruckInTime
  <1>13. CASE Settled
    BY <1>13 DEF Settled, StreamInv, CallbackIsBound, ThreadsInTurn, StruckInTime
  <1>14. CASE Reports
    BY <1>14 DEF Reports, StreamInv, CallbackIsBound, ThreadsInTurn, StruckInTime
  <1> QED
    BY <1>1, <1>2, <1>3, <1>4, <1>5, <1>6, <1>7, <1>8, <1>9, <1>10, <1>11, <1>12,
       <1>13, <1>14, <1>15, <1>17 DEF TaskStep

\* Every end of a thread keeps it: a start that revives an aborted stream wakes
\* a task that is struck.
LEMMA DeviceKeeps ==
    ASSUME StreamInv, NEW op \in DeviceAwaits, ThreadEnds(op)
    PROVE  StreamInv'
PROOF
  <1> USE DEF Unopened, Leaving, Awaiting, Playing, control
  <1>1. CASE op = "opening"
    BY <1>1 DEF ThreadEnds, StreamInv, CallbackIsBound, ThreadsInTurn, StruckInTime
  <1>2. CASE op = "beginning"
    BY <1>2 DEF ThreadEnds, StreamInv, CallbackIsBound, ThreadsInTurn, StruckInTime
  <1>3. CASE op = "stopping"
    BY <1>3 DEF ThreadEnds, StreamInv, CallbackIsBound, ThreadsInTurn, StruckInTime
  <1>4. CASE op = "closing"
    BY <1>4 DEF ThreadEnds, StreamInv, CallbackIsBound, ThreadsInTurn, StruckInTime
  <1> QED
    BY <1>1, <1>2, <1>3, <1>4 DEF ThreadEnds, DeviceAwaits

\* Cancelling the token keeps it: the callbacks abort the stream and strike the
\* task, as long as it may use the stream.
LEMMA CancelKeeps ==
    ASSUME StreamInv, CancelResponseToken, UNCHANGED <<task, wake, bound, threads>>
    PROVE  StreamInv'
PROOF
  <1> USE DEF Unopened, Leaving, Awaiting, Playing
  <1>1. CASE turnToken = "live" /\ bound # {}
    BY <1>1 DEF CancelResponseToken, Strike, Abort, StreamInv, CallbackIsBound,
       ThreadsInTurn, StruckInTime
  <1>2. CASE ~(turnToken = "live" /\ bound # {})
    BY <1>2 DEF CancelResponseToken, StreamInv, CallbackIsBound,
       ThreadsInTurn, StruckInTime
  <1> QED
    BY <1>1, <1>2

\* Every step of the response keeps it.
LEMMA StepKeeps == StreamInv /\ [OutputNext]_outputVars => StreamInv'
PROOF
  <1> SUFFICES ASSUME StreamInv, [OutputNext]_outputVars
               PROVE  StreamInv'
    OBVIOUS
  <1> USE DEF control
  <1>1. CASE TaskStep
    BY <1>1, TaskKeeps
  <1>2. CASE ResponseFails
    BY <1>2, UnwindKeeps DEF ResponseFails
  <1>3. CASE Arrives
    BY <1>3 DEF Arrives, StreamInv, CallbackIsBound, ThreadsInTurn, StruckInTime,
       machine, DeviceAwaits, Unopened, Leaving, Awaiting, Playing, Spawning, Answering
  <1>4. CASE WriteEnds
    BY <1>4 DEF WriteEnds, StreamInv, CallbackIsBound, ThreadsInTurn, StruckInTime,
       Unopened, Leaving, Awaiting, Playing
  <1>5. CASE \E op \in DeviceAwaits : ThreadEnds(op)
    BY <1>5, DeviceKeeps
  <1>6. CASE Mute
    <2>1. CASE playback /\ record = "queued"
      BY <1>6, <2>1, CancelKeeps DEF Mute
    <2> QED
      BY <1>6, <2>1 DEF Mute, StreamInv, CallbackIsBound, ThreadsInTurn, StruckInTime
  <1>7. CASE Stop
    BY <1>7, CancelKeeps DEF Stop
  <1>8. CASE CancelTask
    BY <1>8 DEF CancelTask, machine, StreamInv, CallbackIsBound, ThreadsInTurn, StruckInTime
  <1>9. CASE UNCHANGED outputVars
    BY <1>9 DEF outputVars, StreamInv, CallbackIsBound, ThreadsInTurn, StruckInTime
  <1>10. CASE Exits \/ CloseAdapter \/ AdapterCloses
    <2>1. UNCHANGED <<task, wake, struck, bound, device, threads, turnToken>>
      BY <1>10 DEF Exits, CloseAdapter, AdapterCloses
    <2> QED
      BY <2>1 DEF StreamInv, CallbackIsBound, ThreadsInTurn, StruckInTime
  <1> QED
    BY <1>1, <1>2, <1>3, <1>4, <1>5, <1>6, <1>7, <1>8, <1>9, <1>10 DEF OutputNext

\* SilentOnceStopped: after the owner muted or stopped a response no write of
\* it sounds, for any number of frames and cancellations of its task (_bind_abort
\* and play of the output device).
THEOREM MutedMeansSilent == OutputSpec => SilentOnceStopped
PROOF
  <1>1. ASSUME StreamInv, [OutputNext]_outputVars, turnToken = "cancelled", "closing" \notin threads
        PROVE  frames' = frames
    <2>1. CASE WriteEnds
      BY <1>1, <2>1 DEF WriteEnds, StreamInv, StruckInTime
    <2> QED
      BY <1>1, <2>1 DEF OutputNext, outputVars, TaskStep, Thrown, TimesOut, Started, StreamOpened,
         Detected, Spawns, Spawned, Listed, Synthesized, Gathered, Reaped, Discards, Measured,
         Begun, Written, Completed, Closed, Settled, Reports, ResponseFails, Arrives, Exits,
         ThreadEnds, Mute, Stop, CancelTask, CloseAdapter, AdapterCloses, Unwind, Hands, machine
  <1> QED
    BY <1>1, StreamStarts, StepKeeps, PTL DEF OutputSpec, SilentOnceStopped

-----------------------------------------------------------------------------
(* The processes that make the speech.                                      *)

\* A task that leaves by an exception ends the process it was spawning, and keeps
\* the one it waits for in _processes.
LEMMA UnwindKeepsProcesses ==
    ASSUME ProcessInv, NEW why \in {"cancelled", "failed"}, Unwind(why), task # "over"
    PROVE  ProcessInv'
PROOF
  <1> USE DEF Leaving, BeingSpawned, Await, control, ProcessInv, ClosedAfterCancelling, Registered
  <1>1. UNCHANGED <<strikes, adapter>> /\ cause' = why
    BY DEF Unwind
  <1>2. CASE task = "speech"
    BY <1>1, <1>2 DEF Unwind
  <1>3. CASE task = "voices" \/ (task \in Spawning /\ why = "cancelled")
    BY <1>1, <1>3 DEF Unwind, Spawning
  <1>4. CASE task \in Playing \/ (task \in Spawning /\ why = "failed")
    BY <1>1, <1>4 DEF Unwind, Spawning, Playing
  <1>5. CASE task \notin Playing \cup Spawning \cup Answering
    <2>1. task' \in {"reporting", "over"} /\ UNCHANGED synthesis
      BY <1>5 DEF Unwind, Answering
    <2> QED
      BY <1>1, <1>5, <2>1 DEF synthesis, Spawning
  <1> QED
    BY <1>2, <1>3, <1>4, <1>5 DEF Answering

\* A step of a task that was not struck, and neither spawns nor ends a process.
LEMMA TaskKeepsProcesses ==
    ASSUME ProcessInv, TaskStep
    PROVE  ProcessInv'
PROOF
  <1> USE DEF Resumes, Await, control, synthesis
  <1>1. ASSUME "next" \notin struck, task # "over", UNCHANGED <<strikes, adapter, cause>>,
               cause # "none" => task' \in {"gathering", "reaping"} \cup Leaving,
               children' \subseteq processes' \cup BeingSpawned',
               cause # "none" => children' \subseteq children /\ BeingSpawned' = {},
               task' = "reaping" => children' = {}
        PROVE  ProcessInv'
    <2>1. adapter # "open" => cause # "none"
      BY <1>1 DEF ProcessInv, ClosedAfterCancelling
    <2>2. cause # "none" => BeingSpawned = {}
      BY DEF ProcessInv, ClosedAfterCancelling, BeingSpawned, Leaving
    <2>3. adapter' # "open" => children' \subseteq BeingSpawned'
      BY <1>1, <2>1, <2>2 DEF ProcessInv
    <2>4. ClosedAfterCancelling'
      BY <1>1 DEF ProcessInv, ClosedAfterCancelling
    <2> QED
      BY <1>1, <2>3, <2>4 DEF ProcessInv
  <1>2. CASE Thrown \/ TimesOut
    BY <1>2, UnwindKeepsProcesses DEF Thrown, TimesOut, Answering
  \* A step that leaves the processes alone.
  <1>3. ASSUME "next" \notin struck, task # "over", UNCHANGED <<strikes, adapter, cause, synthesis>>,
               task \notin Spawning, task' \notin Spawning \cup {"reaping"},
               cause # "none" => task' \in {"gathering", "reaping"} \cup Leaving
        PROVE  ProcessInv'
    BY <1>1, <1>3 DEF ProcessInv, BeingSpawned, Spawning
  \* Where the token is looked at, and what is done when it is live.
  <1>4. ASSUME \E why \in {"cancelled", "failed"} : Unwind(why), task # "over"
        PROVE  ProcessInv'
    BY <1>4, UnwindKeepsProcesses
  <1>5. CASE Started \/ StreamOpened \/ Begun \/ Measured \/ Written \/ Completed
    <2>1. cause # "none" => task \in {"gathering", "reaping"} \cup Leaving
      BY DEF ProcessInv, ClosedAfterCancelling
    <2>2. cause = "none"
      BY <1>5, <2>1 DEF Started, StreamOpened, Begun, Measured, Written, Completed, Leaving
    <2>3. CASE Unwind("cancelled")
      BY <1>4, <1>5, <2>3 DEF Started, StreamOpened, Begun, Measured, Written, Completed
    <2> QED
      BY <1>3, <1>5, <2>2, <2>3
      DEF Started, StreamOpened, Begun, Measured, Written, Completed, Hands, Spawning
  <1>6. CASE Closed \/ Settled \/ Reports
    BY <1>3, <1>6 DEF Closed, Settled, Reports, Spawning, Leaving
  <1>7. CASE Detected
    <2>1. CASE \E why \in {"cancelled", "failed"} : Unwind(why)
      BY <1>4, <1>7, <2>1 DEF Detected
    <2>2. ASSUME NEW next, NEW p, Spawns(next, p),
                 <<next, p>> \in {<<"listing", "voices">>, <<"spawning", "speech">>}
          PROVE  ProcessInv'
      <3>1. cause = "none" /\ adapter = "open"
        BY <1>7, <2>2 DEF Detected, Spawns, ProcessInv, ClosedAfterCancelling, Leaving
      <3>2. children' = BeingSpawned'
        BY <2>2 DEF Spawns, BeingSpawned
      <3> QED
        BY <1>1, <1>7, <2>2, <3>1, <3>2 DEF Detected, Spawns
    <2> QED
      BY <1>7, <2>1, <2>2 DEF Detected
  <1>8. CASE Spawned("listing", "voices") \/ Spawned("spawning", "speech")
    <2>1. cause = "none" /\ BeingSpawned \subseteq processes'
      BY <1>8 DEF Spawned, BeingSpawned, ProcessInv, ClosedAfterCancelling, Leaving
    <2>2. children' \subseteq processes'
      BY <1>8, <2>1 DEF Spawned, ProcessInv
    <2> QED
      BY <1>1, <1>8, <2>1, <2>2 DEF Spawned
  <1>9. CASE Listed
    <2>1. CASE turnToken = "cancelled"
      BY <1>4, <1>9, <2>1 DEF Listed
    <2>2. CASE turnToken # "cancelled"
      <3>1. cause = "none" /\ children' = BeingSpawned'
        BY <1>9, <2>2 DEF Listed, BeingSpawned, ProcessInv, ClosedAfterCancelling, Leaving
      <3> QED
        BY <1>1, <1>9, <2>2, <3>1 DEF Listed
    <2> QED
      BY <2>1, <2>2
  <1>10. CASE Synthesized
    <2>1. cause = "none"
      BY <1>10 DEF Synthesized, ProcessInv, ClosedAfterCancelling, Leaving
    <2> QED
      BY <1>1, <1>10, <2>1 DEF Synthesized, Registered
  <1>11. ASSUME Discards, "next" \notin struck, task \in {"gathering", "reaping"}, children = {}
         PROVE  ProcessInv'
    BY <1>1, <1>11 DEF Discards, BeingSpawned, Leaving
  <1>12. CASE Gathered
    <2>1. CASE children = {}
      BY <1>11, <1>12, <2>1 DEF Gathered
    <2>2. CASE children # {}
      BY <1>1, <1>12, <2>2 DEF Gathered, BeingSpawned
    <2> QED
      BY <2>1, <2>2
  <1>13. CASE Reaped
    BY <1>11, <1>13 DEF Reaped, ProcessInv
  <1> QED
    BY <1>2, <1>5, <1>6, <1>7, <1>8, <1>9, <1>10, <1>12, <1>13 DEF TaskStep

\* Whoever closes the adapter, or cancels the task, leaves no process behind.
LEMMA StepKeepsProcesses ==
    ASSUME ProcessInv, [OutputNext]_outputVars
    PROVE  ProcessInv'
PROOF
  <1> USE DEF control, synthesis, machine
  <1>1. CASE TaskStep
    BY <1>1, TaskKeepsProcesses
  <1>2. CASE ResponseFails
    BY <1>2, UnwindKeepsProcesses DEF ResponseFails, Resumes, Spawning, Answering
  <1>3. CASE CancelTask
    BY <1>3 DEF CancelTask, ProcessInv, ClosedAfterCancelling, BeingSpawned
  <1>4. CASE CloseAdapter
    BY <1>4 DEF CloseAdapter, ProcessInv, ClosedAfterCancelling, BeingSpawned
  <1>5. CASE AdapterCloses
    BY <1>5 DEF AdapterCloses, ProcessInv, ClosedAfterCancelling, BeingSpawned
  <1>6. ASSUME UNCHANGED <<task, cause, strikes, adapter, processes>>,
               children' \subseteq children, struck \subseteq struck'
        PROVE  ProcessInv'
    BY <1>6 DEF ProcessInv, ClosedAfterCancelling, BeingSpawned
  <1>7. CASE Exits \/ Arrives \/ WriteEnds
    BY <1>6, <1>7 DEF Exits, Arrives, WriteEnds
  <1>8. CASE \E op \in DeviceAwaits : ThreadEnds(op)
    BY <1>6, <1>8 DEF ThreadEnds
  <1>9. CASE Mute \/ Stop
    <2>1. struck \subseteq struck'
      BY <1>9 DEF Mute, Stop, CancelResponseToken, Strike
    <2> QED
      BY <1>6, <1>9, <2>1 DEF Mute, Stop
  <1>10. CASE UNCHANGED outputVars
    BY <1>6, <1>10 DEF outputVars
  <1> QED
    BY <1>1, <1>2, <1>3, <1>4, <1>5, <1>7, <1>8, <1>9, <1>10 DEF OutputNext

\* NoProcessIsLost: a TTS process that runs is in _processes or being spawned, and once
\* the adapter is closed and the task is over none runs, however often the task is
\* cancelled, and wherever it then is (list_voices, _synthesize_wave, aclose and close).
THEOREM ProcessesAreEnded == OutputSpec => []NoProcessIsLost
PROOF
  <1>1. OutputInit => ProcessInv
    BY DEF OutputInit, ProcessInv, ClosedAfterCancelling, BeingSpawned
  <1>2. ProcessInv => NoProcessIsLost
    BY DEF ProcessInv, NoProcessIsLost, BeingSpawned
  <1>3. ProcessInv /\ [OutputNext]_outputVars => ProcessInv'
    BY StepKeepsProcesses
  <1> QED
    BY <1>1, <1>2, <1>3, PTL DEF OutputSpec
=============================================================================
