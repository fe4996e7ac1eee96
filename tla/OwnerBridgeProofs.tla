-------------------------- MODULE OwnerBridgeProofs --------------------------
(***************************************************************************)
(* The event bus and the bridge that is built on it, for any number of     *)
(* publishers, subscriptions, action slots, commands and queue places.     *)
(* The bus: nobody waits for what is already there, and what it does with  *)
(* durable events is what ReliableBroadcast promises.  The bridge: what a  *)
(* connection repeats starts nothing again (the history is bounded, the    *)
(* sequence is not), a request that is repeated on the next connection     *)
(* runs beside its old action only once that is cancelled and unlisted,    *)
(* and a connection that is gone holds nothing.                            *)
(***************************************************************************)
EXTENDS OwnerBridge, SelectionProofs

-----------------------------------------------------------------------------
(* The event bus. *)

\* What the types say of one subscription and one publisher.
LEMMA BusShapes ==
    ASSUME BusTypeInv
    PROVE  /\ \A s \in Subscribers : /\ queue[s] \in Seq(Event) /\ received[s] \in Seq(Event)
                                     /\ Len(queue[s]) \in Nat
                                     /\ DOMAIN queue[s] = 1 .. Len(queue[s])
                                     /\ DOMAIN received[s] = 1 .. Len(received[s])
                                     /\ TakenBy(s) \subseteq Event
           /\ \A p \in Publishers : /\ todo[p] \subseteq Subscribers
                                    /\ current[p] \in Event \cup {NoEvent}
           /\ \A e \in Event : e # NoEvent /\ e.number \in Nat
PROOF
  <1>1. \A s \in Subscribers : /\ queue[s] \in Seq(Event) /\ received[s] \in Seq(Event)
    BY DEF BusTypeInv
  <1>2. \A s \in Subscribers : /\ Len(queue[s]) \in Nat
                               /\ DOMAIN queue[s] = 1 .. Len(queue[s])
                               /\ DOMAIN received[s] = 1 .. Len(received[s])
    BY <1>1, LenProperties
  <1>4. \A s \in Subscribers : TakenBy(s) \subseteq Event
    BY <1>1, ElementOfSeq DEF TakenBy, ToSet
  <1>3. \A e \in Event : e # NoEvent /\ e.number \in Nat
    BY BusAssumption DEF Event, NoEvent
  <1> QED
    BY <1>1, <1>2, <1>3, <1>4 DEF BusTypeInv

LEMMA BusStarts == BusInit => BusInv
PROOF
  <1> SUFFICES ASSUME BusInit PROVE BusInv
    OBVIOUS
  <1>1. <<>> \in Seq(Event) /\ DOMAIN <<>> = {}
    BY EmptySeq
  <1>2. BusTypeInv
    <2>1. /\ queue \in [Subscribers -> Seq(Event)] /\ received \in [Subscribers -> Seq(Event)]
          /\ todo \in [Publishers -> SUBSET Subscribers]
          /\ current \in [Publishers -> Event \cup {NoEvent}]
      BY <1>1 DEF BusInit
    <2>2. sent \in 0 .. MaxEvents
      BY BusAssumption DEF BusInit
    <2> QED
      BY <2>1, <2>2 DEF BusInit, BusTypeInv
  <1>3. NobodyWaitsInVain /\ PublishersAreSound
    BY BusAssumption DEF BusInit, NobodyWaitsInVain, PublishersAreSound, Idle
  <1>4. NumbersGrow
    BY <1>1 DEF BusInit, NumbersGrow, TakenBy, ToSet
  <1> QED
    BY <1>2, <1>3, <1>4 DEF BusInv

\* What a lossy event displaces, and what a durable one does.
LEMMA Displaced ==
    ASSUME NEW q \in Seq(Event), NEW i \in 1 .. Len(q)
    PROVE  /\ RemoveAt(q, i) \in Seq(Event)
           /\ \A k \in DOMAIN RemoveAt(q, i) : \E j \in DOMAIN q : RemoveAt(q, i)[k] = q[j]
           /\ IsLossy(q[i]) => Durable(RemoveAt(q, i)) = Durable(q)
PROOF
  <1>1. /\ RemoveAt(q, i) \in Seq(Event) /\ Len(RemoveAt(q, i)) = Len(q) - 1
        /\ \A k \in 1 .. Len(q) - 1 : RemoveAt(q, i)[k] = IF k < i THEN q[k] ELSE q[k + 1]
    BY RemoveAtProperties
  <1>2. /\ DOMAIN RemoveAt(q, i) = 1 .. Len(q) - 1 /\ DOMAIN q = 1 .. Len(q) /\ Len(q) \in Nat
    BY <1>1, LenProperties
  <1>3. ASSUME NEW k \in DOMAIN RemoveAt(q, i)
        PROVE  \E j \in DOMAIN q : RemoveAt(q, i)[k] = q[j]
    <2>1. k \in DOMAIN q /\ k + 1 \in DOMAIN q
      BY <1>2
    <2> QED
      BY <1>1, <1>2, <2>1
  <1>4. ASSUME IsLossy(q[i])
        PROVE  Durable(RemoveAt(q, i)) = Durable(q)
    <2>1. q[i] \notin [type : DurableTypes, from : Publishers, number : 0 .. MaxEvents]
      BY <1>4, BusAssumption DEF IsLossy
    <2> QED
      BY <2>1, OnlyOfRemove DEF Durable
  <1> QED
    BY <1>1, <1>3, <1>4

\* The least and the greatest of some places of a queue.
LEMMA PlaceOfExtremes ==
    ASSUME NEW n \in Nat, NEW I \in SUBSET (1 .. n), I # {}
    PROVE  /\ (CHOOSE i \in I : \A j \in I : j <= i) \in I
           /\ (CHOOSE i \in I : \A j \in I : i <= j) \in I
PROOF
  <1>1. /\ Cardinality(I) \in Nat
        /\ \A k \in 1 .. Cardinality(I) : Place(I, k) \in I
        /\ \A i \in I : \E k \in 1 .. Cardinality(I) : Place(I, k) = i
        /\ \A k, m \in 1 .. Cardinality(I) : k < m <=> Place(I, k) < Place(I, m)
    BY PlacesAreNumbered
  <1> DEFINE c == Cardinality(I)
  <1>2. 1 \in 1 .. c /\ c \in 1 .. c
    <2>1. PICK i \in I : TRUE
      OBVIOUS
    <2>2. PICK k \in 1 .. c : Place(I, k) = i
      BY <1>1, <2>1
    <2> QED
      BY <1>1, <2>2
  <1>3. \A i \in I : Place(I, 1) <= i /\ i <= Place(I, Cardinality(I))
    <2> TAKE i \in I
    <2>1. PICK k \in 1 .. Cardinality(I) : Place(I, k) = i
      BY <1>1
    <2>2. Place(I, 1) \in Nat /\ Place(I, c) \in Nat /\ i \in Nat
      <3>1. Place(I, 1) \in I /\ Place(I, c) \in I
        BY <1>1, <1>2
      <3>2. I \subseteq Nat
        OBVIOUS
      <3> QED
        BY <3>1, <3>2
    <2>3. (1 = k \/ 1 < k) /\ (k = c \/ k < c)
      BY <1>1
    <2>4. /\ 1 < k => Place(I, 1) < Place(I, k)
          /\ k < c => Place(I, k) < Place(I, c)
      BY <1>1, <1>2
    <2> QED
      BY <2>1, <2>2, <2>3, <2>4
  <1> QED
    BY <1>1, <1>2, <1>3

LEMMA LossyReplaces ==
    ASSUME NEW q \in Seq(Event), NEW e \in Event, IsLossy(e)
    PROVE  /\ WithoutSameType(q, e) \in Seq(Event)
           /\ \A k \in DOMAIN WithoutSameType(q, e) :
                 \E j \in DOMAIN q : WithoutSameType(q, e)[k] = q[j]
           /\ Durable(WithoutSameType(q, e)) = Durable(q)
PROOF
  <1> DEFINE same == {i \in DOMAIN q : q[i].type = e.type}
  <1>1. CASE same = {}
    BY <1>1 DEF WithoutSameType
  <1>2. CASE same # {}
    <2> DEFINE i == CHOOSE i \in same : \A j \in same : j <= i
    <2>1. Len(q) \in Nat /\ same \in SUBSET (1 .. Len(q)) /\ DOMAIN q = 1 .. Len(q)
      BY LenProperties
    <2>2. WithoutSameType(q, e) = RemoveAt(q, i)
      BY <1>2 DEF WithoutSameType
    <2>3. i \in same
      <3> HIDE DEF same
      <3> QED
        BY <1>2, <2>1, PlaceOfExtremes
    <2> HIDE DEF i
    <2>4. i \in 1 .. Len(q) /\ IsLossy(q[i])
      BY <2>1, <2>3 DEF IsLossy
    <2> QED
      BY <2>2, <2>4, Displaced
  <1> QED
    BY <1>1, <1>2

LEMMA DurablePushesOut ==
    ASSUME NEW q \in Seq(Event), \E i \in DOMAIN q : IsLossy(q[i])
    PROVE  /\ WithoutLossy(q) \in Seq(Event)
           /\ \A k \in DOMAIN WithoutLossy(q) : \E j \in DOMAIN q : WithoutLossy(q)[k] = q[j]
           /\ Durable(WithoutLossy(q)) = Durable(q)
PROOF
  <1> DEFINE lossy == {i \in DOMAIN q : IsLossy(q[i])}
             i == CHOOSE i \in lossy : \A j \in lossy : i <= j
  <1>1. /\ Len(q) \in Nat /\ lossy \in SUBSET (1 .. Len(q)) /\ DOMAIN q = 1 .. Len(q)
        /\ lossy # {}
    BY LenProperties
  <1>2. WithoutLossy(q) = RemoveAt(q, i)
    BY DEF WithoutLossy
  <1>3. i \in lossy
    <2> HIDE DEF lossy
    <2> QED
      BY <1>1, PlaceOfExtremes
  <1> HIDE DEF i
  <1>4. i \in 1 .. Len(q) /\ IsLossy(q[i])
    BY <1>1, <1>3
  <1> QED
    BY <1>2, <1>4, Displaced

-----------------------------------------------------------------------------
(* Every step of the bus keeps its invariant. *)

LEMMA CloseKeeps ==
    ASSUME BusInv, running = "none", NEW ss \in SUBSET made, MarkClosed(ss),
           busClosed' \in BOOLEAN
    PROVE  BusInv'
PROOF
  <1>1. BusTypeInv'
    BY DEF BusInv, BusTypeInv, MarkClosed, NotifyAll
  <1>2. NobodyWaitsInVain'
    BY DEF BusInv, NobodyWaitsInVain, MarkClosed, NotifyAll, Subscribed, Full, HoldsLossy
  <1>3. PublishersAreSound'
    BY DEF BusInv, PublishersAreSound, MarkClosed, NotifyAll, Idle, IsWaiting
  <1>4. Recording => NumbersGrow'
    BY DEF BusInv, NumbersGrow, TakenBy, MarkClosed, Idle
  <1> QED
    BY <1>1, <1>2, <1>3, <1>4 DEF BusInv, Recording

LEMMA SubscribeKeeps ==
    ASSUME BusInv, NEW s \in Subscribers, Subscribe(s)
    PROVE  BusInv'
PROOF
  <1>1. BusTypeInv'
    BY DEF BusInv, BusTypeInv, Subscribe
  <1>2. NobodyWaitsInVain'
    BY DEF BusInv, NobodyWaitsInVain, Subscribe, Subscribed, Full, HoldsLossy
  <1>3. PublishersAreSound'
    BY DEF BusInv, PublishersAreSound, Subscribe, Idle, IsWaiting
  <1>4. Recording => NumbersGrow'
    BY DEF BusInv, NumbersGrow, TakenBy, Subscribe, Idle
  <1> QED
    BY <1>1, <1>2, <1>3, <1>4 DEF BusInv, Recording

\* Cancelled publishers and readers wait for nothing any more.
LEMMA AbandonKeeps ==
    ASSUME BusInv, running = "none", NEW ps \in SUBSET Publishers, NEW readers,
           Abandon(ps, readers)
    PROVE  BusInv'
PROOF
  <1>1. BusTypeInv'
    <2>1. current' \in [Publishers -> Event \cup {NoEvent}] /\ todo' \in [Publishers -> SUBSET Subscribers]
      BY DEF BusInv, BusTypeInv, Abandon
    <2>2. cancelled' \subseteq Event
      BY DEF BusInv, BusTypeInv, Abandon, Idle
    <2> QED
      BY <2>1, <2>2 DEF BusInv, BusTypeInv, Abandon
  <1>2. NobodyWaitsInVain'
    BY DEF BusInv, BusTypeInv, NobodyWaitsInVain, Abandon, Subscribed, Full, HoldsLossy
  <1>3. PublishersAreSound'
    BY BusAssumption DEF BusInv, BusTypeInv, PublishersAreSound, Abandon, Idle, IsWaiting
  <1>4. Recording => NumbersGrow'
    BY DEF BusInv, BusTypeInv, NumbersGrow, TakenBy, Abandon, Idle
  <1> QED
    BY <1>1, <1>2, <1>3, <1>4 DEF BusInv, Recording

LEMMA PublishKeeps ==
    ASSUME BusInv, NEW p \in Publishers, NEW type \in LossyTypes \cup DurableTypes,
           Publish(p, type)
    PROVE  BusInv'
PROOF
  <1>1. sent' \in 0 .. MaxEvents /\ sent \in Nat /\ sent' >= sent
    BY BusAssumption DEF BusInv, BusTypeInv, Publish, Recording
  <1>2. CASE Subscribed = {}
    <2>1. BusTypeInv'
      BY <1>1, <1>2 DEF BusInv, BusTypeInv, Publish
    <2>2. NobodyWaitsInVain'
      BY <1>2 DEF BusInv, NobodyWaitsInVain, Publish, Subscribed, Full, HoldsLossy
    <2>3. PublishersAreSound'
      BY <1>1, <1>2, BusShapes DEF BusInv, BusTypeInv, PublishersAreSound, Publish, Idle, IsWaiting
    <2>4. Recording => NumbersGrow'
      BY <1>1, <1>2, BusShapes DEF BusInv, NumbersGrow, TakenBy, Publish, Idle
    <2> QED
      BY <2>1, <2>2, <2>3, <2>4 DEF BusInv, Recording
  <1>3. CASE Subscribed # {}
    <2> DEFINE e == [type |-> type, from |-> p, number |-> sent']
    <2>1. e \in Event /\ e.from = p /\ e.number = sent' /\ e # NoEvent
      BY <1>1, BusShapes DEF BusInv, Event
    <2>2. /\ todo' = [todo EXCEPT ![p] = Subscribed] /\ current' = [current EXCEPT ![p] = e]
          /\ running' = p /\ running = "none" /\ current[p] = NoEvent
          /\ UNCHANGED <<busClosed, made, closed, queue, received, waiting, cancelled>>
      BY <1>3 DEF Publish, Idle
    <2> HIDE DEF e
    <2>3. BusTypeInv'
      BY <1>1, <2>1, <2>2 DEF BusInv, BusTypeInv, Subscribed
    <2>4. ~IsWaiting(p) /\ todo[p] = {}
      BY <2>2, BusAssumption DEF BusInv, NobodyWaitsInVain, PublishersAreSound, Idle, IsWaiting
    <2>5. NobodyWaitsInVain'
      BY <2>2, <2>4, BusAssumption
      DEF BusInv, BusTypeInv, NobodyWaitsInVain, Subscribed, Full, HoldsLossy, IsWaiting
    <2>6. PublishersAreSound'
      <3> SUFFICES ASSUME NEW r \in Publishers
                   PROVE  /\ todo'[r] \subseteq made'
                          /\ Idle(r)' => todo'[r] = {} /\ running' # r
                          /\ ~Idle(r)' => current'[r].from = r /\ current'[r].number <= sent'
                          /\ ~Idle(r)' /\ Recording => current'[r].number > 0
                          /\ ~Idle(r)' /\ IsLossy(current[r])' => running' = r
                          /\ running' = r => ~IsWaiting(r)'
        BY DEF PublishersAreSound
      <3>1. CASE r = p
        <4>1. current'[p] = e /\ todo'[p] = Subscribed /\ running' = p /\ ~IsWaiting(p)'
          BY <2>2, <2>4 DEF BusInv, BusTypeInv, IsWaiting
        <4>2. Recording => sent' > 0
          BY <1>1 DEF Publish, Recording
        <4> QED
          BY <1>1, <2>1, <2>2, <3>1, <4>1, <4>2 DEF Idle, Subscribed
      <3>2. CASE r # p
        <4>1. current'[r] = current[r] /\ todo'[r] = todo[r] /\ running # r /\ running' # r
          BY <2>2, <3>2, BusAssumption DEF BusInv, BusTypeInv
        <4>2. current[r] # NoEvent => current[r].number \in Nat
          BY BusShapes DEF BusInv
        <4> QED
          BY <1>1, <2>2, <4>1, <4>2 DEF BusInv, PublishersAreSound, Idle
      <3> QED
        BY <3>1, <3>2
    <2>7. Recording => NumbersGrow'
      BY <1>1, <2>1, <2>2, BusShapes DEF BusInv, BusTypeInv, NumbersGrow, TakenBy, Idle, Publish
    <2> QED
      BY <2>3, <2>5, <2>6, <2>7 DEF BusInv, Recording
  <1> QED
    BY <1>2, <1>3

LEMMA ResumeKeeps ==
    ASSUME BusInv, NEW p \in Publishers, Resume(p)
    PROVE  BusInv'
PROOF
  <1>1. BusTypeInv'
    BY DEF BusInv, BusTypeInv, Resume
  <1>2. NobodyWaitsInVain'
    BY DEF BusInv, NobodyWaitsInVain, Resume, Subscribed, Full, HoldsLossy
  <1>3. PublishersAreSound'
    BY BusAssumption DEF BusInv, PublishersAreSound, Resume, Idle, IsWaiting
  <1>4. Recording => NumbersGrow'
    BY DEF BusInv, NumbersGrow, TakenBy, Resume, Idle
  <1> QED
    BY <1>1, <1>2, <1>3, <1>4 DEF BusInv, Recording

LEMMA WaitForEventKeeps ==
    ASSUME BusInv, NEW s \in Subscribers, WaitForEvent(s)
    PROVE  BusInv'
PROOF
  <1>1. BusTypeInv'
    BY DEF BusInv, BusTypeInv, WaitForEvent
  <1>2. NobodyWaitsInVain'
    BY DEF BusInv, NobodyWaitsInVain, WaitForEvent, Subscribed, Full, HoldsLossy
  <1>3. PublishersAreSound'
    BY BusAssumption DEF BusInv, PublishersAreSound, WaitForEvent, Idle, IsWaiting
  <1>4. Recording => NumbersGrow'
    BY DEF BusInv, NumbersGrow, TakenBy, WaitForEvent, Idle
  <1> QED
    BY <1>1, <1>2, <1>3, <1>4 DEF BusInv, Recording

LEMMA ConcatMembers ==
    ASSUME NEW S, NEW a \in Seq(S), NEW b \in Seq(S)
    PROVE  ToSet(a \o b) = ToSet(a) \cup ToSet(b)
PROOF
  <1>1. /\ a \o b \in Seq(S) /\ Len(a \o b) = Len(a) + Len(b)
        /\ \A i \in 1 .. Len(a) + Len(b) :
              (a \o b)[i] = IF i <= Len(a) THEN a[i] ELSE b[i - Len(a)]
    BY ConcatProperties
  <1>2. /\ Len(a) \in Nat /\ Len(b) \in Nat
        /\ DOMAIN a = 1 .. Len(a) /\ DOMAIN b = 1 .. Len(b)
        /\ DOMAIN (a \o b) = 1 .. Len(a) + Len(b)
    BY <1>1, LenProperties
  <1>3. \A i \in 1 .. Len(a) : i \in 1 .. Len(a) + Len(b) /\ (a \o b)[i] = a[i]
    BY <1>1, <1>2
  <1>4. \A i \in 1 .. Len(b) : /\ i + Len(a) \in 1 .. Len(a) + Len(b)
                               /\ (a \o b)[i + Len(a)] = b[i]
    BY <1>1, <1>2
  <1>5. \A i \in 1 .. Len(a) + Len(b) :
           \/ i \in 1 .. Len(a)
           \/ i - Len(a) \in 1 .. Len(b) /\ (a \o b)[i] = b[i - Len(a)]
    BY <1>1, <1>2
  <1> DEFINE c == a \o b
  <1>6. ToSet(a) \subseteq ToSet(c) /\ ToSet(b) \subseteq ToSet(c)
    BY <1>2, <1>3, <1>4 DEF ToSet
  <1>7. ToSet(c) \subseteq ToSet(a) \cup ToSet(b)
    BY <1>2, <1>3, <1>5 DEF ToSet
  <1> QED
    BY <1>6, <1>7

LEMMA TailMembers ==
    ASSUME NEW S, NEW a \in Seq(S), a # <<>>
    PROVE  Tail(a) \in Seq(S) /\ ToSet(Tail(a)) \subseteq ToSet(a)
PROOF
  <1>1. /\ Tail(a) \in Seq(S) /\ Len(Tail(a)) = Len(a) - 1
        /\ \A i \in 1 .. Len(Tail(a)) : Tail(a)[i] = a[i + 1]
    BY HeadTailProperties
  <1>2. Len(a) \in Nat /\ DOMAIN a = 1 .. Len(a) /\ DOMAIN Tail(a) = 1 .. Len(a) - 1
    BY <1>1, LenProperties
  <1>3. \A i \in 1 .. Len(a) - 1 : i + 1 \in 1 .. Len(a)
    BY <1>2
  <1> QED
    BY <1>1, <1>2, <1>3 DEF ToSet

LEMMA AppendMembers ==
    ASSUME NEW S, NEW a \in Seq(S), NEW e \in S
    PROVE  Append(a, e) \in Seq(S) /\ ToSet(Append(a, e)) \subseteq ToSet(a) \cup {e}
PROOF
  <1>1. /\ Append(a, e) \in Seq(S) /\ Len(Append(a, e)) = Len(a) + 1
        /\ \A i \in 1 .. Len(a) : Append(a, e)[i] = a[i]
        /\ Append(a, e)[Len(a) + 1] = e
    BY AppendProperties
  <1>2. Len(a) \in Nat /\ DOMAIN a = 1 .. Len(a) /\ DOMAIN Append(a, e) = 1 .. Len(a) + 1
    BY <1>1, LenProperties
  <1>3. \A i \in 1 .. Len(a) + 1 : i \in 1 .. Len(a) \/ i = Len(a) + 1
    BY <1>2
  <1> QED
    BY <1>1, <1>2, <1>3 DEF ToSet

LEMMA GetKeeps ==
    ASSUME BusInv, NEW s \in Subscribers, Get(s)
    PROVE  BusInv'
PROOF
  <1> DEFINE h == Head(queue[s])
  <1>1. /\ queue[s] \in Seq(Event) /\ received[s] \in Seq(Event) /\ queue[s] # <<>>
        /\ h \in Event /\ Tail(queue[s]) \in Seq(Event)
        /\ Durable(<<h>>) \in Seq(Event)
        /\ ToSet(Durable(<<h>>)) \subseteq {h}
        /\ ToSet(Tail(queue[s])) \subseteq ToSet(queue[s]) /\ h \in ToSet(queue[s])
    <2>1. /\ queue[s] \in Seq(Event) /\ received[s] \in Seq(Event) /\ queue[s] # <<>>
          /\ DOMAIN queue[s] = 1 .. Len(queue[s]) /\ Len(queue[s]) \in Nat
      BY BusShapes DEF BusInv, Get
    <2>2. /\ Tail(queue[s]) \in Seq(Event) /\ Len(Tail(queue[s])) = Len(queue[s]) - 1
          /\ \A i \in 1 .. Len(Tail(queue[s])) : Tail(queue[s])[i] = queue[s][i + 1]
          /\ h \in Event /\ h = queue[s][1] /\ Len(queue[s]) >= 1
      BY <2>1, HeadTailProperties, EmptySeq
    <2>3. ToSet(Tail(queue[s])) \subseteq ToSet(queue[s]) /\ h \in ToSet(queue[s])
      <3>1. DOMAIN Tail(queue[s]) = 1 .. Len(queue[s]) - 1
        BY <2>2, LenProperties
      <3>2. \A i \in 1 .. Len(queue[s]) - 1 : i + 1 \in 1 .. Len(queue[s])
        BY <2>1
      <3>3. 1 \in 1 .. Len(queue[s])
        BY <2>1, <2>2
      <3> HIDE DEF h
      <3> QED
        BY <2>1, <2>2, <3>1, <3>2, <3>3 DEF ToSet
    <2>4. Durable(<<h>>) = <<h>> \/ Durable(<<h>>) = <<>>
      BY OnlyOfOne DEF Durable
    <2>5. /\ <<h>> \in Seq(Event) /\ ToSet(<<h>>) = {h}
          /\ <<>> \in Seq(Event) /\ ToSet(<<>>) = {}
      BY <2>2, EmptySeq DEF ToSet
    <2> QED
      BY <2>1, <2>2, <2>3, <2>4, <2>5
  <1>2. /\ queue' = [queue EXCEPT ![s] = Tail(queue[s])]
        /\ waiting' = NotifyAll({s}) /\ running = "none"
        /\ \/ received' = received
           \/ received' = [received EXCEPT ![s] = received[s] \o Durable(<<h>>)]
        /\ UNCHANGED <<busClosed, made, closed, running, todo, current, sent, cancelled>>
    BY DEF Get
  <1> HIDE DEF h
  <1>3. BusTypeInv'
    <2>1. received[s] \o Durable(<<h>>) \in Seq(Event)
      BY <1>1, ConcatProperties
    <2>2. received' \in [Subscribers -> Seq(Event)]
      BY <1>2, <2>1 DEF BusInv, BusTypeInv
    <2> QED
      BY <1>1, <1>2, <2>2 DEF BusInv, BusTypeInv, NotifyAll
  <1>4. NobodyWaitsInVain'
    BY <1>1, <1>2 DEF BusInv, BusTypeInv, NobodyWaitsInVain, NotifyAll, Subscribed, Full, HoldsLossy
  <1>5. PublishersAreSound'
    BY <1>2, BusAssumption DEF BusInv, PublishersAreSound, NotifyAll, Idle, IsWaiting
  <1>6. Recording => NumbersGrow'
    <2>1. \A t \in Subscribers : TakenBy(t)' \subseteq TakenBy(t)
      <3>1. ToSet(received[s] \o Durable(<<h>>)) \subseteq ToSet(received[s]) \cup {h}
        <4>1. \A a, b \in Seq(Event) : ToSet(a \o b) = ToSet(a) \cup ToSet(b)
          BY ConcatMembers
        <4>2. ToSet(received[s] \o Durable(<<h>>))
                 = ToSet(received[s]) \cup ToSet(Durable(<<h>>))
          BY <1>1, <4>1
        <4> QED
          BY <1>1, <4>2
      <3>2. \A t \in Subscribers : t # s => queue'[t] = queue[t] /\ received'[t] = received[t]
        BY <1>2 DEF BusInv, BusTypeInv
      <3>3. /\ queue'[s] = Tail(queue[s])
            /\ received'[s] = received[s] \/ received'[s] = received[s] \o Durable(<<h>>)
        BY <1>2 DEF BusInv, BusTypeInv
      <3> QED
        BY <1>1, <3>1, <3>2, <3>3 DEF TakenBy
    <2> QED
      BY <1>2, <2>1 DEF BusInv, NumbersGrow, Idle
  <1> QED
    BY <1>3, <1>4, <1>5, <1>6 DEF BusInv, Recording

\* One subscription is served, and its queue grows by the event or stays as it
\* is: what else the queue loses does not matter here.
ServedWith(p, s, q) ==
    /\ queue' = [queue EXCEPT ![s] = q] /\ waiting' = NotifyAll({s})
    /\ q \in Seq(Event) /\ ToSet(q) \subseteq ToSet(queue[s]) \cup {current[p]}

LEMMA ServedKeeps ==
    ASSUME BusInv, NEW p \in Publishers, NEW s \in Subscribers,
           running = p, s \in todo[p], Served(p, s),
           \/ UNCHANGED <<queue, waiting>>
           \/ \E q : ServedWith(p, s, q),
           UNCHANGED <<busClosed, made, closed, received, sent, cancelled>>
    PROVE  BusInv'
PROOF
  <1>1. /\ \A r \in Publishers : r # p => todo'[r] = todo[r] /\ current'[r] = current[r]
        /\ todo'[p] = todo[p] \ {s}
        /\ current'[p] = IF todo[p] = {s} THEN NoEvent ELSE current[p]
        /\ running' = IF todo[p] = {s} THEN "none" ELSE p
        /\ todo' \in [Publishers -> SUBSET Subscribers]
        /\ current' \in [Publishers -> Event \cup {NoEvent}]
    BY DEF BusInv, BusTypeInv, Served
  <1>2. /\ \A t \in Subscribers : t # s => queue'[t] = queue[t]
        /\ ToSet(queue'[s]) \subseteq ToSet(queue[s]) \cup {current[p]}
        /\ queue' \in [Subscribers -> Seq(Event)]
        /\ waiting' \subseteq waiting
        /\ \A w \in waiting' : queue'[w[2]] = queue[w[2]]
    <2>1. queue \in [Subscribers -> Seq(Event)] /\ waiting \subseteq waiting
      BY DEF BusInv, BusTypeInv
    <2>2. CASE UNCHANGED <<queue, waiting>>
      BY <2>1, <2>2
    <2>3. ASSUME NEW q, ServedWith(p, s, q)
          PROVE  /\ \A t \in Subscribers : t # s => queue'[t] = queue[t]
                 /\ ToSet(queue'[s]) \subseteq ToSet(queue[s]) \cup {current[p]}
                 /\ queue' \in [Subscribers -> Seq(Event)]
                 /\ waiting' \subseteq waiting
                 /\ \A w \in waiting' : queue'[w[2]] = queue[w[2]]
      <3>1. waiting \subseteq (Publishers \cup {"reader"}) \X Subscribers
        BY DEF BusInv, BusTypeInv
      <3>2. queue' \in [Subscribers -> Seq(Event)] /\ queue'[s] = q
        BY <2>1, <2>3 DEF ServedWith
      <3>3. \A t \in Subscribers : t # s => queue'[t] = queue[t]
        BY <2>1, <2>3 DEF ServedWith
      <3>4. waiting' \subseteq waiting /\ \A w \in waiting' : w[2] \in Subscribers /\ w[2] # s
        BY <2>3, <3>1 DEF ServedWith, NotifyAll
      <3> QED
        BY <2>3, <3>2, <3>3, <3>4 DEF ServedWith
    <2> QED
      BY <2>2, <2>3
  <1>3. ~Idle(p) /\ ~IsWaiting(p) /\ p # "none"
    BY BusAssumption DEF BusInv, PublishersAreSound
  <1>4. BusTypeInv'
    BY <1>1, <1>2 DEF BusInv, BusTypeInv
  <1>5. NobodyWaitsInVain'
    BY <1>1, <1>2, <1>3
    DEF BusInv, BusTypeInv, NobodyWaitsInVain, IsWaiting, Subscribed, Full, HoldsLossy
  <1>6. PublishersAreSound'
    <2> SUFFICES ASSUME NEW r \in Publishers
                 PROVE  /\ todo'[r] \subseteq made'
                        /\ Idle(r)' => todo'[r] = {} /\ running' # r
                        /\ ~Idle(r)' => current'[r].from = r /\ current'[r].number <= sent'
                        /\ ~Idle(r)' /\ Recording => current'[r].number > 0
                        /\ ~Idle(r)' /\ IsLossy(current[r])' => running' = r
                        /\ running' = r => ~IsWaiting(r)'
      BY DEF PublishersAreSound
    <2>1. ~IsWaiting(r) => ~IsWaiting(r)'
      BY <1>2 DEF IsWaiting
    <2>2. r # "none"
      BY BusAssumption
    <2> QED
      BY <1>1, <1>3, <2>1, <2>2 DEF BusInv, PublishersAreSound, Idle
  <1>7. Recording => NumbersGrow'
    <2> SUFFICES ASSUME Recording, NEW t \in Subscribers, NEW e \in TakenBy(t)'
                 PROVE  /\ t \in made
                        /\ e.number <= sent
                        /\ \A r \in Publishers : ~Idle(r)' /\ t \in todo'[r] /\ e.from = r =>
                              e.number < current'[r].number
      BY DEF NumbersGrow, Recording
    <2>1. \A r \in Publishers : /\ ~Idle(r)' => ~Idle(r) /\ current'[r] = current[r]
                                /\ todo'[r] \subseteq todo[r]
      BY <1>1 DEF Idle
    <2>2. CASE e \in TakenBy(t)
      BY <2>1, <2>2 DEF BusInv, NumbersGrow
    <2>3. CASE e \notin TakenBy(t)
      <3>1. t = s /\ e = current[p]
        BY <1>2, <2>3 DEF TakenBy
      <3>2. /\ e.number <= sent /\ e.from = p /\ s \in made /\ s \notin todo'[p]
        BY <1>1, <1>3, <3>1 DEF BusInv, PublishersAreSound
      <3> QED
        BY <3>1, <3>2
    <2> QED
      BY <2>2, <2>3
  <1> QED
    BY <1>4, <1>5, <1>6, <1>7 DEF BusInv, Recording

LEMMA DeliverKeeps ==
    ASSUME BusInv, NEW p \in Publishers, NEW s \in Subscribers, Deliver(p, s)
    PROVE  BusInv'
PROOF
  <1> DEFINE e == current[p]
  <1>1. /\ queue[s] \in Seq(Event) /\ e \in Event /\ queue[s] \in Seq(Event)
    BY BusShapes DEF BusInv, PublishersAreSound, Deliver, Idle
  <1>2. ASSUME NEW q \in Seq(Event), ToSet(q) \subseteq ToSet(queue[s]), Appended(s, q, e)
        PROVE  ServedWith(p, s, Append(q, e))
    <2>1. Append(q, e) \in Seq(Event) /\ ToSet(Append(q, e)) \subseteq ToSet(q) \cup {e}
      BY <1>1, AppendMembers
    <2> QED
      BY <1>2, <2>1 DEF Appended, ServedWith
  <1>3. ASSUME NEW q \in Seq(Event),
               \A k \in DOMAIN q : \E j \in DOMAIN queue[s] : q[k] = queue[s][j]
        PROVE  ToSet(q) \subseteq ToSet(queue[s])
    BY <1>3 DEF ToSet
  <1>4. Served(p, s) \/ WaitForRoom(p, s)
    BY DEF Deliver, DeliverNothing, DeliverLossy, DeliverDurable
  <1>5. CASE WaitForRoom(p, s)
    <2>1. BusTypeInv'
      BY <1>5 DEF BusInv, BusTypeInv, WaitForRoom, Deliver
    <2>2. NobodyWaitsInVain'
      BY <1>5, BusAssumption
      DEF BusInv, NobodyWaitsInVain, WaitForRoom, Deliver, Subscribed, Full, HoldsLossy,
          BusTypeInv, PublishersAreSound
    <2>3. PublishersAreSound'
      BY <1>5, BusAssumption
      DEF BusInv, PublishersAreSound, WaitForRoom, Deliver, Idle, IsWaiting
    <2>4. Recording => NumbersGrow'
      BY <1>5 DEF BusInv, NumbersGrow, TakenBy, WaitForRoom, Deliver, Idle
    <2> QED
      BY <2>1, <2>2, <2>3, <2>4 DEF BusInv, Recording
  <1>6. CASE DeliverNothing(p, s)
    BY <1>6, ServedKeeps DEF DeliverNothing, Deliver
  <1>7. CASE DeliverLossy(p, s)
    <2> DEFINE q == WithoutSameType(queue[s], e)
    <2>1. q \in Seq(Event) /\ ToSet(q) \subseteq ToSet(queue[s])
      BY <1>1, <1>3, <1>7, LossyReplaces DEF DeliverLossy
    <2>2. UNCHANGED <<queue, waiting>> \/ Appended(s, q, e)
      BY <1>7 DEF DeliverLossy
    <2>3. UNCHANGED <<queue, waiting>> \/ ServedWith(p, s, Append(q, e))
      BY <1>2, <2>1, <2>2
    <2> HIDE DEF q
    <2> QED
      BY <1>7, <2>3, ServedKeeps DEF DeliverLossy, Deliver
  <1>8. CASE DeliverDurable(p, s)
    <2> DEFINE q == IF Full(s) THEN WithoutLossy(queue[s]) ELSE queue[s]
    <2>1. q \in Seq(Event) /\ ToSet(q) \subseteq ToSet(queue[s])
      BY <1>1, <1>3, <1>8, DurablePushesOut DEF DeliverDurable, HoldsLossy
    <2>2. Appended(s, q, e)
      BY <1>8 DEF DeliverDurable
    <2>3. ServedWith(p, s, Append(q, e))
      BY <1>2, <2>1, <2>2
    <2> HIDE DEF q
    <2> QED
      BY <1>8, <2>3, ServedKeeps DEF DeliverDurable, Deliver
  <1> QED
    BY <1>5, <1>6, <1>7, <1>8 DEF Deliver

LEMMA BusStepKeeps == BusInv /\ [BusNext]_busVars => BusInv'
PROOF
  <1> SUFFICES ASSUME BusInv, [BusNext]_busVars PROVE BusInv'
    OBVIOUS
  <1>1. CASE CloseBus
    BY <1>1, CloseKeeps DEF CloseBus, Subscribed
  <1>2. ASSUME NEW s \in Subscribers, Subscribe(s) \/ Unsubscribe(s) \/ Get(s) \/ WaitForEvent(s)
        PROVE  BusInv'
    <2>1. CASE Unsubscribe(s)
      BY <2>1, CloseKeeps DEF Unsubscribe, Subscribed, BusInv, BusTypeInv
    <2> QED
      BY <1>2, <2>1, SubscribeKeeps, GetKeeps, WaitForEventKeeps
  <1>3. ASSUME NEW p \in Publishers, NEW type \in LossyTypes \cup DurableTypes, Publish(p, type)
        PROVE  BusInv'
    BY <1>3, PublishKeeps
  <1>4. ASSUME NEW p \in Publishers, NEW s \in Subscribers, Deliver(p, s)
        PROVE  BusInv'
    BY <1>4, DeliverKeeps
  <1>5. ASSUME NEW p \in Publishers, Resume(p) \/ CancelPublish(p)
        PROVE  BusInv'
    BY <1>5, ResumeKeeps, AbandonKeeps DEF CancelPublish
  <1>6. CASE UNCHANGED busVars
    <2>1. BusTypeInv'
      BY <1>6 DEF BusInv, BusTypeInv, busVars
    <2>2. NobodyWaitsInVain'
      BY <1>6 DEF BusInv, NobodyWaitsInVain, busVars, Subscribed, Full, HoldsLossy
    <2>3. PublishersAreSound'
      BY <1>6 DEF BusInv, PublishersAreSound, busVars, Idle, IsWaiting
    <2>4. Recording => NumbersGrow'
      BY <1>6 DEF BusInv, NumbersGrow, TakenBy, busVars, Idle
    <2> QED
      BY <2>1, <2>2, <2>3, <2>4 DEF BusInv, Recording
  <1> QED
    BY <1>1, <1>2, <1>3, <1>4, <1>5, <1>6 DEF BusNext

\* Whoever waits has something to wait for, after every step of the bus: a
\* publisher a full queue without a lossy event, a reader an empty one.
THEOREM NoWakeUpIsLost == BusSpec => []NobodyWaitsInVain
PROOF
  <1>1. BusInv => NobodyWaitsInVain
    BY DEF BusInv
  <1> QED
    BY <1>1, BusStarts, BusStepKeeps, PTL DEF BusSpec
-----------------------------------------------------------------------------
(* The bus implements the safety of ReliableBroadcast. *)

\* s is to get the durable event of p.
IsOwed(p, s) == ~Idle(p) /\ ~IsLossy(current[p]) /\ s \in todo[p] \ closed

OwedIsWhole ==
    \A o : o \in Owed <=>
        \E p \in Publishers, s \in Subscribers : o = <<s, current[p]>> /\ IsOwed(p, s)

LEMMA OwedPairs == BusInv => OwedIsWhole
PROOF
  <1> SUFFICES ASSUME BusInv PROVE OwedIsWhole
    OBVIOUS
  <1>1. \A p \in Publishers : ~Idle(p) => current[p].from = p
    BY DEF BusInv, PublishersAreSound
  <1>2. ASSUME NEW o \in Owed
        PROVE  \E p \in Publishers, s \in Subscribers : o = <<s, current[p]>> /\ IsOwed(p, s)
    <2>1. PICK p \in Publishers, s \in Subscribers : o = <<s, current[p]>>
      BY <1>2 DEF Owed
    <2> QED
      BY <1>1, <1>2, <2>1 DEF Owed, IsOwed, Idle
  <1>3. ASSUME NEW p \in Publishers, NEW s \in Subscribers, IsOwed(p, s)
        PROVE  <<s, current[p]>> \in Owed
    BY <1>1, <1>3 DEF Owed, IsOwed, Idle
  <1> QED
    BY <1>2, <1>3 DEF OwedIsWhole

\* What the bus owes after a step, from what it owes each subscription.
LEMMA OwedStays ==
    ASSUME BusInv, BusInv',
           \A p \in Publishers, s \in Subscribers :
               /\ IsOwed(p, s)' <=> IsOwed(p, s)
               /\ IsOwed(p, s) => current'[p] = current[p]
    PROVE  Owed' = Owed
PROOF
  <1>1. OwedIsWhole /\ OwedIsWhole'
    BY OwedPairs, PTL
  <1> QED
    BY <1>1 DEF OwedIsWhole

LEMMA NothingShows ==
    ASSUME Owed' = Owed, UNCHANGED <<made, closed, cancelled, received>>,
           \A s \in Subscribers : Durable(queue'[s]) = Durable(queue[s])
    PROVE  UNCHANGED Broadcast!vars
PROOF
  <1>1. Accepted' = Accepted
    BY DEF Accepted
  <1> QED
    BY <1>1 DEF Broadcast!vars, ReadCount, Subscribed

\* What is selected stood in the queue.
LEMMA DurableMembers ==
    ASSUME NEW q \in Seq(Event)
    PROVE  Durable(q) \in Seq(Event) /\ ToSet(Durable(q)) \subseteq ToSet(q)
PROOF
  <1> DEFINE S == [type : DurableTypes, from : Publishers, number : 0 .. MaxEvents]
  <1>1. Durable(q) = Only(q, S)
    BY DEF Durable
  <1> HIDE DEF S
  <1>2. Only(q, S) \in Seq(Event)
    BY OnlySelects
  <1>3. PICK f : Selects(f, q, S, Only(q, S))
    BY OnlySelects
  <1>4. DOMAIN Only(q, S) = 1 .. Len(Only(q, S)) /\ DOMAIN q = 1 .. Len(q)
    BY <1>2, LenProperties
  <1>5. \A k \in 1 .. Len(Only(q, S)) : f[k] \in 1 .. Len(q) /\ Only(q, S)[k] = q[f[k]]
    BY <1>3 DEF Selects
  <1> QED
    BY <1>1, <1>2, <1>4, <1>5 DEF ToSet

\* The durable events that are being published are those of ReliableBroadcast.
LEMMA Numbered ==
    ASSUME BusInv, Recording, NEW p \in Publishers, ~Idle(p), ~IsLossy(current[p])
    PROVE  /\ current[p] \in [type : DurableTypes, from : Publishers, number : 1 .. MaxEvents]
           /\ current[p] \in [type : DurableTypes, from : Publishers, number : 0 .. MaxEvents]
PROOF
  <1>1. PICK e \in Event : e = current[p]
    BY DEF BusInv, BusTypeInv, Idle
  <1>2. e.number > 0
    BY <1>1 DEF BusInv, PublishersAreSound
  <1>3. e.type \in DurableTypes /\ e = [type |-> e.type, from |-> e.from, number |-> e.number]
    BY <1>1 DEF Event, IsLossy
  <1>4. /\ e.number \in 1 .. MaxEvents /\ e.number \in 0 .. MaxEvents
        /\ e.from \in Publishers
    BY <1>2, BusAssumption DEF Event
  <1> QED
    BY <1>1, <1>3, <1>4

LEMMA CloseShows ==
    ASSUME BusInv, NEW ss \in SUBSET Subscribed, MarkClosed(ss)
    PROVE  Broadcast!Next
PROOF
  <1>1. Subscribed' = Subscribed \ ss
    BY DEF MarkClosed, Subscribed
  <1>2. Owed' = {o \in Owed : o[1] \notin ss}
    BY DEF MarkClosed, Owed, IsLossy
  <1>3. UNCHANGED <<Accepted, ReadCount, cancelled>>
    BY DEF MarkClosed, Accepted, ReadCount
  <1> QED
    BY <1>1, <1>2, <1>3 DEF Broadcast!Next, Broadcast!Close

LEMMA SubscribeShows ==
    ASSUME BusInv, Recording, NEW s \in Subscribers, Subscribe(s)
    PROVE  Broadcast!Next
PROOF
  <1>1. s \notin Subscribed /\ Subscribed' = Subscribed \cup {s}
    BY DEF BusInv, BusTypeInv, Subscribe, Subscribed
  <1>2. queue[s] = <<>> /\ received[s] = <<>>
    <2>1. TakenBy(s) = {}
      BY DEF BusInv, NumbersGrow, Subscribe
    <2>2. queue[s] \in Seq(Event) /\ received[s] \in Seq(Event)
      BY DEF BusInv, BusTypeInv
    <2>3. \A q \in Seq(Event) : ToSet(q) = {} => q = <<>>
      <3> TAKE q \in Seq(Event)
      <3>1. q # <<>> => 1 \in DOMAIN q
        BY EmptySeq, LenProperties
      <3> QED
        BY <3>1 DEF ToSet
    <2> QED
      BY <2>1, <2>2, <2>3 DEF TakenBy
  <1>3. Accepted[s] = <<>>
    <2>1. Durable(queue[s]) = <<>>
      BY <1>2, OnlyOfEmpty DEF Durable
    <2> QED
      BY <1>2, <2>1, EmptySeq, ConcatProperties DEF Accepted
  <1>4. UNCHANGED <<Owed, Accepted, ReadCount, cancelled>>
    BY DEF Subscribe, Owed, Accepted, ReadCount
  <1> QED
    BY <1>1, <1>3, <1>4 DEF Broadcast!Next, Broadcast!Subscribe

LEMMA PublishShows ==
    ASSUME BusInv, BusInv', Recording, NEW p \in Publishers,
           NEW type \in LossyTypes \cup DurableTypes, Publish(p, type)
    PROVE  [Broadcast!Next]_(Broadcast!vars)
PROOF
  <1> DEFINE e == [type |-> type, from |-> p, number |-> sent']
  <1>1. UNCHANGED <<made, closed, cancelled, received, queue>>
    BY DEF Publish
  <1>2. /\ \A r \in Publishers, s \in Subscribers :
               r # p => (IsOwed(r, s)' <=> IsOwed(r, s)) /\ current'[r] = current[r]
        /\ \A s \in Subscribers : ~IsOwed(p, s)
    BY DEF BusInv, BusTypeInv, Publish, IsOwed, Idle, IsLossy
  <1>3. CASE \A s \in Subscribers : ~IsOwed(p, s)'
    BY <1>1, <1>2, <1>3, OwedStays, NothingShows
  <1>4. CASE \E s \in Subscribers : IsOwed(p, s)'
    <2>1. /\ current' = [current EXCEPT ![p] = e] /\ todo' = [todo EXCEPT ![p] = Subscribed]
      BY <1>2, <1>4 DEF Publish, IsOwed, Idle, IsLossy
    <2>2. current'[p] = e /\ todo'[p] = Subscribed /\ ~Idle(p)' /\ ~IsLossy(e)
      BY <1>4, <2>1 DEF BusInv, BusTypeInv, IsOwed, IsLossy
    <2>3. e \in [type : DurableTypes, from : Publishers, number : 1 .. MaxEvents]
      <3>1. type \in DurableTypes
        BY <2>2 DEF IsLossy
      <3>2. sent' \in 1 .. MaxEvents
        BY BusAssumption DEF BusInv, BusTypeInv, Publish, Recording
      <3> QED
        BY <3>1, <3>2
    <2> HIDE DEF e
    <2>4. OwedIsWhole /\ OwedIsWhole'
      BY OwedPairs, PTL
    <2>5. \A o \in Owed : o[2].from # p
      BY <1>2, <2>4 DEF OwedIsWhole, IsOwed, BusInv, PublishersAreSound
    <2>6. e.from = p
      BY DEF e
    <2>7. \A s \in Subscribers : IsOwed(p, s)' <=> s \in Subscribed
      BY <1>1, <2>2 DEF IsOwed, IsLossy, Subscribed
    <2>8. Owed' = Owed \cup (Subscribed \X {e})
      <3>1. Subscribed \subseteq Subscribers
        BY DEF BusInv, BusTypeInv, Subscribed
      <3>2. ASSUME NEW o \in Owed'
            PROVE  o \in Owed \cup (Subscribed \X {e})
        BY <1>2, <2>2, <2>4, <2>7, <3>2 DEF OwedIsWhole
      <3>3. ASSUME NEW o \in Owed
            PROVE  o \in Owed'
        BY <1>2, <2>4, <3>3 DEF OwedIsWhole
      <3>4. ASSUME NEW o \in Subscribed \X {e}
            PROVE  o \in Owed'
        BY <2>2, <2>4, <2>7, <3>1, <3>4 DEF OwedIsWhole
      <3> QED
        BY <3>2, <3>3, <3>4
    <2>9. UNCHANGED <<Accepted, ReadCount, Subscribed, cancelled>>
      BY <1>1 DEF Accepted, ReadCount, Subscribed
    <2> QED
      BY <2>3, <2>5, <2>6, <2>8, <2>9 DEF Broadcast!Next, Broadcast!Publish, Sender
  <1> QED
    BY <1>3, <1>4

LEMMA DeliverShows ==
    ASSUME BusInv, BusInv', Recording, NEW p \in Publishers, NEW s \in Subscribers,
           Deliver(p, s)
    PROVE  [Broadcast!Next]_(Broadcast!vars)
PROOF
  <1> DEFINE e == current[p]
  <1>1. /\ queue[s] \in Seq(Event) /\ e \in Event /\ e # NoEvent /\ e.from = p
        /\ received[s] \in Seq(Event)
    BY BusShapes DEF BusInv, PublishersAreSound, Deliver, Idle
  <1>2. UNCHANGED <<made, closed, cancelled, received>>
    BY DEF Deliver
  <1>3. ASSUME Served(p, s)
        PROVE  /\ \A r \in Publishers, t \in Subscribers :
                      <<r, t>> # <<p, s>> => (IsOwed(r, t)' <=> IsOwed(r, t))
               /\ ~IsOwed(p, s)'
               /\ \A r \in Publishers, t \in Subscribers :
                      IsOwed(r, t)' => current'[r] = current[r]
    <2>1. /\ \A r \in Publishers : r # p => todo'[r] = todo[r] /\ current'[r] = current[r]
          /\ todo'[p] = todo[p] \ {s}
          /\ current'[p] = IF todo[p] = {s} THEN NoEvent ELSE current[p]
      BY <1>3 DEF Served, BusInv, BusTypeInv
    <2> QED
      BY <1>1, <1>2, <2>1 DEF IsOwed, Idle, IsLossy
  <1>4. ASSUME Served(p, s), ~IsOwed(p, s)
        PROVE  Owed' = Owed
    BY <1>3, <1>4, OwedStays
  <1>5. CASE DeliverNothing(p, s)
    <2>1. Owed' = Owed /\ queue' = queue
      BY <1>4, <1>5 DEF DeliverNothing, IsOwed
    <2> QED
      BY <1>2, <2>1, NothingShows
  <1>6. CASE WaitForRoom(p, s)
    <2>1. Owed' = Owed /\ queue' = queue
      BY <1>2, <1>6 DEF WaitForRoom, Owed
    <2> QED
      BY <1>2, <2>1, NothingShows
  <1>7. CASE DeliverLossy(p, s)
    <2> DEFINE q == WithoutSameType(queue[s], e)
    <2>1. q \in Seq(Event) /\ Durable(q) = Durable(queue[s])
      BY <1>1, <1>7, LossyReplaces DEF DeliverLossy
    <2>2. Durable(Append(q, e)) = Durable(q)
      <3>1. e \notin [type : DurableTypes, from : Publishers, number : 0 .. MaxEvents]
        BY <1>7, BusAssumption DEF DeliverLossy, IsLossy
      <3> HIDE DEF e, q
      <3> QED
        BY <1>1, <2>1, <3>1, OnlyOfAppend, ZenonT(60) DEF Durable
    <2>3. queue' = queue \/ queue' = [queue EXCEPT ![s] = Append(q, e)]
      BY <1>7 DEF DeliverLossy, Appended
    <2> HIDE DEF q
    <2>4. \A t \in Subscribers : Durable(queue'[t]) = Durable(queue[t])
      BY <2>1, <2>2, <2>3 DEF BusInv, BusTypeInv
    <2>5. Owed' = Owed
      BY <1>4, <1>7 DEF DeliverLossy, IsOwed
    <2> QED
      BY <1>2, <2>4, <2>5, NothingShows
  <1>8. CASE DeliverDurable(p, s)
    <2> DEFINE q == IF Full(s) THEN WithoutLossy(queue[s]) ELSE queue[s]
    <2>1. q \in Seq(Event) /\ Durable(q) = Durable(queue[s])
      BY <1>1, <1>8, DurablePushesOut DEF DeliverDurable, HoldsLossy
    <2>2. e \in [type : DurableTypes, from : Publishers, number : 1 .. MaxEvents]
      BY <1>1, <1>8, Numbered DEF DeliverDurable, Deliver, BusInv, Idle
    <2>3. Durable(Append(q, e)) = Append(Durable(q), e)
      <3>1. e \in [type : DurableTypes, from : Publishers, number : 0 .. MaxEvents]
        BY <1>1, <1>8, Numbered DEF DeliverDurable, Deliver, BusInv, Idle
      <3> DEFINE S == [type : DurableTypes, from : Publishers, number : 0 .. MaxEvents]
      <3>2. \A r : Durable(r) = Only(r, S)
        BY DEF Durable
      <3> HIDE DEF e, q, S
      <3>3. Only(Append(q, e), S) = Append(Only(q, S), e)
        <4>1. e \in S
          BY <3>1 DEF S
        <4> QED
          BY <1>1, <2>1, <4>1, OnlyOfAppend
      <3> QED
        BY <3>2, <3>3
    <2>4. queue' = [queue EXCEPT ![s] = Append(q, e)] /\ Served(p, s)
      BY <1>8 DEF DeliverDurable, Appended
    <2> HIDE DEF q
    <2>5. IsOwed(p, s) /\ s \in Subscribed
      BY <1>8 DEF IsOwed, DeliverDurable, Deliver, Idle, Subscribed, BusInv, PublishersAreSound
    <2>6. Owed' = Owed \ {<<s, e>>}
      <3>1. OwedIsWhole /\ OwedIsWhole'
        BY OwedPairs, PTL
      <3>2. \A o \in Owed' : o \in Owed /\ o # <<s, e>>
        <4> TAKE o \in Owed'
        <4>1. PICK r \in Publishers, t \in Subscribers :
                 o = <<t, current'[r]>> /\ IsOwed(r, t)'
          BY <3>1 DEF OwedIsWhole
        <4>2. <<r, t>> # <<p, s>> /\ IsOwed(r, t) /\ current'[r] = current[r]
          BY <1>3, <2>4, <4>1
        <4>3. current[r].from = r
          BY <4>2 DEF IsOwed, BusInv, PublishersAreSound
        <4> QED
          BY <1>1, <3>1, <4>1, <4>2, <4>3 DEF OwedIsWhole
      <3>3. \A o \in Owed : o # <<s, e>> => o \in Owed'
        BY <1>3, <2>4, <3>1 DEF OwedIsWhole
      <3> QED
        BY <3>2, <3>3
    <2>7. <<s, e>> \in Owed
      BY <2>5, OwedPairs DEF OwedIsWhole
    <2>8. \A x \in ToSet(Accepted[s]) : x.from = e.from => x.number < e.number
      <3>1. Durable(queue[s]) \in Seq(Event) /\ ToSet(Durable(queue[s])) \subseteq ToSet(queue[s])
        BY <1>1, DurableMembers
      <3>2. Accepted[s] = received[s] \o Durable(queue[s])
        BY DEF Accepted
      <3>3. ToSet(received[s] \o Durable(queue[s]))
               = ToSet(received[s]) \cup ToSet(Durable(queue[s]))
        BY <1>1, <3>1, ConcatMembers
      <3>4. ToSet(Accepted[s]) \subseteq TakenBy(s)
        BY <3>1, <3>2, <3>3 DEF TakenBy
      <3> QED
        BY <1>1, <2>5, <3>4 DEF BusInv, NumbersGrow, IsOwed
    <2>9. Accepted' = [Accepted EXCEPT ![s] = Append(Accepted[s], e)]
      <3>1. \A a, b \in Seq(Event) : a \o Append(b, e) = Append(a \o b, e)
        <4> TAKE a \in Seq(Event), b \in Seq(Event)
        <4>1. /\ Append(b, e) = b \o <<e>> /\ a \o b \in Seq(Event)
              /\ Append(a \o b, e) = (a \o b) \o <<e>> /\ <<e>> \in Seq(Event)
          BY <1>1, AppendIsConcat, ConcatProperties
        <4> QED
          BY <4>1, ConcatAssociative
      <3>2. Durable(queue[s]) \in Seq(Event)
        BY <1>1, DurableMembers
      <3>3. received'[s] \o Durable(queue'[s]) = Append(Accepted[s], e)
        <4>1. received'[s] = received[s] /\ queue'[s] = Append(q, e)
          BY <1>2, <2>4 DEF BusInv, BusTypeInv
        <4>2. Accepted[s] = received[s] \o Durable(queue[s])
          BY DEF Accepted
        <4>3. Durable(queue'[s]) = Append(Durable(queue[s]), e)
          BY <2>1, <2>3, <4>1
        <4> HIDE DEF e
        <4>4. received[s] \o Append(Durable(queue[s]), e)
                 = Append(received[s] \o Durable(queue[s]), e)
          BY <1>1, <3>1, <3>2
        <4> QED
          BY <4>1, <4>2, <4>3, <4>4
      <3>4. \A t \in Subscribers :
               t # s => received'[t] \o Durable(queue'[t]) = Accepted[t]
        BY <1>2, <2>4 DEF Accepted, BusInv, BusTypeInv
      <3>5. /\ Accepted' = [t \in Subscribers |-> received'[t] \o Durable(queue'[t])]
            /\ Accepted = [t \in Subscribers |-> Accepted[t]]
        BY DEF Accepted
      <3> HIDE DEF e
      <3> QED
        BY <3>3, <3>4, <3>5
    <2>10. UNCHANGED <<ReadCount, Subscribed, cancelled>>
      BY <1>2 DEF ReadCount, Subscribed
    <2> HIDE DEF e
    <2>11. \A i \in DOMAIN Accepted[s] :
              Sender(Accepted[s][i]) = Sender(e) => Number(Accepted[s][i]) < Number(e)
      BY <2>8 DEF ToSet, Sender, Number
    <2>12. Broadcast!Accept(s, e)
      BY <2>5, <2>6, <2>7, <2>9, <2>10, <2>11 DEF Broadcast!Accept
    <2> QED
      BY <2>2, <2>12 DEF Broadcast!Next
  <1> QED
    BY <1>5, <1>6, <1>7, <1>8 DEF Deliver

LEMMA CancelShows ==
    ASSUME BusInv, BusInv', Recording, NEW p \in Publishers, CancelPublish(p)
    PROVE  Broadcast!Next
PROOF
  <1> DEFINE e == current[p]
  <1>1. ~IsLossy(e) /\ e.from = p /\ ~Idle(p)
    BY BusAssumption DEF BusInv, PublishersAreSound, CancelPublish
  <1>2. e \in [type : DurableTypes, from : Publishers, number : 1 .. MaxEvents]
    BY <1>1, Numbered
  <1>3. cancelled' = cancelled \cup {e}
    BY DEF CancelPublish, Abandon
  <1>4. Owed' = {o \in Owed : o[2] # e}
    <2>1. OwedIsWhole /\ OwedIsWhole'
      BY OwedPairs, PTL
    <2>2. \A r \in Publishers, s \in Subscribers :
             /\ r # p => (IsOwed(r, s)' <=> IsOwed(r, s)) /\ current'[r] = current[r]
             /\ ~IsOwed(p, s)'
      BY DEF CancelPublish, Abandon, IsOwed, Idle, IsLossy
    <2>3. \A r \in Publishers, s \in Subscribers :
             IsOwed(r, s) => (current[r] = e <=> r = p)
      BY <1>1 DEF IsOwed, BusInv, PublishersAreSound
    <2> HIDE DEF e
    <2>4. \A o \in Owed' : o \in Owed /\ o[2] # e
      BY <2>1, <2>2, <2>3 DEF OwedIsWhole
    <2>5. \A o \in Owed : o[2] # e => o \in Owed'
      BY <2>1, <2>2, <2>3 DEF OwedIsWhole
    <2> QED
      BY <2>4, <2>5
  <1>5. UNCHANGED <<Accepted, ReadCount, Subscribed>>
    BY DEF CancelPublish, Abandon, Accepted, ReadCount, Subscribed
  <1> QED
    BY <1>2, <1>3, <1>4, <1>5 DEF Broadcast!Next, Broadcast!Withdraw

LEMMA GetShows ==
    ASSUME BusInv, BusInv', Recording, NEW s \in Subscribers, Get(s)
    PROVE  [Broadcast!Next]_(Broadcast!vars)
PROOF
  <1> DEFINE h == Head(queue[s])
             a == received[s]
             b == Durable(<<h>>)
             c == Durable(Tail(queue[s]))
  <1>1. /\ queue' = [queue EXCEPT ![s] = Tail(queue[s])]
        /\ received' = [received EXCEPT ![s] = a \o b]
        /\ UNCHANGED <<made, closed, todo, current, cancelled>>
    BY DEF Get
  <1>2. /\ queue[s] \in Seq(Event) /\ queue[s] # <<>> /\ a \in Seq(Event)
        /\ h \in Event /\ Tail(queue[s]) \in Seq(Event)
    <2>1. queue[s] \in Seq(Event) /\ queue[s] # <<>> /\ a \in Seq(Event)
      BY DEF BusInv, BusTypeInv, Get
    <2> QED
      BY <2>1, HeadTailProperties
  <1>3. Durable(queue[s]) = b \o c
    BY <1>2, OnlyOfHead DEF Durable
  <1>4. b = <<h>> \/ b = <<>>
    BY OnlyOfOne DEF Durable
  <1>5. c \in Seq(Event) /\ b \in Seq(Event)
    <2>1. c \in Seq(Event)
      BY <1>2, DurableMembers
    <2>2. <<h>> \in Seq(Event) /\ <<>> \in Seq(Event)
      BY <1>2, EmptySeq
    <2> HIDE DEF b, h
    <2> QED
      BY <1>4, <2>1, <2>2
  <1>6. Len(b) = IF b = <<>> THEN 0 ELSE 1
    BY <1>4
  <1> HIDE DEF h, a, b, c
  <1>7. (a \o b) \o c = a \o (b \o c)
    BY <1>2, <1>5, ConcatAssociative, SMTT(60)
  <1>8. /\ Len(a \o b) = Len(a) + Len(b) /\ Len(a \o (b \o c)) = Len(a) + (Len(b) + Len(c))
        /\ Len(a) \in Nat /\ Len(b) \in Nat /\ Len(c) \in Nat
    <2>1. b \o c \in Seq(Event) /\ Len(b \o c) = Len(b) + Len(c)
      BY <1>5, ConcatProperties
    <2> QED
      BY <1>2, <1>5, <2>1, ConcatProperties, LenProperties
  <1>9. /\ queue'[s] = Tail(queue[s]) /\ received'[s] = a \o b
        /\ \A t \in Subscribers : t # s => queue'[t] = queue[t] /\ received'[t] = received[t]
    BY <1>1 DEF BusInv, BusTypeInv
  <1>10. Accepted' = Accepted
    <2>1. received'[s] \o Durable(queue'[s]) = received[s] \o Durable(queue[s])
      BY <1>3, <1>7, <1>9 DEF a, c
    <2>2. \A t \in Subscribers :
             received'[t] \o Durable(queue'[t]) = received[t] \o Durable(queue[t])
      BY <1>9, <2>1
    <2> QED
      BY <2>2 DEF Accepted
  <1>11. UNCHANGED <<Owed, Subscribed, cancelled>>
    BY <1>1 DEF Owed, Subscribed
  <1>12. CASE b = <<>>
    <2>1. \A t \in Subscribers : Len(received'[t]) = Len(received[t])
      BY <1>6, <1>8, <1>9, <1>12 DEF a
    <2>2. ReadCount' = ReadCount
      BY <2>1 DEF ReadCount
    <2> QED
      BY <1>10, <1>11, <2>2 DEF Broadcast!vars
  <1>13. CASE b # <<>>
    <2>1. ReadCount[s] = Len(a) /\ Accepted[s] = a \o (b \o c)
      BY <1>3 DEF ReadCount, Accepted, a
    <2>2. ReadCount[s] < Len(Accepted[s])
      BY <1>6, <1>8, <1>13, <2>1
    <2>3. ReadCount' = [ReadCount EXCEPT ![s] = ReadCount[s] + 1]
      <3>1. ReadCount' = [t \in Subscribers |-> Len(received'[t])]
        BY DEF ReadCount
      <3>2. Len(received'[s]) = ReadCount[s] + 1
        BY <1>6, <1>8, <1>9, <1>13, <2>1
      <3>3. \A t \in Subscribers : t # s => Len(received'[t]) = ReadCount[t]
        BY <1>9 DEF ReadCount
      <3>4. ReadCount = [t \in Subscribers |-> ReadCount[t]]
        BY DEF ReadCount
      <3> QED
        BY <3>1, <3>2, <3>3, <3>4
    <2> QED
      BY <1>10, <1>11, <2>2, <2>3 DEF Broadcast!Next, Broadcast!Receive
  <1> QED
    BY <1>12, <1>13

\* Durable events are not lost, repeated or reordered: every step of the bus is a
\* step of ReliableBroadcast, or changes nothing of it.
THEOREM BusRefinesBroadcast == MaxEvents > 0 /\ BusSpec => BroadcastIsSafe
PROOF
  <1> SUFFICES ASSUME MaxEvents > 0 PROVE BusSpec => BroadcastIsSafe
    OBVIOUS
  <1>1. Recording
    BY DEF Recording
  <1>2. BusInit => Broadcast!Init
    <2> SUFFICES ASSUME BusInit PROVE Broadcast!Init
      OBVIOUS
    <2>1. Owed = {} /\ Subscribed = {} /\ cancelled = {}
      BY DEF BusInit, Owed, Subscribed
    <2>2. \A s \in Subscribers : received[s] = <<>> /\ Durable(queue[s]) = <<>>
      BY OnlyOfEmpty DEF BusInit, Durable
    <2>3. <<>> \o <<>> = <<>> /\ Len(<<>>) = 0
      BY EmptySeq, ConcatEmptySeq
    <2>4. /\ Accepted = [s \in Subscribers |-> <<>>]
          /\ ReadCount = [s \in Subscribers |-> 0]
      BY <2>2, <2>3 DEF Accepted, ReadCount
    <2> QED
      BY <2>1, <2>4 DEF Broadcast!Init
  <1>3. BusInv /\ BusInv' /\ [BusNext]_busVars => [Broadcast!Next]_(Broadcast!vars)
    <2> SUFFICES ASSUME BusInv, BusInv', [BusNext]_busVars
                 PROVE  [Broadcast!Next]_(Broadcast!vars)
      OBVIOUS
    <2>1. CASE CloseBus
      BY <2>1, CloseShows DEF CloseBus
    <2>2. ASSUME NEW s \in Subscribers, Subscribe(s) \/ Unsubscribe(s) \/ Get(s)
          PROVE  [Broadcast!Next]_(Broadcast!vars)
      <3>1. CASE Subscribe(s)
        BY <1>1, <3>1, SubscribeShows
      <3>2. CASE Unsubscribe(s)
        <4>1. {s} \in SUBSET Subscribed /\ MarkClosed({s})
          BY <3>2 DEF Unsubscribe
        <4> QED
          BY <4>1, CloseShows
      <3>3. CASE Get(s)
        BY <1>1, <3>3, GetShows
      <3> QED
        BY <2>2, <3>1, <3>2, <3>3
    <2>3. ASSUME NEW p \in Publishers, NEW type \in LossyTypes \cup DurableTypes, Publish(p, type)
          PROVE  [Broadcast!Next]_(Broadcast!vars)
      BY <1>1, <2>3, PublishShows
    <2>4. ASSUME NEW p \in Publishers, NEW s \in Subscribers, Deliver(p, s)
          PROVE  [Broadcast!Next]_(Broadcast!vars)
      BY <1>1, <2>4, DeliverShows
    <2>5. ASSUME NEW p \in Publishers, CancelPublish(p)
          PROVE  [Broadcast!Next]_(Broadcast!vars)
      BY <1>1, <2>5, CancelShows
    <2>6. ASSUME UNCHANGED <<queue, todo, current, made, closed, received, cancelled>>
          PROVE  UNCHANGED Broadcast!vars
      BY <2>6 DEF Broadcast!vars, Owed, Accepted, ReadCount, Subscribed
    <2>7. ASSUME NEW s \in Subscribers, WaitForEvent(s)
          PROVE  [Broadcast!Next]_(Broadcast!vars)
      BY <2>6, <2>7 DEF WaitForEvent
    <2>8. ASSUME NEW p \in Publishers, Resume(p)
          PROVE  [Broadcast!Next]_(Broadcast!vars)
      BY <2>6, <2>8 DEF Resume
    <2>9. CASE UNCHANGED busVars
      BY <2>6, <2>9 DEF busVars
    <2> QED
      BY <2>1, <2>2, <2>3, <2>4, <2>5, <2>7, <2>8, <2>9 DEF BusNext
  <1> QED
    BY <1>2, <1>3, BusStarts, BusStepKeeps, PTL DEF BusSpec, BroadcastIsSafe

-----------------------------------------------------------------------------
(* On one connection a sequence starts at most one action. *)

Pcs == {"off", "read", "lock", "apply", "answer", "publishing", "stopping"}

\* What a client reads and sends is one of its commands, with a sequence.
LEMMA CommandFacts ==
    /\ NoCommand \in AnyCommand
    /\ \A c \in Subscribers : Commands[c] \subseteq AnyCommand
    /\ \A command \in AnyCommand : command.sequence \in Nat
PROOF
  <1>1. NoCommand.sequence \in Nat
    BY DEF NoCommand
  <1>2. NoCommand \in AnyCommand
    BY DEF AnyCommand
  <1> DEFINE sets == {Commands[c] : c \in Subscribers}
  <1>3. \A c \in Subscribers : Commands[c] \subseteq AnyCommand
    <2>1. \A c \in Subscribers : Commands[c] \in sets
      OBVIOUS
    <2>2. \A set \in sets : set \subseteq UNION sets
      <3> HIDE DEF sets
      <3> QED
        OBVIOUS
    <2>3. UNION sets \subseteq AnyCommand
      BY DEF AnyCommand
    <2> HIDE DEF sets
    <2> QED
      BY <2>1, <2>2, <2>3
  <1>4. ASSUME NEW command \in AnyCommand
        PROVE  command.sequence \in Nat
    <2>1. CASE command = NoCommand
      BY <1>1, <2>1
    <2>2. CASE command # NoCommand
      <3>1. command \in UNION sets
        BY <2>2 DEF AnyCommand
      <3>2. PICK set \in sets : command \in set
        BY <3>1
      <3>3. PICK c \in Subscribers : command \in Commands[c]
        BY <3>2
      <3> QED
        BY <3>3, CommandsAssumption
    <2> QED
      BY <2>1, <2>2
  <1> QED
    BY <1>2, <1>3, <1>4

\* Connections only go from state to state; one that is left does not come back.
Forward ==
    \A c \in Subscribers :
        /\ conn[c] # "new" => conn'[c] # "new"
        /\ conn'[c] \in {"open", "leaving"} => conn[c] \in {"new", "open", "leaving"}

LEMMA ForwardKeeps ==
    ASSUME ActionsInv, ActionTypes', Forward, started' = started,
           \A c \in Subscribers : conn'[c] \in {"open", "leaving"} =>
               lastSequence'[c] = lastSequence[c]
    PROVE  ActionsInv'
PROOF
  <1>1. \A n \in DOMAIN started : started[n] \in Subscribers \X Nat
    BY DEF ActionsInv, ActionTypes
  <1>2. \A n \in DOMAIN started : started[n][1] \in Subscribers
    BY <1>1
  <1>3. SequencesAreKept'
    BY <1>2 DEF ActionsInv, SequencesAreKept, Forward
  <1> QED
    BY <1>3 DEF ActionsInv, RepeatsStartNothing

\* The consumer of a connection goes on.
LEMMA GotoTypes ==
    ASSUME ActionTypes, NEW c \in Subscribers, NEW pc \in Pcs, Goto(c, pc)
    PROVE  consumer' \in [Subscribers -> [pc : Pcs, command : AnyCommand]]
PROOF
  BY DEF ActionTypes, Goto, Pcs

\* Steps that move consumers and leave connections, sequences and actions alone.
LEMMA ConsumerKeeps ==
    ASSUME ActionsInv, UNCHANGED <<conn, lastSequence, started>>,
           consumer' \in [Subscribers -> [pc : Pcs, command : AnyCommand]]
    PROVE  ActionsInv'
PROOF
  <1>1. ActionTypes' /\ Forward
    BY DEF ActionsInv, ActionTypes, Forward, Pcs
  <1> QED
    BY <1>1, ForwardKeeps

\* An action starts with a sequence above all those of its connection.
LEMMA StartKeeps ==
    ASSUME ActionsInv, NEW c \in Subscribers, StartAction(c)
    PROVE  ActionsInv'
PROOF
  <1>1. ActionTypes /\ SequencesAreKept /\ RepeatsStartNothing
    BY DEF ActionsInv
  <1>2. conn' = conn /\ conn[c] = "open"
    BY DEF StartAction, Fresh, Dispatching
  <1>3. consumer' \in [Subscribers -> [pc : Pcs, command : AnyCommand]]
    BY <1>1, GotoTypes DEF StartAction, Answer, Pcs
  <1>4. CASE ~Admissible(c)
    BY <1>2, <1>3, <1>4, ConsumerKeeps DEF StartAction
  <1>5. CASE Admissible(c)
    <2> DEFINE q == consumer[c].command.sequence
    <2>1. q \in Nat /\ q > lastSequence[c] /\ lastSequence[c] \in Nat
      <3>1. consumer[c].command \in AnyCommand
        BY <1>1 DEF ActionTypes
      <3> QED
        BY <1>1, <1>5, <3>1, CommandFacts DEF Admissible, ActionTypes
    <2>2. /\ lastSequence' = [lastSequence EXCEPT ![c] = q]
          /\ started' = Append(started, <<c, q>>)
      BY <1>5 DEF StartAction
    <2> HIDE DEF q
    <2>3. /\ started \in Seq(Subscribers \X Nat) /\ <<c, q>> \in Subscribers \X Nat
      BY <1>1, <2>1 DEF ActionTypes
    <2>4. /\ started' \in Seq(Subscribers \X Nat)
          /\ Len(started) \in Nat /\ Len(started') = Len(started) + 1
          /\ started'[Len(started) + 1] = <<c, q>>
          /\ \A n \in 1 .. Len(started) : started'[n] = started[n]
      BY <2>2, <2>3, AppendProperties, LenProperties
    <2>5. /\ DOMAIN started = 1 .. Len(started)
          /\ DOMAIN started' = 1 .. Len(started) + 1
      BY <2>3, <2>4, LenProperties
    <2>6. ActionTypes'
      BY <1>1, <1>2, <1>3, <2>1, <2>2, <2>4 DEF ActionTypes, Pcs
    <2>7. \A n \in DOMAIN started :
              /\ started[n][1] \in Subscribers /\ started[n][2] \in Nat
              /\ started[n] = <<started[n][1], started[n][2]>>
              /\ started[n][1] = c => started[n][2] < q
      <3> SUFFICES ASSUME NEW n \in DOMAIN started
                   PROVE  /\ started[n][1] \in Subscribers /\ started[n][2] \in Nat
                          /\ started[n] = <<started[n][1], started[n][2]>>
                          /\ started[n][1] = c => started[n][2] < q
        OBVIOUS
      <3>1. started[n] \in Subscribers \X Nat
        BY <2>3, <2>5, ElementOfSeq
      <3>2. started[n][1] = c => started[n][2] <= lastSequence[c]
        BY <1>1, <1>2 DEF SequencesAreKept
      <3> QED
        BY <2>1, <3>1, <3>2
    <2>8. SequencesAreKept'
      BY <1>1, <1>2, <2>1, <2>2, <2>4, <2>5, <2>7 DEF SequencesAreKept, ActionTypes
    <2>9. RepeatsStartNothing'
      <3>1. \A n \in DOMAIN started : started[n] # <<c, q>>
        BY <2>1, <2>7
      <3> QED
        BY <1>1, <2>4, <2>5, <3>1 DEF RepeatsStartNothing
    <2> QED
      BY <2>6, <2>8, <2>9 DEF ActionsInv
  <1> QED
    BY <1>4, <1>5

\* A connection opens once, and one that is left loses its sequence for good.
LEMMA ConnectionKeeps ==
    ASSUME ActionsInv, NEW c \in Subscribers,
           \/ Authenticate(c) \/ Disconnect(c) \/ DetachActions(c) \/ DetachReturns(c)
           \/ CloseConnection(c)
    PROVE  ActionsInv'
PROOF
  <1>1. ActionTypes
    BY DEF ActionsInv
  <1>2. consumer' \in [Subscribers -> [pc : Pcs, command : AnyCommand]]
    <2>1. CASE Authenticate(c)
      <3>1. consumer' = consumer \/ Goto(c, "read")
        BY <2>1 DEF Authenticate, Goto
      <3> QED
        BY <1>1, <3>1, GotoTypes DEF ActionTypes, Pcs
    <2>2. CASE Disconnect(c)
      BY <1>1, <2>2, CommandFacts DEF Disconnect, ActionTypes, Pcs
    <2>3. CASE DetachActions(c) \/ DetachReturns(c) \/ CloseConnection(c)
      BY <1>1, <2>3 DEF DetachActions, DetachReturns, CloseConnection, ActionTypes, Pcs
    <2> QED
      BY <2>1, <2>2, <2>3
  <1>3. \/ conn[c] = "new" /\ conn' = [conn EXCEPT ![c] = "open"] /\ lastSequence' = lastSequence
        \/ conn[c] = "new" /\ conn' = [conn EXCEPT ![c] = "gone"] /\ lastSequence' = lastSequence
        \/ conn[c] = "open" /\ conn' = [conn EXCEPT ![c] = "leaving"]
           /\ lastSequence' = lastSequence
        \/ conn[c] = "leaving" /\ conn' = [conn EXCEPT ![c] = "detaching"]
           /\ lastSequence' = [lastSequence EXCEPT ![c] = 0]
        \/ conn[c] = "detaching" /\ conn' = [conn EXCEPT ![c] = "closing"]
           /\ lastSequence' = lastSequence
        \/ conn[c] = "closing" /\ conn' = [conn EXCEPT ![c] = "gone"]
           /\ lastSequence' = lastSequence
    BY DEF Authenticate, Disconnect, DetachActions, DetachReturns, CloseConnection
  <1>4. started' = started
    BY DEF Authenticate, Disconnect, DetachActions, DetachReturns, CloseConnection
  <1>5. ActionTypes'
    <2>1. conn' \in [Subscribers ->
              {"new", "open", "leaving", "detaching", "closing", "gone"}]
      BY <1>1, <1>3 DEF ActionTypes
    <2>2. lastSequence' = lastSequence \/ lastSequence' = [lastSequence EXCEPT ![c] = 0]
      BY <1>3
    <2>3. lastSequence' \in [Subscribers -> Nat]
      BY <1>1, <2>2 DEF ActionTypes
    <2> QED
      BY <1>1, <1>2, <1>4, <2>1, <2>3 DEF ActionTypes, Pcs
  <1>6. Forward /\ \A d \in Subscribers : conn'[d] \in {"open", "leaving"} =>
                       lastSequence'[d] = lastSequence[d]
    BY <1>1, <1>3 DEF ActionTypes, Forward
  <1> QED
    BY <1>4, <1>5, <1>6, ForwardKeeps

\* The other steps of a connection move its consumer.
LEMMA CommandKeeps ==
    ASSUME ActionsInv, NEW c \in Subscribers,
           \/ \E command \in Commands[c] : Consume(c, command)
           \/ DispatchKnown(c) \/ CancelAction(c) \/ Rescan(c) \/ Stop(c) \/ Applied(c)
           \/ PublishAnswer(c) \/ AnswerPublished(c) \/ Shutdown(c)
    PROVE  ActionsInv'
PROOF
  <1>1. ActionTypes
    BY DEF ActionsInv
  <1>2. UNCHANGED <<conn, lastSequence, started>>
    BY DEF Consume, DispatchKnown, CancelAction, Rescan, Stop, Applied, PublishAnswer,
           AnswerPublished, Shutdown
  <1>3. ASSUME NEW command \in Commands[c], Consume(c, command)
        PROVE  consumer' \in [Subscribers -> [pc : Pcs, command : AnyCommand]]
    BY <1>1, <1>3, CommandFacts DEF Consume, ActionTypes, Pcs
  <1>4. ASSUME \/ DispatchKnown(c) \/ CancelAction(c) \/ Rescan(c) \/ Stop(c)
               \/ PublishAnswer(c) \/ AnswerPublished(c) \/ Shutdown(c)
        PROVE  consumer' \in [Subscribers -> [pc : Pcs, command : AnyCommand]]
    <2>1. PICK pc \in {"answer", "apply", "publishing", "read", "off"} : Goto(c, pc)
      BY <1>4 DEF DispatchKnown, CancelAction, Rescan, Stop, PublishAnswer, AnswerPublished,
                  Shutdown, Answer
    <2> QED
      BY <1>1, <2>1, GotoTypes DEF Pcs
  <1>5. CASE Applied(c)
    <2>1. PICK pc \in {"stopping", "answer"} : Goto(c, pc)
      BY <1>5 DEF Applied
    <2>2. consumer' \in [Subscribers -> [pc : Pcs, command : AnyCommand]]
      BY <1>1, <2>1, GotoTypes DEF Pcs
    <2> QED
      BY <1>2, <2>2, ConsumerKeeps
  <1> QED
    BY <1>2, <1>3, <1>4, <1>5, ConsumerKeeps

LEMMA InitHolds == BridgeInit => ActionsInv
PROOF
  <1> SUFFICES ASSUME BridgeInit
               PROVE  ActionsInv
    OBVIOUS
  <1>1. started = << >> /\ started \in Seq(Subscribers \X Nat) /\ DOMAIN started = {}
    BY EmptySeq DEF BridgeInit
  <1>2. ActionTypes
    BY <1>1, CommandFacts DEF BridgeInit, ActionTypes
  <1> QED
    BY <1>1, <1>2 DEF ActionsInv, SequencesAreKept, RepeatsStartNothing

LEMMA StepKeeps ==
    ASSUME ActionsInv, [BridgeNext]_allVars
    PROVE  ActionsInv'
PROOF
  <1>1. ASSUME UNCHANGED <<conn, consumer, lastSequence, started>>
        PROVE  ActionsInv'
    BY <1>1, ConsumerKeeps DEF ActionsInv, ActionTypes, Pcs
  <1>2. ASSUME NEW c \in Subscribers, ClientReads(c) \/ Produce(c)
        PROVE  ActionsInv'
    BY <1>1, <1>2 DEF ClientReads, Produce
  <1>3. ASSUME NEW s \in Slots, RunAction(s)
        PROVE  ActionsInv'
    BY <1>1, <1>3 DEF RunAction, ActionStep
  <1>4. CASE RunRefresh
    BY <1>1, <1>4 DEF RunRefresh, RefreshStep
  <1>5. CASE CloseEvents \/ Loop \/ UNCHANGED allVars
    BY <1>1, <1>5 DEF CloseEvents, Loop, allVars, bridgeVars
  <1>6. ASSUME NEW c \in Subscribers, ConnectionStep(c) \/ Authenticate(c) \/ Disconnect(c)
        PROVE  ActionsInv'
    BY <1>2, <1>6, StartKeeps, CommandKeeps, ConnectionKeeps DEF ConnectionStep
  <1>7. ASSUME NEW c \in Subscribers, NEW command \in Commands[c], Consume(c, command)
        PROVE  ActionsInv'
    BY <1>7, CommandKeeps
  <1> QED
    BY <1>2, <1>3, <1>4, <1>5, <1>6, <1>7 DEF BridgeNext

-----------------------------------------------------------------------------
(* A connection that is gone holds nothing. *)

LEMMA PublisherNames ==
    /\ \A c \in Subscribers : c \in Publishers /\ c # "refresh" /\ c \notin Slots /\ c # "none"
    /\ \A s \in Slots : s \in Publishers /\ s # "none"
    /\ "refresh" \in Publishers
PROOF
  BY PublishersAssumption, BusAssumption

\* Which publishers may take up an event in a step: those of ps.
OnlyStarts(ps) == \A p \in Publishers : p \notin ps /\ Idle(p) => Idle(p)'

LEMMA QuietBusStep ==
    ASSUME BusInv, UNCHANGED busVars
    PROVE  BusInv' /\ OnlyStarts({}) /\ made' = made /\ closed' = closed
PROOF
  BY BusStepKeeps DEF busVars, OnlyStarts, Idle

LEMMA PublishStep ==
    ASSUME BusInv, NEW p \in Publishers,
           NEW type \in {"acknowledged", "state", "discovery", "cancelled"}, Publish(p, type)
    PROVE  BusInv' /\ OnlyStarts({p}) /\ made' = made /\ closed' = closed
PROOF
  <1>1. type \in LossyTypes \cup DurableTypes
    BY PublishedAssumption
  <1>2. BusInv'
    BY <1>1, PublishKeeps
  <1>3. OnlyStarts({p})
    BY DEF Publish, OnlyStarts, Idle, BusInv, BusTypeInv
  <1> QED
    BY <1>2, <1>3 DEF Publish

LEMMA AbandonStep ==
    ASSUME BusInv, running = "none", NEW ps \in SUBSET Publishers, NEW readers,
           Abandon(ps, readers)
    PROVE  /\ BusInv' /\ OnlyStarts({}) /\ made' = made /\ closed' = closed
           /\ \A p \in ps : Idle(p)'
PROOF
  BY AbandonKeeps DEF Abandon, OnlyStarts, Idle

LEMMA LoopStep ==
    ASSUME BusInv, NEW p \in Publishers, Resume(p) \/ \E s \in Subscribers : Deliver(p, s)
    PROVE  BusInv' /\ OnlyStarts({}) /\ made' = made /\ closed' = closed
PROOF
  <1>1. CASE Resume(p)
    BY <1>1, ResumeKeeps DEF Resume, OnlyStarts, Idle
  <1>2. ASSUME NEW s \in Subscribers, Deliver(p, s)
        PROVE  BusInv' /\ OnlyStarts({}) /\ made' = made /\ closed' = closed
    <2>1. BusInv' /\ made' = made /\ closed' = closed
      BY <1>2, DeliverKeeps DEF Deliver
    <2>2. \A r \in Publishers : Idle(r) => Idle(r)'
      <3>1. Served(p, s) \/ current' = current
        BY <1>2 DEF Deliver, DeliverNothing, DeliverLossy, DeliverDurable, WaitForRoom
      <3> QED
        BY <3>1 DEF Served, Idle, BusInv, BusTypeInv
    <2> QED
      BY <2>1, <2>2 DEF OnlyStarts
  <1> QED
    BY <1>1, <1>2

\* What a connection holds grows only while it is open.
Opened(c) == conn[c] = "open"
HoldsNoMore ==
    /\ conn' = conn /\ made' = made /\ closed \subseteq closed'
    /\ \A c \in Subscribers : ~Opened(c) =>
           /\ consumer'[c].pc = consumer[c].pc
           /\ Idle(c) => Idle(c)'
           /\ c \notin ToSet(lockQueue) => c \notin ToSet(lockQueue')
           /\ c \notin refresh.awaitedBy => c \notin refresh'.awaitedBy

TasksStay ==
    \A s \in Slots : LET c == task'[s].conn
                     IN  \/ c = "none"
                         \/ c \in Subscribers /\ Opened(c) /\ task'[s].listed
                         \/ /\ c = task[s].conn /\ task'[s].listed = task[s].listed
                            /\ task[s].cancelled => task'[s].cancelled

LEMMA NothingIsTakenAgain ==
    ASSUME ConnectionsInv, HoldsNoMore, TasksStay
    PROVE  HoldingsShrink' /\ ActionsAreDetached'
PROOF
  <1>1. HoldingsShrink'
    BY DEF ConnectionsInv, HoldingsShrink, HoldsNoMore, Opened, Subscribed
  <1>2. ActionsAreDetached'
    BY DEF ConnectionsInv, ActionsAreDetached, HoldsNoMore, TasksStay, Opened
  <1> QED
    BY <1>1, <1>2

\* The queue of the lock: who comes last, who leaves first, who is taken out.
LEMMA LockQueues ==
    ASSUME NEW q \in Seq(Subscribers)
    PROVE  /\ \A c \in Subscribers : /\ Append(q, c) \in Seq(Subscribers)
                                     /\ ToSet(Append(q, c)) \subseteq ToSet(q) \cup {c}
                                     /\ Only(q, Subscribers \ {c}) \in Seq(Subscribers)
                                     /\ ToSet(Only(q, Subscribers \ {c})) \subseteq ToSet(q) \ {c}
           /\ q # <<>> => /\ Tail(q) \in Seq(Subscribers)
                          /\ ToSet(Tail(q)) \subseteq ToSet(q)
PROOF
  <1>1. ASSUME NEW c \in Subscribers
        PROVE  /\ Append(q, c) \in Seq(Subscribers)
               /\ ToSet(Append(q, c)) \subseteq ToSet(q) \cup {c}
    BY AppendMembers
  <1>2. ASSUME NEW S
        PROVE  /\ Only(q, S) \in Seq(Subscribers)
               /\ ToSet(Only(q, S)) \subseteq ToSet(q) \cap S
    <2>1. Only(q, S) \in Seq(Subscribers)
      BY OnlySelects
    <2>2. PICK f : Selects(f, q, S, Only(q, S))
      BY OnlySelects
    <2>3. DOMAIN Only(q, S) = 1 .. Len(Only(q, S)) /\ DOMAIN q = 1 .. Len(q)
      BY <2>1, LenProperties
    <2>4. \A k \in 1 .. Len(Only(q, S)) :
             f[k] \in 1 .. Len(q) /\ Only(q, S)[k] = q[f[k]] /\ q[f[k]] \in S
      BY <2>2 DEF Selects
    <2> QED
      BY <2>1, <2>3, <2>4 DEF ToSet
  <1>3. ASSUME q # <<>>
        PROVE  Tail(q) \in Seq(Subscribers) /\ ToSet(Tail(q)) \subseteq ToSet(q)
    BY <1>3, TailMembers
  <1> QED
    BY <1>1, <1>2, <1>3

LEMMA LockKeeps ==
    ASSUME ActionTypes, LockInv, [BridgeNext]_allVars
    PROVE  LockInv'
PROOF
  <1> USE DEF HoldsLock
  <1>1. ASSUME UNCHANGED <<lockQueue, consumer>>
        PROVE  LockInv'
    BY <1>1 DEF LockInv, LockIsHeld
  <1>2. ASSUME NEW c \in Subscribers, NEW command \in Commands[c], Consume(c, command)
        PROVE  LockInv'
    <2>1. lockQueue' = Append(lockQueue, c) /\ lockQueue \in Seq(Subscribers)
      BY <1>2 DEF Consume, LockInv
    <2>2. /\ lockQueue' \in Seq(Subscribers) /\ lockQueue' # <<>>
          /\ lockQueue # <<>> => Head(lockQueue') = Head(lockQueue)
      BY <2>1, AppendProperties, HeadTailAppend
    <2>3. \A d \in Subscribers : consumer'[d].pc = "apply" => consumer[d].pc = "apply"
      BY <1>2 DEF Consume, ActionTypes
    <2> QED
      BY <2>2, <2>3 DEF LockInv, LockIsHeld
  <1>3. ASSUME NEW c \in Subscribers, Goto(c, "apply"), HoldsLock(c), lockQueue' = lockQueue
        PROVE  LockInv'
    BY <1>3 DEF LockInv, LockIsHeld, Goto, ActionTypes
  <1>4. ASSUME NEW c \in Subscribers, NEW pc, pc # "apply", Goto(c, pc),
               \/ lockQueue' = lockQueue
               \/ HoldsLock(c) /\ lockQueue' = Tail(lockQueue)
        PROVE  LockInv'
    <2>1. lockQueue' \in Seq(Subscribers)
      BY <1>4, TailMembers DEF LockInv
    <2>2. \A d \in Subscribers : consumer'[d].pc = "apply" => d # c /\ consumer[d].pc = "apply"
      BY <1>4 DEF Goto, ActionTypes
    <2> QED
      BY <1>4, <2>1, <2>2 DEF LockInv, LockIsHeld
  <1>5. ASSUME NEW c \in Subscribers, Disconnect(c)
        PROVE  LockInv'
    <2> DEFINE S == Subscribers \ {c}
    <2>1. /\ lockQueue' = Only(lockQueue, S) /\ lockQueue \in Seq(Subscribers)
          /\ \A d \in Subscribers : consumer'[d].pc = "apply" => d \in S /\ consumer[d].pc = "apply"
      BY <1>5 DEF Disconnect, LockInv, ActionTypes
    <2>2. lockQueue' \in Seq(Subscribers)
      BY <2>1, OnlySelects
    <2>3. ASSUME NEW d \in S, HoldsLock(d)
          PROVE  lockQueue' # <<>> /\ Head(lockQueue') = d
      <3> HIDE DEF S
      <3>1. lockQueue' = Only(<<d>>, S) \o Only(Tail(lockQueue), S)
        BY <2>1, <2>3, OnlyOfHead
      <3>2. Only(<<d>>, S) = <<d>>
        BY OnlyOfOne
      <3>3. Only(Tail(lockQueue), S) \in Seq(Subscribers) /\ d \in Subscribers
        BY <2>1, <2>3, HeadTailProperties, OnlySelects DEF S
      <3> DEFINE q == Only(Tail(lockQueue), S)
      <3> HIDE DEF q
      <3>4. <<d>> \o q \in Seq(Subscribers) /\ (<<d>> \o q)[1] = d /\ Len(<<d>> \o q) = 1 + Len(q)
            /\ Len(q) \in Nat
        BY <3>3, ConcatProperties, LenProperties DEF q
      <3>5. <<d>> \o q # <<>> /\ Head(<<d>> \o q) = d
        BY <3>4, EmptySeq, HeadTailProperties
      <3> QED
        BY <3>1, <3>2, <3>5 DEF q
    <2> QED
      BY <2>1, <2>2, <2>3 DEF LockInv, LockIsHeld
  <1>6. ASSUME NEW c \in Subscribers, Authenticate(c)
        PROVE  LockInv'
    <2>1. /\ lockQueue' = lockQueue
          /\ consumer' = consumer \/ consumer' = [consumer EXCEPT ![c].pc = "read"]
      BY <1>6 DEF Authenticate
    <2>2. \A d \in Subscribers : consumer'[d].pc = "apply" => consumer[d].pc = "apply"
      BY <2>1 DEF ActionTypes
    <2> QED
      BY <2>1, <2>2 DEF LockInv, LockIsHeld
  <1>7. ASSUME NEW c \in Subscribers, DispatchKnown(c) \/ StartAction(c) \/ CancelAction(c)
        PROVE  LockInv'
    BY <1>4, <1>7 DEF DispatchKnown, StartAction, CancelAction, Fresh, Dispatching, Answer
  <1>8. ASSUME NEW c \in Subscribers, Rescan(c) \/ Stop(c)
        PROVE  LockInv'
    BY <1>3, <1>8 DEF Rescan, Stop, Fresh, Dispatching
  <1>9. ASSUME NEW c \in Subscribers, Applied(c)
        PROVE  LockInv'
    <2>1. HoldsLock(c)
      BY <1>9 DEF Applied, LockInv, LockIsHeld
    <2> QED
      BY <1>4, <1>9, <2>1 DEF Applied
  <1>10. ASSUME NEW c \in Subscribers, PublishAnswer(c) \/ AnswerPublished(c) \/ Shutdown(c)
         PROVE  LockInv'
    BY <1>4, <1>10 DEF PublishAnswer, AnswerPublished, Shutdown
  <1>11. ASSUME NEW c \in Subscribers,
                \/ Produce(c) \/ ClientReads(c) \/ DetachActions(c) \/ DetachReturns(c)
                \/ CloseConnection(c)
         PROVE  LockInv'
    BY <1>1, <1>11 DEF Produce, ClientReads, DetachActions, DetachReturns, CloseConnection
  <1>12. ASSUME NEW s \in Slots, RunAction(s)
         PROVE  LockInv'
    BY <1>1, <1>12 DEF RunAction, ActionStep
  <1>13. CASE RunRefresh
    BY <1>1, <1>13 DEF RunRefresh, RefreshStep
  <1>14. CASE CloseEvents \/ Loop \/ UNCHANGED allVars
    BY <1>1, <1>14 DEF CloseEvents, Loop, allVars, bridgeVars
  <1> QED
    BY <1>2, <1>5, <1>6, <1>7, <1>8, <1>9, <1>10, <1>11, <1>12, <1>13, <1>14
    DEF BridgeNext, ConnectionStep

\* A step of an open connection, or of none.
LEMMA OpenStep ==
    ASSUME ConnectionsInv, conn' = conn, BusInv', made' = made, closed' = closed,
           NEW cs \in SUBSET Subscribers, \A c \in cs : Opened(c),
           NEW ps \in SUBSET Publishers, OnlyStarts(ps), ps \cap Subscribers \subseteq cs,
           \A c \in Subscribers \ cs : consumer'[c].pc = consumer[c].pc,
           LockInv', ToSet(lockQueue') \subseteq ToSet(lockQueue) \cup cs,
           refresh' \in RefreshState, refresh'.awaitedBy \subseteq refresh.awaitedBy \cup cs,
           task' \in [Slots -> TaskState], TasksStay
    PROVE  ConnectionsInv'
PROOF
  <1>1. HoldsNoMore
    BY PublisherNames DEF HoldsNoMore, OnlyStarts
  <1> QED
    BY <1>1, NothingIsTakenAgain DEF ConnectionsInv, ConnectionTypes

\* Records that are changed in one field.
LEMMA Fields ==
    /\ \A t \in TaskState :
          /\ [t EXCEPT !.cancelled = TRUE] \in TaskState
          /\ [t EXCEPT !.cancelled = TRUE].cancelled
          /\ [t EXCEPT !.cancelled = TRUE].listed = t.listed
          /\ [t EXCEPT !.cancelled = TRUE].conn = t.conn
          /\ [t EXCEPT !.listed = FALSE] \in TaskState
          /\ ~[t EXCEPT !.listed = FALSE].listed
          /\ [t EXCEPT !.listed = FALSE].cancelled = t.cancelled
          /\ [t EXCEPT !.listed = FALSE].conn = t.conn
          /\ [t EXCEPT !.pc = "ended"] \in TaskState
          /\ [t EXCEPT !.pc = "ended"].listed = t.listed
          /\ [t EXCEPT !.pc = "ended"].cancelled = t.cancelled
          /\ [t EXCEPT !.pc = "ended"].conn = t.conn
    /\ \A r \in RefreshState : \A pc \in {"announce", "scan", "result", "unwind"} :
          /\ [r EXCEPT !.pc = pc] \in RefreshState
          /\ [r EXCEPT !.pc = pc].awaitedBy = r.awaitedBy
    /\ Free \in TaskState /\ Free.conn = "none"
    /\ NoRefresh \in RefreshState /\ NoRefresh.awaitedBy = {}
PROOF
  <1>1. ASSUME NEW t \in TaskState
        PROVE  /\ [t EXCEPT !.cancelled = TRUE] \in TaskState
               /\ [t EXCEPT !.cancelled = TRUE].cancelled
               /\ [t EXCEPT !.cancelled = TRUE].listed = t.listed
               /\ [t EXCEPT !.cancelled = TRUE].conn = t.conn
    BY DEF TaskState
  <1>2. ASSUME NEW t \in TaskState
        PROVE  /\ [t EXCEPT !.listed = FALSE] \in TaskState
               /\ ~[t EXCEPT !.listed = FALSE].listed
               /\ [t EXCEPT !.listed = FALSE].cancelled = t.cancelled
               /\ [t EXCEPT !.listed = FALSE].conn = t.conn
    BY DEF TaskState
  <1>3. ASSUME NEW t \in TaskState
        PROVE  /\ [t EXCEPT !.pc = "ended"] \in TaskState
               /\ [t EXCEPT !.pc = "ended"].listed = t.listed
               /\ [t EXCEPT !.pc = "ended"].cancelled = t.cancelled
               /\ [t EXCEPT !.pc = "ended"].conn = t.conn
    BY DEF TaskState
  <1>4. ASSUME NEW r \in RefreshState, NEW pc \in {"announce", "scan", "result", "unwind"}
        PROVE  /\ [r EXCEPT !.pc = pc] \in RefreshState
               /\ [r EXCEPT !.pc = pc].awaitedBy = r.awaitedBy
    BY DEF RefreshState
  <1>5. Free \in TaskState /\ Free.conn = "none"
    <2>1. "none" \in {command.id : command \in AnyCommand}
      BY CommandFacts DEF NoCommand
    <2> QED
      BY <2>1 DEF Free, TaskState
  <1>6. NoRefresh \in RefreshState /\ NoRefresh.awaitedBy = {}
    BY DEF NoRefresh, RefreshState
  <1> QED
    BY <1>1, <1>2, <1>3, <1>4, <1>5, <1>6

\* Cancelling the refresh forgets nobody who waits, and adds nobody.
LEMMA RefreshCancelled ==
    ASSUME ConnectionTypes
    PROVE  RefreshAfterCancel \in RefreshState /\ RefreshAfterCancel.awaitedBy \subseteq refresh.awaitedBy
PROOF
  <1>1. refresh \in RefreshState
    BY DEF ConnectionTypes
  <1> QED
    BY <1>1, Fields DEF RefreshAfterCancel

\* Who is not off is open.
LEMMA OpenWhileOn ==
    ASSUME ConnectionsInv, NEW c \in Subscribers, consumer[c].pc # "off"
    PROVE  Opened(c)
PROOF
  BY DEF ConnectionsInv, HoldingsShrink, Opened

LEMMA GotoLeavesOthers ==
    ASSUME ActionTypes, NEW c \in Subscribers, NEW pc, Goto(c, pc)
    PROVE  \A d \in Subscribers \ {c} : consumer'[d].pc = consumer[d].pc
PROOF
  BY DEF ActionTypes, Goto

\* Answering takes the connection from the head of the queue.
LEMMA AnswerQueue ==
    ASSUME ConnectionsInv, lockQueue # <<>>, lockQueue' = Tail(lockQueue)
    PROVE  ToSet(lockQueue') \subseteq ToSet(lockQueue)
PROOF
  BY LockQueues DEF ConnectionsInv, LockInv

LEMMA ConsumeHolds ==
    ASSUME ConnectionsInv, ActionTypes, LockInv', NEW c \in Subscribers, NEW command \in Commands[c],
           Consume(c, command)
    PROVE  ConnectionsInv'
PROOF
  <1>1. Opened(c) /\ UNCHANGED <<busVars, conn, refresh, task>>
    BY DEF Consume, Opened
  <1>2. BusInv' /\ OnlyStarts({}) /\ made' = made /\ closed' = closed
    BY <1>1, QuietBusStep DEF ConnectionsInv
  <1>3. ToSet(lockQueue') \subseteq ToSet(lockQueue) \cup {c}
    BY LockQueues DEF Consume, ConnectionsInv, LockInv
  <1>4. \A d \in Subscribers \ {c} : consumer'[d].pc = consumer[d].pc
    BY DEF Consume, ActionTypes
  <1>5. TasksStay /\ task' \in [Slots -> TaskState] /\ refresh' \in RefreshState
    BY <1>1 DEF TasksStay, ConnectionsInv, ConnectionTypes
  <1> QED
    BY <1>1, <1>2, <1>3, <1>4, <1>5, OpenStep

LEMMA DispatchHolds ==
    ASSUME ConnectionsInv, ActionTypes, LockInv', NEW c \in Subscribers,
           DispatchKnown(c) \/ StartAction(c) \/ CancelAction(c)
    PROVE  ConnectionsInv'
PROOF
  <1>1. /\ Dispatching(c) /\ Answer(c) /\ UNCHANGED <<busVars, conn, refresh>>
        /\ Opened(c) /\ lockQueue # <<>>
    BY DEF DispatchKnown, StartAction, CancelAction, Fresh, Dispatching, HoldsLock, Opened
  <1>2. BusInv' /\ OnlyStarts({}) /\ made' = made /\ closed' = closed
    BY <1>1, QuietBusStep DEF ConnectionsInv
  <1>3. ToSet(lockQueue') \subseteq ToSet(lockQueue)
    BY <1>1, AnswerQueue DEF Answer
  <1>4. \A d \in Subscribers \ {c} : consumer'[d].pc = consumer[d].pc
    BY <1>1, GotoLeavesOthers DEF Answer
  <1>5. task \in [Slots -> TaskState] /\ refresh \in RefreshState
    BY DEF ConnectionsInv, ConnectionTypes
  <1>6. TasksStay /\ task' \in [Slots -> TaskState]
    <2>1. CASE task' = task
      BY <1>5, <2>1 DEF TasksStay
    <2>2. ASSUME NEW slots, CancelActions(slots)
          PROVE  TasksStay /\ task' \in [Slots -> TaskState]
      BY <1>5, <2>2, Fields DEF TasksStay, CancelActions
    <2>3. CASE StartAction(c) /\ Admissible(c)
      <3> DEFINE slot == CHOOSE s \in Slots : task[s] = Free
                 action == [pc |-> "execute", id |-> consumer[c].command.id, conn |-> c,
                            listed |-> TRUE, cancelled |-> FALSE]
      <3>1. task' = [task EXCEPT ![slot] = action]
        BY <2>3 DEF StartAction
      <3>2. action \in TaskState /\ action.conn = c /\ action.listed
        BY DEF ActionTypes, TaskState
      <3> HIDE DEF slot, action
      <3>3. \A s \in Slots : task'[s] = task[s] \/ task'[s] = action
        BY <1>5, <3>1
      <3> QED
        BY <1>1, <1>5, <3>1, <3>2, <3>3 DEF TasksStay
    <2> QED
      BY <2>1, <2>2, <2>3 DEF DispatchKnown, StartAction, CancelAction
  <1> QED
    BY <1>1, <1>2, <1>3, <1>4, <1>5, <1>6, OpenStep

LEMMA RescanHolds ==
    ASSUME ConnectionsInv, ActionTypes, LockInv', NEW c \in Subscribers, Rescan(c)
    PROVE  ConnectionsInv'
PROOF
  <1>1. /\ Opened(c) /\ running = "none" /\ Abandon({"refresh"}, {})
        /\ UNCHANGED <<conn, lockQueue, task>>
    BY DEF Rescan, Fresh, Dispatching, Opened
  <1>2. BusInv' /\ OnlyStarts({}) /\ made' = made /\ closed' = closed
    BY <1>1, AbandonStep, PublisherNames DEF ConnectionsInv
  <1>3. \A d \in Subscribers \ {c} : consumer'[d].pc = consumer[d].pc
    BY GotoLeavesOthers DEF Rescan
  <1>4. refresh' \in RefreshState /\ refresh'.awaitedBy \subseteq refresh.awaitedBy \cup {c}
    <2> DEFINE r == RefreshAfterCancel
    <2>1. r \in RefreshState /\ r.awaitedBy \subseteq refresh.awaitedBy
      BY RefreshCancelled DEF ConnectionsInv
    <2>2. \/ refresh' = NoRefresh
          \/ refresh' = [r EXCEPT !.stale = TRUE, !.awaitedBy = @ \cup {c}]
      BY DEF Rescan
    <2> HIDE DEF r
    <2>3. /\ [r EXCEPT !.stale = TRUE, !.awaitedBy = @ \cup {c}] \in RefreshState
          /\ [r EXCEPT !.stale = TRUE, !.awaitedBy = @ \cup {c}].awaitedBy
                = r.awaitedBy \cup {c}
      BY <2>1 DEF RefreshState
    <2> QED
      BY <2>1, <2>2, <2>3, Fields, ZenonT(60)
  <1>5. TasksStay /\ task' \in [Slots -> TaskState]
    BY <1>1 DEF TasksStay, ConnectionsInv, ConnectionTypes
  <1> QED
    BY <1>1, <1>2, <1>3, <1>4, <1>5, OpenStep

LEMMA PublishingHolds ==
    ASSUME ConnectionsInv, ActionTypes, LockInv', NEW c \in Subscribers, Stop(c) \/ PublishAnswer(c)
    PROVE  ConnectionsInv'
PROOF
  <1>1. Opened(c) /\ UNCHANGED <<conn, lockQueue, task, refresh>>
    BY DEF Stop, PublishAnswer, Fresh, Dispatching, Opened
  <1>2. BusInv' /\ OnlyStarts({c}) /\ made' = made /\ closed' = closed
    BY PublishStep, PublisherNames DEF Stop, PublishAnswer, ConnectionsInv
  <1>3. \A d \in Subscribers \ {c} : consumer'[d].pc = consumer[d].pc
    BY GotoLeavesOthers DEF Stop, PublishAnswer
  <1>4. /\ TasksStay /\ task' \in [Slots -> TaskState]
        /\ refresh' \in RefreshState
    BY <1>1 DEF TasksStay, ConnectionsInv, ConnectionTypes
  <1> QED
    BY <1>1, <1>2, <1>3, <1>4, OpenStep, PublisherNames

LEMMA AppliedHolds ==
    ASSUME ConnectionsInv, ActionTypes, LockInv', NEW c \in Subscribers, Applied(c)
    PROVE  ConnectionsInv'
PROOF
  <1>1. Opened(c) /\ UNCHANGED <<conn, task>>
    BY DEF Applied, Opened
  <1>2. BusInv' /\ OnlyStarts({}) /\ made' = made /\ closed' = closed
    BY AbandonStep, QuietBusStep, PublisherNames DEF Applied, ConnectionsInv
  <1>3. \A d \in Subscribers \ {c} : consumer'[d].pc = consumer[d].pc
    BY GotoLeavesOthers DEF Applied
  <1>4. refresh' \in RefreshState /\ refresh'.awaitedBy \subseteq refresh.awaitedBy
    <2>1. \/ refresh' = [pc |-> "announce", stale |-> FALSE, awaitedBy |-> {}]
          \/ refresh' = RefreshAfterCancel \/ refresh' = refresh
      BY DEF Applied
    <2>2. /\ [pc |-> "announce", stale |-> FALSE, awaitedBy |-> {}] \in RefreshState
          /\ [pc |-> "announce", stale |-> FALSE, awaitedBy |-> {}].awaitedBy = {}
      BY DEF RefreshState
    <2> QED
      BY <2>1, <2>2, RefreshCancelled DEF ConnectionsInv, ConnectionTypes
  <1>5. ToSet(lockQueue') \subseteq ToSet(lockQueue)
    BY AnswerQueue DEF Applied, ConnectionsInv, LockInv, LockIsHeld, HoldsLock
  <1>6. TasksStay /\ task' \in [Slots -> TaskState]
    BY <1>1 DEF TasksStay, ConnectionsInv, ConnectionTypes
  <1> QED
    BY <1>1, <1>2, <1>3, <1>4, <1>5, <1>6, OpenStep

LEMMA QuietHolds ==
    ASSUME ConnectionsInv, ActionTypes, LockInv', NEW c \in Subscribers,
           \/ AnswerPublished(c) \/ Shutdown(c) \/ Produce(c) \/ ClientReads(c)
    PROVE  ConnectionsInv'
PROOF
  <1>1. UNCHANGED <<conn, lockQueue, task, refresh>>
    BY DEF AnswerPublished, Shutdown, Produce, ClientReads
  <1>2. BusInv' /\ OnlyStarts({}) /\ made' = made /\ closed' = closed
    <2>1. CASE Get(c)
      BY <2>1, GetKeeps DEF ConnectionsInv, Get, OnlyStarts, Idle
    <2> QED
      BY <2>1, QuietBusStep DEF AnswerPublished, Shutdown, Produce, ClientReads, ConnectionsInv
  <1>3. /\ TasksStay /\ task' \in [Slots -> TaskState]
        /\ refresh' \in RefreshState
    BY <1>1 DEF TasksStay, ConnectionsInv, ConnectionTypes
  <1>4. CASE consumer' = consumer
    BY <1>1, <1>2, <1>3, <1>4, OpenStep
  <1>5. CASE AnswerPublished(c) \/ Shutdown(c)
    <2>1. Opened(c)
      BY <1>5, OpenWhileOn DEF AnswerPublished, Shutdown
    <2>2. \A d \in Subscribers \ {c} : consumer'[d].pc = consumer[d].pc
      BY <1>5, GotoLeavesOthers DEF AnswerPublished, Shutdown
    <2> QED
      BY <1>1, <1>2, <1>3, <2>1, <2>2, OpenStep
  <1> QED
    BY <1>4, <1>5 DEF Produce, ClientReads

LEMMA ActionStepHolds ==
    ASSUME ConnectionsInv, ActionTypes, LockInv', NEW s \in Slots,
           NEW from, NEW publishes, ActionStep(s, from, publishes),
           task' = [task EXCEPT ![s].pc = "ended"] \/ Forgets(s)
    PROVE  ConnectionsInv'
PROOF
  <1>1. ActionStep(s, from, publishes)
    OBVIOUS
  <1>2. UNCHANGED <<conn, consumer, lockQueue, refresh>>
    BY <1>1 DEF ActionStep
  <1>3. BusInv' /\ OnlyStarts({s}) /\ made' = made /\ closed' = closed
    <2>1. CASE publishes
      BY <1>1, <2>1, PublishStep, PublisherNames DEF ActionStep, ConnectionsInv
    <2>2. CASE ~publishes
      BY <1>1, <2>2, QuietBusStep DEF ActionStep, ConnectionsInv, OnlyStarts
    <2> QED
      BY <2>1, <2>2
  <1>4. task \in [Slots -> TaskState] /\ refresh \in RefreshState
    BY DEF ConnectionsInv, ConnectionTypes
  <1>5. TasksStay /\ task' \in [Slots -> TaskState]
    <2>1. \/ task' = [task EXCEPT ![s] = Free]
          \/ task' = [task EXCEPT ![s] = [task[s] EXCEPT !.pc = "ended"]]
      BY DEF Forgets
    <2> DEFINE u == [task[s] EXCEPT !.pc = "ended"]
    <2>2. /\ u \in TaskState /\ u.conn = task[s].conn /\ u.listed = task[s].listed
          /\ u.cancelled = task[s].cancelled
      <3>1. task[s] \in TaskState
        BY <1>4
      <3> QED
        BY <3>1, Fields
    <2> HIDE DEF u
    <2>3. /\ task' \in [Slots -> TaskState]
          /\ \A r \in Slots : \/ task'[r] = task[r] \/ task'[r] = Free
                              \/ r = s /\ task'[r] = u
      BY <1>4, <2>1, <2>2, Fields DEF u
    <2> QED
      BY <2>2, <2>3, Fields DEF TasksStay
  <1>6. s \in Publishers /\ s \notin Subscribers
    BY PublisherNames
  <1>7. /\ {s} \in SUBSET Publishers /\ {s} \cap Subscribers = {}
        /\ ToSet(lockQueue') = ToSet(lockQueue)
    BY <1>2, <1>6
  <1> QED
    BY <1>2, <1>3, <1>4, <1>5, <1>7, OpenStep

LEMMA RunActionHolds ==
    ASSUME ConnectionsInv, ActionTypes, LockInv', NEW s \in Slots, RunAction(s)
    PROVE  ConnectionsInv'
PROOF
  BY ActionStepHolds DEF RunAction

LEMMA RefreshStepHolds ==
    ASSUME ConnectionsInv, ActionTypes, LockInv',
           NEW from, NEW to \in {"scan", "result", "none"}, NEW publishes,
           RefreshStep(from, to, publishes)
    PROVE  ConnectionsInv'
PROOF
  <1>1. RefreshStep(from, to, publishes)
    OBVIOUS
  <1>2. UNCHANGED <<conn, consumer, lockQueue, task>>
    BY <1>1 DEF RefreshStep
  <1>3. BusInv' /\ OnlyStarts({"refresh"}) /\ made' = made /\ closed' = closed
    <2>1. CASE publishes
      BY <1>1, <2>1, PublishStep, PublisherNames DEF RefreshStep, ConnectionsInv
    <2>2. CASE ~publishes
      BY <1>1, <2>2, QuietBusStep DEF RefreshStep, ConnectionsInv, OnlyStarts
    <2> QED
      BY <2>1, <2>2
  <1>4. refresh \in RefreshState /\ task' \in [Slots -> TaskState] /\ TasksStay
    BY <1>2 DEF ConnectionsInv, ConnectionTypes, TasksStay
  <1>5. refresh' \in RefreshState /\ refresh'.awaitedBy \subseteq refresh.awaitedBy
    <2>1. \/ refresh' = NoRefresh
          \/ to \in {"scan", "result"} /\ refresh' = [refresh EXCEPT !.pc = to]
      BY <1>1 DEF RefreshStep
    <2>2. to \in {"scan", "result"} => /\ [refresh EXCEPT !.pc = to] \in RefreshState
                                      /\ [refresh EXCEPT !.pc = to].awaitedBy = refresh.awaitedBy
      BY <1>4, Fields
    <2> QED
      BY <2>1, <2>2, Fields, ZenonT(60)
  <1>6. /\ {"refresh"} \in SUBSET Publishers /\ {"refresh"} \cap Subscribers = {}
        /\ ToSet(lockQueue') = ToSet(lockQueue)
    BY <1>2, PublisherNames
  <1> QED
    BY <1>2, <1>3, <1>4, <1>5, <1>6, OpenStep

LEMMA RunRefreshHolds ==
    ASSUME ConnectionsInv, ActionTypes, LockInv', RunRefresh
    PROVE  ConnectionsInv'
PROOF
  BY RefreshStepHolds DEF RunRefresh

LEMMA OtherStepsHold ==
    ASSUME ConnectionsInv, ActionTypes, LockInv', CloseEvents \/ Loop \/ UNCHANGED allVars
    PROVE  ConnectionsInv'
PROOF
  <1>1. UNCHANGED bridgeVars
    BY DEF CloseEvents, Loop, allVars
  <1>2. BusInv' /\ OnlyStarts({}) /\ made' = made /\ closed \subseteq closed'
    <2>1. CASE CloseEvents
      BY <2>1, CloseKeeps
      DEF CloseEvents, CloseBus, MarkClosed, Subscribed, ConnectionsInv, OnlyStarts, Idle
    <2>2. CASE Loop
      BY <2>2, LoopStep DEF Loop, ConnectionsInv
    <2>3. CASE UNCHANGED allVars
      BY <2>3, QuietBusStep DEF allVars, ConnectionsInv
    <2> QED
      BY <2>1, <2>2, <2>3
  <1>3. HoldsNoMore /\ TasksStay
    BY <1>1, <1>2, PublisherNames DEF bridgeVars, HoldsNoMore, TasksStay, OnlyStarts
  <1> QED
    BY <1>1, <1>2, <1>3, NothingIsTakenAgain DEF ConnectionsInv, ConnectionTypes, bridgeVars

LEMMA AuthenticateHolds ==
    ASSUME ConnectionsInv, ActionTypes, LockInv', NEW c \in Subscribers, Authenticate(c)
    PROVE  ConnectionsInv'
PROOF
  <1>1. /\ conn[c] = "new" /\ UNCHANGED <<lockQueue, task, refresh>>
        /\ \A d \in Subscribers : d # c => conn'[d] = conn[d] /\ consumer'[d] = consumer[d]
    BY DEF Authenticate, ActionTypes
  <1>2. /\ c \notin made /\ consumer[c].pc = "off" /\ Idle(c) /\ c \notin ToSet(lockQueue)
        /\ c \notin refresh.awaitedBy /\ \A s \in Slots : task[s].conn # c
    BY <1>1, PublisherNames DEF ConnectionsInv, HoldingsShrink, ActionsAreDetached
  <1>3. BusInv' /\ OnlyStarts({})
    BY SubscribeKeeps, QuietBusStep DEF Authenticate, Subscribe, ConnectionsInv, OnlyStarts, Idle
  <1>4. /\ closed' = closed
        /\ \/ conn'[c] = "open" /\ made' = made \cup {c}
           \/ conn'[c] = "gone" /\ made' = made /\ consumer' = consumer
    BY DEF Authenticate, Subscribe, ActionTypes, busVars
  <1>5. HoldingsShrink'
    <2>1. \A d \in Subscribers : Idle(d) => Idle(d)'
      BY <1>3, PublisherNames DEF OnlyStarts
    <2> SUFFICES ASSUME NEW d \in Subscribers
                 PROVE  /\ conn'[d] # "open" =>
                              consumer'[d].pc = "off" /\ Idle(d)' /\ d \notin ToSet(lockQueue')
                        /\ conn'[d] = "new" => d \notin made'
                        /\ d \in Subscribed' => conn'[d] # "gone"
                        /\ d \in refresh'.awaitedBy => conn'[d] \in {"open", "leaving"}
      BY DEF HoldingsShrink
    <2>2. CASE d = c
      BY <1>1, <1>2, <1>4, <2>1, <2>2 DEF Subscribed
    <2>3. CASE d # c
      BY <1>1, <1>4, <2>1, <2>3 DEF ConnectionsInv, HoldingsShrink, Subscribed
    <2> QED
      BY <2>2, <2>3
  <1>6. ActionsAreDetached'
    <2>1. \A s \in Slots : task'[s] = task[s] /\ task[s].conn # c
      BY <1>1, <1>2
    <2>2. \A s \in Slots : task[s].conn \in Subscribers \cup {"none"}
      BY DEF ConnectionsInv, ConnectionTypes, TaskState
    <2>3. \A s \in Slots : task[s].conn # "none" => conn'[task[s].conn] = conn[task[s].conn]
      BY <1>1, <2>1, <2>2
    <2> QED
      BY <2>1, <2>3 DEF ActionsAreDetached, ConnectionsInv
  <1> QED
    BY <1>1, <1>3, <1>5, <1>6 DEF ConnectionsInv, ConnectionTypes

LEMMA DisconnectHolds ==
    ASSUME ConnectionsInv, ActionTypes, LockInv', NEW c \in Subscribers, Disconnect(c)
    PROVE  ConnectionsInv'
PROOF
  <1>1. /\ conn[c] = "open" /\ conn'[c] = "leaving" /\ consumer'[c].pc = "off" /\ task' = task
        /\ \A d \in Subscribers : d # c => conn'[d] = conn[d] /\ consumer'[d] = consumer[d]
    BY DEF Disconnect, ActionTypes, NoCommand
  <1>2. /\ BusInv' /\ OnlyStarts({}) /\ made' = made /\ closed' = closed /\ Idle(c)'
    <2>1. {c, "refresh"} \in SUBSET Publishers
      BY PublisherNames
    <2> QED
      BY <2>1, AbandonStep DEF Disconnect, ConnectionsInv
  <1>3. ToSet(lockQueue') \subseteq ToSet(lockQueue) \ {c}
    BY LockQueues DEF Disconnect, ConnectionsInv, LockInv
  <1>4. refresh' \in RefreshState /\ refresh'.awaitedBy \subseteq refresh.awaitedBy \cup {c}
    <2> DEFINE r == RefreshAfterCancel
    <2>1. r \in RefreshState /\ r.awaitedBy \subseteq refresh.awaitedBy
      BY RefreshCancelled DEF ConnectionsInv
    <2>2. refresh' = NoRefresh \/ refresh' = [r EXCEPT !.awaitedBy = @ \cup {c}]
      BY DEF Disconnect
    <2> HIDE DEF r
    <2>3. /\ [r EXCEPT !.awaitedBy = @ \cup {c}] \in RefreshState
          /\ [r EXCEPT !.awaitedBy = @ \cup {c}].awaitedBy = r.awaitedBy \cup {c}
      BY <2>1 DEF RefreshState
    <2> QED
      BY <2>1, <2>2, <2>3, Fields, ZenonT(60)
  <1>5. HoldingsShrink'
    <2>1. \A d \in Subscribers : Idle(d) => Idle(d)'
      BY <1>2, PublisherNames DEF OnlyStarts
    <2> SUFFICES ASSUME NEW d \in Subscribers
                 PROVE  /\ conn'[d] # "open" =>
                              consumer'[d].pc = "off" /\ Idle(d)' /\ d \notin ToSet(lockQueue')
                        /\ conn'[d] = "new" => d \notin made'
                        /\ d \in Subscribed' => conn'[d] # "gone"
                        /\ d \in refresh'.awaitedBy => conn'[d] \in {"open", "leaving"}
      BY DEF HoldingsShrink
    <2>2. CASE d = c
      BY <1>1, <1>2, <1>3, <2>2
    <2>3. CASE d # c
      BY <1>1, <1>2, <1>3, <1>4, <2>1, <2>3 DEF ConnectionsInv, HoldingsShrink, Subscribed
    <2> QED
      BY <2>2, <2>3
  <1>6. ActionsAreDetached'
    <2>1. \A s \in Slots : task[s].conn \in Subscribers \cup {"none"}
      BY DEF ConnectionsInv, ConnectionTypes, TaskState
    <2> SUFFICES ASSUME NEW s \in Slots, task[s].conn # "none"
                 PROVE  /\ conn'[task[s].conn] # "new"
                        /\ conn'[task[s].conn] \in {"open", "leaving", "detaching"} => task[s].listed
                        /\ conn'[task[s].conn] \in {"closing", "gone"} => ~task[s].listed
                        /\ conn'[task[s].conn] \in {"detaching", "closing", "gone"} => task[s].cancelled
      BY <1>1 DEF ActionsAreDetached
    <2> QED
      BY <1>1, <2>1 DEF ConnectionsInv, ActionsAreDetached
  <1> QED
    BY <1>1, <1>2, <1>4, <1>5, <1>6 DEF ConnectionsInv, ConnectionTypes

LEMMA DetachHolds ==
    ASSUME ConnectionsInv, ActionTypes, LockInv', NEW c \in Subscribers,
           DetachActions(c) \/ DetachReturns(c) \/ CloseConnection(c)
    PROVE  ConnectionsInv'
PROOF
  <1>1. /\ UNCHANGED <<consumer, lockQueue, refresh>>
        /\ \A d \in Subscribers : d # c => conn'[d] = conn[d]
        /\ \/ conn[c] = "leaving" /\ conn'[c] = "detaching" /\ c \notin refresh.awaitedBy
           \/ conn[c] = "detaching" /\ conn'[c] = "closing"
           \/ conn[c] = "closing" /\ conn'[c] = "gone"
    BY DEF DetachActions, DetachReturns, CloseConnection, ActionTypes
  <1>2. /\ BusInv' /\ OnlyStarts({}) /\ made' = made /\ closed \subseteq closed'
        /\ conn'[c] = "gone" => c \notin Subscribed'
    <2>1. CASE CloseConnection(c)
      <3>1. /\ Unsubscribe(c) /\ {c} \in SUBSET made /\ MarkClosed({c}) /\ running = "none"
            /\ busClosed' \in BOOLEAN
        BY <2>1 DEF CloseConnection, Unsubscribe, Subscribed, ConnectionsInv, BusInv, BusTypeInv
      <3>2. BusInv'
        BY <3>1, CloseKeeps DEF ConnectionsInv
      <3> QED
        BY <3>1, <3>2 DEF MarkClosed, OnlyStarts, Idle, Subscribed
    <2>2. CASE UNCHANGED busVars /\ conn'[c] # "gone"
      BY <2>2, QuietBusStep DEF ConnectionsInv
    <2> QED
      BY <1>1, <2>1, <2>2 DEF DetachActions, DetachReturns
  <1>3. HoldingsShrink'
    <2>1. \A d \in Subscribers : Idle(d) => Idle(d)'
      BY <1>2, PublisherNames DEF OnlyStarts
    <2> SUFFICES ASSUME NEW d \in Subscribers
                 PROVE  /\ conn'[d] # "open" =>
                              consumer'[d].pc = "off" /\ Idle(d)' /\ d \notin ToSet(lockQueue')
                        /\ conn'[d] = "new" => d \notin made'
                        /\ d \in Subscribed' => conn'[d] # "gone"
                        /\ d \in refresh'.awaitedBy => conn'[d] \in {"open", "leaving"}
      BY DEF HoldingsShrink
    <2>2. CASE d = c
      BY <1>1, <1>2, <2>1, <2>2 DEF ConnectionsInv, HoldingsShrink
    <2>3. CASE d # c
      BY <1>1, <1>2, <2>1, <2>3 DEF ConnectionsInv, HoldingsShrink, Subscribed
    <2> QED
      BY <2>2, <2>3
  <1>4. task \in [Slots -> TaskState] /\ \A s \in Slots : task[s].conn \in Subscribers \cup {"none"}
    BY DEF ConnectionsInv, ConnectionTypes, TaskState
  <1>5. /\ task' \in [Slots -> TaskState]
        /\ \A s \in Slots :
              /\ task'[s].conn = task[s].conn
              /\ task[s].conn # c => task'[s] = task[s]
              /\ task[s].conn = c /\ conn[c] = "leaving" =>
                     task'[s].listed = task[s].listed /\ (task[s].listed => task'[s].cancelled)
              /\ task[s].conn = c /\ conn[c] = "detaching" =>
                     ~task'[s].listed /\ task'[s].cancelled = task[s].cancelled
              /\ task[s].conn = c /\ conn[c] = "closing" => task'[s] = task[s]
    <2>1. CASE DetachActions(c)
      <3>1. conn[c] = "leaving" /\ CancelActions(ListedOf(c))
        BY <2>1 DEF DetachActions
      <3>2. task' = [s \in Slots |-> IF task[s].listed /\ task[s].conn = c
                             THEN [task[s] EXCEPT !.cancelled = TRUE] ELSE task[s]]
        BY <3>1 DEF CancelActions, ListedOf
      <3>3. task' \in [Slots -> TaskState]
        BY <1>4, <3>2, Fields
      <3>4. \A s \in Slots : /\ task[s].listed /\ task[s].conn = c =>
                                     task'[s] = [task[s] EXCEPT !.cancelled = TRUE]
                             /\ ~(task[s].listed /\ task[s].conn = c) => task'[s] = task[s]
        BY <3>2
      <3>5. ASSUME NEW s \in Slots
            PROVE  /\ task'[s].conn = task[s].conn
                   /\ task[s].conn # c => task'[s] = task[s]
                   /\ task'[s].listed = task[s].listed
                   /\ task[s].conn = c /\ task[s].listed => task'[s].cancelled
        <4>1. task[s] \in TaskState
          BY <1>4
        <4>2. CASE task[s].listed /\ task[s].conn = c
          <5>1. task'[s] = [task[s] EXCEPT !.cancelled = TRUE]
            BY <3>4, <4>2
          <5> DEFINE t == task[s]
                     u == [t EXCEPT !.cancelled = TRUE]
          <5>2. u.cancelled /\ u.listed = t.listed /\ u.conn = t.conn
            <6>1. t \in TaskState
              BY <4>1
            <6> HIDE DEF t
            <6> QED
              BY <6>1, Fields
          <5>3. task'[s] = u /\ t = task[s]
            BY <5>1
          <5> HIDE DEF t, u
          <5>4. t.conn = c
            BY <4>2, <5>3
          <5> QED
            BY <5>2, <5>3, <5>4, Zenon
        <4>3. CASE ~(task[s].listed /\ task[s].conn = c)
          BY <3>4, <4>3
        <4> QED
          BY <4>2, <4>3
      <3> QED
        BY <3>1, <3>3, <3>5
    <2>2. CASE DetachReturns(c)
      <3>1. /\ conn[c] = "detaching"
            /\ task' = [s \in Slots |-> IF task[s].conn = c
                                THEN [task[s] EXCEPT !.listed = FALSE] ELSE task[s]]
        BY <2>2 DEF DetachReturns
      <3>2. task' \in [Slots -> TaskState]
        BY <1>4, <3>1, Fields
      <3>3. \A s \in Slots : /\ task[s].conn = c => task'[s] = [task[s] EXCEPT !.listed = FALSE]
                             /\ task[s].conn # c => task'[s] = task[s]
        BY <3>1
      <3> QED
        BY <1>4, <3>1, <3>2, <3>3, Fields
    <2>3. CASE CloseConnection(c)
      BY <1>4, <2>3 DEF CloseConnection
    <2> QED
      BY <2>1, <2>2, <2>3
  <1>6. ActionsAreDetached'
    <2> SUFFICES ASSUME NEW s \in Slots, task'[s].conn # "none"
                 PROVE  /\ conn'[task'[s].conn] # "new"
                        /\ conn'[task'[s].conn] \in {"open", "leaving", "detaching"} => task'[s].listed
                        /\ conn'[task'[s].conn] \in {"closing", "gone"} => ~task'[s].listed
                        /\ conn'[task'[s].conn] \in {"detaching", "closing", "gone"} => task'[s].cancelled
      BY DEF ActionsAreDetached
    <2>1. /\ task[s].conn # "none" /\ task[s].conn \in Subscribers /\ conn[task[s].conn] # "new"
          /\ conn[task[s].conn] \in {"open", "leaving", "detaching"} => task[s].listed
          /\ conn[task[s].conn] \in {"closing", "gone"} => ~task[s].listed
          /\ conn[task[s].conn] \in {"detaching", "closing", "gone"} => task[s].cancelled
      BY <1>4, <1>5 DEF ConnectionsInv, ActionsAreDetached
    <2>2. CASE task[s].conn = c
      BY <1>1, <1>5, <2>1, <2>2
    <2>3. CASE task[s].conn # c
      BY <1>1, <1>5, <2>1, <2>3
    <2> QED
      BY <2>2, <2>3
  <1> QED
    BY <1>1, <1>2, <1>3, <1>5, <1>6 DEF ConnectionsInv, ConnectionTypes

LEMMA ConnectionsStart == BridgeInit => ConnectionsInv
PROOF
  <1> SUFFICES ASSUME BridgeInit PROVE ConnectionsInv
    OBVIOUS
  <1>1. BusInv
    BY BusStarts DEF BridgeInit
  <1>2. ConnectionTypes /\ ActionsAreDetached
    BY Fields DEF BridgeInit, ConnectionTypes, ActionsAreDetached
  <1>3. LockInv
    BY EmptySeq DEF BridgeInit, LockInv, LockIsHeld
  <1>4. HoldingsShrink
    <2>1. ToSet(<<>>) = {} /\ NoRefresh.awaitedBy = {}
      BY Fields DEF ToSet
    <2>2. Subscribed = {} /\ made = {} /\ \A c \in Subscribers : Idle(c)
      BY PublisherNames DEF BridgeInit, BusInit, Subscribed, Idle
    <2> QED
      BY <2>1, <2>2 DEF BridgeInit, HoldingsShrink
  <1> QED
    BY <1>1, <1>2, <1>3, <1>4 DEF ConnectionsInv

LEMMA ConnectionsStep ==
    ASSUME ConnectionsInv, ActionTypes, [BridgeNext]_allVars
    PROVE  ConnectionsInv'
PROOF
  <1>1. LockInv'
    BY LockKeeps DEF ConnectionsInv
  <1>2. ASSUME NEW c \in Subscribers, ConnectionStep(c) \/ Authenticate(c) \/ ClientReads(c) \/ Disconnect(c)
        PROVE  ConnectionsInv'
    BY <1>1, <1>2, DispatchHolds, RescanHolds, PublishingHolds, AppliedHolds, QuietHolds,
       AuthenticateHolds, DisconnectHolds, DetachHolds
    DEF ConnectionStep
  <1>3. ASSUME NEW c \in Subscribers, NEW command \in Commands[c], Consume(c, command)
        PROVE  ConnectionsInv'
    BY <1>1, <1>3, ConsumeHolds
  <1>4. ASSUME NEW s \in Slots, RunAction(s)
        PROVE  ConnectionsInv'
    BY <1>1, <1>4, RunActionHolds
  <1>5. CASE RunRefresh \/ CloseEvents \/ Loop \/ UNCHANGED allVars
    BY <1>1, <1>5, RunRefreshHolds, OtherStepsHold
  <1> QED
    BY <1>2, <1>3, <1>4, <1>5 DEF BridgeNext

\* A connection that is gone holds nothing: neither the lock nor a place in its
\* queue, no listed action, no subscription and no task that waits for it
\* (websocket.py _handle_connection, agency.py detach, bus.py close).
THEOREM ConnectionsLetGo == BridgeSpec => []NothingOutlivesConnection
PROOF
  <1>1. ActionsInv /\ ConnectionsInv /\ [BridgeNext]_allVars => ActionsInv' /\ ConnectionsInv'
    BY StepKeeps, ConnectionsStep DEF ActionsInv
  <1>2. ConnectionsInv => NothingOutlivesConnection
    <2> SUFFICES ASSUME ConnectionsInv, NEW c \in Subscribers, conn[c] = "gone"
                 PROVE  /\ c \notin ToSet(lockQueue) /\ consumer[c].pc = "off" /\ Idle(c)
                        /\ c \notin Subscribed /\ c \notin refresh.awaitedBy
                        /\ \A s \in Slots : task[s].conn = c => ~task[s].listed /\ task[s].cancelled
                        /\ \A w \in waiting : c \notin {w[1], w[2]}
      BY DEF NothingOutlivesConnection
    <2>1. /\ c \notin ToSet(lockQueue) /\ consumer[c].pc = "off" /\ Idle(c)
          /\ c \notin Subscribed /\ c \notin refresh.awaitedBy
      BY DEF ConnectionsInv, HoldingsShrink
    <2>2. \A s \in Slots : task[s].conn = c => ~task[s].listed /\ task[s].cancelled
      BY PublisherNames DEF ConnectionsInv, ActionsAreDetached
    <2>3. \A w \in waiting : c \notin {w[1], w[2]}
      <3> TAKE w \in waiting
      <3>1. w[2] # c
        BY <2>1 DEF ConnectionsInv, BusInv, NobodyWaitsInVain
      <3>2. w[1] # c
        <4>1. todo[c] = {} /\ c # "reader"
          BY <2>1, PublisherNames, BusAssumption DEF ConnectionsInv, BusInv, PublishersAreSound
        <4> QED
          BY <4>1 DEF ConnectionsInv, BusInv, NobodyWaitsInVain
      <3> QED
        BY <3>1, <3>2
    <2> QED
      BY <2>1, <2>2, <2>3
  <1> QED
    BY InitHolds, ConnectionsStart, <1>1, <1>2, PTL DEF BridgeSpec

-----------------------------------------------------------------------------
(* The actions of one request. *)

\* What an action is of stays, and what it has lost it does not get back.
TasksGoOn ==
    \A s \in Slots : \/ task'[s].conn = "none"
                     \/ /\ task'[s].conn = task[s].conn /\ task'[s].id = task[s].id
                        /\ task[s].cancelled => task'[s].cancelled
                        /\ task'[s].listed => task[s].listed

LEMMA GoingOnKeeps ==
    ASSUME OneOfRequest, TasksGoOn
    PROVE  OneOfRequest'
PROOF
  BY DEF OneOfRequest, Running, TasksGoOn

\* Cancelling and detaching, running and ending: no action begins.
LEMMA ActionsGoOn ==
    ASSUME ConnectionsInv,
           \/ task' = task
           \/ \E slots \in SUBSET Slots : CancelActions(slots)
           \/ \E c \in Subscribers : DetachReturns(c)
           \/ \E s \in Slots : RunAction(s)
    PROVE  TasksGoOn
PROOF
  <1>1. task \in [Slots -> TaskState]
    BY DEF ConnectionsInv, ConnectionTypes
  <1>2. ASSUME NEW t \in TaskState
        PROVE  /\ [t EXCEPT !.cancelled = TRUE].conn = t.conn
               /\ [t EXCEPT !.cancelled = TRUE].id = t.id
               /\ [t EXCEPT !.cancelled = TRUE].cancelled
               /\ [t EXCEPT !.cancelled = TRUE].listed = t.listed
               /\ [t EXCEPT !.listed = FALSE].conn = t.conn
               /\ [t EXCEPT !.listed = FALSE].id = t.id
               /\ [t EXCEPT !.listed = FALSE].cancelled = t.cancelled
               /\ ~[t EXCEPT !.listed = FALSE].listed
               /\ [t EXCEPT !.pc = "ended"].conn = t.conn
               /\ [t EXCEPT !.pc = "ended"].id = t.id
               /\ [t EXCEPT !.pc = "ended"].cancelled = t.cancelled
               /\ [t EXCEPT !.pc = "ended"].listed = t.listed
    BY DEF TaskState
  <1>3. ASSUME NEW slots \in SUBSET Slots, CancelActions(slots)
        PROVE  TasksGoOn
    BY <1>1, <1>2, <1>3 DEF CancelActions, TasksGoOn
  <1>4. ASSUME NEW c \in Subscribers, DetachReturns(c)
        PROVE  TasksGoOn
    BY <1>1, <1>2, <1>4 DEF DetachReturns, TasksGoOn
  <1>5. ASSUME NEW s \in Slots, RunAction(s)
        PROVE  TasksGoOn
    <2>1. CASE task' = [task EXCEPT ![s].pc = "ended"]
      BY <1>1, <1>2, <2>1 DEF TasksGoOn
    <2>2. CASE task' = [task EXCEPT ![s] = Free]
      BY <1>1, <2>2, Fields DEF TasksGoOn
    <2> QED
      BY <1>5, <2>1, <2>2 DEF RunAction, Forgets
  <1>6. CASE task' = task
    BY <1>6 DEF TasksGoOn
  <1> QED
    BY <1>3, <1>4, <1>5, <1>6

\* An action of the same request that still runs has lost its entry, so it is one
\* of a connection that is gone, and cancelled.
LEMMA StartIsApart ==
    ASSUME ConnectionsInv, ActionTypes, OneOfRequest, NEW c \in Subscribers, StartAction(c)
    PROVE  OneOfRequest'
PROOF
  <1>1. task \in [Slots -> TaskState]
    BY DEF ConnectionsInv, ConnectionTypes
  <1>2. CASE ~Admissible(c)
    <2>1. task' = task
      BY <1>2 DEF StartAction
    <2> QED
      BY <2>1, ActionsGoOn, GoingOnKeeps
  <1>3. CASE Admissible(c)
    <2> DEFINE slot == CHOOSE s \in Slots : task[s] = Free
               action == [pc |-> "execute", id |-> consumer[c].command.id, conn |-> c,
                          listed |-> TRUE, cancelled |-> FALSE]
    <2>1. task' = [task EXCEPT ![slot] = action]
      BY <1>3 DEF StartAction
    <2>2. action.id = consumer[c].command.id
      OBVIOUS
    <2> HIDE DEF slot, action
    <2>3. /\ task'[slot] = action \/ slot \notin Slots
          /\ \A s \in Slots : s # slot => task'[s] = task[s]
      BY <1>1, <2>1
    <2>4. ASSUME NEW s \in Slots, s # slot, task[s].conn # "none",
                 task[s].id = consumer[c].command.id
          PROVE  ~task[s].listed /\ task[s].cancelled
      <3>1. ~task[s].listed
        BY <1>3, <2>4 DEF Admissible
      <3>2. task[s].conn \in Subscribers
        BY <1>1, <2>4 DEF TaskState
      <3> QED
        BY <2>4, <3>1, <3>2 DEF ConnectionsInv, ActionsAreDetached, ActionTypes
    <2> QED
      BY <2>2, <2>3, <2>4 DEF OneOfRequest, Running
  <1> QED
    BY <1>2, <1>3

LEMMA RequestsStep ==
    ASSUME ConnectionsInv, ActionTypes, OneOfRequest, [BridgeNext]_allVars
    PROVE  OneOfRequest'
PROOF
  <1>1. ASSUME task' = task
        PROVE  OneOfRequest'
    BY <1>1, ActionsGoOn, GoingOnKeeps
  <1>2. ASSUME NEW c \in Subscribers, CancelAction(c) \/ DetachActions(c)
        PROVE  OneOfRequest'
    <2>1. PICK slots \in SUBSET Slots : CancelActions(slots)
      BY <1>2 DEF CancelAction, DetachActions, ListedOf
    <2> QED
      BY <2>1, ActionsGoOn, GoingOnKeeps
  <1>3. ASSUME NEW c \in Subscribers, DetachReturns(c)
        PROVE  OneOfRequest'
    BY <1>3, ActionsGoOn, GoingOnKeeps
  <1>4. ASSUME NEW s \in Slots, RunAction(s)
        PROVE  OneOfRequest'
    BY <1>4, ActionsGoOn, GoingOnKeeps
  <1>5. ASSUME NEW c \in Subscribers,
               \/ Authenticate(c) \/ ClientReads(c) \/ Disconnect(c) \/ Produce(c)
               \/ DispatchKnown(c) \/ Rescan(c) \/ Stop(c) \/ Applied(c) \/ PublishAnswer(c)
               \/ AnswerPublished(c) \/ Shutdown(c) \/ CloseConnection(c)
               \/ \E command \in Commands[c] : Consume(c, command)
        PROVE  task' = task
    BY <1>5 DEF Authenticate, ClientReads, Disconnect, Produce, DispatchKnown, Rescan, Stop,
                Applied, PublishAnswer, AnswerPublished, Shutdown, CloseConnection, Consume
  <1>6. ASSUME NEW c \in Subscribers,
               \/ Authenticate(c) \/ ClientReads(c) \/ Disconnect(c) \/ ConnectionStep(c)
               \/ \E command \in Commands[c] : Consume(c, command)
        PROVE  OneOfRequest'
    BY <1>1, <1>2, <1>3, <1>5, <1>6, StartIsApart DEF ConnectionStep
  <1>7. CASE RunRefresh \/ CloseEvents \/ Loop \/ UNCHANGED allVars
    <2>1. task' = task
      BY <1>7 DEF RunRefresh, RefreshStep, CloseEvents, Loop, allVars, bridgeVars
    <2> QED
      BY <1>1, <2>1
  <1> QED
    BY <1>4, <1>6, <1>7 DEF BridgeNext

\* On one connection a sequence starts at most one action; a request repeated on
\* the next connection runs beside its old action only if that is cancelled and
\* unlisted, and the action of a connection that is not detached stays listed when
\* the old one ends (control.py _history, agency.py start, _run, detach).
THEOREM RequestsStayApart == BridgeSpec => []RequestsRunApart
PROOF
  <1>1. BridgeInit => OneOfRequest
    BY Fields DEF BridgeInit, OneOfRequest, Running
  <1>2. ActionsInv /\ ConnectionsInv /\ OneOfRequest /\ [BridgeNext]_allVars
            => ActionsInv' /\ ConnectionsInv' /\ OneOfRequest'
    BY StepKeeps, ConnectionsStep, RequestsStep DEF ActionsInv
  <1>3. ActionsInv /\ ConnectionsInv /\ OneOfRequest => RequestsRunApart
    BY DEF ActionsInv, ConnectionsInv, ActionsAreDetached, RequestsRunApart, Running
  <1> QED
    BY InitHolds, ConnectionsStart, <1>1, <1>2, <1>3, PTL DEF BridgeSpec

\* The bus keeps its promise among all that the bridge does with it.
THEOREM BridgeKeepsTheBus == BridgeSpec => []NobodyWaitsInVain
PROOF
  <1>1. ActionsInv /\ ConnectionsInv /\ [BridgeNext]_allVars => ActionsInv' /\ ConnectionsInv'
    BY StepKeeps, ConnectionsStep DEF ActionsInv
  <1>2. ConnectionsInv => NobodyWaitsInVain
    BY DEF ConnectionsInv, BusInv
  <1> QED
    BY InitHolds, ConnectionsStart, <1>1, <1>2, PTL DEF BridgeSpec
=============================================================================
