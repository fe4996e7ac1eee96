------------------------------ MODULE EventBus ------------------------------
(***************************************************************************)
(* core/protocol/bus.py: a fan-out of events to bounded queues.  A lossy   *)
(* event replaces an older one of its type or is dropped when the queue is *)
(* full; a durable one pushes out a lossy one or makes its publisher wait. *)
(* The locks are never held across an await, so the event loop runs a      *)
(* publisher from subscription to subscription until one is full; there it *)
(* waits with the others unserved, publishers that came later go ahead,    *)
(* and one that is woken may find the room gone.                           *)
(***************************************************************************)
EXTENDS Naturals, Sequences, FiniteSets, SequencesExt, Selection

CONSTANTS
    Publishers,     \* tasks that publish
    Subscribers,    \* identities of subscriptions, each used once
    LossyTypes, DurableTypes,
    MaxQueue,       \* max_queue of subscribe()
    MaxEvents       \* bound: events published in all; with 0 there is none, and
                    \* the histories below are not kept

ASSUME BusAssumption ==
    /\ MaxQueue \in Nat \ {0} /\ MaxEvents \in Nat
    /\ LossyTypes \cap DurableTypes = {}
    /\ {"none", "reader"} \cap Publishers = {}

VARIABLES
    busClosed,      \* EventBus._closed
    made,           \* subscriptions that subscribe() returned
    closed,         \* subscriptions whose _closed is set
    queue,          \* EventSubscription._items
    received,       \* history: durable events get() returned, in order
    waiting,        \* <<p, s>> or <<"reader", s>>: tasks in Condition.wait() of s
    running,        \* the publisher the event loop is running, or "none"
    todo,           \* per publisher, the subscriptions publish() has still to serve
    current,        \* per publisher, the event it is publishing
    sent,           \* history: how many events were published, each has its number
    cancelled       \* history: durable events whose publish() was cancelled

busVars == <<busClosed, made, closed, queue, received, waiting, running, todo,
             current, sent, cancelled>>

Event == [type : LossyTypes \cup DurableTypes, from : Publishers,
          number : 0 .. MaxEvents]
Recording == MaxEvents > 0

\* EventBus._subscriptions.
Subscribed == made \ closed

NoEvent == [type |-> "none", from |-> "none", number |-> 0]
IsLossy(e) == e.type \in LossyTypes
Durable(q) == Only(q, [type : DurableTypes, from : Publishers, number : 0 .. MaxEvents])

BusInit ==
    /\ busClosed = FALSE
    /\ made = {} /\ closed = {}
    /\ queue = [s \in Subscribers |-> <<>>]
    /\ received = [s \in Subscribers |-> <<>>]
    /\ waiting = {} /\ running = "none"
    /\ todo = [p \in Publishers |-> {}]
    /\ current = [p \in Publishers |-> NoEvent]
    /\ sent = 0
    /\ cancelled = {}

\* Condition.notify_all of subscriptions.
NotifyAll(ss) == {w \in waiting : w[2] \notin ss}

-----------------------------------------------------------------------------
(* Subscribing and closing *)

\* subscribe refuses on a closed bus.
Subscribe(s) ==
    /\ running = "none" /\ ~busClosed /\ s \notin made
    /\ made' = made \cup {s}
    /\ UNCHANGED <<busClosed, closed, queue, received, waiting, running, todo,
                   current, sent, cancelled>>

\* Variant: closing wakes nobody.
MarkClosed_Silently(ss) ==
    /\ closed' = closed \cup ss
    /\ UNCHANGED <<waiting, made, queue, received, running, todo, current, sent, cancelled>>

\* _mark_closed wakes the publishers and the reader that wait.
MarkClosed(ss) ==
    /\ closed' = closed \cup ss
    /\ waiting' = NotifyAll(ss)
    /\ UNCHANGED <<made, queue, received, running, todo, current, sent, cancelled>>

\* EventSubscription.close: forgotten, then marked closed.
Unsubscribe(s) ==
    /\ running = "none" /\ s \in Subscribed
    /\ MarkClosed({s})
    /\ UNCHANGED busClosed

\* EventBus.close: publishers are refused from now on.
CloseBus ==
    /\ running = "none" /\ ~busClosed
    /\ busClosed' = TRUE
    /\ MarkClosed(Subscribed)

-----------------------------------------------------------------------------
(* Publishing *)

Idle(p) == current[p] = NoEvent
IsWaiting(t) == \E w \in waiting : w[1] = t

\* publish: the subscriptions are those of the moment; a closed bus raises.
Publish(p, type) ==
    /\ running = "none" /\ Idle(p) /\ ~busClosed
    /\ Recording => sent < MaxEvents
    /\ sent' = IF Recording THEN sent + 1 ELSE sent
    /\ IF Subscribed = {}
       THEN UNCHANGED <<todo, current, running>>
       ELSE /\ todo' = [todo EXCEPT ![p] = Subscribed]
            /\ current' = [current EXCEPT ![p] =
                   [type |-> type, from |-> p, number |-> sent']]
            /\ running' = p
    /\ UNCHANGED <<busClosed, made, closed, queue, received, waiting, cancelled>>

\* A publisher that was notified goes on where it waited.
Resume(p) ==
    /\ running = "none" /\ ~Idle(p) /\ ~IsWaiting(p)
    /\ running' = p
    /\ UNCHANGED <<busClosed, made, closed, queue, received, waiting, todo,
                   current, sent, cancelled>>

\* publish goes on with its next subscription, or returns.
Served(p, s) ==
    /\ todo' = [todo EXCEPT ![p] = @ \ {s}]
    /\ current' = [current EXCEPT ![p] = IF todo[p] = {s} THEN NoEvent ELSE @]
    /\ running' = IF todo[p] = {s} THEN "none" ELSE p

\* A lossy event takes the place of the newest queued one of its type.
WithoutSameType(q, e) ==
    LET same == {i \in DOMAIN q : q[i].type = e.type}
    IN IF same = {} THEN q ELSE RemoveAt(q, CHOOSE i \in same : \A j \in same : j <= i)

\* A durable event pushes out the oldest lossy one.
WithoutLossy(q) ==
    LET lossy == {i \in DOMAIN q : IsLossy(q[i])}
    IN RemoveAt(q, CHOOSE i \in lossy : \A j \in lossy : i <= j)

Full(s) == Len(queue[s]) >= MaxQueue
HoldsLossy(s) == \E i \in DOMAIN queue[s] : IsLossy(queue[s][i])

Appended(s, q, e) ==
    /\ queue' = [queue EXCEPT ![s] = Append(q, e)]
    /\ waiting' = NotifyAll({s})

DeliverNothing(p, s) ==
    /\ s \in closed
    /\ Served(p, s)
    /\ UNCHANGED <<queue, waiting>>

DeliverLossy(p, s) ==
    /\ s \notin closed /\ IsLossy(current[p])
    /\ LET q == WithoutSameType(queue[s], current[p])
       IN IF Len(q) >= MaxQueue
          THEN UNCHANGED <<queue, waiting>>
          ELSE Appended(s, q, current[p])
    /\ Served(p, s)

\* Variant: a full queue drops its oldest event, as a deque with a maxlen does.
DeliverDurable_DropsOldest(p, s) ==
    /\ s \notin closed /\ ~IsLossy(current[p])
    /\ Appended(s, IF Full(s) THEN Tail(queue[s]) ELSE queue[s], current[p])
    /\ Served(p, s)

DeliverDurable(p, s) ==
    /\ s \notin closed /\ ~IsLossy(current[p])
    /\ ~Full(s) \/ HoldsLossy(s)
    /\ Appended(s, IF Full(s) THEN WithoutLossy(queue[s]) ELSE queue[s], current[p])
    /\ Served(p, s)

\* The lock of the subscription is released for the wait, and the loop runs on.
WaitForRoom(p, s) ==
    /\ s \notin closed /\ ~IsLossy(current[p])
    /\ Full(s) /\ ~HoldsLossy(s)
    /\ waiting' = waiting \cup {<<p, s>>}
    /\ running' = "none"
    /\ UNCHANGED <<queue, todo, current>>

Deliver(p, s) ==
    /\ running = p /\ s \in todo[p]
    /\ \/ DeliverNothing(p, s)
       \/ DeliverLossy(p, s)
       \/ DeliverDurable(p, s)
       \/ WaitForRoom(p, s)
    /\ UNCHANGED <<busClosed, made, closed, received, sent, cancelled>>

\* Publishers and readers are cancelled where they wait: subscriptions that were
\* not served miss the event.
Abandon(ps, readers) ==
    /\ waiting' = {w \in waiting : w[1] \notin ps /\ ~(w[1] = "reader" /\ w[2] \in readers)}
    /\ cancelled' = IF Recording
                    THEN cancelled \cup {current[p] : p \in {q \in ps : ~Idle(q)}}
                    ELSE cancelled
    /\ todo' = [p \in Publishers |-> IF p \in ps THEN {} ELSE todo[p]]
    /\ current' = [p \in Publishers |-> IF p \in ps THEN NoEvent ELSE current[p]]
    /\ UNCHANGED <<busClosed, made, closed, queue, received, running, sent>>

CancelPublish(p) ==
    /\ running = "none" /\ ~Idle(p)
    /\ Abandon({p}, {})

-----------------------------------------------------------------------------
(* Reading *)

ReaderWaits(s) == <<"reader", s>> \in waiting

\* get: a closed subscription is read to its end before SubscriptionClosed is raised.
Get(s) ==
    /\ running = "none" /\ ~ReaderWaits(s) /\ queue[s] # <<>>
    /\ received' = IF Recording
                   THEN [received EXCEPT ![s] = @ \o Durable(<<Head(queue[s])>>)]
                   ELSE received
    /\ queue' = [queue EXCEPT ![s] = Tail(@)]
    /\ waiting' = NotifyAll({s})
    /\ UNCHANGED <<busClosed, made, closed, running, todo, current, sent, cancelled>>

WaitForEvent(s) ==
    /\ running = "none" /\ s \in Subscribed /\ ~ReaderWaits(s) /\ queue[s] = <<>>
    /\ waiting' = waiting \cup {<<"reader", s>>}
    /\ UNCHANGED <<busClosed, made, closed, queue, received, running, todo,
                   current, sent, cancelled>>

-----------------------------------------------------------------------------
BusNext ==
    \/ CloseBus
    \/ \E s \in Subscribers :
           Subscribe(s) \/ Unsubscribe(s) \/ Get(s) \/ WaitForEvent(s)
    \/ \E p \in Publishers :
           \/ \E type \in LossyTypes \cup DurableTypes : Publish(p, type)
           \/ \E s \in Subscribers : Deliver(p, s)
           \/ Resume(p) \/ CancelPublish(p)

\* Tasks that are ready run; nobody has to publish, close or cancel, or to read
\* on after closing.
BusFairness ==
    /\ \A s \in Subscribers : /\ WF_busVars(s \notin closed /\ Get(s))
                              /\ WF_busVars(WaitForEvent(s))
    /\ \A p \in Publishers :
           WF_busVars(Resume(p)) /\ WF_busVars(\E s \in Subscribers : Deliver(p, s))

BusSpec == BusInit /\ [][BusNext]_busVars /\ BusFairness

-----------------------------------------------------------------------------
BusTypeInv ==
    /\ busClosed \in BOOLEAN
    /\ made \subseteq Subscribers
    /\ closed \subseteq made
    /\ running \in Publishers \cup {"none"}
    /\ queue \in [Subscribers -> Seq(Event)]
    /\ received \in [Subscribers -> Seq(Event)]
    /\ waiting \subseteq (Publishers \cup {"reader"}) \X Subscribers
    /\ todo \in [Publishers -> SUBSET Subscribers]
    /\ current \in [Publishers -> Event \cup {NoEvent}]
    /\ sent \in 0 .. MaxEvents
    /\ cancelled \subseteq Event

\* Whoever waits has something to wait for.  A publisher waits for an open queue
\* that is full of durable events, a reader for an open queue that is empty: no
\* change of a queue, no close and no cancellation forgets to wake somebody.
NobodyWaitsInVain ==
    \A w \in waiting :
        LET s == w[2]
        IN  /\ s \in Subscribed
            /\ IF w[1] = "reader" THEN queue[s] = <<>>
               ELSE s \in todo[w[1]] /\ Full(s) /\ ~HoldsLossy(s)

(***************************************************************************)
(* The bus implements ReliableBroadcast: what a subscription accepted is   *)
(* what its reader got and what is queued, without the lossy events.       *)
(***************************************************************************)
Sender(e) == e.from
Number(e) == e.number

Owed == {o \in Subscribers \X {current[p] : p \in Publishers} :
            /\ o[2] # NoEvent /\ ~IsLossy(o[2])
            /\ o[1] \in todo[o[2].from] \ closed}
Accepted == [s \in Subscribers |-> received[s] \o Durable(queue[s])]
ReadCount == [s \in Subscribers |-> Len(received[s])]

Broadcast == INSTANCE ReliableBroadcast WITH
    Events <- [type : DurableTypes, from : Publishers, number : 1 .. MaxEvents],
    From <- Sender,
    Number <- Number,
    owed <- Owed,
    accepted <- Accepted,
    readCount <- ReadCount,
    open <- Subscribed,
    withdrawn <- cancelled

\* Every durable event reaches every subscription it was published to, once and
\* in its publisher's order, unless the subscription closes or the publisher is
\* cancelled; publishers that wait for room are released (bus.py _deliver, get,
\* close).
DurableEventsAreBroadcast == Broadcast!Spec

\* The safety of it: no durable event is lost, repeated or reordered on its way,
\* whichever lossy ones are dropped or pushed out and whoever closes or cancels.
BroadcastIsSafe == Broadcast!Init /\ [][Broadcast!Next]_(Broadcast!vars)

-----------------------------------------------------------------------------
(* The inductive invariant of the bus.                                      *)

\* A publisher has an event of its own, and runs on with it at once when it is a
\* lossy one.
PublishersAreSound ==
    \A p \in Publishers :
        /\ todo[p] \subseteq made
        /\ Idle(p) => todo[p] = {} /\ running # p
        /\ ~Idle(p) => current[p].from = p /\ current[p].number <= sent
        /\ ~Idle(p) /\ Recording => current[p].number > 0
        /\ ~Idle(p) /\ IsLossy(current[p]) => running = p
        /\ running = p => ~IsWaiting(p)

\* What a subscription took is older than what it is still to get of the same
\* publisher.
TakenBy(s) == ToSet(queue[s]) \cup ToSet(received[s])

NumbersGrow ==
    \A s \in Subscribers : \A e \in TakenBy(s) :
        /\ s \in made
        /\ e.number <= sent
        /\ \A p \in Publishers :
              ~Idle(p) /\ s \in todo[p] /\ e.from = p => e.number < current[p].number

BusInv == BusTypeInv /\ NobodyWaitsInVain /\ PublishersAreSound /\ (Recording => NumbersGrow)
=============================================================================
