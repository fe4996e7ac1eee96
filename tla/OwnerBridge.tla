---------------------------- MODULE OwnerBridge ----------------------------
(***************************************************************************)
(* The owner's websocket bridge (adapters/ui/websocket.py) with what it    *)
(* composes: the control dispatcher (core/protocol/control.py), the owner  *)
(* session and its connections (core/owner.py), the bounded owner actions  *)
(* (core/tools/agency.py), the provider refresh as the runtime starts and  *)
(* cancels it, and the event bus.  A connection is named by its            *)
(* subscription.  Its consumer task reads commands and dispatches them     *)
(* under one lock, its producer sends the events of its subscription, and  *)
(* when either ends the handler cancels the other, detaches the connection *)
(* and only then closes the subscription.                                  *)
(***************************************************************************)
EXTENDS EventBus

CONSTANTS
    Commands,       \* per client, the commands it may send, also repeatedly: a
                    \* command has an id, the sequence of the action it asks for,
                    \* and the request it targets when it cancels
    Slots,          \* places for owner-action tasks: start() admits that many
    MaxHistory,     \* ControlDispatcher._max_history
    Budget          \* bound: connections made and commands read, in all

\* Besides connections and action slots, the refresh task publishes; they are
\* different tasks.
ASSUME PublishersAssumption ==
    /\ Publishers = Subscribers \cup Slots \cup {"refresh"}
    /\ Subscribers \cap Slots = {} /\ "refresh" \notin Subscribers \cup Slots

\* What they publish.
ASSUME PublishedAssumption ==
    {"acknowledged", "state", "discovery", "cancelled"} \subseteq LossyTypes \cup DurableTypes

ASSUME CommandsAssumption ==
    \A c \in Subscribers : \A command \in Commands[c] : command.sequence \in Nat

VARIABLES
    conn,           \* per connection, how far _handle_connection is
    sending,        \* connections whose producer awaits socket.send
    consumer,       \* per connection, how far _consume is: [pc, command]
    lockQueue,      \* ControlDispatcher._lock: its holder, then those who wait
    history,        \* ControlDispatcher._history: the keys, oldest first
    used,           \* how much of the budget is used
    revoked,        \* OwnerSession._revoked
    lastSequence,   \* OwnerActions._sequences
    task,           \* OwnerActions._tasks and .active: per slot, the action
    refresh,        \* the provider refresh task, and who awaits its end
    started         \* history: <<connection, sequence>> of the actions started

bridgeVars == <<conn, sending, consumer, lockQueue, history, used, revoked,
                lastSequence, task, refresh, started>>

NoCommand == [id |-> "none", kind |-> "none", sequence |-> 0, target |-> "none"]
Free == [pc |-> "free", id |-> "none", conn |-> "none", listed |-> FALSE,
         cancelled |-> FALSE]
NoRefresh == [pc |-> "none", stale |-> FALSE, awaitedBy |-> {}]

BridgeInit ==
    /\ BusInit
    /\ conn = [c \in Subscribers |-> "new"]
    /\ sending = {}
    /\ consumer = [c \in Subscribers |-> [pc |-> "off", command |-> NoCommand]]
    /\ lockQueue = <<>> /\ history = <<>>
    /\ used = 0
    /\ revoked = FALSE
    /\ lastSequence = [c \in Subscribers |-> 0]
    /\ task = [s \in Slots |-> Free]
    /\ refresh = NoRefresh
    /\ started = <<>>

\* OwnerConnection.active: the connections that are open are not retired.
ConnectionActive(c) == conn[c] = "open" /\ ~revoked

-----------------------------------------------------------------------------
(* Connecting *)

\* The challenge is answered in time and in form, or the socket is closed.
Authenticate(c) ==
    /\ conn[c] = "new" /\ used < Budget
    /\ used' = used + 1
    /\ \/ /\ ~revoked /\ ~busClosed
          /\ conn' = [conn EXCEPT ![c] = "open"]
          /\ consumer' = [consumer EXCEPT ![c].pc = "read"]
          /\ Subscribe(c)
       \/ /\ running = "none"
          /\ conn' = [conn EXCEPT ![c] = "gone"]
          /\ UNCHANGED <<busVars, consumer>>
    /\ UNCHANGED <<sending, lockQueue, history, revoked, lastSequence,
                   task, refresh, started>>

\* _produce: an event is taken from the subscription and sent; a revoked owner
\* is not sent anything.  How it waits for the event is checked in EventBus.
Produce(c) ==
    /\ conn[c] = "open" /\ c \notin sending /\ ~revoked
    /\ Get(c)
    /\ sending' = sending \cup {c}
    /\ UNCHANGED <<conn, consumer, lockQueue, history, used, revoked,
                   lastSequence, task, refresh, started>>

ClientReads(c) ==
    /\ running = "none" /\ c \in sending
    /\ sending' = sending \ {c}
    /\ UNCHANGED <<busVars, conn, consumer, lockQueue, history, used, revoked,
                   lastSequence, task, refresh, started>>

-----------------------------------------------------------------------------
(* Commands *)

Goto(c, pc) == consumer' = [consumer EXCEPT ![c].pc = pc]

\* _consume: a command is read and queues for the dispatcher's lock.
Consume(c, command) ==
    /\ running = "none" /\ conn[c] = "open"
    /\ consumer[c].pc = "read" /\ ~revoked /\ used < Budget
    /\ used' = used + 1
    /\ consumer' = [consumer EXCEPT ![c] = [pc |-> "lock", command |-> command]]
    /\ lockQueue' = Append(lockQueue, c)
    /\ UNCHANGED <<busVars, conn, sending, history, revoked, lastSequence,
                   task, refresh, started>>

Key(c) == <<c, consumer[c].command.id>>

\* The bounded history forgets its oldest entries.
Remember(c) ==
    LET longer == Append(history, Key(c))
    IN history' = IF Len(longer) > MaxHistory THEN Tail(longer) ELSE longer

HoldsLock(c) == lockQueue # <<>> /\ Head(lockQueue) = c

Dispatching(c) ==
    /\ running = "none" /\ conn[c] = "open"
    /\ HoldsLock(c) /\ consumer[c].pc = "lock"

\* The dispatcher returns an answer; the lock is free before it is published.
Answer(c) == Goto(c, "answer") /\ lockQueue' = Tail(lockQueue)

\* A retired connection is refused; a command known by its id is not applied
\* again but answered as before.
DispatchKnown(c) ==
    /\ Dispatching(c)
    /\ ~ConnectionActive(c) \/ Key(c) \in ToSet(history)
    /\ Answer(c)
    /\ UNCHANGED <<busVars, conn, sending, history, used, revoked, lastSequence,
                   task, refresh, started>>

Fresh(c, kind) ==
    /\ Dispatching(c) /\ ConnectionActive(c) /\ Key(c) \notin ToSet(history)
    /\ consumer[c].command.kind = kind

\* OwnerActions.start, in the order of its checks; one that fails is an answer.
\* Variant: a capability is refused twice only while its action runs.
Admissible_AnySequence(c) ==
    /\ \E s \in Slots : task[s] = Free
    /\ \A s \in Slots : task[s].listed => task[s].id # consumer[c].command.id

Admissible(c) ==
    /\ consumer[c].command.sequence > lastSequence[c]
    /\ \E s \in Slots : task[s] = Free
    /\ \A s \in Slots : task[s].listed => task[s].id # consumer[c].command.id

StartAction(c) ==
    /\ Fresh(c, "execute")
    /\ IF Admissible(c)
       THEN LET command == consumer[c].command
                slot == CHOOSE s \in Slots : task[s] = Free
            IN /\ lastSequence' = [lastSequence EXCEPT ![c] = command.sequence]
               /\ task' = [task EXCEPT ![slot] =
                      [pc |-> "execute", id |-> command.id, conn |-> c,
                       listed |-> TRUE, cancelled |-> FALSE]]
               /\ started' = Append(started, <<c, command.sequence>>)
       ELSE UNCHANGED <<lastSequence, task, started>>
    /\ Remember(c) /\ Answer(c)
    /\ UNCHANGED <<busVars, conn, sending, used, revoked, refresh>>

\* The listed actions of a connection.
ListedOf(c) == {s \in Slots : task[s].listed /\ task[s].conn = c}

\* The tokens of actions are set.
CancelActions(slots) ==
    task' = [s \in Slots |-> IF s \in slots
                             THEN [task[s] EXCEPT !.cancelled = TRUE] ELSE task[s]]

\* OwnerActions.cancel: the action that is listed for the request, if it is one
\* of this connection; that of another is not found.
CancelAction(c) ==
    /\ Fresh(c, "cancel")
    /\ CancelActions({s \in ListedOf(c) : task[s].id = consumer[c].command.target})
    /\ Remember(c) /\ Answer(c)
    /\ UNCHANGED <<busVars, conn, sending, used, revoked, lastSequence, refresh, started>>

\* Cancelling the refresh task: in a publish it ends there, while it scans it
\* has to unwind first.
RefreshAfterCancel ==
    IF refresh.pc \in {"scan", "unwind"} THEN [refresh EXCEPT !.pc = "unwind"] ELSE NoRefresh

\* _refresh_providers: a new epoch makes the old task stale; it is awaited with
\* the lock held.
Rescan(c) ==
    /\ Fresh(c, "rescan")
    /\ refresh' = IF RefreshAfterCancel.pc = "none" THEN NoRefresh
                  ELSE [RefreshAfterCancel EXCEPT !.stale = TRUE, !.awaitedBy = @ \cup {c}]
    /\ Abandon({"refresh"}, {})
    /\ Goto(c, "apply")
    /\ UNCHANGED <<conn, sending, lockQueue, history, used, revoked,
                   lastSequence, task, started>>

\* _cancel_active and what it stops report themselves, with the lock held.
Stop(c) ==
    /\ \E kind \in {"stop", "quit"} : Fresh(c, kind)
    /\ Publish(c, "cancelled")
    /\ Goto(c, "apply")
    /\ UNCHANGED <<conn, sending, lockQueue, history, used, revoked,
                   lastSequence, task, refresh, started>>

\* The binding returns: the command is remembered and answered.
Applied(c) ==
    /\ running = "none" /\ conn[c] = "open"
    /\ consumer[c].pc = "apply" /\ Idle(c) /\ c \notin refresh.awaitedBy
    /\ refresh' = CASE consumer[c].command.kind = "rescan" ->
                          [pc |-> "announce", stale |-> FALSE, awaitedBy |-> {}]
                    [] consumer[c].command.kind = "quit" -> RefreshAfterCancel
                    [] OTHER -> refresh
    /\ IF consumer[c].command.kind = "quit"
       THEN Abandon({"refresh"}, {}) ELSE UNCHANGED busVars
    /\ Remember(c)
    /\ lockQueue' = Tail(lockQueue)
    /\ Goto(c, IF consumer[c].command.kind = "quit" THEN "stopping" ELSE "answer")
    /\ UNCHANGED <<conn, sending, used, revoked, lastSequence, task, started>>

\* The acknowledgement is an event like any other: every client gets it.
PublishAnswer(c) ==
    /\ conn[c] = "open" /\ consumer[c].pc = "answer"
    /\ Publish(c, "acknowledged")
    /\ Goto(c, "publishing")
    /\ UNCHANGED <<conn, sending, lockQueue, history, used, revoked,
                   lastSequence, task, refresh, started>>

AnswerPublished(c) ==
    /\ running = "none" /\ consumer[c].pc = "publishing" /\ Idle(c)
    /\ Goto(c, "read")
    /\ UNCHANGED <<busVars, conn, sending, lockQueue, history, used, revoked,
                   lastSequence, task, refresh, started>>

\* on_shutdown after an accepted Quit; the runtime then closes and revokes.
Shutdown(c) ==
    /\ running = "none" /\ consumer[c].pc = "stopping"
    /\ revoked' = TRUE
    /\ Goto(c, "off")
    /\ UNCHANGED <<busVars, conn, sending, lockQueue, history, used,
                   lastSequence, task, refresh, started>>

-----------------------------------------------------------------------------
(* The tasks of owner actions and of the refresh *)

ActionStep(s, from, publishes) ==
    /\ task[s].pc = from /\ Idle(s)
    /\ IF publishes THEN Publish(s, "state") ELSE running = "none" /\ UNCHANGED busVars
    /\ UNCHANGED <<conn, sending, consumer, lockQueue, history, used, revoked,
                   lastSequence, refresh, started>>

\* Variant: the entry of the request is deleted, whosever it is by now.
Forgets_Request(s) ==
    task' = [t \in Slots |-> IF t = s THEN Free
                             ELSE IF task[t].id = task[s].id
                                  THEN [task[t] EXCEPT !.listed = FALSE] ELSE task[t]]

\* The end of _run: the entry of the request is deleted if it is this action's,
\* and the task is done.  Another action of the same request stays listed.
Forgets(s) == task' = [task EXCEPT ![s] = Free]

\* _run: the result is published while the connection is active.  The states
\* before it, published while the action is listed, are left out.
RunAction(s) ==
    \/ /\ ActionStep(s, "execute", ConnectionActive(task[s].conn))
       /\ task' = [task EXCEPT ![s].pc = "ended"]
    \/ ActionStep(s, "ended", FALSE) /\ Forgets(s)

RefreshStep(from, to, publishes) ==
    /\ refresh.pc = from /\ Idle("refresh")
    /\ IF publishes THEN Publish("refresh", "discovery")
       ELSE running = "none" /\ UNCHANGED busVars
    /\ refresh' = IF to = "none" THEN NoRefresh ELSE [refresh EXCEPT !.pc = to]
    /\ UNCHANGED <<conn, sending, consumer, lockQueue, history, used, revoked,
                   lastSequence, task, started>>

\* _perform_provider_refresh: it announces the scan and publishes the result;
\* cancelled, it reports that as well unless a newer request made it stale.
RunRefresh ==
    \/ RefreshStep("announce", "scan", TRUE)
    \/ RefreshStep("scan", "result", TRUE)
    \/ RefreshStep("result", "none", FALSE)
    \/ refresh.stale /\ RefreshStep("unwind", "none", FALSE)
    \/ ~refresh.stale /\ RefreshStep("unwind", "result", TRUE)

-----------------------------------------------------------------------------
(* Disconnecting *)

\* Variant: the lock is not released by a consumer cancelled while it holds it.
Disconnect_KeepsLock(c) ==
    /\ running = "none" /\ conn[c] = "open" /\ consumer[c].pc # "stopping"
    /\ conn' = [conn EXCEPT ![c] = "leaving"]
    /\ sending' = sending \ {c}
    /\ consumer' = [consumer EXCEPT ![c] = [pc |-> "off", command |-> NoCommand]]
    /\ refresh' = IF RefreshAfterCancel.pc = "none" THEN NoRefresh
                  ELSE [RefreshAfterCancel EXCEPT !.awaitedBy = @ \cup {c}]
    /\ Abandon({c, "refresh"}, {c})
    /\ UNCHANGED <<lockQueue, history, used, revoked, lastSequence, task, started>>

\* Producer or consumer ended: the other is cancelled, the connection retired,
\* and _detach_owner cancels the refresh task, whoever asked for it.
Disconnect(c) ==
    /\ running = "none" /\ conn[c] = "open" /\ consumer[c].pc # "stopping"
    /\ conn' = [conn EXCEPT ![c] = "leaving"]
    /\ sending' = sending \ {c}
    /\ consumer' = [consumer EXCEPT ![c] = [pc |-> "off", command |-> NoCommand]]
    /\ lockQueue' = Only(lockQueue, Subscribers \ {c})
    /\ refresh' = IF RefreshAfterCancel.pc = "none" THEN NoRefresh
                  ELSE [RefreshAfterCancel EXCEPT !.awaitedBy = @ \cup {c}]
    /\ Abandon({c, "refresh"}, {c})
    /\ UNCHANGED <<history, used, revoked, lastSequence, task, started>>

\* Variant: the tokens of the actions are left alone.
DetachActions_KeepsTokens(c) ==
    /\ running = "none" /\ conn[c] = "leaving" /\ c \notin refresh.awaitedBy
    /\ conn' = [conn EXCEPT ![c] = "detaching"]
    /\ lastSequence' = [lastSequence EXCEPT ![c] = 0]
    /\ UNCHANGED <<task, busVars, sending, consumer, lockQueue, history, used, revoked,
                   refresh, started>>

\* OwnerActions.detach, after the refresh task is done.
DetachActions(c) ==
    /\ running = "none" /\ conn[c] = "leaving" /\ c \notin refresh.awaitedBy
    /\ conn' = [conn EXCEPT ![c] = "detaching"]
    /\ lastSequence' = [lastSequence EXCEPT ![c] = 0]
    /\ CancelActions(ListedOf(c))
    /\ UNCHANGED <<busVars, sending, consumer, lockQueue, history, used, revoked,
                   refresh, started>>

\* Its tasks have ended or a second has passed: they are not listed any more.
DetachReturns(c) ==
    /\ running = "none" /\ conn[c] = "detaching"
    /\ conn' = [conn EXCEPT ![c] = "closing"]
    /\ task' = [s \in Slots |-> IF task[s].conn = c
                                THEN [task[s] EXCEPT !.listed = FALSE] ELSE task[s]]
    /\ UNCHANGED <<busVars, sending, consumer, lockQueue, history, used, revoked,
                   lastSequence, refresh, started>>

\* The browser is closed, and the subscription last.
CloseConnection(c) ==
    /\ conn[c] = "closing"
    /\ conn' = [conn EXCEPT ![c] = "gone"]
    /\ Unsubscribe(c)
    /\ UNCHANGED <<sending, consumer, lockQueue, history, used, revoked,
                   lastSequence, task, refresh, started>>

\* SamRuntime.close, last: the handlers have returned.
CloseEvents ==
    /\ revoked /\ \A c \in Subscribers : conn[c] \in {"new", "gone"}
    /\ CloseBus
    /\ UNCHANGED bridgeVars

\* The event loop runs the publisher that is not waiting.
Loop ==
    /\ \E p \in Publishers : Resume(p) \/ \E s \in Subscribers : Deliver(p, s)
    /\ UNCHANGED bridgeVars

-----------------------------------------------------------------------------
ConnectionStep(c) ==
    \/ Produce(c) \/ DispatchKnown(c) \/ StartAction(c) \/ CancelAction(c)
    \/ Rescan(c) \/ Stop(c) \/ Applied(c) \/ PublishAnswer(c) \/ AnswerPublished(c)
    \/ Shutdown(c) \/ DetachActions(c) \/ DetachReturns(c) \/ CloseConnection(c)

BridgeNext ==
    \/ \E c \in Subscribers :
           \/ Authenticate(c) \/ ClientReads(c) \/ Disconnect(c) \/ ConnectionStep(c)
           \/ \E command \in Commands[c] : Consume(c, command)
    \/ \E s \in Slots : RunAction(s)
    \/ RunRefresh \/ CloseEvents \/ Loop

allVars == <<busVars, bridgeVars>>

\* The event loop runs what is ready.  A client that does not read what it is
\* sent is disconnected by the ping timeout, the others by the closing server.
BridgeFairness ==
    /\ \A c \in Subscribers :
           /\ WF_allVars(ConnectionStep(c))
           /\ WF_allVars(ClientReads(c) \/ ((c \in sending \/ revoked) /\ Disconnect(c)))
    /\ \A s \in Slots : WF_allVars(RunAction(s))
    /\ WF_allVars(RunRefresh) /\ WF_allVars(Loop)

BridgeSpec == BridgeInit /\ [][BridgeNext]_allVars /\ BridgeFairness

-----------------------------------------------------------------------------
(* Properties *)

\* On one connection, whatever its client repeats after the bounded history has
\* forgotten it, a sequence starts at most one action (control.py _history,
\* agency.py _sequences).
RepeatsStartNothing ==
    \A i, j \in DOMAIN started : started[i] = started[j] => i = j

Running == {s \in Slots : task[s].conn # "none"}

\* The actions of one request: all but one are cancelled, and all but one have
\* lost their entry.
OneOfRequest ==
    \A s, t \in Running : s # t /\ task[s].id = task[t].id =>
        /\ task[s].cancelled \/ task[t].cancelled
        /\ ~(task[s].listed /\ task[t].listed)

\* Both are forgotten with a connection, and a request repeated on the next one
\* starts another action.  It runs beside the old one only if that is cancelled,
\* and only one of them is listed; the old one's end does not take the entry of
\* the other, so the action of a connection that still serves its client can be
\* cancelled and is current (agency.py active, _run, detach).
RequestsRunApart ==
    /\ RepeatsStartNothing
    /\ OneOfRequest
    /\ \A s \in Running :
           conn[task[s].conn] \in {"open", "leaving", "detaching"} => task[s].listed

\* A connection that is gone holds nothing: not the dispatcher's lock or a place
\* in its queue, no listed action, no subscription and no waiting task.
NothingOutlivesConnection ==
    \A c \in Subscribers : conn[c] = "gone" =>
        /\ c \notin ToSet(lockQueue) /\ consumer[c].pc = "off" /\ Idle(c)
        /\ c \notin Subscribed /\ c \notin refresh.awaitedBy
        /\ \A s \in Slots : task[s].conn = c => ~task[s].listed /\ task[s].cancelled
        /\ \A w \in waiting : c \notin {w[1], w[2]}

\* A refresh that was cancelled by a leaving connection reports itself to the
\* full queue of that connection, which nobody reads.
RefreshStranded ==
    \E c \in refresh.awaitedBy : <<"refresh", c>> \in waiting

\* Every command that is read is answered or its connection ends, although the
\* lock is held while others publish to full queues; the one exception is the
\* stranded refresh.
CommandIsAnswered ==
    \A c \in Subscribers :
        consumer[c].pc \notin {"read", "off"}
            ~> (consumer[c].pc \in {"read", "off"} \/ RefreshStranded)

-----------------------------------------------------------------------------
(* The inductive invariant of the actions.                                  *)

AnyCommand == {NoCommand} \cup (UNION {Commands[c] : c \in Subscribers})

ActionTypes ==
    /\ conn \in [Subscribers -> {"new", "open", "leaving", "detaching", "closing", "gone"}]
    /\ consumer \in [Subscribers ->
           [pc : {"off", "read", "lock", "apply", "answer", "publishing", "stopping"},
            command : AnyCommand]]
    /\ lastSequence \in [Subscribers -> Nat]
    /\ started \in Seq(Subscribers \X Nat)

\* The last sequence of a connection is kept as long as it can send commands.
SequencesAreKept ==
    \A n \in DOMAIN started :
        /\ conn[started[n][1]] # "new"
        /\ conn[started[n][1]] \in {"open", "leaving"} =>
               started[n][2] <= lastSequence[started[n][1]]

ActionsInv == ActionTypes /\ SequencesAreKept /\ RepeatsStartNothing

-----------------------------------------------------------------------------
(* The inductive invariant of the connections.                              *)

RefreshState == [pc : {"none", "announce", "scan", "result", "unwind"},
                 stale : BOOLEAN, awaitedBy : SUBSET Subscribers]
TaskState == [pc : {"free", "execute", "ended"},
              id : {command.id : command \in AnyCommand},
              conn : Subscribers \cup {"none"}, listed : BOOLEAN, cancelled : BOOLEAN]

ConnectionTypes ==
    /\ refresh \in RefreshState
    /\ task \in [Slots -> TaskState]

\* Whoever applies a command holds the dispatcher's lock.
LockIsHeld == \A c \in Subscribers : consumer[c].pc = "apply" => HoldsLock(c)

LockInv == lockQueue \in Seq(Subscribers) /\ LockIsHeld

\* What a connection may still hold at each stage of its way: it lets go of one
\* thing after the other, and takes nothing again.
HoldingsShrink ==
    \A c \in Subscribers :
        /\ conn[c] # "open" =>
              consumer[c].pc = "off" /\ Idle(c) /\ c \notin ToSet(lockQueue)
        /\ conn[c] = "new" => c \notin made
        /\ c \in Subscribed => conn[c] # "gone"
        /\ c \in refresh.awaitedBy => conn[c] \in {"open", "leaving"}

ActionsAreDetached ==
    \A s \in Slots : LET c == task[s].conn
                     IN  c # "none" =>
        /\ conn[c] # "new"
        /\ conn[c] \in {"open", "leaving", "detaching"} => task[s].listed
        /\ conn[c] \in {"closing", "gone"} => ~task[s].listed
        /\ conn[c] \in {"detaching", "closing", "gone"} => task[s].cancelled

ConnectionsInv ==
    BusInv /\ ConnectionTypes /\ LockInv /\ HoldingsShrink /\ ActionsAreDetached
=============================================================================
