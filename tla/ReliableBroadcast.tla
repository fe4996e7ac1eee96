------------------------- MODULE ReliableBroadcast -------------------------
(***************************************************************************)
(* What the event bus promises about durable events, without its queues,   *)
(* locks and waiters.  Publishing makes the bus owe the event to the       *)
(* subscriptions there are; each one accepts it, in the order of its       *)
(* publisher, and hands it to its reader, unless it is closed first or the *)
(* publisher is cancelled.  Nothing accepted is lost, repeated or          *)
(* reordered, and what is owed does not stay owed.                         *)
(***************************************************************************)
EXTENDS Naturals, Sequences, SequencesExt

CONSTANTS Publishers, Subscribers, Events, From(_), Number(_)

VARIABLES owed,       \* pairs <<s, e>>: s is to get e
          accepted,   \* per subscription, the durable events it took, in order
          readCount,  \* how many of them its reader got
          open,       \* the subscriptions that are not closed
          withdrawn   \* events whose publisher was cancelled

vars == <<owed, accepted, readCount, open, withdrawn>>

Init ==
    /\ owed = {}
    /\ accepted = [s \in Subscribers |-> <<>>]
    /\ readCount = [s \in Subscribers |-> 0]
    /\ open = {}
    /\ withdrawn = {}

Subscribe(s) ==
    /\ s \notin open /\ accepted[s] = <<>>
    /\ open' = open \cup {s}
    /\ UNCHANGED <<owed, accepted, readCount, withdrawn>>

Publish(e) ==
    /\ \A o \in owed : From(o[2]) # From(e)
    /\ owed' = owed \cup (open \X {e})
    /\ UNCHANGED <<accepted, readCount, open, withdrawn>>

\* Accepting keeps the order of the publisher and takes nothing twice.
Accept(s, e) ==
    /\ <<s, e>> \in owed /\ s \in open
    /\ \A i \in DOMAIN accepted[s] :
           From(accepted[s][i]) = From(e) => Number(accepted[s][i]) < Number(e)
    /\ owed' = owed \ {<<s, e>>}
    /\ accepted' = [accepted EXCEPT ![s] = Append(@, e)]
    /\ UNCHANGED <<readCount, open, withdrawn>>

Receive(s) ==
    /\ readCount[s] < Len(accepted[s])
    /\ readCount' = [readCount EXCEPT ![s] = @ + 1]
    /\ UNCHANGED <<owed, accepted, open, withdrawn>>

Close(ss) ==
    /\ open' = open \ ss
    /\ owed' = {o \in owed : o[1] \notin ss}
    /\ UNCHANGED <<accepted, readCount, withdrawn>>

Withdraw(e) ==
    /\ withdrawn' = withdrawn \cup {e}
    /\ owed' = {o \in owed : o[2] # e}
    /\ UNCHANGED <<accepted, readCount, open>>

Next ==
    \/ \E s \in Subscribers : Subscribe(s) \/ Receive(s)
    \/ \E ss \in SUBSET open : Close(ss)
    \/ \E e \in Events : Publish(e) \/ Withdraw(e)
    \/ \E s \in Subscribers, e \in Events : Accept(s, e)

\* Owed events are accepted, and accepted events are read while the subscription
\* is open.
Fairness ==
    \A s \in Subscribers :
        WF_vars(s \in open /\ Receive(s)) /\ WF_vars(\E e \in Events : Accept(s, e))

Spec == Init /\ [][Next]_vars /\ Fairness
=============================================================================
