----------------------------- MODULE MCProgress -----------------------------
(***************************************************************************)
(* Components whose point is that something ends: publishers that wait for *)
(* room (EventBus), a shutdown (Supervisor), the delivery of speech        *)
(* (SpeechDelivery) and a response that was stopped (SpokenResponse).      *)
(* They share no state; each behaviour is one of the component in focus,   *)
(* and the others stay as they began.                                      *)
(*                                                                         *)
(* Of the delivery there are two generations and one record, so that the   *)
(* first is evicted while its chunks may still be queued or played; three  *)
(* chunks and a queue of two, so that a producer waits for room and an     *)
(* order can be lost.                                                      *)
(***************************************************************************)
EXTENDS EventBus, Supervisor, SpeechDelivery, SpokenResponse

VARIABLE focus          \* the component whose behaviour this is

vars == <<focus, busVars, superVars, deliveryVars, outputVars>>

TheOrder == <<"core", "ui">>
TheLaunches == [core |-> 3, ui |-> 1]

Init ==
    /\ focus \in {"bus", "supervisor", "delivery", "output"}
    /\ BusInit /\ SupervisorInit /\ DeliveryInit /\ OutputInit

Publishing == focus = "bus" /\ UNCHANGED <<focus, superVars, deliveryVars, outputVars>>
Supervising == focus = "supervisor" /\ UNCHANGED <<focus, busVars, deliveryVars, outputVars>>
Delivering == focus = "delivery" /\ UNCHANGED <<focus, busVars, superVars, outputVars>>
Speaking == focus = "output" /\ UNCHANGED <<focus, busVars, superVars, deliveryVars>>

Next ==
    \/ Publishing /\ BusNext
    \/ Supervising /\ SupervisorNext
    \/ Delivering /\ DeliveryNext
    \/ Speaking /\ OutputNext

\* The fairness of the components.  Nothing that is fair of the bus, the
\* supervisor and the delivery is enabled as they begin, so theirs asks nothing
\* of the behaviours of others.
Fairness ==
    /\ BusFairness /\ SupervisorFairness /\ DeliveryFairness
    /\ WF_vars(Speaking /\ TaskStep) /\ WF_vars(Speaking /\ WriteEnds)
    /\ WF_vars(Speaking /\ task \notin Spawning \cup Answering /\ Arrives)
    /\ \A op \in DeviceAwaits : WF_vars(Speaking /\ ThreadEnds(op))

Spec == Init /\ [][Next]_vars /\ Fairness
=============================================================================
