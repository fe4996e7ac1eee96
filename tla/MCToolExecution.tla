--------------------------- MODULE MCToolExecution ---------------------------
(***************************************************************************)
(* Calls that use one tool_call_id for sensitive, cancellable tools: those *)
(* of two model turns, the first of which is made twice, or those of a     *)
(* turn and of an owner action beside it, while another turn begins.       *)
(***************************************************************************)
EXTENDS ToolExecution

VARIABLE scenario

InvocationOfCaller == <<1, 1, 2, 3>>
EachItsOwn == [i \in Invocations |-> i]
OneCallId == [i \in Invocations |-> 1]

\* The callers that call and the generations that begin.
Taking == IF scenario = "turns" THEN {1, 2, 3} ELSE {1, 4}
Beginning == IF scenario = "turns" THEN {1, 2} ELSE {1, 2, 3}

\* The tools of the turn and of the action beside it are both sensitive.
MCInit ==
    /\ scenario \in {"turns", "owner action"}
    /\ Init
    /\ scenario = "owner action" => sensitive = Invocations

MCNext ==
    /\ \/ \E c \in Taking : CallStep(c)
       \/ \E g \in Beginning : Begin(g) \/ Stop(g) \/ Withdraw(g)
       \/ \E i \in Invocations, approved \in BOOLEAN : Decide(i, approved)
       \/ Revoke \/ Restore
    /\ UNCHANGED scenario

\* A caller that does not call has nothing to be fair to.
MCFairness == \A c \in Callers : WF_vars(c \in Taking /\ CallStep(c))

MCSpec == MCInit /\ [][MCNext]_<<scenario, vars>> /\ MCFairness
=============================================================================
