------------------------- MODULE MCSupervisedUpdate -------------------------
(* One component, updated once, with room for two failures of a version. *)
EXTENDS SupervisedUpdate

TheOrder == <<"core">>
TheLaunches == [core |-> 3]
=============================================================================
