--------------------------- MODULE MCTurnManager ---------------------------
(***************************************************************************)
(* The turn manager with thresholds of a few clock ticks: one tick of      *)
(* speech is enough, the silence thresholds are 0, 1 and 2 ticks apart and *)
(* a doubted interruption recovers after one.                              *)
(***************************************************************************)
EXTENDS TurnManager
=============================================================================
