---------------------------- MODULE MCLocalModels ----------------------------
(* Instance of LocalModels for TLC.                                        *)
EXTENDS LocalModels
=============================================================================
