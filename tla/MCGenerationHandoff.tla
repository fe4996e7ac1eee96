------------------------ MODULE MCGenerationHandoff ------------------------
(***************************************************************************)
(* Three messages: a turn that is stopped, the one that stops it and the   *)
(* one that stops both.                                                    *)
(***************************************************************************)
EXTENDS GenerationHandoff
=============================================================================
