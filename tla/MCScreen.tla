------------------------------ MODULE MCScreen ------------------------------
(***************************************************************************)
(* Instances of Screen for TLC: the configurations choose how many         *)
(* processes run actions and what goes wrong.                              *)
(***************************************************************************)
EXTENDS Screen
=============================================================================
