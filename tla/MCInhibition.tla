---------------------------- MODULE MCInhibition ----------------------------
(***************************************************************************)
(* A small instance of the inhibition gate.                                *)
(***************************************************************************)
EXTENDS Inhibition

CONSTANTS gnome, powerdevil, r1, r2, r3
=============================================================================
