--------------------------- MODULE MCApplication ---------------------------
(***************************************************************************)
(* The application for TLC: the specification that ApplicationProofs has   *)
(* its theorems about, on a small instance.                                *)
(***************************************************************************)
EXTENDS ApplicationProofs
=============================================================================
