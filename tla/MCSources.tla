----------------------------- MODULE MCSources -----------------------------
(***************************************************************************)
(* The threads that observe the machine for TLC: the specification that    *)
(* SourcesProofs has its theorems about, on a small instance.              *)
(***************************************************************************)
EXTENDS SourcesProofs
=============================================================================
