--------------------------- MODULE MCSuspendRail ---------------------------
(***************************************************************************)
(* Small instances of the suspend rail: one or two interfaces, two         *)
(* suspends.                                                               *)
(***************************************************************************)
EXTENDS SuspendRail
=============================================================================
