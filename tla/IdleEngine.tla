----------------------------- MODULE IdleEngine -----------------------------
(***************************************************************************)
(* What the inactivity engine promises its caller, the session monitor:    *)
(* which decision may follow which, whatever the clock, the locks and the  *)
(* order of the observations make of it (session/inactivity.rs).           *)
(*                                                                         *)
(* Module Inactivity implements this one; module SessionMonitor builds on  *)
(* it.                                                                     *)
(***************************************************************************)

VARIABLES
    phase,            \* InactivityPhase
    restore_pending,  \* the engine owes a restore
    decision          \* what the last operation returned

vars == <<phase, restore_pending, decision>>

Waiting   == {"Unknown", "Active"}
Inactive  == {"BlankRequested", "Blanked", "InactiveWithoutEscalation",
              "TimedPowerOffAttempted"}
Decisions == {"BlankNow", "TimedPowerOffNow", "RestoreNow", "NoOp"}

\* A monitor that finds its ownership marker starts blanked.
Start(owned) ==
    /\ phase = (IF owned THEN "Blanked" ELSE "Unknown")
    /\ restore_pending = owned
    /\ decision = "NoOp"

Init == \E owned \in BOOLEAN : Start(owned)

\* Idle timeout, lock or system blank: the TV is to be blanked, once.
RequestBlank ==
    /\ phase \in Waiting
    /\ phase' = "BlankRequested" /\ decision' = "BlankNow"
    /\ UNCHANGED restore_pending

\* The caller reports what became of the blank.
CompleteBlank(succeeded) ==
    /\ phase = "BlankRequested"
    /\ phase' = (IF succeeded THEN "Blanked" ELSE "InactiveWithoutEscalation")
    /\ restore_pending' = (restore_pending \/ succeeded)
    /\ decision' = "NoOp"

\* The grace after a blank has passed without activity.
PowerOff ==
    /\ phase = "Blanked"
    /\ phase' = "TimedPowerOffAttempted" /\ decision' = "TimedPowerOffNow"
    /\ UNCHANGED restore_pending

\* Somebody is there.  Activity that ends an inactive phase always restores, and
\* a restore that is owed is never forgotten.
Activity ==
    /\ phase # "BlankRequested"
    /\ phase' = "Active"
    /\ \/ decision' = "RestoreNow" /\ phase # "Active" /\ restore_pending' = FALSE
       \/ /\ decision' = "NoOp" /\ phase \in Waiting
          /\ ~(phase = "Unknown" /\ restore_pending)
          /\ UNCHANGED restore_pending

\* Everything the engine ignores, and the passing of time.
Ignore == decision' = "NoOp" /\ UNCHANGED <<phase, restore_pending>>

Next ==
    \/ RequestBlank
    \/ \E succeeded \in BOOLEAN : CompleteBlank(succeeded)
    \/ PowerOff
    \/ Activity
    \/ Ignore

Spec == Init /\ [][Next]_vars
=============================================================================
