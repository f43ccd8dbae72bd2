--------------------------- MODULE SessionMonitor ---------------------------
(***************************************************************************)
(* The session monitor (session/runner.rs): the inactivity engine decides, *)
(* the screen actions carry out.  The monitor's loop handles one           *)
(* observation at a time and runs the action it calls for to its end, so   *)
(* the engine's idea of the TV and the TV itself drift apart only through  *)
(* actions that fail, are skipped or are cut short, and through the world. *)
(*                                                                         *)
(* The engine is its abstraction, IdleEngine: when the timers fire is the  *)
(* subject of Inactivity.  A blank request stands for the idle timeout, a  *)
(* session lock and a system display blank.                                *)
(***************************************************************************)
EXTENDS Naturals

CONSTANTS
    Monitor, Aggressive, MayFail, FilesMayFail, MayRemote, Attempts,
    MaxSuspends,  \* as in Screen
    Restarts      \* when it may be restarted: "never", "between actions" or "any time"

VARIABLES
    power, screen, input, machine, suspends, system_marker, marker, action, step,
    tries, blank_succeeded, held, deferring,  \* as in Screen
    phase, restore_pending, decision,         \* as in IdleEngine
    used,      \* history: there was activity after the last successful blank
               \* and after the monitor started
    abandoned  \* history: the last restore ended with the TV still dark, or the
               \* marker was not written, and nothing has made up for it since

Tv     == INSTANCE Screen WITH Commands <- {}
Engine == INSTANCE IdleEngine

world   == <<power, screen, input, held, machine, suspends, system_marker, marker,
             deferring>>
actions == <<action, step, tries, blank_succeeded>>
engine  == <<phase, restore_pending, decision>>
vars    == <<world, actions, engine, used, abandoned>>

\* The loop is between two observations.
Free == Tv!At(Monitor, "idle") /\ phase # "BlankRequested"

Init ==
    /\ Tv!Init
    /\ Engine!Start(marker)
    /\ used = TRUE /\ abandoned = FALSE

\* handle_blank_request, up to the end of the action.
RequestBlank ==
    /\ Free
    /\ Engine!RequestBlank
    /\ Tv!Start(Monitor, "off")
    /\ UNCHANGED <<used, abandoned>>

\* Mutant: a blank is assumed to have succeeded.
BlankReportMutant == TRUE
BlankReport == blank_succeeded[Monitor]

CompleteBlank ==
    /\ Tv!At(Monitor, "idle")
    /\ Engine!CompleteBlank(BlankReport)
    /\ used' = (used /\ ~blank_succeeded[Monitor])
    /\ abandoned' = (abandoned /\ ~marker)
    /\ UNCHANGED <<world, actions>>

TimedPowerOff ==
    /\ Free
    /\ Engine!PowerOff
    /\ Tv!Start(Monitor, "timed")
    /\ UNCHANGED <<used, abandoned>>

RestoreEnded == action'[Monitor] = "on" /\ step'[Monitor] = "idle"

\* Mutant: only a restore that the engine owes is carried out.
RestoreCalledForMutant == decision' = "RestoreNow" /\ restore_pending
RestoreCalledFor == decision' = "RestoreNow"

ObserveActivity ==
    /\ Free
    /\ Engine!Activity
    /\ used' = TRUE
    /\ IF RestoreCalledFor
       THEN /\ Tv!Start(Monitor, "on")
            /\ abandoned' = IF RestoreEnded THEN held ELSE abandoned
       ELSE UNCHANGED <<world, actions, abandoned>>

MarkerFailed == step[Monitor] = "mark" /\ ~marker'

Act ==
    /\ Tv!Work(Monitor)
    /\ abandoned' = IF RestoreEnded THEN held' ELSE abandoned \/ MarkerFailed
    /\ UNCHANGED <<engine, used>>

\* Mutant: a new monitor forgets the marker.
OwnedAtStartMutant == FALSE
OwnedAtStart == marker

\* The monitor is stopped and started: only files survive.
Restart ==
    /\ machine # "asleep"
    /\ \/ Restarts = "between actions" /\ Free
       \/ Restarts = "any time"
    /\ step' = [step EXCEPT ![Monitor] = "idle"]
    /\ action' = [action EXCEPT ![Monitor] = "on"]
    /\ tries' = [tries EXCEPT ![Monitor] = 0]
    /\ blank_succeeded' = [blank_succeeded EXCEPT ![Monitor] = FALSE]
    /\ phase' = (IF OwnedAtStart THEN "Blanked" ELSE "Unknown")
    /\ restore_pending' = OwnedAtStart /\ decision' = "NoOp"
    /\ abandoned' = (held /\ ~marker /\ (step[Monitor] = "mark" \/ abandoned))
    /\ used' = FALSE
    /\ UNCHANGED world

World ==
    /\ Tv!World
    /\ UNCHANGED <<engine, used, abandoned>>

SystemRestore == Tv!SystemRestore /\ UNCHANGED <<engine, used, abandoned>>

Next ==
    \/ RequestBlank \/ CompleteBlank \/ TimedPowerOff \/ ObserveActivity \/ Act
    \/ Restart \/ World

Spec == Init /\ [][Next]_vars

\* The loop goes on, the system's restore comes to its end, and somebody who is
\* there keeps using the machine.
FairSpec ==
    /\ Spec
    /\ WF_vars(Act) /\ WF_vars(CompleteBlank) /\ WF_vars(SystemRestore)
    /\ WF_vars(ObserveActivity)

-----------------------------------------------------------------------------
\* While the TV is dark by the monitor's doing the engine knows that it is to be
\* restored, whatever the blank returned and however often the monitor is
\* restarted.  These are the ways to lose it: the restore that the last activity
\* called for has failed or was skipped, or the monitor was killed after the TV's
\* answer and before the marker was written, or it could not write the marker.
DarkTvIsWatched ==
    held => phase \in Engine!Inactive \/ step[Monitor] # "idle" \/ abandoned

\* The timed power-off never turns off a TV in use: nobody was there since it was
\* blanked or since the monitor started ("On process restart, an existing marker
\* starts a fresh five-minute grace period").
LitTvInUseStaysOn ==
    [][step[Monitor] = "power_off" /\ action[Monitor] = "timed" /\ power # power'
       /\ step'[Monitor] # "power_off" => ~used]_vars

\* Activity lights a TV that the monitor has made dark: it does not stay dark
\* before somebody who uses the machine ("so later activity can restore the TV").
ActivityLightsTheTv ==
    (held /\ phase = "Active" /\ machine = "awake") ~> (~held \/ machine # "awake")
=============================================================================
