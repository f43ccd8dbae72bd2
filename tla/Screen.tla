------------------------------- MODULE Screen -------------------------------
(***************************************************************************)
(* The screen actions of a login session (screen.rs, session/actions.rs):  *)
(* screen off, the timed power-off and screen on.                          *)
(*                                                                         *)
(* The session monitor runs them one at a time; `lg-buddy screen off` and  *)
(* `lg-buddy screen on` run them in processes of their own.  They share    *)
(* the TV and the session ownership marker, a file.  The system's sleep    *)
(* and resume handling (module SuspendRail) shows here as what it does to  *)
(* the TV and to its own marker: while that marker exists the monitor is   *)
(* to leave the TV alone.                                                  *)
(***************************************************************************)
EXTENDS Naturals

CONSTANTS
    Monitor,      \* the session monitor
    Commands,     \* processes started by hand
    Aggressive,   \* screen_restore_policy = aggressive
    MayFail,      \* calls to the TV and to logind fail
    FilesMayFail, \* marker files cannot be written or removed
    MayRemote,    \* somebody uses the remote control
    Attempts,     \* SCREEN_ON_WAKE_ATTEMPTS
    MaxSuspends   \* bound on the number of suspends

Procs == Commands \cup {Monitor}

VARIABLES
    power, screen, input,  \* the TV: on or off, lit or blank, our input or another
    machine,               \* awake, preparing for sleep or asleep
    suspends,              \* suspends begun so far
    system_marker,         \* the system ownership marker exists
    marker,                \* the session ownership marker exists
    action,                \* the action each process runs
    step,                  \* where it is
    tries,                 \* wake attempts it has made
    blank_succeeded,       \* what its last screen off returned
    held,                  \* history: a screen action certainly made the TV dark
                           \* while it showed our input, and nobody has lit it
    deferring              \* history: processes whose action found the system
                           \* marker when it began, while it has stayed

tv      == <<power, screen, input, held>>
system  == <<machine, suspends, system_marker>>
session == <<action, step, tries, blank_succeeded>>
vars    == <<tv, system, marker, session, deferring>>

Actions == {"off", "timed", "on"}
\* Only the monitor has a timed power-off.
ActionsOf(p) == IF p = Monitor THEN Actions ELSE {"off", "on"}
IoSteps == {"query", "blank", "power_off", "unblank", "wake", "set_input"}
Steps   == IoSteps \cup {"idle", "phase", "lifecycle", "begin", "mark", "clear"}

Goto(p, s) == step' = [step EXCEPT ![p] = s]
Finish(p)  == Goto(p, "idle")
At(p, s)   == machine # "asleep" /\ step[p] = s

Init ==
    /\ power = "on" /\ screen = "lit" /\ input = "ours" /\ held = FALSE
    /\ machine = "awake" /\ suspends = 0 /\ system_marker = FALSE
    /\ marker = FALSE
    /\ action = [p \in Procs |-> "on"] /\ step = [p \in Procs |-> "idle"]
    /\ tries = [p \in Procs |-> 0] /\ blank_succeeded = [p \in Procs |-> FALSE]
    /\ deferring = {}

-----------------------------------------------------------------------------
(***************************************************************************)
(* Every action begins with the configuration, which may not load, and     *)
(* with two reads that decide whether the session may act: logind's        *)
(* PreparingForSleep, then the system marker.  Commands skip them.         *)
(***************************************************************************)
Start(p, a) ==
    /\ At(p, "idle")
    /\ action' = [action EXCEPT ![p] = a]
    /\ blank_succeeded' = [blank_succeeded EXCEPT ![p] = FALSE]
    /\ \/ Goto(p, IF a = "timed" /\ ~marker THEN "idle" ELSE "phase")
       \/ MayFail /\ Finish(p)
    /\ deferring' = IF system_marker THEN deferring \cup {p} ELSE deferring \ {p}
    /\ UNCHANGED <<tv, system, marker, tries>>

\* logind does not answer: the phase is Unknown, and the marker decides.
CheckPhase(p) ==
    /\ At(p, "phase")
    /\ \/ Goto(p, IF p # Monitor THEN "begin"
                  ELSE IF machine = "preparing" THEN "idle" ELSE "lifecycle")
       \/ MayFail /\ p = Monitor /\ Goto(p, "lifecycle")
    /\ UNCHANGED <<tv, system, marker, action, tries, blank_succeeded, deferring>>

\* Mutant: an unfinished system restore is no obstacle.
CheckRestorePendingMutant(p) ==
    /\ At(p, "lifecycle")
    /\ Goto(p, "begin")
    /\ UNCHANGED <<tv, system, marker, action, tries, blank_succeeded, deferring>>
CheckRestorePending(p) ==
    /\ At(p, "lifecycle")
    /\ Goto(p, IF system_marker THEN "idle" ELSE "begin")
    /\ UNCHANGED <<tv, system, marker, action, tries, blank_succeeded, deferring>>

CheckOwnership(p) ==
    /\ At(p, "begin")
    /\ Goto(p, CASE action[p] = "off"   -> "query"
                 [] action[p] = "timed" -> IF marker THEN "query" ELSE "idle"
                 [] action[p] = "on"    -> IF marker \/ Aggressive THEN "unblank" ELSE "idle")
    /\ tries' = [tries EXCEPT ![p] = 0]
    /\ UNCHANGED <<tv, system, marker, action, blank_succeeded, deferring>>

-----------------------------------------------------------------------------
(***************************************************************************)
(* Screen off and the timed power-off.                                     *)
(***************************************************************************)
\* Another input means that the TV is not ours any more.  Without an answer
\* screen off powers the TV off blindly, the timed power-off does nothing.
QueryInput(p) ==
    /\ At(p, "query")
    /\ \/ /\ power = "on" /\ input = "ours"
          /\ Goto(p, IF action[p] = "off" THEN "blank" ELSE "power_off")
          /\ UNCHANGED marker
       \/ /\ power = "on" /\ input = "other"
          /\ marker' = FALSE \/ (FilesMayFail /\ UNCHANGED marker)
          /\ Finish(p)
       \/ /\ MayFail \/ power = "off"
          /\ Goto(p, IF action[p] = "off" THEN "power_off" ELSE "idle")
          /\ UNCHANGED marker
    /\ UNCHANGED <<tv, system, action, tries, blank_succeeded, deferring>>

\* A call that fails may have had its effect.
BlankScreen(p) ==
    /\ At(p, "blank")
    /\ \/ /\ power = "on"
          /\ screen' = "blank" /\ held' = (input = "ours")
          /\ blank_succeeded' = [blank_succeeded EXCEPT ![p] = TRUE]
          /\ Goto(p, "mark")
       \/ /\ MayFail \/ power = "off"
          /\ screen' \in IF power = "on" THEN {screen, "blank"} ELSE {screen}
          /\ Goto(p, "power_off")
          /\ UNCHANGED <<held, blank_succeeded>>
    /\ UNCHANGED <<power, input, system, marker, action, tries, deferring>>

\* Only the fallback creates the marker: the timed power-off has found one.
\* Mutant: the fallback does not record what it did.
AfterPowerOffMutant(p) == "idle"
AfterPowerOff(p) == IF action[p] = "off" THEN "mark" ELSE "idle"

PowerOff(p) ==
    /\ At(p, "power_off")
    /\ \/ /\ power = "on"
          /\ power' = "off" /\ held' = (input = "ours")
          /\ Goto(p, AfterPowerOff(p))
       \/ /\ MayFail \/ power = "off"
          /\ power' \in {power, "off"} /\ Finish(p)
          /\ UNCHANGED held
    /\ UNCHANGED <<screen, input, system, marker, action, tries, blank_succeeded, deferring>>

\* An action that cannot write the marker returns an error: to the monitor, the
\* screen was not blanked.
CreateMarker(p) ==
    /\ At(p, "mark")
    /\ \/ marker' = TRUE /\ UNCHANGED blank_succeeded
       \/ /\ FilesMayFail
          /\ blank_succeeded' = [blank_succeeded EXCEPT ![p] = FALSE]
          /\ UNCHANGED marker
    /\ Finish(p)
    /\ UNCHANGED <<tv, system, action, tries, deferring>>

-----------------------------------------------------------------------------
(***************************************************************************)
(* Screen on: unblank or, when that fails, wake packets and attempts to    *)
(* set the input.  Only success clears the marker.                         *)
(***************************************************************************)
LightUp == screen' = "lit" /\ held' = FALSE

Unblank(p) ==
    /\ At(p, "unblank")
    /\ \/ power = "on" /\ LightUp /\ Goto(p, "clear")
       \/ MayFail /\ power = "on" /\ LightUp /\ Goto(p, "wake")
       \/ (MayFail \/ power = "off") /\ UNCHANGED <<screen, held>> /\ Goto(p, "wake")
    /\ UNCHANGED <<power, input, system, marker, action, tries, blank_succeeded, deferring>>

Exhausted(p) == tries[p] = Attempts

\* The packet and the delay after it: a TV that is off comes up, or does not.
\* The last failed attempt is followed by a packet too, and then by giving up.
SendWakePacket(p) ==
    /\ At(p, "wake")
    /\ \/ power = "off" /\ power' = "on" /\ LightUp
       \/ (MayFail \/ power = "on") /\ UNCHANGED <<power, screen, held>>
    /\ Goto(p, IF Exhausted(p) THEN "idle" ELSE "set_input")
    /\ UNCHANGED <<input, system, marker, action, tries, blank_succeeded, deferring>>

AttemptsMade(p) == tries[p] + 1

\* A screen that is not visible is unblanked before the input is set again.
RestoreInput(p) ==
    /\ At(p, "set_input")
    /\ \/ /\ power = "on" /\ input' = "ours" /\ LightUp
          /\ Goto(p, "clear")
          /\ UNCHANGED tries
       \/ /\ MayFail \/ power = "off"
          /\ \/ UNCHANGED <<screen, held>>
             \/ power = "on" /\ LightUp
          /\ input' \in IF power = "on" THEN {input, "ours"} ELSE {input}
          /\ tries' = [tries EXCEPT ![p] = AttemptsMade(p)]
          /\ Goto(p, "wake")
    /\ UNCHANGED <<power, system, marker, action, blank_succeeded, deferring>>

ClearMarker(p) ==
    /\ At(p, "clear")
    /\ marker' = FALSE \/ (FilesMayFail /\ UNCHANGED marker)
    /\ Finish(p)
    /\ UNCHANGED <<tv, system, action, tries, blank_succeeded, deferring>>

Work(p) ==
    \/ CheckPhase(p) \/ CheckRestorePending(p) \/ CheckOwnership(p)
    \/ QueryInput(p) \/ BlankScreen(p) \/ PowerOff(p) \/ CreateMarker(p)
    \/ Unblank(p) \/ SendWakePacket(p) \/ RestoreInput(p) \/ ClearMarker(p)

-----------------------------------------------------------------------------
(***************************************************************************)
(* The system's sleep and resume handling, and the remote control.         *)
(***************************************************************************)
PrepareForSleep ==
    /\ machine = "awake" /\ suspends < MaxSuspends
    /\ machine' = "preparing" /\ suspends' = suspends + 1
    /\ UNCHANGED <<tv, system_marker, marker, session, deferring>>

\* The pre-sleep decision: power off a TV on our input, or one that did not say;
\* disown a TV on another input.  A power-off that fails leaves the marker.
SystemPowerOff ==
    /\ machine = "preparing" /\ power = "on"
    /\ \/ /\ input = "ours" \/ MayFail
          /\ power' = "off" /\ system_marker' = TRUE /\ UNCHANGED deferring
       \/ /\ input = "other"
          /\ system_marker' = FALSE /\ deferring' = {} /\ UNCHANGED power
       \/ MayFail /\ power' = "off" /\ UNCHANGED <<system_marker, deferring>>
    /\ UNCHANGED <<screen, input, held, machine, suspends, marker, session>>

\* The machine waits for the decision, unless something fails.
Sleep ==
    /\ machine = "preparing" /\ machine' = "asleep"
    /\ MayFail \/ power = "off" \/ input = "other"
    /\ UNCHANGED <<tv, suspends, system_marker, marker, session, deferring>>

Resume ==
    /\ machine = "asleep" /\ machine' = "awake"
    /\ UNCHANGED <<tv, suspends, system_marker, marker, session, deferring>>

\* The restore after a resume, done or given up.  It wakes the TV and sets the
\* input, which a TV that is on with a blank screen refuses.
SystemRestore ==
    /\ machine = "awake" /\ system_marker
    /\ \/ /\ power = "off" \/ screen = "lit"
          /\ power' = "on" /\ LightUp /\ input' = "ours"
       \/ /\ MayFail \/ (power = "on" /\ screen = "blank")
          /\ UNCHANGED tv
       \/ /\ MayFail /\ power = "off"
          /\ power' = "on" /\ LightUp /\ UNCHANGED input
    /\ system_marker' = FALSE /\ deferring' = {}
    /\ UNCHANGED <<machine, suspends, marker, session>>

\* Whoever picks another input or switches the TV on sees a picture.
Remote ==
    /\ MayRemote
    /\ power' \in {"on", "off"} /\ input' \in IF power' = "on" THEN {"ours", "other"} ELSE {input}
    /\ IF power' = "on" THEN LightUp ELSE UNCHANGED <<screen, held>>
    /\ UNCHANGED <<system, marker, session, deferring>>

World == PrepareForSleep \/ SystemPowerOff \/ Sleep \/ Resume \/ SystemRestore \/ Remote

Next ==
    \/ \E p \in Procs : Work(p) \/ \E a \in ActionsOf(p) : Start(p, a)
    \/ World

Spec == Init /\ [][Next]_vars

-----------------------------------------------------------------------------
\* A TV that a screen action certainly made dark, on our input, and that nobody
\* has lit since, is remembered by the session marker: a later restore will find it ("The
\* ownership markers answer one question: did LG Buddy blank or power off the TV
\* as part of its own policy?").
DarknessIsRemembered ==
    held => marker \/ \E p \in Procs : step[p] = "mark"

\* A monitor action that begins while the system restore is pending talks to the
\* TV only once that restore is over, whether or not logind answered.
SessionDefersToSystem ==
    Monitor \in deferring => step[Monitor] \notin IoSteps

\* A TV that the pre-sleep handling has turned off stays off until the resume
\* handling turns it on ("session screen actions defer to the lifecycle resume
\* path").
SystemOffStaysOff == system_marker => power = "off"
=============================================================================
