----------------------------- MODULE IdleClock -----------------------------
(***************************************************************************)
(* What the inactivity engine promises about time, without locks, owed     *)
(* restores and the timed power-off: input that is not older than what the *)
(* engine has accepted or acted upon moves the deadline of the blank and   *)
(* ends a blank; a deadline that is due requests one.  A lock may blank,   *)
(* and may make the engine ignore a provider's "active" at any time and    *)
(* input while the TV is blanked; input that was ignored still holds off   *)
(* older input.  Inactivity implements this specification; MonitorLoop is  *)
(* built on it.                                                            *)
(***************************************************************************)
EXTENDS Integers

CONSTANTS BlankAfter

VARIABLES
    now,
    idle,            \* "waiting", "requested" (the TV call runs) or "inactive"
    blank_at,        \* deadline of the blank, None when an observation blanked
    activity_floor,  \* older observations are stale
    latest_independent_activity_at  \* newest desktop or gamepad input seen

vars == <<now, idle, blank_at, activity_floor, latest_independent_activity_at>>

None == -1

Later(a, b) == IF a < b THEN b ELSE a

Independent == {"DesktopActivityObserved", "UserActivityObserved"}

Init ==
    /\ now = 0
    /\ idle \in {"waiting", "inactive"}
    /\ blank_at = BlankAfter
    /\ activity_floor = None /\ latest_independent_activity_at = None

Accept(t) ==
    /\ idle' = "waiting"
    /\ activity_floor' = t
    /\ blank_at' = Later(blank_at, t + BlankAfter)

Activity(obs, t) ==
    /\ idle # "requested"
    /\ latest_independent_activity_at' =
           IF obs \in Independent /\ t >= activity_floor
           THEN Later(latest_independent_activity_at, t)
           ELSE latest_independent_activity_at
    /\ \/ t >= activity_floor /\ t >= latest_independent_activity_at /\ Accept(t)
       \/ /\ t < activity_floor \/ idle = "inactive" \/ obs \notin Independent
          /\ UNCHANGED <<idle, blank_at, activity_floor>>

BlankDue == idle = "waiting" /\ blank_at # None /\ now >= blank_at

\* The deadline is due and the gate lets the blank pass.
Timeout ==
    /\ BlankDue
    /\ idle' = "requested" /\ activity_floor' = now
    /\ UNCHANGED <<blank_at, latest_independent_activity_at>>

\* The OS has blanked its own display at t.
SystemBlank(t) ==
    /\ idle # "requested" /\ t >= activity_floor
    /\ activity_floor' = t
    /\ IF idle = "waiting" THEN idle' = "requested" /\ blank_at' = None
       ELSE UNCHANGED <<idle, blank_at>>
    /\ UNCHANGED latest_independent_activity_at

\* A lock blanks at once.
Lock ==
    /\ idle = "waiting"
    /\ idle' = "requested" /\ blank_at' = None
    /\ UNCHANGED <<activity_floor, latest_independent_activity_at>>

Complete ==
    /\ idle = "requested" /\ idle' = "inactive"
    /\ UNCHANGED <<blank_at, activity_floor, latest_independent_activity_at>>

Tick ==
    /\ now' = now + 1
    /\ UNCHANGED <<idle, blank_at, activity_floor, latest_independent_activity_at>>

Next ==
    \/ Tick
    \/ /\ UNCHANGED now
       /\ \/ \E t \in 0..now, obs \in Independent \cup {"ProviderActive", "WakeRequested"} :
                Activity(obs, t)
          \/ \E t \in 0..now : SystemBlank(t)
          \/ Timeout \/ Lock \/ Complete

Spec == Init /\ [][Next]_vars
=============================================================================
