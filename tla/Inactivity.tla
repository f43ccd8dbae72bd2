----------------------------- MODULE Inactivity -----------------------------
(***************************************************************************)
(* The inactivity engine of the session monitor (session/inactivity.rs).   *)
(*                                                                         *)
(* The engine decides when the TV is blanked, powered off and restored     *)
(* from observations that carry the instant they were made.  The monitor   *)
(* delivers an observation some time after it was made, so observations of *)
(* different sources arrive out of order: every operation below takes an   *)
(* instant t anywhere between the start of the monitor and now.            *)
(*                                                                         *)
(* The monitor thread is the only caller and runs the TV blank between a   *)
(* BlankNow decision and complete_blank, so while a blank is requested     *)
(* only time passes and the blank completes.                               *)
(***************************************************************************)
EXTENDS Integers

CONSTANTS
    BlankAfter,      \* idle timeout, in ticks
    PowerOffAfter,   \* grace between a blank and the timed power-off
    PostLockGrace,   \* POST_LOCK_ACTIVITY_GRACE
    MaxTime          \* bound on the clock

VARIABLES
    now,                             \* Instant::now(), the monitor starts at 0
    blank_at,                        \* deadline of the blank
    power_off_at,                    \* deadline of the timed power-off
    phase,                           \* InactivityPhase
    restore_pending,                 \* we blanked the TV and owe a restore
    session_locked_since,            \* instant of the lock in force
    lock_activity_floor,             \* input up to here cannot undo a lock blank
    post_lock_activity_grace_until,  \* end of the grace after the last lock
    latest_independent_activity_at,  \* newest desktop or gamepad input seen
    activity_floor,                  \* older observations are stale
    decision,                        \* what the last operation returned
    blank_cause_at,                  \* history: observation that blanked the TV
    last_lock_at                     \* history: last lock observation

deadlines == <<blank_at, power_off_at>>
locks     == <<session_locked_since, lock_activity_floor,
               post_lock_activity_grace_until>>
activity  == <<latest_independent_activity_at, activity_floor>>
history   == <<blank_cause_at, last_lock_at>>
vars      == <<now, deadlines, phase, restore_pending, locks, activity,
               decision, history>>

\* Option<Instant>: instants are naturals and an absent one is below them all,
\* so that an absent floor rejects nothing.
None == -1
OptionInstant == Nat \cup {None}

\* Mutant: the earlier of two instants.
LaterMutant(a, b) == IF a < b THEN a ELSE b
Later(a, b) == IF a < b THEN b ELSE a

BlankDeadline(t) == t + BlankAfter

\* Mutant: off by one.
PowerOffDeadlineMutant(t) == t + PowerOffAfter - 1
PowerOffDeadline(t) == t + PowerOffAfter

Waiting  == {"Unknown", "Active"}
Phases   == {"Unknown", "Active", "BlankRequested", "Blanked",
             "InactiveWithoutEscalation", "TimedPowerOffAttempted"}

Inactive == {"BlankRequested", "Blanked", "InactiveWithoutEscalation",
             "TimedPowerOffAttempted"}

Independent  == {"DesktopActivityObserved", "UserActivityObserved"}
Provider     == {"ProviderActive", "WakeRequested"}
Observations == Independent \cup Provider

Decisions == {"BlankNow", "TimedPowerOffNow", "RestoreNow", "NoOp"}

timed_power_off_pending == phase = "Blanked" /\ power_off_at # None

-----------------------------------------------------------------------------
(***************************************************************************)
(* Construction.  A monitor that finds the session ownership marker starts *)
(* blanked and owing a restore, any other one starts not knowing.          *)
(***************************************************************************)
Fresh(owned, at) ==
    /\ blank_at = BlankDeadline(at)
    /\ power_off_at = (IF owned THEN PowerOffDeadline(at) ELSE None)
    /\ phase = (IF owned THEN "Blanked" ELSE "Unknown")
    /\ restore_pending = owned
    /\ session_locked_since = None
    /\ lock_activity_floor = None
    /\ post_lock_activity_grace_until = None
    /\ latest_independent_activity_at = None
    /\ activity_floor = None

Init ==
    /\ now = 0
    /\ \E owned \in BOOLEAN : Fresh(owned, 0)
    /\ decision = "NoOp"
    /\ blank_cause_at = 0
    /\ last_lock_at = None

NoOp == decision' = "NoOp"

\* The phase becomes BlankRequested because of an observation made at t.
RequestBlank(t) ==
    /\ phase' = "BlankRequested"
    /\ blank_cause_at' = t
    /\ decision' = "BlankNow"

(***************************************************************************)
(* The OS blanked its own display at t.  A fresh observation moves the     *)
(* floor whatever the phase; it requests a blank only while waiting.       *)
(***************************************************************************)
\* Mutant: an observation while blanked asks for another blank.
ObserveProviderIdleReblank(t) ==
    /\ IF t < activity_floor
       THEN NoOp /\ UNCHANGED <<phase, blank_at, activity_floor, blank_cause_at>>
       ELSE /\ activity_floor' = Later(activity_floor, t)
            /\ IF phase \in Waiting \cup {"Blanked"}
               THEN RequestBlank(t) /\ blank_at' = None
               ELSE NoOp /\ UNCHANGED <<phase, blank_at, blank_cause_at>>
    /\ UNCHANGED <<power_off_at, restore_pending, locks,
                   latest_independent_activity_at, last_lock_at>>
\* Mutant: a delayed observation is not recognised as stale.
ObserveProviderIdleStale(t) ==
    /\ activity_floor' = t
    /\ IF phase \in Waiting
       THEN RequestBlank(t) /\ blank_at' = None
       ELSE NoOp /\ UNCHANGED <<phase, blank_at, blank_cause_at>>
    /\ UNCHANGED <<power_off_at, restore_pending, locks,
                   latest_independent_activity_at, last_lock_at>>
ObserveProviderIdle(t) ==
    /\ IF t < activity_floor
       THEN NoOp /\ UNCHANGED <<phase, blank_at, activity_floor, blank_cause_at>>
       ELSE /\ activity_floor' = Later(activity_floor, t)
            /\ IF phase \in Waiting
               THEN RequestBlank(t) /\ blank_at' = None
               ELSE NoOp /\ UNCHANGED <<phase, blank_at, blank_cause_at>>
    /\ UNCHANGED <<power_off_at, restore_pending, locks,
                   latest_independent_activity_at, last_lock_at>>

\* The TV call that a BlankNow started has returned, at the present instant.
CompleteBlank(succeeded) ==
    /\ phase = "BlankRequested"
    /\ phase' = (IF succeeded THEN "Blanked" ELSE "InactiveWithoutEscalation")
    /\ restore_pending' = (restore_pending \/ succeeded)
    /\ power_off_at' = (IF succeeded THEN PowerOffDeadline(now) ELSE None)
    /\ NoOp
    /\ UNCHANGED <<blank_at, locks, activity, history>>

\* The early returns of observe_activity that follow the staleness test.
\* Mutant: without the floor a lock leaves behind.
IgnoredWithoutFloor(obs, t) ==
    \/ obs \in Provider /\ session_locked_since # None
    \/ /\ phase \in Inactive
       /\ obs \in Independent
       /\ t < post_lock_activity_grace_until
\* Mutant: without the grace after a lock.
IgnoredWithoutGrace(obs, t) ==
    \/ obs \in Provider /\ session_locked_since # None
    \/ /\ phase \in Inactive
       /\ lock_activity_floor # None
       /\ obs \notin Independent \/ t <= lock_activity_floor
Ignored(obs, t) ==
    \/ obs \in Provider /\ session_locked_since # None
    \/ /\ phase \in Inactive
       /\ obs \in Independent
       /\ t < post_lock_activity_grace_until
    \/ /\ phase \in Inactive
       /\ lock_activity_floor # None
       /\ obs \notin Independent \/ t <= lock_activity_floor

\* An activity observation that is neither stale nor ignored.
AcceptActivity(obs, t) ==
    /\ activity_floor' = t
    /\ blank_at' = Later(IF blank_at = None THEN t ELSE blank_at, BlankDeadline(t))
    /\ phase' = "Active"
    /\ decision' = (IF \/ phase \in Inactive
                       \/ /\ phase = "Unknown"
                          /\ restore_pending \/ obs # "DesktopActivityObserved"
                    THEN "RestoreNow" ELSE "NoOp")
    /\ restore_pending' = (restore_pending /\ decision' = "NoOp")
    /\ IF phase \in Inactive
       THEN power_off_at' = None /\ lock_activity_floor' = None
       ELSE UNCHANGED <<power_off_at, lock_activity_floor>>

ObserveActivity(obs, t) ==
    /\ latest_independent_activity_at' =
           (IF obs \in Independent /\ t >= activity_floor
            THEN Later(latest_independent_activity_at, t)
            ELSE latest_independent_activity_at)
    /\ IF t < activity_floor \/ Ignored(obs, t)
       THEN NoOp /\ UNCHANGED <<deadlines, phase, restore_pending, activity_floor,
                                lock_activity_floor>>
       ELSE AcceptActivity(obs, t)
    /\ UNCHANGED <<session_locked_since, post_lock_activity_grace_until, history>>

(***************************************************************************)
(* A tick of the monitor at the present instant.  The gate is asked only   *)
(* when the blank deadline is due, and a denial changes nothing.           *)
(***************************************************************************)
BlankDue == phase \in Waiting /\ blank_at # None /\ now >= blank_at

BlankByTimeout ==
    /\ BlankDue
    /\ RequestBlank(now)
    /\ lock_activity_floor' = session_locked_since
    /\ activity_floor' = now
    /\ UNCHANGED <<deadlines, restore_pending, session_locked_since,
                   post_lock_activity_grace_until,
                   latest_independent_activity_at, last_lock_at>>

PowerOffByTimeout ==
    /\ timed_power_off_pending
    /\ now >= power_off_at
    /\ phase' = "TimedPowerOffAttempted"
    /\ power_off_at' = None
    /\ decision' = "TimedPowerOffNow"
    /\ UNCHANGED <<blank_at, restore_pending, locks, activity, history>>

NothingDue(can_blank) ==
    /\ ~(BlankDue /\ can_blank)
    /\ ~(timed_power_off_pending /\ now >= power_off_at)
    /\ NoOp
    /\ UNCHANGED <<deadlines, phase, restore_pending, locks, activity, history>>

ObserveTime(can_blank) ==
    \/ can_blank /\ BlankByTimeout
    \/ PowerOffByTimeout
    \/ NothingDue(can_blank)

(***************************************************************************)
(* The session was locked at t.  Input at least a grace younger than the   *)
(* lock proves that somebody is there and the lock blanks nothing.         *)
(***************************************************************************)
ObserveLock(t) ==
    /\ IF session_locked_since # None
       THEN NoOp /\ UNCHANGED <<blank_at, phase, locks, history>>
       ELSE /\ session_locked_since' = t
            /\ last_lock_at' = t
            /\ IF latest_independent_activity_at >= t + PostLockGrace
               THEN /\ lock_activity_floor' = None
                    /\ post_lock_activity_grace_until' = None
                    /\ NoOp /\ UNCHANGED <<blank_at, phase, blank_cause_at>>
               ELSE /\ lock_activity_floor' = t
                    /\ post_lock_activity_grace_until' = t + PostLockGrace
                    /\ IF phase \in Inactive
                       THEN NoOp /\ UNCHANGED <<blank_at, phase, blank_cause_at>>
                       ELSE RequestBlank(t) /\ blank_at' = None
    /\ UNCHANGED <<power_off_at, restore_pending, activity>>

ObserveUnlock ==
    /\ session_locked_since' = None
    /\ NoOp
    /\ UNCHANGED <<deadlines, phase, restore_pending, lock_activity_floor,
                   post_lock_activity_grace_until, activity, history>>

-----------------------------------------------------------------------------
(***************************************************************************)
(* The engine with the most general caller the monitor can be.             *)
(***************************************************************************)
Past == 0..now

\* The lock observer reads the clock as it publishes, so the instants of its
\* lock observations never decrease.
LockInstants == {t \in Past : t >= last_lock_at}

Tick ==
    /\ now < MaxTime
    /\ now' = now + 1
    /\ NoOp
    /\ UNCHANGED <<deadlines, phase, restore_pending, locks, activity, history>>

Operation ==
    \/ \E t \in Past : ObserveProviderIdle(t)
    \/ \E t \in Past, obs \in Observations : ObserveActivity(obs, t)
    \/ \E can_blank \in BOOLEAN : ObserveTime(can_blank)
    \/ \E t \in LockInstants : ObserveLock(t)
    \/ ObserveUnlock

Next ==
    \/ Tick
    \/ /\ UNCHANGED now
       /\ \/ phase # "BlankRequested" /\ Operation
          \/ \E succeeded \in BOOLEAN : CompleteBlank(succeeded)

Spec == Init /\ [][Next]_vars

-----------------------------------------------------------------------------
TypeOK ==
    /\ now \in Nat
    /\ blank_at \in OptionInstant
    /\ power_off_at \in OptionInstant
    /\ phase \in Phases
    /\ restore_pending \in BOOLEAN
    /\ session_locked_since \in OptionInstant
    /\ lock_activity_floor \in OptionInstant
    /\ post_lock_activity_grace_until \in OptionInstant
    /\ latest_independent_activity_at \in OptionInstant
    /\ activity_floor \in OptionInstant
    /\ decision \in Decisions
    /\ blank_cause_at \in Nat
    /\ last_lock_at \in OptionInstant

\* The engine owes a restore exactly while the TV is dark because of its blank,
\* whether the timed power-off was attempted or not (complete_blank,
\* observe_activity, new_with_restore_pending).
RestoreOwedWhileDark ==
    restore_pending <=> phase \in {"Blanked", "TimedPowerOffAttempted"}

\* The power-off countdown runs exactly while the TV is blanked: no restore,
\* failed blank or earlier power-off leaves a deadline behind that would later
\* turn off a TV in use.
CountdownOnlyWhileBlanked == (power_off_at # None) <=> phase = "Blanked"

\* While the engine waits, the blank is at least a full idle timeout after the
\* newest desktop or gamepad input it has seen, in whatever order the
\* observations of the sources, of locks and of system blanks were delivered.
IdleTimeoutCountsFromNewestInput ==
    phase \in Waiting =>
        /\ blank_at >= latest_independent_activity_at + BlankAfter
        /\ blank_at >= activity_floor + BlankAfter

\* Input older than the observation that blanked the TV never restores it
\* (the staleness tests of observe_activity; the accepted instant becomes the
\* activity floor).
StaleInputNeverRestores ==
    [][(phase \in Inactive /\ phase' \in Waiting) =>
           activity_floor' >= blank_cause_at]_vars

\* While a lock holds the TV dark only desktop or gamepad input made at least
\* the post-lock grace after the last lock restores it; neither an unlock nor a
\* provider's "active" or "wake" does.
LockedBlankNeedsFreshInput ==
    [][(phase \in Inactive /\ lock_activity_floor # None /\ phase' \in Waiting) =>
           /\ activity_floor' >= last_lock_at + PostLockGrace
           /\ latest_independent_activity_at' >= activity_floor']_vars

\* A running power-off countdown is only ever cancelled: a repeated system
\* blank, a lock or an ignored observation never restarts it.
CountdownNeverMoves ==
    [][power_off_at # None => power_off_at' \in {power_off_at, None}]_vars

\* The engine powers the TV off only from Blanked, a full grace after the
\* observation that blanked it.
PowerOffAfterFullGrace ==
    [][phase' = "TimedPowerOffAttempted" /\ phase # phase' =>
           phase = "Blanked" /\ now >= blank_cause_at + PowerOffAfter]_vars

\* What has been accepted as newest stays newest: the floor that orders
\* observations never goes back.
ActivityFloorNeverFalls == [][activity_floor' >= activity_floor]_vars

Engine == INSTANCE IdleEngine

\* The clock, the floors and the locks only choose among what the abstract
\* engine allows: no blank is requested of a dark TV, nothing but a blank is
\* powered off, and activity that ends an inactive phase always restores.
ImplementsIdleEngine == Engine!Spec

Idleness == CASE phase \in Waiting        -> "waiting"
              [] phase = "BlankRequested" -> "requested"
              [] OTHER                    -> "inactive"

Clock == INSTANCE IdleClock WITH idle <- Idleness

\* Locks, owed restores and the power-off countdown never make the engine break
\* what the loop relies on: fresh input in use always moves the deadline, and only a
\* deadline, a lock or a system blank requests a blank.
ImplementsIdleClock == Clock!Spec
=============================================================================
