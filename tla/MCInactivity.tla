--------------------------- MODULE MCInactivity ---------------------------
(***************************************************************************)
(* The inactivity engine for TLC.  A clock of six ticks lets a lock, its   *)
(* grace, an idle timeout and the power-off grace follow one another, with *)
(* every observation delivered up to the whole run late.  The names differ *)
(* from those of the gate, beside which EngineProofs has the engine.       *)
(***************************************************************************)
EXTENDS Integers

CONSTANTS
    BlankDelay,      \* idle timeout, in ticks
    PowerOffAfter,   \* grace between a blank and the timed power-off
    PostLockGrace,   \* POST_LOCK_ACTIVITY_GRACE
    EngineMaxTime    \* bound on the clock

ASSUME TimingAssumption ==
    /\ BlankDelay \in Nat \ {0}
    /\ PowerOffAfter \in Nat \ {0}
    /\ PostLockGrace \in Nat \ {0}
    /\ EngineMaxTime \in Nat

VARIABLES
    e_now, e_blank_at, e_power_off_at, e_phase, e_restore_pending, e_session_locked_since,
    e_lock_activity_floor, e_post_lock_activity_grace_until, e_latest_independent_activity_at,
    e_activity_floor, e_decision, e_blank_cause_at, e_last_lock_at

Idle == INSTANCE Inactivity WITH
    BlankAfter <- BlankDelay, MaxTime <- EngineMaxTime,
    now <- e_now, blank_at <- e_blank_at, power_off_at <- e_power_off_at, phase <- e_phase,
    restore_pending <- e_restore_pending, session_locked_since <- e_session_locked_since,
    lock_activity_floor <- e_lock_activity_floor,
    post_lock_activity_grace_until <- e_post_lock_activity_grace_until,
    latest_independent_activity_at <- e_latest_independent_activity_at,
    activity_floor <- e_activity_floor, decision <- e_decision,
    blank_cause_at <- e_blank_cause_at, last_lock_at <- e_last_lock_at

EngineSpec == Idle!Spec

-----------------------------------------------------------------------------
\* Input older than what blanked the TV never restores it (observe_activity).
StaleInputNeverRestores == Idle!StaleInputNeverRestores

\* A TV that a lock holds dark is restored only by desktop or gamepad input made a full
\* grace after the lock (should_ignore_activity).
LockedBlankNeedsFreshInput == Idle!LockedBlankNeedsFreshInput

\* The timed power-off comes a full grace after the observation that blanked the TV
\* (observe_time).
PowerOffAfterFullGrace == Idle!PowerOffAfterFullGrace

\* The engine takes only steps of IdleEngine, on which SessionMonitor is built.
ImplementsIdleEngine == Idle!ImplementsIdleEngine

\* The engine takes only steps of IdleClock, on which MonitorLoop is built.
ImplementsIdleClock == Idle!ImplementsIdleClock
=============================================================================
