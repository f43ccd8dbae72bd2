--------------------------- MODULE EngineProofs ---------------------------
(***************************************************************************)
(* Proofs about the two that decide when the monitor blanks the screen:    *)
(* the inactivity engine and the inhibition gate.  They hold for all       *)
(* timeouts and delays, for any sources and requests, and for runs of any  *)
(* length.                                                                 *)
(***************************************************************************)
EXTENDS MCInactivity, Inhibition, TLAPS

-----------------------------------------------------------------------------
(***************************************************************************)
(* The inactivity engine.                                                  *)
(***************************************************************************)

\* Nothing the engine has recorded lies in the future.
PastRecords ==
    /\ e_activity_floor <= e_now
    /\ e_latest_independent_activity_at <= e_now
    /\ e_last_lock_at <= e_now
    /\ e_blank_cause_at <= e_now

\* How the lock fields relate to the last lock that took effect: its grace is
\* in force unless input has already outlived it.
LockFields ==
    /\ e_session_locked_since \in {Idle!None, e_last_lock_at}
    /\ e_lock_activity_floor <= e_last_lock_at
    /\ e_post_lock_activity_grace_until \in {Idle!None, e_last_lock_at + PostLockGrace}
    /\ e_phase \in Idle!Waiting => e_lock_activity_floor = Idle!None
    /\ e_last_lock_at # Idle!None =>
           \/ e_post_lock_activity_grace_until = e_last_lock_at + PostLockGrace
           \/ e_latest_independent_activity_at >= e_last_lock_at + PostLockGrace
    /\ e_phase \in Idle!Inactive /\ e_lock_activity_floor # Idle!None =>
           \/ e_post_lock_activity_grace_until = e_last_lock_at + PostLockGrace
           \/ e_activity_floor >= e_last_lock_at + PostLockGrace

\* What keeps input older than the blank from being accepted: the floor or,
\* for a lock delivered late, the lock that input cannot have outlived.  A
\* monitor that starts blanked has instant 0 as the cause.
BlankGuarded ==
    e_phase \in Idle!Inactive =>
        \/ e_blank_cause_at = 0
        \/ e_activity_floor >= e_blank_cause_at
        \/ /\ e_lock_activity_floor >= e_blank_cause_at
           /\ e_latest_independent_activity_at < e_last_lock_at + PostLockGrace
           /\ e_post_lock_activity_grace_until = e_last_lock_at + PostLockGrace

\* The newest input seen is the floor or older, except while a lock holds the
\* TV dark: then input of the grace period is remembered but not accepted.
NewestInput ==
    /\ e_lock_activity_floor = Idle!None =>
           e_activity_floor >= e_post_lock_activity_grace_until
    /\ \/ e_latest_independent_activity_at <= e_activity_floor
       \/ /\ e_lock_activity_floor # Idle!None
          /\ e_post_lock_activity_grace_until = e_last_lock_at + PostLockGrace
          /\ e_latest_independent_activity_at < e_post_lock_activity_grace_until

CountdownLength ==
    e_phase = "Blanked" => e_power_off_at >= e_blank_cause_at + PowerOffAfter

EngineIInv ==
          /\ Idle!TypeOK
          /\ PastRecords
          /\ Idle!RestoreOwedWhileDark
          /\ Idle!CountdownOnlyWhileBlanked
          /\ Idle!IdleTimeoutCountsFromNewestInput
          /\ LockFields
          /\ BlankGuarded
          /\ NewestInput
          /\ CountdownLength

-----------------------------------------------------------------------------
(* The definitions every leaf needs: the invariant and the constants of    *)
(* the engine.                                                             *)
USE TimingAssumption DEF Idle!None, Idle!OptionInstant, Idle!Phases, Idle!Waiting, Idle!Inactive,
    Idle!Independent, Idle!Provider, Idle!Observations, Idle!Decisions, Idle!Later, Idle!BlankDeadline,
    Idle!PowerOffDeadline, Idle!timed_power_off_pending

\* A new engine, restarted over a blanked TV or not, satisfies the invariant.
LEMMA EngineInitIInv == Idle!Init => EngineIInv
  BY DEF Idle!Init, Idle!Fresh, EngineIInv, Idle!TypeOK, PastRecords, Idle!RestoreOwedWhileDark,
         Idle!CountdownOnlyWhileBlanked, Idle!IdleTimeoutCountsFromNewestInput,
         LockFields, BlankGuarded, NewestInput, CountdownLength

\* observe_provider_idle preserves the invariant.
LEMMA ProviderIdleStep ==
    ASSUME EngineIInv, UNCHANGED e_now, NEW t \in Idle!Past, Idle!ObserveProviderIdle(t)
    PROVE  EngineIInv'
  BY DEF Idle!Past, Idle!ObserveProviderIdle, Idle!RequestBlank, Idle!NoOp, Idle!locks,
         EngineIInv, Idle!TypeOK, PastRecords, Idle!RestoreOwedWhileDark,
         Idle!CountdownOnlyWhileBlanked, Idle!IdleTimeoutCountsFromNewestInput,
         LockFields, BlankGuarded, NewestInput, CountdownLength

\* complete_blank preserves the invariant.
LEMMA CompleteBlankStep ==
    ASSUME EngineIInv, UNCHANGED e_now, NEW succeeded \in BOOLEAN,
           Idle!CompleteBlank(succeeded)
    PROVE  EngineIInv'
  BY DEF Idle!CompleteBlank, Idle!NoOp, Idle!locks, Idle!activity, Idle!history,
         EngineIInv, Idle!TypeOK, PastRecords, Idle!RestoreOwedWhileDark,
         Idle!CountdownOnlyWhileBlanked, Idle!IdleTimeoutCountsFromNewestInput,
         LockFields, BlankGuarded, NewestInput, CountdownLength

\* Activity that is neither stale nor ignored is not older than any input seen.
LEMMA AcceptedIsNewest ==
    ASSUME EngineIInv, NEW t \in Idle!Past, NEW obs \in Idle!Observations, t >= e_activity_floor, ~Idle!Ignored(obs, t)
    PROVE  t >= e_latest_independent_activity_at
  <1> USE DEF Idle!Past, EngineIInv, Idle!TypeOK
  <1>1. CASE e_lock_activity_floor = Idle!None
    BY <1>1 DEF NewestInput
  <1>2. CASE e_lock_activity_floor # Idle!None
    <2>1. e_phase \in Idle!Inactive
      BY <1>2 DEF LockFields
    <2>2. t >= e_post_lock_activity_grace_until
      BY <1>2, <2>1 DEF Idle!Ignored
    <2> QED
      BY <2>2 DEF NewestInput
  <1> QED
    BY <1>1, <1>2

\* observe_activity preserves the invariant.
LEMMA EngineActivityStep ==
    ASSUME EngineIInv, UNCHANGED e_now, NEW t \in Idle!Past, NEW obs \in Idle!Observations,
           Idle!ObserveActivity(obs, t)
    PROVE  EngineIInv'
  <1> USE DEF Idle!Past, Idle!ObserveActivity, EngineIInv, Idle!TypeOK
  <1>1. CASE t < e_activity_floor \/ Idle!Ignored(obs, t)
    <2>1. /\ Idle!NoOp
          /\ UNCHANGED <<e_now, e_blank_at, e_power_off_at, e_phase, e_restore_pending,
                         e_session_locked_since, e_lock_activity_floor,
                         e_post_lock_activity_grace_until, e_activity_floor,
                         e_blank_cause_at, e_last_lock_at>>
      BY <1>1 DEF Idle!deadlines, Idle!history
    <2>2. \/ UNCHANGED e_latest_independent_activity_at
          \/ /\ e_latest_independent_activity_at' = t
             /\ t > e_latest_independent_activity_at
             /\ e_phase \in Idle!Inactive
             /\ t >= e_activity_floor
             /\ \/ t < e_post_lock_activity_grace_until
                \/ e_lock_activity_floor # Idle!None /\ t <= e_lock_activity_floor
      BY <1>1 DEF Idle!Ignored
    <2>3. CASE UNCHANGED e_latest_independent_activity_at
      BY <2>1, <2>3 DEF Idle!NoOp, PastRecords, Idle!RestoreOwedWhileDark,
         Idle!CountdownOnlyWhileBlanked, Idle!IdleTimeoutCountsFromNewestInput,
         LockFields, BlankGuarded, NewestInput, CountdownLength
    <2>4. CASE ~UNCHANGED e_latest_independent_activity_at
      <3>1. Idle!TypeOK' /\ PastRecords'
        BY <2>1, <2>2, <2>4 DEF Idle!NoOp, PastRecords
      <3>2. /\ Idle!RestoreOwedWhileDark' /\ Idle!CountdownOnlyWhileBlanked'
            /\ Idle!IdleTimeoutCountsFromNewestInput' /\ CountdownLength'
        BY <2>1, <2>2, <2>4 DEF Idle!RestoreOwedWhileDark, CountdownLength,
           Idle!CountdownOnlyWhileBlanked, Idle!IdleTimeoutCountsFromNewestInput
      <3>3. LockFields'
        BY <2>1, <2>2, <2>4 DEF LockFields
      <3>4. NewestInput'
        BY <2>1, <2>2, <2>4 DEF LockFields, NewestInput
      <3>5. BlankGuarded'
        BY <2>1, <2>2, <2>4 DEF LockFields, BlankGuarded
      <3> QED
        BY <3>1, <3>2, <3>3, <3>4, <3>5
    <2> QED
      BY <2>3, <2>4
  <1>2. CASE t >= e_activity_floor /\ ~Idle!Ignored(obs, t)
    <2>1. Idle!AcceptActivity(obs, t) /\ e_phase' \in Idle!Waiting
      BY <1>2 DEF Idle!AcceptActivity
    <2>2. Idle!TypeOK'
      BY <2>1 DEF Idle!AcceptActivity, Idle!history
    <2>3. PastRecords'
      BY <2>1 DEF Idle!AcceptActivity, Idle!history, PastRecords
    <2>4. Idle!RestoreOwedWhileDark' /\ Idle!CountdownOnlyWhileBlanked'
      BY <2>1, Zenon DEF Idle!AcceptActivity, Idle!RestoreOwedWhileDark,
                  Idle!CountdownOnlyWhileBlanked
    <2>5. Idle!IdleTimeoutCountsFromNewestInput'
      <3>1. e_blank_at' >= t + BlankDelay /\ e_blank_at' >= e_blank_at
        BY <2>1 DEF Idle!AcceptActivity
      <3>2. e_blank_at' >= e_activity_floor' + BlankDelay
        BY <2>1, <3>1 DEF Idle!AcceptActivity
      <3>3. e_latest_independent_activity_at' <= t
        <4>1. e_latest_independent_activity_at <= t
          BY <1>2, AcceptedIsNewest
        <4> QED
          BY <4>1
      <3>4. e_blank_at' >= e_latest_independent_activity_at' + BlankDelay
        BY <2>2, <3>1, <3>3
      <3> QED
        BY <3>2, <3>4 DEF Idle!IdleTimeoutCountsFromNewestInput
    <2>6. BlankGuarded' /\ CountdownLength'
      BY <2>1 DEF BlankGuarded, CountdownLength
    <2>7. LockFields' /\ NewestInput'
      <3>1. e_latest_independent_activity_at <= t
        BY <1>2, AcceptedIsNewest
      <3>2. /\ e_activity_floor' = t
            /\ UNCHANGED <<e_session_locked_since, e_post_lock_activity_grace_until,
                           e_last_lock_at>>
        BY <2>1 DEF Idle!AcceptActivity, Idle!history
      <3>3. e_lock_activity_floor' = Idle!None
        BY <2>1 DEF Idle!AcceptActivity, LockFields
      <3>4. t >= e_post_lock_activity_grace_until
        <4>1. CASE e_lock_activity_floor = Idle!None
          BY <1>2, <4>1 DEF NewestInput
        <4>2. CASE e_lock_activity_floor # Idle!None
          BY <1>2, <4>2 DEF Idle!Ignored, LockFields
        <4> QED
          BY <4>1, <4>2
      <3>5. e_latest_independent_activity_at' \in {e_latest_independent_activity_at, t}
        BY <2>1
      <3> HIDE DEF Idle!ObserveActivity, Idle!Past
      <3>6. LockFields'
        BY SMTT(30), <2>1, <2>2, <3>1, <3>2, <3>3, <3>5 DEF LockFields
      <3>7. NewestInput'
        BY SMTT(30), <2>2, <3>1, <3>2, <3>3, <3>4, <3>5 DEF NewestInput
      <3> QED
        BY <3>6, <3>7
    <2> QED
      BY <2>2, <2>3, <2>4, <2>5, <2>6, <2>7
  <1> QED
    BY <1>1, <1>2

\* A step that changes at most the clock, the decision and whether the session is locked
\* preserves the invariant.
LEMMA EngineQuietStep ==
    ASSUME EngineIInv, e_now' \in {e_now, e_now + 1}, e_decision' \in Idle!Decisions,
           e_session_locked_since' \in {Idle!None, e_session_locked_since},
           UNCHANGED <<e_blank_at, e_power_off_at, e_phase, e_restore_pending,
                       e_lock_activity_floor, e_post_lock_activity_grace_until,
                       e_latest_independent_activity_at, e_activity_floor,
                       e_blank_cause_at, e_last_lock_at>>
    PROVE  EngineIInv'
  <1>1. Idle!TypeOK'
    BY SMTT(30) DEF EngineIInv, Idle!TypeOK
  <1>2. PastRecords'
    BY SMTT(30) DEF EngineIInv, Idle!TypeOK, PastRecords
  <1>3. LockFields'
    BY SMTT(30) DEF EngineIInv, LockFields
  <1>4. /\ Idle!RestoreOwedWhileDark' /\ Idle!CountdownOnlyWhileBlanked'
        /\ Idle!IdleTimeoutCountsFromNewestInput' /\ BlankGuarded' /\ NewestInput'
        /\ CountdownLength'
    BY Zenon DEF EngineIInv, Idle!RestoreOwedWhileDark, Idle!CountdownOnlyWhileBlanked,
           Idle!IdleTimeoutCountsFromNewestInput, BlankGuarded, NewestInput, CountdownLength
  <1> QED
    BY <1>1, <1>2, <1>3, <1>4, Zenon DEF EngineIInv

\* observe_time preserves the invariant, whatever the gate says.
LEMMA TimeStep ==
    ASSUME EngineIInv, UNCHANGED e_now, NEW may_blank \in BOOLEAN,
           Idle!ObserveTime(may_blank)
    PROVE  EngineIInv'
  <1>1. CASE Idle!BlankByTimeout
    <2> USE <1>1 DEF Idle!BlankByTimeout, Idle!BlankDue, Idle!RequestBlank, Idle!deadlines, EngineIInv
    <2>1. Idle!TypeOK' /\ PastRecords'
      BY SMTT(30) DEF Idle!TypeOK, PastRecords
    <2>2. Idle!RestoreOwedWhileDark' /\ Idle!CountdownOnlyWhileBlanked' /\ CountdownLength'
      BY SMTT(30) DEF Idle!RestoreOwedWhileDark, Idle!CountdownOnlyWhileBlanked, CountdownLength
    <2>3. Idle!IdleTimeoutCountsFromNewestInput'
      BY SMTT(30) DEF Idle!IdleTimeoutCountsFromNewestInput
    <2>4. LockFields'
      BY SMTT(30) DEF Idle!TypeOK, PastRecords, LockFields, NewestInput
    <2>5. BlankGuarded'
      BY SMTT(30) DEF Idle!TypeOK, BlankGuarded
    <2>6. NewestInput'
      BY SMTT(30) DEF Idle!TypeOK, PastRecords, LockFields, NewestInput
    <2> QED
      BY <2>1, <2>2, <2>3, <2>4, <2>5, <2>6, Zenon DEF EngineIInv
  <1>2. CASE Idle!PowerOffByTimeout
    <2> USE <1>2 DEF Idle!PowerOffByTimeout, Idle!locks, Idle!activity, Idle!history, EngineIInv
    <2>1. Idle!TypeOK' /\ PastRecords'
      BY SMTT(30) DEF Idle!TypeOK, PastRecords
    <2>2. /\ Idle!RestoreOwedWhileDark' /\ Idle!CountdownOnlyWhileBlanked'
          /\ Idle!IdleTimeoutCountsFromNewestInput' /\ CountdownLength'
      BY SMTT(30) DEF Idle!RestoreOwedWhileDark, Idle!CountdownOnlyWhileBlanked,
             Idle!IdleTimeoutCountsFromNewestInput, CountdownLength
    <2>3. LockFields' /\ BlankGuarded' /\ NewestInput'
      BY SMTT(30) DEF LockFields, BlankGuarded, NewestInput
    <2> QED
      BY <2>1, <2>2, <2>3, Zenon DEF EngineIInv
  <1>3. CASE Idle!NothingDue(may_blank)
    BY <1>3, EngineQuietStep, Zenon DEF Idle!NothingDue, Idle!NoOp, Idle!deadlines, Idle!locks,
           Idle!activity, Idle!history
  <1> QED
    BY <1>1, <1>2, <1>3, Zenon DEF Idle!ObserveTime

\* observe_lock preserves the invariant.
LEMMA LockStep ==
    ASSUME EngineIInv, UNCHANGED e_now, NEW t \in Idle!LockInstants, Idle!ObserveLock(t)
    PROVE  EngineIInv'
  <1>1. CASE e_session_locked_since # Idle!None
    BY <1>1, EngineQuietStep, Zenon DEF Idle!ObserveLock, Idle!NoOp, Idle!locks, Idle!activity, Idle!history
  <1>2. CASE e_session_locked_since = Idle!None
    <2>1. /\ t \in Nat /\ t <= e_now /\ t >= e_last_lock_at
          /\ e_session_locked_since' = t /\ e_last_lock_at' = t
          /\ UNCHANGED <<e_now, e_power_off_at, e_restore_pending, e_activity_floor,
                         e_latest_independent_activity_at>>
      BY SMTT(30), <1>2 DEF Idle!ObserveLock, Idle!LockInstants, Idle!Past, Idle!activity,
             EngineIInv, Idle!TypeOK
    <2>2. \/ /\ e_latest_independent_activity_at >= t + PostLockGrace
             /\ e_lock_activity_floor' = Idle!None
             /\ e_post_lock_activity_grace_until' = Idle!None
             /\ Idle!NoOp /\ UNCHANGED <<e_blank_at, e_phase, e_blank_cause_at>>
          \/ /\ ~(e_latest_independent_activity_at >= t + PostLockGrace)
             /\ e_lock_activity_floor' = t
             /\ e_post_lock_activity_grace_until' = t + PostLockGrace
             /\ \/ /\ e_phase \in Idle!Inactive
                   /\ Idle!NoOp /\ UNCHANGED <<e_blank_at, e_phase, e_blank_cause_at>>
                \/ /\ e_phase \notin Idle!Inactive
                   /\ Idle!RequestBlank(t) /\ e_blank_at' = Idle!None
      BY <1>2, Zenon DEF Idle!ObserveLock
    <2> USE <2>1, <2>2 DEF EngineIInv, Idle!NoOp, Idle!RequestBlank
    <2>3. Idle!TypeOK' /\ PastRecords'
      BY SMTT(30) DEF Idle!TypeOK, PastRecords
    <2>4. Idle!RestoreOwedWhileDark' /\ Idle!CountdownOnlyWhileBlanked'
      BY SMTT(30) DEF Idle!TypeOK, Idle!RestoreOwedWhileDark, Idle!CountdownOnlyWhileBlanked
    <2>5. Idle!IdleTimeoutCountsFromNewestInput' /\ CountdownLength'
      BY SMTT(30) DEF Idle!TypeOK, Idle!IdleTimeoutCountsFromNewestInput, CountdownLength
    <2>6. LockFields'
      BY SMTT(30) DEF Idle!TypeOK, LockFields
    <2>7. BlankGuarded'
      BY SMTT(30) DEF Idle!TypeOK, LockFields, NewestInput, BlankGuarded
    <2>8. NewestInput'
      BY SMTT(30) DEF Idle!TypeOK, LockFields, NewestInput
    <2> QED
      BY <2>3, <2>4, <2>5, <2>6, <2>7, <2>8, Zenon DEF EngineIInv
  <1> QED
    BY <1>1, <1>2, Zenon

\* Time passing and an unlock preserve the invariant.
LEMMA EngineIdleStep ==
    ASSUME EngineIInv, Idle!Tick \/ (UNCHANGED e_now /\ Idle!ObserveUnlock) \/ UNCHANGED Idle!vars
    PROVE  EngineIInv'
  <1>1. CASE Idle!Tick
    BY <1>1, EngineQuietStep, Zenon DEF Idle!Tick, Idle!NoOp, Idle!deadlines, Idle!locks, Idle!activity,
           Idle!history
  <1>2. CASE UNCHANGED e_now /\ Idle!ObserveUnlock
    BY <1>2, EngineQuietStep, Zenon DEF Idle!ObserveUnlock, Idle!NoOp, Idle!deadlines, Idle!activity,
           Idle!history
  <1>3. CASE UNCHANGED Idle!vars
    <2>1. e_decision' \in Idle!Decisions
      BY <1>3, Zenon DEF Idle!vars, EngineIInv, Idle!TypeOK
    <2> QED
      BY <1>3, <2>1, EngineQuietStep, Zenon DEF Idle!vars, Idle!deadlines, Idle!locks, Idle!activity,
             Idle!history
  <1> QED
    BY <1>1, <1>2, <1>3, Zenon

\* The invariant is inductive.
LEMMA EngineNextIInv == EngineIInv /\ [Idle!Next]_(Idle!vars) => EngineIInv'
  BY ProviderIdleStep, CompleteBlankStep, EngineActivityStep, TimeStep, LockStep,
     EngineIdleStep, Zenon DEF Idle!Next, Idle!Operation

\* Every reachable state of the engine satisfies the inductive invariant.
THEOREM EngineInvariance == EngineSpec => []EngineIInv
  BY EngineInitIInv, EngineNextIInv, PTL DEF EngineSpec, Idle!Spec

\* The fields of InactivityEngine keep their types: in particular no deadline
\* is ever computed before the start of the monitor.
THEOREM TypeCorrect == EngineSpec => []Idle!TypeOK
  <1>1. EngineIInv => Idle!TypeOK
    BY DEF EngineIInv
  <1> QED
    BY <1>1, EngineInvariance, PTL

\* complete_blank and observe_activity keep the owed restore in step with the
\* TV that the engine darkened.
THEOREM RestoreOwed == EngineSpec => []Idle!RestoreOwedWhileDark
  <1>1. EngineIInv => Idle!RestoreOwedWhileDark
    BY DEF EngineIInv
  <1> QED
    BY <1>1, EngineInvariance, PTL

\* No path through the engine leaves a power-off deadline behind.
THEOREM CountdownExact == EngineSpec => []Idle!CountdownOnlyWhileBlanked
  <1>1. EngineIInv => Idle!CountdownOnlyWhileBlanked
    BY DEF EngineIInv
  <1> QED
    BY <1>1, EngineInvariance, PTL

\* The idle timeout runs from the newest input in every delivery order.
THEOREM IdleTimeoutExact == EngineSpec => []Idle!IdleTimeoutCountsFromNewestInput
  <1>1. EngineIInv => Idle!IdleTimeoutCountsFromNewestInput
    BY DEF EngineIInv
  <1> QED
    BY <1>1, EngineInvariance, PTL

-----------------------------------------------------------------------------
(* Action properties.  Each body is shown for every step from a state that *)
(* satisfies the invariant.                                                *)

\* Only observe_activity brings a dark engine back, with an accepted instant.
LEMMA OnlyActivityRestores ==
    ASSUME EngineIInv, Idle!Next, e_phase \in Idle!Inactive, e_phase' \in Idle!Waiting
    PROVE  \E t \in Idle!Past, obs \in Idle!Observations :
               /\ UNCHANGED e_now
               /\ Idle!ObserveActivity(obs, t)
               /\ t >= e_activity_floor
               /\ ~Idle!Ignored(obs, t)
               /\ Idle!AcceptActivity(obs, t)
  <1>1. PICK t \in Idle!Past, obs \in Idle!Observations :
            UNCHANGED e_now /\ Idle!ObserveActivity(obs, t)
    BY DEF Idle!Next, Idle!Operation, Idle!Tick, Idle!ObserveProviderIdle, Idle!RequestBlank,
           Idle!CompleteBlank, Idle!ObserveTime, Idle!BlankByTimeout, Idle!BlankDue,
           Idle!PowerOffByTimeout, Idle!NothingDue, Idle!ObserveLock, Idle!ObserveUnlock
  <1>2. ~(t < e_activity_floor \/ Idle!Ignored(obs, t))
    BY <1>1 DEF Idle!ObserveActivity
  <1>3. t \in Int /\ e_activity_floor \in Int
    BY DEF Idle!Past, EngineIInv, Idle!TypeOK
  <1> QED
    BY <1>1, <1>2, <1>3 DEF Idle!ObserveActivity

\* Input older than what blanked the TV never restores it, however late it or
\* the lock that blanked the TV was delivered.
THEOREM StaleInput == EngineSpec => StaleInputNeverRestores
  <1>1. ASSUME EngineIInv, Idle!Next, e_phase \in Idle!Inactive, e_phase' \in Idle!Waiting
        PROVE  e_activity_floor' >= e_blank_cause_at
    <2>1. PICK t \in Idle!Past, obs \in Idle!Observations :
              t >= e_activity_floor /\ ~Idle!Ignored(obs, t) /\ Idle!AcceptActivity(obs, t)
      BY <1>1, OnlyActivityRestores
    <2>2. e_activity_floor' = t
      BY <2>1 DEF Idle!AcceptActivity
    <2> QED
      BY <1>1, <2>1, <2>2 DEF Idle!Past, Idle!Ignored, EngineIInv, Idle!TypeOK, BlankGuarded
  <1>2. EngineIInv /\ [Idle!Next]_(Idle!vars) =>
                  [(e_phase \in Idle!Inactive /\ e_phase' \in Idle!Waiting) =>
                       e_activity_floor' >= e_blank_cause_at]_(Idle!vars)
    BY <1>1
  <1> QED
    BY <1>2, EngineInvariance, PTL DEF EngineSpec, Idle!Spec, StaleInputNeverRestores, Idle!StaleInputNeverRestores

\* While a lock holds the TV dark only desktop or gamepad input that outlived
\* the lock by the grace restores it.
THEOREM LockedBlank == EngineSpec => LockedBlankNeedsFreshInput
  <1>1. ASSUME EngineIInv, Idle!Next, e_phase \in Idle!Inactive, e_lock_activity_floor # Idle!None,
               e_phase' \in Idle!Waiting
        PROVE  /\ e_activity_floor' >= e_last_lock_at + PostLockGrace
               /\ e_latest_independent_activity_at' >= e_activity_floor'
    <2>1. PICK t \in Idle!Past, obs \in Idle!Observations :
              /\ Idle!ObserveActivity(obs, t)
              /\ t >= e_activity_floor
              /\ ~Idle!Ignored(obs, t)
              /\ Idle!AcceptActivity(obs, t)
      BY <1>1, OnlyActivityRestores
    <2>2. e_activity_floor' = t
      BY <2>1 DEF Idle!AcceptActivity
    <2>3. obs \in Idle!Independent /\ t >= e_post_lock_activity_grace_until
      BY <1>1, <2>1 DEF Idle!Past, Idle!Ignored, EngineIInv, Idle!TypeOK
    <2>4. t >= e_last_lock_at + PostLockGrace
      BY <1>1, <2>1, <2>3 DEF Idle!Past, EngineIInv, Idle!TypeOK, LockFields
    <2>5. e_latest_independent_activity_at' >= t
      BY <1>1, <2>1, <2>3 DEF Idle!Past, Idle!ObserveActivity, EngineIInv, Idle!TypeOK
    <2> QED
      BY <2>2, <2>4, <2>5
  <1>2. EngineIInv /\ [Idle!Next]_(Idle!vars) =>
                  [(e_phase \in Idle!Inactive /\ e_lock_activity_floor # Idle!None /\ e_phase' \in Idle!Waiting) =>
                       /\ e_activity_floor' >= e_last_lock_at + PostLockGrace
                       /\ e_latest_independent_activity_at' >= e_activity_floor']_(Idle!vars)
    BY <1>1
  <1> QED
    BY <1>2, EngineInvariance, PTL DEF EngineSpec, Idle!Spec, LockedBlankNeedsFreshInput, Idle!LockedBlankNeedsFreshInput

\* The TV is powered off a full grace after what blanked it, never earlier.
THEOREM FullGrace == EngineSpec => PowerOffAfterFullGrace
  <1>1. ASSUME EngineIInv, Idle!Next, e_phase' = "TimedPowerOffAttempted", e_phase # e_phase'
        PROVE  e_phase = "Blanked" /\ e_now >= e_blank_cause_at + PowerOffAfter
    <2>1. Idle!PowerOffByTimeout
      BY <1>1 DEF Idle!Next, Idle!Operation, Idle!Tick, Idle!ObserveProviderIdle, Idle!RequestBlank,
           Idle!CompleteBlank, Idle!ObserveActivity, Idle!AcceptActivity, Idle!ObserveTime,
           Idle!BlankByTimeout, Idle!BlankDue, Idle!NothingDue, Idle!ObserveLock, Idle!ObserveUnlock
    <2> QED
      BY <1>1, <2>1 DEF Idle!PowerOffByTimeout, EngineIInv, Idle!TypeOK, CountdownLength
  <1>2. EngineIInv /\ [Idle!Next]_(Idle!vars) =>
                  [e_phase' = "TimedPowerOffAttempted" /\ e_phase # e_phase' =>
                       e_phase = "Blanked" /\ e_now >= e_blank_cause_at + PowerOffAfter]_(Idle!vars)
    BY <1>1
  <1> QED
    BY <1>2, EngineInvariance, PTL DEF EngineSpec, Idle!Spec, PowerOffAfterFullGrace, Idle!PowerOffAfterFullGrace

\* A countdown is cancelled or left alone, by every operation.
THEOREM CountdownFixed == EngineSpec => Idle!CountdownNeverMoves
  <1>1. ASSUME EngineIInv, Idle!Next, e_power_off_at # Idle!None
        PROVE  e_power_off_at' \in {e_power_off_at, Idle!None}
    BY Zenon, <1>1 DEF Idle!Next, Idle!Operation, Idle!Tick, Idle!ObserveProviderIdle, Idle!CompleteBlank, Idle!ObserveActivity,
           Idle!AcceptActivity, Idle!ObserveTime, Idle!BlankByTimeout, Idle!PowerOffByTimeout, Idle!NothingDue,
           Idle!ObserveLock, Idle!ObserveUnlock, Idle!deadlines, EngineIInv, Idle!CountdownOnlyWhileBlanked
  <1>2. EngineIInv /\ [Idle!Next]_(Idle!vars) =>
                  [e_power_off_at # Idle!None => e_power_off_at' \in {e_power_off_at, Idle!None}]_(Idle!vars)
    BY <1>1
  <1> QED
    BY <1>2, EngineInvariance, PTL DEF EngineSpec, Idle!Spec, Idle!CountdownNeverMoves

\* The floor that orders observations only rises.
THEOREM FloorRises == EngineSpec => Idle!ActivityFloorNeverFalls
  <1>1. ASSUME EngineIInv, Idle!Next
        PROVE  e_activity_floor' >= e_activity_floor
    <2>1. e_activity_floor \in Int /\ e_activity_floor <= e_now /\ e_now \in Nat
      BY <1>1 DEF EngineIInv, Idle!TypeOK, PastRecords
    <2>2. ASSUME NEW t \in Idle!Past, Idle!ObserveProviderIdle(t)
          PROVE  e_activity_floor' >= e_activity_floor
      BY <2>1, <2>2 DEF Idle!Past, Idle!ObserveProviderIdle
    <2>3. ASSUME NEW t \in Idle!Past, NEW obs \in Idle!Observations, Idle!ObserveActivity(obs, t)
          PROVE  e_activity_floor' >= e_activity_floor
      <3>1. e_activity_floor' \in {e_activity_floor, t} /\ (t < e_activity_floor => UNCHANGED e_activity_floor)
        BY <2>3 DEF Idle!ObserveActivity, Idle!AcceptActivity
      <3> QED
        BY <2>1, <3>1 DEF Idle!Past
    <2>4. ASSUME NEW may_blank \in BOOLEAN, Idle!ObserveTime(may_blank)
          PROVE  e_activity_floor' >= e_activity_floor
      BY <2>1, <2>4 DEF Idle!ObserveTime, Idle!BlankByTimeout, Idle!PowerOffByTimeout, Idle!NothingDue, Idle!activity
    <2>5. ASSUME NEW t \in Idle!LockInstants, Idle!ObserveLock(t)
          PROVE  e_activity_floor' >= e_activity_floor
      BY <2>1, <2>5 DEF Idle!ObserveLock, Idle!activity
    <2>6. ASSUME Idle!ObserveUnlock \/ Idle!Tick \/ \E succeeded \in BOOLEAN : Idle!CompleteBlank(succeeded)
          PROVE  e_activity_floor' >= e_activity_floor
      BY <2>1, <2>6 DEF Idle!ObserveUnlock, Idle!Tick, Idle!CompleteBlank, Idle!activity
    <2> QED
      BY <1>1, <2>2, <2>3, <2>4, <2>5, <2>6 DEF Idle!Next, Idle!Operation
  <1>2. EngineIInv /\ [Idle!Next]_(Idle!vars) => [e_activity_floor' >= e_activity_floor]_(Idle!vars)
    BY <1>1
  <1> QED
    BY <1>2, EngineInvariance, PTL DEF EngineSpec, Idle!Spec, Idle!ActivityFloorNeverFalls

-----------------------------------------------------------------------------
(* The engine implements the abstract one.                                 *)
\* Accepted activity is activity of the abstract engine.
LEMMA AcceptImplements ==
    ASSUME EngineIInv, NEW obs \in Idle!Observations, NEW t \in Idle!Past,
           Idle!AcceptActivity(obs, t), e_phase # "BlankRequested"
    PROVE  Idle!Engine!Activity
  <1>1. e_restore_pending' = (e_restore_pending /\ e_decision' = "NoOp")
    BY DEF Idle!AcceptActivity
  <1>2. CASE e_decision' = "RestoreNow"
    <2>1. e_phase # "Active" /\ e_phase' = "Active"
      BY <1>2 DEF Idle!AcceptActivity
    <2>2. e_restore_pending' = FALSE
      BY <1>1, <1>2, Zenon
    <2> QED
      BY <1>2, <2>1, <2>2 DEF Idle!Engine!Activity
  <1>3. CASE e_decision' = "NoOp"
    <2>1. e_phase \notin Idle!Inactive /\ ~(e_phase = "Unknown" /\ e_restore_pending) /\ e_phase' = "Active"
      BY <1>3 DEF Idle!AcceptActivity
    <2>2. e_phase \in Idle!Waiting
      BY <2>1 DEF EngineIInv, Idle!TypeOK
    <2>3. e_restore_pending' = e_restore_pending
      BY <1>1, <1>3 DEF EngineIInv, Idle!TypeOK
    <2> QED
      BY <1>3, <2>1, <2>2, <2>3 DEF Idle!Engine!Activity, Idle!Engine!Waiting
  <1> QED
    BY <1>2, <1>3 DEF Idle!AcceptActivity

\* Every operation is a step of the abstract engine.
LEMMA OperationImplements ==
    ASSUME EngineIInv, e_phase # "BlankRequested", Idle!Operation
    PROVE  Idle!Engine!Next
  <1> USE DEF Idle!Engine!Next, Idle!Engine!Ignore, Idle!Engine!RequestBlank, Idle!Engine!Waiting, Idle!NoOp,
              Idle!RequestBlank
  <1>1. ASSUME NEW t \in Idle!Past, Idle!ObserveProviderIdle(t)
        PROVE  Idle!Engine!Next
    BY <1>1 DEF Idle!ObserveProviderIdle
  <1>2. ASSUME NEW t \in Idle!Past, NEW obs \in Idle!Observations, Idle!ObserveActivity(obs, t)
        PROVE  Idle!Engine!Next
    <2>1. CASE t < e_activity_floor \/ Idle!Ignored(obs, t)
      BY <1>2, <2>1 DEF Idle!ObserveActivity
    <2>2. CASE ~(t < e_activity_floor \/ Idle!Ignored(obs, t))
      BY <1>2, <2>2, AcceptImplements DEF Idle!ObserveActivity
    <2> QED
      BY <2>1, <2>2
  <1>3. ASSUME NEW may_blank \in BOOLEAN, Idle!ObserveTime(may_blank)
        PROVE  Idle!Engine!Next
    <2>1. CASE Idle!BlankByTimeout
      BY <2>1 DEF Idle!BlankByTimeout, Idle!BlankDue
    <2>2. CASE Idle!PowerOffByTimeout
      BY <2>2 DEF Idle!PowerOffByTimeout, Idle!Engine!PowerOff
    <2>3. CASE Idle!NothingDue(may_blank)
      BY <2>3 DEF Idle!NothingDue
    <2> QED
      BY <1>3, <2>1, <2>2, <2>3 DEF Idle!ObserveTime
  <1>4. ASSUME NEW t \in Idle!LockInstants, Idle!ObserveLock(t)
        PROVE  Idle!Engine!Next
    BY <1>4 DEF Idle!ObserveLock, EngineIInv, Idle!TypeOK
  <1>5. CASE Idle!ObserveUnlock
    BY <1>5 DEF Idle!ObserveUnlock
  <1> QED
    BY <1>1, <1>2, <1>3, <1>4, <1>5 DEF Idle!Operation

\* What the monitor may rely on: the engine with its clock, floors and locks
\* takes only steps of IdleEngine.
THEOREM Implements == EngineSpec => ImplementsIdleEngine
  <1>1. Idle!Init => Idle!Engine!Init
    BY DEF Idle!Init, Idle!Fresh, Idle!Engine!Init, Idle!Engine!Start
  <1>2. EngineIInv /\ [Idle!Next]_(Idle!vars) => [Idle!Engine!Next]_(Idle!Engine!vars)
    <2> SUFFICES ASSUME EngineIInv, [Idle!Next]_(Idle!vars)
                 PROVE  [Idle!Engine!Next]_(Idle!Engine!vars)
      OBVIOUS
    <2>1. CASE Idle!Tick
      BY <2>1 DEF Idle!Tick, Idle!NoOp, Idle!Engine!Next, Idle!Engine!Ignore
    <2>2. CASE e_phase # "BlankRequested" /\ Idle!Operation
      BY <2>2, OperationImplements
    <2>3. ASSUME NEW succeeded \in BOOLEAN, Idle!CompleteBlank(succeeded)
          PROVE  Idle!Engine!Next
      BY <2>3 DEF Idle!CompleteBlank, Idle!NoOp, Idle!Engine!Next, Idle!Engine!CompleteBlank
    <2>4. CASE UNCHANGED Idle!vars
      BY <2>4 DEF Idle!vars, Idle!Engine!vars
    <2> QED
      BY <2>1, <2>2, <2>3, <2>4 DEF Idle!Next
  <1> QED
    BY <1>1, <1>2, EngineInvariance, PTL DEF EngineSpec, Idle!Spec, ImplementsIdleEngine, Idle!ImplementsIdleEngine, Idle!Engine!Spec

-----------------------------------------------------------------------------
(* The engine implements the clock on which MonitorLoop is built.          *)
\* The phases, as the clock sees them.
LEMMA IdlenessIs ==
    ASSUME EngineIInv
    PROVE  /\ Idle!Idleness = "waiting" <=> e_phase \in Idle!Waiting
           /\ Idle!Idleness = "requested" <=> e_phase = "BlankRequested"
           /\ Idle!Idleness = "inactive" <=> e_phase \in Idle!Inactive \ {"BlankRequested"}
  BY DEF Idle!Idleness, EngineIInv, Idle!TypeOK

\* Activity, accepted or not, is activity of the clock.
LEMMA ActivityIsClocked ==
    ASSUME EngineIInv, EngineIInv', NEW t \in Idle!Past, NEW obs \in Idle!Observations, e_phase # "BlankRequested",
           Idle!ObserveActivity(obs, t)
    PROVE  Idle!Clock!Activity(obs, t)
  <1> USE DEF Idle!Clock!Activity, Idle!Clock!Independent, Idle!Clock!Later
  <1>1. /\ t \in Nat /\ e_activity_floor \in Idle!OptionInstant /\ e_blank_at \in Idle!OptionInstant
        /\ Idle!Idleness # "requested"
    BY IdlenessIs DEF Idle!Past, EngineIInv, Idle!TypeOK
  <1>2. e_latest_independent_activity_at' =
            IF obs \in Idle!Clock!Independent /\ t >= e_activity_floor
            THEN Idle!Clock!Later(e_latest_independent_activity_at, t)
            ELSE e_latest_independent_activity_at
    BY DEF Idle!ObserveActivity
  <1>3. CASE t < e_activity_floor \/ Idle!Ignored(obs, t)
    <2>1. UNCHANGED <<e_phase, e_blank_at, e_activity_floor>>
      BY <1>3 DEF Idle!ObserveActivity, Idle!deadlines
    <2>2. Idle!Idleness' = Idle!Idleness
      BY <2>1 DEF Idle!Idleness
    <2>3. t < e_activity_floor \/ Idle!Idleness = "inactive" \/ obs \notin Idle!Independent
      BY <1>3, IdlenessIs DEF Idle!Ignored
    <2> QED
      BY <1>1, <1>2, <2>1, <2>2, <2>3
  <1>4. CASE ~(t < e_activity_floor \/ Idle!Ignored(obs, t))
    <2>1. t >= e_activity_floor /\ t >= e_latest_independent_activity_at
      BY <1>1, <1>4, AcceptedIsNewest
    <2>2. Idle!AcceptActivity(obs, t)
      BY <1>4 DEF Idle!ObserveActivity
    <2>3. Idle!Idleness' = "waiting"
      BY <2>2 DEF Idle!AcceptActivity, Idle!Idleness
    <2>4. e_blank_at' = Idle!Clock!Later(e_blank_at, t + BlankDelay) /\ e_activity_floor' = t
      BY <1>1, <2>2 DEF Idle!AcceptActivity
    <2> QED
      BY <1>1, <1>2, <2>1, <2>3, <2>4 DEF Idle!Clock!Accept
  <1> QED
    BY <1>3, <1>4

\* Every step of the engine is a step of the clock or invisible to it.
LEMMA StepIsClocked ==
    ASSUME EngineIInv, EngineIInv', [Idle!Next]_(Idle!vars)
    PROVE  [Idle!Clock!Next]_(Idle!Clock!vars)
  <1> DEFINE seen == <<e_now, Idle!Idleness, e_blank_at, e_activity_floor, e_latest_independent_activity_at>>
  <1>1. ASSUME UNCHANGED e_now, NEW t \in Idle!Past, Idle!ObserveProviderIdle(t), e_phase # "BlankRequested"
        PROVE  Idle!Clock!SystemBlank(t) \/ UNCHANGED seen
    <2>1. CASE t < e_activity_floor
      BY <1>1, <2>1 DEF Idle!ObserveProviderIdle, Idle!Idleness
    <2>2. CASE ~(t < e_activity_floor)
      <3>1. /\ e_activity_floor' = t /\ t >= e_activity_floor
            /\ UNCHANGED e_latest_independent_activity_at
        BY <1>1, <2>2 DEF Idle!ObserveProviderIdle, Idle!Past, EngineIInv, Idle!TypeOK
      <3>2. IF e_phase \in Idle!Waiting THEN e_phase' = "BlankRequested" /\ e_blank_at' = Idle!None
            ELSE UNCHANGED <<e_phase, e_blank_at>>
        BY <1>1, <2>2 DEF Idle!ObserveProviderIdle, Idle!RequestBlank
      <3>3. IF Idle!Idleness = "waiting" THEN Idle!Idleness' = "requested" /\ e_blank_at' = Idle!None
            ELSE UNCHANGED <<Idle!Idleness, e_blank_at>>
        BY <3>2, IdlenessIs DEF Idle!Idleness
      <3> QED
        BY <1>1, <3>1, <3>3, IdlenessIs DEF Idle!Clock!SystemBlank, Idle!Clock!None
    <2> QED
      BY <2>1, <2>2
  <1>2. ASSUME UNCHANGED e_now, NEW may_blank \in BOOLEAN, Idle!ObserveTime(may_blank)
        PROVE  Idle!Clock!Timeout \/ UNCHANGED seen
    <2>1. CASE Idle!BlankByTimeout
      BY <2>1, IdlenessIs DEF Idle!BlankByTimeout, Idle!BlankDue, Idle!RequestBlank, Idle!deadlines, Idle!Idleness,
                              Idle!Clock!Timeout, Idle!Clock!BlankDue, Idle!Clock!None
    <2>2. CASE Idle!PowerOffByTimeout \/ Idle!NothingDue(may_blank)
      BY <1>2, <2>2 DEF Idle!PowerOffByTimeout, Idle!NothingDue, Idle!deadlines, Idle!activity, Idle!Idleness
    <2> QED
      BY <1>2, <2>1, <2>2 DEF Idle!ObserveTime
  <1>3. ASSUME UNCHANGED e_now, NEW t \in Idle!LockInstants, Idle!ObserveLock(t), e_phase # "BlankRequested"
        PROVE  Idle!Clock!Lock \/ UNCHANGED seen
    <2>1. UNCHANGED <<e_activity_floor, e_latest_independent_activity_at>>
      BY <1>3 DEF Idle!ObserveLock, Idle!activity
    <2>2. \/ UNCHANGED <<e_phase, e_blank_at>>
          \/ e_phase \in Idle!Waiting /\ e_phase' = "BlankRequested" /\ e_blank_at' = Idle!None
      BY <1>3 DEF Idle!ObserveLock, Idle!RequestBlank, EngineIInv, Idle!TypeOK
    <2> QED
      BY <1>3, <2>1, <2>2, IdlenessIs DEF Idle!Idleness, Idle!Clock!Lock, Idle!Clock!None
  <1>4. CASE UNCHANGED e_now /\ (Idle!ObserveUnlock \/ UNCHANGED Idle!vars)
    BY <1>4 DEF Idle!ObserveUnlock, Idle!vars, Idle!deadlines, Idle!activity, Idle!Idleness, Idle!Clock!vars
  <1>5. ASSUME UNCHANGED e_now, NEW succeeded \in BOOLEAN, Idle!CompleteBlank(succeeded)
        PROVE  Idle!Clock!Complete
    BY <1>5 DEF Idle!CompleteBlank, Idle!activity, Idle!Idleness, Idle!Clock!Complete
  <1>6. CASE Idle!Tick
    BY <1>6 DEF Idle!Tick, Idle!deadlines, Idle!activity, Idle!Idleness, Idle!Clock!Next, Idle!Clock!Tick
  <1>7. Idle!Clock!vars = seen /\ Idle!Past = 0..e_now
        /\ Idle!Observations = Idle!Clock!Independent \cup {"ProviderActive", "WakeRequested"}
    BY DEF Idle!Clock!vars, Idle!Past, Idle!Clock!Independent
  <1>8. ASSUME UNCHANGED e_now, Idle!Operation, e_phase # "BlankRequested"
        PROVE  [Idle!Clock!Next]_(Idle!Clock!vars)
    BY <1>1, <1>2, <1>3, <1>4, <1>7, <1>8, ActivityIsClocked DEF Idle!Operation, Idle!Clock!Next, Idle!Clock!vars
  <1> QED
    BY <1>4, <1>5, <1>6, <1>8 DEF Idle!Next, Idle!Clock!Next, Idle!vars

\* What the monitor's loop may rely on: locks, owed restores and the countdown only
\* choose among the steps of IdleClock.
THEOREM ImplementsClock == EngineSpec => ImplementsIdleClock
  <1>1. Idle!Init => Idle!Clock!Init
    BY DEF Idle!Init, Idle!Fresh, Idle!Idleness, Idle!Clock!Init, Idle!Clock!None
  <1>2. EngineIInv /\ [Idle!Next]_(Idle!vars) => [Idle!Clock!Next]_(Idle!Clock!vars)
    BY EngineNextIInv, StepIsClocked
  <1> QED
    BY <1>1, <1>2, EngineInvariance, PTL DEF EngineSpec, Idle!Spec, ImplementsIdleClock, Idle!ImplementsIdleClock, Idle!Clock!Spec

HIDE TimingAssumption DEF Idle!None, Idle!OptionInstant, Idle!Phases, Idle!Waiting, Idle!Inactive,
    Idle!Independent, Idle!Provider, Idle!Observations, Idle!Decisions, Idle!Later, Idle!BlankDeadline,
    Idle!PowerOffDeadline, Idle!timed_power_off_pending

-----------------------------------------------------------------------------
(***************************************************************************)
(* The inhibition gate.                                                    *)
(***************************************************************************)

\* The shape of the state as far as the argument needs it.
Shape ==
    /\ state = [s \in Sources |-> state[s]]
    /\ reading = [s \in Pull |-> reading[s]]
    /\ queried \subseteq Pull
    /\ fresh \subseteq Pull
    /\ working \in Requests \cup {Nothing}
    /\ pending \in Requests \cup {Nothing}
    /\ queued \in Requests \cup {Nothing}

\* The worker reads one source at a time, and none once it knows its result; an
\* idle worker holds neither a reading nor a result.
OneAtATime ==
    /\ \A s, t \in Pull : reading[s] # NotRead /\ reading[t] # NotRead => s = t
    /\ result # NoReply \/ working = Nothing => \A s \in Pull : reading[s] = NotRead
    /\ working = Nothing => result = NoReply

\* The pending request is never flagged, and it is in the channel, or at the
\* worker with nothing behind it, or answered with nothing in flight.
PendingIsNewest ==
    pending # Nothing =>
        /\ pending \notin cancelled
        /\ \/ pending = queued /\ pending # working /\ reply.sent = "no"
           \/ pending = working /\ queued = Nothing /\ reply.sent = "no"
           \/ working = Nothing /\ queued = Nothing

\* What the pending request has been answered so far is fresh.
Fresh(s, status) == status = "Inhibited" \/ s \in fresh
AnswersAreFresh ==
    /\ working = pending =>
           /\ \A s \in queried : Fresh(s, state[s].status)
           /\ \A s \in Pull : reading[s] # NotRead => Fresh(s, reading[s].status)
           /\ result.sent = "some" => \A s \in Pull : Fresh(s, result.pull[s].status)
    /\ pending # Nothing /\ reply.sent = "some" =>
           \A s \in Pull : Fresh(s, reply.pull[s].status)

GateIInv ==
        /\ Shape /\ OneAtATime /\ PendingIsNewest /\ AnswersAreFresh
        /\ working = Nothing => queried = {}
        /\ queued = working => queued = Nothing
        /\ OneLiveCheck

USE GateAssumption DEF Sources

\* The gate starts without a check.
LEMMA GateInitIInv == Init => GateIInv
  <1> SUFFICES ASSUME Init PROVE GateIInv
    OBVIOUS
  <1>1. NoReply.sent = "no"
    BY DEF NoReply
  <1>2. Shape
    BY SMTT(30) DEF Init, Shape, NoReply, NotRead
  <1>3. OneAtATime
    BY SMTT(30) DEF Init, OneAtATime
  <1>4. PendingIsNewest
    BY Zenon DEF Init, PendingIsNewest
  <1>5. AnswersAreFresh
    BY SMTT(30), <1>1 DEF Init, AnswersAreFresh, Fresh
  <1>6. /\ working = Nothing => queried = {}
        /\ queued = working => queued = Nothing
        /\ OneLiveCheck
    BY SMTT(30) DEF Init, OneLiveCheck
  <1> QED
    BY <1>2, <1>3, <1>4, <1>5, <1>6, Zenon DEF GateIInv

\* A reply that has not been sent and one without a verdict carry no permission.
LEMMA Replies == NoReply.sent = "no" /\ NoVerdict.sent = "none"
  BY DEF NoReply, NoVerdict

\* Recording an answer changes the status of that source, to what was answered.
LEMMA RecordStatus ==
    ASSUME Shape, NEW s \in Sources, NEW answer, NEW same \in BOOLEAN, Record(s, answer, same)
    PROVE  /\ state' = [t \in Sources |-> state'[t]]
           /\ state'[s].status = answer.status
           /\ \A t \in Sources : t # s => state'[t] = state[t]
  BY Zenon DEF Shape, Record, Recorded

\* Dropping the pending check leaves nothing to be answered.
LEMMA DropStep ==
    ASSUME GateIInv, TakePending, UNCHANGED <<state, reading, queued, working, queried, result>>
    PROVE  GateIInv'
  <1> USE DEF GateIInv, TakePending
  <1>1. Shape'
    BY Zenon DEF Shape
  <1>2. OneAtATime'
    BY DEF OneAtATime
  <1>3. PendingIsNewest'
    BY DEF PendingIsNewest
  <1>4. AnswersAreFresh'
    BY Replies, Zenon DEF AnswersAreFresh, OneAtATime
  <1>5. OneLiveCheck'
    BY DEF OneLiveCheck, Flagged
  <1> QED
    BY <1>1, <1>2, <1>3, <1>4, <1>5

\* Steps that touch neither the worker nor the pending check.
LEMMA GateIdleStep ==
    ASSUME GateIInv, UNCHANGED <<state, reading, worker, cancelled, pending, fresh>>
    PROVE  GateIInv'
  <1> USE DEF GateIInv, worker
  <1>1. Shape'
    BY Zenon DEF Shape
  <1>2. OneAtATime'
    BY DEF OneAtATime
  <1>3. PendingIsNewest'
    BY DEF PendingIsNewest
  <1>4. AnswersAreFresh'
    BY DEF AnswersAreFresh, Fresh
  <1>5. OneLiveCheck'
    BY DEF OneLiveCheck
  <1> QED
    BY <1>1, <1>2, <1>3, <1>4, <1>5

\* A new request is the only one that is not flagged.
LEMMA SubmitStep ==
    ASSUME GateIInv, Submit
    PROVE  GateIInv'
  <1>1. CASE alive /\ queued = Nothing
    <2>1. /\ NewRequest \in Requests
          /\ NewRequest # pending /\ NewRequest # working
      <3>1. pending \in Requests \cup {Nothing} /\ working \in Requests \cup {Nothing}
        BY DEF GateIInv, Shape
      <3>2. Requests \ {pending, working} # {}
        BY <3>1, Zenon DEF GateAssumption
      <3>3. \E r \in Requests : r \notin {pending, working}
        BY <3>2
      <3> QED
        BY <3>3, Zenon DEF NewRequest
    <2>2. /\ queued' = NewRequest /\ pending' = NewRequest
          /\ cancelled' = Flagged /\ reply' = NoReply /\ fresh' = {}
          /\ UNCHANGED <<state, reading, working, queried, result>>
      BY <1>1 DEF Submit, sources
    <2> USE <1>1, <2>1, <2>2 DEF GateIInv
    <2>3. Shape'
      BY Zenon DEF Shape
    <2>4. OneAtATime'
      BY DEF OneAtATime
    <2>5. PendingIsNewest'
      BY Replies DEF PendingIsNewest, Flagged
    <2>6. AnswersAreFresh'
      BY Replies DEF AnswersAreFresh
    <2>7. OneLiveCheck'
      BY DEF OneLiveCheck, Flagged
    <2> QED
      BY <2>3, <2>4, <2>5, <2>6, <2>7
  <1>2. CASE ~(alive /\ queued = Nothing)
    BY <1>2, DropStep DEF Submit, sources
  <1> QED
    BY <1>1, <1>2

\* The steps of the gate preserve the invariant.
LEMMA GateStep ==
    ASSUME GateIInv, Poll \/ Cancel \/ Configure
    PROVE  GateIInv'
  <1>1. CASE Bypass
    BY <1>1, DropStep DEF Bypass, cancel, sources
  <1>2. CASE EvaluatePush
    BY <1>2, GateIdleStep DEF EvaluatePush, sources, gate
  <1>3. CASE ReceiveReply
    BY <1>3, DropStep DEF ReceiveReply, sources
  <1>4. CASE NoReplyYet
    BY <1>4, GateIdleStep DEF NoReplyYet, sources, gate
  <1>5. CASE WorkerGone
    BY <1>5, DropStep DEF WorkerGone, sources
  <1>6. CASE RetryLater
    BY <1>6, GateIdleStep DEF RetryLater, sources, gate
  <1>7. CASE Cancel
    BY <1>7, DropStep DEF Cancel, cancel, sources
  <1>8. CASE Configure
    BY <1>8, DropStep DEF Configure, cancel, sources
  <1> QED
    BY <1>1, <1>2, <1>3, <1>4, <1>5, <1>6, <1>7, <1>8, SubmitStep DEF Poll

\* A push source that publishes changes nothing the worker has collected.
LEMMA GatePublishStep ==
    ASSUME GateIInv, NEW s \in Push, PublishPush(s)
    PROVE  GateIInv'
  <1>1. PICK answer : Record(s, answer, TRUE)
    BY Zenon DEF PublishPush
  <1>2. /\ state' = [t \in Sources |-> state'[t]]
        /\ \A t \in Pull : state'[t] = state[t]
    BY <1>1, RecordStatus, Zenon DEF GateIInv
  <1>3. UNCHANGED <<reading, worker, gate, fresh>>
    BY Zenon DEF PublishPush
  <1> USE <1>2, <1>3 DEF GateIInv, worker, gate
  <1>4. Shape'
    BY Zenon DEF Shape
  <1>5. OneAtATime'
    BY Zenon DEF OneAtATime
  <1>6. PendingIsNewest'
    BY DEF PendingIsNewest
  <1>7. AnswersAreFresh'
    BY Zenon DEF AnswersAreFresh, Fresh, Shape
  <1>8. OneLiveCheck'
    BY DEF OneLiveCheck
  <1> QED
    BY <1>4, <1>5, <1>6, <1>7, <1>8

\* The steps of the worker.  A reading of a source that inhibits takes it from
\* the fresh ones, but then no reply is waiting and the source was not queried.
LEMMA WorkerStep ==
    ASSUME GateIInv, Worker
    PROVE  GateIInv'
  <1> USE DEF GateIInv, gate, sources
  <1>1. CASE ReceiveRequest
    <2> USE <1>1 DEF ReceiveRequest
    <2>1. Shape'
      BY Zenon DEF Shape
    <2>2. OneAtATime'
      BY DEF OneAtATime
    <2>3. PendingIsNewest'
      BY DEF PendingIsNewest, OneLiveCheck
    <2>4. AnswersAreFresh'
      BY Replies, Zenon DEF AnswersAreFresh, Fresh, OneAtATime
    <2>5. OneLiveCheck'
      BY DEF OneLiveCheck
    <2> QED
      BY <2>1, <2>2, <2>3, <2>4, <2>5
  <1>2. CASE FinishRequest
    <2> USE <1>2 DEF FinishRequest
    <2>1. Shape'
      BY Zenon DEF Shape
    <2>2. OneAtATime'
      BY Zenon DEF OneAtATime
    <2>3. PendingIsNewest'
      BY DEF PendingIsNewest
    <2>4. AnswersAreFresh'
      <3>1. CASE working \in cancelled
        BY <3>1, Replies, Zenon DEF AnswersAreFresh, Fresh
      <3>2. CASE working \notin cancelled
        <4>1. /\ queried = Pull
              /\ result' = [sent |-> "some", pull |-> [s \in Pull |-> state[s]]]
          BY <3>2, Zenon DEF Asked
        <4>2. \A s \in Pull : result'.pull[s] = state[s]
          BY <4>1
        <4> QED
          BY Zenon, <4>1, <4>2 DEF AnswersAreFresh, Fresh
      <3> QED
        BY Zenon, <3>1, <3>2
    <2>5. OneLiveCheck'
      BY DEF OneLiveCheck
    <2> QED
      BY Zenon, <2>1, <2>2, <2>3, <2>4, <2>5
  <1>3. CASE SendReply
    <2> USE <1>3 DEF SendReply
    <2>1. Shape'
      BY Zenon DEF Shape
    <2>2. OneAtATime'
      BY DEF OneAtATime
    <2>3. PendingIsNewest'
      BY DEF PendingIsNewest, OneAtATime, Delivered
    <2>4. AnswersAreFresh'
      BY Replies, Zenon DEF AnswersAreFresh, Fresh, OneAtATime, Delivered
    <2>5. OneLiveCheck'
      BY DEF OneLiveCheck, PendingIsNewest
    <2> QED
      BY <2>1, <2>2, <2>3, <2>4, <2>5
  <1>4. ASSUME NEW s \in Pull, ReadPull(s)
        PROVE  GateIInv'
    <2>1. PICK status : /\ reading' = [reading EXCEPT ![s] = [status |-> status, at |-> now]]
                        /\ fresh' = IF status = "Inhibited" THEN fresh \ {s} ELSE fresh \cup {s}
      BY <1>4, Zenon DEF ReadPull
    <2>2. /\ working # Nothing /\ result = NoReply /\ s \notin queried
          /\ \A p \in Pull : reading[p] = NotRead
          /\ UNCHANGED <<state, worker, gate>>
      BY <1>4 DEF ReadPull
    <2> USE <2>1, <2>2 DEF worker
    <2>3. Shape'
      BY Zenon DEF Shape
    <2>4. OneAtATime'
      BY DEF OneAtATime, Shape
    <2>5. PendingIsNewest'
      BY DEF PendingIsNewest
    <2>6. reply.sent # "some" \/ pending = Nothing
      BY Zenon DEF PendingIsNewest
    <2>7. AnswersAreFresh'
      BY <2>6, Replies, Zenon DEF AnswersAreFresh, Fresh, Shape
    <2>8. OneLiveCheck'
      BY DEF OneLiveCheck
    <2> QED
      BY <2>3, <2>4, <2>5, <2>7, <2>8
  <1>5. ASSUME NEW s \in Pull, CompleteQuery(s)
        PROVE  GateIInv'
    <2>1. \/ /\ working \in cancelled
             /\ Record(s, [status |-> "Unavailable", at |-> None], TRUE)
             /\ result' = NoVerdict /\ queried' = queried
          \/ /\ working \notin cancelled
             /\ \E same \in BOOLEAN : Record(s, reading[s], same)
             /\ queried' = queried \cup {s} /\ result' = result
      BY <1>5, Zenon DEF CompleteQuery
    <2>2. /\ working # Nothing /\ reading[s] # NotRead
          /\ reading' = [reading EXCEPT ![s] = NotRead]
          /\ UNCHANGED <<queued, working, reply, gate, fresh>>
      BY Zenon, <1>5 DEF CompleteQuery
    <2>3. /\ state' = [t \in Sources |-> state'[t]]
          /\ working \notin cancelled => state'[s].status = reading[s].status
          /\ \A t \in Pull : t # s => state'[t] = state[t]
      <3>1. s \in Sources /\ Pull \subseteq Sources
        OBVIOUS
      <3>2. CASE working \in cancelled
        BY <2>1, <3>1, <3>2, RecordStatus, Zenon
      <3>3. CASE working \notin cancelled
        <4>1. PICK same \in BOOLEAN : Record(s, reading[s], same)
          BY <2>1, <3>3, Zenon
        <4>2. Shape
          OBVIOUS
        <4>3. /\ state' = [t \in Sources |-> state'[t]]
              /\ state'[s].status = reading[s].status
              /\ \A t \in Sources : t # s => state'[t] = state[t]
          BY ONLY <3>1, <4>1, <4>2, RecordStatus, Zenon
        <4> QED
          BY ONLY <3>1, <4>3, Zenon
      <3> QED
        BY <3>2, <3>3
    <2>4. result = NoReply
      BY <2>2, Zenon DEF OneAtATime
    <2> USE <2>2, <2>3, <2>4
    <2>5. Shape'
      BY <2>1, Zenon DEF Shape
    <2>6. OneAtATime'
      BY <2>1, Zenon DEF OneAtATime, Shape
    <2>7. PendingIsNewest'
      BY DEF PendingIsNewest
    <2>8. working = pending => working \notin cancelled
      BY DEF PendingIsNewest
    <2>9. AnswersAreFresh'
      BY <2>1, <2>8, Replies, Zenon DEF AnswersAreFresh, Fresh, Shape
    <2>10. OneLiveCheck'
      BY DEF OneLiveCheck
    <2> QED
      BY <2>5, <2>6, <2>7, <2>9, <2>10
  <1> QED
    BY <1>1, <1>2, <1>3, <1>4, <1>5, Zenon DEF Worker

\* A worker that dies drops everything in flight.
LEMMA PanicStep ==
    ASSUME GateIInv, Panic
    PROVE  GateIInv'
  <1> USE DEF GateIInv, Panic
  <1>1. Shape'
    BY Zenon DEF Shape
  <1>2. OneAtATime'
    BY DEF OneAtATime
  <1>3. PendingIsNewest'
    BY DEF PendingIsNewest
  <1>4. reply'.sent = "some" => reply' = reply
    BY DEF Dropped, NoReply
  <1>5. AnswersAreFresh'
    BY <1>4, Replies, Zenon DEF AnswersAreFresh, Fresh
  <1>6. OneLiveCheck'
    BY DEF OneLiveCheck
  <1> QED
    BY <1>1, <1>2, <1>3, <1>5, <1>6

\* The invariant is inductive.
LEMMA GateNextIInv == GateIInv /\ [Next]_vars => GateIInv'
  <1> SUFFICES ASSUME GateIInv, [Next]_vars
               PROVE  GateIInv'
    OBVIOUS
  <1>1. CASE Tick
    BY <1>1, GateIdleStep DEF Tick, sources, gate
  <1>2. CASE UNCHANGED vars
    BY <1>2, GateIdleStep DEF vars, sources, gate
  <1> QED
    BY <1>1, <1>2, WorkerStep, PanicStep, GateStep, GatePublishStep DEF Next

\* Every reachable state of the gate satisfies the inductive invariant.
THEOREM GateInvariance == Spec => []GateIInv
  BY GateInitIInv, GateNextIInv, PTL DEF Spec

\* At most one request in flight still counts, whatever input cancels and when.
THEOREM OneCheck == Spec => []OneLiveCheck
  <1>1. GateIInv => OneLiveCheck
    BY DEF GateIInv
  <1> QED
    BY <1>1, GateInvariance, PTL

\* A poll that read the push sources gives its permission on a reply.
LEMMA GrantIsAReply ==
    ASSUME Next, Granted
    PROVE  ReceiveReply /\ reply.sent = "some" /\ CanBlank
  BY Zenon DEF Granted, Next, Tick, Worker, ReceiveRequest, FinishRequest, SendReply, ReadPull,
               CompleteQuery, Panic, Poll, Bypass, EvaluatePush, ReceiveReply, NoReplyYet,
               WorkerGone, Submit, RetryLater, Return, Cancel, Configure, PublishPush, calls

\* Every permission the gate gives follows a check of its own, in which every
\* pull source answered that it does not inhibit.
THEOREM GrantsAreEarned == Spec => EveryGrantIsEarned
  <1>1. ASSUME GateIInv, Next, Granted
        PROVE  fresh = Pull /\ \A s \in Push : allowed(push[s])
    <2>1. ReceiveReply /\ reply.sent = "some" /\ CanBlank
      BY <1>1, GrantIsAReply
    <2>2. \A s \in Pull : reply.pull[s].status # "Inhibited"
      BY <2>1 DEF CanBlank, allowed
    <2>3. Pull \subseteq fresh
      BY <1>1, <2>1, <2>2, Zenon DEF GateIInv, AnswersAreFresh, Fresh, ReceiveReply, StillPending
    <2> QED
      BY <1>1, <2>1, <2>3, Zenon DEF GateIInv, Shape, CanBlank
  <1>2. GateIInv /\ [Next]_vars =>
                [Granted => fresh = Pull /\ \A s \in Push : allowed(push[s])]_vars
    BY <1>1
  <1> QED
    BY <1>2, GateInvariance, PTL DEF Spec, EveryGrantIsEarned

-----------------------------------------------------------------------------
(* Releases.  An adapter remembers the last release of its source as long  *)
(* as it lives, and nothing is recorded between the verdict of a check and *)
(* the end of that check.                                                  *)

Contribution(c) == c = [status |-> c.status, last_release_at |-> c.last_release_at]

Remembered ==
    /\ released_at = [s \in Sources |-> released_at[s]]
    /\ \A s \in Sources : Contribution(state[s]) /\ state[s].last_release_at = released_at[s]

PushIsAsRead ==
    poll = "evaluated" => \A s \in Push : push_released[s] = push[s].last_release_at

Carries(r) == \A s \in Pull : r.pull[s].last_release_at = released_at[s]
VerdictsAreCurrent ==
    /\ result.sent = "some" => Carries(result)
    /\ pending # Nothing /\ reply.sent = "some" => Carries(reply)

RInv == Remembered /\ PushIsAsRead /\ VerdictsAreCurrent

\* No source has been read yet.
LEMMA InitRInv == Init => RInv
  <1> SUFFICES ASSUME Init
               PROVE  RInv
    OBVIOUS
  <1>1. Contribution(Unmonitored) /\ Unmonitored.last_release_at = None
    BY DEF Contribution, Unmonitored
  <1>2. Remembered
    BY <1>1, Zenon DEF Init, Remembered
  <1>3. PushIsAsRead /\ VerdictsAreCurrent
    BY Replies, Zenon DEF Init, PushIsAsRead, VerdictsAreCurrent
  <1> QED
    BY <1>2, <1>3 DEF RInv

\* What is recorded of a source is remembered with it.
LEMMA RecordRelease ==
    ASSUME Shape, Remembered, NEW s \in Sources, NEW answer, NEW same \in BOOLEAN,
           Record(s, answer, same)
    PROVE  /\ Remembered'
           /\ \A t \in Sources : t # s => released_at'[t] = released_at[t]
  <1> DEFINE old == IF same THEN state[s] ELSE [state[s] EXCEPT !.status = "Unavailable"]
             release == answer.status = "Clear" /\ old.status = "Inhibited"
  <1>1. old.last_release_at = released_at[s]
    <2>1. [state[s] EXCEPT !.status = "Unavailable"].last_release_at = state[s].last_release_at
      <3>1. ASSUME NEW c, Contribution(c)
            PROVE  [c EXCEPT !.status = "Unavailable"].last_release_at = c.last_release_at
        BY <3>1, SMT DEF Contribution
      <3> QED
        BY <3>1, Zenon DEF Remembered
    <2> QED
      BY <2>1, Zenon DEF Remembered
  <1>2. /\ state' = [state EXCEPT ![s] = Recorded(old, answer)]
        /\ released_at' = [released_at EXCEPT ![s] = IF release THEN answer.at ELSE released_at[s]]
    BY Zenon DEF Record
  <1> HIDE DEF old
  <1>3. /\ Contribution(Recorded(old, answer))
        /\ Recorded(old, answer).last_release_at = IF release THEN answer.at ELSE released_at[s]
    BY <1>1, Zenon DEF Recorded, Contribution
  <1> HIDE DEF release
  <1>4. /\ state'[s] = Recorded(old, answer)
        /\ released_at'[s] = IF release THEN answer.at ELSE released_at[s]
        /\ \A t \in Sources : t # s => state'[t] = state[t] /\ released_at'[t] = released_at[t]
        /\ released_at' = [t \in Sources |-> released_at'[t]]
    BY <1>2, Zenon DEF Shape, Remembered
  <1> QED
    BY <1>3, <1>4, Zenon DEF Remembered

\* Steps that record nothing keep the releases, and what the gate drops is gone.
LEMMA QuietStep ==
    ASSUME RInv, UNCHANGED sources, result' \in {result, NoReply, NoVerdict},
           \/ pending' = Nothing
           \/ reply'.sent # "some"
           \/ UNCHANGED <<pending, reply>>,
           \/ poll' # "evaluated"
           \/ UNCHANGED <<poll, push, push_released>>
    PROVE  RInv'
  <1>1. Remembered'
    BY Zenon DEF RInv, Remembered, sources
  <1>2. PushIsAsRead'
    BY Zenon DEF RInv, PushIsAsRead
  <1>3. result'.sent = "some" => result' = result
    BY Replies, Zenon
  <1>4. VerdictsAreCurrent'
    BY <1>3, Zenon DEF RInv, VerdictsAreCurrent, Carries, sources
  <1> QED
    BY <1>1, <1>2, <1>4 DEF RInv

\* The gate records nothing, and reads the push sources with their releases.
LEMMA GateKeepsReleases ==
    ASSUME GateIInv, RInv, Poll \/ Cancel \/ Configure
    PROVE  RInv'
  <1>1. CASE EvaluatePush
    <2>1. /\ push' = [s \in Push |-> state[s]] /\ push_released' = [s \in Push |-> released_at[s]]
          /\ UNCHANGED <<sources, worker, gate>>
      BY <1>1 DEF EvaluatePush
    <2>2. PushIsAsRead'
      BY <2>1, Zenon DEF RInv, Remembered, PushIsAsRead
    <2> QED
      BY <2>1, <2>2, Zenon DEF RInv, Remembered, VerdictsAreCurrent, Carries, sources, worker, gate
  <1>2. CASE Bypass
    BY <1>2, QuietStep DEF Bypass, cancel, TakePending
  <1>3. CASE ReceiveReply \/ WorkerGone
    <2>1. poll' # "evaluated"
      BY Zenon, <1>3 DEF ReceiveReply, WorkerGone, Return
    <2> QED
      BY <1>3, <2>1, QuietStep DEF ReceiveReply, WorkerGone, TakePending
  <1>4. CASE NoReplyYet \/ RetryLater
    BY <1>4, QuietStep DEF NoReplyYet, RetryLater, Return, worker, gate
  <1>5. CASE Submit
    BY Zenon, <1>5, Replies, QuietStep DEF Submit, Return, TakePending
  <1>6. CASE Cancel \/ Configure
    BY Zenon, <1>6, QuietStep DEF Cancel, Configure, cancel, TakePending, calls
  <1> QED
    BY <1>1, <1>2, <1>3, <1>4, <1>5, <1>6 DEF Poll

\* While the worker is busy no verdict is waiting for the gate.
LEMMA WorkerKeepsReleases ==
    ASSUME GateIInv, RInv, Worker
    PROVE  RInv'
  <1>1. CASE ReceiveRequest
    BY <1>1, QuietStep DEF ReceiveRequest, gate, calls
  <1>2. CASE FinishRequest
    <2>1. /\ UNCHANGED <<sources, reply, pending, poll, push, push_released>>
          /\ result' \in {NoVerdict, [sent |-> "some", pull |-> [s \in Pull |-> state[s]]]}
      BY <1>2, Zenon DEF FinishRequest, gate, calls
    <2>2. CASE result' = NoVerdict
      BY <2>1, <2>2, QuietStep
    <2>3. CASE result' = [sent |-> "some", pull |-> [s \in Pull |-> state[s]]]
      <3>1. \A s \in Pull : result'.pull[s] = state[s]
        BY <2>3, Zenon
      <3>2. VerdictsAreCurrent'
        BY <2>1, <3>1, Zenon DEF RInv, Remembered, VerdictsAreCurrent, Carries, sources, Sources
      <3> QED
        BY <2>1, <3>2, Zenon DEF RInv, Remembered, PushIsAsRead, sources
    <2> QED
      BY <2>1, <2>2, <2>3
  <1>3. CASE SendReply
    <2>1. /\ UNCHANGED <<sources, pending, poll, push, push_released>>
          /\ reply' \in {reply, result} /\ result' = NoReply
      BY <1>3, Zenon DEF SendReply, Delivered, calls
    <2>2. VerdictsAreCurrent'
      BY <2>1, Replies, Zenon DEF RInv, VerdictsAreCurrent, Carries, sources
    <2> QED
      BY <2>1, <2>2, Zenon DEF RInv, Remembered, PushIsAsRead, sources
  <1>4. ASSUME NEW s \in Pull, ReadPull(s)
        PROVE  RInv'
    <2>1. UNCHANGED <<state, released_at, reply, result, pending, poll, push, push_released>>
      BY <1>4 DEF ReadPull, worker, gate, calls
    <2> QED
      BY <2>1, Zenon DEF RInv, Remembered, PushIsAsRead, VerdictsAreCurrent, Carries
  <1>5. ASSUME NEW s \in Pull, CompleteQuery(s)
        PROVE  RInv'
    <2>1. Remembered'
      <3>1. s \in Sources /\ Shape /\ Remembered
        BY DEF GateIInv, RInv
      <3>2. CASE working \in cancelled
        <4>1. Record(s, [status |-> "Unavailable", at |-> None], TRUE)
          BY <1>5, <3>2, Zenon DEF CompleteQuery
        <4> QED
          BY <3>1, <4>1, RecordRelease, Zenon
      <3>3. CASE working \notin cancelled
        <4>1. PICK same \in BOOLEAN : Record(s, reading[s], same)
          BY <1>5, <3>3, Zenon DEF CompleteQuery
        <4> QED
          BY <3>1, <4>1, RecordRelease, Zenon
      <3> QED
        BY <3>2, <3>3
    <2>2. /\ working # Nothing /\ reading[s] # NotRead
          /\ UNCHANGED <<reply, pending, poll, push, push_released>>
          /\ result' \in {result, NoVerdict}
      BY <1>5, Zenon DEF CompleteQuery, gate, calls
    <2>3. result = NoReply /\ (pending # Nothing => reply.sent # "some")
      <3>1. result = NoReply
        BY <2>2, Zenon DEF GateIInv, OneAtATime
      <3>2. pending # Nothing => reply.sent = "no"
        BY <2>2, Zenon DEF GateIInv, PendingIsNewest
      <3> QED
        BY Zenon, <3>1, <3>2
    <2>4. VerdictsAreCurrent'
      BY <2>2, <2>3, Replies, Zenon DEF VerdictsAreCurrent
    <2> QED
      BY <2>1, <2>2, <2>4, Zenon DEF RInv, PushIsAsRead
  <1> QED
    BY <1>1, <1>2, <1>3, <1>4, <1>5, Zenon DEF Worker

\* A push source that publishes has no part in the verdict of a check.
LEMMA PublishKeepsReleases ==
    ASSUME GateIInv, RInv, NEW s \in Push, PublishPush(s)
    PROVE  RInv'
  <1>1. PICK answer : Record(s, answer, TRUE)
    BY Zenon DEF PublishPush
  <1>2. s \in Sources /\ Pull \subseteq Sources /\ \A t \in Pull : t # s
    BY DEF Sources
  <1>3. Remembered' /\ \A t \in Pull : released_at'[t] = released_at[t]
    BY <1>1, <1>2, RecordRelease, Zenon DEF GateIInv, RInv
  <1>4. UNCHANGED <<result, reply, pending, poll, push, push_released>>
    BY Zenon DEF PublishPush, worker, gate, calls
  <1> QED
    BY <1>3, <1>4, Zenon DEF RInv, PushIsAsRead, VerdictsAreCurrent, Carries

\* What is said of the releases is inductive, given the invariant of the gate.
LEMMA NextRInv == GateIInv /\ RInv /\ [Next]_vars => RInv'
  <1> SUFFICES ASSUME GateIInv, RInv, [Next]_vars
               PROVE  RInv'
    OBVIOUS
  <1>1. CASE Tick
    BY <1>1, QuietStep DEF Tick, worker, gate, calls
  <1>2. CASE Panic
    <2>1. reply'.sent = "some" => reply' = reply
      BY <1>2, Zenon DEF Panic, Dropped, NoReply
    <2>2. UNCHANGED <<state, released_at, pending, poll, push, push_released>> /\ result' = NoReply
      BY <1>2 DEF Panic, calls
    <2> QED
      BY <2>1, <2>2, Replies, Zenon DEF RInv, Remembered, PushIsAsRead, VerdictsAreCurrent, Carries
  <1>3. CASE UNCHANGED vars
    BY <1>3, QuietStep DEF vars, worker, gate, calls
  <1> QED
    BY <1>1, <1>2, <1>3, WorkerKeepsReleases, GateKeepsReleases, PublishKeepsReleases DEF Next

\* A permission to blank waits out the idle timeout after every release that an
\* adapter has observed, of the push sources as the poll read them and of the
\* pull sources up to now.
THEOREM GrantsWait == Spec => GrantWaitsOutRelease
  <1> DEFINE Waited == /\ \A s \in Push : WaitedOut(push_released[s])
                       /\ \A s \in Pull : WaitedOut(released_at[s])
  <1>1. ASSUME GateIInv, RInv, Next, Granted
        PROVE  Waited
    <2>1. ReceiveReply /\ reply.sent = "some" /\ CanBlank
      BY <1>1, GrantIsAReply
    <2>2. /\ \A s \in Push : WaitedOut(push[s].last_release_at)
          /\ \A s \in Pull : WaitedOut(reply.pull[s].last_release_at)
      BY <2>1, Zenon DEF CanBlank, Releases, WaitedOut
    <2>3. poll = "evaluated" /\ pending # Nothing
      BY <2>1 DEF ReceiveReply, StillPending
    <2> QED
      BY <1>1, <2>1, <2>2, <2>3, Zenon DEF RInv, PushIsAsRead, VerdictsAreCurrent, Carries
  <1>2. GateIInv /\ RInv /\ [Next]_vars => [Granted => Waited]_vars
    BY Zenon, <1>1
  <1>3. Spec => []RInv
    BY InitRInv, NextRInv, GateInvariance, PTL DEF Spec
  <1> QED
    BY <1>2, <1>3, GateInvariance, PTL DEF Spec, GrantWaitsOutRelease
=============================================================================
