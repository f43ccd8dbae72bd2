---------------------------- MODULE SuspendRail ----------------------------
(***************************************************************************)
(* The suspend rail: what LG Buddy does with the TV around a machine sleep *)
(* (lifecycle.rs, session/runner.rs, session/actions.rs, state.rs and      *)
(* sources/linux/network_manager.rs).                                      *)
(*                                                                         *)
(* Two kinds of process take part.  The lifecycle service reads logind's   *)
(* PrepareForSleep signals one by one and holds a delay inhibitor while it *)
(* is idle.  NetworkManager runs a pre-down hook per interface and keeps   *)
(* the network up until the hooks return.  They coordinate through files:  *)
(* a lock, the outcome of the sleep cycle and the marker that says LG      *)
(* Buddy turned the TV off.  The machine may fall asleep under a running   *)
(* process, which then continues after the wake-up.                        *)
(***************************************************************************)
EXTENDS Naturals, Sequences

CONSTANTS
    Hooks,            \* pre-down hooks, one per interface
    Service,          \* the lifecycle service
    Nobody,           \* the lock is free
    Aggressive,       \* screen_restore_policy = aggressive
    MayFail,          \* processes die, files fail, logind loses patience
    MayHurry,         \* a suspend may begin before the last one is dealt with
    MayReconfigure,   \* system_sleep_wake_policy changes while running
    MaxSuspends       \* bound on the number of suspends

Procs == Hooks \cup {Service}

ASSUME RailAssumption ==
    /\ Service \notin Hooks
    /\ Nobody \notin Procs
    /\ {Aggressive, MayFail, MayHurry, MayReconfigure} \subseteq BOOLEAN
    /\ MaxSuspends \in Nat

VARIABLES
    machine,             \* logind: awake, preparing for sleep or asleep
    network,             \* the interface to the TV is up
    tv,                  \* power state of the TV
    policy,              \* system_sleep_wake_policy is enabled
    dispatched,          \* hooks NetworkManager has started for this suspend
    signals,             \* PrepareForSleep signals the service has not read
    inhibitor,           \* the service holds logind's delay inhibitor
    waiting_for_resume,  \* the service saw true after the last false
    pc,                  \* where each process is
    lock,                \* holder of the attempt lock
    cycle,               \* content of the cycle file
    marker,              \* the system ownership marker exists
    was_set,             \* marker at the start of a process's attempt
    retriers,            \* hooks that make their second attempt
    suspends,            \* history: suspends begun so far
    decided,             \* history: suspend of the last decision begun
    owed                 \* history: a confirmed power-off awaits its restore

files   == <<lock, cycle, marker>>
service == <<signals, inhibitor, waiting_for_resume>>
world   == <<machine, network, policy, dispatched, suspends>>
vars    == <<world, tv, service, pc, files, was_set, retriers,
             decided, owed>>

Outcomes == {"None", "InProgress", "Retryable", "Completed"}
OwnerPcs == {"owner", "query", "off_known", "off_fallback", "decided",
             "attempted", "release", "release_retry"}
HookPcs  == {"idle", "start", "wait", "relock", "done", "gave_up"}
LoopPcs  == {"down", "sync", "listen", "resume", "restoring", "cleanup"}

Set(p, label) == pc' = [pc EXCEPT ![p] = label]

\* A sleeping machine runs nobody.
Runs(p, label) == machine # "asleep" /\ pc[p] = label

-----------------------------------------------------------------------------
Init ==
    /\ machine = "awake" /\ network = TRUE /\ tv = "on" /\ policy = TRUE
    /\ dispatched = {}
    /\ signals = <<>> /\ inhibitor = FALSE /\ waiting_for_resume = FALSE
    /\ pc = [p \in Procs |-> IF p = Service THEN "sync" ELSE "idle"]
    /\ lock = Nobody /\ cycle = "None" /\ marker = FALSE
    /\ was_set = [p \in Procs |-> FALSE] /\ retriers = {}
    /\ suspends = 0 /\ decided = 0 /\ owed = FALSE

-----------------------------------------------------------------------------
(***************************************************************************)
(* The rail itself, the same code in both kinds of process.  Return leaves *)
(* it: the service releases its inhibitor, a hook goes on with next.       *)
(***************************************************************************)
\* Mutant: the service keeps its inhibitor.
ReturnMutant(p, next) ==
    Set(p, IF p = Service THEN "sync" ELSE next) /\ UNCHANGED service
Return(p, next) ==
    IF p = Service
    THEN Set(p, "sync") /\ inhibitor' = FALSE /\ UNCHANGED <<signals, waiting_for_resume>>
    ELSE Set(p, next) /\ UNCHANGED service

\* Mutant: the lock is not consulted.
TryLockMutant(p) ==
    /\ Runs(p, "enter")
    /\ Set(p, "owner") /\ lock' = p
    /\ UNCHANGED <<world, tv, service, cycle, marker, was_set, retriers, decided, owed>>
TryLock(p) ==
    /\ Runs(p, "enter")
    /\ IF lock = Nobody
       THEN Set(p, "owner") /\ lock' = p
       ELSE Set(p, "contended") /\ UNCHANGED lock
    /\ UNCHANGED <<world, tv, service, cycle, marker, was_set, retriers, decided, owed>>

\* The lock was taken: the cycle file tells whether there is something to join.
Contended(p) ==
    /\ Runs(p, "contended")
    /\ Return(p, IF cycle = "Completed" THEN "done" ELSE "wait")
    /\ UNCHANGED <<world, tv, files, was_set, retriers, decided, owed>>

BeginAttempt(p) ==
    /\ Runs(p, "owner")
    /\ IF cycle = "Completed"
       THEN Set(p, "release") /\ UNCHANGED <<cycle, was_set, decided>>
       ELSE /\ cycle' = "InProgress"
            /\ was_set' = [was_set EXCEPT ![p] = marker]
            /\ decided' = suspends
            /\ Set(p, "query")
    /\ UNCHANGED <<world, tv, service, lock, marker, retriers, owed>>

\* The input query, with its retries.  Only a TV that is on and reachable
\* answers; a missing credential and a failing transport are always possible.
InputAnswers ==
    {"auth", "failed"} \cup (IF network /\ tv = "on" THEN {"match", "mismatch"} ELSE {})

QueryInput(p) ==
    /\ Runs(p, "query")
    /\ \E answer \in InputAnswers :
           /\ Set(p, CASE answer = "match"    -> "off_known"
                       [] answer = "failed"   -> "off_fallback"
                       [] OTHER               -> "decided")
           /\ marker' = (marker /\ answer # "mismatch")
    /\ UNCHANGED <<world, tv, service, lock, cycle, was_set, retriers, decided, owed>>

\* power_off succeeds against a TV that is on and reachable.  A call that fails
\* may have reached the TV all the same.  (A process that dies between its call
\* and the marker looks the same: the failing case, then Abort or CrashService.)
\* Mutant: a failed fallback forgets an ownership that was recorded before.
MarkerAfterFailureMutant(p) == pc[p] = "off_known" /\ marker
MarkerAfterFailure(p) == marker /\ (pc[p] = "off_known" \/ was_set[p])

PowerOff(p) ==
    /\ Runs(p, "off_known") \/ Runs(p, "off_fallback")
    /\ \/ /\ network /\ tv = "on"
          /\ tv' = "off" /\ marker' = TRUE /\ owed' = TRUE
       \/ /\ tv' \in {tv} \cup (IF network THEN {"off"} ELSE {})
          /\ marker' = MarkerAfterFailure(p)
          /\ UNCHANGED owed
    /\ Set(p, "attempted")
    /\ UNCHANGED <<world, service, lock, cycle, was_set, retriers, decided>>

\* decide_system_sleep_cycle_outcome: a power-off that was selected and left no
\* marker may be tried again.
CycleOutcome(p) == IF pc[p] = "attempted" /\ ~marker THEN "Retryable" ELSE "Completed"

Settle(p) ==
    /\ Runs(p, "decided") \/ Runs(p, "attempted")
    /\ cycle' = CycleOutcome(p)
    /\ Set(p, IF cycle' = "Completed" THEN "release" ELSE "release_retry")
    /\ UNCHANGED <<world, tv, service, lock, marker, was_set, retriers, decided, owed>>

\* The guard is dropped as the rail returns; a hook makes at most one retry.
Unlock(p) ==
    /\ Runs(p, "release") \/ Runs(p, "release_retry")
    /\ lock' = Nobody
    /\ Return(p, IF pc[p] = "release_retry" /\ p \notin retriers THEN "wait" ELSE "done")
    /\ retriers' = retriers \ {p}
    /\ UNCHANGED <<world, tv, cycle, marker, was_set, decided, owed>>

\* An error of a file operation ends the rail early and drops the guard.
Abort(p) ==
    /\ MayFail
    /\ machine # "asleep" /\ pc[p] \in OwnerPcs \cup {"enter", "contended", "wait", "relock"}
    /\ lock' = (IF lock = p THEN Nobody ELSE lock)
    /\ Return(p, "gave_up")
    /\ retriers' = retriers \ {p}
    /\ UNCHANGED <<world, tv, cycle, marker, was_set, decided, owed>>

Rail(p) ==
    \/ TryLock(p) \/ Contended(p) \/ BeginAttempt(p) \/ QueryInput(p)
    \/ PowerOff(p) \/ Settle(p) \/ Unlock(p) \/ Abort(p)

-----------------------------------------------------------------------------
(***************************************************************************)
(* The NetworkManager hook.                                                *)
(***************************************************************************)
\* Reads logind's PreparingForSleep; the read may fail, and then the hook
\* leaves the disconnect alone.
HandlePreDown(h) ==
    /\ Runs(h, "start")
    /\ \/ Set(h, IF policy /\ machine = "preparing" THEN "enter" ELSE "gave_up")
       \/ MayFail /\ Set(h, "gave_up")
    /\ UNCHANGED <<world, tv, service, files, was_set, retriers, decided, owed>>

\* One poll of wait_for_system_sleep_cycle_observation reads the outcome.
PollCycle(h) ==
    /\ Runs(h, "wait")
    /\ \/ cycle = "Completed" /\ Set(h, "done")
       \/ cycle = "Retryable" /\ Set(h, "relock")
    /\ UNCHANGED <<world, tv, service, files, was_set, retriers, decided, owed>>

\* It then tries the lock, which another process may have taken, or taken and
\* left, since the read.
Relock(h) ==
    /\ Runs(h, "relock")
    /\ IF lock = Nobody
       THEN lock' = h /\ Set(h, "owner") /\ retriers' = retriers \cup {h}
       ELSE /\ Set(h, "wait") \/ Set(h, "gave_up")
            /\ UNCHANGED <<lock, retriers>>
    /\ UNCHANGED <<world, tv, service, cycle, marker, was_set, decided, owed>>

\* The rail deadline passes at a poll that found nothing to act on.
WaitExpires(h) ==
    /\ Runs(h, "wait")
    /\ cycle \notin {"Completed", "Retryable"}
    /\ Set(h, "gave_up")
    /\ UNCHANGED <<world, tv, service, files, was_set, retriers, decided, owed>>

-----------------------------------------------------------------------------
(***************************************************************************)
(* The lifecycle service.                                                  *)
(***************************************************************************)
\* sync_lifecycle_sleep_delay_inhibitor_if_idle.  A refused inhibitor ends the
\* monitor.
SyncInhibitor ==
    /\ Runs(Service, "sync")
    /\ \/ /\ inhibitor' = (policy /\ (inhibitor \/ ~waiting_for_resume))
          /\ Set(Service, "listen")
          /\ UNCHANGED <<signals, waiting_for_resume>>
       \/ /\ MayFail /\ policy /\ ~waiting_for_resume /\ ~inhibitor
          /\ Set(Service, "down")
          /\ signals' = <<>> /\ waiting_for_resume' = FALSE /\ UNCHANGED inhibitor
    /\ UNCHANGED <<world, tv, files, was_set, retriers, decided, owed>>

\* bus.process returns without a signal and the loop starts over.
ProcessTimeout ==
    /\ Runs(Service, "listen") /\ signals = <<>>
    /\ Set(Service, "sync")
    /\ UNCHANGED <<world, tv, service, files, was_set, retriers, decided, owed>>

ReceiveSignal ==
    /\ Runs(Service, "listen") /\ signals # <<>>
    /\ signals' = Tail(signals)
    /\ waiting_for_resume' = Head(signals)
    /\ IF policy
       THEN Set(Service, IF Head(signals) THEN "enter" ELSE "resume") /\ UNCHANGED inhibitor
       ELSE Set(Service, "sync") /\ inhibitor' = FALSE
    /\ UNCHANGED <<world, tv, files, was_set, retriers, decided, owed>>

\* run_system_resume up to the restore.  Without a stored credential the
\* ownership is given up; without ownership there is nothing to restore.  A
\* configuration or client that does not load ends it before the cleanup.
StartResume ==
    /\ Runs(Service, "resume")
    /\ \/ marker' = FALSE /\ owed' = FALSE /\ Set(Service, "cleanup")
       \/ /\ Set(Service, IF marker \/ Aggressive THEN "restoring" ELSE "cleanup")
          /\ UNCHANGED <<marker, owed>>
       \/ MayFail /\ Set(Service, "sync") /\ UNCHANGED <<marker, owed>>
    /\ UNCHANGED <<world, tv, service, lock, cycle, was_set, retriers, decided>>

\* The wake packets and the attempts to set the input.  Success, a refused
\* credential and exhaustion all end the ownership; a file that cannot be removed
\* keeps it.
FinishRestore ==
    /\ Runs(Service, "restoring")
    /\ tv' \in {tv, "on"}
    /\ \/ marker' = FALSE /\ owed' = FALSE
       \/ MayFail /\ UNCHANGED marker /\ owed' = (owed /\ tv' = "off")
    /\ Set(Service, "cleanup")
    /\ UNCHANGED <<world, service, lock, cycle, was_set, retriers, decided>>

\* clear_outcome at the end of run_system_resume, whatever the restore did.
\* Mutant: the cycle file is kept.
ClearedCycleMutant == {cycle}
ClearedCycle == {"None"} \cup (IF MayFail THEN {cycle} ELSE {})

Cleanup ==
    /\ Runs(Service, "cleanup")
    /\ cycle' \in ClearedCycle
    /\ Set(Service, "sync")
    /\ UNCHANGED <<world, tv, service, lock, marker, was_set, retriers, decided, owed>>

\* The process dies and the kernel closes its files; systemd restarts it.
CrashService ==
    /\ MayFail
    /\ machine # "asleep" /\ pc[Service] # "down"
    /\ lock' = (IF lock = Service THEN Nobody ELSE lock)
    /\ inhibitor' = FALSE /\ signals' = <<>> /\ waiting_for_resume' = FALSE
    /\ Set(Service, "down")
    /\ UNCHANGED <<world, tv, cycle, marker, was_set, retriers, decided, owed>>

RestartService ==
    /\ Runs(Service, "down")
    /\ Set(Service, "sync")
    /\ UNCHANGED <<world, tv, service, files, was_set, retriers, decided, owed>>

Lifecycle ==
    \/ SyncInhibitor \/ ProcessTimeout \/ ReceiveSignal
    \/ StartResume \/ FinishRestore \/ Cleanup
    \/ CrashService \/ RestartService

-----------------------------------------------------------------------------
(***************************************************************************)
(* The machine: logind, NetworkManager, the TV's user, and the settings.   *)
(***************************************************************************)
Deliver(preparing) ==
    signals' = IF pc[Service] = "down" THEN signals ELSE Append(signals, preparing)

HookReturned(h) == pc[h] \in {"idle", "done", "gave_up"}

\* Unless MayHurry, a suspend finds LG Buddy done with the previous one.
PrepareForSleep ==
    /\ machine = "awake" /\ suspends < MaxSuspends
    /\ \/ MayHurry
       \/ /\ pc[Service] = "listen" /\ signals = <<>> /\ network
          /\ inhibitor = policy
          /\ \A h \in Hooks : HookReturned(h)
    /\ machine' = "preparing" /\ suspends' = suspends + 1 /\ dispatched' = {}
    /\ Deliver(TRUE)
    /\ UNCHANGED <<network, policy, tv, inhibitor, waiting_for_resume, pc, files,
                   was_set, retriers, decided, owed>>

StartHook(h) ==
    /\ machine = "preparing" /\ network
    /\ h \notin dispatched /\ HookReturned(h)
    /\ dispatched' = dispatched \cup {h}
    /\ Set(h, "start")
    /\ UNCHANGED <<machine, network, policy, suspends, tv, service, files, was_set,
                   retriers, decided, owed>>

TeardownNetwork ==
    /\ machine = "preparing" /\ network
    /\ \A h \in Hooks : h \in dispatched /\ HookReturned(h)
    /\ network' = FALSE
    /\ UNCHANGED <<machine, policy, dispatched, suspends, tv, service, pc, files,
                   was_set, retriers, decided, owed>>

\* logind waits for the delay inhibitors of the service and of NetworkManager,
\* but not longer than its own limit.
Sleep ==
    /\ machine = "preparing"
    /\ MayFail \/ (~inhibitor /\ ~network)
    /\ machine' = "asleep"
    /\ UNCHANGED <<network, policy, dispatched, suspends, tv, service, pc, files,
                   was_set, retriers, decided, owed>>

Wake ==
    /\ machine = "asleep"
    /\ machine' = "awake"
    /\ Deliver(FALSE)
    /\ UNCHANGED <<network, policy, dispatched, suspends, tv, inhibitor,
                   waiting_for_resume, pc, files, was_set, retriers, decided, owed>>

ConnectNetwork ==
    /\ machine = "awake" /\ ~network
    /\ network' = TRUE
    /\ UNCHANGED <<machine, policy, dispatched, suspends, tv, service, pc, files,
                   was_set, retriers, decided, owed>>

\* Somebody uses the remote control.
SwitchOnTv ==
    /\ tv = "off" /\ tv' = "on" /\ owed' = FALSE
    /\ UNCHANGED <<world, service, pc, files, was_set, retriers, decided>>

Reconfigure ==
    /\ MayReconfigure
    /\ policy' = ~policy
    /\ UNCHANGED <<machine, network, dispatched, suspends, tv, service, pc, files,
                   was_set, retriers, decided, owed>>

Machine ==
    \/ PrepareForSleep \/ TeardownNetwork \/ Sleep \/ Wake \/ ConnectNetwork
    \/ SwitchOnTv \/ Reconfigure
    \/ \E h \in Hooks : StartHook(h)

Hook(h) == HandlePreDown(h) \/ PollCycle(h) \/ Relock(h) \/ WaitExpires(h)

Next ==
    \/ \E p \in Procs : Rail(p)
    \/ \E h \in Hooks : Hook(h)
    \/ Lifecycle
    \/ Machine

Spec == Init /\ [][Next]_vars

\* Running processes, logind and NetworkManager make progress.  A hook that
\* waits reaches its deadline, so its polls are fair as a whole.  Nothing makes
\* anybody suspend or wake the machine.
Fairness ==
    /\ \A p \in Procs : WF_vars(Rail(p))
    /\ \A h \in Hooks : WF_vars(Hook(h)) /\ WF_vars(StartHook(h))
    /\ WF_vars(Lifecycle)
    /\ WF_vars(TeardownNetwork) /\ WF_vars(Sleep) /\ WF_vars(ConnectNetwork)

FairSpec == Spec /\ Fairness

-----------------------------------------------------------------------------
\* Whoever crashes, and however often the hooks retry, at most one process is
\* between try_lock and the drop of the guard.
RailHasOneOwner ==
    \A p, q \in Procs : pc[p] \in OwnerPcs /\ pc[q] \in OwnerPcs => p = q

\* A TV that LG Buddy certainly turned off for a sleep is remembered by the
\* marker until the resume has dealt with it, even when the process that turned
\* it off died before it wrote the outcome and another one attempted again
\* (decide_system_sleep_power_off_result, marker_was_set).
ConfirmedOffIsRemembered == owed => marker

\* A completed cycle is not attempted again by the sources that find it later;
\* only the resume ends it.
CompletedCycleIsFinal ==
    [][cycle = "Completed" => cycle' \in {"Completed", "None"}]_vars

\* A hook that lets NetworkManager take the network down without having given
\* up does so after a TV decision was made for this very suspend ("run one
\* bounded pre-sleep TV decision unless another source already owns or
\* completed the cycle").
TeardownAfterDecision ==
    machine = "preparing" =>
        \A h \in dispatched : pc[h] = "done" => decided = suspends

\* Once the service has read the resume signal and is back in its loop, nothing
\* of the sleep cycle is left ("PrepareForSleep(false) runs wake restore policy
\* and clears per-cycle coordination state").
CoordinationClearedAfterResume ==
    /\ machine = "awake" /\ signals = <<>> /\ pc[Service] = "listen"
    /\ ~waiting_for_resume
    => cycle = "None" /\ ~marker

\* The inhibitor, the lock, the waiting hooks and the network never hold each
\* other up: a suspend goes through.
SuspendIsNeverBlocked == machine = "preparing" ~> machine = "asleep"

\* After a wake-up the outcome of the cycle and the ownership of the TV are
\* eventually dealt with.
ResumeSettles ==
    (machine = "awake" /\ (cycle # "None" \/ marker)) ~> (cycle = "None" /\ ~marker)
=============================================================================
