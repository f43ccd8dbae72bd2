---------------------------- MODULE PowerProofs ----------------------------
(***************************************************************************)
(* Proofs about the parts that switch the TV on and off.  The suspend rail *)
(* for any number of hooks and suspends and every combination of faults,   *)
(* early suspends and reconfigurations; the same rail left in peace; the   *)
(* screen actions of a session; and the session monitor among crashes.     *)
(***************************************************************************)
EXTENDS MCPower, TLAPS

USE Zenon

-----------------------------------------------------------------------------
(* The suspend rail among faults. *)

\* Whoever is inside the rail holds the lock.
OwnerHoldsLock == \A p \in Procs : pc[p] \in OwnerPcs => lock = p

\* An owner that has begun its attempt works on an open cycle: nobody else can
\* complete it, and a late resume can only clear it.
OpenPcs == {"query", "off_known", "off_fallback", "decided", "attempted"}
AttemptIsOpen == \A p \in Procs : pc[p] \in OpenPcs => cycle # "Completed"

\* The part of the type invariant that the argument needs.
Pcs == OwnerPcs \cup HookPcs \cup LoopPcs \cup {"enter", "contended"}
ControlTypes ==
    /\ pc \in [Procs -> Pcs]
    /\ lock \in Procs \cup {Nobody}
    /\ cycle \in Outcomes

RailInv == ControlTypes /\ OwnerHoldsLock /\ AttemptIsOpen

USE RailAssumption DEF Procs, OwnerPcs, HookPcs, LoopPcs, OpenPcs, Pcs, Outcomes

\* The service starts outside the rail with every file absent.
LEMMA InitRailInv == Init => RailInv
  BY Zenon DEF Init, RailInv, ControlTypes, OwnerHoldsLock, AttemptIsOpen

\* Every step of the rail preserves the invariant.
LEMMA RailStep ==
    ASSUME RailInv, NEW p \in Procs, Rail(p)
    PROVE  RailInv'
  <1> USE DEF RailInv, ControlTypes, OwnerHoldsLock, AttemptIsOpen, Runs, Set, Return,
              world, service, files
  <1>1. CASE TryLock(p)
    BY SMTT(30), <1>1 DEF TryLock
  <1>2. CASE Contended(p)
    BY SMTT(30), <1>2 DEF Contended
  <1>3. CASE BeginAttempt(p)
    BY SMTT(30), <1>3 DEF BeginAttempt
  <1>4. CASE QueryInput(p)
    <2>1. pc[p] = "query"
      BY <1>4 DEF QueryInput
    <2>2. PICK label \in {"off_known", "off_fallback", "decided"} : Set(p, label)
      BY <1>4, Zenon DEF QueryInput
    <2>3. UNCHANGED <<lock, cycle>>
      BY <1>4 DEF QueryInput
    <2> QED
      BY <2>1, <2>2, <2>3
  <1>5. CASE PowerOff(p)
    BY <1>5 DEF PowerOff, MarkerAfterFailure
  <1>6. CASE Settle(p)
    BY <1>6 DEF Settle, CycleOutcome
  <1>7. CASE Unlock(p)
    BY SMTT(30), <1>7 DEF Unlock
  <1>8. CASE Abort(p)
    BY SMTT(30), <1>8 DEF Abort
  <1> QED
    BY <1>1, <1>2, <1>3, <1>4, <1>5, <1>6, <1>7, <1>8 DEF Rail

\* A hook outside the rail preserves the invariant; its retry takes a free lock.
LEMMA HookStep ==
    ASSUME RailInv, NEW h \in Hooks, Hook(h)
    PROVE  RailInv'
  <1> USE DEF RailInv, ControlTypes, OwnerHoldsLock, AttemptIsOpen, Runs, Set,
              world, service, files
  <1>1. CASE HandlePreDown(h)
    BY SMTT(30), <1>1 DEF HandlePreDown
  <1>2. CASE PollCycle(h)
    BY SMTT(30), <1>2 DEF PollCycle
  <1>3. CASE Relock(h)
    BY SMTT(30), <1>3 DEF Relock
  <1>4. CASE WaitExpires(h)
    BY <1>4 DEF WaitExpires
  <1> QED
    BY <1>1, <1>2, <1>3, <1>4 DEF Hook

\* The loop, the resume, the crash and the restart of the service preserve it.
LEMMA LifecycleStep ==
    ASSUME RailInv, Lifecycle
    PROVE  RailInv'
  <1> USE DEF RailInv, ControlTypes, OwnerHoldsLock, AttemptIsOpen, Runs, Set,
              world, service, files
  <1>1. CASE SyncInhibitor
    BY SMTT(30), <1>1 DEF SyncInhibitor
  <1>2. CASE ProcessTimeout
    BY <1>2 DEF ProcessTimeout
  <1>3. CASE ReceiveSignal
    <2>1. PICK label \in {"enter", "resume", "sync"} : Set(Service, label)
      <3>1. CASE policy
        BY <1>3, <3>1, Zenon DEF ReceiveSignal
      <3>2. CASE ~policy
        BY <1>3, <3>2, Zenon DEF ReceiveSignal
      <3> QED
        BY <3>1, <3>2
    <2>2. UNCHANGED <<lock, cycle>>
      BY <1>3, Zenon DEF ReceiveSignal
    <2> QED
      BY <2>1, <2>2
  <1>4. CASE StartResume
    BY SMTT(30), <1>4 DEF StartResume
  <1>5. CASE FinishRestore
    BY <1>5 DEF FinishRestore
  <1>6. CASE Cleanup
    BY <1>6 DEF Cleanup, ClearedCycle
  <1>7. CASE CrashService
    BY <1>7 DEF CrashService
  <1>8. CASE RestartService
    BY <1>8 DEF RestartService
  <1> QED
    BY <1>1, <1>2, <1>3, <1>4, <1>5, <1>6, <1>7, <1>8 DEF Lifecycle

\* What happens around LG Buddy preserves the invariant.
LEMMA MachineStep ==
    ASSUME RailInv, Machine
    PROVE  RailInv'
  <1> USE DEF RailInv, ControlTypes, OwnerHoldsLock, AttemptIsOpen, Set, Deliver,
              HookReturned, world, service, files
  <1>1. CASE PrepareForSleep
    BY <1>1 DEF PrepareForSleep
  <1>2. CASE TeardownNetwork
    BY <1>2 DEF TeardownNetwork
  <1>3. CASE Sleep
    BY <1>3 DEF Sleep
  <1>4. CASE Wake
    BY <1>4 DEF Wake
  <1>5. CASE ConnectNetwork
    BY <1>5 DEF ConnectNetwork
  <1>6. CASE SwitchOnTv
    BY <1>6 DEF SwitchOnTv
  <1>7. CASE Reconfigure
    BY <1>7 DEF Reconfigure
  <1>8. ASSUME NEW h \in Hooks, StartHook(h)
        PROVE  RailInv'
    BY <1>8 DEF StartHook
  <1> QED
    BY <1>1, <1>2, <1>3, <1>4, <1>5, <1>6, <1>7, <1>8 DEF Machine

\* The invariant is inductive.
LEMMA NextRailInv == RailInv /\ [Next]_vars => RailInv'
  <1> SUFFICES ASSUME RailInv, [Next]_vars
               PROVE  RailInv'
    OBVIOUS
  <1>1. CASE Next
    BY <1>1, RailStep, HookStep, LifecycleStep, MachineStep, Zenon DEF Next
  <1>2. CASE UNCHANGED vars
    BY <1>2 DEF RailInv, ControlTypes, OwnerHoldsLock, AttemptIsOpen, vars, world, service,
                files
  <1> QED
    BY <1>1, <1>2

\* Every reachable state of the rail satisfies the inductive invariant.
THEOREM RailInvariance == Spec => []RailInv
  BY InitRailInv, NextRailInv, PTL DEF Spec

\* At most one process is inside the rail, whatever crashes and whenever the
\* machine sleeps.
THEOREM OneOwner == Spec => []RailHasOneOwner
  <1>1. RailInv => RailHasOneOwner
    BY DEF RailInv, OwnerHoldsLock, RailHasOneOwner
  <1> QED
    BY <1>1, RailInvariance, PTL

\* Once a cycle is completed no source attempts it again; a resume ends it.
THEOREM CompletedIsFinal == Spec => CompletedCycleIsFinal
  <1>1. ASSUME RailInv, Next, cycle = "Completed"
        PROVE  cycle' \in {"Completed", "None"}
    <2> USE <1>1 DEF RailInv, AttemptIsOpen, Runs
    <2>1. ASSUME NEW p \in Procs, Rail(p)
          PROVE  cycle' = "Completed"
      BY <2>1 DEF Rail, TryLock, Contended, BeginAttempt, QueryInput, PowerOff,
                  Settle, Unlock, Abort, files
    <2>2. ASSUME NEW h \in Hooks, Hook(h)
          PROVE  cycle' = "Completed"
      BY <2>2 DEF Hook, HandlePreDown, PollCycle, Relock, WaitExpires, files
    <2>3. CASE Lifecycle
      BY <2>3, Zenon DEF Lifecycle, SyncInhibitor, ProcessTimeout, ReceiveSignal,
                  StartResume, FinishRestore, Cleanup, ClearedCycle,
                  CrashService, RestartService, files
    <2>4. CASE Machine
      BY <2>4, Zenon DEF Machine, PrepareForSleep, TeardownNetwork, Sleep, Wake,
                  ConnectNetwork, SwitchOnTv, Reconfigure, StartHook, files
    <2> QED
      BY <2>1, <2>2, <2>3, <2>4 DEF Next
  <1>2. RailInv /\ [Next]_vars =>
            [cycle = "Completed" => cycle' \in {"Completed", "None"}]_vars
    BY <1>1
  <1> QED
    BY <1>2, RailInvariance, PTL DEF Spec, CompletedCycleIsFinal

\* A TV that was certainly turned off is off and marked, and whoever makes another
\* attempt meanwhile has seen the marker at its start.
PowerOffIsKept ==
    /\ marker \in BOOLEAN /\ owed \in BOOLEAN /\ network \in BOOLEAN /\ tv \in {"on", "off"}
    /\ was_set = [p \in Procs |-> was_set[p]]
    /\ owed => marker /\ tv = "off"
    /\ \A p \in Procs : owed /\ pc[p] \in {"query", "off_known", "off_fallback"} => was_set[p]

\* The attempts of the rail keep it: a TV that is off does not say that another
\* input is selected, and a failed fallback forgets only what it recorded itself.
LEMMA RailKeepsPowerOff ==
    ASSUME RailInv, PowerOffIsKept, NEW p \in Procs, Rail(p)
    PROVE  PowerOffIsKept'
  <1> USE DEF RailInv, ControlTypes, PowerOffIsKept, Runs, Set, world, files
  <1>1. CASE TryLock(p) \/ Contended(p) \/ Unlock(p) \/ Abort(p) \/ Settle(p)
    <2>1. /\ UNCHANGED <<marker, owed, network, tv, was_set>>
          /\ \A q \in Procs : pc'[q] \in {"query", "off_known", "off_fallback"} => pc'[q] = pc[q]
      BY SMTT(30), <1>1 DEF TryLock, Contended, Unlock, Abort, Settle, Return
    <2> QED
      BY SMTT(30), <2>1
  <1>2. CASE BeginAttempt(p)
    <2>1. /\ UNCHANGED <<marker, owed, network, tv>>
          /\ \/ pc'[p] = "release" /\ UNCHANGED was_set
             \/ was_set' = [was_set EXCEPT ![p] = marker]
          /\ \A q \in Procs : q # p => pc'[q] = pc[q]
      BY <1>2 DEF BeginAttempt
    <2> QED
      BY <2>1
  <1>3. CASE QueryInput(p)
    <2>1. PICK answer \in InputAnswers : marker' = (marker /\ answer # "mismatch")
      BY <1>3, Zenon DEF QueryInput
    <2>2. /\ UNCHANGED <<owed, network, tv, was_set>> /\ pc[p] = "query"
          /\ \A q \in Procs : q # p => pc'[q] = pc[q]
      BY <1>3 DEF QueryInput
    <2>3. owed => marker' = marker
      BY Zenon, <2>1, <2>2 DEF InputAnswers
    <2>4. marker' \in BOOLEAN
      BY <2>1
    <2> QED
      BY <2>2, <2>3, <2>4
  <1>4. CASE PowerOff(p)
    <2>1. /\ pc[p] \in {"off_known", "off_fallback"} /\ pc'[p] = "attempted"
          /\ UNCHANGED <<network, was_set>>
          /\ \A q \in Procs : q # p => pc'[q] = pc[q]
      BY <1>4 DEF PowerOff
    <2>2. \A q \in Procs : pc'[q] \notin {"query", "off_known", "off_fallback"}
      BY <2>1 DEF OwnerHoldsLock
    <2>3. \/ tv' = "off" /\ marker' = TRUE /\ owed' = TRUE
          \/ tv' \in {tv, "off"} /\ owed' = owed /\ marker' = MarkerAfterFailure(p)
      BY <1>4 DEF PowerOff
    <2>4. CASE tv' = "off" /\ marker' = TRUE /\ owed' = TRUE
      BY <2>1, <2>2, <2>4
    <2>5. CASE tv' \in {tv, "off"} /\ owed' = owed /\ marker' = MarkerAfterFailure(p)
      <3>1. marker' \in BOOLEAN /\ owed' \in BOOLEAN /\ tv' \in {"on", "off"}
        BY <2>5, Zenon DEF MarkerAfterFailure
      <3>2. owed => marker' /\ tv' = "off"
        BY <2>1, <2>5, Zenon DEF MarkerAfterFailure
      <3> QED
        BY <2>1, <2>2, <2>5, <3>1, <3>2, Zenon
    <2> QED
      BY Zenon, <2>3, <2>4, <2>5
  <1> QED
    BY SMTT(30), <1>1, <1>2, <1>3, <1>4 DEF Rail

\* Nobody else touches the marker, except the resume that deals with it.
LEMMA RestKeepsPowerOff ==
    ASSUME RailInv, PowerOffIsKept, Lifecycle \/ Machine \/ \E h \in Hooks : Hook(h)
    PROVE  PowerOffIsKept'
  <1> USE DEF RailInv, ControlTypes, PowerOffIsKept, Runs, Set, world, files
  <1>1. \A q \in Procs : pc'[q] \in {"query", "off_known", "off_fallback"} => pc'[q] = pc[q]
    <2>1. ASSUME NEW h \in Hooks, Hook(h) \/ StartHook(h)
          PROVE  \A q \in Procs : pc'[q] \in {"query", "off_known", "off_fallback"} => pc'[q] = pc[q]
      BY ZenonT(40), <2>1 DEF Hook, HandlePreDown, PollCycle, Relock, WaitExpires, StartHook
    <2>2. CASE Lifecycle
      <3>1. PICK label \in LoopPcs \cup {"enter"} : Set(Service, label)
        <4>1. CASE ReceiveSignal
          BY <4>1, Zenon DEF ReceiveSignal
        <4> QED
          BY <2>2, <4>1, Zenon DEF Lifecycle, SyncInhibitor, ProcessTimeout, StartResume,
                            FinishRestore, Cleanup, CrashService, RestartService
      <3> QED
        BY <3>1
    <2>3. CASE Machine
      BY Zenon, <2>1, <2>3 DEF Machine, PrepareForSleep, TeardownNetwork, Sleep, Wake, ConnectNetwork,
                        SwitchOnTv, Reconfigure
    <2> QED
      BY <2>1, <2>2, <2>3
  <1>2. was_set' = was_set /\ network' \in BOOLEAN
    BY Zenon DEF Lifecycle, SyncInhibitor, ProcessTimeout, ReceiveSignal, StartResume, FinishRestore,
           Cleanup, CrashService, RestartService, Machine, PrepareForSleep, TeardownNetwork, Sleep,
           Wake, ConnectNetwork, SwitchOnTv, Reconfigure, Hook, HandlePreDown, PollCycle, Relock,
           WaitExpires, StartHook
  <1>3. \/ UNCHANGED <<marker, owed, tv>>
        \/ tv' \in {"on", "off"} /\ marker' \in BOOLEAN /\ owed' = FALSE
        \/ marker' = marker /\ tv' \in {tv, "on"} /\ owed' = (owed /\ tv' = "off")
    BY Zenon DEF Lifecycle, SyncInhibitor, ProcessTimeout, ReceiveSignal, StartResume, FinishRestore,
           Cleanup, CrashService, RestartService, Machine, PrepareForSleep, TeardownNetwork, Sleep,
           Wake, ConnectNetwork, SwitchOnTv, Reconfigure, Hook, HandlePreDown, PollCycle, Relock,
           WaitExpires, StartHook
  <1>4. /\ marker' \in BOOLEAN /\ owed' \in BOOLEAN /\ tv' \in {"on", "off"}
        /\ owed' => owed /\ marker' /\ tv' = "off"
    <2>1. CASE UNCHANGED <<marker, owed, tv>>
      BY <2>1, Zenon
    <2>2. CASE tv' \in {"on", "off"} /\ marker' \in BOOLEAN /\ owed' = FALSE
      BY <2>2, Zenon
    <2>3. CASE marker' = marker /\ tv' \in {tv, "on"} /\ owed' = (owed /\ tv' = "off")
      BY <2>3, Zenon
    <2> QED
      BY <1>3, <2>1, <2>2, <2>3, Zenon
  <1> QED
    BY <1>1, <1>2, <1>4, Zenon

\* A TV that LG Buddy certainly turned off is remembered by the marker until the
\* resume has dealt with it, whoever dies and whoever attempts again.
THEOREM PowerOffIsRemembered == Spec => []ConfirmedOffIsRemembered
  <1>1. Init => PowerOffIsKept
    BY Zenon DEF Init, PowerOffIsKept
  <1>2. RailInv /\ PowerOffIsKept /\ [Next]_vars => PowerOffIsKept'
    <2>1. CASE UNCHANGED vars
      BY <2>1 DEF PowerOffIsKept, vars, world, files
    <2> QED
      BY <2>1, RailKeepsPowerOff, RestKeepsPowerOff DEF Next
  <1>3. PowerOffIsKept => ConfirmedOffIsRemembered
    BY Zenon DEF PowerOffIsKept, ConfirmedOffIsRemembered
  <1> QED
    BY <1>1, <1>2, <1>3, RailInvariance, PTL DEF Spec

-----------------------------------------------------------------------------
(***************************************************************************)
(* The suspend rail left in peace.  The service reads each signal before   *)
(* the machine goes on, the hooks run while the machine prepares, and what *)
(* the last suspend left behind is cleared before the next one begins.     *)
(***************************************************************************)
InRail     == OwnerPcs \cup {"enter", "contended"}
InLoop     == {"sync", "listen"}
InResume   == {"resume", "restoring", "cleanup"}
AllReturned == \A h \in Interfaces : pc[h] \in {"idle", "done", "gave_up"}

\* Settled; dealing with the resume; or about to read of it.
AwakeInPeace ==
    /\ machine = "awake" /\ AllReturned
    /\ \/ /\ signals = <<>> /\ ~waiting_for_resume /\ pc[Service] \in InLoop
          /\ cycle = "None" /\ ~marker
       \/ /\ signals = <<>> /\ ~waiting_for_resume /\ pc[Service] \in InResume
          /\ pc[Service] = "cleanup" => ~marker
       \/ /\ signals = <<FALSE>> /\ waiting_for_resume /\ ~inhibitor
          /\ pc[Service] \in InLoop

\* About to read of the suspend; in the rail; or done with it.
PreparingInPeace ==
    /\ machine = "preparing" /\ (network \/ AllReturned)
    /\ \/ signals = <<TRUE>> /\ inhibitor /\ pc[Service] \in InLoop
       \/ signals = <<>> /\ waiting_for_resume /\ inhibitor /\ pc[Service] \in InRail
       \/ signals = <<>> /\ waiting_for_resume /\ ~inhibitor /\ pc[Service] \in InLoop

AsleepInPeace ==
    /\ machine = "asleep" /\ AllReturned
    /\ signals = <<>> /\ waiting_for_resume /\ ~inhibitor /\ pc[Service] \in InLoop

\* Whatever speaks of a decision speaks of one for this suspend.
DecisionsAreCurrent ==
    /\ cycle # "None" => decided = suspends
    /\ \A p \in Orderly!Procs : pc[p] \in OwnerPcs \ {"owner"} => decided = suspends
    /\ \A h \in dispatched : pc[h] = "done" => decided = suspends

Peace ==
    /\ pc = [p \in Orderly!Procs |-> pc[p]] /\ policy = TRUE
    /\ dispatched \subseteq Interfaces
    /\ inhibitor \in BOOLEAN /\ waiting_for_resume \in BOOLEAN /\ network \in BOOLEAN
    /\ marker \in BOOLEAN
    /\ AwakeInPeace \/ PreparingInPeace \/ AsleepInPeace
    /\ DecisionsAreCurrent

OrderlyInv == component = "orderly" => Peace

USE PowerAssumption DEF InRail, InLoop, InResume, Orderly!Procs, Orderly!OwnerPcs

\* The queue of the signals with one signal in it.
LEMMA OneSignal ==
    ASSUME NEW b
    PROVE  Head(<<b>>) = b /\ Tail(<<b>>) = <<>> /\ Append(<<>>, b) = <<b>> /\ <<b>> # <<>>
  BY SMTT(30)

\* Who is in the rail, or waits beside it, is there while the machine prepares.
LEMMA BusyWhilePreparing ==
    ASSUME Peace
    PROVE  /\ \A h \in Interfaces : pc[h] \notin {"idle", "done", "gave_up"} =>
                                        machine = "preparing" /\ network
           /\ pc[Service] \in InRail => /\ machine = "preparing" /\ signals = <<>>
                                        /\ waiting_for_resume /\ inhibitor
  BY Zenon DEF Peace, AwakeInPeace, PreparingInPeace, AsleepInPeace, AllReturned

\* The state of one process changes while the machine prepares, with what it knows
\* of decisions.
LEMMA StepWhilePreparing ==
    ASSUME Peace, NEW p \in Orderly!Procs, NEW label,
           p \in Interfaces => pc[p] \notin {"idle", "done", "gave_up"},
           p = Service => pc[p] \in InRail,
           pc' = [pc EXCEPT ![p] = label],
           UNCHANGED <<machine, network, policy, dispatched, suspends>>,
           UNCHANGED <<signals, waiting_for_resume>>,
           \/ UNCHANGED inhibitor /\ (p = Service => label \in InRail)
           \/ p = Service /\ inhibitor' = FALSE /\ label = "sync",
           decided' \in {decided, suspends}, marker' \in BOOLEAN,
           cycle' = cycle \/ decided' = suspends,
           label \in (OwnerPcs \ {"owner"}) \cup {"done"} => decided' = suspends
    PROVE  Peace'
  <1>1. /\ machine = "preparing"
        /\ p \in Interfaces => network
    BY BusyWhilePreparing
  <1>2. /\ pc' = [q \in Orderly!Procs |-> pc'[q]] /\ pc'[p] = label
        /\ \A q \in Orderly!Procs : q # p => pc'[q] = pc[q]
    BY DEF Peace
  <1>3. PreparingInPeace'
    <2>1. PreparingInPeace
      BY <1>1 DEF Peace, AwakeInPeace, AsleepInPeace
    <2>2. CASE p = Service
      BY Zenon, <1>2, <2>1, <2>2, BusyWhilePreparing DEF PreparingInPeace, AllReturned, Peace
    <2>3. CASE p # Service
      <3>1. /\ pc'[Service] = pc[Service] /\ machine' = "preparing" /\ network'
            /\ inhibitor' = inhibitor /\ signals' = signals
            /\ waiting_for_resume' = waiting_for_resume
        BY <1>1, <1>2, <2>3
      <3>2. \/ signals = <<TRUE>> /\ inhibitor = TRUE /\ pc[Service] \in InLoop
            \/ /\ signals = <<>> /\ waiting_for_resume = TRUE /\ inhibitor = TRUE
               /\ pc[Service] \in InRail
            \/ /\ signals = <<>> /\ waiting_for_resume = TRUE /\ inhibitor = FALSE
               /\ pc[Service] \in InLoop
        BY <2>1, Zenon DEF PreparingInPeace, Peace
      <3>3. \/ signals' = <<TRUE>> /\ inhibitor' /\ pc'[Service] \in InLoop
            \/ signals' = <<>> /\ waiting_for_resume' /\ inhibitor' /\ pc'[Service] \in InRail
            \/ signals' = <<>> /\ waiting_for_resume' /\ ~inhibitor' /\ pc'[Service] \in InLoop
        <4>1. CASE signals = <<TRUE>> /\ inhibitor = TRUE /\ pc[Service] \in InLoop
          BY <3>1, <4>1
        <4>2. CASE /\ signals = <<>> /\ waiting_for_resume = TRUE /\ inhibitor = TRUE
                   /\ pc[Service] \in InRail
          BY <3>1, <4>2
        <4>3. CASE /\ signals = <<>> /\ waiting_for_resume = TRUE /\ inhibitor = FALSE
                   /\ pc[Service] \in InLoop
          BY <3>1, <4>3
        <4> QED
          BY <3>2, <4>1, <4>2, <4>3, Zenon
      <3> QED
        BY Zenon, <3>1, <3>3 DEF PreparingInPeace
    <2> QED
      BY <2>2, <2>3
  <1>4. DecisionsAreCurrent'
    BY SMTT(30), <1>2 DEF Peace, DecisionsAreCurrent
  <1> QED
    BY Zenon, <1>2, <1>3, <1>4 DEF Peace

\* A step of the rail.
LEMMA RailInPeace ==
    ASSUME Peace, NEW p \in Orderly!Procs, Orderly!Rail(p)
    PROVE  Peace'
  <1> USE DEF Orderly!Runs, Orderly!Set, Orderly!world, Orderly!service, Orderly!files
  <1>1. CASE Orderly!TryLock(p)
    BY Zenon, <1>1, StepWhilePreparing DEF Orderly!TryLock, Peace
  <1>2. CASE Orderly!Contended(p)
    BY Zenon, <1>2, StepWhilePreparing DEF Orderly!Contended, Orderly!Return, Peace, DecisionsAreCurrent
  <1>3. CASE Orderly!BeginAttempt(p)
    BY Zenon, <1>3, StepWhilePreparing DEF Orderly!BeginAttempt, Peace, DecisionsAreCurrent
  <1>4. CASE Orderly!QueryInput(p)
    <2>1. PICK label \in {"off_known", "off_fallback", "decided"} : pc' = [pc EXCEPT ![p] = label]
      BY <1>4, Zenon DEF Orderly!QueryInput
    <2>2. /\ pc[p] = "query" /\ decided' = decided /\ cycle' = cycle
          /\ UNCHANGED <<machine, network, policy, dispatched, suspends, signals, inhibitor,
                         waiting_for_resume>>
      BY <1>4 DEF Orderly!QueryInput
    <2>3. marker' \in BOOLEAN
      BY <1>4, Zenon DEF Orderly!QueryInput
    <2>4. decided = suspends
      BY <2>2 DEF Peace, DecisionsAreCurrent
    <2> QED
      BY Zenon, <2>1, <2>2, <2>3, <2>4, StepWhilePreparing
  <1>5. CASE Orderly!PowerOff(p)
    <2>1. /\ pc[p] \in {"off_known", "off_fallback"} /\ decided' = decided /\ cycle' = cycle
          /\ pc' = [pc EXCEPT ![p] = "attempted"]
          /\ UNCHANGED <<machine, network, policy, dispatched, suspends, signals, inhibitor,
                         waiting_for_resume>>
      BY Zenon, <1>5 DEF Orderly!PowerOff
    <2>2. marker' \in BOOLEAN
      BY <1>5, Zenon DEF Orderly!PowerOff, Orderly!MarkerAfterFailure, Peace
    <2>3. decided = suspends
      BY <2>1 DEF Peace, DecisionsAreCurrent
    <2> QED
      BY Zenon, <2>1, <2>2, <2>3, StepWhilePreparing
  <1>6. CASE Orderly!Settle(p)
    <2>1. decided = suspends
      BY <1>6 DEF Orderly!Settle, Peace, DecisionsAreCurrent
    <2> QED
      BY Zenon, <1>6, <2>1, StepWhilePreparing DEF Orderly!Settle, Peace
  <1>7. CASE Orderly!Unlock(p)
    <2>1. decided = suspends
      BY <1>7 DEF Orderly!Unlock, Peace, DecisionsAreCurrent
    <2> QED
      BY Zenon, <1>7, <2>1, StepWhilePreparing DEF Orderly!Unlock, Orderly!Return, Peace
  <1> QED
    BY <1>1, <1>2, <1>3, <1>4, <1>5, <1>6, <1>7 DEF Orderly!Rail, Orderly!Abort

\* A step of a hook outside the rail.
LEMMA HookInPeace ==
    ASSUME Peace, NEW h \in Interfaces, Orderly!Hook(h)
    PROVE  Peace'
  <1> USE DEF Orderly!Runs, Orderly!Set, Orderly!world, Orderly!service, Orderly!files
  <1>1. CASE Orderly!HandlePreDown(h)
    BY Zenon, <1>1, StepWhilePreparing DEF Orderly!HandlePreDown, Peace
  <1>2. CASE Orderly!PollCycle(h)
    BY Zenon, <1>2, StepWhilePreparing DEF Orderly!PollCycle, Peace, DecisionsAreCurrent
  <1>3. CASE Orderly!Relock(h)
    BY Zenon, <1>3, StepWhilePreparing DEF Orderly!Relock, Peace
  <1>4. CASE Orderly!WaitExpires(h)
    BY Zenon, <1>4, StepWhilePreparing DEF Orderly!WaitExpires, Peace
  <1> QED
    BY <1>1, <1>2, <1>3, <1>4 DEF Orderly!Hook

\* A step of the service's loop moves nobody else.
LEMMA LoopMoves ==
    ASSUME Peace, NEW label, pc' = [pc EXCEPT ![Service] = label],
           UNCHANGED <<machine, network, policy, dispatched, suspends, decided>>,
           label \notin OwnerPcs, cycle' \in {cycle, "None"}
    PROVE  /\ pc' = [q \in Orderly!Procs |-> pc'[q]] /\ pc'[Service] = label
           /\ AllReturned => AllReturned'
           /\ DecisionsAreCurrent'
  <1>1. /\ pc' = [q \in Orderly!Procs |-> pc'[q]] /\ pc'[Service] = label
        /\ \A h \in Interfaces : pc'[h] = pc[h]
    BY DEF Peace
  <1> QED
    BY <1>1 DEF Peace, DecisionsAreCurrent, AllReturned

\* A step of the service outside the rail.
LEMMA LifecycleInPeace ==
    ASSUME Peace, Orderly!Lifecycle
    PROVE  Peace'
  <1> USE DEF Orderly!Runs, Orderly!Set, Orderly!world, Orderly!service, Orderly!files, Peace,
              AwakeInPeace, PreparingInPeace, AsleepInPeace
  <1>1. CASE Orderly!SyncInhibitor
    <2>1. /\ pc[Service] = "sync" /\ pc' = [pc EXCEPT ![Service] = "listen"]
          /\ inhibitor' = (inhibitor \/ ~waiting_for_resume)
          /\ UNCHANGED <<machine, network, policy, dispatched, suspends, decided, cycle, marker,
                         signals, waiting_for_resume>>
      BY Zenon, <1>1 DEF Orderly!SyncInhibitor
    <2> QED
      BY Zenon, <2>1, LoopMoves
  <1>2. CASE Orderly!ProcessTimeout
    BY Zenon, <1>2, LoopMoves DEF Orderly!ProcessTimeout
  <1>3. CASE Orderly!ReceiveSignal
    <2>1. /\ pc[Service] = "listen" /\ signals # <<>> /\ signals' = Tail(signals)
          /\ waiting_for_resume' = Head(signals) /\ UNCHANGED inhibitor
          /\ pc' = [pc EXCEPT ![Service] = IF Head(signals) THEN "enter" ELSE "resume"]
          /\ UNCHANGED <<machine, network, policy, dispatched, suspends, decided, cycle, marker>>
      BY Zenon, <1>3 DEF Orderly!ReceiveSignal
    <2>2. CASE signals = <<TRUE>>
      <3>1. /\ waiting_for_resume' = TRUE /\ signals' = <<>>
            /\ pc' = [pc EXCEPT ![Service] = "enter"]
        BY <2>1, <2>2, OneSignal, Zenon
      <3>2. machine = "preparing" /\ inhibitor /\ (network \/ AllReturned)
        BY <2>2, OneSignal
      <3>3. /\ pc' = [q \in Orderly!Procs |-> pc'[q]] /\ pc'[Service] = "enter"
            /\ \A h \in Interfaces : pc'[h] = pc[h]
        BY Zenon, <3>1
      <3> QED
        BY ZenonT(40), <2>1, <3>1, <3>2, <3>3 DEF DecisionsAreCurrent, AllReturned
    <2>3. CASE signals = <<FALSE>>
      <3>1. /\ waiting_for_resume' = FALSE /\ signals' = <<>>
            /\ pc' = [pc EXCEPT ![Service] = "resume"]
        BY <2>1, <2>3, OneSignal, Zenon
      <3>2. machine = "awake" /\ AllReturned
        BY <2>3, OneSignal
      <3>3. /\ pc' = [q \in Orderly!Procs |-> pc'[q]] /\ pc'[Service] = "resume"
            /\ \A h \in Interfaces : pc'[h] = pc[h]
        BY Zenon, <3>1
      <3> QED
        BY Zenon, <2>1, <3>1, <3>2, <3>3 DEF DecisionsAreCurrent, AllReturned
    <2> QED
      BY Zenon, <2>1, <2>2, <2>3
  <1>4. CASE Orderly!StartResume
    <2>1. /\ pc[Service] = "resume"
          /\ UNCHANGED <<machine, network, policy, dispatched, suspends, decided, cycle,
                         signals, inhibitor, waiting_for_resume>>
      BY <1>4 DEF Orderly!StartResume
    <2>2. \/ marker' = FALSE /\ pc' = [pc EXCEPT ![Service] = "cleanup"]
          \/ marker' = marker /\ ~marker /\ pc' = [pc EXCEPT ![Service] = "cleanup"]
          \/ marker' = marker /\ pc' = [pc EXCEPT ![Service] = "restoring"]
      BY Zenon, <1>4 DEF Orderly!StartResume
    <2>3. machine = "awake" /\ AllReturned /\ signals = <<>> /\ ~waiting_for_resume
      BY <2>1
    <2>4. PICK label \in {"cleanup", "restoring"} :
              /\ pc' = [pc EXCEPT ![Service] = label]
              /\ marker' \in BOOLEAN /\ (label = "cleanup" => ~marker')
      <3>1. CASE pc' = [pc EXCEPT ![Service] = "cleanup"] /\ marker' = FALSE
        BY <3>1, Zenon
      <3>2. CASE pc' = [pc EXCEPT ![Service] = "cleanup"] /\ marker' = marker /\ ~marker
        BY <3>2, Zenon
      <3>3. CASE marker' = marker /\ pc' = [pc EXCEPT ![Service] = "restoring"]
        BY <3>3
      <3> QED
        BY <2>2, <3>1, <3>2, <3>3, Zenon
    <2>5. /\ pc' = [q \in Orderly!Procs |-> pc'[q]] /\ pc'[Service] = label
          /\ AllReturned' /\ DecisionsAreCurrent'
      BY Zenon, <2>1, <2>3, <2>4, LoopMoves
    <2> QED
      BY <2>1, <2>3, <2>4, <2>5
  <1>5. CASE Orderly!FinishRestore
    BY Zenon, <1>5, LoopMoves DEF Orderly!FinishRestore
  <1>6. CASE Orderly!Cleanup
    BY Zenon, <1>6, LoopMoves DEF Orderly!Cleanup, Orderly!ClearedCycle
  <1>7. CASE Orderly!RestartService
    BY <1>7 DEF Orderly!RestartService
  <1> QED
    BY Zenon, <1>1, <1>2, <1>3, <1>4, <1>5, <1>6, <1>7 DEF Orderly!Lifecycle, Orderly!CrashService

\* A step of the machine.
LEMMA MachineInPeace ==
    ASSUME Peace, Orderly!Machine
    PROVE  Peace'
  <1> USE DEF Orderly!Runs, Orderly!Set, Orderly!world, Orderly!service, Orderly!files,
              Orderly!HookReturned, Orderly!Deliver, Peace, AwakeInPeace, PreparingInPeace,
              AsleepInPeace, AllReturned
  <1>1. CASE Orderly!PrepareForSleep
    <2>1. /\ machine = "awake" /\ pc[Service] = "listen" /\ signals = <<>> /\ inhibitor = policy
          /\ AllReturned /\ signals' = Append(signals, TRUE) /\ machine' = "preparing"
          /\ suspends' = suspends + 1 /\ dispatched' = {}
          /\ UNCHANGED <<network, policy, inhibitor, waiting_for_resume, pc, cycle, marker, decided>>
      BY <1>1 DEF Orderly!PrepareForSleep
    <2>2. signals' = <<TRUE>> /\ inhibitor
      BY <2>1, OneSignal, Zenon
    <2>3. cycle = "None" /\ AllReturned'
      BY <2>1, OneSignal
    <2>4. \A p \in Orderly!Procs : pc'[p] \notin OwnerPcs
      BY <2>1
    <2> QED
      BY <2>1, <2>2, <2>3, <2>4 DEF DecisionsAreCurrent
  <1>2. CASE Orderly!TeardownNetwork
    BY Zenon, <1>2 DEF Orderly!TeardownNetwork, DecisionsAreCurrent
  <1>3. CASE Orderly!Sleep
    BY Zenon, <1>3 DEF Orderly!Sleep, DecisionsAreCurrent
  <1>4. CASE Orderly!Wake
    <2>1. /\ machine = "asleep" /\ signals = <<>> /\ pc[Service] \in InLoop
          /\ signals' = Append(signals, FALSE) /\ machine' = "awake"
          /\ UNCHANGED <<network, policy, dispatched, suspends, inhibitor, waiting_for_resume, pc,
                         cycle, marker, decided>>
      BY Zenon, <1>4 DEF Orderly!Wake
    <2>2. signals' = <<FALSE>>
      BY <2>1, OneSignal, Zenon
    <2> QED
      BY Zenon, <2>1, <2>2 DEF DecisionsAreCurrent
  <1>5. CASE Orderly!ConnectNetwork
    BY Zenon, <1>5 DEF Orderly!ConnectNetwork, DecisionsAreCurrent
  <1>6. CASE Orderly!SwitchOnTv
    BY Zenon, <1>6 DEF Orderly!SwitchOnTv, DecisionsAreCurrent
  <1>7. ASSUME NEW h \in Interfaces, Orderly!StartHook(h)
        PROVE  Peace'
    BY Zenon, <1>7 DEF Orderly!StartHook, DecisionsAreCurrent
  <1> QED
    BY ZenonT(40), <1>1, <1>2, <1>3, <1>4, <1>5, <1>6, <1>7 DEF Orderly!Machine, Orderly!Reconfigure

\* Every state of the rail left in peace satisfies the inductive invariant.
THEOREM PeaceIsKept == PowerSpec => []OrderlyInv
  <1>1. PowerInit => OrderlyInv
    BY Zenon DEF PowerInit, OrderlyInv, Orderly!Init, Peace, AwakeInPeace, AllReturned,
           DecisionsAreCurrent
  <1>2. OrderlyInv /\ [PowerNext]_all_vars => OrderlyInv'
    <2> SUFFICES ASSUME OrderlyInv, [PowerNext]_all_vars, component' = "orderly"
                 PROVE  Peace'
      BY DEF OrderlyInv
    <2>1. Peace /\ (Orderly!Next \/ UNCHANGED vars)
      BY DEF OrderlyInv, PowerNext, all_vars, rail_vars
    <2>2. CASE UNCHANGED vars
      BY Zenon, <2>1, <2>2 DEF Peace, AwakeInPeace, PreparingInPeace, AsleepInPeace, AllReturned,
                        DecisionsAreCurrent, vars, world, service, files
    <2> QED
      BY <2>1, <2>2, RailInPeace, HookInPeace, LifecycleInPeace, MachineInPeace DEF Orderly!Next
  <1> QED
    BY <1>1, <1>2, PTL DEF PowerSpec, PowerSafety

\* In peace no hook lets the network go down before a decision was made for this
\* very suspend.
THEOREM TeardownIsOrderly == PowerSpec => []OrderlyTeardown
  <1>1. OrderlyInv => OrderlyTeardown
    BY DEF OrderlyInv, Peace, DecisionsAreCurrent, OrderlyTeardown, Orderly!TeardownAfterDecision
  <1> QED
    BY <1>1, PeaceIsKept, PTL

\* In peace nothing of the sleep cycle is left once the service has read the resume
\* signal and is back in its loop.
THEOREM ResumeClears ==
    PowerSpec => [](component = "orderly" => Orderly!CoordinationClearedAfterResume)
  <1>1. OrderlyInv => (component = "orderly" => Orderly!CoordinationClearedAfterResume)
    BY DEF OrderlyInv, Peace, AwakeInPeace, PreparingInPeace, AsleepInPeace,
           Orderly!CoordinationClearedAfterResume
  <1> QED
    BY <1>1, PeaceIsKept, PTL
-----------------------------------------------------------------------------
(***************************************************************************)
(* The screen actions of the session, alone and under the session monitor. *)
(***************************************************************************)
HasTypes ==
    /\ step = [p \in {"monitor"} |-> step[p]] /\ action = [p \in {"monitor"} |-> action[p]]
    /\ blank_succeeded = [p \in {"monitor"} |-> blank_succeeded[p]]
    /\ action["monitor"] \in {"off", "timed", "on"} /\ blank_succeeded["monitor"] \in BOOLEAN
    /\ power \in {"on", "off"} /\ input \in {"ours", "other"}
    /\ held \in BOOLEAN /\ sc_marker \in BOOLEAN /\ system_marker \in BOOLEAN

\* What an action has found out before it comes to a step: only screen off blanks,
\* and what powers off without being screen off has found the marker; a restore that
\* is about to clear the marker has lit the TV; a dark TV shows our input.
Guarded ==
    /\ step["monitor"] = "blank" => action["monitor"] = "off"
    /\ step["monitor"] \in {"query", "power_off"} => action["monitor"] = "off" \/ sc_marker
    /\ step["monitor"] = "clear" => ~held
    /\ held => input = "ours"

Remembered == held => sc_marker \/ step["monitor"] = "mark"

Defers ==
    "monitor" \in deferring =>
        system_marker /\ step["monitor"] \in {"idle", "phase", "lifecycle"}

ScreenInv == component = "screen" => HasTypes /\ Guarded /\ Remembered /\ Defers

\* The monitor carries out what the engine has decided, and the engine has decided
\* to power off only what nobody has used.
Coupled ==
    /\ step["monitor"] # "idle" =>
          \/ action["monitor"] = "off" /\ phase = "BlankRequested"
          \/ action["monitor"] = "timed" /\ phase = "TimedPowerOffAttempted"
          \/ action["monitor"] = "on" /\ phase = "Active"
    /\ phase \in {"Blanked", "TimedPowerOffAttempted"} => ~used
    /\ used \in BOOLEAN /\ abandoned \in BOOLEAN

\* A TV that is dark by our doing: the engine waits for activity, or the restore is
\* under way; and the marker says so.
Watched ==
    held => /\ \/ phase \in Faulty!Engine!Inactive
               \/ action["monitor"] = "on" /\ step["monitor"] # "idle"
               \/ abandoned
            /\ sc_marker \/ step["monitor"] = "mark" \/ abandoned

MonitorInv == component = "monitor" => HasTypes /\ Guarded /\ Coupled /\ Watched
\* A step of an action.
LEMMA WorkKeepsScreen ==
    ASSUME HasTypes, Guarded, Remembered, Defers, Solo!Work("monitor")
    PROVE  HasTypes' /\ Guarded' /\ Remembered' /\ Defers'
  <1> USE DEF Solo!At, Solo!Goto, Solo!Finish, Solo!tv, Solo!system
  <1>1. CASE Solo!CheckPhase("monitor")
    BY <1>1 DEF Solo!CheckPhase, HasTypes, Guarded, Remembered, Defers
  <1>2. CASE Solo!CheckRestorePending("monitor")
    BY Zenon, <1>2 DEF Solo!CheckRestorePending, HasTypes, Guarded, Remembered, Defers
  <1>3. CASE Solo!CheckOwnership("monitor")
    <2>1. HasTypes'
      BY Zenon, <1>3 DEF Solo!CheckOwnership, HasTypes
    <2>2. Guarded'
      BY <1>3 DEF Solo!CheckOwnership, HasTypes, Guarded
    <2>3. Remembered'
      BY <1>3 DEF Solo!CheckOwnership, HasTypes, Guarded, Remembered
    <2>4. Defers'
      BY <1>3 DEF Solo!CheckOwnership, HasTypes, Defers
    <2> QED
      BY <2>1, <2>2, <2>3, <2>4
  <1>4. CASE Solo!QueryInput("monitor")
    <2>1. HasTypes'
      BY Zenon, <1>4 DEF Solo!QueryInput, HasTypes
    <2>2. Guarded'
      BY SMTT(30), <1>4 DEF Solo!QueryInput, HasTypes, Guarded
    <2>3. Remembered'
      BY SMTT(30), <1>4 DEF Solo!QueryInput, HasTypes, Guarded, Remembered
    <2>4. Defers'
      BY <1>4 DEF Solo!QueryInput, HasTypes, Defers
    <2> QED
      BY <2>1, <2>2, <2>3, <2>4
  <1>5. CASE Solo!BlankScreen("monitor")
    <2>1. HasTypes'
      BY Zenon, <1>5 DEF Solo!BlankScreen, HasTypes
    <2>2. Guarded'
      BY SMTT(30), <1>5 DEF Solo!BlankScreen, HasTypes, Guarded
    <2>3. Remembered'
      BY Zenon, <1>5 DEF Solo!BlankScreen, HasTypes, Guarded, Remembered
    <2>4. Defers'
      BY <1>5 DEF Solo!BlankScreen, HasTypes, Defers
    <2> QED
      BY <2>1, <2>2, <2>3, <2>4
  <1>6. CASE Solo!PowerOff("monitor")
    <2>1. HasTypes'
      BY Zenon, <1>6 DEF Solo!PowerOff, Solo!AfterPowerOff, HasTypes
    <2>2. Guarded'
      BY SMTT(30), <1>6 DEF Solo!PowerOff, Solo!AfterPowerOff, HasTypes, Guarded
    <2>3. Remembered'
      BY Zenon, <1>6 DEF Solo!PowerOff, Solo!AfterPowerOff, HasTypes, Guarded, Remembered
    <2>4. Defers'
      BY <1>6 DEF Solo!PowerOff, Solo!AfterPowerOff, HasTypes, Defers
    <2> QED
      BY <2>1, <2>2, <2>3, <2>4
  <1>7. CASE Solo!CreateMarker("monitor")
    BY Zenon, <1>7 DEF Solo!CreateMarker, HasTypes, Guarded, Remembered, Defers
  <1>8. CASE Solo!Unblank("monitor")
    <2>1. HasTypes'
      BY Zenon, <1>8 DEF Solo!Unblank, Solo!LightUp, HasTypes
    <2>2. Guarded'
      BY SMTT(30), <1>8 DEF Solo!Unblank, Solo!LightUp, HasTypes, Guarded
    <2>3. Remembered'
      BY Zenon, <1>8 DEF Solo!Unblank, Solo!LightUp, HasTypes, Guarded, Remembered
    <2>4. Defers'
      BY <1>8 DEF Solo!Unblank, Solo!LightUp, HasTypes, Defers
    <2> QED
      BY <2>1, <2>2, <2>3, <2>4
  <1>9. CASE Solo!SendWakePacket("monitor")
    <2>1. HasTypes'
      BY Zenon, <1>9 DEF Solo!SendWakePacket, Solo!LightUp, HasTypes
    <2>2. Guarded'
      BY SMTT(30), <1>9 DEF Solo!SendWakePacket, Solo!LightUp, HasTypes, Guarded
    <2>3. Remembered'
      BY Zenon, <1>9 DEF Solo!SendWakePacket, Solo!LightUp, HasTypes, Guarded, Remembered
    <2>4. Defers'
      BY <1>9 DEF Solo!SendWakePacket, Solo!LightUp, HasTypes, Defers
    <2> QED
      BY <2>1, <2>2, <2>3, <2>4
  <1>10. CASE Solo!RestoreInput("monitor")
    <2>1. HasTypes'
      BY Zenon, <1>10 DEF Solo!RestoreInput, Solo!LightUp, HasTypes
    <2>2. Guarded'
      BY SMTT(30), <1>10 DEF Solo!RestoreInput, Solo!LightUp, HasTypes, Guarded
    <2>3. Remembered'
      BY Zenon, <1>10 DEF Solo!RestoreInput, Solo!LightUp, HasTypes, Guarded, Remembered
    <2>4. Defers'
      BY <1>10 DEF Solo!RestoreInput, Solo!LightUp, HasTypes, Defers
    <2> QED
      BY <2>1, <2>2, <2>3, <2>4
  <1>11. CASE Solo!ClearMarker("monitor")
    BY Zenon, <1>11 DEF Solo!ClearMarker, HasTypes, Guarded, Remembered, Defers
  <1> QED
    BY <1>1, <1>2, <1>3, <1>4, <1>5, <1>6, <1>7, <1>8, <1>9, <1>10, <1>11 DEF Solo!Work

\* An action begins.
LEMMA StartKeepsScreen ==
    ASSUME HasTypes, Guarded, Remembered, Defers, NEW a \in Solo!Actions, Solo!Start("monitor", a)
    PROVE  HasTypes' /\ Guarded' /\ Remembered' /\ Defers'
  <1> USE DEF Solo!Start, Solo!At, Solo!Goto, Solo!Finish, Solo!tv, Solo!system, Solo!Actions, HasTypes
  <1>1. HasTypes'
    BY Zenon
  <1>2. Guarded' /\ Remembered' /\ Defers'
    BY DEF Guarded, Remembered, Defers
  <1> QED
    BY <1>1, <1>2

\* A step of the system, or of somebody with the remote control.
LEMMA WorldKeepsScreen ==
    ASSUME HasTypes, Guarded, Remembered, Defers, Solo!World
    PROVE  HasTypes' /\ Guarded' /\ Remembered' /\ Defers'
  <1> USE DEF Solo!tv, Solo!session, Solo!system
  <1>1. CASE Solo!PrepareForSleep
    BY <1>1 DEF Solo!PrepareForSleep, HasTypes, Guarded, Remembered, Defers
  <1>2. CASE Solo!SystemPowerOff
    BY Zenon, <1>2 DEF Solo!SystemPowerOff, HasTypes, Guarded, Remembered, Defers
  <1>3. CASE Solo!Sleep
    BY <1>3 DEF Solo!Sleep, HasTypes, Guarded, Remembered, Defers
  <1>4. CASE Solo!Resume
    BY <1>4 DEF Solo!Resume, HasTypes, Guarded, Remembered, Defers
  <1>5. CASE Solo!SystemRestore
    <2>1. HasTypes'
      BY Zenon, <1>5 DEF Solo!SystemRestore, Solo!LightUp, HasTypes
    <2>2. Guarded'
      BY SMTT(30), <1>5 DEF Solo!SystemRestore, Solo!LightUp, HasTypes, Guarded
    <2>3. Remembered'
      BY Zenon, <1>5 DEF Solo!SystemRestore, Solo!LightUp, HasTypes, Guarded, Remembered
    <2>4. Defers'
      BY <1>5 DEF Solo!SystemRestore, Solo!LightUp, HasTypes, Defers
    <2> QED
      BY <2>1, <2>2, <2>3, <2>4
  <1>6. CASE Solo!Remote
    BY Zenon, <1>6 DEF Solo!Remote, Solo!LightUp, HasTypes, Guarded, Remembered, Defers
  <1> QED
    BY <1>1, <1>2, <1>3, <1>4, <1>5, <1>6 DEF Solo!World

\* Every state of the screen actions satisfies the inductive invariant.
THEOREM ScreenInvariance == PowerSpec => []ScreenInv
  <1>1. PowerInit => ScreenInv
    BY Zenon DEF PowerInit, Faulty!Init, Faulty!Tv!Init, Faulty!Tv!Procs, ScreenInv, HasTypes, Guarded,
           Remembered, Defers
  <1>2. ScreenInv /\ [PowerNext]_all_vars => ScreenInv'
    <2> SUFFICES ASSUME ScreenInv, [PowerNext]_all_vars, component' = "screen"
                 PROVE  HasTypes' /\ Guarded' /\ Remembered' /\ Defers'
      BY DEF ScreenInv
    <2>1. /\ HasTypes /\ Guarded /\ Remembered /\ Defers
          /\ Solo!Next \/ UNCHANGED sc_vars
      BY DEF ScreenInv, PowerNext, all_vars
    <2>2. CASE UNCHANGED sc_vars
      BY <2>1, <2>2 DEF sc_vars, HasTypes, Guarded, Remembered, Defers
    <2>3. CASE Solo!Next
      <3>1. CASE Solo!World
        BY <2>1, <3>1, WorldKeepsScreen
      <3>2. CASE Solo!Work("monitor")
        BY <2>1, <3>2, WorkKeepsScreen
      <3>3. ASSUME NEW a \in Solo!Actions, Solo!Start("monitor", a)
            PROVE  HasTypes' /\ Guarded' /\ Remembered' /\ Defers'
        BY <2>1, <3>3, StartKeepsScreen
      <3> QED
        BY SMTT(30), <2>3, <3>1, <3>2, <3>3 DEF Solo!Next, Solo!Procs, Solo!ActionsOf
    <2> QED
      BY <2>1, <2>2, <2>3
  <1> QED
    BY <1>1, <1>2, PTL DEF PowerSpec, PowerSafety

\* A TV that a screen action certainly made dark is remembered by the session marker,
\* or the marker is about to be written.
THEOREM DarknessRemembered == PowerSpec => []DarknessIsRemembered
  <1>1. ScreenInv => DarknessIsRemembered
    BY DEF ScreenInv, Remembered, DarknessIsRemembered, Solo!DarknessIsRemembered, Solo!Procs
  <1> QED
    BY <1>1, ScreenInvariance, PTL

\* An action that begins while the system restore is pending does not talk to the TV
\* before that restore is over.
THEOREM SessionDefers == PowerSpec => []SessionDefersToSystem
  <1>1. ScreenInv => SessionDefersToSystem
    BY DEF ScreenInv, Defers, SessionDefersToSystem, Solo!SessionDefersToSystem, Solo!IoSteps
  <1> QED
    BY <1>1, ScreenInvariance, PTL

-----------------------------------------------------------------------------
\* A step of an action that the monitor runs.
LEMMA ActKeepsMonitor ==
    ASSUME HasTypes, Guarded, Coupled, Watched, Faulty!Act
    PROVE  HasTypes' /\ Guarded' /\ Coupled' /\ Watched'
  <1> USE DEF Faulty!Act, Faulty!RestoreEnded, Faulty!MarkerFailed, Faulty!engine, Faulty!Tv!At,
              Faulty!Tv!Goto, Faulty!Tv!Finish, Faulty!Tv!tv, Faulty!Tv!system,
              Faulty!Engine!Inactive
  <1>1. CASE Faulty!Tv!CheckPhase("monitor")
    BY SMTT(30), <1>1 DEF Faulty!Tv!CheckPhase, HasTypes, Guarded, Coupled, Watched
  <1>2. CASE Faulty!Tv!CheckRestorePending("monitor")
    BY Zenon, <1>2 DEF Faulty!Tv!CheckRestorePending, HasTypes, Guarded, Coupled, Watched
  <1>3. CASE Faulty!Tv!CheckOwnership("monitor")
    BY ZenonT(40), <1>3 DEF Faulty!Tv!CheckOwnership, HasTypes, Guarded, Coupled, Watched
  <1>4. CASE Faulty!Tv!QueryInput("monitor")
    <2>1. HasTypes'
      BY Zenon, <1>4 DEF Faulty!Tv!QueryInput, HasTypes
    <2>2. Guarded'
      BY SMTT(30), <1>4 DEF Faulty!Tv!QueryInput, HasTypes, Guarded
    <2>3. Coupled'
      BY <1>4 DEF Faulty!Tv!QueryInput, HasTypes, Coupled
    <2>4. Watched'
      BY SMTT(30), <1>4 DEF Faulty!Tv!QueryInput, HasTypes, Guarded, Coupled, Watched
    <2> QED
      BY SMTT(30), <2>1, <2>2, <2>3, <2>4
  <1>5. CASE Faulty!Tv!BlankScreen("monitor")
    <2>1. HasTypes'
      BY Zenon, <1>5 DEF Faulty!Tv!BlankScreen, HasTypes
    <2>2. Guarded'
      BY SMTT(30), <1>5 DEF Faulty!Tv!BlankScreen, HasTypes, Guarded
    <2>3. Coupled'
      BY <1>5 DEF Faulty!Tv!BlankScreen, HasTypes, Coupled
    <2>4. Watched'
      BY Zenon, <1>5 DEF Faulty!Tv!BlankScreen, HasTypes, Guarded, Coupled, Watched
    <2> QED
      BY <2>1, <2>2, <2>3, <2>4
  <1>6. CASE Faulty!Tv!PowerOff("monitor")
    <2>1. HasTypes'
      BY Zenon, <1>6 DEF Faulty!Tv!PowerOff, Faulty!Tv!AfterPowerOff, HasTypes
    <2>2. Guarded'
      BY SMTT(30), <1>6 DEF Faulty!Tv!PowerOff, Faulty!Tv!AfterPowerOff, HasTypes, Guarded
    <2>3. Coupled'
      BY Zenon, <1>6 DEF Faulty!Tv!PowerOff, Faulty!Tv!AfterPowerOff, HasTypes, Coupled
    <2>4. Watched'
      BY Zenon, <1>6 DEF Faulty!Tv!PowerOff, Faulty!Tv!AfterPowerOff, HasTypes, Guarded, Coupled, Watched
    <2> QED
      BY <2>1, <2>2, <2>3, <2>4
  <1>7. CASE Faulty!Tv!CreateMarker("monitor")
    BY Zenon, <1>7 DEF Faulty!Tv!CreateMarker, HasTypes, Guarded, Coupled, Watched
  <1>8. CASE Faulty!Tv!Unblank("monitor")
    <2>1. HasTypes'
      BY Zenon, <1>8 DEF Faulty!Tv!Unblank, Faulty!Tv!LightUp, HasTypes
    <2>2. Guarded'
      BY SMTT(30), <1>8 DEF Faulty!Tv!Unblank, Faulty!Tv!LightUp, HasTypes, Guarded
    <2>3. Coupled'
      BY <1>8 DEF Faulty!Tv!Unblank, Faulty!Tv!LightUp, HasTypes, Coupled
    <2>4. Watched'
      BY Zenon, <1>8 DEF Faulty!Tv!Unblank, Faulty!Tv!LightUp, HasTypes, Guarded, Coupled, Watched
    <2> QED
      BY <2>1, <2>2, <2>3, <2>4
  <1>9. CASE Faulty!Tv!SendWakePacket("monitor")
    <2>1. HasTypes'
      BY Zenon, <1>9 DEF Faulty!Tv!SendWakePacket, Faulty!Tv!LightUp, HasTypes
    <2>2. Guarded'
      BY SMTT(30), <1>9 DEF Faulty!Tv!SendWakePacket, Faulty!Tv!LightUp, HasTypes, Guarded
    <2>3. Coupled'
      BY Zenon, <1>9 DEF Faulty!Tv!SendWakePacket, Faulty!Tv!LightUp, HasTypes, Coupled
    <2>4. Watched'
      BY ZenonT(40), <1>9 DEF Faulty!Tv!SendWakePacket, Faulty!Tv!LightUp, HasTypes, Guarded, Coupled, Watched
    <2> QED
      BY <2>1, <2>2, <2>3, <2>4
  <1>10. CASE Faulty!Tv!RestoreInput("monitor")
    <2>1. HasTypes'
      BY Zenon, <1>10 DEF Faulty!Tv!RestoreInput, Faulty!Tv!LightUp, HasTypes
    <2>2. Guarded'
      BY SMTT(30), <1>10 DEF Faulty!Tv!RestoreInput, Faulty!Tv!LightUp, HasTypes, Guarded
    <2>3. Coupled'
      BY <1>10 DEF Faulty!Tv!RestoreInput, Faulty!Tv!LightUp, HasTypes, Coupled
    <2>4. Watched'
      BY Zenon, <1>10 DEF Faulty!Tv!RestoreInput, Faulty!Tv!LightUp, HasTypes, Guarded, Coupled, Watched
    <2> QED
      BY <2>1, <2>2, <2>3, <2>4
  <1>11. CASE Faulty!Tv!ClearMarker("monitor")
    BY Zenon, <1>11 DEF Faulty!Tv!ClearMarker, HasTypes, Guarded, Coupled, Watched
  <1> QED
    BY Zenon, <1>1, <1>2, <1>3, <1>4, <1>5, <1>6, <1>7, <1>8, <1>9, <1>10, <1>11 DEF Faulty!Tv!Work

\* The engine decides, and the monitor begins the action.
LEMMA DecisionKeepsMonitor ==
    ASSUME HasTypes, Guarded, Coupled, Watched,
           Faulty!RequestBlank \/ Faulty!TimedPowerOff \/ Faulty!ObserveActivity
    PROVE  HasTypes' /\ Guarded' /\ Coupled' /\ Watched'
  <1> USE DEF Faulty!Free, Faulty!Tv!Start, Faulty!Tv!At, Faulty!Tv!Goto, Faulty!Tv!Finish,
              Faulty!Tv!tv, Faulty!Tv!system, HasTypes, Guarded, Coupled, Watched,
              Faulty!Engine!Inactive
  <1>1. CASE Faulty!RequestBlank
    BY Zenon, <1>1 DEF Faulty!RequestBlank, Faulty!Engine!RequestBlank, Faulty!Engine!Waiting
  <1>2. CASE Faulty!TimedPowerOff
    BY ZenonT(40), <1>2 DEF Faulty!TimedPowerOff, Faulty!Engine!PowerOff
  <1>3. CASE Faulty!ObserveActivity
    <2>1. CASE Faulty!RestoreCalledFor
      BY ZenonT(40), <1>3, <2>1 DEF Faulty!ObserveActivity, Faulty!Engine!Activity, Faulty!RestoreEnded
    <2>2. CASE ~Faulty!RestoreCalledFor
      BY SMTT(30), <1>3, <2>2 DEF Faulty!ObserveActivity, Faulty!Engine!Activity, Faulty!RestoreCalledFor,
                        Faulty!Engine!Waiting, Faulty!world, Faulty!actions
    <2> QED
      BY <2>1, <2>2
  <1> QED
    BY Zenon, <1>1, <1>2, <1>3

\* The blank's result reaches the engine; the monitor is restarted.
LEMMA ReportKeepsMonitor ==
    ASSUME HasTypes, Guarded, Coupled, Watched, Faulty!CompleteBlank \/ Faulty!Restart
    PROVE  HasTypes' /\ Guarded' /\ Coupled' /\ Watched'
  <1> USE DEF Faulty!Tv!At, Faulty!world, Faulty!actions, HasTypes, Guarded, Coupled, Watched,
              Faulty!Engine!Inactive
  <1>1. CASE Faulty!CompleteBlank
    BY Zenon, <1>1 DEF Faulty!CompleteBlank, Faulty!BlankReport, Faulty!Engine!CompleteBlank
  <1>2. CASE Faulty!Restart
    BY Zenon, <1>2 DEF Faulty!Restart, Faulty!OwnedAtStart
  <1> QED
    BY <1>1, <1>2

\* A step of the system, or of somebody with the remote control.
LEMMA WorldKeepsMonitor ==
    ASSUME HasTypes, Guarded, Coupled, Watched, Faulty!World
    PROVE  HasTypes' /\ Guarded' /\ Coupled' /\ Watched'
  <1> USE DEF Faulty!World, Faulty!engine, Faulty!Tv!tv, Faulty!Tv!session, Faulty!Tv!system,
              Faulty!Engine!Inactive
  <1>1. CASE Faulty!Tv!PrepareForSleep
    BY SMTT(30), <1>1 DEF Faulty!Tv!PrepareForSleep, HasTypes, Guarded, Coupled, Watched
  <1>2. CASE Faulty!Tv!SystemPowerOff
    BY ZenonT(40), <1>2 DEF Faulty!Tv!SystemPowerOff, HasTypes, Guarded, Coupled, Watched
  <1>3. CASE Faulty!Tv!Sleep
    BY SMTT(30), <1>3 DEF Faulty!Tv!Sleep, HasTypes, Guarded, Coupled, Watched
  <1>4. CASE Faulty!Tv!Resume
    BY SMTT(30), <1>4 DEF Faulty!Tv!Resume, HasTypes, Guarded, Coupled, Watched
  <1>5. CASE Faulty!Tv!SystemRestore
    <2>1. HasTypes'
      BY ZenonT(40), <1>5 DEF Faulty!Tv!SystemRestore, Faulty!Tv!LightUp, HasTypes
    <2>2. Guarded'
      BY SMTT(30), <1>5 DEF Faulty!Tv!SystemRestore, Faulty!Tv!LightUp, HasTypes, Guarded
    <2>3. Coupled'
      BY <1>5 DEF Faulty!Tv!SystemRestore, Faulty!Tv!LightUp, HasTypes, Coupled
    <2>4. Watched'
      BY Zenon, <1>5 DEF Faulty!Tv!SystemRestore, Faulty!Tv!LightUp, HasTypes, Guarded, Coupled, Watched
    <2> QED
      BY <2>1, <2>2, <2>3, <2>4
  <1>6. CASE Faulty!Tv!Remote
    BY ZenonT(40), <1>6 DEF Faulty!Tv!Remote, Faulty!Tv!LightUp, HasTypes, Guarded, Coupled, Watched
  <1> QED
    BY SMTT(30), <1>1, <1>2, <1>3, <1>4, <1>5, <1>6 DEF Faulty!Tv!World

\* Every state of the session monitor among crashes satisfies the inductive invariant.
THEOREM MonitorInvariance == PowerSpec => []MonitorInv
  <1>1. PowerInit => MonitorInv
    BY Zenon DEF PowerInit, Faulty!Init, Faulty!Tv!Init, Faulty!Tv!Procs, Faulty!Engine!Start, MonitorInv,
           HasTypes, Guarded, Coupled, Watched
  <1>2. MonitorInv /\ [PowerNext]_all_vars => MonitorInv'
    <2> SUFFICES ASSUME MonitorInv, [PowerNext]_all_vars, component' = "monitor"
                 PROVE  HasTypes' /\ Guarded' /\ Coupled' /\ Watched'
      BY DEF MonitorInv
    <2>1. /\ HasTypes /\ Guarded /\ Coupled /\ Watched
          /\ Faulty!Next \/ UNCHANGED <<sc_vars, sm_vars>>
      BY DEF MonitorInv, PowerNext, all_vars
    <2>2. CASE UNCHANGED <<sc_vars, sm_vars>>
      BY SMTT(30), <2>1, <2>2 DEF sc_vars, sm_vars, HasTypes, Guarded, Coupled, Watched
    <2> QED
      BY SMTT(30), <2>1, <2>2, ActKeepsMonitor, DecisionKeepsMonitor, ReportKeepsMonitor, WorldKeepsMonitor
         DEF Faulty!Next
  <1> QED
    BY <1>1, <1>2, PTL DEF PowerSpec, PowerSafety

\* A TV that is dark by the monitor's doing is watched by the engine, is being restored,
\* or was given up by a restore that failed or a marker that was not written.
THEOREM DarkTvWatched == PowerSpec => []DarkTvIsWatched
  <1>1. MonitorInv => DarkTvIsWatched
    BY DEF MonitorInv, Watched, DarkTvIsWatched, Faulty!DarkTvIsWatched
  <1> QED
    BY <1>1, MonitorInvariance, PTL

\* The timed power-off turns off only a TV that nobody has used since it was blanked or
\* since the monitor started.
THEOREM LitTvSpared == PowerSpec => LitTvInUseStaysOn
  <1>1. MonitorInv => (component = "monitor" /\ step["monitor"] = "power_off"
                       /\ action["monitor"] = "timed" => ~used)
    BY DEF MonitorInv, Coupled
  <1> QED
    BY <1>1, MonitorInvariance, PTL DEF LitTvInUseStaysOn
=============================================================================
