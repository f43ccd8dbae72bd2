------------------------------ MODULE Gamepad ------------------------------
(***************************************************************************)
(* The gamepad thread of the session monitor (session/runner.rs and        *)
(* session/gamepad): it keeps a reader open for every controller that is   *)
(* plugged in, compares each axis with a baseline, and reports activity to *)
(* the monitor's loop, but not more often than the send interval.          *)
(*                                                                         *)
(* One iteration of the thread is one action and one tick, the poll        *)
(* interval.  A deadline is the number of ticks that are left.  Devices    *)
(* come and go, are listed before they can be opened, keep their id when   *)
(* they are plugged in again, and rest where they like: an axis that       *)
(* nobody touches moves within one unit of its rest.                       *)
(***************************************************************************)
EXTENDS Integers, Sequences

CONSTANTS
    Devices,            \* the controllers
    Rests,              \* where an axis may rest
    MaxPos,             \* an axis has the values 0..MaxPos
    Threshold,          \* movement_threshold of the axes
    Quiet, Cooldown,    \* quiet_baseline_after and activity_cooldown, in ticks
    Debounce, RetryInterval, ReconcileInterval, SendInterval,  \* in ticks
    MaxEvents           \* bound: events a device has queued between two polls

VARIABLES
    status,     \* per device: "gone", "flaky" (may fail to open) or "ready"
    wheels,     \* those with a hidraw adapter besides the evdev reader (the G923)
    dir_ok,     \* /dev/input can be listed
    signalled,  \* a device event waits on the netlink socket
    watching,   \* the thread still has its device event monitor
    rest, pos,  \* per device: the axis' rest and its value
    events,     \* per device: what its open evdev reader has not read yet
    report,     \* per device: the hidraw report its adapter reader has not read
    source,     \* the readers, the adapter readers and the registry
    pending, reconcile,  \* pending_refresh_at and next_reconcile_at
    since_sent, \* ticks since the last message, up to the send interval
    running,    \* neither stopped nor cut off from the loop
    touched,    \* history: per device, somebody used it since it was plugged in
    credited    \* history: the devices whose events were activity in the last poll

world  == <<status, wheels, dir_ok, rest, pos, touched>>
thread == <<watching, source, pending, reconcile, since_sent, running>>
vars   == <<world, thread, signalled, events, report, credited>>

Never    == -1
NoAxis   == [known |-> FALSE, baseline |-> 0, age |-> 0, cool |-> 0]
NoReport == -1
Surfaces == {"pad", "wheel"}
NoDevice == [s \in Surfaces |-> NoAxis]

\* A reader is "live", "stale" when its device has gone since, or "none".
NoSource ==
    [reader   |-> [d \in Devices |-> "none"],
     adapter  |-> [d \in Devices |-> "none"],
     registry |-> [d \in Devices |-> NoDevice]]

is_empty(src) == \A d \in Devices : src.reader[d] = "none" /\ src.adapter[d] = "none"

-----------------------------------------------------------------------------
(* The activity of an axis. *)

Distance(a, b) == IF a > b THEN a - b ELSE b - a

\* What becomes of an axis and whether its value is activity.  A first value only
\* sets the baseline; a movement within the cooldown only moves it.
evaluate_axis_event(axis, value) ==
    IF ~axis.known
    THEN [axis     |-> [known |-> TRUE, baseline |-> value, age |-> 0, cool |-> 0],
          activity |-> FALSE]
    ELSE LET moved == Distance(value, axis.baseline) >= Threshold
             cold  == axis.cool = 0
             reset == moved \/ axis.age >= Quiet
         IN  [axis     |-> [axis EXCEPT !.baseline = IF reset THEN value ELSE @,
                                        !.age      = IF reset THEN 0 ELSE @,
                                        !.cool     = IF moved /\ cold THEN Cooldown ELSE @],
              activity |-> moved /\ cold]

\* ActivityRegistry::observe for the events of one reader.
observe(seen, e) ==
    IF e.kind = "button" THEN [seen EXCEPT !.activity = TRUE]
    ELSE LET next == evaluate_axis_event(seen.axis, e.value)
         IN  [axis |-> next.axis, activity |-> seen.activity \/ next.activity]

observe_all(axis, batch) ==
    LET seen[i \in 0..Len(batch)] ==
            IF i = 0 THEN [axis |-> axis, activity |-> FALSE]
            ELSE observe(seen[i - 1], batch[i])
    IN  seen[Len(batch)]

AxisEvent(value) == [kind |-> "axis", value |-> value]

\* A tick of sleep, for the ages that the registry keeps.
Aged(axis) == [axis EXCEPT !.age  = IF axis.known /\ @ < Quiet THEN @ + 1 ELSE @,
                           !.cool = IF @ > 0 THEN @ - 1 ELSE @]

-----------------------------------------------------------------------------
(* Discovery, refresh and opening.  "sane" are the listed devices that can be *)
(* inspected, "open" those that can be opened after that.                     *)

Listed == {d \in Devices : status[d] # "gone"}

\* Mutant: the axis is taken to be at zero.
seed_initial_axis_eventsMutant(device, d) ==
    [device EXCEPT !["pad"] = evaluate_axis_event(@, 0).axis]

\* A reader that is opened seeds the registry with where the axis is.
seed_initial_axis_events(device, d) ==
    [device EXCEPT !["pad"] = evaluate_axis_event(@, pos[d]).axis]

\* A hidraw node that is still open keeps its number, so a device that returns
\* has another one, and the stale reader's key is not among the discovered keys.
KeyDiscovered(src, d, sane) == d \in sane \cap wheels /\ src.adapter[d] # "stale"

refresh_gamepad_activity_source(src, sane, open) ==
    LET retained == Listed
        failed   == Listed \ sane
        reopened == {d \in sane \cap open : src.reader[d] = "none"}
        kept(d)  == KeyDiscovered(src, d, sane) \/ d \in failed
        kept_registry ==
            [d \in Devices |-> IF d \in retained THEN src.registry[d] ELSE NoDevice]
    IN  [reader   |-> [d \in Devices |->
                         CASE d \notin retained -> "none"
                           [] d \in reopened    -> "live"
                           [] OTHER             -> src.reader[d]],
         adapter  |-> [d \in Devices |->
                         IF kept(d) /\ src.adapter[d] # "none" THEN src.adapter[d]
                         ELSE IF d \in sane \cap open \cap wheels THEN "live" ELSE "none"],
         registry |-> [d \in Devices |->
                         IF d \in reopened THEN seed_initial_axis_events(kept_registry[d], d)
                         ELSE kept_registry[d]]]

open_gamepad_activity_source(sane, open) ==
    [reader   |-> [d \in Devices |-> IF d \in sane \cap open THEN "live" ELSE "none"],
     adapter  |-> [d \in Devices |->
                     IF d \in sane \cap open \cap wheels THEN "live" ELSE "none"],
     registry |-> [d \in Devices |->
                     IF d \in sane \cap open THEN seed_initial_axis_events(NoDevice, d)
                     ELSE NoDevice]]

\* Both ask for another try when anything could not be listed, inspected or opened.
RetryRequested(sane, open) == ~dir_ok \/ ~(Listed \subseteq sane \cap open)

-----------------------------------------------------------------------------
(* The poll.  An evdev reader fails as soon as its device has gone; a hidraw  *)
(* reader still delivers the report it has queued.                            *)

\* A reader that failed takes its baselines along.
Forgotten(device) == NoDevice

\* Per device: its readers after the poll, its axes, and whether it was active.
AfterReader(src, d) ==
    LET read == observe_all(src.registry[d]["pad"], events[d])
    IN  [reader   |-> IF src.reader[d] = "live" THEN "live" ELSE "none",
         activity |-> src.reader[d] = "live" /\ read.activity,
         device   |-> CASE src.reader[d] = "live"  ->
                               [src.registry[d] EXCEPT !["pad"] = read.axis]
                        [] src.reader[d] = "stale" -> Forgotten(src.registry[d])
                        [] src.reader[d] = "none"  -> src.registry[d]]

AfterAdapter(src, d) ==
    LET first    == AfterReader(src, d)
        reported == src.adapter[d] # "none" /\ report[d] # NoReport
        read     == evaluate_axis_event(first.device["wheel"], report[d])
    IN  [reader   |-> first.reader,
         adapter  |-> IF src.adapter[d] = "stale" /\ ~reported THEN "none" ELSE src.adapter[d],
         activity |-> first.activity \/ (reported /\ read.activity),
         device   |-> IF reported THEN [first.device EXCEPT !["wheel"] = read.axis]
                      ELSE first.device]

poll_once(src) == [d \in Devices |-> AfterAdapter(src, d)]

\* A source without readers is dropped, and its registry with it.
Polled(polled) ==
    LET src == [reader   |-> [d \in Devices |-> polled[d].reader],
                adapter  |-> [d \in Devices |-> polled[d].adapter],
                registry |-> [d \in Devices |->
                                [s \in Surfaces |-> Aged(polled[d].device[s])]]]
    IN  IF is_empty(src) THEN NoSource ELSE src

-----------------------------------------------------------------------------
(* The thread. *)

Init ==
    /\ status = [d \in Devices |-> "gone"] /\ wheels \in SUBSET Devices /\ dir_ok = TRUE
    /\ rest \in [Devices -> Rests] /\ pos = rest
    /\ signalled = FALSE /\ watching \in BOOLEAN
    /\ events = [d \in Devices |-> <<>>] /\ report = [d \in Devices |-> NoReport]
    /\ source = NoSource
    /\ pending = 0 /\ reconcile = ReconcileInterval
    /\ since_sent = SendInterval /\ running = TRUE
    /\ touched = [d \in Devices |-> FALSE]
    /\ credited = {}

\* The earlier of two refreshes stays.
schedule_gamepad_refresh(scheduled, at) ==
    IF scheduled # Never /\ scheduled <= at THEN scheduled ELSE at

ReconcileDue == reconcile = 0

\* Mutant: devices are reconciled only on device events.
RequestedMutant ==
    IF watching /\ signalled THEN schedule_gamepad_refresh(pending, Debounce) ELSE pending
Requested ==
    LET asked == IF watching /\ signalled
                 THEN schedule_gamepad_refresh(pending, Debounce) ELSE pending
    IN  IF ReconcileDue THEN schedule_gamepad_refresh(asked, 0) ELSE asked

Refreshed(sane, open, sane2, open2) ==
    LET kept == IF is_empty(source) \/ ~dir_ok THEN source
                ELSE refresh_gamepad_activity_source(source, sane, open)
    IN  CASE ~is_empty(kept) -> kept
          [] is_empty(kept) /\ dir_ok -> open_gamepad_activity_source(sane2, open2)
          [] is_empty(kept) /\ ~dir_ok -> NoSource

\* The refresh runs over an existing source, the opening over none or an empty one.
Retried(sane, open, sane2, open2) ==
    \/ ~is_empty(source) /\ RetryRequested(sane, open)
    \/ /\ is_empty(source) \/ (dir_ok /\ is_empty(refresh_gamepad_activity_source(source, sane, open)))
       /\ RetryRequested(sane2, open2)

complete_gamepad_refresh(retry) ==
    IF retry THEN schedule_gamepad_refresh(Never, RetryInterval) ELSE Never

Later(ticks) == IF ticks > 0 THEN ticks - 1 ELSE ticks

gamepad_activity_send_due == since_sent >= SendInterval

Iteration(after, scheduled) ==
    \E polled \in {poll_once(after)}, left \in {Polled(poll_once(after))} :
    LET active  == {d \in Devices : polled[d].activity}
        emptied == ~is_empty(after) /\ is_empty(left)
        sends   == active # {} /\ gamepad_activity_send_due
    IN  /\ source' = left
        /\ events' = [d \in Devices |-> IF after.reader[d] = "live" THEN <<>> ELSE events[d]]
        /\ report' = [d \in Devices |-> IF after.adapter[d] # "none" THEN NoReport ELSE report[d]]
        /\ pending' = Later(IF emptied THEN schedule_gamepad_refresh(scheduled, 0) ELSE scheduled)
        /\ reconcile' = Later(IF ReconcileDue THEN ReconcileInterval ELSE reconcile)
        /\ credited' = active
        /\ since_sent' = IF sends THEN 1 ELSE IF since_sent < SendInterval THEN since_sent + 1
                                              ELSE since_sent

\* The sets that discovery and opening find: what is ready, and any of the rest.
Readable == {s \in SUBSET Listed : {d \in Devices : status[d] = "ready"} \subseteq s}

Iterate ==
    /\ running
    /\ signalled' = FALSE
    /\ LET scheduled == Requested IN
       \/ /\ scheduled # 0
          /\ Iteration(source, scheduled)
       \/ /\ scheduled = 0
          /\ \E sane, open, sane2, open2 \in Readable :
             \E after \in {Refreshed(sane, open, sane2, open2)} :
                Iteration(after, complete_gamepad_refresh(Retried(sane, open, sane2, open2)))
    /\ UNCHANGED <<world, watching, running>>

\* has_relevant_event fails: the thread goes on with the periodic reconciliation.
LoseMonitor ==
    /\ running /\ watching
    /\ watching' = FALSE /\ signalled' = FALSE
    /\ UNCHANGED <<world, source, pending, reconcile, since_sent, running, events, report,
                   credited>>

\* The stop flag is set, or the loop's end of the channel is closed.
Stop ==
    /\ running /\ running' = FALSE
    /\ UNCHANGED <<world, watching, source, pending, reconcile, since_sent, signalled, events,
                   report, credited>>

-----------------------------------------------------------------------------
(* The devices. *)

Plug(d) ==
    /\ status[d] = "gone"
    /\ \E s \in {"flaky", "ready"} : status' = [status EXCEPT ![d] = s]
    /\ \E r \in Rests : rest' = [rest EXCEPT ![d] = r] /\ pos' = [pos EXCEPT ![d] = r]
    /\ touched' = [touched EXCEPT ![d] = FALSE]
    /\ signalled' = watching /\ credited' = credited \ {d}
    /\ UNCHANGED <<wheels, dir_ok, thread, events, report>>

\* The readers of the device outlive it.
Stale(readers, d) == [readers EXCEPT ![d] = IF @ = "live" THEN "stale" ELSE @]

Unplug(d) ==
    /\ status[d] # "gone"
    /\ status' = [status EXCEPT ![d] = "gone"]
    /\ source' = [source EXCEPT !.reader = Stale(@, d), !.adapter = Stale(@, d)]
    /\ events' = [events EXCEPT ![d] = <<>>]
    /\ signalled' = watching
    /\ UNCHANGED <<wheels, dir_ok, rest, pos, touched, watching, pending, reconcile, since_sent,
                   running, report, credited>>

\* Permissions come and go.
Permit(d) ==
    /\ status[d] # "gone"
    /\ status' = [status EXCEPT ![d] = IF @ = "ready" THEN "flaky" ELSE "ready"]
    /\ UNCHANGED <<wheels, dir_ok, rest, pos, touched, thread, signalled, events, report, credited>>

ListDir ==
    /\ dir_ok' = ~dir_ok
    /\ UNCHANGED <<status, wheels, rest, pos, touched, thread, signalled, events, report, credited>>

\* An event reaches the readers that are open.
Emit(d, e) ==
    /\ IF source.reader[d] = "live"
       THEN Len(events[d]) < MaxEvents /\ events' = [events EXCEPT ![d] = Append(@, e)]
       ELSE UNCHANGED events
    /\ report' = [report EXCEPT ![d] = IF source.adapter[d] = "live" /\ e.kind = "axis"
                                       THEN e.value ELSE @]

Jitter(d) ==
    /\ status[d] # "gone"
    /\ \E v \in {rest[d], rest[d] + 1} \ {pos[d]} :
          pos' = [pos EXCEPT ![d] = v] /\ Emit(d, AxisEvent(v))
    /\ UNCHANGED <<status, wheels, dir_ok, rest, touched, thread, signalled, credited>>

Touch(d) ==
    /\ status[d] # "gone"
    /\ \/ \E v \in (0..MaxPos) \ {pos[d]} :
             pos' = [pos EXCEPT ![d] = v] /\ Emit(d, AxisEvent(v))
       \/ UNCHANGED pos /\ Emit(d, [kind |-> "button", value |-> 1])
    /\ touched' = [touched EXCEPT ![d] = TRUE]
    /\ UNCHANGED <<status, wheels, dir_ok, rest, thread, signalled, credited>>

Next ==
    \/ Iterate \/ LoseMonitor \/ Stop \/ ListDir
    \/ \E d \in Devices : Plug(d) \/ Unplug(d) \/ Permit(d) \/ Jitter(d) \/ Touch(d)

Spec == Init /\ [][Next]_vars

\* An iteration, told by the one counter that every iteration moves.
Beat == running /\ \E r \in (0..ReconcileInterval) \ {reconcile} : reconcile' = r

\* The thread polls for as long as it runs.
FairSpec == Spec /\ WF_reconcile(Beat)

-----------------------------------------------------------------------------
\* A controller that nobody has touched since it was plugged in never counts as
\* activity, so it cannot keep the TV on or light it: its axes may tremble, it may
\* rest elsewhere than before under the same device id, and its reader may have
\* failed or been replaced at any point (seed_initial_axis_events, poll_once and
\* evaluate_axis_event).  This is said of controllers without an adapter: the last
\* report of a wheel that has gone sets a baseline that survives it.
UntouchedPadIsSilent == \A d \in credited \ wheels : touched[d]

\* A controller that stays plugged in and can be opened is read at last, and goes on
\* being read: whatever device events were missed or overtaken by an earlier
\* refresh, and even without the device event monitor, the periodic reconciliation
\* finds it (run_gamepad_activity_process).
PluggedPadIsRead ==
    \A d \in Devices :
        (<>[](status[d] = "ready" /\ dir_ok) /\ []running) => <>[](source.reader[d] = "live")
=============================================================================
