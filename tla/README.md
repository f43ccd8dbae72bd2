# LG Buddy in TLA+

LG Buddy turns an LG TV that serves as a computer monitor off and on with the
computer. This directory holds TLA+ models of the parts of it in which several
processes, threads or timers meet, the TLC configurations that check them, and
TLAPS proofs. Paths below are relative to `src/crates/lg-buddy/src/`.

## The system and its modules

| Part | Module | What is hard |
| --- | --- | --- |
| inactivity engine (`session/inactivity.rs`) | Inactivity; IdleEngine and IdleClock are what it promises | observations arrive late and out of order |
| monitor's loop, activity contributions (`session/runner.rs`, `session/activity.rs`) | MonitorLoop | two drains, a channel and a deadline; newer observations replace older ones |
| inhibition gate (`inhibition.rs`, its adapters) | Inhibition | replies of cancelled checks, a worker that dies |
| gamepads (`session/gamepad/`) | Gamepad | pads come and go, resting axes that are not at zero |
| GNOME and Wayland adapters (`sources/desktop/`) | GnomeSource, WaylandSource | one-shot watches, owners and globals that change during the handshake |
| lock and sleep observer (`sources/linux/logind.rs`) | LogindObserver | signals between the subscription and the first read |
| DPMS observer (`sources/linux/dpms.rs`) | DpmsObserver | connectors that vanish and return |
| suspend rail (`lifecycle.rs`, `state.rs`, `session/runner.rs`) | SuspendRail | hooks, service and machine interleave; crashes; deadlines |
| screen actions (`screen.rs`, `session/actions.rs`) | Screen | several processes, values checked early and used late |
| session monitor (`session/runner.rs`) | SessionMonitor | engine and TV drift apart when actions fail or are skipped |
| webOS client (`web_os/`) | WebOsSession | a kept connection that the TV closes, late and repeated frames |
| pairing files (`pairing_store/`, `settings/store.rs`) | PairingStore | transactions on two files, crashes between them |
| overview page (`overview.rs`) | Overview | threads that answer late, a profile that changes under them |
| settings page (`settings_view.rs`) | SettingsView | queued edits, reads that are overtaken, dying threads |
| update installation (`update_install.rs`) | UpdateFlow | cancellation races the installer |
| setup gate (`setup/`, `application.rs`) | SetupGate | an assessment that is stale when it arrives, work behind a closed gate |

The monitor and the lifecycle service are separate processes. They meet at the
TV and at two marker files: the *session marker* says the session made the TV
dark, the *system marker* says the pre-sleep handling turned it off. The GUI is a
third process; it meets the commands at the configuration, the token and the TV.
`PROJECT.json` lists every part, modelled or not, the source lines of every
definition, and the hazards with their lines.

How the modules correspond to the code:

- **Inactivity** has one action per method of `InactivityEngine`, with observations
  stamped with any instant of the past. It implements **IdleEngine** (no clocks,
  no locks), on which SessionMonitor is built, and **IdleClock** (deadlines, no
  grace and no power-off), on which MonitorLoop is built.
- **MonitorLoop** has the place of the loop as `pc`. A source reads the clock in one
  step and hands its observation over in another, so the loop can run in between.
- **Inhibition** is the gate, the worker and the adapters. A poll is two steps: the
  push sources are read first, then everything else. Requests have identities, so
  that a late reply can be told from the one awaited.
- **SuspendRail** has a `pc` per process for the lifecycle service and the pre-down
  hooks, and the machine, the network and the signals as environment.
- **Screen** has a `step` per process. Every read, TV call and marker write is a step
  of its own. A TV call that fails may have had its effect; one that succeeds has
  it. `held` records that an action certainly made the TV dark on our input.
- **SessionMonitor** joins IdleEngine and Screen as the loop does: an observation is
  handled and its action run to the end before the next.
- **WebOsSession** has `pc` for the adapter inside one method and the socket as two
  queues. The TV is external: it answers late, twice or not at all, and changes
  from elsewhere at any time.
- **PairingStore** has a `pc` per transaction, with the lock, the snapshot and the
  two files; every file operation is a step, and every step may be the last one.
- **Overview** and **SettingsView** have one action per intent and per completion, and
  the threads' operations as a set from which any may finish next.
- **UpdateFlow** has the page, the worker and the atomic cell between them.
- **SetupGate** has the gate, the probe, the session service and the pages' work.

An operator whose name ends in `Mutant`, or that a `Mutant:` comment precedes, is a
deliberately wrong variant that shows that a property notices the mistake. The
`MC*` modules exist for TLC; MCInactivity gives the engine names of its own (`e_`),
so that one proof module can have it beside the gate. MCPower, SourcesProofs and ApplicationProofs put several parts side by
side in one specification; in each behaviour one of them runs, and a part that does
not run stays in an initial state. MCSources and MCApplication are the last two for
TLC: what is checked there is the very specification that is proved about.

## Runs

| Run | Question | Bounds |
| --- | --- | --- |
| inactivity | stale and locked input, full grace, the two refinements | clock 0..6, all past instants |
| loop | no input is lost or overtaken by the deadline, a blank rests on a newer check | one adapter with two kinds, the gamepad, one queued message, clock 0..2 |
| gate | earned grants, release delay, every check ends | a push and a pull source, three requests, clock 0..1 |
| sources | what is reported is real, available adapters listen, the observer is up to date; input is heard, adapters recover | one pad, 2 seats, 3 notifiers, 2 sessions, 2 connectors, queues of 3 |
| power | one owner, remembered power-offs, decisions before the network goes, watched darkness; suspends go through, activity lights the TV | one hook among faults and two in peace, 2 suspends, 2 attempts |
| application | what the GUI and the commands do and show | see below |
| rail_hurried, rail_reconfigured, screen_race, screen_suspend, monitor_suspended, settings_closed | *violated*, see below | |

Why the bounds are enough for the interesting cases. Two wake attempts stand for
six: the first, one that is repeated and the giving up are all there. Two suspends
let a second one meet what the first has left. In the gate the delay and the retry
interval are one tick, so a clock with two instants has a release, a poll before
the delay is over and one after it. A queue of one message in the loop still has
a message that waits while the contributions are drained. In `application`: four
requests on the webOS session, so that one is repeated on a new connection; two
transactions at once on the files, with one edit by hand and one crash; four
operations of the overview and one change of profile, so that writes of two
controls overtake each other and a read; three edits of two settings and two reads,
so that an edit is queued twice behind another; three releases and two attempts at
an update, so that one is cancelled and the next offers something newer; one change
of the setup behind two acts of the user and two service processes.
The faults of the rail are checked with the aggressive restore policy, which
restores without a marker; the sessions in peace use `marker_only`.

Fairness. The worker runs and the monitor polls every 50 ms (Inhibition); a process
inside an action continues, since every TV call has a timeout (Screen,
SessionMonitor); the service and the hooks run on and their waits have deadlines
(SuspendRail); a source's thread takes its next step, and its retry timer expires
(Gamepad, GnomeSource, WaylandSource). In SessionMonitor the user's continued
activity is fair as well: it is the premise of the property, not something the code
provides. The pages need no fairness: that every wait is a wait for something is
stated as an invariant (`OperationsAreRun`).

## What the violated properties show

- **rail_hurried**: a suspend that follows a resume at once finds the previous
  cycle `Completed`, and the hook lets the network go without a decision.
- **rail_reconfigured**: with the policy disabled when the resume is read, the
  cycle file and the marker stay.
- **screen_race**: a `screen on` command between the monitor's marker check and
  its power-off leaves a dark TV without a marker.
- **screen_suspend**: eligibility is read once; a `screen on` that has passed it
  wakes the TV the pre-sleep handling has just turned off.
- **monitor_suspended**: after a timed power-off, activity during the preparation
  of a suspend is used up by a skipped restore. The TV was off already, so the
  system restores nothing, and the engine, now Active, asks for nothing more
  until the session has been idle again.
- **settings_closed**: the thread that saves an edit dies while another edit waits;
  the read that this calls for fails; the window closes. The accepted edit is
  never written.

Seen while modelling, and not stated as disagreements because no document says
otherwise: a login reads its endpoint from the configuration before it takes the
snapshot it publishes against; setting an input while a TV is unpaired can leave a
configuration with only an input; a read that fails right after the migration has
written its token leaves that token; a write reported as failed that the TV did
carry out leaves the overview showing a value the TV lacks (`doubt`); a
restarted monitor takes any marker as the start of a new grace period, so after a
resume a stale marker can turn off a lit TV that nobody touches, which is why
`LitTvInUseStaysOn` speaks of activity since the monitor started.

## Proofs

Each theorem holds for every value of the constants that the named ASSUMEs admit:
any timeouts, any number of hooks, adapters, requests, transactions, crashes and
edits. Every invariant and every action property that a passing run checks has one.
Each rests on an inductive invariant, which TLC checked on the runs' instances
before it was proved.

| Module | Parts | The invariant, and why the property alone is not inductive |
| --- | --- | --- |
| MonitorLoopProofs | MonitorLoop | `IInv` follows the newest input through the source's hand, the contributions and the channel to the engine: that input is not lost is a statement about all four places, and each drain empties one into the next. `BlankAfterFullIdle` and `CheckPostdatesInput` use it for single steps. |
| EngineProofs | Inactivity | `EngineIInv` ties the lock's fields to the last lock, and the newest input to the floor or to the grace. Without `BlankGuarded` a late lock could be followed by input that is older than the blank but above the floor. The refinements of IdleEngine and IdleClock follow step by step. |
| | Inhibition | `GateIInv` says where the pending request is (channel, worker or answered) and that what it has been told is fresh; a second invariant carries the observed releases from the adapters to the verdict. |
| PowerProofs | SuspendRail among faults | `RailInv`: who holds the rail's lock is known from each process's place; what the TV answered is known from the place and the cycle file together, also after a crash. |
| | SuspendRail in peace | `OrderlyInv`: the service reads each signal before the machine goes on, and what the last suspend left is cleared before the next; so `Completed` belongs to this suspend when the network goes. |
| | Screen, SessionMonitor | `ScreenInv` ties what an action has seen of the markers to what they are now; `MonitorInv` couples the engine's belief with the TV, up to the losses it names. |
| LinuxProofs | LogindObserver, DpmsObserver, Gamepad | The observer's queue is the past it has not seen: its last change of owner is to the present owner, its last hint about a session is the present lock state. A pad that nobody touched has a baseline, and unread events, within a unit of where it rests. |
| SourcesProofs | GnomeSource, WaylandSource, the five threads together | What an adapter does not know of its watch or of the globals is in its queue; a signal of a process that lost its name has a change of owner before it. |
| FilesProofs | PairingStore | `FilesInv`: what a transaction compared stays true while it holds the lock; what it will undo is what it wrote. |
| | SettingsView | `RowsInv` accounts for every accepted edit: written, being written, queued, or to be read again. |
| SetupProofs | UpdateFlow | `UpdateInv` says which of page and worker owns the cancellation cell. |
| | SetupGate | `SetupInv` says who may be at work behind which gate, and of which revision of the facts each assessment in flight speaks. |
| | WebOsSession | `TvInv` relates numbered requests to the frames in both queues, late and repeated ones included, and `Ok` to a state of the TV that was witnessed. |
| ApplicationProofs | Overview, the six parts together | `PageInv` says of each control what is in flight for it, what the TV has, and what the page will ask for next; with it a choice made while a write flies is the one the TV ends with. |

The assumptions are about constants: `TimingAssumption` (timeouts are positive),
`GateAssumption` (push and pull sources differ, there is always a request identity
that is neither pending nor at the worker), `LoopAssumption`, `RailAssumption` and
`PowerAssumption` (kinds of things differ, policies are policies),
`SourcesAssumption` (seats and notifiers are names that differ from each other and
from `"none"`) and `TremblingAssumption`: a resting axis trembles by one unit, which
is below the threshold. `movement_threshold` is the largest of 4 % of the range, the
noise the device states and a minimum, so this says nothing of an axis of a few
positions that trembles. The
bounds in guards (`MaxTime`, `MaxQueue`, ...) are constants like the others and no
proof uses them.

Only model-checked:

- liveness: `EveryCheckEnds`, `PluggedPadIsRead`, `InputIsHeard`, `AvailableAgain`,
  `SuspendGoesThrough`, `WakeUpSettles`, `ActivityLightsTheTv`. The proof system
  has no support for fairness and ENABLED.
- the violations, which are facts about one instance.

Induction over data was needed in one place, the batch of events that the gamepad
thread reads in one poll. The library's induction theorems take an operator as a
parameter, which the provers cannot instantiate; the lemma `Least` (every non-empty
set of naturals has a least element) and a minimal counterexample do.

## Not modelled

Most of the repository by size is outside the models, and about half of its lines
are inline tests. Left out: configuration parsing, command line, formatting of
diagnostics, widgets, the comparison of versions and the update check's cache,
archive validation, shell scripts and packaging, which are sequential conversions
or plain I/O. Also left out, as parts of what is modelled: rows under declarative
management, desktop notifications, the discovery of TVs, drafts of names and
inputs, the legacy NetworkManager path, a session that ends under the GUI, and a
migration without a token; `MigrationFlow` has no caller outside the tests.
`PROJECT.json` gives the reason for each.
