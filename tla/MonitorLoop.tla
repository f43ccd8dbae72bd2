---------------------------- MODULE MonitorLoop ----------------------------
(***************************************************************************)
(* The loop of the session monitor (run_native_session_monitor in          *)
(* session/runner.rs) around the inactivity engine.  Input reaches it in   *)
(* two ways: the desktop adapters leave their newest observations in the   *)
(* activity contributions (session/activity.rs), which the loop drains at  *)
(* its head and again before it acts on a deadline; the gamepad thread,    *)
(* the lock observer and the DPMS observer send messages.  Every source    *)
(* reads the clock before it hands its observation over, so the loop can   *)
(* run in between.                                                         *)
(*                                                                         *)
(* The engine is what Inactivity is shown to implement, IdleClock.  The TV *)
(* actions of a decision are the time they take.  The inhibition gate is   *)
(* reduced to the check it has under way; Inhibition models it in full.    *)
(***************************************************************************)
EXTENDS Integers, Sequences

CONSTANTS
    BlankAfter,    \* idle timeout, in ticks
    Adapters,      \* the desktop adapters
    Kinds,         \* the observations that they publish
    Events,        \* the other messages that reach the channel
    MaxQueue,      \* bound on the channel
    MaxTime        \* bound on the clock

ASSUME LoopAssumption ==
    /\ BlankAfter \in Nat
    /\ "gamepad" \notin Adapters
    /\ Kinds \subseteq {"DesktopActivityObserved", "UserActivityObserved", "ProviderActive",
                       "WakeRequested"}
    /\ Events \subseteq {"SystemBlank", "Lock", "Unlock", "EligibilityChanged"}

VARIABLES
    now, idle, blank_at, activity_floor, latest_independent_activity_at,  \* as in IdleClock
    stamped,     \* per source: the observation it has not handed over yet
    latest,      \* per adapter and kind: the instant of the newest observation
    waiting,     \* per adapter and kind: whether that observation is undrained
    channel,     \* the messages that were sent
    pc,          \* where the loop is
    batch,       \* what is left of the last drain
    gate,        \* the check of the inhibition gate, or "absent"
    published,   \* history: the newest desktop or gamepad input handed over
    counted,     \* history: the same, when the loop timed out
    disturbed    \* history: an observation was handled since the check began

engine  == <<idle, blank_at, activity_floor, latest_independent_activity_at>>
slots   == <<latest, waiting>>
history == <<published, counted, disturbed>>
vars    == <<now, engine, stamped, slots, channel, pc, batch, gate, history>>

Engine == INSTANCE IdleClock

None    == -1
Gamepad == "gamepad"
Sources == Adapters \cup {Gamepad}
Nothing == [obs |-> "none", at |-> None]

Observations == Kinds \cup {"UserActivityObserved"}

Init ==
    /\ Engine!Init
    /\ stamped = [s \in Sources |-> Nothing]
    /\ latest = [a \in Adapters |-> [k \in Kinds |-> None]]
    /\ waiting = [a \in Adapters |-> [k \in Kinds |-> FALSE]]
    /\ channel = <<>> /\ pc = "drain" /\ batch = {}
    /\ gate \in {"absent", "idle"}
    /\ published = None /\ counted = None /\ disturbed = FALSE

-----------------------------------------------------------------------------
(* The sources. *)

\* A source reads the clock for an observation.
Stamp(s) ==
    /\ stamped[s] = Nothing
    /\ \E k \in IF s = Gamepad THEN {"UserActivityObserved"} ELSE Kinds :
          stamped' = [stamped EXCEPT ![s] = [obs |-> k, at |-> now]]
    /\ UNCHANGED <<now, engine, slots, channel, pc, batch, gate, history>>

HandedOver(o) ==
    published' = IF o.obs \in Engine!Independent THEN Engine!Later(published, o.at) ELSE published

\* Mutant: an observation that waits is not replaced by a newer one.
NewerMutant(a, o) == ~waiting[a][o.obs] /\ o.at > latest[a][o.obs]
Newer(a, o) == o.at > latest[a][o.obs]

\* ActivityContributions::publish
Publish(a) ==
    /\ stamped[a] # Nothing
    /\ IF Newer(a, stamped[a])
       THEN /\ latest' = [latest EXCEPT ![a][stamped[a].obs] = stamped[a].at]
            /\ waiting' = [waiting EXCEPT ![a][stamped[a].obs] = TRUE]
       ELSE UNCHANGED slots
    /\ HandedOver(stamped[a])
    /\ stamped' = [stamped EXCEPT ![a] = Nothing]
    /\ UNCHANGED <<now, engine, channel, pc, batch, gate, counted, disturbed>>

Send(m) == Len(channel) < MaxQueue /\ channel' = Append(channel, m)

SendGamepad ==
    /\ stamped[Gamepad] # Nothing
    /\ Send(stamped[Gamepad])
    /\ HandedOver(stamped[Gamepad])
    /\ stamped' = [stamped EXCEPT ![Gamepad] = Nothing]
    /\ UNCHANGED <<now, engine, slots, pc, batch, gate, counted, disturbed>>

\* The lock observer, the DPMS observer and the watch on the settings.
SendEvent ==
    /\ \E e \in Events : Send([obs |-> e, at |-> IF e = "SystemBlank" THEN now ELSE None])
    /\ UNCHANGED <<now, engine, stamped, slots, pc, batch, gate, history>>

-----------------------------------------------------------------------------
(* The gate. *)

\* Mutant: an observation does not end the check that is under way.
CancelledMutant == gate
Cancelled == IF gate = "absent" THEN "absent" ELSE "idle"

\* The worker answers, clear or not.
GateAnswers ==
    /\ gate = "checking"
    /\ gate' \in {"clear", "idle"}
    /\ UNCHANGED <<now, engine, stamped, slots, channel, pc, batch, history>>

can_blank == gate \in {"absent", "clear"}

\* The gate is asked only when the blank is due: it begins a check, or it hands out
\* the answer of one.
AfterAsking ==
    CASE ~Engine!BlankDue -> gate
      [] Engine!BlankDue /\ gate = "idle"  -> "checking"
      [] Engine!BlankDue /\ gate = "clear" -> "idle"
      [] OTHER -> gate

-----------------------------------------------------------------------------
(* The loop. *)

\* ActivityContributions::drain: all that waits, to be handled by the instants.
Undrained == {p \in Adapters \X Kinds : waiting[p[1]][p[2]]}
drain ==
    /\ batch' = {[from |-> p[1], obs |-> p[2], at |-> latest[p[1]][p[2]]] : p \in Undrained}
    /\ waiting' = [a \in Adapters |-> [k \in Kinds |-> FALSE]]
    /\ UNCHANGED latest

FirstDrain ==
    /\ pc = "drain" /\ pc' = "first"
    /\ drain
    /\ UNCHANGED <<now, engine, stamped, channel, gate, history>>

\* handle_inactivity_observation for one drained observation.  The restore that
\* it may call for takes its time before the next one is looked at.
HandleDrained ==
    /\ pc \in {"first", "second"}
    /\ \E o \in batch :
          /\ \A p \in batch : o.at <= p.at
          /\ Engine!Activity(o.obs, o.at)
          /\ batch' = batch \ {o}
    /\ gate' = Cancelled /\ disturbed' = TRUE
    /\ UNCHANGED <<now, stamped, slots, channel, pc, published, counted>>

\* The adapters' status is read: the check ends when it is not what it was before.
CheckStatus ==
    /\ pc = "first" /\ batch = {} /\ pc' = "recv"
    /\ gate' \in {gate, Cancelled}
    /\ UNCHANGED <<now, engine, stamped, slots, channel, batch, history>>

\* A system blank does not end a check.
CancelsGate(m) == m.obs # "SystemBlank"

\* A message is handled, and the loop begins again when its action has ended.
HandleMessage ==
    /\ pc = "recv" /\ channel # <<>>
    /\ channel' = Tail(channel)
    /\ LET m == Head(channel) IN
       /\ gate' = IF CancelsGate(m) THEN Cancelled ELSE gate
       /\ disturbed' = (disturbed \/ m.obs \in Observations \cup {"Lock"})
       /\ CASE m.obs \in Observations   -> Engine!Activity(m.obs, m.at)
            [] m.obs = "Lock"           -> Engine!Lock \/ UNCHANGED engine
            [] m.obs = "SystemBlank"    ->
                   IF m.at >= activity_floor THEN Engine!SystemBlank(m.at) ELSE UNCHANGED engine
            [] m.obs \in {"Unlock", "EligibilityChanged"} -> UNCHANGED engine
    /\ pc' = "drain"
    /\ UNCHANGED <<now, stamped, slots, batch, published, counted>>

\* recv_timeout times out: the contributions are drained once more.
\* Mutant: the deadline is acted upon at once.
SecondDrainMutant ==
    /\ pc = "recv" /\ channel = <<>> /\ pc' = "second"
    /\ counted' = published
    /\ UNCHANGED <<now, engine, stamped, slots, channel, batch, gate, published,
                   disturbed>>
SecondDrain ==
    /\ pc = "recv" /\ channel = <<>> /\ pc' = "second"
    /\ drain
    /\ counted' = published
    /\ UNCHANGED <<now, engine, stamped, channel, gate, published, disturbed>>

\* handle_inactivity_timeout; or no adapter is available to tell that nobody is
\* there, and the gate's check ends, unless the timed power-off is pending.
HandleTimeout ==
    /\ pc = "second" /\ batch = {} /\ pc' = "drain"
    /\ counted' = None
    /\ \/ /\ IF Engine!BlankDue /\ can_blank THEN Engine!Timeout ELSE UNCHANGED engine
          /\ gate' = AfterAsking
          /\ disturbed' = (disturbed /\ ~(gate # "checking" /\ AfterAsking = "checking"))
       \/ /\ gate' = Cancelled \/ (idle = "inactive" /\ gate' = gate)
          /\ UNCHANGED <<engine, disturbed>>
    /\ UNCHANGED <<now, stamped, slots, channel, batch, published>>

\* The TV call that a blank decision has started returns.
CompleteBlank ==
    /\ Engine!Complete
    /\ UNCHANGED <<now, stamped, slots, channel, pc, batch, gate, history>>

Tick ==
    /\ now < MaxTime /\ Engine!Tick
    /\ UNCHANGED <<stamped, slots, channel, pc, batch, gate, history>>

\* While a blank runs the loop waits for it.
Loop ==
    /\ idle # "requested"
    /\ \/ FirstDrain \/ HandleDrained \/ CheckStatus \/ HandleMessage \/ SecondDrain
       \/ HandleTimeout

Next ==
    \/ Loop \/ CompleteBlank \/ GateAnswers \/ Tick
    \/ SendGamepad \/ SendEvent
    \/ \E s \in Sources : Stamp(s)
    \/ \E a \in Adapters : Publish(a)

Spec == Init /\ [][Next]_vars

-----------------------------------------------------------------------------
IdleBlank == pc = "second" /\ idle = "waiting" /\ idle' = "requested"

\* The idle blank comes a full idle timeout after every desktop or gamepad input
\* that was handed over before the loop last timed out: in whatever slot or message
\* it waited, nothing of it is overtaken by the deadline (the second drain).
BlankAfterFullIdle == [][IdleBlank => now >= counted + BlankAfter]_vars

\* The permission to blank comes from a check that began after the newest input and
\* the newest lock that the loop has handled: each ends the check that is under way,
\* even one that the engine has no use for.
CheckPostdatesInput ==
    [][IdleBlank /\ gate # "absent" => gate = "clear" /\ ~disturbed]_vars

\* The newest input handed over is known to the engine, is on its way to it, or is
\* older than what the engine has accepted or acted upon since: replacing what
\* waits in the contributions loses nothing that matters.
Waits(o, t) == o.obs \in Engine!Independent /\ o.at = t
OnTheWay(t) ==
    \/ \E a \in Adapters, k \in Kinds \cap Engine!Independent : waiting[a][k] /\ latest[a][k] = t
    \/ \E o \in batch : Waits(o, t)
    \/ \E i \in DOMAIN channel : Waits(channel[i], t)
Known(t) == latest_independent_activity_at >= t \/ activity_floor > t
InputIsNeverLost == Known(published) \/ OnTheWay(published)
=============================================================================
