--------------------------- MODULE WaylandSource ---------------------------
(***************************************************************************)
(* The Wayland activity adapter (sources/desktop/wayland.rs): it binds an  *)
(* idle notifier and, through it, one input notification per seat, keeps   *)
(* them in step with the compositor's registry, and connects anew after an *)
(* error.                                                                  *)
(*                                                                         *)
(* The compositor's events reach a connection in order.  A request takes   *)
(* effect when it is made.  A roundtrip ends when its own event arrives,   *)
(* or times out.                                                           *)
(***************************************************************************)
EXTENDS Integers, Sequences, FiniteSets

CONSTANTS
    Seats,        \* the seats that the compositor may have
    Notifiers,    \* the idle notifiers that it may have
    Versions,     \* the version of each
    Required,     \* REQUIRED_IDLE_NOTIFIER_VERSION
    MaxQueue,     \* bound on the events that wait
    MaxChanges    \* bound on the changes of the compositor

VARIABLES
    globals,        \* the compositor's globals
    queue,          \* its events on their way to the connection
    pc,             \* where the adapter is
    facts,          \* registry_facts: the globals it has been told of
    notifier,       \* idle_notifier: the global it has bound
    seats,          \* seats: the seats it has bound
    attached,       \* those with an input_notification
    initialized,
    error,
    status,
    changes,        \* changes of the compositor and connections lost
    unseen          \* history: the seats with input that an available adapter has not
                    \* published yet

state    == <<facts, notifier, seats, attached, initialized, error>>
adapter  == <<pc, state, status>>
vars     == <<globals, queue, adapter, changes, unseen>>

None    == "none"
Globals == Seats \cup Notifiers

Global(g)       == [kind |-> "global", name |-> g]
GlobalRemove(g) == [kind |-> "global_remove", name |-> g]
Resumed(s)      == [kind |-> "resumed", name |-> s]
Done            == [kind |-> "done", name |-> None]

Fresh ==
    /\ facts' = {} /\ notifier' = None /\ seats' = {} /\ attached' = {}
    /\ initialized' = FALSE /\ error' = None

Init ==
    /\ globals \in SUBSET Globals /\ queue = <<>>
    /\ pc = "connect" /\ status = "Unavailable"
    /\ facts = {} /\ notifier = None /\ seats = {} /\ attached = {}
    /\ initialized = FALSE /\ error = None
    /\ changes = 0 /\ unseen = {}

Connected == pc \in {"discover", "settle", "run"}

-----------------------------------------------------------------------------
(* The compositor *)

Change ==
    /\ changes < MaxChanges /\ changes' = changes + 1
    /\ Len(queue) < MaxQueue

\* A name is not used again before its removal has been seen.
Announce(g) ==
    /\ Change /\ g \notin globals \cup seats \cup {notifier}
    /\ \A i \in DOMAIN queue : queue[i].name # g
    /\ globals' = globals \cup {g}
    /\ queue' = IF Connected THEN Append(queue, Global(g)) ELSE queue
    /\ UNCHANGED <<adapter, unseen>>

Withdraw(g) ==
    /\ Change /\ g \in globals
    /\ globals' = globals \ {g}
    /\ queue' = IF Connected THEN Append(queue, GlobalRemove(g)) ELSE queue
    /\ UNCHANGED <<adapter, unseen>>

\* Input at a seat, once it has been idle: a notification of that seat is resumed.
Input(s) ==
    /\ Len(queue) < MaxQueue /\ s \in globals
    /\ queue' = IF s \in attached THEN Append(queue, Resumed(s)) ELSE queue
    /\ unseen' = IF status = "Available" /\ s \in attached THEN unseen \cup {s} ELSE unseen
    /\ UNCHANGED <<globals, adapter, changes>>

-----------------------------------------------------------------------------
(* The adapter *)

\* WaylandSource::run after an error: the connection and its state are dropped.
Unavailable ==
    /\ pc' = "retry" /\ status' = "Unavailable" /\ queue' = <<>> /\ unseen' = {}
    /\ Fresh

\* The connection breaks, cannot be made, or a roundtrip times out.
Fail ==
    /\ changes < MaxChanges /\ changes' = changes + 1
    /\ pc \in {"connect", "discover", "settle", "run"}
    /\ Unavailable
    /\ UNCHANGED globals

\* wait_for_retry.
Retry ==
    /\ pc = "retry" /\ pc' = "connect"
    /\ UNCHANGED <<globals, queue, state, status, changes, unseen>>

\* get_registry and the first sync: the compositor names its globals, in any
\* order, and answers.
connect ==
    /\ pc = "connect" /\ pc' = "discover"
    /\ \E n \in 0..Cardinality(globals) : \E order \in [1..n -> globals] :
           /\ \A g \in globals : \E i \in 1..n : order[i] = g
           /\ queue' = [i \in 1..n |-> Global(order[i])] \o <<Done>>
    /\ UNCHANGED <<globals, state, status, changes, unseen>>

Usable(known) == {n \in known \cap Notifiers : Versions[n] >= Required}

\* registry_facts.selected_idle_notifier.
selected_idle_notifier(known) ==
    {n \in Usable(known) : \A m \in Usable(known) : Versions[m] <= Versions[n]}

\* Mutant: the seats that came before the notifier are not attached.
bind_idle_notifierMutant(known) ==
    /\ IF notifier = None /\ selected_idle_notifier(known) # {}
       THEN notifier' \in selected_idle_notifier(known)
       ELSE UNCHANGED notifier
    /\ UNCHANGED <<seats, attached, error>>

\* bind_idle_notifier: the first that will do, and then the seats that are known.
bind_idle_notifier(known) ==
    /\ IF notifier = None /\ selected_idle_notifier(known) # {}
       THEN notifier' \in selected_idle_notifier(known) /\ attached' = seats
       ELSE UNCHANGED <<notifier, attached>>
    /\ UNCHANGED <<seats, error>>

\* bind_seat, and attach_seat when there is a notifier.
bind_seat(s) ==
    /\ seats' = seats \cup {s}
    /\ attached' = IF notifier = None THEN attached ELSE attached \cup {s}
    /\ UNCHANGED <<notifier, error>>

global_removal_error(g) ==
    CASE g = notifier -> "IdleNotifierRemoved"
      [] initialized /\ g \in seats /\ seats \ {g} = {} -> "LastSeatRemoved"
      [] OTHER -> error

remove_global(g) ==
    /\ seats' = seats \ {g} /\ attached' = attached \ {g}
    /\ error' = global_removal_error(g)
    /\ UNCHANGED notifier

notification_is_activity(event) == event.kind = "resumed"

\* The handlers of the registry's and the notifications' events.
Handle(event) ==
    CASE event.kind = "global" ->
             /\ facts' = facts \cup {event.name}
             /\ IF event.name \in Notifiers THEN bind_idle_notifier(facts') ELSE bind_seat(event.name)
             /\ UNCHANGED unseen
      [] event.kind = "global_remove" ->
             /\ facts' = facts \ {event.name}
             /\ remove_global(event.name)
             /\ unseen' = unseen \ {event.name}
      [] event.kind = "resumed" ->
             /\ unseen' = IF event.name \in attached /\ notification_is_activity(event)
                          THEN unseen \ {event.name} ELSE unseen
             /\ UNCHANGED <<facts, notifier, seats, attached, error>>

\* dispatch_once, one event at a time; an error ends the connection after the
\* events read with it, and in the loop before the next read.
dispatch ==
    /\ pc \in {"discover", "settle", "run"} /\ queue # <<>> /\ Head(queue) # Done
    /\ pc = "run" => error = None
    /\ queue' = Tail(queue)
    /\ Handle(Head(queue))
    /\ UNCHANGED <<globals, pc, initialized, status, changes>>

\* capabilities, after the first roundtrip.
capabilities == Usable(facts) # {} /\ facts \cap Seats # {}

\* The first roundtrip ends, with a second sync on its way if the globals will do.
Discovered ==
    /\ pc = "discover" /\ queue # <<>> /\ Head(queue) = Done
    /\ IF capabilities
       THEN /\ initialized' = TRUE /\ pc' = "settle" /\ queue' = Append(Tail(queue), Done)
            /\ UNCHANGED <<facts, notifier, seats, attached, error, status, unseen>>
       ELSE Unavailable
    /\ UNCHANGED <<globals, changes>>

\* The second roundtrip ends: available, unless an error came up.
Settled ==
    /\ pc = "settle" /\ queue # <<>> /\ Head(queue) = Done
    /\ IF error = None
       THEN /\ pc' = "run" /\ status' = "Available" /\ queue' = Tail(queue)
            /\ UNCHANGED <<state, unseen>>
       ELSE Unavailable
    /\ UNCHANGED <<globals, changes>>

\* take_error, in the loop.
TakeError ==
    /\ pc = "run" /\ error # None
    /\ Unavailable
    /\ UNCHANGED <<globals, changes>>

Adapter == Retry \/ connect \/ dispatch \/ Discovered \/ Settled \/ TakeError

Next ==
    \/ \E g \in Globals : Announce(g) \/ Withdraw(g)
    \/ \E s \in Seats : Input(s)
    \/ Fail \/ Adapter

\* The adapter's thread runs, and the compositor answers its syncs.
Spec     == Init /\ [][Next]_vars
FairSpec == Spec /\ WF_vars(Adapter)

-----------------------------------------------------------------------------
\* An adapter that reports itself available listens to every seat that there is,
\* through a notifier that is alive: the only exceptions are the globals whose
\* event is on its way, and an error about to be taken (bind_seat,
\* bind_idle_notifier, remove_global, initialize_provider).
SeatsAreWatched ==
    status = "Available" =>
        \/ error # None
        \/ \E i \in DOMAIN queue : queue[i] = GlobalRemove(notifier)
        \/ /\ notifier \in globals
           /\ \A s \in globals \cap Seats :
                  s \in attached \/ \E i \in DOMAIN queue : queue[i] = Global(s)

\* Input at a watched seat is published, or the seat has gone, or the adapter
\* becomes unavailable (the notification's event handler).
InputIsHeard == \A s \in Seats : (s \in unseen) ~> (s \notin unseen)

\* While the compositor offers a notifier and a seat the adapter is available
\* again and again, whatever changed before (WaylandSource::run).
AvailableAgain ==
    <>[](Usable(globals) # {} /\ globals \cap Seats # {}) => []<>(status = "Available")
=============================================================================
