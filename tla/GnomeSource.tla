---------------------------- MODULE GnomeSource ----------------------------
(***************************************************************************)
(* The GNOME activity adapter (sources/desktop/gnome.rs): a thread that    *)
(* connects to the session bus, arms a one-shot user-active watch at       *)
(* Mutter, publishes its firings and the screen saver's signals, and       *)
(* connects anew after every error.                                        *)
(*                                                                         *)
(* The bus delivers the signals of a connection in order, from the moment  *)
(* it subscribed.  Mutter's idle monitor and the screen saver are two      *)
(* names on it (the Shell's goes with the screen saver's); a restart gives *)
(* a name a new owner.  Every bus call of the adapter is a step of its own *)
(* and may fail.                                                           *)
(***************************************************************************)
EXTENDS Integers, Sequences, FiniteSets

CONSTANTS
    MaxOwner,     \* bound on the owners that each name has in turn
    MaxQueue,     \* bound on the signals that wait
    MaxFailures   \* bound on the bus calls that fail

VARIABLES
    owner,        \* the bus: the owner of each name, 0 when it has none
    newest,       \* the bus: the newest owner that each name has had
    watches,      \* Mutter: the watches that are armed, <<owner, id>>
    ids,          \* Mutter: the last id that was given out
    queue,        \* the signals on their way to the connection
    subscribed,   \* the connection is subscribed to them
    pc,           \* where the adapter is
    watch,        \* activity_watch: its owner and id
    trusted,      \* trusted_screen_saver_signals.owner
    status,       \* ActivityStatus: available or not
    failures,     \* bus calls that have failed
    unseen,       \* history: input met an available adapter and is unpublished
    believed      \* history: the last screen-saver signal that was published

bus     == <<owner, newest, watches, ids>>
adapter == <<pc, watch, trusted, status>>
vars    == <<bus, queue, subscribed, adapter, failures, unseen, believed>>

Mutter == "IdleMonitor"
Saver  == "ScreenSaver"
Names  == {Mutter, Saver}

\* A watch that fired, a change of a name's owner, a signal of the screen saver.
\* A signal knows whether its sender owned the name when it was sent.
WatchFired(o, i)      == [kind |-> "WatchFired", owner |-> o, id |-> i]
OwnerChanged(name, o) == [kind |-> "NameOwnerChanged", name |-> name, owner |-> o]
SaverSignal(o, owned) == [kind |-> "ScreenSaver", owner |-> o, owned |-> owned]

NoWatch == [owner |-> 0, id |-> 0]

Init ==
    /\ owner = [n \in Names |-> 1] /\ newest = owner
    /\ watches = {} /\ ids = 0
    /\ queue = <<>> /\ subscribed = FALSE
    /\ pc = "connect" /\ watch = NoWatch /\ trusted = 0 /\ status = "Unavailable"
    /\ failures = 0 /\ unseen = FALSE /\ believed = TRUE

Send(signals) == queue' = IF subscribed THEN queue \o signals ELSE queue

-----------------------------------------------------------------------------
(* The desktop *)

\* The process behind a name exits, with its watches, or a new one takes over.
ChangeOwner(name) ==
    /\ Len(queue) < MaxQueue
    /\ \/ owner[name] # 0 /\ owner' = [owner EXCEPT ![name] = 0] /\ UNCHANGED newest
       \/ /\ owner[name] = 0 /\ newest[name] < MaxOwner
          /\ newest' = [newest EXCEPT ![name] = @ + 1]
          /\ owner' = [owner EXCEPT ![name] = newest'[name]]
    /\ watches' = {w \in watches : w[1] = owner'[Mutter]}
    /\ Send(<<OwnerChanged(name, owner'[name])>>)
    /\ UNCHANGED <<ids, subscribed, adapter, failures, unseen, believed>>

\* The user does something: every armed watch fires, once.  An adapter that is
\* re-arming has published input an instant ago.
Input ==
    /\ owner[Mutter] # 0 /\ Len(queue) < MaxQueue
    /\ \E n \in 0..Cardinality(watches) : \E order \in [1..n -> watches] :
           /\ \A w \in watches : \E i \in 1..n : order[i] = w
           /\ Send([i \in 1..n |-> WatchFired(order[i][1], order[i][2])])
    /\ watches' = {}
    /\ unseen' = (unseen \/ (status = "Available" /\ pc = "run"))
    /\ UNCHANGED <<owner, newest, ids, subscribed, adapter, failures, believed>>

\* The screen saver speaks; a process that lost the name may still do so.
SaverSpeaks ==
    /\ Len(queue) < MaxQueue /\ subscribed
    /\ \E o \in 1..newest[Saver] : Send(<<SaverSignal(o, o = owner[Saver])>>)
    /\ UNCHANGED <<bus, subscribed, adapter, failures, unseen, believed>>

-----------------------------------------------------------------------------
(* The adapter *)

\* GnomeSource::run after an error: the connection is dropped, which unsubscribes
\* it and withdraws its watches, and the adapter waits before it retries.
Unavailable ==
    /\ pc' = "retry" /\ status' = "Unavailable"
    /\ queue' = <<>> /\ subscribed' = FALSE /\ watches' = {}
    /\ watch' = NoWatch /\ trusted' = 0 /\ unseen' = FALSE

\* A bus call fails.
Fail ==
    /\ failures < MaxFailures /\ failures' = failures + 1
    /\ pc \in {"subscribe", "owner", "arm", "saver", "run", "rearm"}
    /\ Unavailable
    /\ UNCHANGED <<owner, newest, ids, believed>>

\* Mutant: the adapter gives up at the first error.
RetryMutant == FALSE

\* wait_for_retry.
Retry ==
    /\ pc = "retry" /\ pc' = "connect"
    /\ UNCHANGED <<bus, queue, subscribed, watch, trusted, status, failures, unseen, believed>>

\* GnomeConnection::connect: are the services there?
CheckServices ==
    /\ pc = "connect"
    /\ IF \E n \in Names : owner[n] = 0
       THEN Unavailable /\ UNCHANGED <<owner, newest, ids>>
       ELSE pc' = "subscribe" /\ UNCHANGED <<bus, queue, subscribed, watch, trusted, status, unseen>>
    /\ UNCHANGED <<failures, believed>>

subscribe_to_gnome_signals ==
    /\ pc = "subscribe" /\ pc' = "owner" /\ subscribed' = TRUE
    /\ UNCHANGED <<bus, queue, watch, trusted, status, failures, unseen, believed>>

\* GnomeActivityWatch::connect: the owner first, then the watch.
ResolveWatchOwner ==
    /\ pc = "owner"
    /\ IF owner[Mutter] = 0
       THEN Unavailable /\ UNCHANGED <<owner, newest, ids>>
       ELSE /\ watch' = [NoWatch EXCEPT !.owner = owner[Mutter]] /\ pc' = "arm"
            /\ UNCHANGED <<bus, queue, subscribed, trusted, status, unseen>>
    /\ UNCHANGED <<failures, believed>>

\* Mutant: the watch is taken for a lasting one.
ArmedMutant(next) ==
    IF next = "run" THEN pc' = next /\ UNCHANGED <<bus, queue, subscribed, watch, trusted, status, unseen>>
    ELSE /\ ids' = (ids + 1) % 3
         /\ watch' = [watch EXCEPT !.id = ids'] /\ watches' = watches \cup {<<watch.owner, ids'>>}
         /\ pc' = next
         /\ UNCHANGED <<owner, newest, queue, subscribed, trusted, status, unseen>>

\* The call goes to the owner that was resolved, which may be gone.  Ids are
\* given out afresh by each owner; here they also stay small.
Armed(next) ==
    IF owner[Mutter] # watch.owner
    THEN Unavailable /\ UNCHANGED <<owner, newest, ids>>
    ELSE /\ ids' = (ids + 1) % 3
         /\ watch' = [watch EXCEPT !.id = ids'] /\ watches' = watches \cup {<<watch.owner, ids'>>}
         /\ pc' = next
         /\ UNCHANGED <<owner, newest, queue, subscribed, trusted, status, unseen>>

arm ==
    /\ \/ pc = "arm" /\ Armed("saver")
       \/ pc = "rearm" /\ Armed("run")
    /\ UNCHANGED <<failures, believed>>

\* The connection is complete: available.
resolve_screen_saver_owner ==
    /\ pc = "saver"
    /\ IF owner[Saver] = 0
       THEN Unavailable /\ UNCHANGED <<owner, newest, ids>>
       ELSE /\ trusted' = owner[Saver] /\ pc' = "run" /\ status' = "Available"
            /\ UNCHANGED <<bus, queue, subscribed, watch, unseen>>
    /\ UNCHANGED <<failures, believed>>

owner_changed(signal) ==
    signal.kind = "NameOwnerChanged" /\ signal.name = Mutter /\ signal.owner # watch.owner

fired(signal) == signal = WatchFired(watch.owner, watch.id)

\* TrustedScreenSaverSignals::observe: the owner after the signal.
Observed(signal) ==
    IF signal.kind = "NameOwnerChanged" /\ signal.name = Saver THEN signal.owner ELSE trusted

\* One round of run_gnome_monitor_process that finds a signal.
process ==
    /\ pc = "run" /\ queue # <<>>
    /\ LET signal == Head(queue) IN
       IF owner_changed(signal)
       THEN Unavailable /\ UNCHANGED <<owner, newest, ids, believed>>
       ELSE /\ queue' = Tail(queue)
            /\ pc' = IF fired(signal) THEN "rearm" ELSE "run"
            /\ unseen' = (unseen /\ ~fired(signal))
            /\ trusted' = Observed(signal)
            /\ believed' = IF signal.kind = "ScreenSaver" /\ signal.owner = trusted
                           THEN signal.owned ELSE believed
            /\ UNCHANGED <<bus, subscribed, watch, status>>
    /\ UNCHANGED failures

Adapter ==
    \/ Retry \/ CheckServices \/ subscribe_to_gnome_signals \/ ResolveWatchOwner \/ arm
    \/ resolve_screen_saver_owner \/ process

Next ==
    \/ \E n \in Names : ChangeOwner(n)
    \/ Input \/ SaverSpeaks \/ Fail \/ Adapter

\* The adapter's thread runs: nothing in it waits for more than a bus call.
Spec     == Init /\ [][Next]_vars
FairSpec == Spec /\ WF_vars(Adapter)

-----------------------------------------------------------------------------
\* While the adapter reports itself available it hears the next input: its watch
\* is armed, or has fired, or the news that its owner is gone is on its way.  The
\* watch is one-shot and lives in another process, which may be replaced between
\* any two calls (gnome.rs: connect, arm, run_gnome_monitor_process).
WatchIsLive ==
    status = "Available" =>
        \/ <<watch.owner, watch.id>> \in watches
        \/ pc = "rearm"
        \/ \E i \in DOMAIN queue : fired(queue[i]) \/ owner_changed(queue[i])

\* A screen-saver signal is published only when its sender owned the name as it
\* was sent, however the name changed hands while it was on its way
\* (TrustedScreenSaverSignals).
SaverIsTrusted == believed

\* Input that meets an available adapter is published, or the adapter becomes
\* unavailable (run_gnome_monitor_process): it does not get lost in silence.
InputIsHeard == unseen ~> (~unseen \/ status = "Unavailable")

\* Once the services stay up the adapter is available again, whatever call failed
\* before (GnomeSource::run).
AvailableAgain == <>[](\A n \in Names : owner[n] # 0) => []<>(status = "Available")
=============================================================================
