--------------------------- MODULE LogindObserver ---------------------------
(***************************************************************************)
(* The lock observer (sources/linux/logind.rs): a thread that follows the  *)
(* LockedHint of the user's graphical session, across restarts of logind,  *)
(* and tells the monitor of suspends.  It ends at the first bus call that  *)
(* fails, or when it finds no session, or more than one.                   *)
(*                                                                         *)
(* The bus delivers signals in order from the moment they are subscribed   *)
(* to.  A signal carries its sender, and logind's owner changes when it is *)
(* restarted.  Each bus call is a step of its own.                         *)
(***************************************************************************)
EXTENDS Integers, Sequences, FiniteSets

CONSTANTS
    Sessions,     \* the graphical sessions of the user
    MaxOwner,     \* bound on the owners that logind has in turn
    MaxQueue      \* bound on the signals that wait

VARIABLES
    owner,        \* the bus: logind's owner, 0 while it is down
    newest,       \* the bus: the newest owner it has had
    eligible,     \* logind: the sessions that are active, local and graphical
    locked,       \* logind: LockedHint of each session
    matches,      \* the bus: what this client subscribed to, <<session, owner>>
    queue,        \* the signals on their way
    pc,           \* where the observer is
    session,      \* the session it follows
    logind_owner, \* the owner it listens to, 0 for none
    tracker,      \* LockedHintTracker.locked, or None
    told,         \* history: the last of Lock and Unlock that was published
    owed          \* history: a suspend, resume or restart of which the monitor has
                  \* heard nothing since

logind   == <<owner, newest, eligible, locked>>
observer == <<pc, session, logind_owner, tracker>>
history  == <<told, owed>>
vars     == <<logind, matches, queue, observer, history>>

None == "none"

OwnerChanged(o)     == [kind |-> "NameOwnerChanged", from |-> o]
PrepareForSleep(o)  == [kind |-> "PrepareForSleep", from |-> o]
Changed(o, s, hint) == [kind |-> "Changed", from |-> o, session |-> s, locked |-> hint]
Invalidated(o, s)   == [kind |-> "Invalidated", from |-> o, session |-> s]

Init ==
    /\ owner = 1 /\ newest = 1
    /\ eligible \in SUBSET Sessions /\ locked \in [Sessions -> BOOLEAN]
    /\ matches = {} /\ queue = <<>>
    /\ pc = "start" /\ session = None /\ logind_owner = 0 /\ tracker = None
    /\ told = "Unlock" /\ owed = FALSE

Listening == pc \notin {"start", "ended"}

-----------------------------------------------------------------------------
(* logind *)

\* It stops, or starts again, with whatever sessions there are by then.
Restart ==
    /\ Len(queue) < MaxQueue
    /\ \/ owner # 0 /\ owner' = 0 /\ UNCHANGED <<newest, eligible, locked>>
       \/ /\ owner = 0 /\ newest < MaxOwner
          /\ newest' = newest + 1 /\ owner' = newest'
          /\ eligible' \in SUBSET Sessions /\ locked' \in [Sessions -> BOOLEAN]
    /\ queue' = IF Listening THEN Append(queue, OwnerChanged(owner')) ELSE queue
    /\ owed' = (owed \/ Listening)
    /\ UNCHANGED <<matches, observer, told>>

\* A session is locked or unlocked; the signal carries the value or only says
\* that it changed.
Lock(s) ==
    /\ owner # 0 /\ Len(queue) < MaxQueue
    /\ locked' = [locked EXCEPT ![s] = ~@]
    /\ IF <<s, owner>> \in matches
       THEN \E signal \in {Changed(owner, s, locked'[s]), Invalidated(owner, s)} :
                queue' = Append(queue, signal)
       ELSE UNCHANGED queue
    /\ UNCHANGED <<owner, newest, eligible, matches, observer, history>>

Sleep ==
    /\ owner # 0 /\ Len(queue) < MaxQueue /\ Listening
    /\ owed' = TRUE
    /\ queue' = Append(queue, PrepareForSleep(owner))
    /\ UNCHANGED <<logind, matches, observer, told>>

-----------------------------------------------------------------------------
(* The observer *)

End == pc' = "ended" /\ UNCHANGED <<session, logind_owner, tracker>>

\* add_logind_owner_signal_match and add_logind_signal_match.
Subscribe ==
    /\ pc = "start" /\ pc' = "resolve"
    /\ UNCHANGED <<logind, matches, queue, session, logind_owner, tracker, history>>

\* Any bus call may fail; report_error tells the monitor.
Fail ==
    /\ Listening /\ End
    /\ UNCHANGED <<logind, matches, queue, history>>

\* resolve_current_graphical_session: exactly one will do.
resolve_current_graphical_session ==
    /\ pc = "resolve"
    /\ IF owner # 0 /\ Cardinality(eligible) = 1
       THEN pc' = "owner" /\ session' \in eligible /\ UNCHANGED <<logind_owner, tracker>>
       ELSE End
    /\ UNCHANGED <<logind, matches, queue, history>>

resolve_logind_owner ==
    /\ pc = "owner"
    /\ IF owner # 0
       THEN pc' = "match" /\ logind_owner' = owner /\ UNCHANGED <<session, tracker>>
       ELSE End
    /\ UNCHANGED <<logind, matches, queue, history>>

add_locked_hint_signal_match ==
    /\ pc = "match" /\ pc' = "read"
    /\ matches' = matches \cup {<<session, logind_owner>>}
    /\ UNCHANGED <<logind, queue, session, logind_owner, tracker, history>>

\* publish_locked_hint and LockedHintTracker::observe.
publish_locked_hint(hint) ==
    /\ tracker' = IF hint THEN "locked" ELSE "unlocked"
    /\ told' = CASE hint /\ tracker # "locked" -> "Lock"
                 [] ~hint /\ tracker = "locked" -> "Unlock"
                 [] OTHER -> told

\* locked_hint: the property is read, after a bind or an invalidation.
locked_hint ==
    /\ pc = "read"
    /\ IF owner # 0
       THEN pc' = "run" /\ publish_locked_hint(locked[session]) /\ UNCHANGED <<session, logind_owner>>
       ELSE End /\ UNCHANGED told
    /\ UNCHANGED <<logind, matches, queue, owed>>

\* map_locked_hint_change: of the session it follows, from the owner it knows.
Concerns(signal) ==
    /\ signal.kind \in {"Changed", "Invalidated"}
    /\ signal.from = logind_owner /\ signal.session = session

\* Mutant: the lock state is not read again when logind returns.
OnOwnerChangedMutant(signal) ==
    /\ owed' = FALSE
    /\ pc' = "run" /\ logind_owner' = signal.from
    /\ UNCHANGED <<session, tracker, told>>

\* The owner changed: gone, or to be bound anew.
OnOwnerChanged(signal) ==
    /\ owed' = FALSE
    /\ IF signal.from = 0
       THEN pc' = "run" /\ logind_owner' = 0
       ELSE pc' = "resolve" /\ UNCHANGED logind_owner
    /\ UNCHANGED <<session, tracker, told>>

\* Sleep and resume make the monitor reconsider; only from the owner it knows.
Notices(signal) ==
    signal.kind = "PrepareForSleep" /\ logind_owner # 0 /\ signal.from = logind_owner

\* One round of run_lock_observer_for_session that finds a signal.
process ==
    /\ pc = "run" /\ queue # <<>>
    /\ queue' = Tail(queue)
    /\ LET signal == Head(queue) IN
       IF signal.kind = "NameOwnerChanged" THEN OnOwnerChanged(signal)
       ELSE /\ owed' = (owed /\ ~Notices(signal))
            /\ CASE Concerns(signal) /\ signal.kind = "Changed" ->
                        publish_locked_hint(signal.locked) /\ UNCHANGED <<pc, session, logind_owner>>
                 [] Concerns(signal) /\ signal.kind = "Invalidated" ->
                        pc' = "read" /\ UNCHANGED <<session, logind_owner, tracker, told>>
                 [] OTHER -> UNCHANGED <<pc, session, logind_owner, tracker, told>>
    /\ UNCHANGED <<logind, matches>>

Observer ==
    \/ Subscribe \/ resolve_current_graphical_session \/ resolve_logind_owner
    \/ add_locked_hint_signal_match \/ locked_hint \/ process

Next ==
    \/ Restart \/ Sleep \/ Fail \/ Observer
    \/ \E s \in Sessions : Lock(s)

Spec == Init /\ [][Next]_vars

-----------------------------------------------------------------------------
\* Once the observer has caught up it has told the monitor the lock state that
\* the session has: no change is lost between the subscription and the first
\* read, while logind restarts or when it comes back under another owner
\* (bind_lock_target, run_lock_observer_for_session).
LockStateIsKnown ==
    (pc = "run" /\ queue = <<>> /\ owner # 0)
        => (told = "Lock") = locked[session]

\* Every suspend, resume and restart of logind makes the monitor reconsider an idle
\* decision under way, once the observer has caught up: a signal that is not
\* believed because its sender is gone comes with a change of owner, which is
\* (lifecycle_changed).
SuspendIsNoticed == pc = "run" /\ queue = <<>> => ~owed
=============================================================================
