----------------------------- MODULE Inhibition -----------------------------
(***************************************************************************)
(* The inhibition gate of the session monitor (inhibition.rs, with the     *)
(* adapters sources/desktop/powerdevil.rs, kwin.rs, gnome/inhibition.rs).  *)
(*                                                                         *)
(* Once the idle deadline is due the monitor polls can_blank.  A push      *)
(* source publishes its state from a thread of its own; the pull sources   *)
(* are asked, one after the other, by a worker that takes its requests     *)
(* from a channel with room for one.  The monitor never waits for them: it *)
(* leaves a request pending and looks for the reply at its next poll, and  *)
(* it cancels the request when somebody becomes active.                    *)
(***************************************************************************)
EXTENDS Integers, FiniteSets

CONSTANTS
    Push, Pull,      \* the sources of either kind
    Requests,        \* identities of the requests in flight
    Nothing,         \* no request
    Answers,         \* what a reading of a source may find
    Delays,          \* idle timeouts, which are the delays after a release
    RetryInterval,   \* RETRY_INTERVAL
    MayPanic,        \* the worker may die
    MayConfigure,    \* the preference and the idle timeout may change
    MaxTime          \* bound on the clock

ASSUME GateAssumption ==
    /\ Push \cap Pull = {}
    /\ Nothing \notin Requests
    /\ \A r, q \in Requests \cup {Nothing} : Requests \ {r, q} # {}
    /\ Answers \subseteq {"Unavailable", "Absent", "Inhibited", "Clear"}
    /\ Delays \subseteq Nat
    /\ RetryInterval \in Nat \ {0}
    /\ {MayPanic, MayConfigure} \subseteq BOOLEAN
    /\ MaxTime \in Nat

VARIABLES
    now,            \* Instant::now()
    honoring,       \* the preference does not bypass inhibition
    release_delay,  \* the idle timeout in force
    state,          \* InhibitionState of every source
    reading,        \* answer of a pull source its adapter has not recorded yet
    queued,         \* request in the channel
    working,        \* request the worker is busy with
    queried,        \* pull sources the worker has asked for that request
    result,         \* what the worker is about to send for that request
    reply,          \* what was sent on the reply channel of the pending request
    cancelled,      \* requests in flight whose flag is set
    alive,          \* the worker thread runs
    pending,        \* request of the PendingCheck
    pending_push,   \* push section of the PendingCheck
    retry_at,       \* no new request before this instant
    poll,           \* can_blank: push evaluated, or what it last returned
    push,           \* push section the poll has evaluated
    asked_at,       \* the instant the poll was called with
    released_at,    \* history: last release observed of each source
    push_released,  \* history: last release of each push source as the poll began
    fresh           \* history: pull sources that answered "not inhibited" since
                    \* the gate last asked for a check, cancelled or completed one

config  == <<honoring, release_delay>>
sources == <<state, reading, released_at>>
worker  == <<queued, working, queried, result, reply, alive>>
gate    == <<cancelled, pending, pending_push, retry_at>>
calls   == <<poll, push, asked_at, push_released>>
vars    == <<now, config, sources, worker, gate, calls, fresh>>

None          == -1
Instants      == Nat \cup {None}
Sources       == Push \cup Pull
Statuses      == {"Unavailable", "Absent", "Inhibited", "Clear"}
Contributions == [status : Statuses, last_release_at : Instants]

allowed(contribution) == contribution.status # "Inhibited"

NotRead     == [status |-> "none", at |-> None]
Unmonitored == [status |-> "Unavailable", last_release_at |-> None]
NoReply     == [sent |-> "no", pull |-> [s \in Pull |-> Unmonitored]]

-----------------------------------------------------------------------------
Init ==
    /\ now = 0 /\ honoring \in BOOLEAN /\ release_delay \in Delays
    /\ state = [s \in Sources |-> Unmonitored]
    /\ reading = [s \in Pull |-> NotRead]
    /\ queued = Nothing /\ working = Nothing /\ queried = {}
    /\ result = NoReply /\ reply = NoReply
    /\ cancelled = {} /\ alive = TRUE
    /\ pending = Nothing /\ pending_push = [s \in Push |-> Unmonitored]
    /\ retry_at = None
    /\ poll = "denied" /\ push = [s \in Push |-> Unmonitored] /\ asked_at = 0
    /\ released_at = [s \in Sources |-> None]
    /\ push_released = [s \in Push |-> None] /\ fresh = {}

-----------------------------------------------------------------------------
(***************************************************************************)
(* The adapters.  An adapter records an answer a little after it has read  *)
(* it, with the instant of the reading.  A source that is lost no longer   *)
(* inhibits, and losing it is not a release.                               *)
(***************************************************************************)
Recorded(old, answer) ==
    [status |-> answer.status,
     last_release_at |-> IF answer.status = "Clear" /\ old.status = "Inhibited"
                         THEN answer.at ELSE old.last_release_at]

\* same_owner: the answer comes from the service that gave the previous one.
Record(s, answer, same_owner) ==
    LET old == IF same_owner THEN state[s] ELSE [state[s] EXCEPT !.status = "Unavailable"]
    IN /\ state' = [state EXCEPT ![s] = Recorded(old, answer)]
       /\ released_at' = [released_at EXCEPT ![s] =
              IF answer.status = "Clear" /\ old.status = "Inhibited" THEN answer.at ELSE @]

PublishPush(s) ==
    /\ \E status \in Answers, at \in 0..now :
           /\ at >= state[s].last_release_at
           /\ Record(s, [status |-> status, at |-> at], TRUE)
    /\ UNCHANGED <<now, config, reading, worker, gate, calls, fresh>>

-----------------------------------------------------------------------------
(***************************************************************************)
(* The worker.  A reply goes to the channel of its request, and when that  *)
(* is no longer pending the receiver is gone.                              *)
(***************************************************************************)
ReceiveRequest ==
    /\ alive /\ working = Nothing /\ queued # Nothing
    /\ working' = queued /\ queued' = Nothing /\ queried' = {}
    /\ UNCHANGED <<now, config, sources, result, reply, alive, gate, calls, fresh>>

\* Some adapter not asked yet is called and asks its source.  The flag may be
\* set after the adapter has looked at it.
ReadPull(s) ==
    /\ alive /\ working # Nothing /\ result = NoReply /\ s \notin queried
    /\ \A p \in Pull : reading[p] = NotRead
    /\ \E status \in Answers :
           /\ reading' = [reading EXCEPT ![s] = [status |-> status, at |-> now]]
           /\ fresh' = IF status = "Inhibited" THEN fresh \ {s} ELSE fresh \cup {s}
    /\ UNCHANGED <<now, config, state, released_at, worker, gate, calls>>

NoVerdict == [NoReply EXCEPT !.sent = "none"]

CompleteQuery(s) ==
    /\ alive /\ working # Nothing /\ reading[s] # NotRead
    /\ reading' = [reading EXCEPT ![s] = NotRead]
    /\ IF working \in cancelled
       THEN /\ Record(s, [status |-> "Unavailable", at |-> None], TRUE)
            /\ result' = NoVerdict
            /\ UNCHANGED queried
       ELSE /\ \E same_owner \in BOOLEAN : Record(s, reading[s], same_owner)
            /\ queried' = queried \cup {s}
            /\ UNCHANGED result
    /\ UNCHANGED <<now, config, queued, working, reply, alive, gate, calls, fresh>>

\* evaluate_pull_inhibition looks at the flag between two adapters and after the
\* last one.
Asked == queried = Pull

FinishRequest ==
    /\ alive /\ working # Nothing /\ result = NoReply
    /\ \A s \in Pull : reading[s] = NotRead
    /\ \/ working \in cancelled /\ result' = NoVerdict
       \/ /\ working \notin cancelled /\ Asked
          /\ result' = [sent |-> "some", pull |-> [s \in Pull |-> state[s]]]
    /\ UNCHANGED <<now, config, sources, queued, working, queried, reply, alive, gate,
                   calls, fresh>>

\* Mutant: one reply channel for all requests.
DeliveredMutant == result
Delivered == IF working = pending THEN result ELSE reply

SendReply ==
    /\ alive /\ result # NoReply
    /\ reply' = Delivered
    /\ working' = Nothing /\ queried' = {} /\ result' = NoReply
    /\ cancelled' = cancelled \ {working}
    /\ UNCHANGED <<now, config, sources, queued, alive, pending, pending_push, retry_at,
                   calls, fresh>>

\* A channel whose sender is gone tells its receiver.
Dropped == IF reply.sent = "no" THEN [NoReply EXCEPT !.sent = "dropped"] ELSE reply

\* The thread ends: what it held and what was queued is dropped unanswered.
Panic ==
    /\ MayPanic /\ alive
    /\ alive' = FALSE
    /\ queued' = Nothing /\ working' = Nothing /\ queried' = {} /\ result' = NoReply
    /\ reading' = [s \in Pull |-> NotRead]
    /\ reply' = Dropped
    /\ cancelled' = {}
    /\ UNCHANGED <<now, config, state, released_at, pending, pending_push, retry_at, calls,
                   fresh>>

-----------------------------------------------------------------------------
(***************************************************************************)
(* The gate, on the monitor's thread.                                      *)
(***************************************************************************)
Flagged == (cancelled \cup {pending}) \cap ({queued, working} \ {Nothing})

\* The PendingCheck is dropped, and its end of the reply channel with it.
TakePending ==
    /\ pending' = Nothing /\ pending_push' = [s \in Push |-> Unmonitored]
    /\ cancelled' = Flagged /\ reply' = NoReply
    /\ fresh' = {}

cancel == TakePending /\ retry_at' = None

Cancel ==
    /\ poll # "evaluated"
    /\ cancel
    /\ UNCHANGED <<now, config, sources, queued, working, queried, result, alive, calls>>

Configure ==
    /\ MayConfigure /\ poll # "evaluated"
    /\ honoring' \in BOOLEAN /\ release_delay' \in Delays
    /\ config' # config
    /\ cancel
    /\ UNCHANGED <<now, sources, queued, working, queried, result, alive, calls>>

\* can_blank with inhibition bypassed.
Bypass ==
    /\ poll # "evaluated" /\ ~honoring
    /\ cancel
    /\ poll' = "allowed"
    /\ UNCHANGED <<now, config, sources, queued, working, queried, result, alive, push,
                   asked_at, push_released>>

\* can_blank reads the push sources first; everything else happens after that.
EvaluatePush ==
    /\ poll # "evaluated" /\ honoring
    /\ poll' = "evaluated" /\ asked_at' = now
    /\ push' = [s \in Push |-> state[s]]
    /\ push_released' = [s \in Push |-> released_at[s]]
    /\ UNCHANGED <<now, config, sources, worker, gate, fresh>>

\* The poll is over; its locals are gone.
Return(answer) ==
    /\ poll' = answer
    /\ push' = [s \in Push |-> Unmonitored] /\ asked_at' = 0
    /\ push_released' = [s \in Push |-> None]

\* Mutant: only the push sources delay a blank after a release.
ReleasesMutant == {push[s].last_release_at : s \in Push}
Releases == {push[s].last_release_at : s \in Push}
            \cup {reply.pull[s].last_release_at : s \in Pull}

\* reconcile, with both sections present.
CanBlank ==
    /\ \A s \in Push : allowed(push[s])
    /\ \A s \in Pull : allowed(reply.pull[s])
    /\ \A t \in Releases : t = None \/ asked_at >= t + release_delay

\* The request is dropped when a push source has changed since it was made.
StillPending == pending # Nothing /\ pending_push = push

\* try_recv finds the reply of this very request.
ReceiveReply ==
    /\ poll = "evaluated" /\ StillPending /\ reply.sent \in {"none", "some"}
    /\ Return(IF reply.sent = "some" /\ CanBlank THEN "allowed" ELSE "denied")
    /\ TakePending /\ retry_at' = asked_at + RetryInterval
    /\ UNCHANGED <<now, config, sources, queued, working, queried, result, alive>>

NoReplyYet ==
    /\ poll = "evaluated" /\ StillPending /\ reply.sent = "no"
    /\ Return("denied")
    /\ UNCHANGED <<now, config, sources, worker, gate, fresh>>

\* Mutant: Disconnected is treated like Empty.
WorkerGoneMutant ==
    /\ poll = "evaluated" /\ StillPending /\ reply.sent = "dropped"
    /\ Return("denied")
    /\ UNCHANGED <<now, config, sources, worker, gate, fresh>>
WorkerGone ==
    /\ poll = "evaluated" /\ StillPending /\ reply.sent = "dropped"
    /\ Return("denied")
    /\ TakePending /\ retry_at' = asked_at + RetryInterval
    /\ UNCHANGED <<now, config, sources, queued, working, queried, result, alive>>

\* A request that was dropped just now leaves no retry time behind.
RetryDue == pending # Nothing \/ retry_at = None \/ asked_at >= retry_at

\* An identity nobody in flight has.
NewRequest == CHOOSE r \in Requests : r \notin {pending, working}

\* try_send finds the channel empty, or full, or without a receiver.
Submit ==
    /\ poll = "evaluated" /\ ~StillPending /\ RetryDue
    /\ Return("denied")
    /\ retry_at' = asked_at + RetryInterval
    /\ IF alive /\ queued = Nothing
       THEN /\ queued' = NewRequest /\ pending' = NewRequest /\ pending_push' = push
            /\ cancelled' = Flagged /\ reply' = NoReply /\ fresh' = {}
       ELSE TakePending /\ UNCHANGED queued
    /\ UNCHANGED <<now, config, sources, working, queried, result, alive>>

RetryLater ==
    /\ poll = "evaluated" /\ ~StillPending /\ ~RetryDue
    /\ Return("denied")
    /\ UNCHANGED <<now, config, sources, worker, gate, fresh>>

-----------------------------------------------------------------------------
Tick ==
    /\ now < MaxTime
    /\ now' = now + 1
    /\ UNCHANGED <<config, sources, worker, gate, calls, fresh>>

Worker == ReceiveRequest \/ FinishRequest \/ SendReply
          \/ \E s \in Pull : ReadPull(s) \/ CompleteQuery(s)
Poll   == Bypass \/ EvaluatePush \/ ReceiveReply \/ NoReplyYet \/ WorkerGone \/ Submit
          \/ RetryLater

Next ==
    \/ Tick \/ Worker \/ Panic \/ Poll \/ Cancel \/ Configure
    \/ \E s \in Push : PublishPush(s)

Spec == Init /\ [][Next]_vars

\* The worker runs, and the monitor polls every 50 ms while the deadline is due.
FairSpec == Spec /\ WF_vars(Worker) /\ WF_vars(Poll)

-----------------------------------------------------------------------------
Granted == poll = "evaluated" /\ poll' = "allowed"

\* Permission is earned anew for every blank: every pull source has answered that
\* it does not inhibit since the gate asked for this very check, and no push
\* source inhibited when the poll began.  Neither the late reply of a cancelled
\* request nor a reply that was used before grants it.
EveryGrantIsEarned ==
    [][Granted => fresh = Pull /\ \A s \in Push : allowed(push[s])]_vars

WaitedOut(t) == t = None \/ asked_at >= t + release_delay

\* A blank waits out the full idle timeout after every release an adapter has
\* observed, also when the source was lost or replaced in the meantime
\* (InhibitionState, reconcile).
GrantWaitsOutRelease ==
    [][Granted => /\ \A s \in Push : WaitedOut(push_released[s])
                  /\ \A s \in Pull : WaitedOut(released_at[s])]_vars

\* However often input cancels a check, at most one request still counts: the
\* others in the channel and at the worker know that they are cancelled ("the
\* bounded queue also limits work if input repeatedly cancels checks").
OneLiveCheck == {queued, working} \subseteq cancelled \cup {pending, Nothing}

\* Every check ends, even when the worker dies: a gate that is polled never waits
\* for a reply that nobody will send.
EveryCheckEnds == \A r \in Requests : pending = r ~> pending # r
=============================================================================
