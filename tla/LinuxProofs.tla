----------------------------- MODULE LinuxProofs -----------------------------
(***************************************************************************)
(* The invariants of the threads that watch what Linux offers: the lock    *)
(* observer, the DPMS observer and the gamepad thread.  Each comes with    *)
(* the lemmas that its steps keep it.  SourcesProofs has these threads     *)
(* beside the desktop's, and the theorems about them.                      *)
(***************************************************************************)
EXTENDS Integers, Sequences, TLAPS

\* Zenon finds most of the leaves; those that it does not find cite another prover.
USE Zenon

-----------------------------------------------------------------------------
(* Queues. *)

\* What a signal that is sent does to a queue.
LEMMA SignalSent ==
    ASSUME NEW S, NEW q \in Seq(S), NEW m \in S
    PROVE  /\ Append(q, m) \in Seq(S) /\ Append(q, m) # <<>>
           /\ Len(q) \in Nat /\ DOMAIN q = 1..Len(q)
           /\ DOMAIN Append(q, m) = 1..(Len(q) + 1)
           /\ \A i \in 1..Len(q) : Append(q, m)[i] = q[i]
           /\ Append(q, m)[Len(q) + 1] = m
  BY SMTT(30)

\* What a signal that is taken does to a queue.
LEMMA SignalTaken ==
    ASSUME NEW S, NEW q \in Seq(S), q # <<>>
    PROVE  /\ Tail(q) \in Seq(S) /\ Head(q) = q[1] /\ q[1] \in S
           /\ Len(q) \in Nat \ {0} /\ DOMAIN q = 1..Len(q)
           /\ DOMAIN Tail(q) = 1..(Len(q) - 1)
           /\ \A i \in 1..(Len(q) - 1) : Tail(q)[i] = q[i + 1]
           /\ \A i \in 2..Len(q) : i - 1 \in DOMAIN Tail(q) /\ Tail(q)[i - 1] = q[i]
  BY SMTT(30)

-----------------------------------------------------------------------------
(***************************************************************************)
(* The lock observer.  Its queue is the past as the observer has not seen  *)
(* it yet: the last change of owner in it is to the owner there is now,    *)
(* and the last hint about a session tells the lock state it has now.      *)
(***************************************************************************)
CONSTANTS Sessions, MaxOwner, MaxQueue

VARIABLES
    lo_owner, lo_newest, eligible, locked, matches, lo_queue, lo_pc, session, logind_owner,
    tracker, told, owed

Lo == INSTANCE LogindObserver WITH
          owner <- lo_owner, newest <- lo_newest, queue <- lo_queue, pc <- lo_pc

LoSignals ==
    [kind : {"NameOwnerChanged", "PrepareForSleep"}, from : Nat]
    \cup [kind : {"Changed"}, from : Nat, session : Sessions, locked : BOOLEAN]
    \cup [kind : {"Invalidated"}, from : Nat, session : Sessions]

LoTypes ==
    /\ lo_owner \in Nat /\ lo_newest \in Nat /\ lo_owner <= lo_newest
    /\ eligible \subseteq Sessions /\ locked \in [Sessions -> BOOLEAN]
    /\ lo_queue \in Seq(LoSignals)
    /\ lo_pc \in {"start", "resolve", "owner", "match", "read", "run", "ended"}
    /\ lo_pc \in {"owner", "match", "read", "run"} => session \in Sessions
    /\ logind_owner \in Nat /\ owed \in BOOLEAN
    /\ lo_pc = "start" => lo_queue = <<>> /\ matches = {} /\ ~owed
    /\ told = "Lock" <=> tracker = "locked"

IsNews(i) == lo_queue[i].kind = "NameOwnerChanged"
NoNews    == \A i \in DOMAIN lo_queue : ~IsNews(i)

\* Without news of another owner the observer knows the owner.
OwnerIsTold ==
    /\ Lo!Listening => \A i \in DOMAIN lo_queue : IsNews(i) =>
           \E k \in DOMAIN lo_queue : k >= i /\ IsNews(k) /\ lo_queue[k].from = lo_owner
    /\ lo_pc \in {"match", "read", "run"} /\ NoNews => logind_owner = lo_owner

IsHint(i) == lo_queue[i].kind \in {"Changed", "Invalidated"}
IsTrue(i) == lo_queue[i].kind = "Invalidated" \/ lo_queue[i].locked = locked[lo_queue[i].session]

\* The last hint of an owner about a session is true.
HintsAreTrue ==
    \A i \in DOMAIN lo_queue : IsHint(i) =>
        /\ lo_queue[i].from \in 1..lo_newest
        /\ <<lo_queue[i].session, lo_queue[i].from>> \in matches
        /\ lo_queue[i].from = lo_owner =>
              \E k \in DOMAIN lo_queue :
                  /\ k >= i /\ IsHint(k) /\ IsTrue(k) /\ lo_queue[k].from = lo_owner
                  /\ lo_queue[k].session = lo_queue[i].session

Unconcerned == \A i \in DOMAIN lo_queue : ~Lo!Concerns(lo_queue[i])

\* An observer that no signal in the queue concerns has told the lock state.
LockIsTold ==
    /\ lo_pc \in {"read", "run"} /\ logind_owner # 0 => <<session, logind_owner>> \in matches
    /\ lo_pc = "run" /\ NoNews /\ lo_owner # 0 /\ Unconcerned =>
           (told = "Lock" <=> locked[session])

\* What the monitor is owed is on its way.
DebtIsQueued ==
    Lo!Listening /\ owed /\ NoNews =>
        lo_owner # 0 /\ \E i \in DOMAIN lo_queue : lo_queue[i] = Lo!PrepareForSleep(lo_owner)

LoAll == LoTypes /\ OwnerIsTold /\ HintsAreTrue /\ LockIsTold /\ DebtIsQueued

\* The queue as a sequence of signals.
LEMMA LoQueue ==
    ASSUME LoTypes
    PROVE  /\ Len(lo_queue) \in Nat /\ DOMAIN lo_queue = 1..Len(lo_queue)
           /\ \A i \in DOMAIN lo_queue : lo_queue[i] \in LoSignals
  BY SMTT(30) DEF LoTypes

\* A step of the observer that takes no signal from the queue.
LEMMA CallKeepsLo ==
    ASSUME LoTypes, OwnerIsTold, HintsAreTrue, LockIsTold, DebtIsQueued,
           \/ Lo!Subscribe \/ Lo!resolve_current_graphical_session \/ Lo!resolve_logind_owner
           \/ Lo!add_locked_hint_signal_match \/ Lo!locked_hint \/ Lo!Fail
    PROVE  LoTypes' /\ OwnerIsTold' /\ HintsAreTrue' /\ LockIsTold' /\ DebtIsQueued'
  <1> USE DEF Lo!logind, Lo!history, Lo!End, Lo!Listening
  <1>1. /\ UNCHANGED <<lo_owner, lo_newest, eligible, locked, lo_queue, owed>>
        /\ matches \subseteq matches' /\ lo_pc # "ended"
    BY DEF Lo!Subscribe, Lo!resolve_current_graphical_session, Lo!resolve_logind_owner,
           Lo!add_locked_hint_signal_match, Lo!locked_hint, Lo!Fail
  <1>2. HintsAreTrue'
    BY <1>1 DEF HintsAreTrue, IsHint, IsTrue
  <1>3. LoTypes' /\ OwnerIsTold' /\ LockIsTold' /\ DebtIsQueued'
    <2>1. CASE Lo!Subscribe
      BY SMTT(30), <1>1, <2>1 DEF Lo!Subscribe, LoTypes, OwnerIsTold, LockIsTold, DebtIsQueued, NoNews, IsNews
    <2>2. CASE Lo!resolve_current_graphical_session
      BY SMTT(30), <1>1, <2>2 DEF Lo!resolve_current_graphical_session, LoTypes, OwnerIsTold, LockIsTold,
                        DebtIsQueued, NoNews, IsNews
    <2>3. CASE Lo!resolve_logind_owner
      BY SMTT(30), <1>1, <2>3 DEF Lo!resolve_logind_owner, LoTypes, OwnerIsTold, LockIsTold, DebtIsQueued,
                        NoNews, IsNews
    <2>4. CASE Lo!add_locked_hint_signal_match
      BY SMTT(30), <1>1, <2>4 DEF Lo!add_locked_hint_signal_match, LoTypes, OwnerIsTold, LockIsTold,
                        DebtIsQueued, NoNews, IsNews
    <2>5. CASE Lo!locked_hint
      <3>1. CASE lo_owner = 0
        BY <1>1, <2>5, <3>1 DEF Lo!locked_hint, LoTypes, OwnerIsTold, LockIsTold, DebtIsQueued
      <3>2. CASE lo_owner # 0
        <4>1. /\ lo_pc = "read" /\ lo_pc' = "run" /\ UNCHANGED <<matches, session, logind_owner>>
              /\ tracker' = IF locked[session] THEN "locked" ELSE "unlocked"
          BY <2>5, <3>2 DEF Lo!locked_hint, Lo!publish_locked_hint
        <4>2. told' = "Lock" <=> locked[session]
          BY <2>5, <3>2, <4>1 DEF Lo!locked_hint, Lo!publish_locked_hint, LoTypes
        <4>3. LoTypes' /\ OwnerIsTold' /\ DebtIsQueued'
          BY <1>1, <4>1, <4>2 DEF LoTypes, OwnerIsTold, DebtIsQueued, NoNews, IsNews
        <4>4. LockIsTold'
          BY <1>1, <4>1, <4>2 DEF LockIsTold
        <4> QED
          BY <4>3, <4>4
      <3> QED
        BY <3>1, <3>2
    <2>6. CASE Lo!Fail
      BY <1>1, <2>6 DEF Lo!Fail, LoTypes, OwnerIsTold, LockIsTold, DebtIsQueued
    <2> QED
      BY <2>1, <2>2, <2>3, <2>4, <2>5, <2>6
  <1> QED
    BY <1>2, <1>3

\* logind stops or starts.
LEMMA RestartKeepsLo ==
    ASSUME LoTypes, OwnerIsTold, HintsAreTrue, LockIsTold, DebtIsQueued, Lo!Restart
    PROVE  LoTypes' /\ OwnerIsTold' /\ HintsAreTrue' /\ LockIsTold' /\ DebtIsQueued'
  <1> DEFINE m == Lo!OwnerChanged(lo_owner')
             n == Len(lo_queue)
  <1>1. /\ lo_owner' \in Nat /\ lo_newest' \in Nat /\ lo_owner' <= lo_newest'
        /\ lo_newest' >= lo_newest /\ (lo_owner' = 0 \/ lo_owner' > lo_newest)
        /\ eligible' \subseteq Sessions /\ locked' \in [Sessions -> BOOLEAN]
    BY SMTT(30) DEF Lo!Restart, LoTypes
  <1>2. UNCHANGED <<matches, lo_pc, session, logind_owner, tracker, told>>
    BY DEF Lo!Restart, Lo!observer
  <1>3. CASE ~Lo!Listening
    <2>1. UNCHANGED lo_queue /\ owed' = owed /\ ~Lo!Listening'
      BY <1>2, <1>3 DEF Lo!Restart, LoTypes, Lo!Listening
    <2> QED
      BY SMTT(30), <1>1, <1>2, <1>3, <2>1, LoQueue
         DEF LoTypes, OwnerIsTold, HintsAreTrue, LockIsTold, DebtIsQueued, IsHint, IsNews, Lo!Listening
  <1>4. CASE Lo!Listening
    <2>1. lo_queue' = Append(lo_queue, m) /\ owed' = TRUE
      BY <1>4, Zenon DEF Lo!Restart
    <2>2. m \in LoSignals /\ m.kind = "NameOwnerChanged" /\ m.from = lo_owner'
      BY <1>1 DEF Lo!OwnerChanged, LoSignals
    <2> HIDE DEF m
    <2>3. /\ lo_queue' \in Seq(LoSignals) /\ n \in Nat /\ DOMAIN lo_queue = 1..n
          /\ DOMAIN lo_queue' = 1..(n + 1)
          /\ \A i \in 1..n : lo_queue'[i] = lo_queue[i]
          /\ lo_queue'[n + 1] = m
      BY SMTT(30), <2>1, <2>2, SignalSent DEF LoTypes
    <2>4. LoTypes'
      BY <1>1, <1>2, <1>4, <2>1, <2>3 DEF LoTypes, Lo!Listening
    <2>5. ~NoNews' /\ OwnerIsTold'
      BY SMTT(30), <2>2, <2>3 DEF OwnerIsTold, NoNews, IsNews
    <2>6. HintsAreTrue'
      BY SMTT(30), <1>1, <1>2, <2>2, <2>3, LoQueue DEF HintsAreTrue, IsHint, LoTypes
    <2>7. LockIsTold' /\ DebtIsQueued'
      BY <1>2, <2>5 DEF LockIsTold, DebtIsQueued
    <2> QED
      BY <2>4, <2>5, <2>6, <2>7
  <1> QED
    BY <1>3, <1>4

\* The machine is about to sleep.
LEMMA SleepKeepsLo ==
    ASSUME LoTypes, OwnerIsTold, HintsAreTrue, LockIsTold, DebtIsQueued, Lo!Sleep
    PROVE  LoTypes' /\ OwnerIsTold' /\ HintsAreTrue' /\ LockIsTold' /\ DebtIsQueued'
  <1> DEFINE m == Lo!PrepareForSleep(lo_owner)
             n == Len(lo_queue)
  <1>1. /\ lo_queue' = Append(lo_queue, m) /\ owed' = TRUE /\ lo_owner # 0 /\ Lo!Listening
        /\ UNCHANGED <<lo_owner, lo_newest, eligible, locked, matches, lo_pc, session,
                       logind_owner, tracker, told>>
    BY DEF Lo!Sleep, Lo!logind, Lo!observer
  <1>2. m \in LoSignals /\ m.kind = "PrepareForSleep"
    BY DEF Lo!PrepareForSleep, LoSignals, LoTypes
  <1> HIDE DEF m
  <1>3. /\ lo_queue' \in Seq(LoSignals) /\ n \in Nat /\ DOMAIN lo_queue = 1..n
        /\ DOMAIN lo_queue' = 1..(n + 1)
        /\ \A i \in 1..n : lo_queue'[i] = lo_queue[i]
        /\ lo_queue'[n + 1] = m
    BY SMTT(30), <1>1, <1>2, SignalSent DEF LoTypes
  <1>4. LoTypes'
    BY <1>1, <1>3 DEF LoTypes, Lo!Listening
  <1>5. OwnerIsTold' /\ (NoNews' <=> NoNews)
    BY SMTT(30), <1>1, <1>2, <1>3 DEF OwnerIsTold, NoNews, IsNews, Lo!Listening
  <1>6. HintsAreTrue'
    BY SMTT(30), <1>1, <1>2, <1>3 DEF HintsAreTrue, IsHint, IsTrue
  <1>7. Unconcerned' => Unconcerned
    BY SMTT(30), <1>1, <1>3 DEF Unconcerned, Lo!Concerns
  <1>8. LockIsTold'
    BY <1>1, <1>5, <1>7 DEF LockIsTold
  <1>9. DebtIsQueued'
    BY SMTT(30), <1>1, <1>3 DEF DebtIsQueued, m, Lo!PrepareForSleep
  <1> QED
    BY <1>4, <1>5, <1>6, <1>8, <1>9

\* A session is locked or unlocked.
LEMMA LockKeepsLo ==
    ASSUME LoTypes, OwnerIsTold, HintsAreTrue, LockIsTold, DebtIsQueued,
           NEW s \in Sessions, Lo!Lock(s)
    PROVE  LoTypes' /\ OwnerIsTold' /\ HintsAreTrue' /\ LockIsTold' /\ DebtIsQueued'
  <1>0. PICK n \in Nat : n = Len(lo_queue)
    BY Zenon, LoQueue
  <1>1. /\ lo_owner # 0 /\ locked' \in [Sessions -> BOOLEAN]
        /\ \A x \in Sessions : x # s => locked'[x] = locked[x]
        /\ UNCHANGED <<lo_owner, lo_newest, eligible, matches, lo_pc, session, logind_owner,
                       tracker, told, owed>>
    BY DEF Lo!Lock, Lo!observer, Lo!history, LoTypes
  <1>2. CASE <<s, lo_owner>> \notin matches
    <2>1. UNCHANGED lo_queue
      BY <1>2 DEF Lo!Lock
    <2>2. LoTypes' /\ OwnerIsTold' /\ DebtIsQueued'
      BY <1>1, <2>1 DEF LoTypes, OwnerIsTold, DebtIsQueued, NoNews, IsNews, Lo!Listening
    <2>3. HintsAreTrue'
      BY SMTT(30), <1>1, <1>2, <2>1, LoQueue DEF HintsAreTrue, IsHint, IsTrue, LoSignals
    <2>4. LockIsTold'
      BY SMTT(30), <1>1, <1>2, <2>1 DEF LockIsTold, OwnerIsTold, NoNews, IsNews, Unconcerned, Lo!Concerns, LoTypes
    <2> QED
      BY <2>2, <2>3, <2>4
  <1>3. CASE <<s, lo_owner>> \in matches
    <2>1. PICK m \in {Lo!Changed(lo_owner, s, locked'[s]), Lo!Invalidated(lo_owner, s)} :
              lo_queue' = Append(lo_queue, m)
      BY <1>3 DEF Lo!Lock
    <2>2. /\ m \in LoSignals /\ m.kind \in {"Changed", "Invalidated"}
          /\ m.from = lo_owner /\ m.session = s
          /\ m.kind = "Invalidated" \/ m.locked = locked'[s]
      BY SMTT(30), <1>1, <2>1 DEF Lo!Changed, Lo!Invalidated, LoSignals, LoTypes
    <2>3. /\ lo_queue' \in Seq(LoSignals) /\ n \in Nat /\ DOMAIN lo_queue = 1..n
          /\ DOMAIN lo_queue' = 1..(n + 1)
          /\ \A i \in 1..n : lo_queue'[i] = lo_queue[i]
          /\ lo_queue'[n + 1] = m
      BY SMTT(30), <1>0, <2>1, <2>2, SignalSent DEF LoTypes
    <2>4. LoTypes'
      BY <1>1, <2>3, <1>3 DEF LoTypes
    <2>5. OwnerIsTold' /\ (NoNews' <=> NoNews)
      <3>1. (\A i \in 1..n : IsNews(i)' <=> IsNews(i)) /\ (\A i \in 1..(n + 1) : i = n + 1 => ~IsNews(i)')
        BY <2>2, <2>3 DEF IsNews
      <3>2. NoNews' <=> NoNews
        BY SMTT(30), <2>3, <3>1 DEF NoNews
      <3>3. Lo!Listening' => \A i \in 1..(n + 1) : IsNews(i)' =>
                \E k \in 1..(n + 1) : k >= i /\ IsNews(k)' /\ lo_queue'[k].from = lo_owner
        <4> SUFFICES ASSUME Lo!Listening, NEW i \in 1..n, IsNews(i)
                     PROVE  \E k \in 1..(n + 1) : k >= i /\ IsNews(k)' /\ lo_queue'[k].from = lo_owner
          BY SMTT(30), <1>1, <3>1 DEF Lo!Listening
        <4>1. PICK k \in 1..n : k >= i /\ IsNews(k) /\ lo_queue[k].from = lo_owner
          BY <2>3 DEF OwnerIsTold
        <4> QED
          BY SMTT(30), <2>3, <3>1, <4>1
      <3> QED
        BY Zenon, <1>1, <2>3, <3>2, <3>3 DEF OwnerIsTold
    <2>6. HintsAreTrue'
      <3> SUFFICES ASSUME NEW i \in 1..(n + 1), IsHint(i)'
                   PROVE  /\ lo_queue'[i].from \in 1..lo_newest
                          /\ <<lo_queue'[i].session, lo_queue'[i].from>> \in matches
                          /\ lo_queue'[i].from = lo_owner =>
                                \E k \in 1..(n + 1) :
                                    /\ k >= i /\ IsHint(k)' /\ IsTrue(k)'
                                    /\ lo_queue'[k].from = lo_owner
                                    /\ lo_queue'[k].session = lo_queue'[i].session
        BY Zenon, <1>1, <2>3 DEF HintsAreTrue
      <3>1. IsHint(n + 1)' /\ IsTrue(n + 1)'
        BY <2>2, <2>3 DEF IsHint, IsTrue
      <3>2. CASE i = n + 1
        <4>1. lo_owner \in 1..lo_newest
          BY SMTT(30), <1>1 DEF LoTypes
        <4>2. lo_queue'[i].from = lo_owner /\ lo_queue'[i].session = s /\ n + 1 \in 1..(n + 1)
          BY <2>2, <2>3, <3>2
        <4> QED
          BY SMTT(30), <1>3, <3>1, <3>2, <4>1, <4>2
      <3>3. CASE i # n + 1 /\ lo_queue[i].session = s
        BY SMTT(30), <2>2, <2>3, <3>1, <3>3 DEF HintsAreTrue, IsHint
      <3>4. CASE i # n + 1 /\ lo_queue[i].session # s
        BY SMTT(30), <1>1, <2>2, <2>3, <3>4, LoQueue DEF HintsAreTrue, IsHint, IsTrue, LoSignals
      <3> QED
        BY <3>2, <3>3, <3>4
    <2>7. LockIsTold'
      <3>0. Unconcerned' => \A i \in 1..(n + 1) :
                ~(/\ lo_queue'[i].kind \in {"Changed", "Invalidated"}
                  /\ lo_queue'[i].from = logind_owner /\ lo_queue'[i].session = session)
        BY <1>1, <2>3 DEF Unconcerned, Lo!Concerns
      <3>1. Unconcerned' => Unconcerned
        BY SMTT(30), <2>3, <3>0 DEF Unconcerned, Lo!Concerns
      <3>2. Unconcerned' /\ lo_pc = "run" /\ NoNews => s # session
        BY SMTT(30), <2>2, <2>3, <3>0 DEF OwnerIsTold
      <3> QED
        BY <1>1, <2>5, <3>1, <3>2 DEF LockIsTold, LoTypes
    <2>8. DebtIsQueued'
      <3> SUFFICES ASSUME Lo!Listening, owed, NoNews
                   PROVE  \E i \in 1..(n + 1) : lo_queue'[i] = Lo!PrepareForSleep(lo_owner)
        BY <1>1, <2>3, <2>5 DEF DebtIsQueued, Lo!Listening, Lo!PrepareForSleep
      <3>1. PICK i \in 1..n : lo_queue[i] = Lo!PrepareForSleep(lo_owner)
        BY <2>3 DEF DebtIsQueued
      <3> QED
        BY SMTT(30), <2>3, <3>1
    <2> QED
      BY <2>4, <2>5, <2>6, <2>7, <2>8
  <1> QED
    BY <1>2, <1>3
\* A signal is taken from the queue.
LEMMA ProcessKeepsLo ==
    ASSUME LoTypes, OwnerIsTold, HintsAreTrue, LockIsTold, DebtIsQueued, Lo!process
    PROVE  LoTypes' /\ OwnerIsTold' /\ HintsAreTrue' /\ LockIsTold' /\ DebtIsQueued'
  <1>a. lo_queue \in Seq(LoSignals) /\ lo_queue # <<>>
    BY DEF Lo!process, LoTypes
  <1>b. Len(lo_queue) - 1 \in Nat
    BY SMTT(30), <1>a
  <1>0. PICK n \in Nat : n + 1 = Len(lo_queue)
    BY SMTT(30), <1>a, <1>b
  <1> DEFINE m == lo_queue[1]
  <1>1. /\ lo_pc = "run" /\ lo_queue # <<>> /\ lo_queue' = Tail(lo_queue) /\ Head(lo_queue) = m
        /\ UNCHANGED <<lo_owner, lo_newest, eligible, locked, matches>>
    BY SignalTaken DEF Lo!process, Lo!logind, LoTypes
  <1>2. /\ lo_queue' \in Seq(LoSignals) /\ m \in LoSignals /\ DOMAIN lo_queue = 1..(n + 1)
        /\ DOMAIN lo_queue' = 1..n
        /\ \A i \in 1..n : lo_queue'[i] = lo_queue[i + 1]
        /\ \A i \in 2..(n + 1) : i - 1 \in 1..n /\ lo_queue'[i - 1] = lo_queue[i]
    BY SMTT(30), <1>0, <1>1, SignalTaken DEF LoTypes
  <1>3. HintsAreTrue'
    <2> SUFFICES ASSUME NEW i \in 1..n, IsHint(i)'
                 PROVE  /\ lo_queue'[i].from \in 1..lo_newest
                        /\ <<lo_queue'[i].session, lo_queue'[i].from>> \in matches
                        /\ lo_queue'[i].from = lo_owner =>
                              \E k \in 1..n :
                                  /\ k >= i /\ IsHint(k)' /\ IsTrue(k)'
                                  /\ lo_queue'[k].from = lo_owner
                                  /\ lo_queue'[k].session = lo_queue'[i].session
      <3>1. DOMAIN lo_queue' = 1..n /\ lo_newest' = lo_newest /\ matches' = matches
            /\ lo_owner' = lo_owner
        BY <1>1, <1>2
      <3> QED
        BY <3>1 DEF HintsAreTrue
    <2>1. i + 1 \in 1..(n + 1) /\ IsHint(i + 1) /\ lo_queue'[i] = lo_queue[i + 1]
      BY SMTT(30), <1>2 DEF IsHint
    <2>2. CASE lo_queue[i + 1].from = lo_owner
      <3>1. PICK k \in 1..(n + 1) :
                /\ k >= i + 1 /\ IsHint(k) /\ IsTrue(k) /\ lo_queue[k].from = lo_owner
                /\ lo_queue[k].session = lo_queue[i + 1].session
        BY Zenon, <1>2, <2>1, <2>2 DEF HintsAreTrue
      <3>2. k - 1 \in 1..n /\ k - 1 >= i /\ lo_queue'[k - 1] = lo_queue[k]
        BY SMTT(30), <1>2, <3>1
      <3>3. IsHint(k - 1)' /\ IsTrue(k - 1)'
        BY Zenon, <1>1, <3>1, <3>2 DEF IsHint, IsTrue
      <3> QED
        BY SMTT(30), <1>2, <2>1, <3>1, <3>2, <3>3 DEF HintsAreTrue
    <2>3. CASE lo_queue[i + 1].from # lo_owner
      BY <1>2, <2>1, <2>3 DEF HintsAreTrue
    <2> QED
      BY <2>2, <2>3
  <1>4. \A i \in 1..n : IsNews(i)' =>
            \E k \in 1..n : k >= i /\ IsNews(k)' /\ lo_queue'[k].from = lo_owner
    <2> SUFFICES ASSUME NEW i \in 1..n, IsNews(i)'
                 PROVE  \E k \in 1..n : k >= i /\ IsNews(k)' /\ lo_queue'[k].from = lo_owner
      OBVIOUS
    <2>1. i + 1 \in 1..(n + 1) /\ IsNews(i + 1)
      BY SMTT(30), <1>2 DEF IsNews
    <2>2. PICK k \in 1..(n + 1) : k >= i + 1 /\ IsNews(k) /\ lo_queue[k].from = lo_owner
      BY <1>1, <1>2, <2>1 DEF OwnerIsTold, Lo!Listening
    <2>3. k - 1 \in 1..n /\ k - 1 >= i /\ lo_queue'[k - 1] = lo_queue[k]
      BY SMTT(30), <1>2, <2>2
    <2>4. IsNews(k - 1)'
      BY <2>2, <2>3 DEF IsNews
    <2> QED
      BY <2>2, <2>3, <2>4
  <1>5. ~IsNews(1) /\ NoNews' => NoNews
    <2> SUFFICES ASSUME ~IsNews(1), NoNews', NEW i \in 1..(n + 1)
                 PROVE  ~IsNews(i)
      BY <1>2 DEF NoNews
    <2>1. CASE i = 1
      BY <2>1
    <2>2. CASE i # 1
      <3>1. i - 1 \in 1..n /\ lo_queue'[i - 1] = lo_queue[i]
        BY SMTT(30), <1>2, <2>2
      <3> QED
        BY <1>2, <3>1 DEF NoNews, IsNews
    <2> QED
      BY <2>1, <2>2
  <1>6. CASE m.kind = "NameOwnerChanged"
    <2>1. /\ owed' = FALSE /\ UNCHANGED <<session, tracker, told>>
          /\ \/ m.from = 0 /\ lo_pc' = "run" /\ logind_owner' = 0
             \/ m.from # 0 /\ lo_pc' = "resolve" /\ UNCHANGED logind_owner
      BY <1>1, <1>6 DEF Lo!process, Lo!OnOwnerChanged
    <2>2. LoTypes'
      <3>1. UNCHANGED lo_pc \/ lo_pc' = "resolve"
        BY <1>1, <2>1
      <3>2. logind_owner' \in Nat
        BY SMTT(30), <2>1 DEF LoTypes
      <3> QED
        BY Zenon, <1>1, <1>2, <2>1, <3>1, <3>2 DEF LoTypes
    <2>3. NoNews' => m.from = lo_owner
      <3> SUFFICES ASSUME NoNews'
                   PROVE  m.from = lo_owner
        OBVIOUS
      <3>1. PICK k \in 1..(n + 1) : IsNews(k) /\ lo_queue[k].from = lo_owner
        <4>1. 1 \in 1..(n + 1)
          BY SMTT(30), <1>2
        <4>2. IsNews(1)
          BY <1>1, <1>2, <1>6 DEF IsNews
        <4> QED
          BY <1>1, <1>2, <4>1, <4>2 DEF OwnerIsTold, Lo!Listening
      <3>2. CASE k = 1
        BY <3>1, <3>2
      <3>3. CASE k # 1
        <4>1. k - 1 \in 1..n /\ lo_queue'[k - 1] = lo_queue[k]
          BY SMTT(30), <1>2, <3>1, <3>3
        <4>2. IsNews(k - 1)'
          BY <3>1, <4>1 DEF IsNews
        <4> QED
          BY <1>2, <4>1, <4>2 DEF NoNews
      <3> QED
        BY <3>2, <3>3
    <2>4. OwnerIsTold' /\ LockIsTold' /\ DebtIsQueued'
      BY Zenon, <1>1, <1>2, <1>4, <2>1, <2>3 DEF OwnerIsTold, LockIsTold, DebtIsQueued
    <2> QED
      BY <1>3, <2>2, <2>4
  <1>7. CASE m.kind # "NameOwnerChanged"
    <2>1. /\ ~IsNews(1) /\ owed' = (owed /\ ~Lo!Notices(m)) /\ UNCHANGED <<session, logind_owner>>
      BY <1>1, <1>7 DEF Lo!process, IsNews, Lo!publish_locked_hint
    <2>2. \/ /\ Lo!Concerns(m) /\ m.kind = "Changed" /\ lo_pc' = "run"
             /\ tracker' = IF m.locked THEN "locked" ELSE "unlocked"
             /\ told' = "Lock" <=> m.locked
          \/ /\ Lo!Concerns(m) /\ m.kind = "Invalidated" /\ lo_pc' = "read"
             /\ UNCHANGED <<tracker, told>>
          \/ ~Lo!Concerns(m) /\ lo_pc' = "run" /\ UNCHANGED <<tracker, told>>
      BY <1>1, <1>7 DEF Lo!process, Lo!publish_locked_hint, Lo!Concerns, LoTypes
    <2>3. LoTypes'
      BY <1>1, <1>2, <2>1, <2>2 DEF LoTypes
    <2>4. OwnerIsTold'
      BY Zenon, <1>1, <1>2, <1>4, <1>5, <2>1, <2>2 DEF OwnerIsTold
    <2>5. LockIsTold'
      <3>1. lo_pc' \in {"read", "run"} /\ logind_owner' # 0 => <<session', logind_owner'>> \in matches'
        BY <1>1, <2>1 DEF LockIsTold
      <3> SUFFICES ASSUME lo_pc' = "run", NoNews', lo_owner # 0, Unconcerned'
                   PROVE  told' = "Lock" <=> locked[session]
        BY <1>1, <2>1, <3>1 DEF LockIsTold
      <3>2. NoNews /\ logind_owner = lo_owner
        BY <1>1, <1>5, <2>1 DEF OwnerIsTold
      <3>3. \A i \in 2..(n + 1) : ~Lo!Concerns(lo_queue[i])
        BY <1>2, <2>1 DEF Unconcerned, Lo!Concerns
      <3>4. CASE Lo!Concerns(m)
        <4>1. m.kind = "Changed" /\ (told' = "Lock" <=> m.locked)
          BY <2>2, <3>4
        <4>2. PICK k \in 1..(n + 1) :
                  /\ IsHint(k) /\ IsTrue(k) /\ lo_queue[k].from = lo_owner
                  /\ lo_queue[k].session = m.session
          <5>1. 1 \in 1..(n + 1) /\ IsHint(1) /\ m.from = lo_owner
            BY SMTT(30), <3>2, <3>4 DEF IsHint, Lo!Concerns
          <5> QED
            BY Zenon, <1>2, <5>1 DEF HintsAreTrue
        <4>3. k = 1
          BY SMTT(30), <3>2, <3>3, <3>4, <4>2 DEF IsHint, Lo!Concerns
        <4> QED
          BY <3>4, <4>1, <4>2, <4>3 DEF IsTrue, Lo!Concerns
      <3>5. CASE ~Lo!Concerns(m)
        <4>1. Unconcerned
          BY SMTT(30), <1>2, <3>3, <3>5 DEF Unconcerned
        <4> QED
          BY <1>1, <2>2, <3>2, <3>5, <4>1 DEF LockIsTold
      <3> QED
        BY <3>4, <3>5
    <2>6. DebtIsQueued'
      <3> SUFFICES ASSUME owed', NoNews'
                   PROVE  /\ lo_owner # 0
                          /\ \E i \in 1..n : lo_queue'[i] = Lo!PrepareForSleep(lo_owner)
        BY Zenon, <1>1, <1>2 DEF DebtIsQueued, Lo!PrepareForSleep
      <3>1. NoNews /\ logind_owner = lo_owner /\ owed /\ ~Lo!Notices(m)
        BY Zenon, <1>1, <1>5, <2>1 DEF OwnerIsTold
      <3>2. lo_owner # 0
        BY <1>1, <3>1 DEF DebtIsQueued, Lo!Listening
      <3>3. PICK i \in 1..(n + 1) : lo_queue[i] = Lo!PrepareForSleep(lo_owner)
        BY <1>1, <1>2, <3>1 DEF DebtIsQueued, Lo!Listening
      <3>4. i # 1
        BY SMTT(30), <3>1, <3>2, <3>3 DEF Lo!Notices, Lo!PrepareForSleep
      <3> QED
        BY SMTT(30), <1>2, <3>2, <3>3, <3>4
    <2> QED
      BY <1>3, <2>3, <2>4, <2>5, <2>6
  <1> QED
    BY <1>6, <1>7

\* The lock observer that starts.
LEMMA LoInit ==
    ASSUME Lo!Init
    PROVE  LoAll
  <1>1. LoTypes
    <2>1. lo_owner = 1 /\ lo_newest = 1 /\ logind_owner = 0 /\ owed = FALSE /\ matches = {}
          /\ lo_queue = <<>> /\ lo_pc = "start" /\ tracker = "none" /\ told = "Unlock"
          /\ eligible \subseteq Sessions /\ locked \in [Sessions -> BOOLEAN]
      BY DEF Lo!Init, Lo!None
    <2> QED
      <3>1. lo_queue \in Seq(LoSignals)
        BY SMTT(30), <2>1
      <3>2. lo_owner \in Nat /\ lo_newest \in Nat /\ lo_owner <= lo_newest /\ logind_owner \in Nat
        BY SMTT(30), <2>1
      <3>3. owed \in BOOLEAN /\ (told = "Lock" <=> tracker = "locked")
        BY Zenon, <2>1
      <3> QED
        BY SMTT(30), <2>1, <3>1, <3>2, <3>3, Zenon DEF LoTypes
  <1>2. lo_queue = <<>> /\ DOMAIN lo_queue = {} /\ lo_pc = "start" /\ ~owed
    BY SMTT(30) DEF Lo!Init
  <1> QED
    BY <1>1, <1>2 DEF LoAll, OwnerIsTold, HintsAreTrue, LockIsTold, DebtIsQueued

\* No step of the lock observer or of its surroundings breaks the invariant.
LEMMA LoNext ==
    ASSUME LoAll, Lo!Next \/ UNCHANGED Lo!vars
    PROVE  LoAll'
  <1> SUFFICES ASSUME LoTypes, OwnerIsTold, HintsAreTrue, LockIsTold, DebtIsQueued
               PROVE  LoTypes' /\ OwnerIsTold' /\ HintsAreTrue' /\ LockIsTold' /\ DebtIsQueued'
    BY DEF LoAll
  <1>1. CASE UNCHANGED Lo!vars
    <2>1. LoTypes'
      BY SMTT(30), <1>1 DEF LoTypes, Lo!vars, Lo!logind, Lo!observer, Lo!history
    <2>2. OwnerIsTold' /\ DebtIsQueued'
      BY SMTT(30), <1>1 DEF OwnerIsTold, DebtIsQueued, NoNews, IsNews, Lo!Listening, Lo!vars, Lo!logind,
                              Lo!observer, Lo!history
    <2>3. HintsAreTrue'
      BY SMTT(30), <1>1 DEF HintsAreTrue, IsHint, IsTrue, Lo!vars, Lo!logind, Lo!observer, Lo!history
    <2>4. LockIsTold'
      BY <1>1 DEF LockIsTold, Unconcerned, Lo!Concerns, NoNews, IsNews, Lo!vars, Lo!logind,
                  Lo!observer, Lo!history
    <2> QED
      BY SMTT(30), <2>1, <2>2, <2>3, <2>4
  <1> QED
    BY SMTT(30), <1>1, CallKeepsLo, RestartKeepsLo, SleepKeepsLo, LockKeepsLo, ProcessKeepsLo
       DEF Lo!Next, Lo!Observer

\* What the invariant says of an observer that has caught up.
LEMMA LoSafe ==
    ASSUME LoAll
    PROVE  Lo!LockStateIsKnown /\ Lo!SuspendIsNoticed
  <1>1. lo_queue = <<>> => DOMAIN lo_queue = {} /\ NoNews /\ Unconcerned
    BY SMTT(30) DEF NoNews, Unconcerned
  <1>2. Lo!SuspendIsNoticed
    BY <1>1 DEF LoAll, DebtIsQueued, Lo!SuspendIsNoticed, Lo!Listening
  <1>3. lo_pc = "run" /\ lo_queue = <<>> /\ lo_owner # 0 => (told = "Lock" <=> locked[session])
    BY <1>1 DEF LoAll, LockIsTold
  <1>4. lo_pc = "run" => locked[session] \in BOOLEAN
    BY SMTT(30) DEF LoAll, LoTypes
  <1> QED
    BY SMTT(30), <1>2, <1>3, <1>4 DEF Lo!LockStateIsKnown

-----------------------------------------------------------------------------
(***************************************************************************)
(* The DPMS observer: what is stored as On is what was lit and known.      *)
(***************************************************************************)
CONSTANTS Connectors

VARIABLES
    tree, hardware, prev, blanked, lit

Dp == INSTANCE DpmsObserver

DpAll ==
    /\ hardware \in [Connectors -> Dp!States] /\ tree \in BOOLEAN
    /\ prev = [c \in Connectors |-> prev[c]] /\ lit \subseteq Connectors
    /\ \A c \in Connectors : prev[c] = "On" <=> c \in lit

\* A step of the observer or of the displays keeps the invariant and reports what it may.
LEMMA DpNext ==
    ASSUME DpAll, Dp!Next
    PROVE  DpAll' /\ Dp!RealBlank
  <1> USE DEF Dp!States, Dp!Absent
  <1>1. CASE Dp!Change
    <2>1. /\ hardware' \in [Connectors -> Dp!States] /\ tree' \in BOOLEAN
          /\ UNCHANGED <<prev, blanked, lit>>
      BY Zenon, <1>1 DEF DpAll, Dp!Change
    <2> QED
      BY SMTT(30), <2>1 DEF DpAll, Dp!RealBlank
  <1>2. CASE Dp!Poll
    <2>1. CASE tree
      <3>1. /\ blanked' = Dp!transitioned /\ prev' = [c \in Connectors |-> Dp!Retained(c)]
            /\ lit' = {c \in Connectors : hardware[c] = "on"} /\ UNCHANGED <<tree, hardware>>
        BY SMTT(30), <1>2, <2>1 DEF Dp!Poll
      <3>2. \A c \in Connectors : prev'[c] = "On" <=> c \in lit'
        BY SMTT(30), <3>1 DEF DpAll, Dp!Retained, Dp!Present, Dp!reading_from_snapshot
      <3>3. Dp!transitioned <=> \E c \in lit : hardware[c] = "off"
        BY DEF DpAll, Dp!transitioned, Dp!Present, Dp!reading_from_snapshot
      <3>4. DpAll'
        BY SMTT(30), <3>1, <3>2 DEF DpAll
      <3>5. blanked' = (tree /\ \E c \in lit : hardware[c] = "off")
        BY <2>1, <3>1, <3>3 DEF Dp!transitioned
      <3> QED
        BY SMTT(30), <3>4, <3>5 DEF Dp!RealBlank
    <2>2. CASE ~tree
      BY Zenon, <1>2, <2>2 DEF DpAll, Dp!Poll, Dp!RealBlank
    <2> QED
      BY <2>1, <2>2
  <1> QED
    BY <1>1, <1>2 DEF Dp!Next

-----------------------------------------------------------------------------
(* Natural numbers. *)

WF == INSTANCE WellFoundedInduction

\* Every set of natural numbers has a least element.
LEMMA Least ==
    ASSUME NEW T, T \subseteq Nat, T # {}
    PROVE  \E x \in T : \A y \in T : x <= y
  <1>1. PICK x \in T : \A y \in T : ~(<<y, x>> \in WF!OpToRel(<, Nat))
    BY Zenon, WF!WFMin, WF!NatLessThanWellFounded
  <1>2. ASSUME NEW y \in T
        PROVE  x <= y
    <2>1. x \in Nat /\ y \in Nat
      OBVIOUS
    <2>2. ~(y < x)
      BY Zenon, <1>1, <2>1 DEF WF!OpToRel
    <2> QED
      BY SMTT(30), <2>1, <2>2
  <1> QED
    BY <1>2

-----------------------------------------------------------------------------
(***************************************************************************)
(* The gamepad thread.  The baseline of a pad that nobody touched is where *)
(* the pad rests: a reader that is opened seeds it, and one that fails     *)
(* takes the baseline of whatever was plugged in before along.             *)
(***************************************************************************)
CONSTANTS
    Devices, Rests, MaxPos, Threshold, Quiet, Cooldown, Debounce, RetryInterval,
    ReconcileInterval, SendInterval, MaxEvents

VARIABLES
    plugged, wheels, dir_ok, signalled, watching, rest, pos, events, report, source, pending,
    reconcile, since_sent, running, touched, credited

Gp == INSTANCE Gamepad WITH status <- plugged

\* The trembling of an axis that nobody touches is below the threshold.
Sane == Rests \subseteq Nat /\ MaxPos \in Nat /\ Threshold \in Nat /\ Threshold >= 2

Axes == [known : BOOLEAN, baseline : Nat, age : Int, cool : Int]
AtRest(axis, r) == axis \in Axes /\ axis.known /\ axis.baseline \in {r, r + 1}

\* One event of an axis at rest.
LEMMA ObserveAtRest ==
    ASSUME Sane, NEW r \in Nat,
           NEW seen, AtRest(seen.axis, r), seen.activity = FALSE,
           NEW e, e.kind = "axis", e.value \in {r, r + 1}
    PROVE  AtRest(Gp!observe(seen, e).axis, r) /\ Gp!observe(seen, e).activity = FALSE
  <1>1. ~(Gp!Distance(e.value, seen.axis.baseline) >= Threshold)
    BY SMTT(30) DEF Sane, AtRest, Axes, Gp!Distance
  <1>2. PICK a \in Axes : a = seen.axis /\ a.known /\ a.baseline \in {r, r + 1}
    BY DEF AtRest
  <1>3. Gp!evaluate_axis_event(a, e.value).activity = FALSE
    BY Zenon, <1>1, <1>2 DEF Gp!evaluate_axis_event
  <1>4. \/ Gp!evaluate_axis_event(a, e.value).axis = a
        \/ Gp!evaluate_axis_event(a, e.value).axis =
               [known |-> a.known, baseline |-> e.value, age |-> 0, cool |-> a.cool]
    <2>1. CASE a.age >= Quiet
      BY Zenon, <1>1, <1>2, <2>1 DEF Gp!evaluate_axis_event, Axes
    <2>2. CASE ~(a.age >= Quiet)
      BY Zenon, <1>1, <1>2, <2>2 DEF Gp!evaluate_axis_event, Axes
    <2> QED
      BY <2>1, <2>2
  <1>5. AtRest(Gp!evaluate_axis_event(a, e.value).axis, r)
    <2>1. [known |-> a.known, baseline |-> e.value, age |-> 0, cool |-> a.cool] \in Axes
      BY SMTT(30) DEF Axes
    <2> QED
      BY SMTT(30), <1>2, <1>4, <2>1 DEF AtRest
  <1> QED
    BY Zenon, <1>2, <1>3, <1>5 DEF Gp!observe

\* All that a reader of an axis at rest has read.
LEMMA ObserveAllAtRest ==
    ASSUME Sane, NEW r \in Nat,
           NEW axis, AtRest(axis, r),
           NEW batch, Len(batch) \in Nat,
           \A i \in 1..Len(batch) : batch[i].kind = "axis" /\ batch[i].value \in {r, r + 1}
    PROVE  AtRest(Gp!observe_all(axis, batch).axis, r) /\ Gp!observe_all(axis, batch).activity = FALSE
  <1> DEFINE First == [axis |-> axis, activity |-> FALSE]
             Step(f, n) == [i \in 0..n |-> IF i = 0 THEN First ELSE Gp!observe(f[i - 1], batch[i])]
             Good(s) == AtRest(s.axis, r) /\ s.activity = FALSE
  <1>0. PICK N \in Nat : N = Len(batch)
    OBVIOUS
  <1>1. \E f : f = Step(f, N)
    <2> DEFINE T == {n \in 0..N : ~\E f : f = Step(f, n)}
    <2>0. T \subseteq Nat
      BY SMTT(30)
    <2>00. N \in 0..N
      BY SMTT(30)
    <2> SUFFICES ASSUME T # {}
                 PROVE  FALSE
      BY <2>00, Zenon
    <2>1. PICK n \in T : \A y \in T : n <= y
      BY Zenon, <2>0, Least
    <2>2. n \in 0..N /\ ~\E f : f = Step(f, n)
      BY <2>1
    <2>3. n # 0
      <3> SUFFICES \E f : f = Step(f, 0)
        BY Zenon, <2>2
      <3> DEFINE f0 == [i \in 0..0 |-> First]
      <3>1. f0 = Step(f0, 0)
        BY SMTT(30)
      <3> QED
        BY Zenon, <3>1
    <2>4. n - 1 \in 0..N /\ n - 1 < n
      BY SMTT(30), <2>2, <2>3
    <2>5. n - 1 \notin T
      <3> HIDE DEF T
      <3> QED
        BY SMTT(30), <2>1, <2>2, <2>4
    <2>6. PICK f : f = Step(f, n - 1)
      BY <2>4, <2>5
    <2>7. \A i \in 0..(n - 1) : f[i] = IF i = 0 THEN First ELSE Gp!observe(f[i - 1], batch[i])
      BY Zenon, <2>6
    <2> DEFINE g == [i \in 0..n |-> IF i = n THEN Gp!observe(f[n - 1], batch[n]) ELSE f[i]]
    <2>8. g = Step(g, n)
      <3>1. ASSUME NEW i \in 0..n
            PROVE  g[i] = IF i = 0 THEN First ELSE Gp!observe(g[i - 1], batch[i])
        <4>1. CASE i = 0
          <5>1. 0 \in 0..(n - 1) /\ 0 # n /\ 0 \in 0..n
            BY SMTT(30), <2>2, <2>3
          <5>2. f[0] = First
            BY Zenon, <2>7, <5>1
          <5> QED
            BY SMTT(30), <4>1, <5>1, <5>2
        <4>2. CASE i = n
          BY SMTT(30), <2>2, <2>3, <4>2
        <4>3. CASE i # 0 /\ i # n
          <5>1. i \in 0..(n - 1) /\ i - 1 \in 0..n /\ i - 1 # n
            BY SMTT(30), <2>2, <4>3
          <5>2. g[i] = f[i] /\ g[i - 1] = f[i - 1]
            BY <4>3, <5>1
          <5> QED
            BY SMTT(30), <2>7, <4>3, <5>1, <5>2
        <4> QED
          BY SMTT(30), <4>1, <4>2, <4>3
      <3> QED
        BY Zenon, <3>1
    <2> QED
      BY Zenon, <2>2, <2>8
  <1>2. PICK seen : seen = (CHOOSE f : f = Step(f, N)) /\ seen = Step(seen, N)
    BY <1>1
  <1>3. Gp!observe_all(axis, batch) = seen[N]
    BY <1>0, <1>2 DEF Gp!observe_all
  <1>4. /\ seen[0] = First
        /\ \A i \in 1..N : seen[i] = Gp!observe(seen[i - 1], batch[i])
    <2>1. seen = Step(seen, N)
      BY Zenon, <1>2
    <2>2. \A i \in 0..N : seen[i] = IF i = 0 THEN First ELSE Gp!observe(seen[i - 1], batch[i])
      BY Zenon, <2>1
    <2>3. 0 \in 0..N /\ \A i \in 1..N : i \in 0..N /\ i # 0
      BY SMTT(30)
    <2> QED
      BY Zenon, <2>2, <2>3
  <1>5. \A n \in 0..N : Good(seen[n])
    <2> DEFINE T == {n \in 0..N : ~Good(seen[n])}
    <2>0. T \subseteq Nat
      BY SMTT(30)
    <2> SUFFICES ASSUME T # {}
                 PROVE  FALSE
      BY Zenon
    <2>1. PICK n \in T : \A y \in T : n <= y
      BY Zenon, <2>0, Least
    <2>2. n \in 0..N /\ ~Good(seen[n])
      BY <2>1
    <2>3. Good(seen[0])
      BY SMTT(30), <1>4
    <2>4. n \in 1..N /\ n - 1 \in 0..N /\ n - 1 < n
      BY SMTT(30), <2>2, <2>3
    <2>5. Good(seen[n - 1])
      BY SMTT(30), <2>1, <2>2, <2>4
    <2>6. Good(Gp!observe(seen[n - 1], batch[n]))
      <3>1. batch[n].kind = "axis" /\ batch[n].value \in {r, r + 1}
        BY <1>0, <2>4
      <3>2. AtRest(seen[n - 1].axis, r) /\ seen[n - 1].activity = FALSE
        BY <2>5
      <3> QED
        <4>1. PICK x, e : x = seen[n - 1] /\ e = batch[n]
          OBVIOUS
        <4>2. /\ AtRest(x.axis, r) /\ x.activity = FALSE /\ e.kind = "axis"
              /\ e.value = r \/ e.value = r + 1
          BY SMTT(30), <3>1, <3>2, <4>1
        <4>3. AtRest(Gp!observe(x, e).axis, r) /\ Gp!observe(x, e).activity = FALSE
          BY Zenon, <4>2, ObserveAtRest
        <4> QED
          BY <4>1, <4>3
    <2> QED
      BY SMTT(30), <1>4, <2>2, <2>4, <2>6
  <1> QED
    BY SMTT(30), <1>0, <1>3, <1>5

PadEvents == [kind : {"axis", "button"}, value : Nat]

GpTypes ==
    /\ plugged \in [Devices -> {"gone", "flaky", "ready"}] /\ wheels \subseteq Devices
    /\ rest \in [Devices -> Nat] /\ pos \in [Devices -> Nat] /\ touched \in [Devices -> BOOLEAN]
    /\ events \in [Devices -> Seq(PadEvents)]
    /\ source = [reader |-> source.reader, adapter |-> source.adapter, registry |-> source.registry]
    /\ source.reader \in [Devices -> {"none", "stale", "live"}]
    /\ source.adapter \in [Devices -> {"none", "stale", "live"}]

Pads == Devices \ wheels

EventsAtRest(batch, r) == \A i \in DOMAIN batch : batch[i].kind = "axis" /\ batch[i].value \in {r, r + 1}

\* One more event of an axis at rest.
LEMMA RestGoesOn ==
    ASSUME NEW r \in Nat, NEW batch \in Seq(PadEvents), EventsAtRest(batch, r),
           NEW e \in PadEvents, e.kind = "axis", e.value \in {r, r + 1}
    PROVE  EventsAtRest(Append(batch, e), r)
  <1>1. ASSUME NEW i \in 1..(Len(batch) + 1)
        PROVE  i \in 1..Len(batch) \/ i = Len(batch) + 1
    BY SMTT(30), SignalSent
  <1>2. /\ DOMAIN batch = 1..Len(batch) /\ DOMAIN Append(batch, e) = 1..(Len(batch) + 1)
        /\ \A i \in 1..Len(batch) : Append(batch, e)[i] = batch[i]
        /\ Append(batch, e)[Len(batch) + 1] = e
    BY SMTT(30), SignalSent
  <1> QED
    BY <1>1, <1>2 DEF EventsAtRest

\* The readers and the baseline of a pad.
Tame(src, d) ==
    /\ src.adapter[d] = "none" /\ src.reader[d] \in {"none", "stale", "live"}
    /\ src.reader[d] = "live" => plugged[d] # "gone"
    /\ src.reader[d] # "live" => events[d] = <<>>
    /\ "pad" \in DOMAIN src.registry[d]
    /\ src.reader[d] = "none" => src.registry[d]["pad"] = Gp!NoAxis
    /\ src.reader[d] = "live" /\ ~touched[d] =>
           AtRest(src.registry[d]["pad"], rest[d]) /\ EventsAtRest(events[d], rest[d])

AtRestIsNear == \A d \in Devices : ~touched[d] => pos[d] \in {rest[d], rest[d] + 1}

GpAll ==
    /\ GpTypes /\ AtRestIsNear /\ \A d \in Pads : Tame(source, d)
    /\ credited \subseteq Devices /\ \A d \in credited \ wheels : touched[d]

\* A reader that is opened takes the axis to be where it is.
LEMMA Seeded ==
    ASSUME NEW v \in Nat
    PROVE  /\ Gp!evaluate_axis_event(Gp!NoAxis, v).axis \in Axes
           /\ Gp!evaluate_axis_event(Gp!NoAxis, v).axis.known
           /\ Gp!evaluate_axis_event(Gp!NoAxis, v).axis.baseline = v
  BY SMTT(30) DEF Gp!evaluate_axis_event, Gp!NoAxis, Axes

\* A source without readers.
LEMMA NoSourceIsTame ==
    ASSUME NEW d \in Pads, events[d] = <<>>
    PROVE  Tame(Gp!NoSource, d)
  BY DEF Pads, Tame, Gp!NoSource, Gp!NoDevice, Gp!Surfaces

\* A pad whose reader was opened just now.
LEMMA OpenedIsTame ==
    ASSUME GpTypes, AtRestIsNear, NEW d \in Pads, plugged[d] # "gone", events[d] = <<>>,
           NEW device, "pad" \in DOMAIN device, device["pad"] = Gp!NoAxis
    PROVE  LET seeded == Gp!seed_initial_axis_events(device, d)
           IN  /\ "pad" \in DOMAIN seeded
               /\ ~touched[d] => AtRest(seeded["pad"], rest[d]) /\ EventsAtRest(events[d], rest[d])
  <1>1. d \in Devices /\ pos[d] \in Nat
    BY DEF GpTypes, Pads
  <1>2. /\ Gp!seed_initial_axis_events(device, d)["pad"] = Gp!evaluate_axis_event(Gp!NoAxis, pos[d]).axis
        /\ DOMAIN Gp!seed_initial_axis_events(device, d) = DOMAIN device
    BY DEF Gp!seed_initial_axis_events
  <1>3. ~touched[d] => pos[d] \in {rest[d], rest[d] + 1}
    BY <1>1 DEF AtRestIsNear
  <1>4. EventsAtRest(events[d], rest[d])
    BY SMTT(30) DEF EventsAtRest
  <1> QED
    BY SMTT(30), <1>1, <1>2, <1>3, <1>4, Seeded DEF AtRest

\* A refresh keeps the readers of the pads that are there, opens others and drops those of
\* the pads that have gone.
LEMMA RefreshIsTame ==
    ASSUME GpTypes, AtRestIsNear, NEW sane, NEW open, sane \subseteq Gp!Listed,
           NEW d \in Pads, Tame(source, d)
    PROVE  Tame(Gp!refresh_gamepad_activity_source(source, sane, open), d)
  <1> DEFINE src == Gp!refresh_gamepad_activity_source(source, sane, open)
  <1> SUFFICES Tame(src, d)
    OBVIOUS
  <1>1. d \in Devices /\ d \notin wheels /\ (d \in Gp!Listed <=> plugged[d] # "gone")
    BY DEF Pads, Gp!Listed
  <1>2. src.adapter[d] = "none"
    BY <1>1 DEF Gp!refresh_gamepad_activity_source, Tame
  <1>3. CASE d \notin Gp!Listed
    <2>1. src.reader[d] = "none" /\ src.registry[d] = Gp!NoDevice
      BY <1>1, <1>3 DEF Gp!refresh_gamepad_activity_source
    <2>2. events[d] = <<>>
      BY <1>1, <1>3 DEF Tame
    <2> HIDE DEF src
    <2> QED
      BY SMTT(30), <1>2, <2>1, <2>2 DEF Tame, Gp!NoDevice, Gp!Surfaces
  <1>4. CASE d \in Gp!Listed /\ d \in sane \cap open /\ source.reader[d] = "none"
    <2>1. src.reader[d] = "live" /\ src.registry[d] = Gp!seed_initial_axis_events(source.registry[d], d)
      BY <1>1, <1>4 DEF Gp!refresh_gamepad_activity_source
    <2>2. /\ events[d] = <<>> /\ "pad" \in DOMAIN source.registry[d]
          /\ source.registry[d]["pad"] = Gp!NoAxis /\ plugged[d] # "gone"
      BY <1>1, <1>4 DEF Tame
    <2> HIDE DEF src
    <2> QED
      BY SMTT(30), <1>2, <2>1, <2>2, OpenedIsTame DEF Tame
  <1>5. CASE d \in Gp!Listed /\ ~(d \in sane \cap open /\ source.reader[d] = "none")
    <2>1. src.reader[d] = source.reader[d] /\ src.registry[d] = source.registry[d]
      BY <1>1, <1>5 DEF Gp!refresh_gamepad_activity_source
    <2> HIDE DEF src
    <2> QED
      BY <1>2, <2>1 DEF Tame
  <1> QED
    BY SMTT(30), <1>3, <1>4, <1>5

\* The source that an iteration polls.
LEMMA RefreshedIsTame ==
    ASSUME GpTypes, AtRestIsNear, \A d \in Pads : Tame(source, d),
           NEW sane, NEW open, NEW sane2, NEW open2, sane \subseteq Gp!Listed, sane2 \subseteq Gp!Listed,
           NEW d \in Pads
    PROVE  Tame(Gp!Refreshed(sane, open, sane2, open2), d)
  <1>1. PICK kept : kept = IF Gp!is_empty(source) \/ ~dir_ok THEN source
                           ELSE Gp!refresh_gamepad_activity_source(source, sane, open)
    OBVIOUS
  <1>2. Tame(kept, d)
    BY <1>1, RefreshIsTame
  <1>3. Gp!Refreshed(sane, open, sane2, open2) =
            CASE ~Gp!is_empty(kept) -> kept
              [] Gp!is_empty(kept) /\ dir_ok -> Gp!open_gamepad_activity_source(sane2, open2)
              [] Gp!is_empty(kept) /\ ~dir_ok -> Gp!NoSource
    BY <1>1 DEF Gp!Refreshed
  <1>4. CASE ~Gp!is_empty(kept)
    BY SMTT(30), <1>2, <1>3, <1>4
  <1>5. CASE Gp!is_empty(kept)
    <2>1. d \in Devices /\ d \notin wheels /\ (d \in Gp!Listed <=> plugged[d] # "gone")
      BY DEF Pads, Gp!Listed
    <2>2. events[d] = <<>>
      BY SMTT(30), <1>2, <1>5, <2>1 DEF Tame, Gp!is_empty
    <2>3. CASE ~dir_ok
      BY SMTT(30), <1>3, <1>5, <2>2, <2>3, NoSourceIsTame
    <2>4. CASE dir_ok
      <3> DEFINE src == Gp!open_gamepad_activity_source(sane2, open2)
      <3>1. src.adapter[d] = "none"
        BY <2>1 DEF Gp!open_gamepad_activity_source
      <3>2. CASE d \in sane2 \cap open2
        <4>1. src.reader[d] = "live" /\ src.registry[d] = Gp!seed_initial_axis_events(Gp!NoDevice, d)
          BY <2>1, <3>2 DEF Gp!open_gamepad_activity_source
        <4>2. "pad" \in DOMAIN Gp!NoDevice /\ Gp!NoDevice["pad"] = Gp!NoAxis /\ plugged[d] # "gone"
          BY <2>1, <3>2 DEF Gp!NoDevice, Gp!Surfaces
        <4> HIDE DEF src
        <4>3. Tame(src, d)
          BY SMTT(30), <2>2, <3>1, <4>1, <4>2, OpenedIsTame DEF Tame
        <4> QED
          BY SMTT(30), <1>3, <1>5, <2>4, <4>3 DEF src
      <3>3. CASE d \notin sane2 \cap open2
        <4>1. src.reader[d] = "none" /\ src.registry[d] = Gp!NoDevice
          BY <2>1, <3>3 DEF Gp!open_gamepad_activity_source
        <4> HIDE DEF src
        <4>2. Tame(src, d)
          BY SMTT(30), <2>2, <3>1, <4>1 DEF Tame, Gp!NoDevice, Gp!Surfaces
        <4> QED
          BY <1>3, <1>5, <2>4, <4>2 DEF src
      <3> QED
        BY <3>2, <3>3
    <2> QED
      BY <2>3, <2>4
  <1> QED
    BY <1>4, <1>5

\* A poll of a pad: what it leaves of the reader and the baseline, and that it finds no
\* activity where nobody touched the pad.
LEMMA PollIsTame ==
    ASSUME Sane, GpTypes, NEW src, NEW d \in Pads, Tame(src, d)
    PROVE  LET polled == Gp!AfterAdapter(src, d)
           IN  /\ polled.adapter = "none"
               /\ polled.reader = IF src.reader[d] = "live" THEN "live" ELSE "none"
               /\ src.reader[d] # "live" => polled.device["pad"] = Gp!NoAxis
               /\ src.reader[d] = "live" /\ ~touched[d] => AtRest(polled.device["pad"], rest[d])
               /\ ~touched[d] => ~polled.activity
  <1> DEFINE read == Gp!observe_all(src.registry[d]["pad"], events[d])
             first == Gp!AfterReader(src, d)
             polled == Gp!AfterAdapter(src, d)
  <1>1. d \in Devices /\ rest[d] \in Nat /\ events[d] \in Seq(PadEvents) /\ touched[d] \in BOOLEAN
    BY DEF GpTypes, Pads
  <1>2. /\ polled.adapter = "none" /\ polled.reader = first.reader /\ polled.device = first.device
        /\ polled.activity <=> first.activity
    BY Zenon DEF Gp!AfterAdapter, Tame
  <1>3. CASE src.reader[d] = "live"
    <2>1. /\ first.reader = "live" /\ (first.activity <=> read.activity)
          /\ first.device = [src.registry[d] EXCEPT !["pad"] = read.axis]
      BY Zenon, <1>3 DEF Gp!AfterReader
    <2>2. first.device["pad"] = read.axis
      BY <2>1 DEF Tame
    <2>3. ~touched[d] => AtRest(read.axis, rest[d]) /\ read.activity = FALSE
      <3> SUFFICES ASSUME ~touched[d]
                   PROVE  AtRest(read.axis, rest[d]) /\ read.activity = FALSE
        BY Zenon
      <3>0. PICK r \in Nat : r = rest[d]
        BY <1>1
      <3>1. PICK axis, batch : axis = src.registry[d]["pad"] /\ batch = events[d]
        OBVIOUS
      <3>2. /\ AtRest(axis, r) /\ Len(batch) \in Nat
            /\ \A i \in 1..Len(batch) : batch[i].kind = "axis" /\ batch[i].value \in {r, r + 1}
        BY SMTT(30), <1>1, <1>3, <3>0, <3>1 DEF Tame, EventsAtRest
      <3>3. AtRest(Gp!observe_all(axis, batch).axis, r) /\ Gp!observe_all(axis, batch).activity = FALSE
        BY Zenon, <3>2, ObserveAllAtRest
      <3> QED
        BY SMTT(30), <3>0, <3>1, <3>3
    <2> HIDE DEF read, first, polled
    <2> QED
      BY SMTT(30), <1>2, <1>3, <2>1, <2>2, <2>3 DEF first, polled
  <1>4. CASE src.reader[d] # "live"
    <2>1. /\ first.reader = "none" /\ first.activity = FALSE
          /\ first.device = IF src.reader[d] = "stale" THEN Gp!NoDevice ELSE src.registry[d]
      BY Zenon, <1>4 DEF Gp!AfterReader, Gp!Forgotten, Tame
    <2>2. first.device["pad"] = Gp!NoAxis
      BY <1>4, <2>1 DEF Tame, Gp!NoDevice, Gp!Surfaces
    <2> HIDE DEF first, polled
    <2> QED
      BY <1>2, <1>4, <2>1, <2>2 DEF polled
  <1> QED
    BY <1>3, <1>4

\* The tick of an iteration leaves a baseline where it is.
LEMMA AgedAtRest ==
    /\ Gp!Aged(Gp!NoAxis) = Gp!NoAxis
    /\ \A axis, r : AtRest(axis, r) => AtRest(Gp!Aged(axis), r)
  <1>1. ASSUME NEW a \in Axes
        PROVE  /\ Gp!Aged(a) \in Axes /\ Gp!Aged(a).known = a.known /\ Gp!Aged(a).baseline = a.baseline
               /\ ~a.known => Gp!Aged(a).age = a.age
               /\ a.cool = 0 => Gp!Aged(a).cool = 0
    <2> DEFINE age  == IF a.known /\ a.age < Quiet THEN a.age + 1 ELSE a.age
               cool == IF a.cool > 0 THEN a.cool - 1 ELSE a.cool
    <2>1. Gp!Aged(a) = [a EXCEPT !.age = age, !.cool = cool]
      BY DEF Gp!Aged, Axes
    <2>2. age \in Int /\ cool \in Int /\ (~a.known => age = a.age) /\ (a.cool = 0 => cool = 0)
      BY SMTT(30) DEF Axes
    <2> HIDE DEF age, cool
    <2> QED
      BY Zenon, <2>1, <2>2 DEF Axes
  <1>2. Gp!Aged(Gp!NoAxis) = Gp!NoAxis
    <2>1. Gp!NoAxis \in Axes /\ ~Gp!NoAxis.known /\ Gp!NoAxis.cool = 0
      BY SMTT(30) DEF Gp!NoAxis, Axes
    <2>2. \A b, c \in Axes : /\ b.known = c.known /\ b.baseline = c.baseline
                            /\ b.age = c.age /\ b.cool = c.cool
                            => b = c
      BY SMTT(30) DEF Axes
    <2> QED
      BY SMTT(30), <1>1, <2>1, <2>2
  <1>3. ASSUME NEW axis, NEW r, AtRest(axis, r)
        PROVE  AtRest(Gp!Aged(axis), r)
    BY <1>1, <1>3 DEF AtRest
  <1> QED
    BY <1>2, <1>3

Readers == [Devices -> {"none", "stale", "live"}]

\* The readers of the source that an iteration polls.
LEMMA RefreshedIsTyped ==
    ASSUME GpTypes, NEW sane, NEW open, NEW sane2, NEW open2
    PROVE  LET after == Gp!Refreshed(sane, open, sane2, open2)
           IN  after.reader \in Readers /\ after.adapter \in Readers
  <1>1. source.reader \in Readers /\ source.adapter \in Readers
    BY DEF GpTypes, Readers
  <1>2. PICK kept : kept = IF Gp!is_empty(source) \/ ~dir_ok THEN source
                           ELSE Gp!refresh_gamepad_activity_source(source, sane, open)
    OBVIOUS
  <1>3. LET fresh == Gp!refresh_gamepad_activity_source(source, sane, open)
        IN  fresh.reader \in Readers /\ fresh.adapter \in Readers
    BY <1>1 DEF Gp!refresh_gamepad_activity_source, Readers
  <1>4. kept.reader \in Readers /\ kept.adapter \in Readers
    BY SMTT(30), <1>1, <1>2, <1>3
  <1>5. LET fresh == Gp!open_gamepad_activity_source(sane2, open2)
        IN  fresh.reader \in Readers /\ fresh.adapter \in Readers
    BY DEF Gp!open_gamepad_activity_source, Readers
  <1>6. Gp!NoSource.reader \in Readers /\ Gp!NoSource.adapter \in Readers
    BY DEF Gp!NoSource, Readers
  <1>7. Gp!Refreshed(sane, open, sane2, open2) =
            CASE ~Gp!is_empty(kept) -> kept
              [] Gp!is_empty(kept) /\ dir_ok -> Gp!open_gamepad_activity_source(sane2, open2)
              [] Gp!is_empty(kept) /\ ~dir_ok -> Gp!NoSource
    BY <1>2 DEF Gp!Refreshed
  <1>8. CASE ~Gp!is_empty(kept)
    BY SMTT(30), <1>4, <1>7, <1>8
  <1>9. CASE Gp!is_empty(kept) /\ dir_ok
    BY SMTT(30), <1>5, <1>7, <1>9
  <1>10. CASE Gp!is_empty(kept) /\ ~dir_ok
    BY <1>6, <1>7, <1>10
  <1> QED
    BY SMTT(30), <1>8, <1>9, <1>10

\* One iteration of the thread, over the source that it has refreshed or not.
LEMMA IterationKeepsGp ==
    ASSUME Sane, GpAll, NEW after, after.reader \in Readers, after.adapter \in Readers,
           \A d \in Pads : Tame(after, d), NEW scheduled, Gp!Iteration(after, scheduled),
           UNCHANGED <<plugged, wheels, dir_ok, rest, pos, touched>>
    PROVE  GpAll'
  <1>1. PICK polled, src, left :
            /\ polled = Gp!poll_once(after)
            /\ src = [reader   |-> [d \in Devices |-> polled[d].reader],
                      adapter  |-> [d \in Devices |-> polled[d].adapter],
                      registry |-> [d \in Devices |->
                                      [s \in Gp!Surfaces |-> Gp!Aged(polled[d].device[s])]]]
            /\ left = IF Gp!is_empty(src) THEN Gp!NoSource ELSE src
    BY Zenon
  <1>2. Gp!Polled(Gp!poll_once(after)) = left
    BY <1>1 DEF Gp!Polled
  <1>3. /\ source' = left
        /\ events' = [d \in Devices |-> IF after.reader[d] = "live" THEN <<>> ELSE events[d]]
        /\ credited' = {d \in Devices : polled[d].activity}
    BY <1>1, <1>2 DEF Gp!Iteration
  <1>4. \A d \in Devices : polled[d] = Gp!AfterAdapter(after, d)
    BY <1>1 DEF Gp!poll_once
  <1>5. ASSUME NEW d \in Devices
        PROVE  /\ polled[d].reader \in {"none", "stale", "live"}
               /\ polled[d].adapter \in {"none", "stale", "live"}
    <2>1. Gp!AfterReader(after, d).reader \in {"none", "live"}
      BY DEF Gp!AfterReader
    <2>2. /\ Gp!AfterAdapter(after, d).reader = Gp!AfterReader(after, d).reader
          /\ Gp!AfterAdapter(after, d).adapter \in {"none", after.adapter[d]}
      BY DEF Gp!AfterAdapter
    <2> QED
      BY SMTT(30), <1>4, <2>1, <2>2 DEF Readers
  <1>6. /\ src.reader \in Readers /\ src.adapter \in Readers
        /\ src = [reader |-> src.reader, adapter |-> src.adapter, registry |-> src.registry]
    BY <1>1, <1>5 DEF Readers
  <1>7. /\ Gp!NoSource.reader \in Readers /\ Gp!NoSource.adapter \in Readers
        /\ Gp!NoSource = [reader |-> Gp!NoSource.reader, adapter |-> Gp!NoSource.adapter,
                          registry |-> Gp!NoSource.registry]
    BY DEF Gp!NoSource, Readers
  <1>8. GpTypes'
    <2>1. /\ left.reader \in Readers /\ left.adapter \in Readers
          /\ left = [reader |-> left.reader, adapter |-> left.adapter, registry |-> left.registry]
      BY Zenon, <1>1, <1>6, <1>7
    <2>2. events' \in [Devices -> Seq(PadEvents)]
      BY SMTT(30), <1>3 DEF GpAll, GpTypes
    <2> QED
      BY SMTT(30), <1>3, <2>1, <2>2 DEF GpAll, GpTypes, Readers
  <1>9. AtRestIsNear'
    BY DEF GpAll, AtRestIsNear
  <1>10. ASSUME NEW d \in Pads
         PROVE  /\ polled[d].adapter = "none"
                /\ polled[d].reader = IF after.reader[d] = "live" THEN "live" ELSE "none"
                /\ after.reader[d] # "live" => polled[d].device["pad"] = Gp!NoAxis
                /\ after.reader[d] = "live" /\ ~touched[d] => AtRest(polled[d].device["pad"], rest[d])
                /\ ~touched[d] => ~polled[d].activity
    <2>1. d \in Devices /\ GpTypes /\ Tame(after, d)
      BY DEF Pads, GpAll
    <2> QED
      BY SMTT(30), <1>4, <2>1, PollIsTame
  <1>11. ASSUME NEW d \in Pads'
         PROVE  Tame(source, d)'
    <2>1. d \in Devices /\ d \in Pads /\ Tame(after, d)
      BY DEF Pads
    <2>2. events'[d] = <<>>
      BY <1>3, <2>1 DEF Tame
    <2>3. EventsAtRest(events[d], rest[d])'
      BY SMTT(30), <2>2 DEF EventsAtRest
    <2>4. CASE Gp!is_empty(src)
      <3>1. /\ source'.adapter[d] = "none" /\ source'.reader[d] = "none"
            /\ source'.registry[d] = [s \in Gp!Surfaces |-> Gp!NoAxis]
        <4>1. source' = Gp!NoSource
          BY Zenon, <1>1, <1>3, <2>4
        <4>2. /\ Gp!NoSource.adapter[d] = "none" /\ Gp!NoSource.reader[d] = "none"
              /\ Gp!NoSource.registry[d] = [s \in Gp!Surfaces |-> Gp!NoAxis]
          BY SMTT(30), <2>1 DEF Gp!NoSource, Gp!NoDevice
        <4> QED
          BY Zenon, <4>1, <4>2
      <3> QED
        BY <2>2, <3>1 DEF Tame, Gp!Surfaces
    <2>5. CASE ~Gp!is_empty(src)
      <3>1. /\ source'.adapter[d] = polled[d].adapter /\ source'.reader[d] = polled[d].reader
            /\ "pad" \in DOMAIN source'.registry[d]
            /\ source'.registry[d]["pad"] = Gp!Aged(polled[d].device["pad"])
        BY SMTT(30), <1>1, <1>3, <2>1, <2>5 DEF Gp!Surfaces
      <3>2. /\ source'.reader[d] # "live" => source'.registry[d]["pad"] = Gp!NoAxis
            /\ source'.reader[d] = "live" /\ ~touched[d] => AtRest(source'.registry[d]["pad"], rest[d])
        <4>1. source'.reader[d] # "live" => Gp!Aged(Gp!NoAxis) = Gp!NoAxis
          BY AgedAtRest
        <4>2. source'.reader[d] = "live" <=> after.reader[d] = "live"
          BY <1>10, <2>1, <3>1
        <4>3. CASE after.reader[d] # "live"
          BY <1>10, <2>1, <3>1, <4>1, <4>2, <4>3
        <4>4. CASE after.reader[d] = "live"
          BY <1>10, <2>1, <3>1, <4>2, <4>4, AgedAtRest
        <4> QED
          BY <4>3, <4>4
      <3>3. /\ source'.adapter[d] = "none" /\ source'.reader[d] \in {"none", "live"}
            /\ source'.reader[d] = "live" => plugged[d] # "gone"
        BY <1>10, <2>1, <3>1 DEF Tame
      <3> QED
        BY <2>2, <2>3, <3>1, <3>2, <3>3 DEF Tame
    <2> QED
      BY <2>4, <2>5
  <1>12. credited' \subseteq Devices /\ \A d \in credited' \ wheels' : touched'[d]
    BY <1>3, <1>10 DEF Pads
  <1> QED
    BY SMTT(30), <1>8, <1>9, <1>11, <1>12 DEF GpAll

\* The thread polls, with or without a refresh.
LEMMA IterateKeepsGp ==
    ASSUME Sane, GpAll, Gp!Iterate
    PROVE  GpAll'
  <1>1. UNCHANGED <<plugged, wheels, dir_ok, rest, pos, touched>>
    BY DEF Gp!Iterate, Gp!world
  <1>2. GpTypes /\ AtRestIsNear /\ \A d \in Pads : Tame(source, d)
    BY DEF GpAll
  <1>3. CASE \E scheduled : Gp!Iteration(source, scheduled)
    <2>1. PICK scheduled : Gp!Iteration(source, scheduled)
      BY <1>3
    <2>2. source.reader \in Readers /\ source.adapter \in Readers
      BY <1>2 DEF GpTypes, Readers
    <2>3. PICK after : after = source
      OBVIOUS
    <2> QED
      BY <1>1, <1>2, <2>1, <2>2, <2>3, IterationKeepsGp
  <1>4. CASE \E sane, open, sane2, open2 \in Gp!Readable :
             \E scheduled : Gp!Iteration(Gp!Refreshed(sane, open, sane2, open2), scheduled)
    <2>0. PICK sane, open, sane2, open2 \in Gp!Readable :
              \E scheduled : Gp!Iteration(Gp!Refreshed(sane, open, sane2, open2), scheduled)
      BY <1>4
    <2>1. PICK scheduled : Gp!Iteration(Gp!Refreshed(sane, open, sane2, open2), scheduled)
      BY <2>0
    <2>2. PICK after : after = Gp!Refreshed(sane, open, sane2, open2)
      OBVIOUS
    <2>3. sane \subseteq Gp!Listed /\ sane2 \subseteq Gp!Listed
      BY DEF Gp!Readable
    <2>4. after.reader \in Readers /\ after.adapter \in Readers
      BY SMTT(30), <1>2, <2>2, RefreshedIsTyped
    <2>5. \A d \in Pads : Tame(after, d)
      BY SMTT(30), <1>2, <2>2, <2>3, RefreshedIsTame
    <2> QED
      BY SMTT(30), <1>1, <2>1, <2>2, <2>4, <2>5, IterationKeepsGp
  <1> QED
    BY SMTT(30), <1>3, <1>4 DEF Gp!Iterate

\* A controller is plugged in.
LEMMA PlugKeepsGp ==
    ASSUME Sane, GpAll, NEW d \in Devices, Gp!Plug(d)
    PROVE  GpAll'
  <1>1. PICK s \in {"flaky", "ready"}, r \in Rests :
            /\ plugged[d] = "gone" /\ plugged' = [plugged EXCEPT ![d] = s]
            /\ rest' = [rest EXCEPT ![d] = r] /\ pos' = [pos EXCEPT ![d] = r]
            /\ touched' = [touched EXCEPT ![d] = FALSE] /\ credited' = credited \ {d}
            /\ wheels' = wheels /\ source' = source /\ events' = events
    BY Zenon DEF Gp!Plug, Gp!thread
  <1>2. r \in Nat
    BY DEF Sane
  <1>3. GpTypes'
    BY <1>1, <1>2 DEF GpAll, GpTypes
  <1>4. AtRestIsNear'
    BY <1>1, <1>2 DEF GpAll, GpTypes, AtRestIsNear
  <1>5. ASSUME NEW p \in Pads'
        PROVE  Tame(source, p)'
    <2>1. p \in Devices /\ Tame(source, p)
      BY <1>1 DEF GpAll, Pads
    <2>2. CASE p = d
      BY SMTT(30), <1>1, <2>1, <2>2 DEF Tame, GpAll, GpTypes
    <2>3. CASE p # d
      <3>1. plugged'[p] = plugged[p] /\ rest'[p] = rest[p] /\ (touched'[p] <=> touched[p])
        BY SMTT(30), <1>1, <2>1, <2>3 DEF GpAll, GpTypes
      <3> QED
        BY <1>1, <2>1, <3>1 DEF Tame
    <2> QED
      BY <2>2, <2>3
  <1>6. credited' \subseteq Devices /\ \A p \in credited' \ wheels' : touched'[p]
    BY <1>1 DEF GpAll, GpTypes
  <1> QED
    BY SMTT(30), <1>3, <1>4, <1>5, <1>6 DEF GpAll

\* A controller goes; its readers stay until the thread finds out.
LEMMA UnplugKeepsGp ==
    ASSUME GpAll, NEW d \in Devices, Gp!Unplug(d)
    PROVE  GpAll'
  <1>1. /\ plugged' = [plugged EXCEPT ![d] = "gone"] /\ events' = [events EXCEPT ![d] = <<>>]
        /\ source' = [source EXCEPT !.reader = Gp!Stale(@, d), !.adapter = Gp!Stale(@, d)]
        /\ wheels' = wheels /\ rest' = rest /\ pos' = pos /\ touched' = touched /\ credited' = credited
    BY DEF Gp!Unplug
  <1>2. PICK reader, adapter : reader = Gp!Stale(source.reader, d) /\ adapter = Gp!Stale(source.adapter, d)
    OBVIOUS
  <1>3. source' = [reader |-> reader, adapter |-> adapter, registry |-> source.registry]
    BY Zenon, <1>1, <1>2 DEF GpAll, GpTypes
  <1>4. /\ reader \in Readers /\ adapter \in Readers
        /\ \A p \in Devices \ {d} : reader[p] = source.reader[p] /\ adapter[p] = source.adapter[p]
        /\ reader[d] = IF source.reader[d] = "live" THEN "stale" ELSE source.reader[d]
        /\ adapter[d] = IF source.adapter[d] = "live" THEN "stale" ELSE source.adapter[d]
    BY <1>2 DEF Gp!Stale, Readers, GpAll, GpTypes
  <1>5. GpTypes'
    <2>1. events' \in [Devices -> Seq(PadEvents)]
      BY SMTT(30), <1>1 DEF GpAll, GpTypes
    <2>2. plugged' \in [Devices -> {"gone", "flaky", "ready"}]
      BY <1>1 DEF GpAll, GpTypes
    <2>3. /\ source' = [reader |-> source'.reader, adapter |-> source'.adapter, registry |-> source'.registry]
          /\ source'.reader \in Readers /\ source'.adapter \in Readers
      BY <1>3, <1>4
    <2> QED
      BY SMTT(30), <1>1, <2>1, <2>2, <2>3 DEF GpAll, GpTypes, Readers
  <1>6. AtRestIsNear'
    BY <1>1 DEF GpAll, AtRestIsNear
  <1>7. ASSUME NEW p \in Pads'
        PROVE  Tame(source, p)'
    <2>1. p \in Devices /\ Tame(source, p)
      BY <1>1 DEF GpAll, Pads
    <2>2. source'.reader[p] = reader[p] /\ source'.adapter[p] = adapter[p] /\ source'.registry = source.registry
      BY <1>3
    <2>3. CASE p = d
      <3>1. events'[p] = <<>> /\ plugged'[p] = "gone"
        BY SMTT(30), <1>1, <2>3 DEF GpAll, GpTypes
      <3> QED
        BY SMTT(30), <1>1, <1>4, <2>1, <2>2, <2>3, <3>1 DEF Tame
    <2>4. CASE p # d
      <3>1. events'[p] = events[p] /\ plugged'[p] = plugged[p]
        BY SMTT(30), <1>1, <2>1, <2>4 DEF GpAll, GpTypes
      <3> QED
        BY SMTT(30), <1>1, <1>4, <2>1, <2>2, <2>4, <3>1 DEF Tame
    <2> QED
      BY <2>3, <2>4
  <1> QED
    BY SMTT(30), <1>1, <1>5, <1>6, <1>7 DEF GpAll

\* An axis trembles, or somebody uses the controller: the reader that is open gets the event.
LEMMA EventKeepsGp ==
    ASSUME GpAll, NEW d \in Devices, plugged[d] # "gone",
           NEW e \in PadEvents, NEW v \in Nat, NEW t \in BOOLEAN,
           touched' = [touched EXCEPT ![d] = t], pos' = [pos EXCEPT ![d] = v], touched[d] => t,
           ~t => v \in {rest[d], rest[d] + 1} /\ e.kind = "axis" /\ e.value = v,
           Gp!Emit(d, e), UNCHANGED <<plugged, wheels, rest, source, credited>>
    PROVE  GpAll'
  <1>1. events' = IF source.reader[d] = "live" THEN [events EXCEPT ![d] = Append(@, e)] ELSE events
    BY DEF Gp!Emit
  <1>2. GpTypes'
    <2>1. events' \in [Devices -> Seq(PadEvents)]
      BY SMTT(30), <1>1 DEF GpAll, GpTypes
    <2>2. touched' \in [Devices -> BOOLEAN] /\ pos' \in [Devices -> Nat]
      BY DEF GpAll, GpTypes
    <2> QED
      BY <2>1, <2>2 DEF GpAll, GpTypes
  <1>3. AtRestIsNear'
    BY DEF GpAll, GpTypes, AtRestIsNear
  <1>4. ASSUME NEW p \in Pads'
        PROVE  Tame(source, p)'
    <2>1. p \in Devices /\ Tame(source, p)
      BY DEF GpAll, Pads
    <2>2. CASE p # d
      <3>1. events'[p] = events[p] /\ (touched'[p] <=> touched[p])
        BY <1>1, <2>1, <2>2 DEF GpAll, GpTypes
      <3> QED
        BY <2>1, <3>1 DEF Tame
    <2>3. CASE p = d
      <3>1. touched'[d] <=> t
        BY DEF GpAll, GpTypes
      <3>2. CASE source.reader[d] # "live"
        <4>1. events' = events
          BY Zenon, <1>1, <3>2
        <4>2. Tame(source, d) /\ (touched[d] => touched'[d])
          BY Zenon, <2>1, <2>3, <3>1
        <4> QED
          BY Zenon, <2>3, <3>2, <4>1, <4>2 DEF Tame
      <3>3. CASE source.reader[d] = "live"
        <4>1. PICK batch \in Seq(PadEvents), r \in Nat : batch = events[d] /\ r = rest[d]
          BY DEF GpAll, GpTypes
        <4>2. events'[d] = Append(batch, e)
          BY SMTT(30), <1>1, <3>3, <4>1 DEF GpAll, GpTypes
        <4>3. ~t => AtRest(source.registry[d]["pad"], r) /\ EventsAtRest(batch, r)
          <5>1. Tame(source, d) /\ (~t => ~touched[d])
            BY Zenon, <2>1, <2>3
          <5> QED
            BY Zenon, <3>3, <4>1, <5>1 DEF Tame
        <4>4. ~t => EventsAtRest(Append(batch, e), r)
          <5>1. ~t => e.kind = "axis" /\ e.value \in {r, r + 1}
            BY Zenon, <4>1
          <5> QED
            BY Zenon, <4>1, <4>3, <5>1, RestGoesOn
        <4> QED
          BY SMTT(30), <2>1, <2>3, <3>1, <3>3, <4>1, <4>2, <4>3, <4>4 DEF Tame
      <3> QED
        BY <3>2, <3>3
    <2> QED
      BY <2>2, <2>3
  <1>5. \A p \in credited' \ wheels' : touched'[p]
    BY SMTT(30) DEF GpAll, GpTypes
  <1> QED
    BY SMTT(30), <1>2, <1>3, <1>4, <1>5 DEF GpAll

\* A thread that starts has no reader and no event.
LEMMA GpInit ==
    ASSUME Sane, Gp!Init
    PROVE  GpAll
  <1>1. /\ plugged = [d \in Devices |-> "gone"] /\ wheels \subseteq Devices /\ rest \in [Devices -> Rests]
        /\ pos = rest /\ events = [d \in Devices |-> <<>>] /\ source = Gp!NoSource
        /\ touched = [d \in Devices |-> FALSE] /\ credited = {}
    BY DEF Gp!Init
  <1>2. rest \in [Devices -> Nat]
    BY Zenon, <1>1 DEF Sane
  <1>3. /\ source.reader \in Readers /\ source.adapter \in Readers
        /\ source = [reader |-> source.reader, adapter |-> source.adapter, registry |-> source.registry]
    BY <1>1 DEF Gp!NoSource, Readers
  <1>4. events \in [Devices -> Seq(PadEvents)]
    BY SMTT(30), <1>1
  <1>5. GpTypes
    BY SMTT(30), <1>1, <1>2, <1>3, <1>4 DEF GpTypes, Readers
  <1>6. AtRestIsNear
    BY SMTT(30), <1>1, <1>2 DEF AtRestIsNear
  <1>7. ASSUME NEW d \in Pads
        PROVE  Tame(source, d)
    <2>1. events[d] = <<>>
      BY SMTT(30), <1>1 DEF Pads
    <2>2. Tame(Gp!NoSource, d)
      BY <2>1, NoSourceIsTame
    <2> QED
      BY <1>1, <2>2
  <1> QED
    BY SMTT(30), <1>1, <1>5, <1>6, <1>7 DEF GpAll

\* No step of the pads, of the user or of the thread breaks the invariant.
LEMMA GpNext ==
    ASSUME Sane, GpAll, Gp!Next \/ UNCHANGED Gp!vars
    PROVE  GpAll'
  <1>1. CASE \/ UNCHANGED Gp!vars \/ Gp!LoseMonitor \/ Gp!Stop \/ Gp!ListDir
             \/ \E d \in Devices : Gp!Permit(d)
    <2>1. /\ wheels' = wheels /\ rest' = rest /\ pos' = pos /\ events' = events /\ source' = source
          /\ touched' = touched /\ credited' = credited
      BY <1>1 DEF Gp!vars, Gp!LoseMonitor, Gp!Stop, Gp!ListDir, Gp!Permit, Gp!world, Gp!thread
    <2>2. plugged' = plugged \/ \E d \in Devices : /\ plugged[d] # "gone"
                                                  /\ \E s \in {"flaky", "ready"} :
                                                        plugged' = [plugged EXCEPT ![d] = s]
      BY <1>1 DEF Gp!vars, Gp!LoseMonitor, Gp!Stop, Gp!ListDir, Gp!Permit, Gp!world, Gp!thread
    <2>3. /\ plugged' \in [Devices -> {"gone", "flaky", "ready"}]
          /\ \A d \in Devices : plugged'[d] = "gone" <=> plugged[d] = "gone"
      <3>1. plugged \in [Devices -> {"gone", "flaky", "ready"}]
        BY DEF GpAll, GpTypes
      <3> QED
        BY SMTT(30), <2>2, <3>1
    <2>4. GpTypes' /\ AtRestIsNear'
      <3>1. GpTypes'
        BY SMTT(30), <2>1, <2>3 DEF GpAll, GpTypes
      <3>2. AtRestIsNear'
        BY <2>1 DEF GpAll, AtRestIsNear
      <3> QED
        BY <3>1, <3>2
    <2>5. \A d \in Pads' : Tame(source, d)'
      BY SMTT(30), <2>1, <2>3 DEF GpAll, Pads, Tame
    <2> QED
      BY SMTT(30), <2>1, <2>4, <2>5 DEF GpAll
  <1>2. ASSUME NEW d \in Devices, Gp!Jitter(d)
        PROVE  GpAll'
    <2>1. PICK v \in {rest[d], rest[d] + 1} : pos' = [pos EXCEPT ![d] = v] /\ Gp!Emit(d, Gp!AxisEvent(v))
      BY Zenon, <1>2 DEF Gp!Jitter
    <2>2. /\ v \in Nat /\ Gp!AxisEvent(v) \in PadEvents /\ Gp!AxisEvent(v).kind = "axis"
          /\ Gp!AxisEvent(v).value = v
      BY SMTT(30), <2>1 DEF GpAll, GpTypes, Gp!AxisEvent, PadEvents
    <2>3. PICK t \in BOOLEAN : t = touched[d]
      BY DEF GpAll, GpTypes
    <2>4. /\ touched' = [touched EXCEPT ![d] = t] /\ plugged[d] # "gone"
          /\ UNCHANGED <<plugged, wheels, rest, source, credited>>
      BY <1>2, <2>3 DEF Gp!Jitter, Gp!thread, GpAll, GpTypes
    <2>5. PICK e \in PadEvents : e = Gp!AxisEvent(v)
      BY <2>2
    <2> QED
      BY Zenon, <2>1, <2>2, <2>3, <2>4, <2>5, EventKeepsGp
  <1>3. ASSUME NEW d \in Devices, Gp!Touch(d)
        PROVE  GpAll'
    <2>1. /\ touched' = [touched EXCEPT ![d] = TRUE] /\ plugged[d] # "gone"
          /\ UNCHANGED <<plugged, wheels, rest, source, credited>>
      BY <1>3 DEF Gp!Touch, Gp!thread
    <2>2. \E e \in PadEvents, v \in Nat : pos' = [pos EXCEPT ![d] = v] /\ Gp!Emit(d, e)
      <3>1. CASE \E v \in 0..MaxPos : pos' = [pos EXCEPT ![d] = v] /\ Gp!Emit(d, Gp!AxisEvent(v))
        <4>1. PICK v \in 0..MaxPos : pos' = [pos EXCEPT ![d] = v] /\ Gp!Emit(d, Gp!AxisEvent(v))
          BY Zenon, <3>1
        <4>2. v \in Nat /\ Gp!AxisEvent(v) \in PadEvents
          BY SMTT(30) DEF Sane, Gp!AxisEvent, PadEvents
        <4> QED
          BY Zenon, <4>1, <4>2
      <3>2. CASE pos' = pos /\ Gp!Emit(d, [kind |-> "button", value |-> 1])
        <4>1. [kind |-> "button", value |-> 1] \in PadEvents
          BY DEF PadEvents
        <4>2. pos[d] \in Nat /\ pos' = [pos EXCEPT ![d] = pos[d]]
          BY SMTT(30), <3>2 DEF GpAll, GpTypes
        <4> QED
          BY Zenon, <3>2, <4>1, <4>2
      <3> QED
        BY SMTT(30), <1>3, <3>1, <3>2 DEF Gp!Touch
    <2> QED
      BY Zenon, <2>1, <2>2, EventKeepsGp
  <1> QED
    BY SMTT(30), <1>1, <1>2, <1>3, IterateKeepsGp, PlugKeepsGp, UnplugKeepsGp DEF Gp!Next
==============================================================================
