--------------------------- MODULE SourcesProofs ---------------------------
(***************************************************************************)
(* The threads that observe the machine for the session monitor: gamepads, *)
(* GNOME, Wayland, the lock state and DPMS.  They share nothing but the    *)
(* monitor's inbox, which MonitorLoop models, so one specification has     *)
(* them side by side: in each behaviour one of the threads runs.           *)
(*                                                                         *)
(* Each thread comes with its inductive invariant and the lemmas that its  *)
(* steps keep it; the specification, its properties and the theorems come  *)
(* last.  They hold for any number of connectors, sessions, seats, pads    *)
(* and restarts of the services behind them.                               *)
(***************************************************************************)
EXTENDS Integers, Sequences, TLAPS

\* Zenon finds most of the leaves; those that it does not find cite another prover.
USE Zenon

-----------------------------------------------------------------------------
(* Queues. *)

\* What a signal that is sent does to a queue.
LEMMA Appended ==
    ASSUME NEW S, NEW q \in Seq(S), NEW m \in S
    PROVE  /\ Append(q, m) \in Seq(S) /\ Append(q, m) # <<>>
           /\ Len(q) \in Nat /\ DOMAIN q = 1..Len(q)
           /\ DOMAIN Append(q, m) = 1..(Len(q) + 1)
           /\ \A i \in 1..Len(q) : Append(q, m)[i] = q[i]
           /\ Append(q, m)[Len(q) + 1] = m
  BY SMTT(30)

\* What a signal that is taken does to a queue.
LEMMA Taken ==
    ASSUME NEW S, NEW q \in Seq(S), q # <<>>
    PROVE  /\ Tail(q) \in Seq(S) /\ Head(q) = q[1] /\ q[1] \in S
           /\ Len(q) \in Nat \ {0} /\ DOMAIN q = 1..Len(q)
           /\ DOMAIN Tail(q) = 1..(Len(q) - 1)
           /\ \A i \in 1..(Len(q) - 1) : Tail(q)[i] = q[i + 1]
           /\ \A i \in 2..Len(q) : i - 1 \in DOMAIN Tail(q) /\ Tail(q)[i - 1] = q[i]
  BY SMTT(30)

-----------------------------------------------------------------------------
(***************************************************************************)
(* The GNOME adapter.  What it does not know of its watch is in the queue, *)
(* and so is every change of the screen saver's owner since the one it     *)
(* trusts; a signal of a process that had lost the name has a change       *)
(* before it that takes the adapter's trust from that process.             *)
(***************************************************************************)
CONSTANTS MaxFailures, MaxOwner, MaxQueue

VARIABLES
    owner, newest, watches, ids, queue, subscribed, pc, watch, trusted, status, failures, unseen,
    believed

Gn == INSTANCE GnomeSource

GnSignals ==
    [kind : {"WatchFired"}, owner : Nat, id : Nat]
    \cup [kind : {"NameOwnerChanged"}, name : Gn!Names, owner : Nat]
    \cup [kind : {"ScreenSaver"}, owner : Nat, owned : BOOLEAN]

GnTypes ==
    /\ owner \in [Gn!Names -> Nat] /\ newest \in [Gn!Names -> Nat]
    /\ owner[Gn!Saver] <= newest[Gn!Saver]
    /\ \A w \in watches : w[1] = owner[Gn!Mutter]
    /\ watches \subseteq Nat \X Nat
    /\ ids \in Nat /\ watch \in [owner : Nat, id : Nat]
    /\ queue \in Seq(GnSignals) /\ subscribed \in BOOLEAN
    /\ pc \in {"connect", "retry", "subscribe", "owner", "arm", "saver", "run", "rearm"}
    /\ subscribed <=> pc \in {"owner", "arm", "saver", "run", "rearm"}
    /\ ~subscribed => queue = <<>>
    /\ status = "Available" => pc \in {"run", "rearm"}

\* The watch is armed, or what ended it is on its way.
WatchIsKnown ==
    pc \in {"saver", "run"} =>
        \/ <<watch.owner, watch.id>> \in watches
        \/ \E i \in DOMAIN queue : Gn!fired(queue[i]) \/ Gn!owner_changed(queue[i])

IsSwap(i) == queue[i].kind = "NameOwnerChanged" /\ queue[i].name = Gn!Saver

\* Without a change of its owner on the way, the screen saver's owner is the trusted one.
SaverIsTold ==
    /\ \A i \in DOMAIN queue : IsSwap(i) =>
           \E k \in DOMAIN queue : k >= i /\ IsSwap(k) /\ queue[k].owner = owner[Gn!Saver]
    /\ pc \in {"run", "rearm"} /\ (\A i \in DOMAIN queue : ~IsSwap(i)) => trusted = owner[Gn!Saver]

IsForeign(i) == queue[i].kind = "ScreenSaver" /\ ~queue[i].owned

\* When a signal without the name is looked at, its sender is not trusted.
ForeignIsUntrusted ==
    \A i \in DOMAIN queue : IsForeign(i) =>
        /\ queue[i].owner \in 1..newest[Gn!Saver] /\ queue[i].owner # owner[Gn!Saver]
        /\ \A j \in DOMAIN queue : j < i /\ IsSwap(j) /\ queue[j].owner = queue[i].owner =>
               \E k \in DOMAIN queue : j < k /\ k < i /\ IsSwap(k) /\ queue[k].owner # queue[i].owner
        /\ pc \in {"run", "rearm"} /\ trusted = queue[i].owner =>
               \E k \in DOMAIN queue : k < i /\ IsSwap(k) /\ queue[k].owner # queue[i].owner

GnAll == GnTypes /\ WatchIsKnown /\ SaverIsTold /\ ForeignIsUntrusted /\ believed = TRUE

\* What signals that are sent do to a queue.
LEMMA Joined ==
    ASSUME NEW S, NEW q \in Seq(S), NEW r \in Seq(S)
    PROVE  /\ q \o r \in Seq(S) /\ Len(q) \in Nat /\ Len(r) \in Nat
           /\ DOMAIN q = 1..Len(q) /\ DOMAIN (q \o r) = 1..(Len(q) + Len(r))
           /\ \A i \in 1..Len(q) : (q \o r)[i] = q[i]
           /\ \A i \in 1..Len(r) : (q \o r)[Len(q) + i] = r[i]
  BY SMTT(30)

\* Signals that say nothing of the screen saver's owner leave the adapter's trust right.
LEMMA SaverUntouched ==
    ASSUME GnTypes, SaverIsTold, ForeignIsUntrusted, NEW n \in Nat, NEW c \in Nat,
           DOMAIN queue = 1..n, DOMAIN queue' = 1..(n + c), \A i \in 1..n : queue'[i] = queue[i],
           \A i \in 1..(n + c) : i > n => ~IsSwap(i)' /\ ~IsForeign(i)',
           UNCHANGED <<pc, trusted>>,
           owner'[Gn!Saver] = owner[Gn!Saver], newest'[Gn!Saver] = newest[Gn!Saver]
    PROVE  SaverIsTold' /\ ForeignIsUntrusted'
  <1>1. \A i \in 1..n : (IsSwap(i)' <=> IsSwap(i)) /\ (IsForeign(i)' <=> IsForeign(i))
    BY DEF IsSwap, IsForeign
  <1>2. SaverIsTold'
    <2>1. ASSUME NEW i \in 1..(n + c), IsSwap(i)'
          PROVE  \E k \in 1..(n + c) : k >= i /\ IsSwap(k)' /\ queue'[k].owner = owner'[Gn!Saver]
      <3>1. i \in 1..n /\ IsSwap(i)
        BY SMTT(30), <1>1, <2>1
      <3>2. PICK k \in 1..n : k >= i /\ IsSwap(k) /\ queue[k].owner = owner[Gn!Saver]
        BY <3>1 DEF SaverIsTold
      <3> QED
        BY SMTT(30), <1>1, <3>2
    <2>2. (\A i \in 1..(n + c) : ~IsSwap(i)') => \A i \in 1..n : ~IsSwap(i)
      BY SMTT(30), <1>1
    <2> QED
      BY Zenon, <2>1, <2>2 DEF SaverIsTold
  <1>3. ForeignIsUntrusted'
    <2> SUFFICES ASSUME NEW i \in DOMAIN queue', IsForeign(i)'
                 PROVE  /\ queue'[i].owner \in 1..newest'[Gn!Saver] /\ queue'[i].owner # owner'[Gn!Saver]
                        /\ \A j \in DOMAIN queue' : j < i /\ IsSwap(j)' /\ queue'[j].owner = queue'[i].owner =>
                               \E k \in DOMAIN queue' :
                                   j < k /\ k < i /\ IsSwap(k)' /\ queue'[k].owner # queue'[i].owner
                        /\ pc' \in {"run", "rearm"} /\ trusted' = queue'[i].owner =>
                               \E k \in DOMAIN queue' :
                                   k < i /\ IsSwap(k)' /\ queue'[k].owner # queue'[i].owner
      BY DEF ForeignIsUntrusted
    <2>1. i \in 1..n /\ IsForeign(i) /\ queue'[i] = queue[i]
      BY SMTT(30), <1>1
    <2>2. queue[i].owner \in 1..newest[Gn!Saver] /\ queue[i].owner # owner[Gn!Saver]
      BY <2>1 DEF ForeignIsUntrusted
    <2>3. ASSUME NEW j \in 1..(n + c), j < i, IsSwap(j)', queue'[j].owner = queue'[i].owner
          PROVE  \E k \in 1..(n + c) :
                     j < k /\ k < i /\ IsSwap(k)' /\ queue'[k].owner # queue'[i].owner
      <3>1. j \in 1..n /\ IsSwap(j) /\ queue[j].owner = queue[i].owner
        BY SMTT(30), <1>1, <2>1, <2>3
      <3>2. PICK k \in 1..n : j < k /\ k < i /\ IsSwap(k) /\ queue[k].owner # queue[i].owner
        BY SMTT(30), <2>1, <2>3, <3>1 DEF ForeignIsUntrusted
      <3> QED
        BY SMTT(30), <1>1, <2>1, <3>2
    <2>4. ASSUME pc \in {"run", "rearm"}, trusted = queue[i].owner
          PROVE  \E k \in 1..(n + c) : k < i /\ IsSwap(k)' /\ queue'[k].owner # queue'[i].owner
      <3>1. PICK k \in 1..n : k < i /\ IsSwap(k) /\ queue[k].owner # queue[i].owner
        BY <2>1, <2>4 DEF ForeignIsUntrusted
      <3> QED
        BY SMTT(30), <1>1, <2>1, <3>1
    <2> QED
      BY <2>1, <2>2, <2>3, <2>4
  <1> QED
    BY <1>2, <1>3

\* The connection is dropped.
LEMMA UnavailableKeepsGn ==
    ASSUME GnAll, Gn!Unavailable, UNCHANGED <<owner, newest, ids>>, believed' = TRUE
    PROVE  GnAll'
  <1>1. /\ pc' = "retry" /\ status' = "Unavailable" /\ queue' = <<>> /\ subscribed' = FALSE
        /\ watches' = {} /\ watch' = [owner |-> 0, id |-> 0]
    BY DEF Gn!Unavailable, Gn!NoWatch
  <1>2. DOMAIN queue' = {} /\ queue' \in Seq(GnSignals)
    BY SMTT(30), <1>1
  <1>3. watches' \subseteq Nat \X Nat /\ watch' \in [owner : Nat, id : Nat]
    BY <1>1
  <1>4. GnTypes'
    BY Zenon, <1>1, <1>2, <1>3 DEF GnAll, GnTypes
  <1> QED
    BY <1>1, <1>2, <1>4 DEF GnAll, WatchIsKnown, SaverIsTold, ForeignIsUntrusted

\* A call of the adapter that takes no signal from the queue and does not fail.
LEMMA CallKeepsGn ==
    ASSUME GnAll, ~Gn!Unavailable,
           \/ Gn!Retry \/ Gn!CheckServices \/ Gn!subscribe_to_gnome_signals
           \/ Gn!ResolveWatchOwner \/ Gn!arm \/ Gn!resolve_screen_saver_owner
    PROVE  GnAll'
  <1> USE DEF GnAll
  <1>1. UNCHANGED <<owner, newest, queue, believed>>
    BY Zenon DEF Gn!Retry, Gn!CheckServices, Gn!subscribe_to_gnome_signals, Gn!ResolveWatchOwner, Gn!arm,
           Gn!Armed, Gn!resolve_screen_saver_owner, Gn!bus
  <1>2. \/ /\ UNCHANGED <<watches, ids, watch, trusted, status>> /\ status # "Available"
           /\ \/ pc = "retry" /\ pc' = "connect" /\ UNCHANGED subscribed
              \/ pc = "connect" /\ pc' = "subscribe" /\ UNCHANGED subscribed
              \/ pc = "subscribe" /\ pc' = "owner" /\ subscribed' = TRUE
        \/ /\ pc = "owner" /\ pc' = "arm" /\ UNCHANGED <<subscribed, watches, ids, trusted, status>>
           /\ watch' = [owner |-> owner[Gn!Mutter], id |-> 0]
        \/ /\ \/ pc = "arm" /\ pc' = "saver"
              \/ pc = "rearm" /\ pc' = "run"
           /\ UNCHANGED <<subscribed, trusted, status>>
           /\ owner[Gn!Mutter] = watch.owner /\ ids' = (ids + 1) % 3
           /\ watch' = [watch EXCEPT !.id = ids'] /\ watches' = watches \cup {<<watch.owner, ids'>>}
        \/ /\ pc = "saver" /\ pc' = "run" /\ UNCHANGED <<subscribed, watches, ids, watch>>
           /\ trusted' = owner[Gn!Saver]
    <2>1. CASE Gn!Retry \/ Gn!CheckServices \/ Gn!subscribe_to_gnome_signals
      BY Zenon, <2>1 DEF Gn!Retry, Gn!CheckServices, Gn!subscribe_to_gnome_signals, Gn!bus, GnTypes
    <2>2. CASE Gn!ResolveWatchOwner
      BY <2>2 DEF Gn!ResolveWatchOwner, Gn!NoWatch, Gn!bus
    <2>3. CASE Gn!arm
      BY <2>3 DEF Gn!arm, Gn!Armed
    <2>4. CASE Gn!resolve_screen_saver_owner
      BY <2>4 DEF Gn!resolve_screen_saver_owner, Gn!bus
    <2> QED
      BY Zenon, <2>1, <2>2, <2>3, <2>4
  <1>3. /\ watch' \in [owner : Nat, id : Nat] /\ ids' \in Nat
        /\ \A w \in watches' : w[1] = owner[Gn!Mutter]
        /\ watches' \subseteq Nat \X Nat
    <2>1. CASE UNCHANGED watches
      BY SMTT(30), <1>2, <2>1 DEF GnTypes, Gn!Names, Gn!Mutter
    <2>2. CASE /\ watches' = watches \cup {<<watch.owner, ids'>>} /\ watch' = [watch EXCEPT !.id = ids']
               /\ owner[Gn!Mutter] = watch.owner /\ ids' = (ids + 1) % 3
      <3>1. ids' \in Nat
        BY SMTT(30), <2>2 DEF GnTypes
      <3>3. watch' \in [owner : Nat, id : Nat] /\ watch.owner \in Nat
        BY Zenon, <2>2, <3>1 DEF GnTypes
      <3>4. \A w \in watches' : w[1] = owner[Gn!Mutter]
        BY SMTT(30), <2>2 DEF GnTypes
      <3>5. watches' \subseteq Nat \X Nat
        BY SMTT(30), <2>2, <3>1, <3>3 DEF GnTypes
      <3> QED
        BY <3>1, <3>3, <3>4, <3>5
    <2> QED
      BY <1>2, <2>1, <2>2
  <1>4. GnTypes'
    <2>1. /\ subscribed' \in BOOLEAN
          /\ pc' \in {"connect", "retry", "subscribe", "owner", "arm", "saver", "run", "rearm"}
          /\ subscribed' <=> pc' \in {"owner", "arm", "saver", "run", "rearm"}
      <3>1. CASE pc = "subscribe" /\ pc' = "owner" /\ subscribed' = TRUE
        BY <3>1
      <3>2. CASE UNCHANGED subscribed
        <4>1. /\ pc' \in {"connect", "subscribe", "arm", "saver", "run"} /\ pc # "subscribe"
              /\ pc' \in {"connect", "subscribe"} <=> pc \in {"connect", "retry"}
          BY <1>2, <3>2 DEF GnTypes
        <4> QED
          BY <3>2, <4>1 DEF GnTypes
      <3> QED
        BY Zenon, <1>2, <3>1, <3>2
    <2>2. ~subscribed' => queue = <<>>
      BY <1>2 DEF GnTypes
    <2>3. status' = "Available" => pc' \in {"run", "rearm"}
      BY <1>2 DEF GnTypes
    <2> QED
      BY <1>1, <1>3, <2>1, <2>2, <2>3 DEF GnTypes
  <1>5. WatchIsKnown'
    <2> SUFFICES ASSUME pc' \in {"saver", "run"}
                 PROVE  \/ <<watch'.owner, watch'.id>> \in watches'
                        \/ \E i \in DOMAIN queue : Gn!fired(queue[i])' \/ Gn!owner_changed(queue[i])'
      BY <1>1 DEF WatchIsKnown
    <2>1. CASE pc = "saver" /\ pc' = "run" /\ UNCHANGED <<watches, watch>>
      BY <1>1, <2>1 DEF WatchIsKnown, Gn!fired, Gn!owner_changed
    <2>2. CASE watch' = [watch EXCEPT !.id = ids'] /\ watches' = watches \cup {<<watch.owner, ids'>>}
      BY <2>2 DEF GnTypes
    <2> QED
      BY <1>2, <2>1, <2>2
  <1>6. pc' \in {"run", "rearm"} => trusted' = owner[Gn!Saver] \/ (pc \in {"run", "rearm"} /\ trusted' = trusted)
    BY <1>2
  <1>7. SaverIsTold'
    BY <1>1, <1>6 DEF SaverIsTold, IsSwap
  <1>8. ForeignIsUntrusted'
    BY SMTT(30), <1>1, <1>6 DEF ForeignIsUntrusted, IsSwap, IsForeign
  <1> QED
    BY <1>1, <1>4, <1>5, <1>7, <1>8

\* One signal is sent to a connection that is subscribed.
LEMMA GnSent ==
    ASSUME GnTypes, NEW m \in GnSignals, Gn!Send(<<m>>)
    PROVE  /\ queue' \in Seq(GnSignals)
           /\ ~subscribed => queue' = queue /\ queue = <<>>
           /\ subscribed => \E n \in Nat : /\ DOMAIN queue = 1..n /\ DOMAIN queue' = 1..(n + 1)
                                           /\ \A i \in 1..n : queue'[i] = queue[i]
                                           /\ queue'[n + 1] = m
  <1>1. queue \in Seq(GnSignals) /\ <<m>> \in Seq(GnSignals) /\ Len(<<m>>) = 1 /\ <<m>>[1] = m
    BY SMTT(30) DEF GnTypes
  <1>2. CASE ~subscribed
    BY <1>1, <1>2 DEF Gn!Send, GnTypes
  <1>3. CASE subscribed
    <2>1. PICK r \in Seq(GnSignals) : r = <<m>> /\ Len(r) = 1 /\ r[1] = m /\ queue' = queue \o r
      BY Zenon, <1>1, <1>3 DEF Gn!Send
    <2>2. PICK n \in Nat : n = Len(queue)
      BY SMTT(30), <1>1
    <2>3. /\ queue' \in Seq(GnSignals) /\ DOMAIN queue = 1..n /\ DOMAIN queue' = 1..(n + 1)
          /\ \A i \in 1..n : queue'[i] = queue[i]
          /\ queue'[n + 1] = m
      BY SMTT(30), <1>1, <2>1, <2>2, Joined
    <2> QED
      BY <1>3, <2>3
  <1> QED
    BY <1>2, <1>3

\* Mutter's name changes hands.
LEMMA MutterKeepsGn ==
    ASSUME GnAll, Gn!ChangeOwner(Gn!Mutter)
    PROVE  GnAll'
  <1> USE DEF GnAll
  <1>1. /\ owner' \in [Gn!Names -> Nat] /\ newest' \in [Gn!Names -> Nat]
        /\ owner'[Gn!Mutter] # owner[Gn!Mutter]
        /\ owner'[Gn!Saver] = owner[Gn!Saver] /\ newest'[Gn!Saver] = newest[Gn!Saver]
    BY SMTT(30) DEF Gn!ChangeOwner, GnTypes, Gn!Names, Gn!Mutter, Gn!Saver
  <1>2. /\ watches' = {w \in watches : w[1] = owner'[Gn!Mutter]}
        /\ UNCHANGED <<ids, subscribed, pc, watch, trusted, status, believed>>
        /\ Gn!Send(<<Gn!OwnerChanged(Gn!Mutter, owner'[Gn!Mutter])>>)
    BY DEF Gn!ChangeOwner, Gn!adapter
  <1>3. PICK m \in GnSignals : /\ m = Gn!OwnerChanged(Gn!Mutter, owner'[Gn!Mutter])
                               /\ m.kind = "NameOwnerChanged" /\ m.name = Gn!Mutter
                               /\ m.owner = owner'[Gn!Mutter]
    <2>1. PICK o \in Nat : o = owner'[Gn!Mutter]
      BY <1>1 DEF Gn!Names
    <2>2. Gn!OwnerChanged(Gn!Mutter, o) \in GnSignals
      BY DEF Gn!OwnerChanged, GnSignals, Gn!Names
    <2> QED
      BY <2>1, <2>2 DEF Gn!OwnerChanged
  <1>4. watches' = {}
    BY <1>1, <1>2 DEF GnTypes
  <1>5. /\ queue' \in Seq(GnSignals)
        /\ ~subscribed => queue' = queue /\ queue = <<>>
        /\ subscribed => \E n \in Nat : /\ DOMAIN queue = 1..n /\ DOMAIN queue' = 1..(n + 1)
                                        /\ \A i \in 1..n : queue'[i] = queue[i]
                                        /\ queue'[n + 1] = m
    BY <1>2, <1>3, GnSent
  <1>6. GnTypes'
    BY <1>1, <1>2, <1>4, <1>5 DEF GnTypes
  <1>7. CASE ~subscribed
    BY SMTT(30), <1>1, <1>2, <1>5, <1>6, <1>7 DEF GnTypes, WatchIsKnown, SaverIsTold, ForeignIsUntrusted
  <1>8. CASE subscribed
    <2>1. PICK n \in Nat : /\ DOMAIN queue = 1..n /\ DOMAIN queue' = 1..(n + 1)
                           /\ \A i \in 1..n : queue'[i] = queue[i]
                           /\ queue'[n + 1] = m
      BY <1>5, <1>8
    <2>2. \A i \in 1..(n + 1) : i > n => ~IsSwap(i)' /\ ~IsForeign(i)'
      BY SMTT(30), <1>3, <2>1 DEF IsSwap, IsForeign, Gn!Mutter, Gn!Saver
    <2>3. SaverIsTold' /\ ForeignIsUntrusted'
      BY Zenon, <1>1, <1>2, <2>1, <2>2, SaverUntouched
    <2>4. WatchIsKnown'
      <3>1. CASE <<watch.owner, watch.id>> \in watches
        <4>1. m.owner # watch.owner
          BY <1>1, <1>3, <3>1 DEF GnTypes
        <4>2. Gn!owner_changed(queue[n + 1])'
          BY <1>2, <1>3, <2>1, <4>1 DEF Gn!owner_changed
        <4> QED
          BY SMTT(30), <2>1, <4>2 DEF WatchIsKnown
      <3>2. CASE <<watch.owner, watch.id>> \notin watches
        BY SMTT(30), <1>2, <2>1, <3>2 DEF WatchIsKnown, Gn!fired, Gn!owner_changed
      <3> QED
        BY <3>1, <3>2
    <2> QED
      BY <1>2, <1>6, <2>3, <2>4
  <1> QED
    BY Zenon, <1>7, <1>8

\* The screen saver's name changes hands.
LEMMA SaverKeepsGn ==
    ASSUME GnAll, Gn!ChangeOwner(Gn!Saver)
    PROVE  GnAll'
  <1> USE DEF GnAll
  <1>1. /\ owner' \in [Gn!Names -> Nat] /\ newest' \in [Gn!Names -> Nat]
        /\ owner'[Gn!Mutter] = owner[Gn!Mutter] /\ owner'[Gn!Saver] <= newest'[Gn!Saver]
        /\ \A o \in 1..newest[Gn!Saver] : o \in 1..newest'[Gn!Saver] /\ o # owner'[Gn!Saver]
        /\ owner'[Gn!Saver] # owner[Gn!Saver]
    BY SMTT(30) DEF Gn!ChangeOwner, GnTypes, Gn!Names, Gn!Mutter, Gn!Saver
  <1>2. /\ watches' = {w \in watches : w[1] = owner'[Gn!Mutter]}
        /\ UNCHANGED <<ids, subscribed, pc, watch, trusted, status, believed>>
        /\ Gn!Send(<<Gn!OwnerChanged(Gn!Saver, owner'[Gn!Saver])>>)
    BY DEF Gn!ChangeOwner, Gn!adapter
  <1>3. PICK m \in GnSignals : /\ m = Gn!OwnerChanged(Gn!Saver, owner'[Gn!Saver])
                               /\ m.kind = "NameOwnerChanged" /\ m.name = Gn!Saver
                               /\ m.owner = owner'[Gn!Saver]
    <2>1. PICK o \in Nat : o = owner'[Gn!Saver]
      BY <1>1 DEF Gn!Names
    <2>2. Gn!OwnerChanged(Gn!Saver, o) \in GnSignals
      BY DEF Gn!OwnerChanged, GnSignals, Gn!Names
    <2> QED
      BY <2>1, <2>2 DEF Gn!OwnerChanged
  <1>4. watches' = watches
    BY <1>1, <1>2 DEF GnTypes
  <1>5. /\ queue' \in Seq(GnSignals)
        /\ ~subscribed => queue' = queue /\ queue = <<>>
        /\ subscribed => \E n \in Nat : /\ DOMAIN queue = 1..n /\ DOMAIN queue' = 1..(n + 1)
                                        /\ \A i \in 1..n : queue'[i] = queue[i]
                                        /\ queue'[n + 1] = m
    BY <1>2, <1>3, GnSent
  <1>6. GnTypes'
    BY <1>1, <1>2, <1>4, <1>5 DEF GnTypes
  <1>7. CASE ~subscribed
    BY SMTT(30), <1>1, <1>2, <1>5, <1>6, <1>7 DEF GnTypes, WatchIsKnown, SaverIsTold, ForeignIsUntrusted
  <1>8. CASE subscribed
    <2>1. PICK n \in Nat : /\ DOMAIN queue = 1..n /\ DOMAIN queue' = 1..(n + 1)
                           /\ \A i \in 1..n : queue'[i] = queue[i]
                           /\ queue'[n + 1] = m
      BY <1>5, <1>8
    <2>2. /\ \A i \in 1..n : (IsSwap(i)' <=> IsSwap(i)) /\ (IsForeign(i)' <=> IsForeign(i))
          /\ \A i \in 1..(n + 1) : i > n => IsSwap(i)' /\ queue'[i].owner = owner'[Gn!Saver] /\ ~IsForeign(i)'
      BY SMTT(30), <1>3, <2>1 DEF IsSwap, IsForeign
    <2>3. SaverIsTold'
      <3>1. n + 1 \in DOMAIN queue' /\ n + 1 > n
        BY SMTT(30), <2>1
      <3>2. ~\A i \in DOMAIN queue' : ~IsSwap(i)'
        BY <2>1, <2>2, <3>1
      <3>3. \A i \in DOMAIN queue' :
                \E k \in DOMAIN queue' : k >= i /\ IsSwap(k)' /\ queue'[k].owner = owner'[Gn!Saver]
        BY SMTT(30), <2>1, <2>2, <3>1
      <3> QED
        BY <3>2, <3>3 DEF SaverIsTold
    <2>4. ForeignIsUntrusted'
      <3> SUFFICES ASSUME NEW i \in DOMAIN queue', IsForeign(i)'
                   PROVE  /\ queue'[i].owner \in 1..newest'[Gn!Saver] /\ queue'[i].owner # owner'[Gn!Saver]
                          /\ \A j \in DOMAIN queue' : j < i /\ IsSwap(j)' /\ queue'[j].owner = queue'[i].owner =>
                                 \E k \in DOMAIN queue' :
                                     j < k /\ k < i /\ IsSwap(k)' /\ queue'[k].owner # queue'[i].owner
                          /\ pc' \in {"run", "rearm"} /\ trusted' = queue'[i].owner =>
                                 \E k \in DOMAIN queue' :
                                     k < i /\ IsSwap(k)' /\ queue'[k].owner # queue'[i].owner
        BY DEF ForeignIsUntrusted
      <3>1. i \in 1..n /\ IsForeign(i) /\ queue'[i] = queue[i]
        BY SMTT(30), <2>1, <2>2
      <3>2. queue[i].owner \in 1..newest'[Gn!Saver] /\ queue[i].owner # owner'[Gn!Saver]
        BY <1>1, <2>1, <3>1 DEF ForeignIsUntrusted
      <3>3. ASSUME NEW j \in DOMAIN queue', j < i, IsSwap(j)', queue'[j].owner = queue'[i].owner
            PROVE  \E k \in DOMAIN queue' :
                       j < k /\ k < i /\ IsSwap(k)' /\ queue'[k].owner # queue'[i].owner
        <4>1. j \in 1..n /\ IsSwap(j) /\ queue[j].owner = queue[i].owner
          BY SMTT(30), <2>1, <2>2, <3>1, <3>3
        <4>2. PICK k \in 1..n : j < k /\ k < i /\ IsSwap(k) /\ queue[k].owner # queue[i].owner
          BY SMTT(30), <2>1, <3>1, <3>3, <4>1 DEF ForeignIsUntrusted
        <4> QED
          BY SMTT(30), <2>1, <2>2, <3>1, <4>2
      <3>4. ASSUME pc \in {"run", "rearm"}, trusted = queue[i].owner
            PROVE  \E k \in DOMAIN queue' : k < i /\ IsSwap(k)' /\ queue'[k].owner # queue'[i].owner
        <4>1. PICK k \in 1..n : k < i /\ IsSwap(k) /\ queue[k].owner # queue[i].owner
          BY <2>1, <3>1, <3>4 DEF ForeignIsUntrusted
        <4> QED
          BY SMTT(30), <2>1, <2>2, <3>1, <4>1
      <3> QED
        BY <1>2, <3>1, <3>2, <3>3, <3>4
    <2>5. WatchIsKnown'
      BY SMTT(30), <1>2, <1>4, <2>1 DEF WatchIsKnown, Gn!fired, Gn!owner_changed
    <2> QED
      BY <1>2, <1>6, <2>3, <2>4, <2>5
  <1> QED
    BY Zenon, <1>7, <1>8

\* The screen saver, or a process that was, speaks.
LEMMA SpeechKeepsGn ==
    ASSUME GnAll, Gn!SaverSpeaks
    PROVE  GnAll'
  <1> USE DEF GnAll
  <1>1. subscribed /\ UNCHANGED <<owner, newest, watches, ids, subscribed, pc, watch, trusted, status, believed>>
    BY DEF Gn!SaverSpeaks, Gn!bus, Gn!adapter
  <1>2. PICK o \in 1..newest[Gn!Saver] : Gn!Send(<<Gn!SaverSignal(o, o = owner[Gn!Saver])>>)
    BY DEF Gn!SaverSpeaks
  <1>3. PICK m \in GnSignals : /\ m = Gn!SaverSignal(o, o = owner[Gn!Saver])
                               /\ m.kind = "ScreenSaver" /\ m.owner = o
                               /\ m.owned <=> o = owner[Gn!Saver]
    <2>1. o \in Nat
      BY SMTT(30), <1>2 DEF GnTypes, Gn!Names
    <2>2. ASSUME NEW b \in BOOLEAN
          PROVE  Gn!SaverSignal(o, b) \in GnSignals
      BY <2>1 DEF Gn!SaverSignal, GnSignals
    <2>3. Gn!SaverSignal(o, o = owner[Gn!Saver]) \in GnSignals
      BY Zenon, <2>2
    <2> QED
      BY Zenon, <2>3 DEF Gn!SaverSignal
  <1>4. PICK n \in Nat : /\ DOMAIN queue = 1..n /\ DOMAIN queue' = 1..(n + 1)
                         /\ \A i \in 1..n : queue'[i] = queue[i]
                         /\ queue'[n + 1] = m
    BY <1>1, <1>2, <1>3, GnSent
  <1>5. GnTypes'
    <2>1. queue' \in Seq(GnSignals)
      BY <1>2, <1>3, GnSent
    <2> QED
      BY <1>1, <2>1 DEF GnTypes
  <1>6. WatchIsKnown'
    BY SMTT(30), <1>1, <1>4 DEF WatchIsKnown, Gn!fired, Gn!owner_changed
  <1>7. CASE o = owner[Gn!Saver]
    <2>1. \A i \in 1..(n + 1) : i > n => ~IsSwap(i)' /\ ~IsForeign(i)'
      BY SMTT(30), <1>3, <1>4, <1>7 DEF IsSwap, IsForeign
    <2>2. SaverIsTold' /\ ForeignIsUntrusted'
      BY <1>1, <1>4, <2>1, SaverUntouched
    <2> QED
      BY <1>1, <1>5, <1>6, <2>2
  <1>8. CASE o # owner[Gn!Saver]
    <2>1. /\ \A i \in 1..n : (IsSwap(i)' <=> IsSwap(i)) /\ (IsForeign(i)' <=> IsForeign(i))
          /\ \A i \in 1..(n + 1) : i > n => ~IsSwap(i)' /\ queue'[i].owner = o
      BY SMTT(30), <1>3, <1>4 DEF IsSwap, IsForeign
    <2>2. SaverIsTold'
      <3>1. ASSUME NEW i \in DOMAIN queue', IsSwap(i)'
            PROVE  \E k \in DOMAIN queue' : k >= i /\ IsSwap(k)' /\ queue'[k].owner = owner'[Gn!Saver]
        <4>1. i \in 1..n /\ IsSwap(i)
          BY SMTT(30), <1>4, <2>1, <3>1
        <4>2. PICK k \in 1..n : k >= i /\ IsSwap(k) /\ queue[k].owner = owner[Gn!Saver]
          BY <1>4, <4>1 DEF SaverIsTold
        <4> QED
          BY SMTT(30), <1>1, <1>4, <2>1, <4>2
      <3>2. (\A i \in DOMAIN queue' : ~IsSwap(i)') => \A i \in DOMAIN queue : ~IsSwap(i)
        BY SMTT(30), <1>4, <2>1
      <3> QED
        BY <1>1, <3>1, <3>2 DEF SaverIsTold
    <2>3. ForeignIsUntrusted'
      <3> SUFFICES ASSUME NEW i \in DOMAIN queue', IsForeign(i)'
                   PROVE  /\ queue'[i].owner \in 1..newest'[Gn!Saver] /\ queue'[i].owner # owner'[Gn!Saver]
                          /\ \A j \in DOMAIN queue' : j < i /\ IsSwap(j)' /\ queue'[j].owner = queue'[i].owner =>
                                 \E k \in DOMAIN queue' :
                                     j < k /\ k < i /\ IsSwap(k)' /\ queue'[k].owner # queue'[i].owner
                          /\ pc' \in {"run", "rearm"} /\ trusted' = queue'[i].owner =>
                                 \E k \in DOMAIN queue' :
                                     k < i /\ IsSwap(k)' /\ queue'[k].owner # queue'[i].owner
        BY DEF ForeignIsUntrusted
      <3>1. CASE i = n + 1
        <4>1. queue'[i].owner = o /\ \A k \in 1..n : k < i
          BY SMTT(30), <1>4, <2>1, <3>1
        <4>2. ASSUME NEW j \in 1..n, IsSwap(j)
              PROVE  \E k \in 1..n : k >= j /\ IsSwap(k) /\ queue[k].owner # o
          BY <1>4, <1>8, <4>2 DEF SaverIsTold
        <4>3. ASSUME NEW j \in DOMAIN queue', j < i, IsSwap(j)', queue'[j].owner = o
              PROVE  \E k \in DOMAIN queue' : j < k /\ k < i /\ IsSwap(k)' /\ queue'[k].owner # o
          <5>1. j \in 1..n /\ IsSwap(j) /\ queue[j].owner = o
            BY SMTT(30), <1>4, <2>1, <4>3
          <5>2. PICK k \in 1..n : k >= j /\ IsSwap(k) /\ queue[k].owner # o
            BY <4>2, <5>1
          <5> QED
            BY SMTT(30), <1>4, <2>1, <4>1, <5>1, <5>2
        <4>4. ASSUME pc \in {"run", "rearm"}, trusted = o
              PROVE  \E k \in DOMAIN queue' : k < i /\ IsSwap(k)' /\ queue'[k].owner # o
          <5>1. PICK j \in 1..n : IsSwap(j)
            BY <1>4, <1>8, <4>4 DEF SaverIsTold
          <5>2. PICK k \in 1..n : k >= j /\ IsSwap(k) /\ queue[k].owner # o
            BY <4>2, <5>1
          <5> QED
            BY SMTT(30), <1>4, <2>1, <4>1, <5>2
        <4> QED
          BY <1>1, <1>2, <1>8, <4>1, <4>3, <4>4
      <3>2. CASE i # n + 1
        <4>1. i \in 1..n /\ IsForeign(i) /\ queue'[i] = queue[i]
          BY SMTT(30), <1>4, <2>1, <3>2
        <4>2. queue[i].owner \in 1..newest[Gn!Saver] /\ queue[i].owner # owner[Gn!Saver]
          BY <1>4, <4>1 DEF ForeignIsUntrusted
        <4>3. ASSUME NEW j \in DOMAIN queue', j < i, IsSwap(j)', queue'[j].owner = queue'[i].owner
              PROVE  \E k \in DOMAIN queue' :
                         j < k /\ k < i /\ IsSwap(k)' /\ queue'[k].owner # queue'[i].owner
          <5>1. j \in 1..n /\ IsSwap(j) /\ queue[j].owner = queue[i].owner
            BY SMTT(30), <1>4, <2>1, <4>1, <4>3
          <5>2. PICK k \in 1..n : j < k /\ k < i /\ IsSwap(k) /\ queue[k].owner # queue[i].owner
            BY SMTT(30), <1>4, <4>1, <4>3, <5>1 DEF ForeignIsUntrusted
          <5> QED
            BY SMTT(30), <1>4, <2>1, <4>1, <5>2
        <4>4. ASSUME pc \in {"run", "rearm"}, trusted = queue[i].owner
              PROVE  \E k \in DOMAIN queue' : k < i /\ IsSwap(k)' /\ queue'[k].owner # queue'[i].owner
          <5>1. PICK k \in 1..n : k < i /\ IsSwap(k) /\ queue[k].owner # queue[i].owner
            BY <1>4, <4>1, <4>4 DEF ForeignIsUntrusted
          <5> QED
            BY SMTT(30), <1>4, <2>1, <4>1, <5>1
        <4> QED
          BY <1>1, <4>1, <4>2, <4>3, <4>4
      <3> QED
        BY <3>1, <3>2
    <2> QED
      BY <1>1, <1>5, <1>6, <2>2, <2>3
  <1> QED
    BY Zenon, <1>7, <1>8

\* There is input: every watch fires.
LEMMA InputKeepsGn ==
    ASSUME GnAll, Gn!Input
    PROVE  GnAll'
  <1> USE DEF GnAll
  <1>1. /\ UNCHANGED <<owner, newest, ids, subscribed, pc, watch, trusted, status, believed>>
        /\ watches' = {}
    BY DEF Gn!Input, Gn!adapter
  <1>2. PICK c \in Nat : \E o \in [1..c -> watches] :
            /\ \A w \in watches : \E i \in 1..c : o[i] = w
            /\ Gn!Send([i \in 1..c |-> Gn!WatchFired(o[i][1], o[i][2])])
    <2>1. \A x : \A c \in 0..x : c \in Nat
      BY SMTT(30)
    <2> QED
      BY <2>1, Zenon DEF Gn!Input
  <1>3. PICK order \in [1..c -> watches] :
            /\ \A w \in watches : \E i \in 1..c : order[i] = w
            /\ Gn!Send([i \in 1..c |-> Gn!WatchFired(order[i][1], order[i][2])])
    BY Zenon, <1>2
  <1>4. PICK r : r = [i \in 1..c |-> Gn!WatchFired(order[i][1], order[i][2])]
    BY Zenon
  <1>5. /\ r \in Seq(GnSignals) /\ Len(r) = c
        /\ \A i \in 1..c : r[i] = Gn!WatchFired(order[i][1], order[i][2])
    <2>1. ASSUME NEW i \in 1..c
          PROVE  Gn!WatchFired(order[i][1], order[i][2]) \in GnSignals
      <3>1. order[i][1] \in Nat /\ order[i][2] \in Nat
        BY SMTT(30), <1>3 DEF GnTypes
      <3> QED
        BY <3>1 DEF Gn!WatchFired, GnSignals
    <2> QED
      BY SMTT(30), <1>4, <2>1
  <1>6. queue \in Seq(GnSignals)
    BY DEF GnTypes
  <1>7. PICK n \in Nat : n = Len(queue)
    BY SMTT(30), <1>6
  <1>8. CASE ~subscribed
    <2>1. queue' = queue /\ queue = <<>> /\ pc \notin {"saver", "run", "rearm"}
      BY <1>3, <1>8 DEF Gn!Send, GnTypes
    <2>2. GnTypes'
      BY <1>1, <2>1 DEF GnTypes
    <2> QED
      BY SMTT(30), <1>1, <2>1, <2>2 DEF WatchIsKnown, SaverIsTold, ForeignIsUntrusted
  <1>9. CASE subscribed
    <2>1. queue' = queue \o r
      BY <1>3, <1>4, <1>9 DEF Gn!Send
    <2>2. /\ queue' \in Seq(GnSignals) /\ DOMAIN queue = 1..n /\ DOMAIN queue' = 1..(n + c)
          /\ \A i \in 1..n : queue'[i] = queue[i]
          /\ \A i \in 1..c : queue'[n + i] = r[i]
      <3>1. /\ queue \o r \in Seq(GnSignals) /\ DOMAIN queue = 1..Len(queue)
            /\ DOMAIN (queue \o r) = 1..(Len(queue) + Len(r))
            /\ \A i \in 1..Len(queue) : (queue \o r)[i] = queue[i]
            /\ \A i \in 1..Len(r) : (queue \o r)[Len(queue) + i] = r[i]
        <4>1. r \in Seq(GnSignals)
          BY <1>5
        <4> QED
          BY SMTT(30), <1>6, <4>1, Joined
      <3> QED
        BY <1>5, <1>7, <2>1, <3>1
    <2>3. \A i \in 1..c : n + i \in DOMAIN queue' /\ queue'[n + i] = Gn!WatchFired(order[i][1], order[i][2])
      BY SMTT(30), <1>5, <2>2
    <2>4. \A i \in 1..(n + c) : i > n => ~IsSwap(i)' /\ ~IsForeign(i)'
      <3> SUFFICES ASSUME NEW i \in 1..(n + c), i > n
                   PROVE  queue'[i].kind = "WatchFired"
        BY DEF IsSwap, IsForeign
      <3>1. i - n \in 1..c /\ n + (i - n) = i
        BY SMTT(30)
      <3>2. queue'[n + (i - n)] = Gn!WatchFired(order[i - n][1], order[i - n][2])
        BY <2>3, <3>1
      <3> QED
        BY SMTT(30), <3>1, <3>2 DEF Gn!WatchFired
    <2>5. SaverIsTold' /\ ForeignIsUntrusted'
      BY Zenon, <1>1, <2>2, <2>4, SaverUntouched
    <2>6. GnTypes'
      <3>1. watches' \subseteq Nat \X Nat
        BY <1>1
      <3> QED
        BY <1>1, <1>9, <2>2, <3>1 DEF GnTypes
    <2>7. WatchIsKnown'
      <3>1. CASE <<watch.owner, watch.id>> \in watches
        <4>1. PICK i \in 1..c : order[i] = <<watch.owner, watch.id>>
          BY <1>3, <3>1
        <4>2. n + i \in DOMAIN queue' /\ queue'[n + i] = Gn!WatchFired(watch.owner, watch.id)
          BY SMTT(30), <2>3, <4>1
        <4>3. PICK k : k = n + i
          OBVIOUS
        <4> QED
          BY <1>1, <4>2, <4>3 DEF WatchIsKnown, Gn!fired
      <3>2. CASE <<watch.owner, watch.id>> \notin watches
        BY SMTT(30), <1>1, <2>2, <3>2 DEF WatchIsKnown, Gn!fired, Gn!owner_changed
      <3> QED
        BY <3>1, <3>2
    <2> QED
      BY <1>1, <2>5, <2>6, <2>7
  <1> QED
    BY Zenon, <1>8, <1>9

\* A signal is taken from the queue.
LEMMA ProcessKeepsGn ==
    ASSUME GnAll, Gn!process
    PROVE  GnAll'
  <1> USE DEF GnAll
  <1>1. pc = "run" /\ queue # <<>> /\ queue \in Seq(GnSignals)
    BY DEF Gn!process, GnTypes
  <1>2. PICK m : m = Head(queue)
    OBVIOUS
  <1>3. CASE Gn!owner_changed(m)
    <2>1. Gn!Unavailable /\ UNCHANGED <<owner, newest, ids, believed>>
      BY <1>2, <1>3 DEF Gn!process
    <2> QED
      BY <2>1, UnavailableKeepsGn
  <1>4. CASE ~Gn!owner_changed(m)
    <2>1. /\ queue' = Tail(queue) /\ trusted' = Gn!Observed(m)
          /\ pc' = IF Gn!fired(m) THEN "rearm" ELSE "run"
          /\ UNCHANGED <<owner, newest, watches, ids, subscribed, watch, status>>
          /\ believed' = IF m.kind = "ScreenSaver" /\ m.owner = trusted THEN m.owned ELSE believed
      BY Zenon, <1>2, <1>4 DEF Gn!process, Gn!bus
    <2>2. Len(queue) - 1 \in Nat
      BY SMTT(30), <1>1
    <2>3. PICK n \in Nat : n = Len(queue) - 1
      BY <2>2
    <2>4. /\ queue' \in Seq(GnSignals) /\ m = queue[1] /\ m \in GnSignals
          /\ DOMAIN queue = 1..(n + 1) /\ DOMAIN queue' = 1..n
          /\ \A i \in 1..n : i + 1 \in 1..(n + 1) /\ queue'[i] = queue[i + 1]
          /\ \A i \in 2..(n + 1) : i - 1 \in 1..n /\ queue'[i - 1] = queue[i]
      BY SMTT(30), <1>1, <1>2, <2>1, <2>3, Taken
    <2>5. /\ \A i \in 1..n : (IsSwap(i)' <=> IsSwap(i + 1)) /\ (IsForeign(i)' <=> IsForeign(i + 1))
          /\ \A i \in 2..(n + 1) : IsSwap(i - 1)' <=> IsSwap(i)
      BY <2>4 DEF IsSwap, IsForeign
    <2>6. GnTypes'
      <3>1. pc' \in {"run", "rearm"}
        BY <2>1
      <3> QED
        BY <1>1, <2>1, <2>4, <3>1 DEF GnTypes
    <2>7. believed' = TRUE
      <3>1. CASE m.kind = "ScreenSaver" /\ m.owner = trusted
        <4>1. m.owned \in BOOLEAN
          BY <2>4, <3>1 DEF GnSignals
        <4>2. ~IsForeign(1)
          BY SMTT(30), <1>1, <2>4, <3>1 DEF ForeignIsUntrusted
        <4> QED
          BY <2>1, <2>4, <3>1, <4>1, <4>2 DEF IsForeign
      <3>2. CASE ~(m.kind = "ScreenSaver" /\ m.owner = trusted)
        BY <2>1, <3>2
      <3> QED
        BY Zenon, <3>1, <3>2
    <2>8. WatchIsKnown'
      <3> SUFFICES ASSUME ~Gn!fired(m), <<watch.owner, watch.id>> \notin watches
                   PROVE  \E i \in DOMAIN queue' : Gn!fired(queue[i])' \/ Gn!owner_changed(queue[i])'
        BY Zenon, <2>1 DEF WatchIsKnown
      <3>1. PICK i \in 1..(n + 1) : Gn!fired(queue[i]) \/ Gn!owner_changed(queue[i])
        BY <1>1, <2>4 DEF WatchIsKnown
      <3>2. i # 1
        BY <1>4, <2>4, <3>1
      <3>3. PICK k \in 1..n : k = i - 1 /\ queue'[k] = queue[i]
        BY SMTT(30), <2>4, <3>1, <3>2
      <3> QED
        <4>1. /\ Gn!fired(queue[i]) => Gn!fired(queue[k])'
              /\ Gn!owner_changed(queue[i]) => Gn!owner_changed(queue[k])'
          BY Zenon, <2>1, <3>3 DEF Gn!fired, Gn!owner_changed
        <4> QED
          BY <2>4, <3>1, <3>3, <4>1
    <2>9. SaverIsTold'
      <3>1. ASSUME NEW i \in DOMAIN queue', IsSwap(i)'
            PROVE  \E k \in DOMAIN queue' : k >= i /\ IsSwap(k)' /\ queue'[k].owner = owner'[Gn!Saver]
        <4>1. i + 1 \in 1..(n + 1) /\ IsSwap(i + 1)
          BY <2>4, <2>5, <3>1
        <4>2. PICK k \in 1..(n + 1) : k >= i + 1 /\ IsSwap(k) /\ queue[k].owner = owner[Gn!Saver]
          BY Zenon, <2>4, <4>1 DEF SaverIsTold
        <4>3. k \in 2..(n + 1) /\ k - 1 >= i
          BY SMTT(30), <2>4, <3>1, <4>2
        <4> QED
          BY Zenon, <2>1, <2>4, <2>5, <4>2, <4>3
      <3>2. ASSUME \A i \in DOMAIN queue' : ~IsSwap(i)'
            PROVE  trusted' = owner[Gn!Saver]
        <4>1. \A i \in 2..(n + 1) : ~IsSwap(i)
          BY Zenon, <2>4, <2>5, <3>2
        <4>2. CASE IsSwap(1)
          <5>1. PICK k \in 1..(n + 1) : IsSwap(k) /\ queue[k].owner = owner[Gn!Saver]
            <6>1. 1 \in DOMAIN queue
              BY SMTT(30), <2>4
            <6> QED
              BY Zenon, <2>4, <4>2, <6>1 DEF SaverIsTold
          <5>2. k = 1
            BY SMTT(30), <4>1, <5>1
          <5> QED
            BY <2>1, <2>4, <4>2, <5>1, <5>2 DEF Gn!Observed, IsSwap
        <4>3. CASE ~IsSwap(1)
          <5>1. \A i \in 1..(n + 1) : ~IsSwap(i)
            BY SMTT(30), <4>1, <4>3
          <5> QED
            BY <1>1, <2>1, <2>4, <4>3, <5>1 DEF SaverIsTold, Gn!Observed, IsSwap
        <4> QED
          BY <4>2, <4>3
      <3> QED
        BY <2>1, <3>1, <3>2 DEF SaverIsTold
    <2>10. ForeignIsUntrusted'
      <3> SUFFICES ASSUME NEW i \in DOMAIN queue', IsForeign(i)'
                   PROVE  /\ queue'[i].owner \in 1..newest'[Gn!Saver] /\ queue'[i].owner # owner'[Gn!Saver]
                          /\ \A j \in DOMAIN queue' : j < i /\ IsSwap(j)' /\ queue'[j].owner = queue'[i].owner =>
                                 \E k \in DOMAIN queue' :
                                     j < k /\ k < i /\ IsSwap(k)' /\ queue'[k].owner # queue'[i].owner
                          /\ pc' \in {"run", "rearm"} /\ trusted' = queue'[i].owner =>
                                 \E k \in DOMAIN queue' :
                                     k < i /\ IsSwap(k)' /\ queue'[k].owner # queue'[i].owner
        BY DEF ForeignIsUntrusted
      <3>1. i \in 1..n /\ i + 1 \in 1..(n + 1) /\ IsForeign(i + 1) /\ queue'[i] = queue[i + 1]
        BY <2>4, <2>5
      <3>2. queue'[i].owner \in 1..newest'[Gn!Saver] /\ queue'[i].owner # owner'[Gn!Saver]
        BY SMTT(30), <2>1, <2>4, <3>1 DEF ForeignIsUntrusted
      <3>3. ASSUME NEW j \in 1..(n + 1), j < i + 1, IsSwap(j), queue[j].owner = queue[i + 1].owner
            PROVE  \E k \in DOMAIN queue' :
                       j - 1 < k /\ k < i /\ IsSwap(k)' /\ queue'[k].owner # queue'[i].owner
        <4>1. PICK k \in 1..(n + 1) : j < k /\ k < i + 1 /\ IsSwap(k) /\ queue[k].owner # queue[i + 1].owner
          <5>1. i + 1 \in DOMAIN queue /\ j \in DOMAIN queue
            BY <2>4, <3>1
          <5>2. \E k \in DOMAIN queue : j < k /\ k < i + 1 /\ IsSwap(k) /\ queue[k].owner # queue[i + 1].owner
            BY <3>1, <3>3, <5>1, Zenon DEF ForeignIsUntrusted
          <5> QED
            BY <2>4, <5>2
        <4>2. k \in 2..(n + 1) /\ j - 1 < k - 1 /\ k - 1 < i
          BY SMTT(30), <2>4, <3>1, <4>1
        <4> QED
          BY SMTT(30), <2>4, <2>5, <3>1, <4>1, <4>2
      <3>4. ASSUME NEW j \in DOMAIN queue', j < i, IsSwap(j)', queue'[j].owner = queue'[i].owner
            PROVE  \E k \in DOMAIN queue' :
                       j < k /\ k < i /\ IsSwap(k)' /\ queue'[k].owner # queue'[i].owner
        <4>1. /\ j \in 1..n /\ j + 1 \in 1..(n + 1) /\ j + 1 < i + 1 /\ IsSwap(j + 1)
              /\ queue[j + 1].owner = queue[i + 1].owner /\ (j + 1) - 1 = j
          BY SMTT(30), <2>4, <2>5, <3>1, <3>4
        <4> QED
          BY <3>3, <4>1
      <3>5. ASSUME trusted' = queue'[i].owner
            PROVE  \E k \in DOMAIN queue' : k < i /\ IsSwap(k)' /\ queue'[k].owner # queue'[i].owner
        <4>1. CASE IsSwap(1)
          <5>1. queue[1].owner = queue[i + 1].owner /\ 1 \in 1..(n + 1) /\ 1 < i + 1
            BY SMTT(30), <2>1, <2>4, <3>1, <3>5, <4>1 DEF Gn!Observed, IsSwap
          <5> QED
            BY <3>3, <4>1, <5>1
        <4>2. CASE ~IsSwap(1)
          <5>1. trusted = queue[i + 1].owner
            BY <2>1, <2>4, <3>1, <3>5, <4>2 DEF Gn!Observed, IsSwap
          <5>2. PICK k \in 1..(n + 1) : k < i + 1 /\ IsSwap(k) /\ queue[k].owner # queue[i + 1].owner
            BY Zenon, <1>1, <2>4, <3>1, <5>1 DEF ForeignIsUntrusted
          <5>3. k \in 2..(n + 1) /\ k - 1 < i
            BY SMTT(30), <2>4, <3>1, <4>2, <5>2
          <5> QED
            <6>1. PICK x \in 1..n : x = k - 1 /\ x < i /\ queue'[x] = queue[k]
              BY <2>4, <5>3
            <6>2. IsSwap(x)'
              BY <5>2, <6>1 DEF IsSwap
            <6> QED
              BY <2>4, <3>1, <5>2, <6>1, <6>2
        <4> QED
          BY <4>1, <4>2
      <3> QED
        BY <3>2, <3>4, <3>5
    <2> QED
      BY <2>6, <2>7, <2>8, <2>9, <2>10
  <1> QED
    BY Zenon, <1>3, <1>4

\* The GNOME adapter that starts.
LEMMA GnInit ==
    ASSUME Gn!Init
    PROVE  GnAll
  <1>1. /\ owner = [x \in Gn!Names |-> 1] /\ newest = owner /\ watches = {} /\ ids = 0 /\ queue = <<>>
        /\ subscribed = FALSE /\ pc = "connect" /\ watch = [owner |-> 0, id |-> 0]
        /\ status = "Unavailable" /\ believed = TRUE
    BY DEF Gn!Init, Gn!NoWatch
  <1>2. DOMAIN queue = {} /\ queue \in Seq(GnSignals)
    BY SMTT(30), <1>1
  <1>3. GnTypes
    <2>1. watches \subseteq Nat \X Nat /\ watch \in [owner : Nat, id : Nat]
      BY <1>1
    <2>2. owner \in [Gn!Names -> Nat] /\ newest \in [Gn!Names -> Nat] /\ owner[Gn!Saver] <= newest[Gn!Saver]
      BY SMTT(30), <1>1 DEF Gn!Names
    <2> QED
      BY Zenon, <1>1, <1>2, <2>1, <2>2 DEF GnTypes
  <1> QED
    BY SMTT(30), <1>1, <1>2, <1>3 DEF GnAll, WatchIsKnown, SaverIsTold, ForeignIsUntrusted

\* No step of the GNOME adapter or of its surroundings breaks the invariant.
LEMMA GnNext ==
    ASSUME GnAll, Gn!Next \/ UNCHANGED Gn!vars
    PROVE  GnAll'
  <1>1. CASE UNCHANGED Gn!vars
    <2>1. GnTypes' /\ believed' = TRUE
      BY SMTT(30), <1>1 DEF GnAll, GnTypes, Gn!vars, Gn!bus, Gn!adapter
    <2>2. WatchIsKnown'
      BY SMTT(30), <1>1 DEF GnAll, WatchIsKnown, Gn!fired, Gn!owner_changed, Gn!vars, Gn!bus, Gn!adapter
    <2>3. SaverIsTold'
      BY SMTT(30), <1>1 DEF GnAll, SaverIsTold, IsSwap, Gn!vars, Gn!bus, Gn!adapter
    <2>4. ForeignIsUntrusted'
      <3>1. owner' = owner /\ newest' = newest /\ queue' = queue /\ pc' = pc /\ trusted' = trusted
        BY <1>1 DEF Gn!vars, Gn!bus, Gn!adapter
      <3> QED
        BY <3>1, SMTT(30) DEF GnAll, ForeignIsUntrusted, IsSwap, IsForeign
    <2> QED
      BY SMTT(30), <2>1, <2>2, <2>3, <2>4 DEF GnAll
  <1>2. CASE Gn!Unavailable /\ (Gn!Fail \/ Gn!CheckServices \/ Gn!ResolveWatchOwner \/ Gn!arm
                                \/ Gn!resolve_screen_saver_owner)
    <2>1. UNCHANGED <<owner, newest, ids, believed>>
      BY <1>2 DEF Gn!Unavailable, Gn!Fail, Gn!CheckServices, Gn!ResolveWatchOwner, Gn!arm, Gn!Armed,
                  Gn!resolve_screen_saver_owner
    <2> QED
      BY SMTT(30), <1>2, <2>1, UnavailableKeepsGn DEF GnAll
  <1>3. ASSUME NEW x \in Gn!Names, Gn!ChangeOwner(x)
        PROVE  GnAll'
    <2>1. x = Gn!Mutter \/ x = Gn!Saver
      BY DEF Gn!Names
    <2> QED
      BY SMTT(30), <1>3, <2>1, MutterKeepsGn, SaverKeepsGn
  <1>4. CASE Gn!Retry \/ Gn!subscribe_to_gnome_signals
    <2>1. ~Gn!Unavailable
      BY SMTT(30), <1>4 DEF Gn!Unavailable, Gn!Retry, Gn!subscribe_to_gnome_signals
    <2> QED
      BY SMTT(30), <1>4, <2>1, CallKeepsGn
  <1> QED
    BY SMTT(30), <1>1, <1>2, <1>3, <1>4, InputKeepsGn, SpeechKeepsGn, CallKeepsGn, ProcessKeepsGn
       DEF Gn!Next, Gn!Adapter, Gn!Fail

\* What the invariant says of an available adapter, and of what was published.
LEMMA GnSafe ==
    ASSUME GnAll
    PROVE  Gn!WatchIsLive /\ Gn!SaverIsTrusted
  <1>1. Gn!WatchIsLive
    BY DEF GnAll, GnTypes, WatchIsKnown, Gn!WatchIsLive
  <1> QED
    BY <1>1 DEF GnAll, Gn!SaverIsTrusted

-----------------------------------------------------------------------------
(***************************************************************************)
(* The Wayland adapter.  What it does not know of the compositor's globals *)
(* is in its queue.                                                        *)
(***************************************************************************)
CONSTANTS Seats, Notifiers, Required, MaxChanges

\* The names of the compositor's globals tell the globals apart.
ASSUME SourcesAssumption ==
    /\ Seats \cap Notifiers = {}
    /\ "none" \notin Seats \cup Notifiers

VARIABLES
    globals, wl_queue, wl_pc, facts, notifier, seats, attached, initialized, error, wl_status,
    changes, wl_unseen

\* The one notifier that is too old, and two that will do.
Versions == [n \in Notifiers |-> IF n = "old" THEN 1 ELSE 2]

Wl == INSTANCE WaylandSource WITH
          queue <- wl_queue, pc <- wl_pc, status <- wl_status, unseen <- wl_unseen

WlEvents == [kind : {"global", "global_remove", "resumed"}, name : Wl!Globals] \cup {Wl!Done}

Queued(e) == \E i \in DOMAIN wl_queue : wl_queue[i] = e

WlTypes ==
    /\ globals \subseteq Wl!Globals /\ facts \subseteq Wl!Globals /\ seats \subseteq Seats
    /\ wl_queue \in Seq(WlEvents)
    /\ notifier \in Notifiers \cup {"none"}
    /\ wl_pc \in {"connect", "retry", "discover", "settle", "run"}
    /\ wl_status = "Available" => wl_pc = "run"

\* A connection that is not there knows nothing.
WlApart ==
    ~Wl!Connected =>
        wl_queue = <<>> /\ facts = {} /\ notifier = "none" /\ seats = {} /\ attached = {}

\* Every seat that is there is known, or its announcement is on its way.
SeatsAreTold == Wl!Connected => \A g \in globals \cap Seats : g \in seats \/ Queued(Wl!Global(g))

\* The removal of a global is on its way only when it has gone; and it is, when the
\* adapter takes the global to be there or is about to.
RemovalsAreReal == \A g \in globals : ~Queued(Wl!GlobalRemove(g))
RemovalsAreTold ==
    /\ \A g \in facts : g \in globals \/ Queued(Wl!GlobalRemove(g))
    /\ \A i \in DOMAIN wl_queue : wl_queue[i].kind = "global" =>
           \/ wl_queue[i].name \in globals
           \/ \E k \in DOMAIN wl_queue : k > i /\ wl_queue[k] = Wl!GlobalRemove(wl_queue[i].name)

\* All seats that are known are listened to once there is a notifier; the first that will
\* do is bound, and its loss is noticed.
NotifierIsBound ==
    /\ attached = IF notifier = "none" THEN {} ELSE seats
    /\ notifier = "none" => Wl!Usable(facts) = {}
    /\ wl_pc \in {"settle", "run"} => notifier # "none"
    /\ notifier # "none" =>
           notifier \in globals \/ Queued(Wl!GlobalRemove(notifier)) \/ error # "none"

WlAll == WlTypes /\ WlApart /\ SeatsAreTold /\ RemovalsAreReal /\ RemovalsAreTold /\ NotifierIsBound

\* An event that the compositor sends.
LEMMA WlSent ==
    ASSUME WlTypes, NEW m \in WlEvents, wl_queue' = Append(wl_queue, m)
    PROVE  /\ wl_queue' \in Seq(WlEvents)
           /\ \A e : Queued(e)' <=> Queued(e) \/ e = m
           /\ \E n \in Nat : /\ DOMAIN wl_queue = 1..n /\ DOMAIN wl_queue' = 1..(n + 1)
                             /\ \A i \in 1..n : wl_queue'[i] = wl_queue[i]
                             /\ wl_queue'[n + 1] = m
  <1>1. wl_queue \in Seq(WlEvents)
    BY DEF WlTypes
  <1>2. PICK n \in Nat : n = Len(wl_queue)
    BY SMTT(30), <1>1
  <1>3. /\ wl_queue' \in Seq(WlEvents)
        /\ DOMAIN wl_queue = 1..n /\ DOMAIN wl_queue' = 1..(n + 1)
        /\ \A i \in 1..n : wl_queue'[i] = wl_queue[i]
        /\ wl_queue'[n + 1] = m
    BY SMTT(30), <1>1, <1>2, Appended
  <1>4. ASSUME NEW e
        PROVE  Queued(e)' <=> Queued(e) \/ e = m
    BY SMTT(30), <1>3 DEF Queued
  <1> QED
    BY <1>3, <1>4

\* An event that the adapter takes; the end of its first roundtrip sends the next.
LEMMA WlTaken ==
    ASSUME WlTypes, wl_queue # <<>>,
           wl_queue' = Tail(wl_queue) \/ wl_queue' = Append(Tail(wl_queue), Wl!Done)
    PROVE  /\ wl_queue' \in Seq(WlEvents)
           /\ Head(wl_queue) \in WlEvents /\ Queued(Head(wl_queue))
           /\ \A e : Queued(e) => Queued(e)' \/ e = Head(wl_queue)
           /\ \A e : Queued(e)' => Queued(e) \/ e = Wl!Done
           /\ RemovalsAreTold /\ UNCHANGED globals =>
                 /\ \A i \in DOMAIN wl_queue' : wl_queue'[i].kind = "global" =>
                       \/ wl_queue'[i].name \in globals'
                       \/ \E k \in DOMAIN wl_queue' :
                             k > i /\ wl_queue'[k] = Wl!GlobalRemove(wl_queue'[i].name)
                 /\ \A g : Head(wl_queue) = Wl!Global(g) =>
                       g \in globals \/ Queued(Wl!GlobalRemove(g))'
  <1>1. wl_queue \in Seq(WlEvents) /\ Wl!Done \in WlEvents
    BY DEF WlTypes, WlEvents
  <1>2. Len(wl_queue) - 1 \in Nat
    BY SMTT(30), <1>1
  <1>3. PICK n \in Nat : n = Len(wl_queue) - 1
    BY <1>2
  <1>4. /\ DOMAIN wl_queue = 1..(n + 1) /\ Head(wl_queue) = wl_queue[1] /\ wl_queue[1] \in WlEvents
        /\ Tail(wl_queue) \in Seq(WlEvents) /\ Len(Tail(wl_queue)) = n
        /\ DOMAIN Tail(wl_queue) = 1..n
        /\ \A i \in 1..n : Tail(wl_queue)[i] = wl_queue[i + 1]
    BY SMTT(30), <1>1, <1>3, Taken
  <1>5. PICK d \in {0, 1} :
            /\ wl_queue' \in Seq(WlEvents) /\ DOMAIN wl_queue' = 1..(n + d)
            /\ \A i \in 1..n : wl_queue'[i] = wl_queue[i + 1]
            /\ d = 1 => wl_queue'[n + 1] = Wl!Done
    <2>1. CASE wl_queue' = Tail(wl_queue)
      BY SMTT(30), <1>4, <2>1
    <2>2. CASE wl_queue' = Append(Tail(wl_queue), Wl!Done)
      <3>1. /\ wl_queue' \in Seq(WlEvents) /\ DOMAIN wl_queue' = 1..(n + 1)
            /\ \A i \in 1..n : wl_queue'[i] = Tail(wl_queue)[i]
            /\ wl_queue'[n + 1] = Wl!Done
        BY SMTT(30), <1>1, <1>4, <2>2, Appended
      <3> QED
        BY <1>4, <3>1
    <2> QED
      BY <2>1, <2>2
  <1>6. \A i \in 2..(n + 1) : i - 1 \in DOMAIN wl_queue' /\ wl_queue'[i - 1] = wl_queue[i]
    BY SMTT(30), <1>5
  <1>7. ASSUME NEW e, Queued(e)
        PROVE  Queued(e)' \/ e = Head(wl_queue)
    <2>1. PICK i \in 1..(n + 1) : wl_queue[i] = e
      BY <1>4, <1>7 DEF Queued
    <2>2. CASE i = 1
      BY <1>4, <2>1, <2>2
    <2>3. CASE i # 1
      <3>1. i - 1 \in DOMAIN wl_queue' /\ wl_queue'[i - 1] = e
        BY SMTT(30), <1>6, <2>1, <2>3
      <3> QED
        BY <3>1 DEF Queued
    <2> QED
      BY <2>2, <2>3
  <1>8. ASSUME NEW e, Queued(e)'
        PROVE  Queued(e) \/ e = Wl!Done
    <2>1. PICK i \in 1..(n + d) : wl_queue'[i] = e
      BY <1>5, <1>8 DEF Queued
    <2>2. CASE i \in 1..n
      <3>1. i + 1 \in DOMAIN wl_queue /\ wl_queue[i + 1] = e
        BY SMTT(30), <1>4, <1>5, <2>1, <2>2
      <3> QED
        BY <3>1 DEF Queued
    <2>3. CASE i \notin 1..n
      BY SMTT(30), <1>5, <2>1, <2>3
    <2> QED
      BY <2>2, <2>3
  <1>9. ASSUME RemovalsAreTold, UNCHANGED globals,
               NEW i \in DOMAIN wl_queue', wl_queue'[i].kind = "global"
        PROVE  \/ wl_queue'[i].name \in globals'
               \/ \E k \in DOMAIN wl_queue' :
                     k > i /\ wl_queue'[k] = Wl!GlobalRemove(wl_queue'[i].name)
    <2>1. i \in 1..n /\ i + 1 \in DOMAIN wl_queue /\ wl_queue'[i] = wl_queue[i + 1]
      BY SMTT(30), <1>4, <1>5, <1>9 DEF Wl!Done
    <2>2. CASE wl_queue[i + 1].name \in globals
      BY <1>9, <2>1, <2>2
    <2>3. CASE wl_queue[i + 1].name \notin globals
      <3>1. PICK k \in 1..(n + 1) :
                k > i + 1 /\ wl_queue[k] = Wl!GlobalRemove(wl_queue[i + 1].name)
        BY <1>4, <1>9, <2>1, <2>3 DEF RemovalsAreTold
      <3>2. k - 1 \in DOMAIN wl_queue' /\ k - 1 > i /\ wl_queue'[k - 1] = wl_queue[k]
        BY SMTT(30), <1>6, <2>1, <3>1
      <3> QED
        BY <2>1, <3>1, <3>2
    <2> QED
      BY <2>2, <2>3
  <1>10. ASSUME RemovalsAreTold, NEW g, wl_queue[1] = Wl!Global(g), g \notin globals
         PROVE  Queued(Wl!GlobalRemove(g))'
    <2>1. wl_queue[1].kind = "global" /\ wl_queue[1].name = g
      BY SMTT(30), <1>10 DEF Wl!Global
    <2>2. PICK k \in 1..(n + 1) : k > 1 /\ wl_queue[k] = Wl!GlobalRemove(g)
      BY SMTT(30), <1>4, <1>10, <2>1 DEF RemovalsAreTold
    <2>3. k - 1 \in DOMAIN wl_queue' /\ wl_queue'[k - 1] = Wl!GlobalRemove(g)
      BY SMTT(30), <1>6, <2>2
    <2> QED
      BY <2>3 DEF Queued
  <1>11. Queued(Head(wl_queue))
    BY SMTT(30), <1>4 DEF Queued
  <1> QED
    BY <1>4, <1>5, <1>7, <1>8, <1>9, <1>10, <1>11

\* A global appears.
LEMMA AnnounceKeepsWl ==
    ASSUME WlAll, NEW g \in Wl!Globals, Wl!Announce(g)
    PROVE  WlAll'
  <1> USE DEF WlAll
  <1>1. /\ g \notin globals /\ \A i \in DOMAIN wl_queue : wl_queue[i].name # g
        /\ globals' = globals \cup {g}
        /\ UNCHANGED <<wl_pc, facts, notifier, seats, attached, error, wl_status>>
    BY DEF Wl!Announce, Wl!adapter, Wl!state
  <1>2. CASE ~Wl!Connected
    <2>1. UNCHANGED wl_queue /\ wl_queue = <<>>
      BY <1>2 DEF Wl!Announce, WlApart
    <2> QED
      BY SMTT(30), <1>1, <1>2, <2>1 DEF WlTypes, WlApart, SeatsAreTold, RemovalsAreReal, RemovalsAreTold,
                              NotifierIsBound, Queued, Wl!Connected
  <1>3. CASE Wl!Connected
    <2>1. wl_queue' = Append(wl_queue, Wl!Global(g)) /\ Wl!Global(g) \in WlEvents
      BY <1>3 DEF Wl!Announce, Wl!Global, WlEvents
    <2>2. /\ wl_queue' \in Seq(WlEvents) /\ \A e : Queued(e)' <=> Queued(e) \/ e = Wl!Global(g)
      BY <2>1, WlSent
    <2>3. PICK n \in Nat : /\ DOMAIN wl_queue = 1..n /\ DOMAIN wl_queue' = 1..(n + 1)
                           /\ \A i \in 1..n : wl_queue'[i] = wl_queue[i]
                           /\ wl_queue'[n + 1] = Wl!Global(g)
      BY <2>1, WlSent
    <2>4. \A x : Queued(Wl!GlobalRemove(x))' <=> Queued(Wl!GlobalRemove(x))
      BY <2>2 DEF Wl!GlobalRemove, Wl!Global
    <2>5. WlTypes' /\ WlApart' /\ NotifierIsBound'
      BY <1>1, <1>3, <2>2, <2>4 DEF WlTypes, WlApart, NotifierIsBound, Wl!Connected
    <2>6. SeatsAreTold'
      BY <1>1, <1>3, <2>2 DEF SeatsAreTold, Wl!Connected
    <2>7. RemovalsAreReal'
      <3>1. ~Queued(Wl!GlobalRemove(g))
        BY SMTT(30), <1>1 DEF Queued, Wl!GlobalRemove
      <3> QED
        BY <1>1, <2>4, <3>1 DEF RemovalsAreReal
    <2>8. RemovalsAreTold'
      <3>1. ASSUME NEW i \in 1..(n + 1), wl_queue'[i].kind = "global"
            PROVE  \/ wl_queue'[i].name \in globals'
                   \/ \E k \in 1..(n + 1) :
                         k > i /\ wl_queue'[k] = Wl!GlobalRemove(wl_queue'[i].name)
        <4>1. CASE i = n + 1
          BY SMTT(30), <1>1, <2>3, <4>1 DEF Wl!Global
        <4>2. CASE i # n + 1
          BY SMTT(30), <1>1, <2>3, <3>1, <4>2 DEF RemovalsAreTold
        <4> QED
          BY <4>1, <4>2
      <3> QED
        BY <1>1, <2>3, <2>4, <3>1 DEF RemovalsAreTold
    <2> QED
      BY <2>5, <2>6, <2>7, <2>8
  <1> QED
    BY <1>2, <1>3

\* A global disappears.
LEMMA WithdrawKeepsWl ==
    ASSUME WlAll, NEW g \in Wl!Globals, Wl!Withdraw(g)
    PROVE  WlAll'
  <1> USE DEF WlAll
  <1>1. /\ g \in globals /\ globals' = globals \ {g}
        /\ UNCHANGED <<wl_pc, facts, notifier, seats, attached, error, wl_status>>
    BY DEF Wl!Withdraw, Wl!adapter, Wl!state
  <1>2. CASE ~Wl!Connected
    <2>1. UNCHANGED wl_queue /\ wl_queue = <<>>
      BY <1>2 DEF Wl!Withdraw, WlApart
    <2> QED
      BY SMTT(30), <1>1, <1>2, <2>1 DEF WlTypes, WlApart, SeatsAreTold, RemovalsAreReal, RemovalsAreTold,
                              NotifierIsBound, Queued, Wl!Connected
  <1>3. CASE Wl!Connected
    <2>1. wl_queue' = Append(wl_queue, Wl!GlobalRemove(g)) /\ Wl!GlobalRemove(g) \in WlEvents
      BY <1>3 DEF Wl!Withdraw, Wl!GlobalRemove, WlEvents
    <2>2. /\ wl_queue' \in Seq(WlEvents) /\ \A e : Queued(e)' <=> Queued(e) \/ e = Wl!GlobalRemove(g)
      BY <2>1, WlSent
    <2>3. PICK n \in Nat : /\ DOMAIN wl_queue = 1..n /\ DOMAIN wl_queue' = 1..(n + 1)
                           /\ \A i \in 1..n : wl_queue'[i] = wl_queue[i]
                           /\ wl_queue'[n + 1] = Wl!GlobalRemove(g)
      BY <2>1, WlSent
    <2>4. /\ \A x : Queued(Wl!Global(x))' <=> Queued(Wl!Global(x))
          /\ \A x : Queued(Wl!GlobalRemove(x))' <=> Queued(Wl!GlobalRemove(x)) \/ x = g
      BY <2>2 DEF Wl!GlobalRemove, Wl!Global
    <2>5. WlTypes' /\ WlApart'
      BY <1>1, <1>3, <2>2 DEF WlTypes, WlApart, Wl!Connected
    <2>6. SeatsAreTold' /\ RemovalsAreReal'
      BY <1>1, <1>3, <2>4 DEF SeatsAreTold, RemovalsAreReal, Wl!Connected
    <2>7. NotifierIsBound'
      BY <1>1, <2>4 DEF NotifierIsBound, Wl!Usable
    <2>8. RemovalsAreTold'
      <3>1. ASSUME NEW i \in 1..(n + 1), wl_queue'[i].kind = "global"
            PROVE  \/ wl_queue'[i].name \in globals'
                   \/ \E k \in 1..(n + 1) :
                         k > i /\ wl_queue'[k] = Wl!GlobalRemove(wl_queue'[i].name)
        <4>1. i # n + 1
          BY SMTT(30), <2>3, <3>1 DEF Wl!GlobalRemove
        <4>2. i \in 1..n /\ i < n + 1 /\ wl_queue'[i] = wl_queue[i] /\ n + 1 \in 1..(n + 1)
          BY SMTT(30), <2>3, <4>1
        <4>3. CASE wl_queue[i].name = g
          BY <2>3, <4>2, <4>3
        <4>4. CASE wl_queue[i].name # g /\ wl_queue[i].name \in globals
          BY <1>1, <4>2, <4>4
        <4>5. CASE wl_queue[i].name \notin globals
          <5>1. PICK k \in 1..n : k > i /\ wl_queue[k] = Wl!GlobalRemove(wl_queue[i].name)
            BY <2>3, <3>1, <4>2, <4>5 DEF RemovalsAreTold
          <5> QED
            BY SMTT(30), <2>3, <4>2, <5>1
        <4> QED
          BY <4>3, <4>4, <4>5
      <3> QED
        BY <1>1, <2>3, <2>4, <3>1 DEF RemovalsAreTold
    <2> QED
      BY <2>5, <2>6, <2>7, <2>8
  <1> QED
    BY <1>2, <1>3

\* There is input at a seat.
LEMMA InputKeepsWl ==
    ASSUME WlAll, NEW x \in Seats, Wl!Input(x)
    PROVE  WlAll'
  <1> USE DEF WlAll
  <1>1. UNCHANGED <<globals, wl_pc, facts, notifier, seats, attached, error, wl_status>>
    BY DEF Wl!Input, Wl!adapter, Wl!state
  <1>2. CASE x \notin attached
    <2>1. UNCHANGED wl_queue
      BY <1>2 DEF Wl!Input
    <2> QED
      BY <1>1, <2>1 DEF WlTypes, WlApart, SeatsAreTold, RemovalsAreReal, RemovalsAreTold,
                        NotifierIsBound, Queued, Wl!Connected
  <1>3. CASE x \in attached
    <2>1. wl_queue' = Append(wl_queue, Wl!Resumed(x)) /\ Wl!Resumed(x) \in WlEvents
      BY <1>3 DEF Wl!Input, Wl!Resumed, WlEvents, Wl!Globals
    <2>2. /\ wl_queue' \in Seq(WlEvents) /\ \A e : Queued(e)' <=> Queued(e) \/ e = Wl!Resumed(x)
      BY <2>1, WlSent
    <2>3. PICK n \in Nat : /\ DOMAIN wl_queue = 1..n /\ DOMAIN wl_queue' = 1..(n + 1)
                           /\ \A i \in 1..n : wl_queue'[i] = wl_queue[i]
                           /\ wl_queue'[n + 1] = Wl!Resumed(x)
      BY <2>1, WlSent
    <2>4. /\ \A y : Queued(Wl!Global(y))' <=> Queued(Wl!Global(y))
          /\ \A y : Queued(Wl!GlobalRemove(y))' <=> Queued(Wl!GlobalRemove(y))
      BY <2>2 DEF Wl!GlobalRemove, Wl!Global, Wl!Resumed
    <2>5. WlTypes' /\ WlApart'
      BY <1>1, <1>3, <2>2 DEF WlTypes, WlApart, Wl!Connected
    <2>6. SeatsAreTold' /\ RemovalsAreReal' /\ NotifierIsBound'
      BY <1>1, <2>4 DEF SeatsAreTold, RemovalsAreReal, Wl!Connected, NotifierIsBound, Wl!Usable
    <2>7. RemovalsAreTold'
      <3>1. ASSUME NEW i \in 1..(n + 1), wl_queue'[i].kind = "global"
            PROVE  \/ wl_queue'[i].name \in globals'
                   \/ \E k \in 1..(n + 1) :
                         k > i /\ wl_queue'[k] = Wl!GlobalRemove(wl_queue'[i].name)
        <4>1. i # n + 1
          BY SMTT(30), <2>3, <3>1 DEF Wl!Resumed
        <4> QED
          BY SMTT(30), <1>1, <2>3, <3>1, <4>1 DEF RemovalsAreTold
      <3> QED
        BY <1>1, <2>3, <2>4, <3>1 DEF RemovalsAreTold
    <2> QED
      BY <2>5, <2>6, <2>7
  <1> QED
    BY <1>2, <1>3

\* The connection is dropped.
LEMMA UnavailableKeepsWl ==
    ASSUME WlAll, Wl!Unavailable, UNCHANGED globals
    PROVE  WlAll'
  <1>1. /\ wl_pc' = "retry" /\ wl_status' = "Unavailable" /\ wl_queue' = <<>>
        /\ facts' = {} /\ notifier' = "none" /\ seats' = {} /\ attached' = {}
    BY DEF Wl!Unavailable, Wl!Fresh, Wl!None
  <1>2. DOMAIN wl_queue' = {} /\ wl_queue' \in Seq(WlEvents) /\ \A e : ~Queued(e)'
    BY SMTT(30), <1>1 DEF Queued
  <1>3. Wl!Usable({}) = {}
    BY DEF Wl!Usable
  <1> QED
    BY <1>1, <1>2, <1>3 DEF WlAll, WlTypes, WlApart, SeatsAreTold, RemovalsAreReal, RemovalsAreTold,
                            NotifierIsBound, Wl!Connected

\* The adapter connects: the compositor names its globals and answers the first sync.
LEMMA ConnectKeepsWl ==
    ASSUME WlAll, Wl!connect
    PROVE  WlAll'
  <1> USE DEF WlAll
  <1>1. /\ wl_pc = "connect" /\ wl_pc' = "discover"
        /\ UNCHANGED <<globals, facts, notifier, seats, attached, error, wl_status>>
        /\ facts = {} /\ notifier = "none" /\ seats = {} /\ attached = {}
    BY DEF Wl!connect, Wl!state, WlApart, Wl!Connected
  <1>2. PICK n \in Nat : \E o \in [1..n -> globals] :
            /\ \A g \in globals : \E i \in 1..n : o[i] = g
            /\ wl_queue' = [i \in 1..n |-> Wl!Global(o[i])] \o <<Wl!Done>>
    BY SMTT(30) DEF Wl!connect
  <1>4. PICK order \in [1..n -> globals] :
            /\ \A g \in globals : \E i \in 1..n : order[i] = g
            /\ wl_queue' = [i \in 1..n |-> Wl!Global(order[i])] \o <<Wl!Done>>
    BY <1>2
  <1>5. /\ [i \in 1..n |-> Wl!Global(order[i])] \in Seq(WlEvents)
        /\ Len([i \in 1..n |-> Wl!Global(order[i])]) = n /\ <<Wl!Done>> \in Seq(WlEvents)
    <2>1. \A i \in 1..n : Wl!Global(order[i]) \in WlEvents
      BY <1>4 DEF WlTypes, WlEvents, Wl!Global
    <2>2. Wl!Done \in WlEvents
      BY DEF WlEvents
    <2> QED
      BY SMTT(30), <2>1, <2>2
  <1>6. /\ wl_queue' \in Seq(WlEvents) /\ DOMAIN wl_queue' = 1..(n + 1)
        /\ \A i \in 1..n : wl_queue'[i] = Wl!Global(order[i])
        /\ wl_queue'[n + 1] = Wl!Done
    BY SMTT(30), <1>4, <1>5
  <1>7. \A g \in globals : Queued(Wl!Global(g))'
    BY SMTT(30), <1>4, <1>6 DEF Queued
  <1>8. \A g \in globals : ~Queued(Wl!GlobalRemove(g))'
    <2>1. \A i \in 1..(n + 1) : wl_queue'[i].kind # "global_remove"
      <3> SUFFICES ASSUME NEW i \in 1..(n + 1)
                   PROVE  wl_queue'[i].kind # "global_remove"
        OBVIOUS
      <3>1. CASE i = n + 1
        BY SMTT(30), <1>6, <3>1 DEF Wl!Done
      <3>2. CASE i # n + 1
        <4>1. i \in 1..n
          BY SMTT(30), <3>2
        <4>2. wl_queue'[i] = Wl!Global(order[i])
          BY <1>6, <4>1
        <4> QED
          BY SMTT(30), <4>2 DEF Wl!Global
      <3> QED
        BY <3>1, <3>2
    <2> QED
      BY SMTT(30), <1>6, <2>1 DEF Queued, Wl!GlobalRemove
  <1>9. \A i \in 1..(n + 1) : wl_queue'[i].kind = "global" => wl_queue'[i].name \in globals
    BY SMTT(30), <1>4, <1>6 DEF Wl!Global, Wl!Done
  <1>10. WlTypes' /\ WlApart'
    BY <1>1, <1>6 DEF WlTypes, WlApart, Wl!Connected
  <1>11. SeatsAreTold' /\ RemovalsAreReal' /\ RemovalsAreTold'
    BY <1>1, <1>6, <1>7, <1>8, <1>9 DEF SeatsAreTold, RemovalsAreReal, RemovalsAreTold
  <1>12. NotifierIsBound'
    BY <1>1 DEF NotifierIsBound
  <1> QED
    BY <1>10, <1>11, <1>12

\* A roundtrip ends.
LEMMA RoundtripKeepsWl ==
    ASSUME WlAll, Wl!Discovered \/ Wl!Settled
    PROVE  WlAll'
  <1>1. wl_queue # <<>> /\ Head(wl_queue) = Wl!Done /\ UNCHANGED globals /\ Wl!Connected
    BY DEF Wl!Discovered, Wl!Settled, Wl!Connected
  <1>2. CASE Wl!Unavailable
    BY <1>1, <1>2, UnavailableKeepsWl
  <1>3. CASE ~Wl!Unavailable
    <2>1. /\ wl_queue' = Tail(wl_queue) \/ wl_queue' = Append(Tail(wl_queue), Wl!Done)
          /\ UNCHANGED <<facts, notifier, seats, attached, error>>
          /\ \/ wl_pc' = "settle" /\ UNCHANGED wl_status /\ Wl!Usable(facts) # {} /\ wl_pc = "discover"
             \/ wl_pc' = "run" /\ wl_pc = "settle"
      BY <1>3 DEF Wl!Discovered, Wl!Settled, Wl!capabilities, Wl!state
    <2>2. /\ wl_queue' \in Seq(WlEvents)
          /\ \A e : Queued(e) => Queued(e)' \/ e = Wl!Done
          /\ \A e : Queued(e)' => Queued(e) \/ e = Wl!Done
          /\ \A i \in DOMAIN wl_queue' : wl_queue'[i].kind = "global" =>
                \/ wl_queue'[i].name \in globals'
                \/ \E k \in DOMAIN wl_queue' :
                      k > i /\ wl_queue'[k] = Wl!GlobalRemove(wl_queue'[i].name)
      BY <1>1, <2>1, WlTaken DEF WlAll
    <2>3. /\ \A y : Queued(Wl!Global(y))' <=> Queued(Wl!Global(y))
          /\ \A y : Queued(Wl!GlobalRemove(y))' <=> Queued(Wl!GlobalRemove(y))
      BY <2>2 DEF Wl!Global, Wl!GlobalRemove, Wl!Done
    <2>4. WlTypes' /\ WlApart'
      BY <1>1, <2>1, <2>2 DEF WlAll, WlTypes, WlApart, Wl!Connected
    <2>5. SeatsAreTold' /\ RemovalsAreReal'
      BY <1>1, <2>1, <2>3 DEF WlAll, SeatsAreTold, RemovalsAreReal
    <2>6. RemovalsAreTold'
      BY <1>1, <2>1, <2>2, <2>3 DEF WlAll, RemovalsAreTold
    <2>7. NotifierIsBound'
      BY <1>1, <2>1, <2>3 DEF WlAll, NotifierIsBound
    <2> QED
      BY <2>4, <2>5, <2>6, <2>7 DEF WlAll
  <1> QED
    BY <1>2, <1>3

\* Of the usable notifiers the adapter knows, one is selected.
LEMMA Selected ==
    ASSUME NEW F, Wl!Usable(F) # {}
    PROVE  Wl!selected_idle_notifier(F) # {}
  <1>1. \A x \in Wl!Usable(F) : Versions[x] \in {1, 2}
    BY DEF Wl!Usable, Versions
  <1>2. CASE \E x \in Wl!Usable(F) : Versions[x] = 2
    BY SMTT(30), <1>1, <1>2 DEF Wl!selected_idle_notifier
  <1>3. CASE \A x \in Wl!Usable(F) : Versions[x] # 2
    BY SMTT(30), <1>1, <1>3 DEF Wl!selected_idle_notifier
  <1> QED
    BY <1>2, <1>3

\* An event of the registry or of a notification is handled.
LEMMA DispatchKeepsWl ==
    ASSUME WlAll, Wl!dispatch
    PROVE  WlAll'
  <1> USE DEF WlAll
  <1>1. /\ wl_queue # <<>> /\ Head(wl_queue) # Wl!Done /\ wl_queue' = Tail(wl_queue) /\ Wl!Connected
        /\ UNCHANGED <<globals, wl_pc, wl_status>> /\ Wl!Handle(Head(wl_queue))
    BY DEF Wl!dispatch, Wl!Connected
  <1>2. PICK m : m = Head(wl_queue)
    OBVIOUS
  <1>3. /\ wl_queue' \in Seq(WlEvents) /\ m \in WlEvents /\ Queued(m)
        /\ \A e : Queued(e) => Queued(e)' \/ e = m
        /\ \A e : Queued(e)' => Queued(e) \/ e = Wl!Done
        /\ \A g : m = Wl!Global(g) => g \in globals \/ Queued(Wl!GlobalRemove(g))'
    BY <1>1, <1>2, WlTaken
  <1>4. \A i \in DOMAIN wl_queue' : wl_queue'[i].kind = "global" =>
            \/ wl_queue'[i].name \in globals'
            \/ \E k \in DOMAIN wl_queue' :
                  k > i /\ wl_queue'[k] = Wl!GlobalRemove(wl_queue'[i].name)
    BY <1>1, WlTaken
  <1>5. /\ m.name \in Wl!Globals /\ m.kind \in {"global", "global_remove", "resumed"}
        /\ m = [kind |-> m.kind, name |-> m.name]
    BY <1>1, <1>2, <1>3 DEF WlEvents
  <1>6. RemovalsAreReal'
    BY Zenon, <1>1, <1>3 DEF RemovalsAreReal, Wl!GlobalRemove, Wl!Done
  <1>7. WlApart' /\ Wl!Connected'
    BY <1>1 DEF WlApart, Wl!Connected
  <1>8. CASE m.kind = "global" /\ m.name \in Notifiers
    <2>1. /\ facts' = facts \cup {m.name} /\ Wl!bind_idle_notifier(facts')
          /\ UNCHANGED <<seats, error>>
      BY Zenon, <1>1, <1>2, <1>8 DEF Wl!Handle, Wl!bind_idle_notifier
    <2>2. m = Wl!Global(m.name) /\ \A x : m # Wl!GlobalRemove(x)
      BY SMTT(30), <1>5, <1>8 DEF Wl!Global, Wl!GlobalRemove
    <2>3. \A g \in facts' : g \in globals \/ Queued(Wl!GlobalRemove(g))'
      BY <1>3, <2>1, <2>2 DEF RemovalsAreTold
    <2>4. RemovalsAreTold'
      BY <1>1, <1>4, <2>3 DEF RemovalsAreTold
    <2>5. SeatsAreTold'
      <3>1. m.name \notin Seats
        BY <1>8, SourcesAssumption
      <3>2. \A g \in Seats : m # Wl!Global(g)
        BY SMTT(30), <3>1 DEF Wl!Global
      <3> QED
        BY <1>1, <1>3, <2>1, <3>2 DEF SeatsAreTold
    <2>6. CASE notifier = "none" /\ Wl!selected_idle_notifier(facts') # {}
      <3>1. /\ notifier' \in Wl!selected_idle_notifier(facts') /\ attached' = seats
        BY <2>1, <2>6 DEF Wl!bind_idle_notifier, Wl!None
      <3>2. notifier' \in facts' /\ notifier' \in Notifiers /\ notifier' # "none"
        BY <3>1, SourcesAssumption DEF Wl!selected_idle_notifier, Wl!Usable
      <3>3. PICK x : x = notifier'
        OBVIOUS
      <3>4. x \in globals \/ Queued(Wl!GlobalRemove(x))'
        BY <2>3, <3>2, <3>3
      <3>5. NotifierIsBound'
        BY <1>1, <2>1, <3>1, <3>2, <3>3, <3>4 DEF NotifierIsBound, Queued
      <3>6. WlTypes'
        BY <1>1, <1>3, <1>5, <2>1, <3>2 DEF WlTypes
      <3> QED
        BY <1>6, <1>7, <2>4, <2>5, <3>5, <3>6
    <2>7. CASE ~(notifier = "none" /\ Wl!selected_idle_notifier(facts') # {})
      <3>1. UNCHANGED <<notifier, attached>>
        BY <2>1, <2>7 DEF Wl!bind_idle_notifier, Wl!None
      <3>2. notifier = "none" => Wl!Usable(facts') = {}
        BY <2>7, Selected
      <3>3. \A x : Queued(Wl!GlobalRemove(x)) => Queued(Wl!GlobalRemove(x))'
        BY <1>3, <2>2
      <3>4. NotifierIsBound'
        BY Zenon, <1>1, <2>1, <3>1, <3>2, <3>3 DEF NotifierIsBound
      <3>5. WlTypes'
        BY <1>1, <1>3, <1>5, <2>1, <3>1 DEF WlTypes
      <3> QED
        BY <1>6, <1>7, <2>4, <2>5, <3>4, <3>5
    <2> QED
      BY <2>6, <2>7
  <1>9. CASE m.kind = "global" /\ m.name \notin Notifiers
    <2>1. /\ facts' = facts \cup {m.name} /\ seats' = seats \cup {m.name} /\ m.name \in Seats
          /\ attached' = (IF notifier = "none" THEN attached ELSE attached \cup {m.name})
          /\ UNCHANGED <<notifier, error>>
      BY Zenon, <1>1, <1>2, <1>5, <1>9 DEF Wl!Handle, Wl!bind_seat, Wl!None, Wl!Globals
    <2>2. m = Wl!Global(m.name) /\ \A x : m # Wl!GlobalRemove(x)
      BY SMTT(30), <1>5, <1>9 DEF Wl!Global, Wl!GlobalRemove
    <2>3. \A x : Queued(Wl!GlobalRemove(x)) => Queued(Wl!GlobalRemove(x))'
      BY <1>3, <2>2
    <2>4. RemovalsAreTold'
      BY <1>1, <1>3, <1>4, <2>1, <2>2, <2>3 DEF RemovalsAreTold
    <2>5. SeatsAreTold'
      <3>1. \A g : m = Wl!Global(g) => g = m.name
        BY SMTT(30), <2>2 DEF Wl!Global
      <3> QED
        BY <1>1, <1>3, <2>1, <3>1 DEF SeatsAreTold
    <2>6. Wl!Usable(facts') = Wl!Usable(facts)
      BY <1>9, <2>1 DEF Wl!Usable
    <2>7. NotifierIsBound'
      BY <1>1, <2>1, <2>3, <2>6 DEF NotifierIsBound
    <2>8. WlTypes'
      BY <1>1, <1>3, <1>5, <2>1 DEF WlTypes
    <2> QED
      BY <1>6, <1>7, <2>4, <2>5, <2>7, <2>8
  <1>10. CASE m.kind = "global_remove"
    <2>1. /\ facts' = facts \ {m.name} /\ seats' = seats \ {m.name} /\ attached' = attached \ {m.name}
          /\ UNCHANGED notifier
          /\ m.name = notifier \/ error # "none" => error' # "none"
      BY Zenon, <1>1, <1>2, <1>10 DEF Wl!Handle, Wl!remove_global, Wl!global_removal_error, Wl!None
    <2>2. m = Wl!GlobalRemove(m.name) /\ \A x : m # Wl!Global(x)
      BY SMTT(30), <1>5, <1>10 DEF Wl!Global, Wl!GlobalRemove
    <2>3. m.name \notin globals
      BY <1>3, <2>2 DEF RemovalsAreReal
    <2>4. \A x : Queued(Wl!GlobalRemove(x)) => Queued(Wl!GlobalRemove(x))' \/ x = m.name
      BY SMTT(30), <1>3, <2>2 DEF Wl!GlobalRemove
    <2>5. RemovalsAreTold'
      BY <1>1, <1>4, <2>1, <2>4 DEF RemovalsAreTold
    <2>6. SeatsAreTold'
      BY <1>1, <1>3, <2>1, <2>2, <2>3 DEF SeatsAreTold
    <2>7. Wl!Usable(facts') \subseteq Wl!Usable(facts)
      BY <2>1 DEF Wl!Usable
    <2>8. NotifierIsBound'
      BY Zenon, <1>1, <2>1, <2>4, <2>7 DEF NotifierIsBound
    <2>9. WlTypes'
      BY <1>1, <1>3, <2>1 DEF WlTypes
    <2> QED
      BY <1>6, <1>7, <2>5, <2>6, <2>8, <2>9
  <1>11. CASE m.kind = "resumed"
    <2>1. UNCHANGED <<facts, notifier, seats, attached, error>>
      BY Zenon, <1>1, <1>2, <1>11 DEF Wl!Handle
    <2>2. (\A x : m # Wl!GlobalRemove(x)) /\ (\A x : m # Wl!Global(x))
      BY SMTT(30), <1>11 DEF Wl!Global, Wl!GlobalRemove
    <2>3. /\ \A x : Queued(Wl!GlobalRemove(x)) => Queued(Wl!GlobalRemove(x))'
          /\ \A x : Queued(Wl!Global(x)) => Queued(Wl!Global(x))'
      BY <1>3, <2>2
    <2>4. RemovalsAreTold' /\ SeatsAreTold'
      BY <1>1, <1>4, <2>1, <2>3 DEF RemovalsAreTold, SeatsAreTold
    <2>5. NotifierIsBound' /\ WlTypes'
      BY <1>1, <1>3, <2>1, <2>3 DEF NotifierIsBound, WlTypes
    <2> QED
      BY <1>6, <1>7, <2>4, <2>5
  <1> QED
    BY <1>5, <1>8, <1>9, <1>10, <1>11

\* The Wayland adapter that starts.
LEMMA WlInit ==
    ASSUME Wl!Init
    PROVE  WlAll
  <1>1. /\ globals \subseteq Wl!Globals /\ wl_queue = <<>> /\ wl_pc = "connect"
        /\ wl_status = "Unavailable" /\ facts = {} /\ notifier = "none" /\ seats = {} /\ attached = {}
    BY DEF Wl!Init, Wl!None
  <1>2. DOMAIN wl_queue = {} /\ wl_queue \in Seq(WlEvents) /\ \A e : ~Queued(e)
    BY SMTT(30), <1>1 DEF Queued
  <1>3. Wl!Usable({}) = {}
    BY DEF Wl!Usable
  <1> QED
    BY SMTT(30), <1>1, <1>2, <1>3 DEF WlAll, WlTypes, WlApart, SeatsAreTold, RemovalsAreReal,
                            RemovalsAreTold, NotifierIsBound, Wl!Connected

\* No step of the Wayland adapter or of its surroundings breaks the invariant.
LEMMA WlNext ==
    ASSUME WlAll, Wl!Next \/ UNCHANGED Wl!vars
    PROVE  WlAll'
  <1>1. CASE UNCHANGED Wl!vars \/ Wl!Retry
    <2>1. /\ UNCHANGED <<globals, wl_queue, facts, notifier, seats, attached, error, wl_status>>
          /\ wl_pc' = wl_pc \/ (wl_pc = "retry" /\ wl_pc' = "connect")
      <3>1. CASE UNCHANGED Wl!vars
        BY <3>1 DEF Wl!vars, Wl!adapter, Wl!state
      <3>2. CASE Wl!Retry
        BY <3>2 DEF Wl!Retry, Wl!state
      <3> QED
        BY SMTT(30), <1>1, <3>1, <3>2
    <2>2. WlTypes' /\ WlApart'
      BY SMTT(30), <2>1 DEF WlAll, WlTypes, WlApart, Wl!Connected
    <2>3. SeatsAreTold' /\ RemovalsAreReal'
      BY SMTT(30), <2>1 DEF WlAll, SeatsAreTold, RemovalsAreReal, Queued, Wl!Connected
    <2>4. RemovalsAreTold' /\ NotifierIsBound'
      BY SMTT(30), <2>1 DEF WlAll, RemovalsAreTold, NotifierIsBound, Queued
    <2> QED
      BY SMTT(30), <2>2, <2>3, <2>4 DEF WlAll
  <1>2. CASE Wl!Fail \/ Wl!TakeError
    BY SMTT(30), <1>2, UnavailableKeepsWl DEF Wl!Fail, Wl!TakeError
  <1> QED
    BY SMTT(30), <1>1, <1>2, AnnounceKeepsWl, WithdrawKeepsWl, InputKeepsWl, ConnectKeepsWl,
       RoundtripKeepsWl, DispatchKeepsWl DEF Wl!Next, Wl!Adapter

\* What the invariant says of an available adapter.
LEMMA WlSafe ==
    ASSUME WlAll
    PROVE  Wl!SeatsAreWatched
  <1>1. ASSUME wl_status = "Available", error = "none", ~Queued(Wl!GlobalRemove(notifier))
        PROVE  /\ notifier \in globals
               /\ \A s \in globals \cap Seats : s \in attached \/ Queued(Wl!Global(s))
    <2>1. wl_pc = "run" /\ Wl!Connected /\ notifier # "none"
      BY <1>1 DEF WlAll, WlTypes, NotifierIsBound, Wl!Connected
    <2> QED
      BY SMTT(30), <1>1, <2>1 DEF WlAll, NotifierIsBound, SeatsAreTold
  <1> QED
    BY SMTT(30), <1>1 DEF Wl!SeatsAreWatched, Queued, Wl!None

-----------------------------------------------------------------------------
(***************************************************************************)
(* The specification.                                                      *)
(***************************************************************************)
CONSTANTS
    Devices, Rests, MaxPos, Threshold, Quiet, Cooldown, Debounce, RetryInterval,
    ReconcileInterval, SendInterval, MaxEvents,                            \* Gamepad
    Sessions,                                                              \* LogindObserver
    Connectors                                                             \* DpmsObserver

\* The trembling of an axis that nobody touches is below the threshold.
ASSUME TremblingAssumption == Rests \subseteq Nat /\ MaxPos \in Nat /\ Threshold \in Nat /\ Threshold >= 2

VARIABLES
    component,   \* the thread that runs
    plugged, wheels, dir_ok, signalled, watching, rest, pos, events, report, source, pending,
    reconcile, since_sent, running, touched, credited,
    lo_owner, lo_newest, eligible, locked, matches, lo_queue, lo_pc, session, logind_owner,
    tracker, told, owed,
    tree, hardware, prev, blanked, lit

INSTANCE LinuxProofs

gp_vars == <<plugged, wheels, dir_ok, signalled, watching, rest, pos, events, report, source,
             pending, reconcile, since_sent, running, touched, credited>>
gn_vars == <<owner, newest, watches, ids, queue, subscribed, pc, watch, trusted, status,
             failures, unseen, believed>>
wl_vars == <<globals, wl_queue, wl_pc, facts, notifier, seats, attached, initialized, error,
             wl_status, changes, wl_unseen>>
lo_vars == <<lo_owner, lo_newest, eligible, locked, matches, lo_queue, lo_pc, session,
             logind_owner, tracker, told, owed>>
dp_vars == <<tree, hardware, prev, blanked, lit>>
vars    == <<component, gp_vars, gn_vars, wl_vars, lo_vars, dp_vars>>

\* A thread that does not run is in one of its initial states.
Init ==
    /\ component \in {"gamepad", "gnome", "wayland", "logind", "dpms"}
    /\ Gp!Init /\ (component # "gamepad" => watching /\ wheels = {} /\ \A d \in Devices : rest[d] = 0)
    /\ Gn!Init
    /\ Wl!Init /\ (component # "wayland" => globals = {})
    /\ Lo!Init /\ (component # "logind" => eligible = {} /\ \A s \in Sessions : ~locked[s])
    /\ Dp!Init /\ (component # "dpms" => tree /\ \A c \in Connectors : hardware[c] = "on")

Next ==
    /\ \/ component = "gamepad" /\ Gp!Next /\ UNCHANGED <<gn_vars, wl_vars, lo_vars, dp_vars>>
       \/ component = "gnome" /\ Gn!Next /\ UNCHANGED <<gp_vars, wl_vars, lo_vars, dp_vars>>
       \/ component = "wayland" /\ Wl!Next /\ UNCHANGED <<gp_vars, gn_vars, lo_vars, dp_vars>>
       \/ component = "logind" /\ Lo!Next /\ UNCHANGED <<gp_vars, gn_vars, wl_vars, dp_vars>>
       \/ component = "dpms" /\ Dp!Next /\ UNCHANGED <<gp_vars, gn_vars, wl_vars, lo_vars>>
    /\ UNCHANGED component

\* The fairness of the thread that runs.
Fairness ==
    /\ WF_reconcile(component = "gamepad" /\ Gp!Beat)
    /\ WF_gn_vars(component = "gnome" /\ Gn!Adapter)
    /\ WF_wl_vars(component = "wayland" /\ Wl!Adapter)

Safety == Init /\ [][Next]_vars
Spec   == Safety /\ Fairness

-----------------------------------------------------------------------------
\* The properties of each thread, in the behaviours where it runs; its module says
\* what they mean.

\* Gamepad and GnomeSource: what is reported has happened.  A pad that nobody touched never
\* counts as activity (poll_once), and a screen-saver signal counts only from the owner of the
\* name (TrustedScreenSaverSignals).
ReportsAreReal ==
    /\ component = "gamepad" => Gp!UntouchedPadIsSilent
    /\ component = "gnome" => Gn!SaverIsTrusted

\* Gamepad: a pad that stays plugged in is read at last (run_gamepad_activity_process).
PluggedPadIsRead == component = "gamepad" => Gp!PluggedPadIsRead

\* GnomeSource and WaylandSource: an adapter that reports itself available listens to all
\* input there is (run_gnome_monitor_process, WaylandProviderState).
AvailableAdapterListens ==
    /\ component = "gnome" => Gn!WatchIsLive
    /\ component = "wayland" => Wl!SeatsAreWatched

\* Both: input that meets an available adapter is published, or the adapter reports that it
\* is unavailable (GnomeActivityWatch, the notification's handler).
InputIsHeard ==
    /\ component = "gnome" => Gn!InputIsHeard
    /\ component = "wayland" => Wl!InputIsHeard

\* Both: an adapter whose services stay up is available again (GnomeSource::run,
\* WaylandSource::run).
AvailableAgain ==
    /\ component = "gnome" => Gn!AvailableAgain
    /\ component = "wayland" => Wl!AvailableAgain

\* LogindObserver: an observer that has caught up has told the monitor the lock state and of
\* every suspend (run_lock_observer_for_session, lifecycle_changed).
ObserverIsUpToDate == component = "logind" => Lo!LockStateIsKnown /\ Lo!SuspendIsNoticed

\* DpmsObserver: a system blank is a display that went off (step_dpms_observations).
BlankIsReal == [][component = "dpms" => Dp!RealBlank]_vars

-----------------------------------------------------------------------------
(* What holds of the threads. *)

\* A step of the specification is one of the thread that runs.
LEMMA StepOfAThread ==
    ASSUME [Next]_vars
    PROVE  /\ UNCHANGED component
           /\ component = "gamepad" => Gp!Next \/ UNCHANGED Gp!vars
           /\ component = "gnome" => Gn!Next \/ UNCHANGED Gn!vars
           /\ component = "wayland" => Wl!Next \/ UNCHANGED Wl!vars
           /\ component = "logind" => Lo!Next \/ UNCHANGED Lo!vars
           /\ component = "dpms" => Dp!Next \/ UNCHANGED Dp!vars
  <1>1. CASE Next
    BY <1>1 DEF Next
  <1>2. CASE UNCHANGED vars
    BY <1>2 DEF vars, gp_vars, gn_vars, wl_vars, lo_vars, dp_vars, Gp!vars, Gp!world, Gp!thread,
                Gn!vars, Gn!bus, Gn!adapter, Wl!vars, Wl!adapter, Wl!state, Lo!vars, Lo!logind,
                Lo!observer, Lo!history, Dp!vars
  <1> QED
    BY <1>1, <1>2

DpInv == component = "dpms" => DpAll
LoInv == component = "logind" => LoAll
GnInv == component = "gnome" => GnAll
WlInv == component = "wayland" => WlAll
GpInv == component = "gamepad" => GpAll

\* A poll reports a system blank exactly when a connector is off that was on, and known
\* to be, at the poll before.
THEOREM BlankReal == Spec => BlankIsReal
  <1>1. Init => DpInv
    BY DEF Init, DpInv, DpAll, Dp!Init, Dp!Absent
  <1>2. DpInv /\ [Next]_vars => DpInv'
    <2> SUFFICES ASSUME DpInv, [Next]_vars, component' = "dpms"
                 PROVE  DpAll'
      BY DEF DpInv
    <2>1. DpAll /\ (Dp!Next \/ UNCHANGED Dp!vars)
      BY StepOfAThread DEF DpInv
    <2>2. CASE UNCHANGED Dp!vars
      BY <2>1, <2>2 DEF DpAll, Dp!vars
    <2> QED
      BY <2>1, <2>2, DpNext
  <1>3. DpInv /\ [Next]_vars => [component = "dpms" => Dp!RealBlank]_vars
    <2>1. ASSUME DpInv, Next, component = "dpms"
          PROVE  Dp!RealBlank
      <3>1. DpAll /\ Dp!Next
        BY <2>1 DEF DpInv, Next
      <3> QED
        BY <3>1, DpNext
    <2> QED
      BY <2>1
  <1> QED
    BY <1>1, <1>2, <1>3, PTL DEF Spec, Safety, BlankIsReal

\* Every state of the lock observer satisfies the inductive invariant.
THEOREM LogindInvariance == Spec => []LoInv
  <1>1. Init => LoInv
    BY LoInit DEF Init, LoInv
  <1>2. LoInv /\ [Next]_vars => LoInv'
    BY LoNext, StepOfAThread DEF LoInv
  <1> QED
    BY <1>1, <1>2, PTL DEF Spec, Safety

\* An observer that has caught up has told the monitor the lock state, and of every
\* suspend, resume and restart of logind.
THEOREM ObserverUpToDate == Spec => []ObserverIsUpToDate
  <1>1. LoInv => ObserverIsUpToDate
    BY LoSafe DEF LoInv, ObserverIsUpToDate
  <1> QED
    BY <1>1, LogindInvariance, PTL

\* Every state of the GNOME adapter satisfies the inductive invariant.
THEOREM GnomeInvariance == Spec => []GnInv
  <1>1. Init => GnInv
    BY GnInit DEF Init, GnInv
  <1>2. GnInv /\ [Next]_vars => GnInv'
    BY GnNext, StepOfAThread DEF GnInv
  <1> QED
    BY <1>1, <1>2, PTL DEF Spec, Safety

\* Every state of the Wayland adapter satisfies the inductive invariant.
THEOREM WaylandInvariance == Spec => []WlInv
  <1>1. Init => WlInv
    BY WlInit DEF Init, WlInv
  <1>2. WlInv /\ [Next]_vars => WlInv'
    BY WlNext, StepOfAThread DEF WlInv
  <1> QED
    BY <1>1, <1>2, PTL DEF Spec, Safety

\* No pad that nobody touched ever has a baseline, or an unread event, that is not within
\* a unit of its rest.
THEOREM GamepadInvariance == Spec => []GpInv
  <1>1. Sane
    BY TremblingAssumption DEF Sane
  <1>2. Init => GpInv
    BY <1>1, GpInit DEF Init, GpInv
  <1>3. GpInv /\ [Next]_vars => GpInv'
    BY <1>1, GpNext, StepOfAThread DEF GpInv
  <1> QED
    BY <1>2, <1>3, PTL DEF Spec, Safety

\* An adapter that reports itself available listens to all input there is, through
\* whatever restarts of the services, changes of the globals and failed calls.
THEOREM AdapterListens == Spec => []AvailableAdapterListens
  <1>1. GnInv /\ WlInv => AvailableAdapterListens
    BY GnSafe, WlSafe DEF GnInv, WlInv, AvailableAdapterListens
  <1> QED
    BY <1>1, GnomeInvariance, WaylandInvariance, PTL

\* What the gamepad thread and the GNOME adapter report has happened: no pad that nobody
\* touched counts as activity, whatever was plugged in and out, and a screen-saver signal
\* that is published was sent by the owner of the name, however the name changed hands.
THEOREM ReportsReal == Spec => []ReportsAreReal
  <1>1. GpInv => (component = "gamepad" => Gp!UntouchedPadIsSilent)
    BY DEF GpInv, GpAll, Gp!UntouchedPadIsSilent
  <1>2. GnInv => (component = "gnome" => Gn!SaverIsTrusted)
    BY GnSafe DEF GnInv
  <1>3. GpInv /\ GnInv => ReportsAreReal
    BY <1>1, <1>2 DEF ReportsAreReal
  <1> QED
    BY <1>3, GamepadInvariance, GnomeInvariance, PTL
=============================================================================
