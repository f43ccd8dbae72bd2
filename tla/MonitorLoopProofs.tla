------------------------- MODULE MonitorLoopProofs -------------------------
(***************************************************************************)
(* Proofs about the loop of the session monitor for any idle timeout, any  *)
(* adapters and any number of messages: no input is lost, none is overtaken *)
(* by the deadline, and every blank rests on a check newer than the input. *)
(***************************************************************************)
EXTENDS MonitorLoop, TLAPS

Instants == Nat \cup {None}
Message  == [obs : Observations \cup Events, at : Instants]

\* While the engine waits, its deadline lies a full timeout after the newest input
\* that it has accepted, and no newer one was ignored.
EngineInv ==
    /\ now \in Nat /\ idle \in {"waiting", "requested", "inactive"}
    /\ blank_at \in Instants /\ activity_floor \in Instants
    /\ latest_independent_activity_at \in Instants
    /\ idle = "waiting" => /\ activity_floor + BlankAfter <= blank_at
                           /\ latest_independent_activity_at <= activity_floor

Types ==
    /\ stamped = [s \in Sources |-> stamped[s]]
    /\ \A s \in Sources : stamped[s] # Nothing =>
           /\ stamped[s] \in [obs : Observations, at : Instants]
           /\ s \in Adapters => stamped[s].obs \in Kinds
    /\ latest \in [Adapters -> [Kinds -> Instants]]
    /\ waiting \in [Adapters -> [Kinds -> BOOLEAN]]
    /\ channel \in Seq(Message)
    /\ batch \subseteq [from : Adapters, obs : Kinds, at : Instants]
    /\ pc \in {"drain", "first", "recv", "second"}
    /\ published \in Instants /\ counted \in Instants

\* A slot holds nothing newer than the newest input handed over.
SlotsAreOld ==
    \A a \in Adapters, k \in Kinds \cap Engine!Independent : latest[a][k] <= published

\* A drain is handled to its end before the loop goes on.
DrainEnds == pc \in {"drain", "recv"} => batch = {}

\* What had been handed over when the loop timed out is known or was drained.
CountedIsDrained ==
    pc = "second" => Known(counted) \/ \E o \in batch : Waits(o, counted)

IInv ==
    /\ EngineInv /\ Types /\ SlotsAreOld /\ DrainEnds
    /\ InputIsNeverLost /\ CountedIsDrained

USE LoopAssumption DEF None, Instants, Engine!None, Engine!Independent, Engine!Later

\* The monitor starts with nothing handed over.
LEMMA InitIInv == Init => IInv
  <1> SUFFICES ASSUME Init
               PROVE  IInv
    OBVIOUS
  <1>1. EngineInv
    BY DEF Init, Engine!Init, EngineInv
  <1>2. Types
    BY DEF Init, Types, Message
  <1>3. SlotsAreOld /\ DrainEnds /\ InputIsNeverLost /\ CountedIsDrained
    BY DEF Init, Engine!Init, SlotsAreOld, DrainEnds, InputIsNeverLost, Known, CountedIsDrained
  <1> QED
    BY <1>1, <1>2, <1>3 DEF IInv

-----------------------------------------------------------------------------
(* The engine. *)

\* The engine keeps to its deadline, and forgets nothing that it has known.
EngineKeeps ==
    /\ EngineInv'
    /\ \A t \in Instants : Known(t) =>
           latest_independent_activity_at' >= t \/ activity_floor' > t

\* Input reaches the engine: it is known afterwards.
LEMMA ActivityStep ==
    ASSUME EngineInv, NEW obs, NEW t \in Instants, Engine!Activity(obs, t), UNCHANGED now
    PROVE  /\ EngineKeeps
           /\ obs \in Engine!Independent =>
                  latest_independent_activity_at' >= t \/ activity_floor' > t
  <1>1. /\ idle \in {"waiting", "inactive"}
        /\ latest_independent_activity_at' \in Instants
        /\ latest_independent_activity_at' >= latest_independent_activity_at
        /\ obs \in Engine!Independent /\ t >= activity_floor => latest_independent_activity_at' >= t
        /\ latest_independent_activity_at' \in {latest_independent_activity_at, t}
    BY DEF EngineInv, Engine!Activity
  <1>2. CASE t >= activity_floor /\ t >= latest_independent_activity_at /\ Engine!Accept(t)
    <2>1. /\ idle' = "waiting" /\ activity_floor' = t
          /\ blank_at' \in {blank_at, t + BlankAfter} /\ blank_at' >= t + BlankAfter
      BY <1>2 DEF EngineInv, Engine!Accept
    <2>2. blank_at' \in Instants
      BY <2>1 DEF EngineInv
    <2>3. latest_independent_activity_at' <= t
      BY <1>1, <1>2 DEF EngineInv
    <2>4. EngineInv'
      BY <1>1, <2>1, <2>2, <2>3 DEF EngineInv
    <2> QED
      BY <1>1, <1>2, <2>1, <2>4 DEF EngineInv, EngineKeeps, Known
  <1>3. CASE /\ t < activity_floor \/ idle = "inactive" \/ obs \notin Engine!Independent
             /\ UNCHANGED <<idle, blank_at, activity_floor>>
    <2>1. latest_independent_activity_at' = latest_independent_activity_at \/ idle = "inactive"
      BY <1>3 DEF Engine!Activity, EngineInv
    <2> QED
      BY <1>1, <1>3, <2>1 DEF EngineInv, EngineKeeps, Known
  <1> QED
    BY <1>2, <1>3 DEF Engine!Activity

\* The other steps of the engine.
LEMMA EngineStep ==
    ASSUME EngineInv, UNCHANGED now,
           \/ Engine!Timeout \/ Engine!Lock \/ Engine!Complete \/ UNCHANGED engine
           \/ \E t \in Instants : Engine!SystemBlank(t)
    PROVE  EngineKeeps
  <1>1. CASE Engine!Timeout
    BY <1>1 DEF EngineInv, EngineKeeps, Known, Engine!Timeout, Engine!BlankDue
  <1>2. CASE Engine!Lock \/ Engine!Complete \/ UNCHANGED engine
    BY <1>2 DEF EngineInv, EngineKeeps, Known, Engine!Lock, Engine!Complete, engine
  <1>3. ASSUME NEW t \in Instants, Engine!SystemBlank(t)
        PROVE  EngineKeeps
    BY <1>3 DEF EngineInv, EngineKeeps, Known, Engine!SystemBlank
  <1> QED
    BY <1>1, <1>2, <1>3

-----------------------------------------------------------------------------
(* The sources. *)

\* A source reads the clock.
LEMMA StampStep ==
    ASSUME IInv, NEW s \in Sources, Stamp(s)
    PROVE  IInv'
  <1>1. PICK k \in Observations :
            /\ s \in Adapters => k \in Kinds
            /\ stamped' = [stamped EXCEPT ![s] = [obs |-> k, at |-> now]]
    BY DEF Stamp, Observations, Gamepad
  <1>2. UNCHANGED <<now, engine, slots, channel, pc, batch, gate, history>>
    BY DEF Stamp
  <1>3. Types'
    <2>1. [obs |-> k, at |-> now] \in [obs : Observations, at : Instants]
      BY DEF IInv, EngineInv
    <2>2. \A r \in Sources : stamped'[r] = IF r = s THEN [obs |-> k, at |-> now] ELSE stamped[r]
      BY <1>1 DEF IInv, Types
    <2>3. stamped' = [r \in Sources |-> stamped'[r]]
      BY <1>1 DEF IInv, Types
    <2> QED
      BY <1>1, <1>2, <2>1, <2>2, <2>3 DEF IInv, Types, slots, history
  <1> QED
    BY <1>2, <1>3 DEF IInv, EngineInv, SlotsAreOld, DrainEnds, InputIsNeverLost, CountedIsDrained,
                      Known, OnTheWay, Waits, engine, slots, history

\* An adapter publishes: what it replaces is older.
LEMMA PublishStep ==
    ASSUME IInv, NEW a \in Adapters, Publish(a)
    PROVE  IInv'
  <1> DEFINE k == stamped[a].obs
             t == stamped[a].at
  <1>1. a \in Sources /\ k \in Kinds /\ t \in Instants
    BY DEF IInv, Types, Publish, Sources
  <1>2. /\ UNCHANGED <<now, engine, channel, pc, batch, gate, counted, disturbed>>
        /\ published' = IF k \in Engine!Independent THEN Engine!Later(published, t) ELSE published
        /\ stamped' = [stamped EXCEPT ![a] = Nothing]
    BY DEF Publish, HandedOver
  <1>3. IF t > latest[a][k]
        THEN /\ latest' = [latest EXCEPT ![a][k] = t]
             /\ waiting' = [waiting EXCEPT ![a][k] = TRUE]
        ELSE UNCHANGED slots
    BY DEF Publish, Newer
  <1>4. /\ stamped' = [r \in Sources |-> stamped'[r]]
        /\ \A r \in Sources : stamped'[r] = IF r = a THEN Nothing ELSE stamped[r]
    BY <1>1, <1>2 DEF IInv, Types
  <1> HIDE DEF k, t
  <1>5. /\ published' \in Instants /\ published' >= published
        /\ k \in Engine!Independent => published' >= t
        /\ published' \in {published, t} /\ (k \notin Engine!Independent => published' = published)
    BY <1>1, <1>2 DEF IInv, Types
  <1>6. CASE t > latest[a][k]
    <2>1. /\ latest' \in [Adapters -> [Kinds -> Instants]]
          /\ waiting' \in [Adapters -> [Kinds -> BOOLEAN]]
          /\ \A b \in Adapters, j \in Kinds :
                 /\ latest'[b][j] = IF b = a /\ j = k THEN t ELSE latest[b][j]
                 /\ waiting'[b][j] = IF b = a /\ j = k THEN TRUE ELSE waiting[b][j]
      <3>1. /\ latest' = [latest EXCEPT ![a] = [latest[a] EXCEPT ![k] = t]]
            /\ waiting' = [waiting EXCEPT ![a] = [waiting[a] EXCEPT ![k] = TRUE]]
        BY <1>3, <1>6
      <3>2. /\ [latest[a] EXCEPT ![k] = t] \in [Kinds -> Instants]
            /\ [waiting[a] EXCEPT ![k] = TRUE] \in [Kinds -> BOOLEAN]
        BY <1>1 DEF IInv, Types
      <3>3. /\ latest' \in [Adapters -> [Kinds -> Instants]]
            /\ \A b \in Adapters, j \in Kinds :
                   latest'[b][j] = IF b = a /\ j = k THEN t ELSE latest[b][j]
        BY <1>1, <3>1, <3>2 DEF IInv, Types
      <3>4. /\ waiting' \in [Adapters -> [Kinds -> BOOLEAN]]
            /\ \A b \in Adapters, j \in Kinds :
                   waiting'[b][j] = IF b = a /\ j = k THEN TRUE ELSE waiting[b][j]
        BY <1>1, <3>1, <3>2 DEF IInv, Types
      <3> QED
        BY <3>3, <3>4
    <2>2. Types'
      BY <1>2, <1>4, <1>5, <2>1 DEF IInv, Types
    <2>3. SlotsAreOld'
      <3> SUFFICES ASSUME NEW b \in Adapters, NEW j \in Kinds \cap Engine!Independent
                   PROVE  latest'[b][j] <= published'
        BY DEF SlotsAreOld
      <3>1. latest[b][j] <= published /\ latest[b][j] \in Instants
        BY DEF IInv, SlotsAreOld, Types
      <3>2. published \in Instants
        BY DEF IInv, Types
      <3>3. CASE b = a /\ j = k
        BY <1>5, <2>1, <3>3
      <3>4. CASE ~(b = a /\ j = k)
        <4>1. latest'[b][j] = latest[b][j]
          BY <2>1, <3>4
        <4> QED
          BY <1>5, <3>1, <3>2, <4>1
      <3> QED
        BY <3>3, <3>4
    <2>4. InputIsNeverLost'
      <3>1. CASE k \in Engine!Independent /\ published' = t
        BY <1>1, <2>1, <3>1 DEF InputIsNeverLost, OnTheWay
      <3>2. CASE ~(k \in Engine!Independent /\ published' = t)
        <4>1. published' = published
          BY <1>5, <3>2
        <4>2. CASE \E b \in Adapters, j \in Kinds \cap Engine!Independent :
                      waiting[b][j] /\ latest[b][j] = published
          <5>1. PICK b \in Adapters, j \in Kinds \cap Engine!Independent :
                   waiting[b][j] /\ latest[b][j] = published
            BY <4>2
          <5>2. ~(b = a /\ j = k)
            BY <1>1, <1>5, <1>6, <3>2, <4>1, <5>1 DEF IInv, Types
          <5>3. waiting'[b][j] /\ latest'[b][j] = published'
            BY <2>1, <4>1, <5>1, <5>2
          <5> QED
            BY <5>3 DEF InputIsNeverLost, OnTheWay
        <4> QED
          BY <1>2, <4>1, <4>2 DEF IInv, InputIsNeverLost, OnTheWay, Known, Waits, engine
      <3> QED
        BY <3>1, <3>2
    <2> QED
      BY <1>2, <2>2, <2>3, <2>4 DEF IInv, EngineInv, DrainEnds, CountedIsDrained, Known, Waits,
                                    engine
  <1>7. CASE ~(t > latest[a][k])
    <2>1. published' = published /\ UNCHANGED slots
      BY <1>1, <1>3, <1>5, <1>7 DEF IInv, SlotsAreOld, Types
    <2>2. Types'
      BY <1>2, <1>4, <2>1 DEF IInv, Types, slots
    <2> QED
      BY <1>2, <2>1, <2>2 DEF IInv, EngineInv, SlotsAreOld, DrainEnds, InputIsNeverLost,
                              CountedIsDrained, Known, OnTheWay, Waits, engine, slots
  <1> QED
    BY <1>6, <1>7

\* A message is appended to the channel.
LEMMA SendStep ==
    ASSUME IInv, NEW m \in Message, channel' = Append(channel, m), Types', published' \in Instants,
           published' = published \/ Waits(m, published'), published' >= published,
           UNCHANGED <<now, engine, slots, pc, batch, gate, counted, disturbed>>
    PROVE  IInv'
  <1>1. /\ \A i \in DOMAIN channel : i \in DOMAIN channel' /\ channel'[i] = channel[i]
        /\ Len(channel) + 1 \in DOMAIN channel' /\ channel'[Len(channel) + 1] = m
    BY DEF IInv, Types
  <1>2. InputIsNeverLost'
    <2>1. CASE Waits(m, published')
      BY <1>1, <2>1 DEF InputIsNeverLost, OnTheWay, Waits
    <2>2. CASE published' = published
      BY <1>1, <2>2 DEF IInv, InputIsNeverLost, OnTheWay, Waits, Known, engine, slots
    <2> QED
      BY <2>1, <2>2
  <1>3. SlotsAreOld'
    BY DEF IInv, Types, SlotsAreOld, slots
  <1> QED
    BY <1>2, <1>3 DEF IInv, EngineInv, DrainEnds, CountedIsDrained, Known, Waits, engine

\* The gamepad, and the sources that report something else than input.
LEMMA SourceStep ==
    ASSUME IInv, SendGamepad \/ SendEvent
    PROVE  IInv'
  <1>1. CASE SendGamepad
    <2> DEFINE m == stamped[Gamepad]
    <2>1. /\ Gamepad \in Sources /\ m \in [obs : Observations, at : Instants]
          /\ channel' = Append(channel, m)
          /\ published' = IF m.obs \in Engine!Independent THEN Engine!Later(published, m.at)
                          ELSE published
          /\ stamped' = [stamped EXCEPT ![Gamepad] = Nothing]
          /\ UNCHANGED <<now, engine, slots, pc, batch, gate, counted, disturbed>>
      BY <1>1 DEF SendGamepad, Send, HandedOver, IInv, Types, Sources
    <2>2. /\ stamped' = [r \in Sources |-> stamped'[r]]
          /\ \A r \in Sources : stamped'[r] = IF r = Gamepad THEN Nothing ELSE stamped[r]
      BY <2>1 DEF IInv, Types
    <2> HIDE DEF m
    <2>3. m \in Message /\ m.at \in Instants
      BY <2>1 DEF Message
    <2>4. /\ published' \in Instants /\ published' >= published
          /\ published' = published \/ Waits(m, published')
      BY <2>1, <2>3 DEF IInv, Types, Waits
    <2>5. channel' \in Seq(Message)
      BY <2>1, <2>3 DEF IInv, Types
    <2>6. Types'
      BY <2>1, <2>2, <2>4, <2>5 DEF IInv, Types, slots
    <2> QED
      BY <2>1, <2>3, <2>4, <2>6, SendStep
  <1>2. CASE SendEvent
    <2>1. PICK m \in Message : channel' = Append(channel, m)
      <3>1. PICK e \in Events :
                channel' = Append(channel, [obs |-> e, at |-> IF e = "SystemBlank" THEN now ELSE None])
        BY <1>2 DEF SendEvent, Send
      <3>2. [obs |-> e, at |-> IF e = "SystemBlank" THEN now ELSE None] \in Message
        BY DEF Message, IInv, EngineInv
      <3> QED
        BY <3>1, <3>2
    <2>2. UNCHANGED <<now, engine, stamped, slots, pc, batch, gate, history>>
      BY <1>2 DEF SendEvent
    <2>3. Types'
      BY <2>1, <2>2 DEF IInv, Types, slots, history
    <2>4. published' \in Instants /\ published' = published /\ published' >= published
      BY <2>2 DEF IInv, Types, history
    <2> QED
      BY <2>1, <2>2, <2>3, <2>4, SendStep DEF history
  <1> QED
    BY <1>1, <1>2

-----------------------------------------------------------------------------
(* The loop. *)

\* What waits in the contributions is in the batch after a drain.
LEMMA DrainStep ==
    ASSUME IInv, drain, batch = {}, UNCHANGED <<now, engine, stamped, channel, published>>
    PROVE  /\ batch' \subseteq [from : Adapters, obs : Kinds, at : Instants]
           /\ waiting' \in [Adapters -> [Kinds -> BOOLEAN]]
           /\ SlotsAreOld' /\ InputIsNeverLost'
           /\ channel = <<>> => Known(published) \/ \E o \in batch' : Waits(o, published)
  <1>1. /\ batch' \subseteq [from : Adapters, obs : Kinds, at : Instants]
        /\ waiting' \in [Adapters -> [Kinds -> BOOLEAN]]
    BY DEF IInv, Types, drain, Undrained
  <1>2. SlotsAreOld'
    BY DEF IInv, SlotsAreOld, drain
  <1>3. ASSUME NEW a \in Adapters, NEW k \in Kinds \cap Engine!Independent, waiting[a][k],
               latest[a][k] = published
        PROVE  \E o \in batch' : Waits(o, published)
    <2> DEFINE o == [from |-> a, obs |-> k, at |-> latest[a][k]]
    <2>1. <<a, k>> \in Undrained
      BY <1>3 DEF Undrained
    <2>2. o \in batch'
      BY <2>1 DEF drain
    <2> QED
      BY <1>3, <2>2 DEF Waits
  <1>4. Known(published) \/ (\E o \in batch' : Waits(o, published))
            \/ \E i \in DOMAIN channel : Waits(channel[i], published)
    BY <1>3 DEF IInv, InputIsNeverLost, OnTheWay
  <1>5. InputIsNeverLost'
    BY <1>4 DEF InputIsNeverLost, OnTheWay, Known, Waits, engine
  <1> QED
    BY <1>1, <1>2, <1>4, <1>5

\* Both drains.
LEMMA DrainsStep ==
    ASSUME IInv, FirstDrain \/ SecondDrain
    PROVE  IInv'
  <1>1. /\ drain /\ batch = {} /\ UNCHANGED <<now, engine, stamped, channel, published>>
        /\ pc' \in {"first", "second"} /\ counted' \in Instants
    BY DEF FirstDrain, SecondDrain, IInv, Types, DrainEnds, history
  <1>2. pc' = "second" => channel = <<>> /\ counted' = published
    BY DEF FirstDrain, SecondDrain
  <1>3. Types'
    BY <1>1, DrainStep DEF IInv, Types, drain
  <1>4. CountedIsDrained'
    BY <1>1, <1>2, DrainStep DEF CountedIsDrained, Known, Waits, engine
  <1> QED
    BY <1>1, <1>3, <1>4, DrainStep DEF IInv, EngineInv, DrainEnds, engine

\* A drained observation reaches the engine.
LEMMA HandleDrainedStep ==
    ASSUME IInv, HandleDrained
    PROVE  IInv'
  <1>1. PICK o \in batch : Engine!Activity(o.obs, o.at) /\ batch' = batch \ {o}
    BY DEF HandleDrained
  <1>2. /\ UNCHANGED <<now, stamped, slots, channel, pc, published, counted>>
        /\ pc \in {"first", "second"} /\ o.at \in Instants
    BY DEF HandleDrained, IInv, Types
  <1>3. /\ EngineKeeps
        /\ o.obs \in Engine!Independent =>
               latest_independent_activity_at' >= o.at \/ activity_floor' > o.at
    BY <1>1, <1>2, ActivityStep DEF IInv
  <1>4. Types'
    BY <1>1, <1>2 DEF IInv, Types, slots
  <1>5. InputIsNeverLost' /\ CountedIsDrained'
    <2>1. ASSUME NEW t \in Instants, Known(t) \/ \E p \in batch : Waits(p, t)
          PROVE  latest_independent_activity_at' >= t \/ activity_floor' > t
                     \/ \E p \in batch' : Waits(p, t)
      BY <1>1, <1>3, <2>1 DEF EngineKeeps, Waits
    <2>2. published \in Instants /\ counted \in Instants
      BY DEF IInv, Types
    <2>3. CountedIsDrained'
      BY <1>2, <2>1, <2>2 DEF IInv, CountedIsDrained, Known, Waits
    <2>4. InputIsNeverLost'
      BY <1>2, <2>1, <2>2 DEF IInv, InputIsNeverLost, OnTheWay, Known, Waits, slots
    <2> QED
      BY <2>3, <2>4
  <1> QED
    BY <1>2, <1>3, <1>4, <1>5 DEF IInv, EngineKeeps, SlotsAreOld, DrainEnds, slots

\* A message reaches the engine.
LEMMA HandleMessageStep ==
    ASSUME IInv, HandleMessage
    PROVE  IInv'
  <1> DEFINE m == Head(channel)
  <1>1. /\ channel # <<>> /\ channel' = Tail(channel) /\ batch = {} /\ pc' = "drain"
        /\ UNCHANGED <<now, stamped, slots, batch, published, counted>>
    BY DEF HandleMessage, IInv, DrainEnds
  <1>2. /\ m \in Message /\ m = channel[1] /\ channel' \in Seq(Message)
        /\ \A i \in DOMAIN channel : i # 1 => i - 1 \in DOMAIN channel' /\ channel'[i - 1] = channel[i]
    BY <1>1 DEF IInv, Types
  <1>3. /\ EngineKeeps
        /\ m.obs \in Engine!Independent =>
               latest_independent_activity_at' >= m.at \/ activity_floor' > m.at
    <2>1. m.at \in Instants /\ m.obs \in Observations \cup Events
      BY <1>2 DEF Message
    <2>2. CASE m.obs \in Observations
      <3>1. Engine!Activity(m.obs, m.at)
        BY <2>2 DEF HandleMessage, Observations
      <3> QED
        BY <1>1, <2>1, <3>1, ActivityStep DEF IInv
    <2>3. CASE m.obs \notin Observations
      <3>1. m.obs \in Events /\ m.obs \notin Engine!Independent
        BY <2>1, <2>3
      <3>2. \/ Engine!Lock \/ UNCHANGED engine \/ Engine!SystemBlank(m.at)
        BY <2>3, <3>1 DEF HandleMessage
      <3> QED
        BY <1>1, <2>1, <3>1, <3>2, EngineStep DEF IInv
    <2> QED
      BY <2>2, <2>3
  <1> HIDE DEF m
  <1>4. Types'
    BY <1>1, <1>2 DEF IInv, Types, slots
  <1>5. InputIsNeverLost'
    <2>1. published \in Instants
      BY DEF IInv, Types
    <2>2. CASE Known(published)
      BY <1>1, <1>3, <2>1, <2>2 DEF EngineKeeps, InputIsNeverLost, Known
    <2>3. CASE \E i \in DOMAIN channel : Waits(channel[i], published)
      <3>1. PICK i \in DOMAIN channel : Waits(channel[i], published)
        BY <2>3
      <3>2. CASE i = 1
        BY <1>1, <1>2, <1>3, <3>1, <3>2 DEF InputIsNeverLost, Known, Waits
      <3>3. CASE i # 1
        BY <1>1, <1>2, <3>1, <3>3 DEF InputIsNeverLost, OnTheWay, Waits
      <3> QED
        BY <3>2, <3>3
    <2> QED
      BY <1>1, <2>2, <2>3 DEF IInv, InputIsNeverLost, OnTheWay, slots
  <1> QED
    BY <1>1, <1>3, <1>4, <1>5 DEF IInv, EngineKeeps, SlotsAreOld, DrainEnds, CountedIsDrained, slots

\* Steps of the loop that hand nothing to the engine, and the deadline.
LEMMA OtherStep ==
    ASSUME IInv, CheckStatus \/ HandleTimeout \/ CompleteBlank \/ GateAnswers \/ Tick
                     \/ UNCHANGED vars
    PROVE  IInv'
  <1>1. /\ UNCHANGED <<stamped, slots, channel, batch, published>>
        /\ counted' \in Instants /\ pc' \in {"drain", "first", "recv", "second"}
        /\ pc' \in {"drain", "recv"} => batch = {}
        /\ pc' = "second" => pc = "second" /\ counted' = counted
    BY DEF IInv, Types, DrainEnds, CheckStatus, HandleTimeout, CompleteBlank, GateAnswers, Tick,
           vars, history
  <1>2. EngineKeeps
    <2>1. CASE Tick
      BY <2>1 DEF Tick, Engine!Tick, IInv, EngineInv, EngineKeeps, Known
    <2>2. CASE ~Tick
      <3>1. UNCHANGED now /\ (Engine!Timeout \/ Engine!Complete \/ UNCHANGED engine)
        BY <2>2 DEF CheckStatus, HandleTimeout, CompleteBlank, GateAnswers, vars
      <3> QED
        BY <3>1, EngineStep DEF IInv
    <2> QED
      BY <2>1, <2>2
  <1>3. Types'
    BY <1>1 DEF IInv, Types, slots
  <1>4. InputIsNeverLost' /\ CountedIsDrained'
    <2>1. published \in Instants /\ counted \in Instants
      BY DEF IInv, Types
    <2> QED
      BY <1>1, <1>2, <2>1 DEF IInv, EngineKeeps, InputIsNeverLost, CountedIsDrained, OnTheWay,
                              Known, Waits, slots
  <1> QED
    BY <1>1, <1>2, <1>3, <1>4 DEF IInv, EngineKeeps, SlotsAreOld, DrainEnds, slots

\* The invariant is inductive.
LEMMA NextIInv == IInv /\ [Next]_vars => IInv'
  BY StampStep, PublishStep, SourceStep, DrainsStep, HandleDrainedStep, HandleMessageStep, OtherStep
     DEF Next, Loop

\* Every reachable state of the loop satisfies the inductive invariant.
THEOREM Invariance == Spec => []IInv
  BY InitIInv, NextIInv, PTL DEF Spec

\* The newest input is known to the engine or on its way, whatever the slots, the
\* batch and the channel hold and however late the loop comes to them.
THEOREM NoInputIsLost == Spec => []InputIsNeverLost
  <1>1. IInv => InputIsNeverLost
    BY DEF IInv
  <1> QED
    BY <1>1, Invariance, PTL

-----------------------------------------------------------------------------
(* The blank. *)

\* The idle blank is a decision of the timeout handler.
LEMMA BlankIsTimeout ==
    ASSUME Next, IdleBlank
    PROVE  HandleTimeout /\ Engine!Timeout /\ can_blank
  <1>1. ~HandleDrained
    BY DEF HandleDrained, IdleBlank, Engine!Activity, Engine!Accept
  <1>2. HandleTimeout
    BY <1>1 DEF Next, Loop, IdleBlank, FirstDrain, CheckStatus, HandleMessage, SecondDrain,
                CompleteBlank, Engine!Complete, GateAnswers, Tick, Engine!Tick, SendGamepad,
                SendEvent, Stamp, Publish, engine
  <1> QED
    BY <1>2 DEF HandleTimeout, IdleBlank, engine

\* The idle blank comes a full idle timeout after all input that was handed over
\* before the loop timed out: the second drain leaves nothing behind.
THEOREM BlankWaits == Spec => BlankAfterFullIdle
  <1>1. ASSUME IInv, Next, IdleBlank
        PROVE  now >= counted + BlankAfter
    <2>1. batch = {} /\ pc = "second" /\ idle = "waiting" /\ now >= blank_at
      BY <1>1, BlankIsTimeout DEF HandleTimeout, Engine!Timeout, Engine!BlankDue
    <2>2. Known(counted)
      BY <1>1, <2>1 DEF IInv, CountedIsDrained
    <2> QED
      BY <1>1, <2>1, <2>2 DEF IInv, EngineInv, Types, Known
  <1>2. IInv /\ [Next]_vars => [IdleBlank => now >= counted + BlankAfter]_vars
    BY <1>1
  <1> QED
    BY <1>2, Invariance, PTL DEF Spec, BlankAfterFullIdle

\* A check that is under way or has cleared was disturbed by nothing.
CheckIsUndisturbed ==
    /\ gate \in {"absent", "idle", "checking", "clear"} /\ disturbed \in BOOLEAN
    /\ gate \in {"checking", "clear"} => ~disturbed

\* Every observation and every lock that the loop handles ends the check.
LEMMA NextCheck == CheckIsUndisturbed /\ [Next]_vars => CheckIsUndisturbed'
  <1> SUFFICES ASSUME CheckIsUndisturbed, [Next]_vars
               PROVE  CheckIsUndisturbed'
    OBVIOUS
  <1> USE DEF CheckIsUndisturbed
  <1>1. CASE UNCHANGED <<gate, disturbed>>
    BY <1>1
  <1>2. CASE HandleDrained
    BY <1>2 DEF HandleDrained, Cancelled
  <1>3. CASE CheckStatus
    BY <1>3 DEF CheckStatus, Cancelled, history
  <1>4. CASE HandleMessage
    <2> DEFINE m == Head(channel)
    <2>1. /\ gate' = IF CancelsGate(m) THEN Cancelled ELSE gate
          /\ disturbed' = (disturbed \/ m.obs \in Observations \cup {"Lock"})
      BY <1>4 DEF HandleMessage
    <2> HIDE DEF m
    <2>2. m.obs = "SystemBlank" => m.obs \notin Observations \cup {"Lock"}
      BY DEF Observations
    <2> QED
      BY <2>1, <2>2 DEF CancelsGate, Cancelled
  <1>5. CASE HandleTimeout
    <2>1. CASE /\ gate' = AfterAsking
               /\ disturbed' = (disturbed /\ ~(gate # "checking" /\ AfterAsking = "checking"))
      BY <2>1 DEF AfterAsking
    <2>2. CASE (gate' = Cancelled \/ gate' = gate) /\ UNCHANGED disturbed
      BY <2>2 DEF Cancelled
    <2> QED
      BY <1>5, <2>1, <2>2 DEF HandleTimeout
  <1>6. CASE GateAnswers
    BY <1>6 DEF GateAnswers, history
  <1> QED
    BY <1>1, <1>2, <1>3, <1>4, <1>5, <1>6
       DEF Next, Loop, FirstDrain, SecondDrain, CompleteBlank, Tick, SendGamepad, SendEvent, Stamp,
           Publish, vars, history

\* The permission to blank comes from a check that began after the newest input and
\* the newest lock that the loop has handled.
THEOREM CheckIsNewer == Spec => CheckPostdatesInput
  <1>1. Init => CheckIsUndisturbed
    BY DEF Init, CheckIsUndisturbed
  <1>2. ASSUME CheckIsUndisturbed, Next, IdleBlank, gate # "absent"
        PROVE  gate = "clear" /\ ~disturbed
    BY <1>2, BlankIsTimeout DEF can_blank, CheckIsUndisturbed
  <1>3. CheckIsUndisturbed /\ [Next]_vars =>
            [IdleBlank /\ gate # "absent" => gate = "clear" /\ ~disturbed]_vars
    BY <1>2
  <1> QED
    BY <1>1, <1>3, NextCheck, PTL DEF Spec, CheckPostdatesInput
=============================================================================
