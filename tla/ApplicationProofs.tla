------------------------- MODULE ApplicationProofs -------------------------
(***************************************************************************)
(* The graphical application and what it works on: the session with the TV *)
(* (WebOsSession), the files of a pairing (PairingStore), the overview     *)
(* page (Overview), the settings page (SettingsView), the update of the    *)
(* program (UpdateFlow) and the setup gate (SetupGate).  One specification *)
(* has them side by side: in each behaviour one of them runs.              *)
(*                                                                         *)
(* The overview and its inductive invariant come first.  FilesProofs has   *)
(* those of the pairing store and the settings, SetupProofs those of the   *)
(* gate, the session and the update.  The specification, its properties    *)
(* and the theorems come last.  They hold for any settings, values and     *)
(* levels, and for any number of requests, edits, crashes and faults.      *)
(***************************************************************************)
EXTENDS Integers, Sequences, TLAPS

\* Zenon finds most of the leaves; those that it does not find cite another prover.
USE Zenon

-----------------------------------------------------------------------------
(***************************************************************************)
(* The overview.                                                           *)
(***************************************************************************)

CONSTANTS Levels, MaxOperations, MaxProfileChanges

VARIABLES
    p_watched, p_summary, p_brightness, p_audio, p_next_id, p_flying, p_tv, p_profile,
    p_change, p_changes, p_asked, p_doubt

Page == INSTANCE Overview WITH
    MaxId <- MaxOperations, MaxChanges <- MaxProfileChanges, watched <- p_watched,
    summary <- p_summary, brightness <- p_brightness, audio <- p_audio,
    next_id <- p_next_id, flying <- p_flying, tv <- p_tv, profile <- p_profile,
    change <- p_change, changes <- p_changes, asked <- p_asked, doubt <- p_doubt

Heights == Levels \cup {1, 2}
Options == {Page!None} \cup {Page!Some(v) : v \in Heights}
TvRecords == [name : Page!Tvs, brightness : Heights, volume : {Page!Some(v) : v \in Heights}, muted : BOOLEAN]
SeenRecords == [name : Page!Tvs, brightness : Heights, volume : Options, muted : BOOLEAN]
Operations == {o \in [level : Options, muted : BOOLEAN] : o.level # Page!None => ~o.muted}
Mutes == {Page!None, Page!Some(TRUE), Page!Some(FALSE)}
Pendings == [volume : Options, muted : Mutes]
Ops == {op \in [what : {"summary", "brightness", "audio", "set_brightness", "set_audio"}, id : Nat,
                level : Options, muted : BOOLEAN, result : {"none", "ok", "error"},
                seen : SeenRecords, applied : Options] :
           op.what = "set_brightness" => op.level # Page!None}
BrightnessWrites == [st : {"applying", "failed"}, current : Heights, pending : Options, level : Heights,
                     id : Nat]
AudioWrites == [st : {"applying"}, current : Options, muted : BOOLEAN, pending : Pendings,
                operation : Operations, id : Nat]
AudioFailures == [st : {"failed"}, current : Options, muted : BOOLEAN, pending : Pendings,
                  retry : Operations]

\* The operations of a kind that have not reported.
Of(what) == {op \in p_flying : op.what = what}

Shared ==
    /\ p_next_id \in Nat /\ p_profile \in Page!Tvs /\ p_watched \subseteq {"summary", "brightness", "audio"}
    /\ p_tv \in [Page!Tvs -> TvRecords] /\ (\A t \in Page!Tvs : p_tv[t].name = t)
    /\ p_flying \subseteq Ops /\ (\A op \in p_flying : op.id < p_next_id)
    /\ p_asked \in [brightness : Options, audio : SUBSET Operations]
    /\ p_summary.st = "closed" <=> p_brightness.st = "closed"
    /\ p_summary.st = "closed" <=> p_audio.st = "closed"

\* A control that loads waits for a read, and the read that it waits for has seen the TV that is
\* configured.
SummaryInv ==
    /\ p_summary.st = "loading" => p_summary = Page!Loading(p_summary.id) /\ p_summary.id \in Nat /\ p_summary.id < p_next_id
    /\ p_summary.st = "loading" /\ p_change # "management" =>
           \E op \in Of("summary") : op.id = p_summary.id
    /\ p_change = "none" =>
           /\ p_summary.st = "ready" => p_summary.name = p_profile
           /\ \A op \in Of("summary") :
                  p_summary = Page!Loading(op.id) /\ op.result = "ok" => op.seen.name = p_profile

BrightnessShape ==
    /\ p_brightness.st \in {"closed", "loading", "read_failed", "ready", "applying", "failed"}
    /\ p_brightness.st = "loading" =>
           /\ p_brightness = Page!Loading(p_brightness.id) /\ p_brightness.id \in Nat
           /\ p_brightness.id < p_next_id
    /\ p_brightness.st = "ready" => p_brightness.current \in Heights
    /\ p_brightness.st \in {"applying", "failed"} =>
           p_brightness \in BrightnessWrites /\ p_brightness.id < p_next_id

\* At most one write of a control is on its way, and it is the one that the page waits for.
BrightnessFlight ==
    /\ p_brightness.st = "loading" /\ p_change # "management" =>
           \E op \in Of("brightness") : op.id = p_brightness.id
    /\ p_brightness.st = "applying" =>
           p_change = "none" /\ \E op \in Of("set_brightness") : op.id = p_brightness.id
    /\ p_brightness.st # "closed" =>
           \A op \in Of("set_brightness") :
               /\ p_brightness.st = "applying" /\ op.id = p_brightness.id
               /\ op.level = Page!Some(p_brightness.level)
               /\ Of("set_brightness") = {op}

BrightnessShown ==
    p_change = "none" =>
        /\ \A op \in Of("brightness") :
               p_brightness = Page!Loading(op.id) /\ op.result = "ok" =>
                   op.seen.brightness = p_tv[p_profile].brightness
        /\ p_brightness.st \in {"ready", "failed"} /\ "brightness" \notin p_doubt =>
               p_brightness.current = p_tv[p_profile].brightness
        /\ p_brightness.st = "applying" =>
               \A op \in Of("set_brightness") :
                   IF op.result = "ok"
                   THEN "brightness" \notin p_doubt /\ p_tv[p_profile].brightness = p_brightness.level
                   ELSE "brightness" \notin p_doubt => p_tv[p_profile].brightness = p_brightness.current

\* What was chosen last is what the page is on the way to.
BrightnessChosen ==
    p_change = "none" =>
        /\ p_brightness.st \in {"loading", "read_failed"} => p_asked.brightness = Page!None
        /\ p_brightness.st = "ready" => p_asked.brightness \subseteq {p_brightness.current}
        /\ p_brightness.st \in {"applying", "failed"} => p_asked.brightness = Page!Proposed(p_brightness)

BrightnessInv == BrightnessShape /\ BrightnessFlight /\ BrightnessShown /\ BrightnessChosen

AudioShape ==
    /\ p_audio.st \in {"closed", "loading", "read_failed", "ready", "applying", "failed"}
    /\ p_audio.st = "loading" => p_audio = Page!Loading(p_audio.id) /\ p_audio.id \in Nat /\ p_audio.id < p_next_id
    /\ p_audio.st = "ready" => p_audio.current \in Options /\ p_audio.muted \in BOOLEAN
    /\ p_audio.st = "applying" => p_audio \in AudioWrites /\ p_audio.id < p_next_id
    /\ p_audio.st = "failed" => p_audio \in AudioFailures

AudioFlight ==
    /\ p_audio.st = "loading" /\ p_change # "management" => \E op \in Of("audio") : op.id = p_audio.id
    /\ p_audio.st = "applying" =>
           p_change = "none" /\ \E op \in Of("set_audio") : op.id = p_audio.id
    /\ p_audio.st # "closed" =>
           \A op \in Of("set_audio") :
               /\ p_audio.st = "applying" /\ op.id = p_audio.id
               /\ op.level = p_audio.operation.level /\ op.muted = p_audio.operation.muted
               /\ op.applied \in {Page!None, op.level} /\ (op.result = "none" => op.applied = Page!None)
               /\ Of("set_audio") = {op}

\* A volume and a mute that the TV has.
Has(volume, muted) == volume \subseteq p_tv[p_profile].volume /\ muted = p_tv[p_profile].muted

AudioShown ==
    p_change = "none" =>
        /\ \A op \in Of("audio") :
               p_audio = Page!Loading(op.id) /\ op.result = "ok" => Has(op.seen.volume, op.seen.muted)
        /\ p_audio.st \in {"ready", "failed"} /\ "audio" \notin p_doubt => Has(p_audio.current, p_audio.muted)
        /\ p_audio.st = "applying" /\ "audio" \notin p_doubt =>
               \A op \in Of("set_audio") :
                   CASE op.result = "none"  -> Has(p_audio.current, p_audio.muted)
                     [] op.result = "ok"    -> Has(Page!OrElse(op.level, p_audio.current), op.muted)
                     [] op.result = "error" -> Has(Page!OrElse(op.applied, p_audio.current), p_audio.muted)

\* A volume and a mute are what was chosen; the writes that are pending come to it.
Came(current, muted, wanted) ==
    IF wanted.level # Page!None THEN current = wanted.level ELSE muted = wanted.muted
Comes(current, pending, operation, wanted) ==
    IF wanted.level # Page!None
    THEN \/ pending.volume = wanted.level
         \/ pending.volume = Page!None /\ operation.level = wanted.level
         \/ pending.volume = Page!None /\ operation.level = Page!None /\ current = wanted.level
    ELSE IF pending.muted # Page!None THEN pending.muted = Page!Some(wanted.muted)
    ELSE wanted.muted = IF pending.volume # Page!None THEN FALSE ELSE operation.muted

AudioChosen ==
    p_change = "none" =>
        /\ p_audio.st \in {"loading", "read_failed"} => p_asked.audio = Page!None
        /\ \A wanted \in p_asked.audio :
               /\ p_audio.st = "ready" =>
                      IF wanted.level # Page!None THEN p_audio.current = wanted.level
                      ELSE p_audio.muted = wanted.muted
               /\ p_audio.st = "applying" => Comes(p_audio.current, p_audio.pending, p_audio.operation, wanted)
               /\ p_audio.st = "failed" => Comes(p_audio.current, p_audio.pending, p_audio.retry, wanted)

AudioInv == AudioShape /\ AudioFlight /\ AudioShown /\ AudioChosen

PageInv == Shared /\ SummaryInv /\ BrightnessInv /\ AudioInv

-----------------------------------------------------------------------------
\* What is in an option.
LEMMA TheSome == \A v : Page!The(Page!Some(v)) = v
  BY DEF Page!The, Page!Some

\* An option of a level is empty or has a level in it.
LEMMA OptionsAre == \A o \in Options : o = Page!None \/ \E v \in Heights : o = Page!Some(v)
  BY DEF Options

\* A control that loads is told apart by the read that it waits for.
LEMMA LoadingFacts ==
  /\ \A i, j : Page!Loading(i) = Page!Loading(j) => i = j
  /\ \A i : Page!Loading(i).st = "loading" /\ Page!Loading(i).id = i
  <1>1. \A i : Page!Loading(i).st = "loading" /\ Page!Loading(i).id = i
    BY DEF Page!Loading
  <1> QED
    BY SMTT(30), <1>1

\* A new operation has what it was made with, and no result yet.
LEMMA OpFacts ==
  ASSUME Shared, NEW what \in {"summary", "brightness", "audio", "set_brightness", "set_audio"},
         NEW id \in Nat, NEW level \in Options, NEW muted \in BOOLEAN,
         what = "set_brightness" => level # Page!None
  PROVE  /\ Page!Op(what, id, level, muted) \in Ops
         /\ Page!Op(what, id, level, muted).what = what /\ Page!Op(what, id, level, muted).id = id
         /\ Page!Op(what, id, level, muted).level = level /\ Page!Op(what, id, level, muted).muted = muted
         /\ Page!Op(what, id, level, muted).result = "none" /\ Page!Op(what, id, level, muted).applied = Page!None
  <1>1. p_tv["a"] \in SeenRecords
    BY DEF Shared, Page!Tvs, TvRecords, SeenRecords, Options
  <1>2. Page!None \in Options
    BY DEF Options
  <1> QED
    BY <1>1, <1>2 DEF Page!Op, Ops

\* A new read of a control.
LEMMA NewRead ==
  ASSUME p_tv["a"] \in SeenRecords, NEW what \in {"summary", "brightness", "audio"}, NEW id \in Nat,
         NEW muted \in BOOLEAN
  PROVE  /\ Page!Op(what, id, Page!None, muted) \in Ops
         /\ Page!Op(what, id, Page!None, muted).what = what /\ Page!Op(what, id, Page!None, muted).id = id
         /\ Page!Op(what, id, Page!None, muted).result = "none"
  <1>1. Page!None \in Options
    BY DEF Options
  <1> QED
    BY <1>1 DEF Page!Op, Ops

\* What an operation has seen before it has run.
LEMMA SeenIsTyped == Shared => p_tv["a"] \in SeenRecords
  BY DEF Shared, Page!Tvs, TvRecords, SeenRecords, Options

\* The reads that a change of the profile starts: one for each control that is watched.
LEMMA ReadsTyped ==
  ASSUME p_tv["a"] \in SeenRecords, p_watched \subseteq {"summary", "brightness", "audio"}, NEW id \in Nat
  PROVE  /\ \A op \in Page!Reads(id) : op \in Ops /\ op.what \in p_watched /\ op.id = id /\ op.result = "none"
         /\ \A what \in p_watched : \E op \in Page!Reads(id) : op.what = what /\ op.id = id
  <1>1. ASSUME NEW op \in Page!Reads(id)
        PROVE  op \in Ops /\ op.what \in p_watched /\ op.id = id /\ op.result = "none"
    <2>1. PICK what \in p_watched : op = Page!Op(what, id, Page!None, FALSE)
      BY Zenon DEF Page!Reads
    <2>2. what \in {"summary", "brightness", "audio"}
      OBVIOUS
    <2>3. PICK m \in BOOLEAN : m = FALSE
      OBVIOUS
    <2>4. /\ Page!Op(what, id, Page!None, m) \in Ops
          /\ Page!Op(what, id, Page!None, m).what = what /\ Page!Op(what, id, Page!None, m).id = id
          /\ Page!Op(what, id, Page!None, m).result = "none"
      BY SMTT(30), <2>2, NewRead
    <2> QED
      BY <2>1, <2>3, <2>4, Zenon
  <1>2. ASSUME NEW what \in p_watched
        PROVE  \E op \in Page!Reads(id) : op.what = what /\ op.id = id
    <2>1. Page!Op(what, id, Page!None, FALSE) \in Page!Reads(id)
      BY Zenon DEF Page!Reads
    <2>2. what \in {"summary", "brightness", "audio"}
      OBVIOUS
    <2>3. PICK m \in BOOLEAN : m = FALSE
      OBVIOUS
    <2>4. Page!Op(what, id, Page!None, m).what = what /\ Page!Op(what, id, Page!None, m).id = id
      BY SMTT(30), <2>2, NewRead
    <2> QED
      BY <2>1, <2>3, <2>4, Zenon
  <1> QED
    BY <1>1, <1>2

\* A level is not the absence of one.
LEMMA SomeIsNotNone == \A v : Page!Some(v) # Page!None
  BY DEF Page!Some, Page!None

\* The parts of an operation that is on its way.
LEMMA OpIsTyped ==
  ASSUME Shared, NEW op \in p_flying
  PROVE  /\ op \in Ops /\ op.id \in Nat /\ op.level \in Options /\ op.muted \in BOOLEAN
         /\ op.seen \in SeenRecords /\ op.applied \in Options
  BY DEF Shared, Ops

\* The operations of a kind after some of another kind came and went.
LEMMA OfFacts ==
  ASSUME NEW gone, NEW new, NEW w, p_flying' = (p_flying \ gone) \cup new,
         \A op \in gone \cup new : op.what = w
  PROVE  /\ \A x : x # w => Of(x)' = Of(x)
         /\ Of(w)' = (Of(w) \ gone) \cup new
  BY DEF Of

\* A control is not affected by steps that leave it, its operations, its part of the TV and
\* its history alone.
LEMMA SummaryFrame ==
  ASSUME SummaryInv, p_next_id \in Nat, p_next_id' \in Nat, p_next_id <= p_next_id',
         UNCHANGED <<p_summary, p_change, p_profile>>, Of("summary")' = Of("summary")
  PROVE  SummaryInv'
  BY SMTT(30) DEF SummaryInv

\* A step that does not concern the brightness keeps its invariant.
LEMMA BrightnessFrame ==
  ASSUME BrightnessInv, p_next_id \in Nat, p_next_id' \in Nat, p_next_id <= p_next_id',
         UNCHANGED <<p_brightness, p_change, p_profile>>,
         Of("brightness")' = Of("brightness"), Of("set_brightness")' = Of("set_brightness"),
         p_tv'[p_profile].brightness = p_tv[p_profile].brightness,
         "brightness" \in p_doubt' <=> "brightness" \in p_doubt,
         p_asked'.brightness = p_asked.brightness
  PROVE  BrightnessInv'
  <1> USE DEF BrightnessInv
  <1>1. BrightnessShape'
    BY SMTT(30) DEF BrightnessShape, BrightnessWrites
  <1>2. BrightnessFlight'
    BY DEF BrightnessFlight
  <1>3. BrightnessShown' /\ BrightnessChosen'
    BY DEF BrightnessShown, BrightnessChosen, Page!Proposed
  <1> QED
    BY <1>1, <1>2, <1>3

\* A step that does not concern the audio keeps its invariant.
LEMMA AudioFrame ==
  ASSUME AudioInv, p_next_id \in Nat, p_next_id' \in Nat, p_next_id <= p_next_id',
         UNCHANGED <<p_audio, p_change, p_profile>>,
         Of("audio")' = Of("audio"), Of("set_audio")' = Of("set_audio"),
         p_tv'[p_profile].volume = p_tv[p_profile].volume, p_tv'[p_profile].muted = p_tv[p_profile].muted,
         "audio" \in p_doubt' <=> "audio" \in p_doubt,
         p_asked'.audio = p_asked.audio
  PROVE  AudioInv'
  <1> USE DEF AudioInv
  <1>1. AudioShape'
    BY SMTT(30) DEF AudioShape, AudioWrites
  <1>2. AudioFlight'
    BY DEF AudioFlight
  <1>3. AudioShown'
    BY DEF AudioShown, Has
  <1>4. AudioChosen'
    BY DEF AudioChosen, Comes
  <1> QED
    BY <1>1, <1>2, <1>3, <1>4

-----------------------------------------------------------------------------
\* A control begins to read.
LEMMA SummaryLoads ==
  ASSUME Shared, p_summary' = Page!Loading(p_next_id), p_next_id' = p_next_id + 1, p_change' \in {"none", "setup"},
         NEW read \in Of("summary")', read.id = p_next_id,
         \A op \in Of("summary")' : op.result # "ok" \/ op.id < p_next_id
  PROVE  SummaryInv'
  BY SMTT(30), LoadingFacts DEF Shared, SummaryInv

\* A brightness that begins to load waits for a read that nobody has answered.
LEMMA BrightnessLoads ==
  ASSUME Shared, p_brightness' = Page!Loading(p_next_id), p_next_id' = p_next_id + 1, p_change' = "none",
         NEW read \in Of("brightness")', read.id = p_next_id,
         \A op \in Of("brightness")' : op.result # "ok" \/ op.id < p_next_id,
         Of("set_brightness")' = {}, p_asked'.brightness = Page!None
  PROVE  BrightnessInv'
  <1>1. p_brightness'.st = "loading" /\ p_brightness'.id = p_next_id /\ p_next_id \in Nat
    BY LoadingFacts DEF Shared
  <1>2. BrightnessShape'
    BY SMTT(30), <1>1 DEF BrightnessShape
  <1>3. BrightnessFlight'
    BY <1>1 DEF BrightnessFlight
  <1>4. BrightnessShown' /\ BrightnessChosen'
    BY SMTT(30), <1>1, LoadingFacts DEF BrightnessShown, BrightnessChosen
  <1> QED
    BY <1>2, <1>3, <1>4 DEF BrightnessInv

\* An audio control that begins to load waits for a read that nobody has answered.
LEMMA AudioLoads ==
  ASSUME Shared, p_audio' = Page!Loading(p_next_id), p_next_id' = p_next_id + 1, p_change' = "none",
         NEW read \in Of("audio")', read.id = p_next_id,
         \A op \in Of("audio")' : op.result # "ok" \/ op.id < p_next_id,
         Of("set_audio")' = {}, p_asked'.audio = Page!None
  PROVE  AudioInv'
  <1>1. p_audio'.st = "loading" /\ p_audio'.id = p_next_id /\ p_next_id \in Nat
    BY LoadingFacts DEF Shared
  <1>2. AudioShape'
    BY SMTT(30), <1>1 DEF AudioShape
  <1>3. AudioFlight'
    BY <1>1 DEF AudioFlight
  <1>4. AudioShown' /\ AudioChosen'
    BY SMTT(30), <1>1, LoadingFacts DEF AudioShown, AudioChosen, Page!None
  <1> QED
    BY <1>2, <1>3, <1>4 DEF AudioInv

\* A control begins to write: the TV has what it shows, and it is on the way to what was chosen.
LEMMA BrightnessWriteStarts ==
  ASSUME Shared, NEW current \in Heights, NEW level \in Heights, NEW pending \in Options, NEW others,
         Page!BrightnessWrite(current, level, pending, others), others \subseteq p_flying,
         \A op \in others : op.what # "set_brightness", p_change = "none",
         UNCHANGED <<p_change, p_profile, p_tv, p_doubt>>,
         "brightness" \notin p_doubt => current = p_tv[p_profile].brightness,
         p_asked'.brightness = Page!OrElse(pending, Page!Some(level))
  PROVE  BrightnessInv'
  <1> DEFINE new == Page!Op("set_brightness", p_next_id, Page!Some(level), FALSE)
  <1>0. p_next_id \in Nat /\ Page!Some(level) \in Options /\ Page!Some(level) # Page!None
    BY DEF Shared, Options, Page!Some, Page!None
  <1>1. /\ new \in Ops /\ new.what = "set_brightness" /\ new.id = p_next_id /\ new.level = Page!Some(level)
        /\ new.result = "none"
    <2>1. PICK m \in BOOLEAN : m = FALSE
      OBVIOUS
    <2>2. LET op == Page!Op("set_brightness", p_next_id, Page!Some(level), m) IN
          /\ op \in Ops /\ op.what = "set_brightness" /\ op.id = p_next_id /\ op.level = Page!Some(level)
          /\ op.result = "none"
      BY SMTT(30), <1>0, OpFacts
    <2> QED
      BY <2>1, <2>2, Zenon
  <1>2. /\ p_next_id' = p_next_id + 1 /\ p_flying' = others \cup {new}
        /\ p_brightness' \in BrightnessWrites /\ p_brightness'.st = "applying" /\ p_brightness'.id = p_next_id
        /\ p_brightness'.level = level /\ p_brightness'.current = current /\ p_brightness'.pending = pending
    BY <1>0 DEF Page!BrightnessWrite, BrightnessWrites
  <1> HIDE DEF new
  <1>3. Of("set_brightness")' = {new}
    BY <1>1, <1>2 DEF Of
  <1>4. BrightnessShape'
    BY SMTT(30), <1>0, <1>2 DEF BrightnessShape
  <1>5. BrightnessFlight'
    BY <1>1, <1>2, <1>3 DEF BrightnessFlight
  <1>6. BrightnessShown'
    BY <1>1, <1>2, <1>3, LoadingFacts DEF BrightnessShown
  <1>7. BrightnessChosen'
    BY <1>2 DEF BrightnessChosen, Page!Proposed
  <1> QED
    BY <1>4, <1>5, <1>6, <1>7 DEF BrightnessInv

\* start_audio_write: the write that starts and those that are pending come to what was
\* chosen last.
LEMMA AudioWriteStarts ==
  ASSUME Shared, NEW current \in Options, NEW muted \in BOOLEAN, NEW pending \in Pendings,
         NEW operation \in Operations, NEW others,
         Page!start_audio_write(current, muted, pending, operation, others), others \subseteq p_flying,
         \A op \in others : op.what # "set_audio", p_change = "none",
         UNCHANGED <<p_change, p_profile, p_tv, p_doubt>>,
         "audio" \notin p_doubt => Has(current, muted),
         \A wanted \in p_asked'.audio : Comes(current, pending, operation, wanted)
  PROVE  AudioInv'
  <1> DEFINE new == Page!Op("set_audio", p_next_id, operation.level, operation.muted)
  <1>0. p_next_id \in Nat /\ operation.level \in Options /\ operation.muted \in BOOLEAN
    BY DEF Shared, Operations
  <1>1. /\ new \in Ops /\ new.what = "set_audio" /\ new.id = p_next_id /\ new.level = operation.level
        /\ new.muted = operation.muted /\ new.result = "none" /\ new.applied = Page!None
    BY SMTT(30), <1>0, OpFacts
  <1>2. /\ p_next_id' = p_next_id + 1 /\ p_flying' = others \cup {new}
        /\ p_audio' \in AudioWrites /\ p_audio'.st = "applying" /\ p_audio'.id = p_next_id
        /\ p_audio'.current = current /\ p_audio'.muted = muted /\ p_audio'.pending = pending
        /\ p_audio'.operation = operation
    BY <1>0 DEF Page!start_audio_write, AudioWrites
  <1> HIDE DEF new
  <1>3. Of("set_audio")' = {new}
    BY <1>1, <1>2 DEF Of
  <1>4. AudioShape'
    BY SMTT(30), <1>0, <1>2 DEF AudioShape
  <1>5. AudioFlight'
    BY <1>1, <1>2, <1>3 DEF AudioFlight
  <1>6. AudioShown'
    BY <1>1, <1>2, <1>3, LoadingFacts DEF AudioShown, Has
  <1>7. AudioChosen'
    BY <1>2 DEF AudioChosen, Comes
  <1> QED
    BY <1>4, <1>5, <1>6, <1>7 DEF AudioInv

\* A control comes to rest with what the TV has.
LEMMA BrightnessRests ==
  ASSUME Shared, NEW v \in Heights, p_brightness' = Page!BrightnessReady(v), Of("set_brightness")' = {},
         p_change = "none", UNCHANGED <<p_change, p_profile, p_tv, p_doubt>>,
         "brightness" \notin p_doubt => v = p_tv[p_profile].brightness, p_asked'.brightness \subseteq {v}
  PROVE  BrightnessInv'
  <1>1. p_brightness'.st = "ready" /\ p_brightness'.current = v
    BY DEF Page!BrightnessReady
  <1> QED
    BY <1>1, LoadingFacts
       DEF BrightnessInv, BrightnessShape, BrightnessFlight, BrightnessShown, BrightnessChosen

\* The audio control comes to rest on what the TV has and on what was chosen last.
LEMMA AudioRests ==
  ASSUME Shared, NEW current \in Options, NEW muted \in BOOLEAN,
         p_audio' = Page!AudioReady(current, muted), Of("set_audio")' = {},
         p_change = "none", UNCHANGED <<p_change, p_profile, p_tv, p_doubt>>,
         "audio" \notin p_doubt => Has(current, muted),
         \A wanted \in p_asked'.audio :
             IF wanted.level # Page!None THEN current = wanted.level ELSE muted = wanted.muted
  PROVE  AudioInv'
  <1>1. p_audio'.st = "ready" /\ p_audio'.current = current /\ p_audio'.muted = muted
    BY DEF Page!AudioReady
  <1> QED
    BY <1>1, LoadingFacts
       DEF AudioInv, AudioShape, AudioFlight, AudioShown, AudioChosen, Has

-----------------------------------------------------------------------------
(* Intents.                                                                *)

\* The summary is read again.
LEMMA RetrySummaryKeeps == ASSUME PageInv, Page!retry_summary, UNCHANGED p_watched PROVE PageInv'
  <1> DEFINE new == Page!Op("summary", p_next_id, Page!None, FALSE)
  <1>0. /\ Shared /\ p_next_id \in Nat /\ p_change = "none" /\ p_summary.st # "closed"
        /\ p_summary' = Page!Loading(p_next_id) /\ p_next_id' = p_next_id + 1 /\ p_flying' = p_flying \cup {new}
        /\ UNCHANGED <<p_brightness, p_audio, p_tv, p_profile, p_change, p_asked, p_doubt>>
    BY DEF PageInv, Shared, Page!retry_summary, Page!Forwarded, Page!is_closed
  <1>1. new \in Ops /\ new.what = "summary" /\ new.id = p_next_id /\ new.result = "none"
    <2>1. PICK m \in BOOLEAN : m = FALSE
      OBVIOUS
    <2>2. LET op == Page!Op("summary", p_next_id, Page!None, m) IN
        op \in Ops /\ op.what = "summary" /\ op.id = p_next_id /\ op.result = "none"
      BY SMTT(30), <1>0, SeenIsTyped, NewRead
    <2> QED
      BY <2>1, <2>2, Zenon
  <1> HIDE DEF new
  <1>2. /\ Of("summary")' = Of("summary") \cup {new}
        /\ Of("brightness")' = Of("brightness") /\ Of("set_brightness")' = Of("set_brightness")
        /\ Of("audio")' = Of("audio") /\ Of("set_audio")' = Of("set_audio")
    BY <1>0, <1>1 DEF Of
  <1>3. Shared'
    BY SMTT(30), <1>0, <1>1, LoadingFacts DEF Shared, Ops
  <1>4. \A op \in Of("summary")' : op.result # "ok" \/ op.id < p_next_id
    BY <1>0, <1>1, <1>2 DEF Shared, Of
  <1>5. SummaryInv'
    BY <1>0, <1>1, <1>2, <1>4, SummaryLoads
  <1>6. BrightnessInv' /\ AudioInv'
    BY SMTT(30), <1>0, <1>2, BrightnessFrame, AudioFrame DEF PageInv
  <1> QED
    BY <1>3, <1>5, <1>6 DEF PageInv

\* A step of the brightness control: what it leaves alone.
LEMMA BrightnessAlone ==
  ASSUME PageInv, UNCHANGED p_watched, BrightnessInv', p_next_id' \in Nat, p_next_id <= p_next_id',
         p_flying' \subseteq Ops, \A op \in p_flying' : op.id < p_next_id',
         \A op \in (p_flying \ p_flying') \cup (p_flying' \ p_flying) : op.what \in {"brightness", "set_brightness"},
         UNCHANGED <<p_summary, p_audio, p_tv, p_profile, p_change>>,
         "audio" \in p_doubt' <=> "audio" \in p_doubt,
         p_brightness'.st = "closed" <=> p_brightness.st = "closed",
         p_asked' \in [brightness : Options, audio : SUBSET Operations], p_asked'.audio = p_asked.audio
  PROVE  PageInv'
  <1>1. Shared'
    BY DEF PageInv, Shared
  <1>2. /\ Of("summary")' = Of("summary")
        /\ Of("audio")' = Of("audio") /\ Of("set_audio")' = Of("set_audio")
    BY DEF Of
  <1>3. SummaryInv' /\ AudioInv'
    BY <1>2, SummaryFrame, AudioFrame DEF PageInv, Shared
  <1> QED
    BY <1>1, <1>3 DEF PageInv

\* A step that concerns the audio alone keeps the invariants of the other controls.
LEMMA AudioAlone ==
  ASSUME PageInv, UNCHANGED p_watched, AudioInv', p_next_id' \in Nat, p_next_id <= p_next_id',
         p_flying' \subseteq Ops, \A op \in p_flying' : op.id < p_next_id',
         \A op \in (p_flying \ p_flying') \cup (p_flying' \ p_flying) : op.what \in {"audio", "set_audio"},
         UNCHANGED <<p_summary, p_brightness, p_tv, p_profile, p_change>>,
         "brightness" \in p_doubt' <=> "brightness" \in p_doubt,
         p_audio'.st = "closed" <=> p_audio.st = "closed",
         p_asked' \in [brightness : Options, audio : SUBSET Operations],
         p_asked'.brightness = p_asked.brightness
  PROVE  PageInv'
  <1>1. Shared'
    BY DEF PageInv, Shared
  <1>2. /\ Of("summary")' = Of("summary")
        /\ Of("brightness")' = Of("brightness") /\ Of("set_brightness")' = Of("set_brightness")
    BY DEF Of
  <1>3. SummaryInv' /\ BrightnessInv'
    BY <1>2, SummaryFrame, BrightnessFrame DEF PageInv, Shared
  <1> QED
    BY <1>1, <1>3 DEF PageInv

\* The brightness is written, from rest or after another write.
LEMMA BrightnessWriteKeeps ==
  ASSUME PageInv, UNCHANGED p_watched, p_brightness.st # "closed", NEW current \in Heights, NEW level \in Heights,
         NEW pending \in Options, NEW others,
         Page!BrightnessWrite(current, level, pending, others), others \subseteq p_flying,
         \A op \in others : op.what # "set_brightness",
         \A op \in p_flying \ others : op.what = "set_brightness", p_change = "none",
         UNCHANGED <<p_summary, p_audio, p_change, p_profile, p_tv, p_doubt>>,
         "brightness" \notin p_doubt => current = p_tv[p_profile].brightness,
         p_asked' \in [brightness : Options, audio : SUBSET Operations], p_asked'.audio = p_asked.audio,
         p_asked'.brightness = Page!OrElse(pending, Page!Some(level))
  PROVE  PageInv'
  <1> DEFINE new == Page!Op("set_brightness", p_next_id, Page!Some(level), FALSE)
  <1>0. Shared /\ p_next_id \in Nat /\ Page!Some(level) \in Options /\ p_flying \subseteq Ops
        /\ Page!Some(level) # Page!None /\ \A op \in p_flying : op.id < p_next_id /\ op.id \in Nat
    BY DEF PageInv, Shared, Options, Ops, Page!Some, Page!None
  <1>1. new \in Ops /\ new.what = "set_brightness" /\ new.id = p_next_id
    <2>1. PICK m \in BOOLEAN : m = FALSE
      OBVIOUS
    <2>2. LET op == Page!Op("set_brightness", p_next_id, Page!Some(level), m) IN
          /\ op \in Ops /\ op.what = "set_brightness" /\ op.id = p_next_id /\ op.level = Page!Some(level)
          /\ op.result = "none"
      BY SMTT(30), <1>0, OpFacts
    <2> QED
      BY <2>1, <2>2, Zenon
  <1>2. /\ p_next_id' = p_next_id + 1 /\ p_flying' = others \cup {new} /\ p_brightness'.st = "applying"
    BY DEF Page!BrightnessWrite
  <1> HIDE DEF new
  <1>3. BrightnessInv'
    BY <1>0, BrightnessWriteStarts
  <1>4. /\ p_flying' \subseteq Ops /\ \A op \in p_flying' : op.id < p_next_id'
    BY SMTT(30), <1>0, <1>1, <1>2
  <1>5. \A op \in (p_flying \ p_flying') \cup (p_flying' \ p_flying) : op.what \in {"brightness", "set_brightness"}
    BY <1>1, <1>2
  <1> QED
    BY SMTT(30), <1>0, <1>2, <1>3, <1>4, <1>5, BrightnessAlone

\* start_audio_write, among the other operations that are on their way.
LEMMA AudioWriteKeeps ==
  ASSUME PageInv, UNCHANGED p_watched, p_audio.st # "closed", NEW current \in Options, NEW muted \in BOOLEAN,
         NEW pending \in Pendings, NEW operation \in Operations, NEW others,
         Page!start_audio_write(current, muted, pending, operation, others), others \subseteq p_flying,
         \A op \in others : op.what # "set_audio",
         \A op \in p_flying \ others : op.what = "set_audio", p_change = "none",
         UNCHANGED <<p_summary, p_brightness, p_change, p_profile, p_tv, p_doubt>>,
         "audio" \notin p_doubt => Has(current, muted),
         p_asked' \in [brightness : Options, audio : SUBSET Operations],
         p_asked'.brightness = p_asked.brightness,
         \A wanted \in p_asked'.audio : Comes(current, pending, operation, wanted)
  PROVE  PageInv'
  <1> DEFINE new == Page!Op("set_audio", p_next_id, operation.level, operation.muted)
  <1>0. Shared /\ p_next_id \in Nat /\ operation.level \in Options /\ operation.muted \in BOOLEAN
        /\ p_flying \subseteq Ops /\ \A op \in p_flying : op.id < p_next_id /\ op.id \in Nat
    BY DEF PageInv, Shared, Operations, Ops
  <1>1. new \in Ops /\ new.what = "set_audio" /\ new.id = p_next_id
    BY SMTT(30), <1>0, OpFacts
  <1>2. /\ p_next_id' = p_next_id + 1 /\ p_flying' = others \cup {new} /\ p_audio'.st = "applying"
    BY DEF Page!start_audio_write
  <1> HIDE DEF new
  <1>3. AudioInv'
    BY <1>0, AudioWriteStarts
  <1>4. /\ p_flying' \subseteq Ops /\ \A op \in p_flying' : op.id < p_next_id'
    BY SMTT(30), <1>0, <1>1, <1>2
  <1>5. \A op \in (p_flying \ p_flying') \cup (p_flying' \ p_flying) : op.what \in {"audio", "set_audio"}
    BY <1>1, <1>2
  <1> QED
    BY SMTT(30), <1>0, <1>2, <1>3, <1>4, <1>5, AudioAlone

\* Nothing of a control that is not writing is on its way to the TV.
LEMMA NoWriteFlies ==
  /\ PageInv /\ p_brightness.st \notin {"closed", "applying"} =>
         Of("set_brightness") = {} /\ \A op \in p_flying : op.what # "set_brightness"
  /\ PageInv /\ p_audio.st \notin {"closed", "applying"} =>
         Of("set_audio") = {} /\ \A op \in p_flying : op.what # "set_audio"
  BY DEF PageInv, BrightnessInv, BrightnessFlight, AudioInv, AudioFlight, Of

\* A brightness is chosen: it is written at once or waits for the write that runs.
LEMMA SetBrightnessKeeps == ASSUME PageInv, NEW v \in Levels, Page!set_brightness(v), UNCHANGED p_watched PROVE PageInv'
  <1>0. /\ Shared /\ p_change = "none" /\ p_brightness.st # "closed" /\ v \in Heights /\ Page!Some(v) \in Options
        /\ UNCHANGED <<p_summary, p_audio, p_tv, p_profile, p_change, p_doubt>>
    BY DEF PageInv, Shared, Page!set_brightness, Page!Forwarded, Page!is_closed, Heights, Options
  <1>1. /\ p_asked' \in [brightness : Options, audio : SUBSET Operations]
        /\ p_asked'.audio = p_asked.audio /\ p_asked'.brightness = Page!Some(v)
    BY <1>0 DEF Shared, Page!set_brightness
  <1>2. CASE p_brightness.st \in {"ready", "failed"} /\ v # p_brightness.current
    <2>1. Page!BrightnessWrite(p_brightness.current, v, Page!None, p_flying)
      BY <1>2 DEF Page!set_brightness
    <2>2. p_brightness.current \in Heights
          /\ ("brightness" \notin p_doubt => p_brightness.current = p_tv[p_profile].brightness)
      BY <1>0, <1>2 DEF PageInv, BrightnessInv, BrightnessShape, BrightnessWrites, BrightnessShown
    <2>3. \A op \in p_flying : op.what # "set_brightness"
      BY <1>2, NoWriteFlies
    <2>4. Page!None \in Options /\ Page!OrElse(Page!None, Page!Some(v)) = Page!Some(v)
      BY DEF Options, Page!OrElse
    <2> QED
      BY <1>0, <1>1, <2>1, <2>2, <2>3, <2>4, BrightnessWriteKeeps
  <1>3. CASE p_brightness.st = "applying"
    <2>1. /\ p_brightness' = [p_brightness EXCEPT !.pending = Page!Some(v) \ Page!Some(p_brightness.level)]
          /\ UNCHANGED <<p_next_id, p_flying>>
      BY <1>3 DEF Page!set_brightness
    <2>2. p_brightness \in BrightnessWrites /\ Page!Some(v) \ Page!Some(p_brightness.level) \in Options
      BY <1>0, <1>3 DEF PageInv, BrightnessInv, BrightnessShape, Options, Page!Some, Page!None
    <2>3. /\ p_brightness' \in BrightnessWrites /\ p_brightness'.st = "applying"
          /\ p_brightness'.current = p_brightness.current /\ p_brightness'.level = p_brightness.level
          /\ p_brightness'.id = p_brightness.id /\ p_brightness'.pending = Page!Some(v) \ Page!Some(p_brightness.level)
      BY <1>3, <2>1, <2>2 DEF BrightnessWrites
    <2>4. Of("brightness")' = Of("brightness") /\ Of("set_brightness")' = Of("set_brightness")
      BY <2>1 DEF Of
    <2>5. Page!Proposed(p_brightness)' = Page!Some(v)
      BY <2>3 DEF Page!Proposed, Page!OrElse, Page!Some, Page!None
    <2>6. BrightnessShape' /\ BrightnessFlight'
      BY <1>0, <1>3, <2>1, <2>3, <2>4 DEF PageInv, BrightnessInv, BrightnessShape, BrightnessFlight
    <2>7. BrightnessShown'
      BY <1>0, <1>3, <2>3, <2>4, LoadingFacts DEF PageInv, BrightnessInv, BrightnessShown
    <2>8. BrightnessChosen'
      BY <1>1, <2>3, <2>5 DEF BrightnessChosen
    <2>9. BrightnessInv'
      BY <2>6, <2>7, <2>8 DEF BrightnessInv
    <2> QED
      BY SMTT(30), <1>0, <1>1, <1>3, <2>1, <2>3, <2>9, BrightnessAlone DEF Shared
  <1>4. CASE p_brightness.st = "failed" /\ v = p_brightness.current
    <2>1. p_brightness' = Page!BrightnessReady(v) /\ UNCHANGED <<p_next_id, p_flying>>
      BY <1>4 DEF Page!set_brightness
    <2>2. Of("set_brightness")' = {}
      BY <1>4, <2>1, NoWriteFlies DEF Of
    <2>3. "brightness" \notin p_doubt => v = p_tv[p_profile].brightness
      BY <1>0, <1>4 DEF PageInv, BrightnessInv, BrightnessShown
    <2>4. BrightnessInv'
      BY <1>0, <1>1, <2>1, <2>2, <2>3, BrightnessRests DEF Page!Some
    <2>5. p_brightness'.st = "ready"
      BY <2>1 DEF Page!BrightnessReady
    <2> QED
      BY SMTT(30), <1>0, <1>1, <1>4, <2>1, <2>4, <2>5, BrightnessAlone DEF Shared
  <1> QED
    BY <1>2, <1>3, <1>4 DEF Page!set_brightness

\* The brightness that failed is written again.
LEMMA RetryBrightnessKeeps == ASSUME PageInv, Page!retry_brightness, UNCHANGED p_watched PROVE PageInv'
  <1>0. /\ Shared /\ p_change = "none" /\ p_brightness.st # "closed" /\ p_next_id \in Nat
        /\ UNCHANGED <<p_summary, p_audio, p_tv, p_profile, p_change, p_doubt>>
    BY DEF PageInv, Shared, Page!retry_brightness, Page!Forwarded, Page!is_closed
  <1>1. CASE p_brightness = Page!ReadFailed
    <2> DEFINE new == Page!Op("brightness", p_next_id, Page!None, FALSE)
    <2>1. /\ p_brightness' = Page!Loading(p_next_id) /\ p_next_id' = p_next_id + 1 /\ p_flying' = p_flying \cup {new}
          /\ UNCHANGED p_asked /\ p_brightness.st = "read_failed"
      BY <1>1 DEF Page!retry_brightness, Page!ReadFailed
    <2>2. new \in Ops /\ new.what = "brightness" /\ new.id = p_next_id /\ new.result = "none"
      <3>1. PICK m \in BOOLEAN : m = FALSE
        OBVIOUS
      <3>2. LET op == Page!Op("brightness", p_next_id, Page!None, m) IN
          op \in Ops /\ op.what = "brightness" /\ op.id = p_next_id /\ op.result = "none"
        BY SMTT(30), <1>0, SeenIsTyped, NewRead
      <3> QED
        BY <3>1, <3>2, Zenon
    <2> HIDE DEF new
    <2>3. /\ Of("brightness")' = Of("brightness") \cup {new} /\ Of("set_brightness")' = {}
      BY <2>1, <2>2, NoWriteFlies DEF Of
    <2>4. \A op \in Of("brightness")' : op.result # "ok" \/ op.id < p_next_id
      BY <1>0, <2>2, <2>3 DEF Shared, Of
    <2>5. p_asked'.brightness = Page!None
      BY <1>0, <2>1 DEF PageInv, BrightnessInv, BrightnessChosen
    <2>6. BrightnessInv'
      BY <1>0, <2>1, <2>2, <2>3, <2>4, <2>5, BrightnessLoads
    <2>7. p_flying' \subseteq Ops /\ (\A op \in p_flying' : op.id < p_next_id') /\ p_brightness'.st = "loading"
      BY SMTT(30), <1>0, <2>1, <2>2, LoadingFacts DEF Shared, Ops
    <2> QED
      BY SMTT(30), <1>0, <2>1, <2>2, <2>6, <2>7, BrightnessAlone DEF Shared
  <1>2. CASE p_brightness.st = "failed"
    <2>1. /\ Page!BrightnessWrite(p_brightness.current, p_brightness.level, p_brightness.pending, p_flying)
          /\ p_asked' = [p_asked EXCEPT !.brightness = Page!Proposed(p_brightness)]
      <3>1. p_brightness # Page!ReadFailed
        BY SMTT(30), <1>2 DEF Page!ReadFailed
      <3> QED
        BY <1>2, <3>1 DEF Page!retry_brightness
    <2>2. /\ p_brightness.current \in Heights /\ p_brightness.level \in Heights
          /\ p_brightness.pending \in Options
          /\ ("brightness" \notin p_doubt => p_brightness.current = p_tv[p_profile].brightness)
          /\ p_asked.brightness = Page!Proposed(p_brightness)
      BY <1>0, <1>2 DEF PageInv, BrightnessInv, BrightnessShape, BrightnessWrites, BrightnessShown,
                        BrightnessChosen
    <2>3. \A op \in p_flying : op.what # "set_brightness"
      BY <1>2, NoWriteFlies
    <2>4. /\ p_asked' \in [brightness : Options, audio : SUBSET Operations]
          /\ p_asked'.audio = p_asked.audio
          /\ p_asked'.brightness = Page!OrElse(p_brightness.pending, Page!Some(p_brightness.level))
      BY <1>0, <2>1, <2>2 DEF Shared, Page!Proposed
    <2> QED
      BY <1>0, <2>1, <2>2, <2>3, <2>4, BrightnessWriteKeeps
  <1> QED
    BY <1>1, <1>2 DEF Page!retry_brightness

\* The request changes while a write is on its way.
LEMMA AudioPendingKeeps ==
  ASSUME PageInv, UNCHANGED p_watched, p_audio.st = "applying", NEW pending \in Pendings,
         p_audio' \in AudioWrites, p_audio'.st = "applying", p_audio'.current = p_audio.current,
         p_audio'.muted = p_audio.muted, p_audio'.operation = p_audio.operation, p_audio'.id = p_audio.id,
         p_audio'.pending = pending,
         UNCHANGED <<p_next_id, p_flying, p_summary, p_brightness, p_tv, p_profile, p_change, p_doubt>>,
         p_asked' \in [brightness : Options, audio : SUBSET Operations],
         p_asked'.brightness = p_asked.brightness,
         \A wanted \in p_asked'.audio : Comes(p_audio.current, pending, p_audio.operation, wanted)
  PROVE  PageInv'
  <1>1. Of("audio")' = Of("audio") /\ Of("set_audio")' = Of("set_audio")
    BY DEF Of
  <1>2. AudioShape' /\ AudioFlight'
    BY SMTT(30), <1>1 DEF PageInv, AudioInv, AudioShape, AudioFlight
  <1>3. AudioShown'
    BY <1>1, LoadingFacts DEF PageInv, AudioInv, AudioShown, Has
  <1>4. AudioChosen'
    BY DEF AudioChosen, Comes
  <1>5. AudioInv'
    BY <1>2, <1>3, <1>4 DEF AudioInv
  <1> QED
    BY SMTT(30), <1>5, AudioAlone DEF PageInv, Shared

\* What a control that is at rest or has failed shows.
LEMMA AudioAtRest ==
  ASSUME PageInv, p_change = "none", p_audio.st \in {"ready", "failed"}
  PROVE  /\ p_audio.current \in Options /\ p_audio.muted \in BOOLEAN
         /\ p_audio.st = "failed" => p_audio.pending \in Pendings /\ p_audio.retry \in Operations
         /\ "audio" \notin p_doubt => Has(p_audio.current, p_audio.muted)
         /\ \A op \in p_flying : op.what # "set_audio"
         /\ Of("set_audio") = {}
  <1>1. (\A op \in p_flying : op.what # "set_audio") /\ Of("set_audio") = {}
    BY NoWriteFlies
  <1>2. p_audio.current \in Options /\ p_audio.muted \in BOOLEAN
        /\ (p_audio.st = "failed" => p_audio.pending \in Pendings /\ p_audio.retry \in Operations)
    BY DEF PageInv, AudioInv, AudioShape, AudioFailures
  <1>3. "audio" \notin p_doubt => Has(p_audio.current, p_audio.muted)
    BY DEF PageInv, AudioInv, AudioShown
  <1> QED
    BY <1>1, <1>2, <1>3

\* A choice that the TV has already is not written.
LEMMA AudioComesToRest ==
  ASSUME PageInv, UNCHANGED p_watched, p_change = "none", p_audio.st \in {"ready", "failed"}, NEW muted \in BOOLEAN,
         muted = p_audio.muted, p_audio' = Page!AudioReady(p_audio.current, muted),
         UNCHANGED <<p_next_id, p_flying, p_summary, p_brightness, p_tv, p_profile, p_change, p_doubt>>,
         p_asked' \in [brightness : Options, audio : SUBSET Operations],
         p_asked'.brightness = p_asked.brightness,
         \A wanted \in p_asked'.audio :
             IF wanted.level # Page!None THEN p_audio.current = wanted.level ELSE muted = wanted.muted
  PROVE  PageInv'
  <1>1. Of("set_audio")' = {}
    BY AudioAtRest DEF Of
  <1>2. AudioInv'
    BY <1>1, AudioAtRest, AudioRests DEF PageInv
  <1>3. p_audio'.st = "ready"
    BY DEF Page!AudioReady
  <1> QED
    BY SMTT(30), <1>2, <1>3, AudioAlone DEF PageInv, Shared

\* A volume is chosen.
LEMMA SetVolumeKeeps == ASSUME PageInv, NEW v \in Levels, Page!set_volume(v), UNCHANGED p_watched PROVE PageInv'
  <1> DEFINE operation == Page!SetVolumeAndUnmute(v)
  <1>0. /\ Shared /\ p_change = "none" /\ p_audio.st # "closed" /\ Page!Some(v) \in Options /\ Page!Some(v) # Page!None
        /\ UNCHANGED <<p_summary, p_brightness, p_tv, p_profile, p_change, p_doubt>>
    BY DEF PageInv, Shared, Page!set_volume, Page!Forwarded, Page!is_closed, Heights, Options, Page!Some, Page!None
  <1>1. operation \in Operations /\ operation.level = Page!Some(v) /\ operation.muted = FALSE
    BY <1>0 DEF Page!SetVolumeAndUnmute, Operations
  <1>2. /\ p_asked' \in [brightness : Options, audio : SUBSET Operations]
        /\ p_asked'.brightness = p_asked.brightness /\ p_asked'.audio = {operation}
    BY <1>0, <1>1 DEF Shared, Page!set_volume, Page!Some
  <1>3. CASE /\ p_audio.st = "ready"
             /\ Page!start_audio_write(p_audio.current, p_audio.muted, Page!NoPending, operation, p_flying)
    <2>1. Page!NoPending \in Pendings /\ Comes(p_audio.current, Page!NoPending, operation, operation)
      BY <1>0, <1>1 DEF Page!NoPending, Pendings, Options, Mutes, Comes
    <2> HIDE DEF operation
    <2> QED
      BY SMTT(30), <1>0, <1>1, <1>2, <1>3, <2>1, AudioAtRest, AudioWriteKeeps
  <1>4. CASE /\ p_audio.st = "applying"
             /\ p_audio' = [p_audio EXCEPT !.pending.volume = Page!Some(v) \ p_audio.operation.level]
             /\ UNCHANGED <<p_next_id, p_flying>>
    <2> DEFINE pending == [volume |-> Page!Some(v) \ p_audio.operation.level, muted |-> p_audio.pending.muted]
    <2>1. /\ p_audio \in AudioWrites /\ p_audio.pending \in Pendings /\ p_audio.operation \in Operations
      BY <1>4 DEF PageInv, AudioInv, AudioShape, AudioWrites
    <2>2. Page!Some(v) \ p_audio.operation.level \in {Page!None, Page!Some(v)}
          /\ (Page!Some(v) \ p_audio.operation.level = Page!None => p_audio.operation.level = Page!Some(v))
      <3>1. p_audio.operation.level = Page!None \/ \E w \in Heights : p_audio.operation.level = Page!Some(w)
        BY <2>1, OptionsAre DEF Operations
      <3> QED
        BY <3>1 DEF Page!Some, Page!None
    <2>3. pending \in Pendings /\ pending.volume = Page!Some(v) \ p_audio.operation.level
      BY <1>0, <2>1, <2>2 DEF Pendings, Options
    <2>4. [p_audio.pending EXCEPT !.volume = Page!Some(v) \ p_audio.operation.level] = pending
      BY SMTT(30), <2>1 DEF Pendings
    <2>5. p_audio' = [p_audio EXCEPT !.pending = pending]
      BY <1>4, <2>4
    <2> HIDE DEF pending
    <2>6. /\ p_audio' \in AudioWrites /\ p_audio'.st = "applying" /\ p_audio'.current = p_audio.current
          /\ p_audio'.muted = p_audio.muted /\ p_audio'.operation = p_audio.operation /\ p_audio'.id = p_audio.id
          /\ p_audio'.pending = pending
      BY <2>1, <2>3, <2>5 DEF AudioWrites
    <2> HIDE DEF operation
    <2>7. Comes(p_audio.current, pending, p_audio.operation, operation)
      BY <1>0, <1>1, <2>2, <2>3 DEF Comes
    <2> QED
      BY <1>0, <1>2, <1>4, <2>3, <2>6, <2>7, AudioPendingKeeps
  <1>5. CASE /\ p_audio.st = "failed"
             /\ p_audio.current = Page!Some(v) /\ ~p_audio.muted /\ p_audio.pending.muted = Page!None
             /\ p_audio' = Page!AudioReady(p_audio.current, p_audio.muted)
             /\ UNCHANGED <<p_next_id, p_flying>>
    <2> HIDE DEF operation
    <2> QED
      BY <1>0, <1>1, <1>2, <1>5, AudioAtRest, AudioComesToRest
  <1>6. CASE /\ p_audio.st = "failed"
             /\ Page!start_audio_write(p_audio.current, p_audio.muted, [p_audio.pending EXCEPT !.volume = Page!None],
                                       operation, p_flying)
    <2> DEFINE pending == [p_audio.pending EXCEPT !.volume = Page!None]
    <2>1. pending \in Pendings /\ pending.volume = Page!None
      BY <1>0, <1>6, AudioAtRest DEF Pendings, Options
    <2>2. Page!start_audio_write(p_audio.current, p_audio.muted, pending, operation, p_flying)
      BY <1>6
    <2> HIDE DEF operation, pending
    <2>3. Comes(p_audio.current, pending, operation, operation)
      BY <1>0, <1>1, <2>1 DEF Comes
    <2> QED
      BY SMTT(30), <1>0, <1>1, <1>2, <1>6, <2>1, <2>2, <2>3, AudioAtRest, AudioWriteKeeps
  <1> QED
    BY <1>3, <1>4, <1>5, <1>6 DEF Page!set_volume

\* A mute is chosen.
LEMMA SetMutedKeeps == ASSUME PageInv, NEW m \in BOOLEAN, Page!set_muted(m), UNCHANGED p_watched PROVE PageInv'
  <1> DEFINE operation == Page!SetMuted(m)
  <1>0. /\ Shared /\ p_change = "none" /\ p_audio.st # "closed" /\ Page!Some(m) \in Mutes /\ Page!Some(m) # Page!None
        /\ (TRUE \in Page!Some(m) <=> m)
        /\ UNCHANGED <<p_summary, p_brightness, p_tv, p_profile, p_change, p_doubt>>
    BY DEF PageInv, Shared, Page!set_muted, Page!Forwarded, Page!is_closed, Mutes, Page!Some, Page!None
  <1>1. operation \in Operations /\ operation.level = Page!None /\ operation.muted = m
    BY <1>0 DEF Page!SetMuted, Operations, Options
  <1>2. /\ p_asked' \in [brightness : Options, audio : SUBSET Operations]
        /\ p_asked'.brightness = p_asked.brightness /\ p_asked'.audio = {operation}
    BY <1>0, <1>1 DEF Shared, Page!set_muted, Page!Some
  <1>3. CASE /\ p_audio.st = "ready"
             /\ Page!start_audio_write(p_audio.current, p_audio.muted, Page!NoPending, operation, p_flying)
    <2>1. Page!NoPending \in Pendings /\ Comes(p_audio.current, Page!NoPending, operation, operation)
      BY <1>0, <1>1 DEF Page!NoPending, Pendings, Options, Mutes, Comes
    <2> HIDE DEF operation
    <2> QED
      BY SMTT(30), <1>0, <1>1, <1>2, <1>3, <2>1, AudioAtRest, AudioWriteKeeps
  <1>4. CASE p_audio.st = "applying"
    <2> DEFINE expected == IF p_audio.pending.volume # Page!None THEN FALSE
                           ELSE Page!operation_muted(p_audio.operation)
               rest == Page!Some(m) \ Page!Some(expected)
               pending == [volume |-> p_audio.pending.volume, muted |-> rest]
    <2>1. /\ p_audio \in AudioWrites /\ p_audio.pending \in Pendings /\ p_audio.operation \in Operations
      BY <1>4 DEF PageInv, AudioInv, AudioShape, AudioWrites
    <2>2. p_audio' = [p_audio EXCEPT !.pending.muted = rest] /\ UNCHANGED <<p_next_id, p_flying>>
      BY <1>4 DEF Page!set_muted
    <2>3. expected \in BOOLEAN
      BY <2>1 DEF Page!operation_muted, Operations
    <2>4. rest = IF m = expected THEN Page!None ELSE Page!Some(m)
      BY DEF Page!Some, Page!None
    <2> HIDE DEF rest
    <2>5. [p_audio.pending EXCEPT !.muted = rest] = pending
      BY SMTT(30), <2>1 DEF Pendings
    <2>6. p_audio' = [p_audio EXCEPT !.pending = pending]
      BY <2>2, <2>5
    <2>7. pending.volume = p_audio.pending.volume /\ pending.muted = rest
      OBVIOUS
    <2>8. pending \in Pendings
      BY <1>0, <2>1, <2>4 DEF Pendings, Mutes
    <2> HIDE DEF pending, rest
    <2>9. /\ p_audio' \in AudioWrites /\ p_audio'.st = "applying" /\ p_audio'.current = p_audio.current
          /\ p_audio'.muted = p_audio.muted /\ p_audio'.operation = p_audio.operation /\ p_audio'.id = p_audio.id
          /\ p_audio'.pending = pending
      BY <2>1, <2>6, <2>8 DEF AudioWrites
    <2> HIDE DEF operation
    <2>10. Comes(p_audio.current, pending, p_audio.operation, operation)
      <3>1. CASE m = expected
        <4>1. pending.muted = Page!None
          BY <2>4, <2>7, <3>1
        <4>2. m = IF pending.volume # Page!None THEN FALSE ELSE p_audio.operation.muted
          BY <2>7, <3>1 DEF Page!operation_muted
        <4> QED
          BY <1>1, <4>1, <4>2 DEF Comes
      <3>2. CASE m # expected
        <4>1. pending.muted # Page!None /\ pending.muted = Page!Some(m)
          BY <1>0, <2>4, <2>7, <3>2, SomeIsNotNone
        <4> QED
          BY <1>1, <4>1 DEF Comes
      <3> QED
        BY <3>1, <3>2
    <2> QED
      BY <1>0, <1>2, <1>4, <2>2, <2>8, <2>9, <2>10, AudioPendingKeeps
  <1>5. CASE /\ p_audio.st = "failed" /\ p_audio.muted = m
             /\ p_audio' = Page!AudioReady(p_audio.current, m)
             /\ UNCHANGED <<p_next_id, p_flying>>
    <2> HIDE DEF operation
    <2> QED
      BY <1>0, <1>1, <1>2, <1>5, AudioComesToRest
  <1>6. CASE /\ p_audio.st = "failed"
             /\ Page!start_audio_write(p_audio.current, p_audio.muted,
                   [volume |-> p_audio.pending.volume,
                    muted |-> IF p_audio.pending.volume # Page!None THEN Page!Some(m) ELSE Page!None],
                   operation, p_flying)
    <2> DEFINE pending == [volume |-> p_audio.pending.volume,
                           muted |-> IF p_audio.pending.volume # Page!None THEN Page!Some(m) ELSE Page!None]
    <2>1. /\ pending \in Pendings /\ pending.volume = p_audio.pending.volume
          /\ pending.muted = IF p_audio.pending.volume # Page!None THEN Page!Some(m) ELSE Page!None
      BY <1>0, <1>6, AudioAtRest DEF Pendings, Mutes
    <2>2. Page!start_audio_write(p_audio.current, p_audio.muted, pending, operation, p_flying)
      BY <1>6
    <2> HIDE DEF operation, pending
    <2>3. Comes(p_audio.current, pending, operation, operation)
      <3>1. CASE p_audio.pending.volume # Page!None
        <4>1. pending.muted # Page!None /\ pending.muted = Page!Some(m)
          BY <1>0, <2>1, <3>1, SomeIsNotNone
        <4> QED
          BY <1>1, <4>1 DEF Comes
      <3>2. CASE p_audio.pending.volume = Page!None
        BY <1>1, <2>1, <3>2 DEF Comes
      <3> QED
        BY <3>1, <3>2
    <2> QED
      BY SMTT(30), <1>0, <1>1, <1>2, <1>6, <2>1, <2>2, <2>3, AudioAtRest, AudioWriteKeeps
  <1> QED
    BY <1>3, <1>4, <1>5, <1>6 DEF Page!set_muted

\* The audio write that failed is tried again, or the audio is read again.
LEMMA RetryAudioKeeps == ASSUME PageInv, Page!retry_audio, UNCHANGED p_watched PROVE PageInv'
  <1>0. /\ Shared /\ p_change = "none" /\ p_audio.st # "closed" /\ p_next_id \in Nat
        /\ UNCHANGED <<p_summary, p_brightness, p_tv, p_profile, p_change, p_asked, p_doubt>>
    BY DEF PageInv, Shared, Page!retry_audio, Page!Forwarded, Page!is_closed
  <1>1. CASE p_audio = Page!ReadFailed
    <2> DEFINE new == Page!Op("audio", p_next_id, Page!None, FALSE)
    <2>1. /\ p_audio' = Page!Loading(p_next_id) /\ p_next_id' = p_next_id + 1 /\ p_flying' = p_flying \cup {new}
          /\ p_audio.st = "read_failed"
      BY <1>1 DEF Page!retry_audio, Page!ReadFailed
    <2>2. new \in Ops /\ new.what = "audio" /\ new.id = p_next_id /\ new.result = "none"
      <3>1. PICK m \in BOOLEAN : m = FALSE
        OBVIOUS
      <3>2. LET op == Page!Op("audio", p_next_id, Page!None, m) IN
          op \in Ops /\ op.what = "audio" /\ op.id = p_next_id /\ op.result = "none"
        BY SMTT(30), <1>0, SeenIsTyped, NewRead
      <3> QED
        BY <3>1, <3>2, Zenon
    <2> HIDE DEF new
    <2>3. /\ Of("audio")' = Of("audio") \cup {new} /\ Of("set_audio")' = {}
      BY <2>1, <2>2, NoWriteFlies DEF Of
    <2>4. \A op \in Of("audio")' : op.result # "ok" \/ op.id < p_next_id
      BY <1>0, <2>2, <2>3 DEF Shared, Of
    <2>5. p_asked'.audio = Page!None
      BY <1>0, <2>1 DEF PageInv, AudioInv, AudioChosen
    <2>6. AudioInv'
      BY <1>0, <2>1, <2>2, <2>3, <2>4, <2>5, AudioLoads
    <2>7. p_flying' \subseteq Ops /\ (\A op \in p_flying' : op.id < p_next_id') /\ p_audio'.st = "loading"
      BY SMTT(30), <1>0, <2>1, <2>2, LoadingFacts DEF Shared, Ops
    <2> QED
      BY SMTT(30), <1>0, <2>1, <2>2, <2>6, <2>7, AudioAlone DEF Shared
  <1>2. CASE p_audio.st = "failed"
    <2>1. Page!start_audio_write(p_audio.current, p_audio.muted, p_audio.pending, p_audio.retry, p_flying)
      <3>1. p_audio # Page!ReadFailed
        BY SMTT(30), <1>2 DEF Page!ReadFailed
      <3> QED
        BY <1>2, <3>1 DEF Page!retry_audio
    <2>2. \A wanted \in p_asked'.audio : Comes(p_audio.current, p_audio.pending, p_audio.retry, wanted)
      BY <1>0, <1>2 DEF PageInv, AudioInv, AudioChosen
    <2>3. p_asked' \in [brightness : Options, audio : SUBSET Operations]
      BY <1>0 DEF Shared
    <2> QED
      BY <1>0, <1>2, <2>1, <2>2, <2>3, AudioAtRest, AudioWriteKeeps
  <1> QED
    BY <1>1, <1>2 DEF Page!retry_audio

-----------------------------------------------------------------------------
(* The profile changes, and the page closes.                               *)

\* A control that is not watched does not load.
LEMMA LoadingOfFacts ==
  ASSUME NEW what, NEW id
  PROVE  /\ Page!LoadingOf(what, id).st \in {"loading", "read_failed"}
         /\ Page!LoadingOf(what, id).st = "loading" => what \in p_watched /\ Page!LoadingOf(what, id) = Page!Loading(id)
  BY LoadingFacts DEF Page!LoadingOf, Page!ReadFailed

\* The management of the TVs begins: what the page shows is given up.
LEMMA ManagementKeeps == ASSUME PageInv, Page!ManagementStarts, UNCHANGED p_watched PROVE PageInv'
  <1>0. /\ Shared /\ p_change = "none" /\ p_change' = "management" /\ p_next_id \in Nat /\ p_next_id' = p_next_id + 1
        /\ p_summary.st # "closed" /\ p_brightness.st \notin {"closed", "applying"}
        /\ p_audio.st \notin {"closed", "applying"}
        /\ UNCHANGED <<p_flying, p_tv, p_profile, p_asked, p_doubt>>
        /\ p_summary' = Page!LoadingOf("summary", p_next_id) /\ p_brightness' = Page!LoadingOf("brightness", p_next_id)
        /\ p_audio' = Page!LoadingOf("audio", p_next_id)
    BY DEF PageInv, Shared, Page!ManagementStarts, Page!profile_changed, Page!Forwarded, Page!is_closed, Page!has_pending_write
  <1>1. Of("set_brightness")' = {} /\ Of("set_audio")' = {}
    BY <1>0, NoWriteFlies DEF Of
  <1>2. Shared'
    BY SMTT(30), <1>0, LoadingOfFacts DEF Shared, Ops
  <1>3. SummaryInv'
    BY SMTT(30), <1>0, LoadingOfFacts, LoadingFacts DEF SummaryInv
  <1>4. BrightnessInv'
    BY SMTT(30), <1>0, <1>1, LoadingOfFacts, LoadingFacts
       DEF BrightnessInv, BrightnessShape, BrightnessFlight, BrightnessShown, BrightnessChosen
  <1>5. AudioInv'
    BY SMTT(30), <1>0, <1>1, LoadingOfFacts, LoadingFacts
       DEF AudioInv, AudioShape, AudioFlight, AudioShown, AudioChosen
  <1> QED
    BY <1>2, <1>3, <1>4, <1>5 DEF PageInv

\* The setup opens, or another TV becomes the configured one.
LEMMA SetupKeeps == ASSUME PageInv, Page!SetupOpens \/ Page!SwitchTv, UNCHANGED p_watched PROVE PageInv'
  <1>0. /\ UNCHANGED <<p_summary, p_brightness, p_audio, p_next_id, p_flying, p_tv, p_asked, p_doubt>>
        /\ p_change' # "none" /\ (p_change' = "management" <=> p_change = "management")
        /\ p_summary.st = "closed" \/ (p_brightness.st # "applying" /\ p_audio.st # "applying")
        /\ p_profile' \in Page!Tvs
    BY DEF PageInv, Shared, Page!SetupOpens, Page!SwitchTv, Page!Forwarded, Page!is_closed, Page!has_pending_write,
           BrightnessInv, BrightnessFlight, AudioInv, AudioFlight, Page!Tvs
  <1>1. /\ Of("summary")' = Of("summary")
        /\ Of("brightness")' = Of("brightness") /\ Of("set_brightness")' = Of("set_brightness")
        /\ Of("audio")' = Of("audio") /\ Of("set_audio")' = Of("set_audio")
    BY <1>0 DEF Of
  <1>2. Shared' /\ SummaryInv'
    BY <1>0, <1>1 DEF PageInv, Shared, SummaryInv
  <1>3. BrightnessInv'
    BY SMTT(30), <1>0, <1>1 DEF PageInv, Shared, BrightnessInv, BrightnessShape, BrightnessFlight, BrightnessShown,
                      BrightnessChosen
  <1>4. AudioInv'
    <2>1. AudioShape'
      BY <1>0 DEF PageInv, AudioInv, AudioShape
    <2>2. AudioFlight'
      BY <1>0, <1>1 DEF PageInv, Shared, AudioInv, AudioFlight
    <2>3. AudioShown' /\ AudioChosen'
      BY <1>0 DEF AudioShown, AudioChosen
    <2> QED
      BY <2>1, <2>2, <2>3 DEF AudioInv
  <1> QED
    BY <1>2, <1>3, <1>4 DEF PageInv

\* The change of the profile is over: every control that is watched is read again under a new
\* id.
LEMMA ChangeEndsKeeps == ASSUME PageInv, Page!ChangeEnds, UNCHANGED p_watched PROVE PageInv'
  <1>0. /\ Shared /\ p_change # "none" /\ p_change' = "none" /\ p_next_id \in Nat /\ p_next_id' = p_next_id + 1
        /\ p_brightness.st \notin {"closed", "applying"} /\ p_audio.st \notin {"closed", "applying"}
        /\ p_flying' = p_flying \cup Page!Reads(p_next_id) /\ UNCHANGED <<p_tv, p_profile>>
        /\ p_asked' = [brightness |-> Page!None, audio |-> Page!None]
        /\ p_summary' = Page!LoadingOf("summary", p_next_id) /\ p_brightness' = Page!LoadingOf("brightness", p_next_id)
        /\ p_audio' = Page!LoadingOf("audio", p_next_id)
    BY DEF PageInv, Shared, Page!ChangeEnds, Page!profile_changed, Page!is_closed, BrightnessInv, BrightnessFlight,
           AudioInv, AudioFlight
  <1>1. \A what \in p_watched : \E op \in p_flying' : op.what = what /\ op.id = p_next_id
    BY SMTT(30), <1>0, SeenIsTyped, ReadsTyped DEF Shared
  <1>2. \A op \in p_flying' : \/ op \in p_flying
                              \/ /\ op \in Ops /\ op.what \in p_watched /\ op.id = p_next_id
                                 /\ op.result = "none"
    BY <1>0, SeenIsTyped, ReadsTyped DEF Shared
  <1>3. \A op \in p_flying' : op \in Ops /\ op.id < p_next_id' /\ (op.result # "ok" \/ op.id < p_next_id)
    BY SMTT(30), <1>0, <1>2 DEF Shared, Ops
  <1>4. Of("set_brightness")' = {} /\ Of("set_audio")' = {}
    BY <1>0, <1>2, NoWriteFlies DEF Of, Shared
  <1>5. \A what \in p_watched : \E op \in p_flying' : op.what = what /\ op.id = p_next_id
    BY <1>1
  <1>6. Shared'
    BY SMTT(30), <1>0, <1>3, LoadingOfFacts DEF Shared, Options, Page!None
  <1>7. SummaryInv'
    BY SMTT(30), <1>0, <1>3, <1>5, LoadingOfFacts, LoadingFacts DEF SummaryInv, Of
  <1>8. BrightnessInv'
    <2>1. CASE p_brightness'.st = "loading"
      <3>1. PICK read \in Of("brightness")' : read.id = p_next_id
        BY SMTT(30), <1>0, <1>5, <2>1, LoadingOfFacts DEF Of
      <3> QED
        BY <1>0, <1>3, <1>4, <2>1, <3>1, LoadingOfFacts, BrightnessLoads DEF Of
    <2>2. CASE p_brightness'.st = "read_failed"
      BY <1>0, <1>4, <2>2, LoadingFacts
         DEF BrightnessInv, BrightnessShape, BrightnessFlight, BrightnessShown, BrightnessChosen
    <2> QED
      BY <1>0, <2>1, <2>2, LoadingOfFacts
  <1>9. AudioInv'
    <2>1. CASE p_audio'.st = "loading"
      <3>1. PICK read \in Of("audio")' : read.id = p_next_id
        BY SMTT(30), <1>0, <1>5, <2>1, LoadingOfFacts DEF Of
      <3> QED
        BY <1>0, <1>3, <1>4, <2>1, <3>1, LoadingOfFacts, AudioLoads DEF Of
    <2>2. CASE p_audio'.st = "read_failed"
      BY <1>0, <1>4, <2>2, LoadingFacts
         DEF AudioInv, AudioShape, AudioFlight, AudioShown, AudioChosen, Page!None
    <2> QED
      BY <1>0, <2>1, <2>2, LoadingOfFacts
  <1> QED
    BY <1>6, <1>7, <1>8, <1>9 DEF PageInv

\* Nothing is said of a page that has closed.
LEMMA ClosedIsQuiet ==
  /\ p_brightness'.st = "closed" => BrightnessInv'
  /\ p_audio'.st = "closed" => AudioInv'
  /\ p_summary'.st = "closed" => SummaryInv'
  BY LoadingFacts
     DEF SummaryInv, BrightnessInv, BrightnessShape, BrightnessFlight, BrightnessShown,
         BrightnessChosen, AudioInv, AudioShape, AudioFlight, AudioShown, AudioChosen

\* The window closes: no operation that is still on its way is waited for.
LEMMA ShutdownKeeps == ASSUME PageInv, Page!shutdown, UNCHANGED p_watched PROVE PageInv'
  <1>1. /\ p_summary'.st = "closed" /\ p_brightness'.st = "closed" /\ p_audio'.st = "closed"
        /\ UNCHANGED <<p_next_id, p_flying, p_tv, p_profile, p_asked>>
    BY DEF Page!shutdown, Page!Closed
  <1>2. Shared'
    BY <1>1 DEF PageInv, Shared
  <1> QED
    BY <1>1, <1>2, ClosedIsQuiet DEF PageInv

-----------------------------------------------------------------------------
(* The threads.                                                            *)

\* A thread reports: the operation with its result stands for the operation.
LEMMA ReportsFacts ==
  ASSUME Shared, NEW op \in p_flying, NEW result \in Ops, Page!Reports(op, result),
         result.what = op.what, result.id = op.id
  PROVE  /\ p_flying' \subseteq Ops /\ (\A o \in p_flying' : o.id < p_next_id)
         /\ \A x : x # op.what => Of(x)' = Of(x)
         /\ Of(op.what)' = (Of(op.what) \ {op}) \cup {result}
         /\ op \in Of(op.what)
  BY SMTT(30) DEF Page!Reports, Shared, Of

\* A reading thread sees the TV.
LEMMA ReadTvKeeps ==
  ASSUME PageInv, NEW op \in p_flying, op.what \in {"summary", "brightness", "audio"}, Page!ReadTv(op),
         UNCHANGED <<p_watched, p_summary, p_brightness, p_audio, p_next_id, p_profile, p_change, p_changes, p_asked>>
  PROVE  PageInv'
  <1>0. Shared /\ op \in Ops /\ UNCHANGED <<p_tv, p_doubt>> /\ p_tv[p_profile] \in TvRecords
        /\ p_tv[p_profile].name = p_profile
    BY DEF PageInv, Shared, Page!ReadTv
  <1>1. PICK result \in Ops :
          /\ Page!Reports(op, result) /\ result.what = op.what /\ result.id = op.id
          /\ result.result = "ok" =>
                 /\ result.seen.name = p_profile
                 /\ result.seen.brightness = p_tv[p_profile].brightness
                 /\ Has(result.seen.volume, result.seen.muted)
    <2>1. CASE Page!Reports(op, [op EXCEPT !.result = "error"])
      <3> DEFINE r == [op EXCEPT !.result = "error"]
      <3>1. r \in Ops /\ r.what = op.what /\ r.id = op.id /\ r.result = "error"
        BY <1>0 DEF Ops
      <3> QED
        BY <2>1, <3>1
    <2>2. ASSUME NEW volume \in {p_tv[p_profile].volume, Page!None},
                 Page!Reports(op, [op EXCEPT !.result = "ok", !.seen = [p_tv[p_profile] EXCEPT !.volume = volume]])
          PROVE  \E result \in Ops :
                    /\ Page!Reports(op, result) /\ result.what = op.what /\ result.id = op.id
                    /\ result.result = "ok" =>
                           /\ result.seen.name = p_profile
                           /\ result.seen.brightness = p_tv[p_profile].brightness
                           /\ Has(result.seen.volume, result.seen.muted)
      <3> DEFINE seen == [p_tv[p_profile] EXCEPT !.volume = volume]
                 r == [op EXCEPT !.result = "ok", !.seen = seen]
      <3>1. /\ seen \in SeenRecords /\ seen.name = p_tv[p_profile].name
            /\ seen.brightness = p_tv[p_profile].brightness /\ seen.volume = volume
            /\ seen.muted = p_tv[p_profile].muted
        BY <1>0 DEF TvRecords, SeenRecords, Options
      <3> HIDE DEF seen
      <3>2. r \in Ops /\ r.what = op.what /\ r.id = op.id /\ r.seen = seen
        BY <1>0, <3>1 DEF Ops
      <3>3. Page!Reports(op, r)
        BY <2>2 DEF seen
      <3> HIDE DEF r
      <3>4. Has(seen.volume, seen.muted)
        BY <3>1 DEF Has, Page!None
      <3> QED
        BY <1>0, <3>1, <3>2, <3>3, <3>4
    <2> QED
      BY <2>1, <2>2 DEF Page!ReadTv
  <1>2. /\ p_flying' \subseteq Ops /\ (\A o \in p_flying' : o.id < p_next_id)
        /\ \A x : x # op.what => Of(x)' = Of(x)
        /\ Of(op.what)' = (Of(op.what) \ {op}) \cup {result}
        /\ op \in Of(op.what)
    BY <1>0, <1>1, ReportsFacts
  <1>3. Shared'
    BY <1>0, <1>2 DEF Shared
  <1>4. SummaryInv'
    <2>1. CASE op.what = "summary"
      BY <1>1, <1>2, <2>1 DEF PageInv, SummaryInv
    <2>2. CASE op.what # "summary"
      BY SMTT(30), <1>0, <1>2, <2>2, SummaryFrame DEF PageInv, Shared
    <2> QED
      BY <2>1, <2>2
  <1>5. BrightnessInv'
    <2>1. CASE op.what = "brightness"
      <3>0. /\ Of("set_brightness")' = Of("set_brightness")
            /\ Of("brightness")' = (Of("brightness") \ {op}) \cup {result}
        BY <1>2, <2>1
      <3>1. BrightnessShape' /\ BrightnessChosen'
        BY DEF PageInv, BrightnessInv, BrightnessShape, BrightnessChosen, Page!Proposed
      <3>2. BrightnessFlight'
        BY <1>1, <3>0 DEF PageInv, BrightnessInv, BrightnessFlight
      <3>3. BrightnessShown'
        BY <1>0, <1>1, <3>0 DEF PageInv, BrightnessInv, BrightnessShown
      <3> QED
        BY <3>1, <3>2, <3>3 DEF BrightnessInv
    <2>2. CASE op.what # "brightness"
      BY SMTT(30), <1>0, <1>2, <2>2, BrightnessFrame DEF PageInv, Shared
    <2> QED
      BY <2>1, <2>2
  <1>6. AudioInv'
    <2>1. CASE op.what = "audio"
      <3>0. /\ Of("set_audio")' = Of("set_audio")
            /\ Of("audio")' = (Of("audio") \ {op}) \cup {result}
        BY <1>2, <2>1
      <3>1. AudioShape' /\ AudioChosen'
        BY DEF PageInv, AudioInv, AudioShape, AudioChosen, Comes
      <3>2. AudioFlight'
        BY <1>1, <3>0 DEF PageInv, AudioInv, AudioFlight
      <3>3. AudioShown'
        BY <1>0, <1>1, <3>0 DEF PageInv, AudioInv, AudioShown, Has
      <3> QED
        BY <3>1, <3>2, <3>3 DEF AudioInv
    <2>2. CASE op.what # "audio"
      BY SMTT(30), <1>0, <1>2, <2>2, AudioFrame DEF PageInv, Shared
    <2> QED
      BY <2>1, <2>2
  <1> QED
    BY <1>3, <1>4, <1>5, <1>6 DEF PageInv

\* A field of the TV is written.
LEMMA TvBrightness ==
  ASSUME Shared, NEW v \in Heights, p_tv' = [p_tv EXCEPT ![p_profile].brightness = v]
  PROVE  /\ p_tv' \in [Page!Tvs -> TvRecords] /\ \A t \in Page!Tvs : p_tv'[t].name = t
         /\ p_tv'[p_profile].brightness = v
         /\ p_tv'[p_profile].volume = p_tv[p_profile].volume /\ p_tv'[p_profile].muted = p_tv[p_profile].muted
  <1> DEFINE new == [p_tv[p_profile] EXCEPT !.brightness = v]
  <1>1. p_tv \in [Page!Tvs -> TvRecords] /\ p_profile \in Page!Tvs /\ p_tv[p_profile] \in TvRecords
    BY DEF Shared
  <1>2. /\ new \in TvRecords /\ new.name = p_tv[p_profile].name /\ new.brightness = v
        /\ new.volume = p_tv[p_profile].volume /\ new.muted = p_tv[p_profile].muted
    BY <1>1 DEF TvRecords
  <1>3. p_tv' = [p_tv EXCEPT ![p_profile] = new]
    OBVIOUS
  <1> HIDE DEF new
  <1> QED
    BY SMTT(30), <1>1, <1>2, <1>3 DEF Shared

\* What a write of the audio leaves of the TV.
LEMMA TvAudio ==
  ASSUME Shared, NEW volume \in {Page!Some(v) : v \in Heights}, NEW muted \in BOOLEAN,
         \/ p_tv' = [p_tv EXCEPT ![p_profile].volume = volume, ![p_profile].muted = muted]
         \/ p_tv' = [p_tv EXCEPT ![p_profile].volume = volume] /\ muted = p_tv[p_profile].muted
  PROVE  /\ p_tv' \in [Page!Tvs -> TvRecords] /\ \A t \in Page!Tvs : p_tv'[t].name = t
         /\ p_tv'[p_profile].brightness = p_tv[p_profile].brightness
         /\ p_tv'[p_profile].volume = volume /\ p_tv'[p_profile].muted = muted
  <1>1. p_tv \in [Page!Tvs -> TvRecords] /\ p_profile \in Page!Tvs /\ p_tv[p_profile] \in TvRecords
    BY DEF Shared
  <1>2. PICK new : /\ new \in TvRecords /\ new.name = p_tv[p_profile].name
                   /\ new.brightness = p_tv[p_profile].brightness
                   /\ new.volume = volume /\ new.muted = muted
                   /\ p_tv' = [p_tv EXCEPT ![p_profile] = new]
    <2>1. CASE p_tv' = [p_tv EXCEPT ![p_profile].volume = volume] /\ muted = p_tv[p_profile].muted
      <3> DEFINE new == [p_tv[p_profile] EXCEPT !.volume = volume]
      <3>1. /\ new \in TvRecords /\ new.name = p_tv[p_profile].name
            /\ new.brightness = p_tv[p_profile].brightness
            /\ new.volume = volume /\ new.muted = muted
        BY <1>1, <2>1 DEF TvRecords
      <3>2. p_tv' = [p_tv EXCEPT ![p_profile] = new]
        BY <2>1
      <3> QED
        BY <3>1, <3>2
    <2>2. CASE p_tv' = [p_tv EXCEPT ![p_profile].volume = volume, ![p_profile].muted = muted]
      <3> DEFINE half == [p_tv[p_profile] EXCEPT !.volume = volume]
                 new == [half EXCEPT !.muted = muted]
      <3>1. /\ half \in TvRecords /\ half.name = p_tv[p_profile].name
            /\ half.brightness = p_tv[p_profile].brightness /\ half.volume = volume
        BY <1>1 DEF TvRecords
      <3>2. p_tv' = [[p_tv EXCEPT ![p_profile] = half] EXCEPT ![p_profile] =
                          [[p_tv EXCEPT ![p_profile] = half][p_profile] EXCEPT !.muted = muted]]
        BY <2>2
      <3>3. [p_tv EXCEPT ![p_profile] = half][p_profile] = half
        BY <1>1
      <3>4. p_tv' = [[p_tv EXCEPT ![p_profile] = half] EXCEPT ![p_profile] = new]
        BY <3>2, <3>3
      <3> HIDE DEF half
      <3>5. /\ new \in TvRecords /\ new.name = half.name /\ new.brightness = half.brightness
            /\ new.volume = half.volume /\ new.muted = muted
        BY <3>1 DEF TvRecords
      <3> HIDE DEF new
      <3>6. p_tv' = [p_tv EXCEPT ![p_profile] = new]
        BY <1>1, <3>4
      <3> QED
        BY <3>1, <3>5, <3>6
    <2> QED
      BY <2>1, <2>2
  <1> QED
    BY <1>1, <1>2 DEF Shared

\* The thread that writes the brightness runs: it is done, it failed, or nobody knows.
LEMMA WriteBrightnessRuns ==
  ASSUME PageInv, NEW op \in p_flying, op.what = "set_brightness", op.result = "none", Page!WriteBrightness(op),
         UNCHANGED <<p_watched, p_summary, p_brightness, p_audio, p_next_id, p_profile, p_change, p_changes, p_asked>>
  PROVE  PageInv'
  <1>0. Shared /\ op \in Ops /\ op.level \in Options /\ op.level # Page!None
    BY DEF PageInv, Shared, Ops
  <1>1. PICK v \in Heights : op.level = Page!Some(v)
    BY <1>0, OptionsAre
  <1>2. PICK result \in {"ok", "error"}, carried \in BOOLEAN :
          /\ result = "ok" => carried
          /\ Page!Reports(op, [op EXCEPT !.result = result])
          /\ p_tv' = IF carried THEN [p_tv EXCEPT ![p_profile].brightness = v] ELSE p_tv
          /\ p_doubt' = IF result = "ok" THEN p_doubt \ {"brightness"}
                        ELSE IF carried THEN p_doubt \cup {"brightness"} ELSE p_doubt
    BY <1>1, TheSome DEF Page!WriteBrightness
  <1> DEFINE r == [op EXCEPT !.result = result]
  <1>3. /\ r \in Ops /\ r.what = op.what /\ r.id = op.id /\ r.level = op.level /\ r.result = result
    BY <1>0 DEF Ops
  <1>4. Page!Reports(op, r)
    BY <1>2
  <1> HIDE DEF r
  <1>5. /\ p_flying' \subseteq Ops /\ (\A o \in p_flying' : o.id < p_next_id)
        /\ \A x : x # "set_brightness" => Of(x)' = Of(x)
        /\ Of("set_brightness")' = (Of("set_brightness") \ {op}) \cup {r}
        /\ op \in Of("set_brightness")
    BY <1>0, <1>3, <1>4, ReportsFacts
  <1>6. /\ p_tv' \in [Page!Tvs -> TvRecords] /\ (\A t \in Page!Tvs : p_tv'[t].name = t)
        /\ p_tv'[p_profile].brightness = IF carried THEN v ELSE p_tv[p_profile].brightness
        /\ p_tv'[p_profile].volume = p_tv[p_profile].volume /\ p_tv'[p_profile].muted = p_tv[p_profile].muted
    <2>1. CASE carried
      BY <1>0, <1>2, <2>1, TvBrightness
    <2>2. CASE ~carried
      BY <1>0, <1>2, <2>2 DEF Shared
    <2> QED
      BY <2>1, <2>2
  <1>7. Shared'
    BY <1>0, <1>5, <1>6 DEF Shared
  <1>8. "audio" \in p_doubt' <=> "audio" \in p_doubt
    BY <1>2
  <1>9. SummaryInv' /\ AudioInv'
    BY SMTT(30), <1>0, <1>5, <1>6, <1>8, SummaryFrame, AudioFrame DEF PageInv, Shared
  <1>10. BrightnessInv'
    <2>1. CASE p_brightness.st = "closed"
      BY <2>1, ClosedIsQuiet
    <2>2. CASE p_brightness.st # "closed"
      <3>1. /\ p_brightness.st = "applying" /\ op.id = p_brightness.id /\ op.level = Page!Some(p_brightness.level)
            /\ Of("set_brightness") = {op} /\ p_change = "none"
        BY <1>5, <2>2 DEF PageInv, BrightnessInv, BrightnessFlight
      <3>2. v = p_brightness.level
        BY <1>1, <3>1 DEF Page!Some
      <3>3. Of("set_brightness")' = {r} /\ Of("brightness")' = Of("brightness")
        BY <1>5, <3>1
      <3>4. BrightnessShape' /\ BrightnessChosen'
        BY DEF PageInv, BrightnessInv, BrightnessShape, BrightnessChosen, Page!Proposed
      <3>5. BrightnessFlight'
        BY <1>3, <3>1, <3>3 DEF BrightnessFlight
      <3>6. "brightness" \notin p_doubt => p_tv[p_profile].brightness = p_brightness.current
        BY <3>1 DEF PageInv, BrightnessInv, BrightnessShown
      <3>7. BrightnessShown'
        BY <1>2, <1>3, <1>6, <3>1, <3>2, <3>3, <3>6, LoadingFacts DEF BrightnessShown
      <3> QED
        BY <3>4, <3>5, <3>7 DEF BrightnessInv
    <2> QED
      BY <2>1, <2>2
  <1> QED
    BY <1>7, <1>9, <1>10 DEF PageInv

\* An audio write has reported: what it says of the TV is so.
LEMMA AudioReported ==
  ASSUME PageInv, NEW op \in p_flying, op.what = "set_audio", op.result = "none",
         NEW r \in Ops, Page!Reports(op, r), r.what = op.what, r.id = op.id, r.level = op.level,
         r.muted = op.muted, r.result \in {"ok", "error"}, r.applied \in {op.applied, op.level},
         p_tv' \in [Page!Tvs -> TvRecords], \A t \in Page!Tvs : p_tv'[t].name = t,
         p_tv'[p_profile].brightness = p_tv[p_profile].brightness,
         "brightness" \in p_doubt' <=> "brightness" \in p_doubt,
         p_audio.st = "applying" /\ p_change = "none" /\ "audio" \notin p_doubt' =>
             IF r.result = "ok" THEN Has(Page!OrElse(op.level, p_audio.current), op.muted)'
             ELSE Has(Page!OrElse(r.applied, p_audio.current), p_audio.muted)',
         UNCHANGED <<p_watched, p_summary, p_brightness, p_audio, p_next_id, p_profile, p_change, p_changes, p_asked>>
  PROVE  PageInv'
  <1>0. Shared
    BY DEF PageInv
  <1>1. /\ p_flying' \subseteq Ops /\ (\A o \in p_flying' : o.id < p_next_id)
        /\ \A x : x # "set_audio" => Of(x)' = Of(x)
        /\ Of("set_audio")' = (Of("set_audio") \ {op}) \cup {r}
        /\ op \in Of("set_audio")
    BY <1>0, ReportsFacts
  <1>2. Shared'
    BY <1>0, <1>1 DEF Shared
  <1>3. SummaryInv' /\ BrightnessInv'
    BY SMTT(30), <1>0, <1>1, SummaryFrame, BrightnessFrame DEF PageInv, Shared
  <1>4. AudioInv'
    <2>1. CASE p_audio.st = "closed"
      BY <2>1, ClosedIsQuiet
    <2>2. CASE p_audio.st # "closed"
      <3>1. /\ p_audio.st = "applying" /\ op.id = p_audio.id /\ op.level = p_audio.operation.level
            /\ op.muted = p_audio.operation.muted /\ op.applied = Page!None
            /\ Of("set_audio") = {op} /\ p_change = "none"
        BY <1>1, <2>2 DEF PageInv, AudioInv, AudioFlight
      <3>2. Of("set_audio")' = {r} /\ Of("audio")' = Of("audio")
        BY <1>1, <3>1
      <3>3. AudioShape' /\ AudioChosen'
        BY DEF PageInv, AudioInv, AudioShape, AudioChosen, Comes
      <3>4. AudioFlight'
        BY <3>1, <3>2 DEF AudioFlight
      <3>5. AudioShown'
        BY <3>1, <3>2, LoadingFacts DEF AudioShown
      <3> QED
        BY <3>3, <3>4, <3>5 DEF AudioInv
    <2> QED
      BY <2>1, <2>2
  <1> QED
    BY <1>2, <1>3, <1>4 DEF PageInv

\* The thread that writes the volume and then the mute runs: it may fail in between.
LEMMA WriteAudioRuns ==
  ASSUME PageInv, NEW op \in p_flying, op.what = "set_audio", op.result = "none", Page!apply_audio_operation(op),
         UNCHANGED <<p_watched, p_summary, p_brightness, p_audio, p_next_id, p_profile, p_change, p_changes, p_asked>>
  PROVE  PageInv'
  <1> DEFINE Volumes == {Page!Some(v) : v \in Heights}
             volume == Page!OrElse(op.level, p_tv[p_profile].volume)
  <1>0. /\ Shared /\ op \in Ops /\ op.level \in Options /\ op.muted \in BOOLEAN
        /\ p_tv[p_profile].volume \in Volumes /\ p_tv[p_profile].muted \in BOOLEAN
    BY DEF PageInv, Shared, Ops, TvRecords
  <1>1. volume \in Volumes /\ (op.level # Page!None => op.level \in Volumes)
    BY <1>0 DEF Page!OrElse, Options
  <1>2. p_audio.st = "applying" /\ p_change = "none" =>
            /\ op.applied = Page!None
            /\ "audio" \notin p_doubt => Has(p_audio.current, p_audio.muted)
    <2>1. op \in Of("set_audio")
      BY DEF Of
    <2> QED
      BY <2>1 DEF PageInv, AudioInv, AudioFlight, AudioShown
  <1>3. CASE /\ Page!Reports(op, [op EXCEPT !.result = "ok"])
             /\ p_tv' = [p_tv EXCEPT ![p_profile].volume = Page!OrElse(op.level, @), ![p_profile].muted = op.muted]
             /\ p_doubt' = IF op.level # Page!None THEN p_doubt \ {"audio"} ELSE p_doubt
    <2> DEFINE r == [op EXCEPT !.result = "ok"]
    <2>1. /\ r \in Ops /\ r.what = op.what /\ r.id = op.id /\ r.level = op.level /\ r.muted = op.muted
          /\ r.result = "ok" /\ r.applied = op.applied
      BY <1>0 DEF Ops
    <2>2. Page!Reports(op, r)
      BY <1>3
    <2> HIDE DEF r
    <2>3. p_tv' = [p_tv EXCEPT ![p_profile].volume = volume, ![p_profile].muted = op.muted]
      BY <1>3
    <2>4. "brightness" \in p_doubt' <=> "brightness" \in p_doubt
      BY <1>3
    <2> HIDE DEF volume, Volumes
    <2>5. /\ p_tv' \in [Page!Tvs -> TvRecords] /\ \A t \in Page!Tvs : p_tv'[t].name = t
          /\ p_tv'[p_profile].brightness = p_tv[p_profile].brightness
          /\ p_tv'[p_profile].volume = volume /\ p_tv'[p_profile].muted = op.muted
      BY <1>0, <1>1, <2>3, TvAudio DEF Volumes
    <2>6. p_audio.st = "applying" /\ p_change = "none" /\ "audio" \notin p_doubt' =>
              Has(Page!OrElse(op.level, p_audio.current), op.muted)'
      BY <1>2, <1>3, <2>5 DEF Has, Page!OrElse, volume
    <2> QED
      BY <2>1, <2>2, <2>4, <2>5, <2>6, AudioReported
  <1>4. ASSUME NEW carried \in BOOLEAN, op.level # Page!None,
               Page!Reports(op, [op EXCEPT !.result = "error"]),
               p_tv' = IF carried THEN [p_tv EXCEPT ![p_profile].volume = op.level] ELSE p_tv,
               p_doubt' = IF carried THEN p_doubt \cup {"audio"} ELSE p_doubt
        PROVE  PageInv'
    <2> DEFINE r == [op EXCEPT !.result = "error"]
    <2>1. /\ r \in Ops /\ r.what = op.what /\ r.id = op.id /\ r.level = op.level /\ r.muted = op.muted
          /\ r.result = "error" /\ r.applied = op.applied
      BY <1>0 DEF Ops
    <2>2. Page!Reports(op, r)
      BY <1>4
    <2> HIDE DEF r
    <2>4. "brightness" \in p_doubt' <=> "brightness" \in p_doubt
      BY <1>4
    <2> HIDE DEF volume, Volumes
    <2>5. /\ p_tv' \in [Page!Tvs -> TvRecords] /\ \A t \in Page!Tvs : p_tv'[t].name = t
          /\ p_tv'[p_profile].brightness = p_tv[p_profile].brightness
      <3>1. CASE carried
        BY <1>0, <1>1, <1>4, <3>1, TvAudio DEF Volumes
      <3>2. CASE ~carried
        BY <1>0, <1>4, <3>2 DEF Shared
      <3> QED
        BY <3>1, <3>2
    <2>6. p_audio.st = "applying" /\ p_change = "none" /\ "audio" \notin p_doubt' =>
              Has(Page!OrElse(r.applied, p_audio.current), p_audio.muted)'
      BY <1>2, <1>4, <2>1 DEF Has, Page!OrElse
    <2> QED
      BY <2>1, <2>2, <2>4, <2>5, <2>6, AudioReported
  <1>5. ASSUME NEW carried \in BOOLEAN,
               Page!Reports(op, [op EXCEPT !.result = "error", !.applied = op.level]),
               p_tv' = [p_tv EXCEPT ![p_profile].volume = Page!OrElse(op.level, @),
                                    ![p_profile].muted = IF carried THEN op.muted ELSE @],
               p_doubt' = IF carried THEN p_doubt \cup {"audio"} ELSE p_doubt
        PROVE  PageInv'
    <2> DEFINE r == [op EXCEPT !.result = "error", !.applied = op.level]
               muted == IF carried THEN op.muted ELSE p_tv[p_profile].muted
    <2>1. /\ r \in Ops /\ r.what = op.what /\ r.id = op.id /\ r.level = op.level /\ r.muted = op.muted
          /\ r.result = "error" /\ r.applied = op.level
      BY <1>0 DEF Ops
    <2>2. Page!Reports(op, r)
      BY <1>5
    <2> HIDE DEF r
    <2>3. p_tv' = [p_tv EXCEPT ![p_profile].volume = volume, ![p_profile].muted = muted] /\ muted \in BOOLEAN
      <3>1. [p_tv[p_profile] EXCEPT !.volume = volume].muted = p_tv[p_profile].muted
        BY SMTT(30), <1>0 DEF Shared, TvRecords
      <3>2. [p_tv EXCEPT ![p_profile] = [p_tv[p_profile] EXCEPT !.volume = volume]][p_profile]
              = [p_tv[p_profile] EXCEPT !.volume = volume]
        BY <1>0 DEF Shared
      <3> QED
        BY <1>0, <1>5, <3>1, <3>2
    <2>4. "brightness" \in p_doubt' <=> "brightness" \in p_doubt
      BY <1>5
    <2> HIDE DEF volume, Volumes, muted
    <2>5. /\ p_tv' \in [Page!Tvs -> TvRecords] /\ \A t \in Page!Tvs : p_tv'[t].name = t
          /\ p_tv'[p_profile].brightness = p_tv[p_profile].brightness
          /\ p_tv'[p_profile].volume = volume /\ p_tv'[p_profile].muted = muted
      BY <1>0, <1>1, <2>3, TvAudio DEF Volumes
    <2>6. p_audio.st = "applying" /\ p_change = "none" /\ "audio" \notin p_doubt' =>
              Has(Page!OrElse(r.applied, p_audio.current), p_audio.muted)'
      BY <1>2, <1>5, <2>1, <2>5 DEF Has, Page!OrElse, volume, muted
    <2> QED
      BY <2>1, <2>2, <2>4, <2>5, <2>6, AudioReported
  <1> HIDE DEF volume, Volumes
  <1> QED
    BY <1>3, <1>4, <1>5 DEF Page!apply_audio_operation

\* The thread of an operation runs.
LEMMA RunKeeps == ASSUME PageInv, NEW op \in p_flying, Page!Run(op), UNCHANGED p_watched PROVE PageInv'
  BY ReadTvKeeps, WriteBrightnessRuns, WriteAudioRuns DEF Page!Run

-----------------------------------------------------------------------------
(* The page hears how an operation ended.                                  *)

\* An operation that has reported is gone, and the others are not.
LEMMA GoneFacts ==
  ASSUME NEW op \in p_flying, p_flying' = p_flying \ {op}
  PROVE  /\ \A x : x # op.what => Of(x)' = Of(x)
         /\ Of(op.what)' = Of(op.what) \ {op}
         /\ op \in Of(op.what)
  BY DEF Of

\* The summary reports.
LEMMA SummaryCompletes ==
  ASSUME PageInv, NEW op \in p_flying, op.what = "summary", op.result # "none", Page!complete_summary(op),
         UNCHANGED <<p_watched, p_tv, p_profile, p_change, p_changes, p_asked, p_doubt>>
  PROVE  PageInv'
  <1>0. Shared /\ op \in Ops /\ op.id \in Nat /\ op.result \in {"ok", "error"}
    BY DEF PageInv, Shared, Ops
  <1>1. /\ p_flying' = p_flying \ {op} /\ UNCHANGED <<p_brightness, p_audio, p_next_id>>
    BY DEF Page!complete_summary
  <1>2. /\ \A x : x # "summary" => Of(x)' = Of(x)
        /\ Of("summary")' = Of("summary") \ {op} /\ op \in Of("summary")
    BY <1>1, GoneFacts
  <1>3. SummaryInv' /\ (p_summary'.st = "closed" <=> p_summary.st = "closed")
    <2>1. CASE p_summary # Page!Loading(op.id)
      BY <1>0, <1>1, <1>2, <2>1 DEF PageInv, SummaryInv, Page!complete_summary
    <2>2. CASE p_summary = Page!Loading(op.id) /\ op.result = "ok"
      <3>1. p_summary' = [st |-> "ready", name |-> op.seen.name] /\ p_summary.st = "loading"
        BY <2>2, LoadingFacts DEF Page!complete_summary
      <3>2. p_summary'.st = "ready" /\ p_summary'.name = op.seen.name
        BY <3>1
      <3>3. p_change = "none" => op.seen.name = p_profile
        BY <1>2, <2>2 DEF PageInv, SummaryInv
      <3> QED
        BY <1>1, <3>1, <3>2, <3>3, LoadingFacts DEF SummaryInv
    <2>3. CASE p_summary = Page!Loading(op.id) /\ op.result = "error"
      <3>1. p_summary' = Page!ReadFailed /\ p_summary.st = "loading"
        BY <2>3, LoadingFacts DEF Page!complete_summary
      <3>2. p_summary'.st = "read_failed"
        BY <3>1 DEF Page!ReadFailed
      <3> QED
        BY <1>1, <3>1, <3>2, LoadingFacts DEF SummaryInv
    <2> QED
      BY <1>0, <2>1, <2>2, <2>3
  <1>4. BrightnessInv' /\ AudioInv'
    BY SMTT(30), <1>0, <1>1, <1>2, BrightnessFrame, AudioFrame DEF PageInv, Shared
  <1>5. Shared'
    BY <1>0, <1>1, <1>3 DEF Shared
  <1> QED
    BY <1>3, <1>4, <1>5 DEF PageInv

\* A read of the brightness ends: only the one that the control waits for says something.
LEMMA BrightnessReadCompletes ==
  ASSUME PageInv, NEW op \in p_flying, op.what = "brightness", op.result # "none",
         Page!complete_brightness_read(op),
         UNCHANGED <<p_watched, p_tv, p_profile, p_change, p_changes, p_asked, p_doubt>>
  PROVE  PageInv'
  <1>0. Shared /\ op \in Ops /\ op.id \in Nat /\ op.result \in {"ok", "error"}
        /\ op.seen.brightness \in Heights /\ p_next_id \in Nat
    BY DEF PageInv, Shared, Ops, SeenRecords
  <1>1. /\ p_flying' = p_flying \ {op} /\ UNCHANGED <<p_summary, p_audio, p_next_id>>
    BY DEF Page!complete_brightness_read
  <1>2. /\ \A x : x # "brightness" => Of(x)' = Of(x)
        /\ Of("brightness")' = Of("brightness") \ {op} /\ op \in Of("brightness")
    BY <1>1, GoneFacts
  <1>3. BrightnessInv' /\ (p_brightness'.st = "closed" <=> p_brightness.st = "closed")
    <2>1. CASE p_brightness # Page!Loading(op.id)
      <3>0. UNCHANGED p_brightness /\ Of("set_brightness")' = Of("set_brightness")
        BY <1>2, <2>1 DEF Page!complete_brightness_read
      <3>1. BrightnessShape' /\ BrightnessChosen'
        BY <1>1, <3>0 DEF PageInv, BrightnessInv, BrightnessShape, BrightnessChosen, Page!Proposed
      <3>2. BrightnessFlight'
        BY <1>2, <2>1, <3>0 DEF PageInv, BrightnessInv, BrightnessShape, BrightnessFlight
      <3>3. BrightnessShown'
        BY <1>2, <3>0 DEF PageInv, BrightnessInv, BrightnessShown
      <3> QED
        BY <3>0, <3>1, <3>2, <3>3 DEF BrightnessInv
    <2>2. CASE p_brightness = Page!Loading(op.id)
      <3>0. /\ p_brightness.st = "loading" /\ Of("set_brightness")' = {}
            /\ p_change = "none" => p_asked.brightness = Page!None
            /\ p_change = "none" /\ op.result = "ok" => op.seen.brightness = p_tv[p_profile].brightness
        BY <1>2, <2>2, NoWriteFlies, LoadingFacts
           DEF PageInv, BrightnessInv, BrightnessShown, BrightnessChosen
      <3>1. CASE op.result = "ok"
        <4>1. p_brightness'.st = "ready" /\ p_brightness'.current = op.seen.brightness
          BY <2>2, <3>1 DEF Page!complete_brightness_read, Page!BrightnessReady
        <4> QED
          BY <1>0, <3>0, <3>1, <4>1, LoadingFacts
             DEF BrightnessInv, BrightnessShape, BrightnessFlight, BrightnessShown,
                 BrightnessChosen, Page!None
      <3>2. CASE op.result = "error"
        <4>1. p_brightness'.st = "read_failed"
          BY <2>2, <3>2 DEF Page!complete_brightness_read, Page!ReadFailed
        <4> QED
          BY <1>0, <3>0, <4>1, LoadingFacts
             DEF BrightnessInv, BrightnessShape, BrightnessFlight, BrightnessShown, BrightnessChosen
      <3> QED
        BY <1>0, <3>1, <3>2
    <2> QED
      BY <2>1, <2>2
  <1> QED
    BY SMTT(30), <1>0, <1>1, <1>3, BrightnessAlone DEF Shared

\* A read of the audio reports: one that is not waited for is dropped.
LEMMA AudioReadCompletes ==
  ASSUME PageInv, NEW op \in p_flying, op.what = "audio", op.result # "none",
         Page!complete_audio_read(op),
         UNCHANGED <<p_watched, p_tv, p_profile, p_change, p_changes, p_asked, p_doubt>>
  PROVE  PageInv'
  <1>0. Shared /\ op \in Ops /\ op.id \in Nat /\ op.result \in {"ok", "error"}
        /\ op.seen.volume \in Options /\ op.seen.muted \in BOOLEAN /\ p_next_id \in Nat
    BY DEF PageInv, Shared, Ops, SeenRecords
  <1>1. /\ p_flying' = p_flying \ {op} /\ UNCHANGED <<p_summary, p_brightness, p_next_id>>
    BY DEF Page!complete_audio_read
  <1>2. /\ \A x : x # "audio" => Of(x)' = Of(x)
        /\ Of("audio")' = Of("audio") \ {op} /\ op \in Of("audio")
    BY <1>1, GoneFacts
  <1>3. AudioInv' /\ (p_audio'.st = "closed" <=> p_audio.st = "closed")
    <2>1. CASE p_audio # Page!Loading(op.id)
      <3>0. UNCHANGED p_audio /\ Of("set_audio")' = Of("set_audio")
        BY <1>2, <2>1 DEF Page!complete_audio_read
      <3>1. AudioShape' /\ AudioChosen'
        BY <1>1, <3>0 DEF PageInv, AudioInv, AudioShape, AudioChosen, Comes
      <3>2. AudioFlight'
        BY <1>2, <2>1, <3>0 DEF PageInv, AudioInv, AudioShape, AudioFlight
      <3>3. AudioShown'
        BY <1>2, <3>0 DEF PageInv, AudioInv, AudioShown, Has
      <3> QED
        BY <3>0, <3>1, <3>2, <3>3 DEF AudioInv
    <2>2. CASE p_audio = Page!Loading(op.id)
      <3>0. /\ p_audio.st = "loading" /\ Of("set_audio")' = {}
            /\ p_change = "none" => p_asked.audio = Page!None
            /\ p_change = "none" /\ op.result = "ok" => Has(op.seen.volume, op.seen.muted)
        BY <1>2, <2>2, NoWriteFlies, LoadingFacts
           DEF PageInv, AudioInv, AudioShown, AudioChosen
      <3>1. CASE op.result = "ok"
        <4>1. p_audio'.st = "ready" /\ p_audio'.current = op.seen.volume /\ p_audio'.muted = op.seen.muted
          BY <2>2, <3>1 DEF Page!complete_audio_read, Page!AudioReady
        <4> QED
          BY <1>0, <3>0, <3>1, <4>1, LoadingFacts
             DEF AudioInv, AudioShape, AudioFlight, AudioShown, AudioChosen, Has, Page!None
      <3>2. CASE op.result = "error"
        <4>1. p_audio'.st = "read_failed"
          BY <2>2, <3>2 DEF Page!complete_audio_read, Page!ReadFailed
        <4> QED
          BY <1>0, <3>0, <4>1, LoadingFacts
             DEF AudioInv, AudioShape, AudioFlight, AudioShown, AudioChosen, Page!None
      <3> QED
        BY <1>0, <3>1, <3>2
    <2> QED
      BY <2>1, <2>2
  <1> QED
    BY SMTT(30), <1>0, <1>1, <1>3, AudioAlone DEF Shared

\* The write that the brightness control waits for ends: the next one starts, or the control
\* comes to rest, or it fails.
LEMMA BrightnessWriteCompletes ==
  ASSUME PageInv, NEW op \in p_flying, op.what = "set_brightness", op.result # "none",
         Page!Awaited(p_brightness, op), Page!complete_brightness_write(op),
         UNCHANGED <<p_watched, p_summary, p_audio, p_tv, p_profile, p_change, p_changes, p_asked, p_doubt>>
  PROVE  PageInv'
  <1> DEFINE level == p_brightness.level
             next == p_brightness.pending \ op.level
  <1>1. /\ Shared /\ op \in Ops /\ op.result \in {"ok", "error"} /\ op \in Of("set_brightness")
        /\ p_next_id \in Nat
    BY DEF PageInv, Shared, Ops, Of
  <1>2. /\ p_brightness.st = "applying" /\ p_change = "none" /\ Of("set_brightness") = {op}
        /\ op.level = Page!Some(level)
    BY <1>1 DEF Page!Awaited, PageInv, BrightnessInv, BrightnessFlight
  <1>3. /\ p_brightness \in BrightnessWrites /\ p_brightness.id < p_next_id /\ level \in Heights
        /\ p_brightness.current \in Heights /\ p_brightness.pending \in Options
    BY <1>2 DEF PageInv, BrightnessInv, BrightnessShape, BrightnessWrites
  <1>4. /\ op.result = "ok" => "brightness" \notin p_doubt /\ p_tv[p_profile].brightness = level
        /\ op.result = "error" /\ "brightness" \notin p_doubt =>
               p_tv[p_profile].brightness = p_brightness.current
    BY <1>1, <1>2 DEF PageInv, BrightnessInv, BrightnessShown
  <1>5. p_asked.brightness = Page!OrElse(p_brightness.pending, Page!Some(level))
    BY <1>2 DEF PageInv, BrightnessInv, BrightnessChosen, Page!Proposed
  <1>6. (\A o \in p_flying \ {op} : o.what # "set_brightness") /\ Page!The(op.level) = level
    BY <1>2, TheSome DEF Of
  <1>7. p_asked \in [brightness : Options, audio : SUBSET Operations]
    BY <1>1 DEF Shared
  <1>8. CASE op.result = "ok" /\ next # Page!None
    <2>1. PICK w \in Heights : p_brightness.pending = Page!Some(w)
      BY <1>3, <1>8, OptionsAre DEF Page!None
    <2>2. next = Page!Some(w) /\ Page!The(next) = w /\ p_brightness.pending # Page!None
      <3>1. next = Page!Some(w) /\ p_brightness.pending # Page!None
        BY <1>2, <1>8, <2>1 DEF Page!Some, Page!None
      <3> QED
        BY <3>1, TheSome
    <2>3. Page!BrightnessWrite(level, w, Page!None, p_flying \ {op})
      BY <1>6, <1>8, <2>2 DEF Page!complete_brightness_write
    <2>4. p_asked'.brightness = Page!OrElse(Page!None, Page!Some(w)) /\ Page!None \in Options
      BY <1>5, <2>1, <2>2 DEF Page!OrElse, Options
    <2> HIDE DEF level, next
    <2>5. \A o \in p_flying \ (p_flying \ {op}) : o.what = "set_brightness"
      OBVIOUS
    <2> QED
      BY <1>2, <1>3, <1>4, <1>6, <1>7, <1>8, <2>3, <2>4, <2>5, BrightnessWriteKeeps
  <1>9. CASE ~(op.result = "ok" /\ next # Page!None)
    <2>1. /\ p_brightness' = IF op.result = "ok" THEN Page!BrightnessReady(level)
                             ELSE [p_brightness EXCEPT !.st = "failed"]
          /\ p_flying' = p_flying \ {op} /\ UNCHANGED p_next_id
      BY <1>6, <1>9 DEF Page!complete_brightness_write
    <2>2. Of("set_brightness")' = {} /\ Of("brightness")' = Of("brightness")
      BY <1>1, <1>2, <2>1, GoneFacts
    <2>3. BrightnessInv' /\ p_brightness'.st # "closed"
      <3>1. CASE op.result = "ok"
        <4>1. p_brightness' = Page!BrightnessReady(level)
          BY <2>1, <3>1
        <4>2. p_asked.brightness \subseteq {level}
          <5>1. next = Page!None
            BY <1>9, <3>1
          <5>2. p_brightness.pending \subseteq {level}
            BY <1>2, <5>1 DEF Page!Some, Page!None
          <5> QED
            BY <1>5, <5>2 DEF Page!OrElse, Page!Some
        <4>3. p_brightness'.st = "ready"
          BY <4>1 DEF Page!BrightnessReady
        <4> HIDE DEF level, next
        <4> QED
          BY <1>1, <1>2, <1>3, <1>4, <2>2, <3>1, <4>1, <4>2, <4>3, BrightnessRests
      <3>2. CASE op.result = "error"
        <4>1. /\ p_brightness' \in BrightnessWrites /\ p_brightness'.st = "failed"
              /\ p_brightness'.current = p_brightness.current /\ p_brightness'.pending = p_brightness.pending
              /\ p_brightness'.level = p_brightness.level /\ p_brightness'.id = p_brightness.id
          BY <1>3, <2>1, <3>2 DEF BrightnessWrites
        <4>2. BrightnessShape' /\ BrightnessFlight'
          BY <1>3, <2>1, <2>2, <4>1 DEF BrightnessShape, BrightnessFlight
        <4>3. BrightnessShown'
          BY <1>4, <3>2, <4>1, LoadingFacts DEF BrightnessShown
        <4>4. BrightnessChosen'
          BY <1>5, <4>1 DEF BrightnessChosen, Page!Proposed
        <4> QED
          BY <4>1, <4>2, <4>3, <4>4 DEF BrightnessInv
      <3> QED
        BY <1>1, <3>1, <3>2
    <2> HIDE DEF level, next
    <2> QED
      BY SMTT(30), <1>1, <1>2, <1>7, <2>1, <2>3, BrightnessAlone DEF Shared
  <1> QED
    BY <1>8, <1>9

\* What the writes came to before an audio write was carried out is what they come to after it.
LEMMA ComesAfter ==
  ASSUME NEW current, NEW pending \in Pendings, NEW operation \in Operations,
         NEW wanted \in Operations, Comes(current, pending, operation, wanted)
  PROVE  LET now == Page!OrElse(operation.level, current) IN
         /\ pending.volume # Page!None =>
                Comes(now, [volume |-> Page!None, muted |-> pending.muted \ Page!Some(FALSE)],
                      Page!SetVolumeAndUnmute(Page!The(pending.volume)), wanted)
         /\ pending.volume = Page!None /\ pending.muted \ Page!Some(operation.muted) # Page!None =>
                Comes(now, Page!NoPending, Page!SetMuted(Page!The(pending.muted)), wanted)
         /\ pending.volume = Page!None /\ pending.muted \ Page!Some(operation.muted) = Page!None =>
                Came(now, operation.muted, wanted)
         /\ operation.level # Page!None => Comes(operation.level, pending, Page!SetMuted(FALSE), wanted)
  <1> DEFINE now == Page!OrElse(operation.level, current)
  <1>0. /\ pending.volume \in Options /\ pending.muted \in Mutes /\ operation.level \in Options
        /\ operation.muted \in BOOLEAN /\ wanted.muted \in BOOLEAN
        /\ operation.level # Page!None => operation.muted = FALSE
    BY DEF Pendings, Operations
  <1>1. ASSUME pending.volume # Page!None
        PROVE  Comes(now, [volume |-> Page!None, muted |-> pending.muted \ Page!Some(FALSE)],
                     Page!SetVolumeAndUnmute(Page!The(pending.volume)), wanted)
    <2>1. PICK v \in Heights : pending.volume = Page!Some(v)
      BY <1>0, <1>1, OptionsAre
    <2>2. Page!The(pending.volume) = v
      BY <2>1, TheSome
    <2>3. Page!SetVolumeAndUnmute(v).level = pending.volume /\ Page!SetVolumeAndUnmute(v).muted = FALSE
      BY <2>1 DEF Page!SetVolumeAndUnmute
    <2>4. pending.muted = Page!None \/ pending.muted = Page!Some(TRUE) \/ pending.muted = Page!Some(FALSE)
      BY <1>0 DEF Mutes
    <2>5. wanted.level # Page!None => pending.volume = wanted.level
      BY <1>1 DEF Comes
    <2>6. wanted.level = Page!None => IF pending.muted # Page!None THEN pending.muted = Page!Some(wanted.muted)
                                      ELSE wanted.muted = FALSE
      BY <1>1 DEF Comes
    <2>7. wanted.level = Page!None =>
              IF pending.muted \ Page!Some(FALSE) # Page!None
              THEN pending.muted \ Page!Some(FALSE) = Page!Some(wanted.muted) ELSE wanted.muted = FALSE
      <3>1. CASE pending.muted = Page!None
        BY <2>6, <3>1 DEF Page!None
      <3>2. CASE pending.muted = Page!Some(TRUE)
        BY <2>6, <3>2 DEF Page!Some, Page!None
      <3>3. CASE pending.muted = Page!Some(FALSE)
        BY <1>0, <2>6, <3>3 DEF Page!Some, Page!None
      <3> QED
        BY <2>4, <3>1, <3>2, <3>3
    <2> QED
      BY <2>2, <2>3, <2>5, <2>7 DEF Comes
  <1>2. ASSUME pending.volume = Page!None PROVE wanted.level # Page!None => now = wanted.level
    BY <1>2 DEF Comes, Page!OrElse
  <1>3. ASSUME pending.volume = Page!None, pending.muted \ Page!Some(operation.muted) # Page!None
        PROVE  Comes(now, Page!NoPending, Page!SetMuted(Page!The(pending.muted)), wanted)
    <2>1. PICK m \in BOOLEAN : pending.muted = Page!Some(m)
      BY <1>0, <1>3 DEF Mutes, Page!None
    <2>2. Page!The(pending.muted) = m
      BY <2>1, TheSome
    <2>3. Page!SetMuted(m).level = Page!None /\ Page!SetMuted(m).muted = m /\ Page!NoPending.volume = Page!None
          /\ Page!NoPending.muted = Page!None
      BY DEF Page!SetMuted, Page!NoPending
    <2>4. wanted.level = Page!None => wanted.muted = m
      BY <1>0, <2>1 DEF Comes, Page!Some, Page!None
    <2> QED
      BY <1>2, <1>3, <2>2, <2>3, <2>4 DEF Comes
  <1>4. ASSUME pending.volume = Page!None, pending.muted \ Page!Some(operation.muted) = Page!None
        PROVE  wanted.level = Page!None => operation.muted = wanted.muted
    <2>1. pending.muted = Page!None \/ pending.muted = Page!Some(operation.muted)
      BY <1>0, <1>4 DEF Mutes, Page!Some, Page!None
    <2> QED
      BY <1>0, <1>4, <2>1 DEF Comes, Page!Some, Page!None
  <1>5. ASSUME operation.level # Page!None PROVE Comes(operation.level, pending, Page!SetMuted(FALSE), wanted)
    <2>1. Page!SetMuted(FALSE).level = Page!None /\ Page!SetMuted(FALSE).muted = FALSE
      BY DEF Page!SetMuted
    <2> QED
      BY <1>0, <1>5, <2>1 DEF Comes
  <1>6. ASSUME pending.volume = Page!None, pending.muted \ Page!Some(operation.muted) = Page!None
        PROVE  Came(now, operation.muted, wanted)
    BY <1>2, <1>4, <1>6 DEF Came
  <1> QED
    BY <1>1, <1>3, <1>5, <1>6

\* finish_audio_write: what is pending is written next, and what is shown is what was
\* written.
LEMMA FinishAudioWrite ==
  ASSUME PageInv, NEW op \in p_flying, p_audio.st = "applying", p_audio.id = op.id, op.what = "set_audio",
         op.result = "ok",
         Page!finish_audio_write(Page!OrElse(op.level, p_audio.current), op.muted, p_audio.pending, p_flying \ {op}),
         UNCHANGED <<p_watched, p_summary, p_brightness, p_tv, p_profile, p_change, p_changes, p_asked, p_doubt>>
  PROVE  PageInv'
  <1> DEFINE current == Page!OrElse(op.level, p_audio.current)
             pending == p_audio.pending
  <1>1. /\ Shared /\ op \in Ops /\ op \in Of("set_audio") /\ p_next_id \in Nat
        /\ p_asked \in [brightness : Options, audio : SUBSET Operations]
    BY DEF PageInv, Shared, Of
  <1>2. /\ p_change = "none" /\ Of("set_audio") = {op} /\ op.level = p_audio.operation.level
        /\ op.muted = p_audio.operation.muted
    BY <1>1 DEF PageInv, AudioInv, AudioFlight
  <1>3. /\ p_audio.current \in Options /\ pending \in Pendings /\ p_audio.operation \in Operations
        /\ op.level \in Options /\ op.muted \in BOOLEAN
    BY <1>1 DEF PageInv, AudioInv, AudioShape, AudioWrites, Ops
  <1>4. current \in Options /\ pending.volume \in Options /\ pending.muted \in Mutes
    BY <1>3 DEF Page!OrElse, Pendings
  <1>5. "audio" \notin p_doubt => Has(current, op.muted)
    BY <1>1, <1>2 DEF PageInv, AudioInv, AudioShown
  <1>6. \A wanted \in p_asked.audio :
          wanted \in Operations /\ Comes(p_audio.current, pending, p_audio.operation, wanted)
    BY <1>1, <1>2 DEF PageInv, AudioInv, AudioChosen
  <1>7. /\ (\A o \in p_flying \ {op} : o.what # "set_audio")
        /\ (\A o \in p_flying \ (p_flying \ {op}) : o.what = "set_audio")
    BY <1>2 DEF Of
  <1>8. CASE pending.volume # Page!None
    <2> DEFINE rest == [volume |-> Page!None, muted |-> pending.muted \ Page!Some(FALSE)]
               operation == Page!SetVolumeAndUnmute(Page!The(pending.volume))
    <2>1. rest \in Pendings /\ operation \in Operations
      <3>1. PICK v \in Heights : pending.volume = Page!Some(v)
        BY <1>4, <1>8, OptionsAre
      <3>2. Page!The(pending.volume) = v /\ Page!Some(v) \in Options
        BY <3>1, TheSome DEF Options
      <3>3. pending.muted \ Page!Some(FALSE) \in Mutes
        BY <1>4 DEF Mutes, Page!Some, Page!None
      <3> QED
        BY <3>2, <3>3 DEF Pendings, Operations, Page!SetVolumeAndUnmute, Options
    <2>2. Page!start_audio_write(current, op.muted, rest, operation, p_flying \ {op})
      BY <1>8 DEF Page!finish_audio_write
    <2>3. \A wanted \in p_asked.audio : Comes(current, rest, operation, wanted)
      BY <1>2, <1>3, <1>6, <1>8, ComesAfter
    <2> HIDE DEF rest, operation, current, pending
    <2> QED
      BY <1>1, <1>2, <1>3, <1>4, <1>5, <1>7, <2>1, <2>2, <2>3, AudioWriteKeeps
  <1>9. CASE pending.volume = Page!None /\ pending.muted \ Page!Some(op.muted) # Page!None
    <2> DEFINE operation == Page!SetMuted(Page!The(pending.muted))
    <2>1. Page!NoPending \in Pendings /\ operation \in Operations
      <3>1. PICK m \in BOOLEAN : pending.muted = Page!Some(m)
        BY <1>4, <1>9 DEF Mutes, Page!None
      <3>2. Page!The(pending.muted) = m
        BY <3>1, TheSome
      <3> QED
        BY <3>2 DEF Pendings, Operations, Page!SetMuted, Page!NoPending, Options, Mutes
    <2>2. Page!start_audio_write(current, op.muted, Page!NoPending, operation, p_flying \ {op})
      BY <1>9 DEF Page!finish_audio_write
    <2>3. \A wanted \in p_asked.audio : Comes(current, Page!NoPending, operation, wanted)
      <3>1. pending.muted \ Page!Some(p_audio.operation.muted) # Page!None
        BY <1>2, <1>9, Zenon
      <3> QED
        BY <1>2, <1>3, <1>6, <1>9, <3>1, ComesAfter
    <2> HIDE DEF operation, current, pending
    <2> QED
      BY <1>1, <1>2, <1>3, <1>4, <1>5, <1>7, <2>1, <2>2, <2>3, AudioWriteKeeps
  <1>10. CASE pending.volume = Page!None /\ pending.muted \ Page!Some(op.muted) = Page!None
    <2>1. p_audio' = Page!AudioReady(current, op.muted) /\ p_flying' = p_flying \ {op} /\ UNCHANGED p_next_id
      BY <1>10 DEF Page!finish_audio_write
    <2>2. \A wanted \in p_asked.audio :
              IF wanted.level # Page!None THEN current = wanted.level ELSE op.muted = wanted.muted
      <3>1. pending.muted \ Page!Some(p_audio.operation.muted) = Page!None
        BY <1>2, <1>10, Zenon
      <3>2. \A wanted \in p_asked.audio : Came(current, p_audio.operation.muted, wanted)
        BY <1>2, <1>3, <1>6, <1>10, <3>1, ComesAfter
      <3> QED
        BY <1>2, <3>2, Zenon DEF Came
    <2>3. Of("set_audio")' = {} /\ p_audio'.st = "ready"
      BY <1>1, <1>2, <2>1, GoneFacts DEF Page!AudioReady
    <2> HIDE DEF current, pending
    <2>4. AudioInv'
      BY <1>1, <1>2, <1>3, <1>4, <1>5, <2>1, <2>2, <2>3, AudioRests
    <2> QED
      BY SMTT(30), <1>1, <2>1, <2>3, <2>4, AudioAlone DEF Shared
  <1> QED
    BY <1>8, <1>9, <1>10

\* The audio write that is waited for reports.
LEMMA AudioWriteCompletes ==
  ASSUME PageInv, NEW op \in p_flying, op.what = "set_audio", op.result # "none",
         Page!Awaited(p_audio, op), Page!complete_audio_write(op),
         UNCHANGED <<p_watched, p_summary, p_brightness, p_tv, p_profile, p_change, p_changes, p_asked, p_doubt>>
  PROVE  PageInv'
  <1>1. /\ Shared /\ op \in Ops /\ op.result \in {"ok", "error"} /\ op \in Of("set_audio")
        /\ p_next_id \in Nat /\ p_audio.st = "applying" /\ p_audio.id = op.id
        /\ p_asked \in [brightness : Options, audio : SUBSET Operations]
    BY DEF PageInv, Shared, Ops, Of, Page!Awaited
  <1>2. CASE op.result = "ok"
    BY <1>1, <1>2, FinishAudioWrite DEF Page!complete_audio_write
  <1>3. CASE op.result = "error"
    <2>1. /\ p_change = "none" /\ Of("set_audio") = {op} /\ op.level = p_audio.operation.level
          /\ op.applied \in {Page!None, op.level}
      BY <1>1 DEF PageInv, AudioInv, AudioFlight
    <2>2. /\ p_audio.current \in Options /\ p_audio.muted \in BOOLEAN /\ p_audio.pending \in Pendings
          /\ p_audio.operation \in Operations /\ op.applied \in Options
      BY <1>1 DEF PageInv, AudioInv, AudioShape, AudioWrites, Ops
    <2> DEFINE current == Page!OrElse(op.applied, p_audio.current)
               retry == IF op.applied # Page!None THEN Page!SetMuted(FALSE) ELSE p_audio.operation
    <2>3. current \in Options /\ retry \in Operations
      BY <2>2 DEF Page!OrElse, Page!SetMuted, Operations, Options
    <2>4. "audio" \notin p_doubt => Has(current, p_audio.muted)
      BY <1>1, <1>3, <2>1 DEF PageInv, AudioInv, AudioShown
    <2>5. \A wanted \in p_asked.audio :
            wanted \in Operations /\ Comes(p_audio.current, p_audio.pending, p_audio.operation, wanted)
      BY <1>1, <2>1 DEF PageInv, AudioInv, AudioChosen
    <2>6. \A wanted \in p_asked.audio : Comes(current, p_audio.pending, retry, wanted)
      <3>1. CASE op.applied = Page!None
        BY <2>5, <3>1 DEF Page!OrElse
      <3>2. CASE op.applied # Page!None
        <4>1. current = p_audio.operation.level /\ retry = Page!SetMuted(FALSE) /\ p_audio.operation.level # Page!None
          BY <2>1, <3>2 DEF Page!OrElse
        <4> HIDE DEF current, retry
        <4> QED
          BY <2>2, <2>5, <4>1, ComesAfter
      <3> QED
        BY <3>1, <3>2
    <2> HIDE DEF current, retry
    <2>7. /\ p_audio' = [st |-> "failed", current |-> current, muted |-> p_audio.muted,
                         pending |-> p_audio.pending, retry |-> retry]
          /\ p_flying' = p_flying \ {op} /\ UNCHANGED p_next_id
      BY <1>3 DEF Page!complete_audio_write, current, retry
    <2>8. /\ p_audio' \in AudioFailures /\ p_audio'.st = "failed" /\ p_audio'.current = current
          /\ p_audio'.muted = p_audio.muted /\ p_audio'.pending = p_audio.pending /\ p_audio'.retry = retry
      BY <2>2, <2>3, <2>7 DEF AudioFailures
    <2>9. Of("set_audio")' = {}
      BY <1>1, <2>1, <2>7, GoneFacts
    <2>10. AudioShape' /\ AudioFlight'
      BY <2>8, <2>9 DEF AudioShape, AudioFlight
    <2>11. AudioShown'
      BY <2>4, <2>8, LoadingFacts DEF AudioShown, Has
    <2>12. AudioChosen'
      BY <2>6, <2>8 DEF AudioChosen, Comes
    <2>13. AudioInv'
      BY <2>10, <2>11, <2>12 DEF AudioInv
    <2> QED
      BY SMTT(30), <1>1, <2>7, <2>8, <2>13, AudioAlone DEF Shared
  <1> QED
    BY <1>1, <1>2, <1>3

\* Only a closed page hears of a write that it does not wait for.
LEMMA StrayWriteCompletes ==
  ASSUME PageInv, NEW op \in p_flying, op.what \in {"set_brightness", "set_audio"},
         ~Page!Awaited(IF op.what = "set_audio" THEN p_audio ELSE p_brightness, op),
         p_flying' = p_flying \ {op},
         UNCHANGED <<p_watched, p_summary, p_brightness, p_audio, p_next_id, p_tv, p_profile, p_change, p_changes,
                     p_asked, p_doubt>>
  PROVE  PageInv'
  <1>1. p_summary.st = "closed" /\ p_brightness.st = "closed" /\ p_audio.st = "closed"
    <2>1. op \in Of(op.what)
      BY DEF Of
    <2>2. CASE op.what = "set_brightness"
      BY <2>1, <2>2 DEF PageInv, Shared, BrightnessInv, BrightnessFlight, Page!Awaited
    <2>3. CASE op.what = "set_audio"
      BY <2>1, <2>3 DEF PageInv, Shared, AudioInv, AudioFlight, Page!Awaited
    <2> QED
      BY <2>2, <2>3
  <1>2. Shared'
    BY DEF PageInv, Shared
  <1> QED
    BY <1>1, <1>2, ClosedIsQuiet DEF PageInv

\* An operation reports.
LEMMA CompleteKeeps == ASSUME PageInv, NEW op \in p_flying, Page!Complete(op), UNCHANGED p_watched PROVE PageInv'
  BY SummaryCompletes, BrightnessReadCompletes, AudioReadCompletes, BrightnessWriteCompletes,
     AudioWriteCompletes, StrayWriteCompletes DEF Page!Complete

-----------------------------------------------------------------------------
\* At first every control that is watched is read.
LEMMA PageInit == Page!Init => PageInv
  <1> SUFFICES ASSUME Page!Init PROVE PageInv
    OBVIOUS
  <1>0. /\ p_profile = "a" /\ p_change = "none" /\ p_next_id = 1 /\ p_doubt = {}
        /\ p_watched \subseteq {"summary", "brightness", "audio"}
        /\ p_summary = Page!LoadingOf("summary", 0) /\ p_brightness = Page!LoadingOf("brightness", 0)
        /\ p_audio = Page!LoadingOf("audio", 0) /\ p_flying = Page!Reads(0)
        /\ p_asked = [brightness |-> Page!None, audio |-> Page!None]
    BY DEF Page!Init
  <1>1. p_tv \in [Page!Tvs -> TvRecords] /\ \A t \in Page!Tvs : p_tv[t].name = t
    <2>1. \A t \in Page!Tvs : p_tv[t] = IF t = "a"
                THEN [name |-> t, brightness |-> 1, volume |-> Page!Some(1), muted |-> FALSE]
                ELSE [name |-> t, brightness |-> 2, volume |-> Page!Some(2), muted |-> TRUE]
      BY DEF Page!Init
    <2>2. p_tv = [t \in Page!Tvs |-> p_tv[t]]
      BY DEF Page!Init
    <2>3. 1 \in Heights /\ 2 \in Heights /\ Page!Some(1) \in {Page!Some(v) : v \in Heights}
          /\ Page!Some(2) \in {Page!Some(v) : v \in Heights}
      BY DEF Heights
    <2>4. \A t \in Page!Tvs : p_tv[t] \in TvRecords /\ p_tv[t].name = t
      <3> TAKE t \in Page!Tvs
      <3>1. PICK l \in Heights, s \in {Page!Some(v) : v \in Heights}, m \in BOOLEAN :
                p_tv[t] = [name |-> t, brightness |-> l, volume |-> s, muted |-> m]
        BY <2>1, <2>3, Zenon
      <3> QED
        BY SMTT(30), <3>1 DEF TvRecords
    <2> QED
      BY <2>2, <2>4
  <1>2. Page!None \in Options /\ p_tv["a"] \in SeenRecords
    BY <1>1 DEF Options, Page!Tvs, TvRecords, SeenRecords
  <1>4. \A op \in p_flying : op \in Ops /\ op.what \in p_watched /\ op.id = 0 /\ op.result = "none"
    BY <1>0, <1>2, ReadsTyped
  <1>5. \A what \in p_watched : \E op \in Of(what) : op.id = 0
    BY <1>0, <1>2, ReadsTyped DEF Of
  <1>6. Of("set_brightness") = {} /\ Of("set_audio") = {}
    BY <1>0, <1>4 DEF Of
  <1>7. Shared
    BY SMTT(30), <1>0, <1>1, <1>2, <1>4, LoadingOfFacts DEF Shared, Page!Tvs, Options, Page!None
  <1>8. SummaryInv
    BY SMTT(30), <1>0, <1>4, <1>5, LoadingOfFacts, LoadingFacts DEF SummaryInv, Of
  <1>9. BrightnessInv
    <2>1. BrightnessShape /\ BrightnessFlight
      BY SMTT(30), <1>0, <1>5, <1>6, LoadingOfFacts, LoadingFacts DEF BrightnessShape, BrightnessFlight
    <2>2. BrightnessShown /\ BrightnessChosen
      BY <1>0, <1>4, LoadingOfFacts, LoadingFacts DEF BrightnessShown, BrightnessChosen, Of
    <2> QED
      BY <2>1, <2>2 DEF BrightnessInv
  <1>10. AudioInv
    <2>1. AudioShape /\ AudioFlight
      BY SMTT(30), <1>0, <1>5, <1>6, LoadingOfFacts, LoadingFacts DEF AudioShape, AudioFlight
    <2>2. AudioShown /\ AudioChosen
      BY <1>0, <1>4, LoadingOfFacts, LoadingFacts DEF AudioShown, AudioChosen, Of, Page!None
    <2> QED
      BY <2>1, <2>2 DEF AudioInv
  <1> QED
    BY <1>7, <1>8, <1>9, <1>10 DEF PageInv

\* Every step of the page and of its threads keeps the invariant.
LEMMA PageNext == PageInv /\ [Page!Next]_(Page!vars) => PageInv'
  <1> SUFFICES ASSUME PageInv, [Page!Next]_(Page!vars) PROVE PageInv'
    OBVIOUS
  <1>1. CASE UNCHANGED Page!vars
    <2>1. \A x : Of(x)' = Of(x)
      BY <1>1 DEF Page!vars, Of
    <2>2. Shared' /\ p_next_id \in Nat /\ p_profile' = p_profile
      BY <1>1 DEF Page!vars, PageInv, Shared
    <2>3. SummaryInv' /\ BrightnessInv' /\ AudioInv'
      BY SMTT(30), <1>1, <2>1, <2>2, SummaryFrame, BrightnessFrame, AudioFrame DEF Page!vars, PageInv
    <2> QED
      BY <2>2, <2>3 DEF PageInv
  <1>2. CASE Page!Next
    BY <1>2, RetrySummaryKeeps, RetryBrightnessKeeps, RetryAudioKeeps, SetBrightnessKeeps,
       SetVolumeKeeps, SetMutedKeeps, ManagementKeeps, SetupKeeps, ChangeEndsKeeps, ShutdownKeeps,
       RunKeeps, CompleteKeeps DEF Page!Next
  <1> QED
    BY <1>1, <1>2

\* The invariant gives the properties that the run checks.
LEMMA PageShown == PageInv => Page!ShownIsTheTv /\ Page!LastChoiceWins /\ Page!NoControlIsStuck
  <1> SUFFICES ASSUME PageInv PROVE Page!ShownIsTheTv /\ Page!LastChoiceWins /\ Page!NoControlIsStuck
    OBVIOUS
  <1>1. Page!ShownIsTheTv
    BY DEF PageInv, SummaryInv, BrightnessInv, BrightnessShown, AudioInv, AudioShown, Has, Page!ShownIsTheTv,
           Page!Settled
  <1>2. Page!LastChoiceWins
    <2>1. Page!Settled(p_brightness) /\ "brightness" \notin p_doubt => p_asked.brightness \subseteq {p_tv[p_profile].brightness}
      BY DEF PageInv, BrightnessInv, BrightnessShown, BrightnessChosen, Page!Settled
    <2>2. ASSUME Page!Settled(p_audio), "audio" \notin p_doubt, NEW wanted \in p_asked.audio
          PROVE  IF wanted.level # Page!None THEN p_tv[p_profile].volume = wanted.level
                 ELSE p_tv[p_profile].muted = wanted.muted
      <3>1. Has(p_audio.current, p_audio.muted) /\ p_audio.current \in Options
            /\ IF wanted.level # Page!None THEN p_audio.current = wanted.level ELSE p_audio.muted = wanted.muted
        BY <2>2 DEF PageInv, AudioInv, AudioShape, AudioShown, AudioChosen, Page!Settled
      <3>2. p_tv[p_profile].volume \in {Page!Some(v) : v \in Heights}
        BY DEF PageInv, Shared, TvRecords
      <3>3. p_audio.current # Page!None => p_tv[p_profile].volume = p_audio.current
        BY <3>1, <3>2, OptionsAre DEF Has, Page!Some, Page!None
      <3> QED
        BY <3>1, <3>3 DEF Has
    <2> QED
      BY <2>1, <2>2 DEF Page!LastChoiceWins
  <1>3. Page!NoControlIsStuck
    BY SMTT(30) DEF PageInv, SummaryInv, BrightnessInv, BrightnessFlight, AudioInv, AudioFlight, Page!NoControlIsStuck, Of
  <1> QED
    BY <1>1, <1>2, <1>3

-----------------------------------------------------------------------------
(***************************************************************************)
(* The specification.                                                      *)
(***************************************************************************)

CONSTANTS
    MaxRequests, MaxFaults, MaxRemote,                 \* WebOsSession
    Target, Concurrent, MaxFileEdits, MaxCrashes,      \* PairingStore
    Settings, Values, MaxEdits, MaxReads,              \* SettingsView
    MaxRelease, MaxTries,                              \* UpdateFlow
    MaxChanges, MaxRevision, MaxActs, MaxServices      \* SetupGate

VARIABLES
    component,    \* the part that runs
    t_tv, t_policy, t_token, t_conn, t_session, t_op, t_step, t_cmd, t_reused, t_pc,
    t_result, t_faults, t_remote, t_witnessed, t_made,
    f_config, f_token, f_lock, f_pc, f_snap, f_got, f_gate, f_expected, f_endpoint, f_wrote,
    f_told, f_edits, f_crashes,
    r_state, r_rows, r_pending_read, r_pending_mutation, r_queued_mutations,
    r_reconcile_mutation, r_closed, r_reading, r_thread, r_file, r_reads, r_edits, r_newest,
    r_doubt,
    u_pending, u_prepared, u_installed, u_cancelling, u_closed, u_report, u_row, u_checking,
    u_mutating, u_cell, u_pc, u_bundle, u_result, u_offer, u_served, u_channel, u_host,
    u_tries, u_told, u_ran,
    g_admitted, g_closed, g_close_after_setup, g_manual_setup, g_health, g_probe,
    g_onboarding, g_step, g_work, g_waiting, g_facts, g_version, g_service, g_seen, g_acts

INSTANCE FilesProofs
INSTANCE SetupProofs

t_vars == <<t_tv, t_policy, t_token, t_conn, t_session, t_op, t_step, t_cmd, t_reused, t_pc,
           t_result, t_faults, t_remote, t_witnessed, t_made>>
f_vars == <<f_config, f_token, f_lock, f_pc, f_snap, f_got, f_gate, f_expected, f_endpoint,
           f_wrote, f_told, f_edits, f_crashes>>
p_vars == <<p_watched, p_summary, p_brightness, p_audio, p_next_id, p_flying, p_tv,
           p_profile, p_change, p_changes, p_asked, p_doubt>>
r_vars == <<r_state, r_rows, r_pending_read, r_pending_mutation, r_queued_mutations,
           r_reconcile_mutation, r_closed, r_reading, r_thread, r_file, r_reads, r_edits,
           r_newest, r_doubt>>
u_vars == <<u_pending, u_prepared, u_installed, u_cancelling, u_closed, u_report, u_row,
           u_checking, u_mutating, u_cell, u_pc, u_bundle, u_result, u_offer, u_served,
           u_channel, u_host, u_tries, u_told, u_ran>>
g_vars == <<g_admitted, g_closed, g_close_after_setup, g_manual_setup, g_health, g_probe,
           g_onboarding, g_step, g_work, g_waiting, g_facts, g_version, g_service, g_seen,
           g_acts>>
vars == <<component, t_vars, f_vars, p_vars, r_vars, u_vars, g_vars>>

\* A part that does not run is in one of its initial states.
Init ==
    /\ component \in {"tv", "files", "overview", "settings", "update", "setup"}
    /\ Tv!Init /\ Files!Init /\ Page!Init /\ Rows!Init /\ Update!Init /\ Gate!Init
    /\ component # "tv" => t_policy = "PairIfNeeded" /\ t_token = "none"
    /\ component # "files" => /\ Files!NoTv(f_config)
                              /\ f_pc["pair"] = "start" /\ f_pc["unpair"] = "start"
    /\ component # "overview" => p_watched = {"audio"}
    /\ component # "setup" => g_facts = "complete"

Next ==
    /\ UNCHANGED component
    /\ \/ component = "tv" /\ Tv!Next
          /\ UNCHANGED <<f_vars, p_vars, r_vars, u_vars, g_vars>>
       \/ component = "files" /\ Files!Next
          /\ UNCHANGED <<t_vars, p_vars, r_vars, u_vars, g_vars>>
       \/ component = "overview" /\ Page!Next
          /\ UNCHANGED <<t_vars, f_vars, r_vars, u_vars, g_vars>>
       \/ component = "settings" /\ Rows!Next
          /\ UNCHANGED <<t_vars, f_vars, p_vars, u_vars, g_vars>>
       \/ component = "update" /\ Update!Next
          /\ UNCHANGED <<t_vars, f_vars, p_vars, r_vars, g_vars>>
       \/ component = "setup" /\ Gate!Next
          /\ UNCHANGED <<t_vars, f_vars, p_vars, r_vars, u_vars>>

Spec == Init /\ [][Next]_vars

-----------------------------------------------------------------------------
\* The properties of each part, in the behaviours where it runs; its module says
\* what they mean.

\* WebOsSession: a method that returns Ok has seen the TV do it (read_verified_value).
OkIsReal == component = "tv" => Tv!OkIsReal

\* WebOsSession: a TV that closed an idle session does not fail the next read
\* (current_input).
IdleCloseIsHarmless == component = "tv" => Tv!IdleCloseIsHarmless

\* PairingStore: a token is stored under the configuration it was asked for
\* (acquire_and_persist, commit).
TokenGoesToItsConfig == [][component = "files" => Files!TokenStep]_vars

\* PairingStore: no transaction undoes the change of another (the pairing lock).
NoLostUpdate == [][component = "files" => Files!UpdateStep]_vars

\* PairingStore: a transaction that fails leaves the files as it found them
\* (restore_token).
FailureLeavesNoTrace == [][component = "files" => Files!FailureStep]_vars

\* Overview: a level that is shown as saved is that of the TV (complete_brightness_read).
ShownIsTheTv == component = "overview" => Page!ShownIsTheTv

\* Overview: the brightness, volume and mute chosen last are those that the TV gets
\* (complete_brightness_write, finish_audio_write).
LastChoiceWins == component = "overview" => Page!LastChoiceWins

\* SettingsView: the last accepted edit of a row is saved, and the row shows what is saved
\* (begin_mutation, complete_mutation).
ShownIsSaved == component = "settings" => Rows!ShownIsSaved

\* UpdateFlow: a cancelled update is never installed (UpdateInstallCancellation).
CancelledNeverInstalls == component = "update" => Update!CancelledNeverInstalls

\* UpdateFlow: what is installed is what was confirmed
\* (install_prepared_update_with).
InstalledIsConfirmed == component = "update" => Update!InstalledIsConfirmed

\* SetupGate, Overview and SettingsView: what is waited for is being done.  No operation is
\* dropped with its transition (Application::transition), no control is left loading or
\* applying (profile_changed), and no edit waits for nothing (finish_mutation).
OperationsAreRun ==
    /\ component = "setup" => Gate!OperationsAreRun
    /\ component = "overview" => Page!NoControlIsStuck
    /\ component = "settings" => Rows!QueueMoves

\* SetupGate: the window opens on an assessment of the setup as it is
\* (SetupHealth::complete).
AdmissionIsVerified == [][component = "setup" => Gate!AdmissionStep]_vars

-----------------------------------------------------------------------------
(* What holds of the parts. *)

\* A step of the specification is one of the part that runs, and leaves the others alone.
LEMMA StepOfAPart ==
  ASSUME [Next]_vars
  PROVE  /\ [Tv!Next]_(Tv!vars) /\ [Page!Next]_(Page!vars) /\ [Rows!Next]_(Rows!vars)
         /\ [Update!Next]_(Update!vars)
         /\ Files!Next \/ UNCHANGED Files!vars
         /\ Gate!Next \/ UNCHANGED Gate!vars
  <1>1. UNCHANGED t_vars => UNCHANGED Tv!vars
    BY DEF t_vars, Tv!vars, Tv!client
  <1>2. UNCHANGED p_vars => UNCHANGED Page!vars
    BY DEF p_vars, Page!vars
  <1>3. UNCHANGED r_vars => UNCHANGED Rows!vars
    BY DEF r_vars, Rows!vars, Rows!page
  <1>4. UNCHANGED u_vars => UNCHANGED Update!vars
    BY DEF u_vars, Update!vars, Update!page, Update!worker, Update!world
  <1>5. UNCHANGED f_vars => UNCHANGED Files!vars
    BY DEF f_vars, Files!vars
  <1>6. UNCHANGED g_vars => UNCHANGED Gate!vars
    BY DEF g_vars, Gate!vars, Gate!gui
  <1>7. CASE Next
    BY <1>1, <1>2, <1>3, <1>4, <1>5, <1>6, <1>7 DEF Next
  <1>8. CASE UNCHANGED vars
    BY <1>1, <1>2, <1>3, <1>4, <1>5, <1>6, <1>8 DEF vars
  <1> QED
    BY <1>7, <1>8

\* The inductive invariant of the application is that of each part.
AppInv == TvInv /\ PageInv /\ RowsInv /\ UpdateInv /\ FilesInv /\ SetupInv

\* AppInv holds throughout: whatever the TV answers, closes or forgets, in whatever order the
\* operations of the pages end, wherever a cancellation meets its worker, and with crashes, edits
\* of the files by hand and restarts of the service.
THEOREM Invariance == Spec => []AppInv
  <1>1. Init => AppInv
    BY TvInit, PageInit, RowsInit, UpdateInit, FilesInit, SetupInit DEF Init, AppInv
  <1>2. AppInv /\ [Next]_vars => AppInv'
    BY TvNext, PageNext, RowsNext, UpdateNext, FilesNext, FilesStutter, SetupNext,
       SetupStutter, StepOfAPart DEF AppInv
  <1> QED
    BY <1>1, <1>2, PTL DEF Spec

\* A method of the webOS adapter that returns Ok has seen the TV in the state it asked for.
THEOREM OkReal == Spec => []OkIsReal
  <1>1. AppInv => OkIsReal
    BY DEF TvInv, Witness, OkIsReal, AppInv
  <1> QED
    BY <1>1, Invariance, PTL

\* A TV that has closed an idle session does not fail the next read: current_input
\* connects again.
THEOREM IdleCloseHarmless == Spec => []IdleCloseIsHarmless
  <1>1. AppInv => IdleCloseIsHarmless
    BY DEF TvInv, FoundOrMade, IdleCloseIsHarmless, AppInv
  <1> QED
    BY <1>1, Invariance, PTL

\* A level that the overview shows as saved is that of the TV.
THEOREM ShownIsOnTheTv == Spec => []ShownIsTheTv
  <1>1. AppInv => ShownIsTheTv
    BY PageShown DEF ShownIsTheTv, AppInv
  <1> QED
    BY <1>1, Invariance, PTL

\* The brightness, the volume and the mute that were chosen last are those that the TV gets,
\* however the writes and the reads overtake each other.
THEOREM TheLastChoiceWins == Spec => []LastChoiceWins
  <1>1. AppInv => LastChoiceWins
    BY PageShown DEF LastChoiceWins, AppInv
  <1> QED
    BY <1>1, Invariance, PTL

\* A row of the settings page shows what is saved, and its last accepted edit is saved.
THEOREM RowsShowTheFile == Spec => []ShownIsSaved
  <1>1. AppInv => ShownIsSaved
    BY RowsShown DEF ShownIsSaved, AppInv
  <1> QED
    BY <1>1, Invariance, PTL

\* An update whose cancellation the user was told of is never installed.
THEOREM CancelledIsNotInstalled == Spec => []CancelledNeverInstalls
  <1>1. AppInv => CancelledNeverInstalls
    BY UpdateSafe DEF CancelledNeverInstalls, AppInv
  <1> QED
    BY <1>1, Invariance, PTL

\* What the installer runs is the release that the user confirmed.
THEOREM ConfirmedIsInstalled == Spec => []InstalledIsConfirmed
  <1>1. AppInv => InstalledIsConfirmed
    BY UpdateSafe DEF InstalledIsConfirmed, AppInv
  <1> QED
    BY <1>1, Invariance, PTL

\* The window stays while the installer runs (can_close), no setting is edited during an update
\* (can_edit), and the program restarts only into binaries of one release (installed_update).
THEOREM UpdateIsSafe ==
    Spec => [](Update!WindowStaysForInstaller /\ Update!UpdateExcludesEdits /\ Update!RelaunchIsVerified)
  <1>1. AppInv => Update!WindowStaysForInstaller /\ Update!UpdateExcludesEdits /\ Update!RelaunchIsVerified
    BY UpdateSafe DEF AppInv
  <1> QED
    BY <1>1, Invariance, PTL

\* A step of the behaviours where the pairing store runs is one of the pairing store.
LEMMA FilesStep ==
  ASSUME Next, component = "files"
  PROVE  Files!Next
  BY DEF Next

\* A token is stored under the configuration that it was asked for.
THEOREM TokenMatches == Spec => TokenGoesToItsConfig
  <1>1. AppInv /\ [Next]_vars => [component = "files" => Files!TokenStep]_vars
    BY FilesStep, TokenStepHolds DEF AppInv
  <1> QED
    BY <1>1, Invariance, PTL DEF Spec, TokenGoesToItsConfig

\* No transaction on the files undoes the change of another.
THEOREM NoUpdateIsLost == Spec => NoLostUpdate
  <1>1. AppInv /\ [Next]_vars => [component = "files" => Files!UpdateStep]_vars
    BY FilesStep, UpdateStepHolds DEF AppInv
  <1> QED
    BY <1>1, Invariance, PTL DEF Spec, NoLostUpdate

\* A transaction that fails leaves the files as it found them.
THEOREM FailureIsUndone == Spec => FailureLeavesNoTrace
  <1>1. AppInv /\ [Next]_vars => [component = "files" => Files!FailureStep]_vars
    BY FilesStep, FailureStepHolds DEF AppInv
  <1> QED
    BY <1>1, Invariance, PTL DEF Spec, FailureLeavesNoTrace

\* The window opens only on an assessment of the setup as it is.
THEOREM AdmissionVerified == Spec => AdmissionIsVerified
  <1>1. AppInv /\ [Next]_vars => [component = "setup" => Gate!AdmissionStep]_vars
    <2>1. ASSUME Next, component = "setup"
          PROVE  Gate!Next
      BY <2>1 DEF Next
    <2> QED
      BY <2>1, OnlyAssessmentAdmits DEF AppInv
  <1> QED
    BY <1>1, Invariance, PTL DEF Spec, AdmissionIsVerified

\* What is waited for is being done: no operation of the setup is dropped, no control of the
\* overview is left loading or applying, and no edit of a setting waits for nothing.
THEOREM WhatIsWaitedForIsRun == Spec => []OperationsAreRun
  <1>1. SetupInv => Gate!OperationsAreRun
    BY DEF SetupInv, GateInv
  <1>2. AppInv => OperationsAreRun
    BY <1>1, PageShown, RowsMove DEF AppInv, OperationsAreRun
  <1> QED
    BY <1>2, Invariance, PTL
=============================================================================
