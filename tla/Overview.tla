------------------------------ MODULE Overview ------------------------------
(***************************************************************************)
(* OverviewApplication: the page that shows the TV's brightness, volume    *)
(* and mute and changes them.  Every read and write of the TV runs on a    *)
(* thread of its own and may end at any time; the page keeps at most one   *)
(* write of each control in flight and remembers what was asked for        *)
(* meanwhile.  The profile may change under it: the application says so    *)
(* with profile_change_started and profile_changed, and refuses the page's *)
(* intents in between.  A write that is reported as failed may have been   *)
(* carried out.  Nobody else changes the TV, an Option is a set, and       *)
(* "proposed", the value the controls show, follows from the rest.  The    *)
(* controls share nothing but the identifiers, so each behaviour looks at  *)
(* some of them: the reads of the others fail at once.                     *)
(***************************************************************************)
EXTENDS Naturals

CONSTANTS
    Levels,      \* brightness and volume levels
    MaxId,       \* operations started
    MaxChanges   \* changes of profile

VARIABLES
    watched,     \* the controls of this behaviour
    summary, brightness, audio, next_id,  \* OverviewApplication
    flying,      \* operations whose thread has not reported yet
    tv, profile, \* the two TVs and the one that is configured
    change,      \* "none", or who is changing the profile: "management" or "setup"
    changes,
    asked,       \* history: the last brightness, and the last volume or mute, asked for
    doubt        \* history: controls whose failed write may have been carried out

vars == <<watched, summary, brightness, audio, next_id, flying, tv, profile, change, changes, asked,
          doubt>>

Tvs == {"a", "b"}
None == {}
Some(x) == {x}
The(option) == CHOOSE x \in option : TRUE
OrElse(option, other) == IF option = None THEN other ELSE option

-----------------------------------------------------------------------------
(* Operations.  A volume write sets the volume and then unmutes.           *)

Op(what, id, level, muted) ==
    [what |-> what, id |-> id, level |-> level, muted |-> muted, result |-> "none",
     seen |-> tv["a"], applied |-> None]

SetVolumeAndUnmute(v) == [level |-> Some(v), muted |-> FALSE]
SetMuted(m) == [level |-> None, muted |-> m]
operation_muted(operation) == operation.muted

Reads(id) == {Op(what, id, None, FALSE) : what \in watched}

Loading(id) == [st |-> "loading", id |-> id]
Closed == [st |-> "closed"]
ReadFailed == [st |-> "read_failed"]
LoadingOf(what, id) == IF what \in watched THEN Loading(id) ELSE ReadFailed

BrightnessReady(current) == [st |-> "ready", current |-> current]

\* new_brightness_write
BrightnessWrite(current, level, pending, others) ==
    /\ next_id < MaxId
    /\ next_id' = next_id + 1
    /\ brightness' = [st |-> "applying", current |-> current, pending |-> pending,
                      level |-> level, id |-> next_id]
    /\ flying' = others \cup {Op("set_brightness", next_id, Some(level), FALSE)}

AudioReady(current, muted) == [st |-> "ready", current |-> current, muted |-> muted]

NoPending == [volume |-> None, muted |-> None]

start_audio_write(current, muted, pending, operation, others) ==
    /\ next_id < MaxId
    /\ next_id' = next_id + 1
    /\ audio' = [st |-> "applying", current |-> current, muted |-> muted, pending |-> pending,
                 operation |-> operation, id |-> next_id]
    /\ flying' = others \cup {Op("set_audio", next_id, operation.level, operation.muted)}

-----------------------------------------------------------------------------
(* Intents.                                                                *)

has_pending_write == brightness.st = "applying" \/ audio.st = "applying"
is_closed == summary.st = "closed"

\* The application forwards the page's intents when nobody changes the profile.
Forwarded == change = "none" /\ ~is_closed

retry_summary ==
    /\ Forwarded /\ "summary" \in watched /\ summary = ReadFailed /\ next_id < MaxId
    /\ summary' = Loading(next_id)
    /\ flying' = flying \cup {Op("summary", next_id, None, FALSE)}
    /\ next_id' = next_id + 1
    /\ UNCHANGED <<brightness, audio, tv, profile, change, changes, asked, doubt>>

\* What the page shows as the goal of the writes in progress.
Proposed(b) == OrElse(b.pending, Some(b.level))

set_brightness(v) ==
    /\ Forwarded
    /\ \/ /\ brightness.st = "ready" /\ v # brightness.current
          /\ BrightnessWrite(brightness.current, v, None, flying)
       \/ /\ brightness.st = "applying" /\ Proposed(brightness) # Some(v)
          /\ brightness' = [brightness EXCEPT !.pending = Some(v) \ Some(brightness.level)]
          /\ UNCHANGED <<next_id, flying>>
       \/ /\ brightness.st = "failed" /\ v = brightness.current
          /\ brightness' = BrightnessReady(v)
          /\ UNCHANGED <<next_id, flying>>
       \/ /\ brightness.st = "failed" /\ v # brightness.current
          /\ BrightnessWrite(brightness.current, v, None, flying)
    /\ asked' = [asked EXCEPT !.brightness = Some(v)]
    /\ UNCHANGED <<summary, audio, tv, profile, change, changes, doubt>>

retry_brightness ==
    /\ Forwarded
    /\ \/ /\ brightness = ReadFailed /\ "brightness" \in watched /\ next_id < MaxId
          /\ brightness' = Loading(next_id)
          /\ flying' = flying \cup {Op("brightness", next_id, None, FALSE)}
          /\ next_id' = next_id + 1
          /\ UNCHANGED asked
       \/ /\ brightness.st = "failed"
          /\ BrightnessWrite(brightness.current, brightness.level, brightness.pending, flying)
          /\ asked' = [asked EXCEPT !.brightness = Proposed(brightness)]
    /\ UNCHANGED <<summary, audio, tv, profile, change, changes, doubt>>

set_volume(v) ==
    /\ Forwarded
    /\ \/ /\ audio.st = "ready" /\ ~(audio.current = Some(v) /\ ~audio.muted)
          /\ start_audio_write(audio.current, audio.muted, NoPending, SetVolumeAndUnmute(v), flying)
       \/ /\ audio.st = "applying"
          /\ audio' = [audio EXCEPT !.pending.volume = Some(v) \ audio.operation.level]
          /\ UNCHANGED <<next_id, flying>>
       \/ /\ audio.st = "failed"
          /\ audio.current = Some(v) /\ ~audio.muted /\ audio.pending.muted = None
          /\ audio' = AudioReady(audio.current, audio.muted)
          /\ UNCHANGED <<next_id, flying>>
       \/ /\ audio.st = "failed"
          /\ ~(audio.current = Some(v) /\ ~audio.muted /\ audio.pending.muted = None)
          /\ start_audio_write(audio.current, audio.muted, [audio.pending EXCEPT !.volume = None],
                               SetVolumeAndUnmute(v), flying)
    /\ asked' = [asked EXCEPT !.audio = Some(SetVolumeAndUnmute(v))]
    /\ UNCHANGED <<summary, brightness, tv, profile, change, changes, doubt>>

set_muted(m) ==
    /\ Forwarded
    /\ \/ /\ audio.st = "ready" /\ audio.muted # m
          /\ start_audio_write(audio.current, audio.muted, NoPending, SetMuted(m), flying)
       \/ /\ audio.st = "applying"
          /\ LET expected == IF audio.pending.volume # None THEN FALSE
                             ELSE operation_muted(audio.operation)
             IN  audio' = [audio EXCEPT !.pending.muted = Some(m) \ Some(expected)]
          /\ UNCHANGED <<next_id, flying>>
       \/ /\ audio.st = "failed" /\ audio.muted = m /\ audio.pending = NoPending
          /\ audio' = AudioReady(audio.current, m)
          /\ UNCHANGED <<next_id, flying>>
       \/ /\ audio.st = "failed" /\ ~(audio.muted = m /\ audio.pending = NoPending)
          /\ start_audio_write(audio.current, audio.muted,
                 [volume |-> audio.pending.volume,
                  muted |-> IF audio.pending.volume # None THEN Some(m) ELSE None],
                 SetMuted(m), flying)
    /\ asked' = [asked EXCEPT !.audio = Some(SetMuted(m))]
    /\ UNCHANGED <<summary, brightness, tv, profile, change, changes, doubt>>

retry_audio ==
    /\ Forwarded
    /\ \/ /\ audio = ReadFailed /\ "audio" \in watched /\ next_id < MaxId
          /\ audio' = Loading(next_id)
          /\ flying' = flying \cup {Op("audio", next_id, None, FALSE)}
          /\ next_id' = next_id + 1
       \/ /\ audio.st = "failed"
          /\ start_audio_write(audio.current, audio.muted, audio.pending, audio.retry, flying)
    /\ UNCHANGED <<summary, brightness, tv, profile, change, changes, asked, doubt>>

-----------------------------------------------------------------------------
(* The profile changes, and the page closes.                               *)

\* Every earlier read is forgotten: one identifier stands for the three that are taken.
profile_changed ==
    /\ summary' = LoadingOf("summary", next_id)
    /\ brightness' = LoadingOf("brightness", next_id)
    /\ audio' = LoadingOf("audio", next_id)
    /\ next_id' = next_id + 1

\* TvsApplication starts managing the profile: its controls wait for the page's writes, and
\* the page forgets its reads (profile_change_started).
ManagementStarts ==
    /\ Forwarded /\ ~has_pending_write /\ changes < MaxChanges /\ next_id < MaxId
    /\ profile_changed
    /\ change' = "management" /\ changes' = changes + 1
    /\ UNCHANGED <<flying, tv, profile, asked, doubt>>

\* Setup opens: it waits for the page's writes too, and tells the page at the end only.
SetupOpens ==
    /\ Forwarded /\ ~has_pending_write /\ changes < MaxChanges
    /\ change' = "setup" /\ changes' = changes + 1
    /\ UNCHANGED <<summary, brightness, audio, next_id, flying, tv, profile, asked, doubt>>

SwitchTv ==
    /\ change # "none" /\ profile = "a"
    /\ profile' = "b"
    /\ UNCHANGED <<summary, brightness, audio, next_id, flying, tv, change, changes, asked, doubt>>

ChangeEnds ==
    /\ change # "none" /\ ~is_closed /\ next_id < MaxId
    /\ profile_changed
    /\ flying' = flying \cup Reads(next_id)
    /\ change' = "none"
    /\ asked' = [brightness |-> None, audio |-> None]
    /\ doubt' = {}
    /\ UNCHANGED <<tv, profile, changes>>

shutdown ==
    /\ ~is_closed
    /\ summary' = Closed /\ brightness' = Closed /\ audio' = Closed
    /\ UNCHANGED <<next_id, flying, tv, profile, change, changes, asked, doubt>>

-----------------------------------------------------------------------------
(* The threads.  They read the configuration and ask the TV it names.      *)

Reports(op, result) == flying' = (flying \ {op}) \cup {result}

ReadTv(op) ==
    /\ \/ \E volume \in {tv[profile].volume, None} :
              Reports(op, [op EXCEPT !.result = "ok",
                                     !.seen = [tv[profile] EXCEPT !.volume = volume]])
       \/ Reports(op, [op EXCEPT !.result = "error"])
    /\ UNCHANGED <<tv, doubt>>

WriteBrightness(op) ==
    \E result \in {"ok", "error"}, carried \in BOOLEAN :
        /\ result = "ok" => carried
        /\ Reports(op, [op EXCEPT !.result = result])
        /\ tv' = IF carried THEN [tv EXCEPT ![profile].brightness = The(op.level)] ELSE tv
        /\ doubt' = IF result = "ok" THEN doubt \ {"brightness"}
                    ELSE IF carried THEN doubt \cup {"brightness"} ELSE doubt

\* The volume first, then the mute; an error of the second says that the first was applied.
apply_audio_operation(op) ==
    \/ /\ Reports(op, [op EXCEPT !.result = "ok"])
       /\ tv' = [tv EXCEPT ![profile].volume = OrElse(op.level, @), ![profile].muted = op.muted]
       /\ doubt' = IF op.level # None THEN doubt \ {"audio"} ELSE doubt
    \/ \E carried \in BOOLEAN :
        /\ op.level # None
        /\ Reports(op, [op EXCEPT !.result = "error"])
        /\ tv' = IF carried THEN [tv EXCEPT ![profile].volume = op.level] ELSE tv
        /\ doubt' = IF carried THEN doubt \cup {"audio"} ELSE doubt
    \/ \E carried \in BOOLEAN :
        /\ Reports(op, [op EXCEPT !.result = "error", !.applied = op.level])
        /\ tv' = [tv EXCEPT ![profile].volume = OrElse(op.level, @),
                            ![profile].muted = IF carried THEN op.muted ELSE @]
        /\ doubt' = IF carried THEN doubt \cup {"audio"} ELSE doubt

Run(op) ==
    /\ op.result = "none"
    /\ \/ op.what \in {"summary", "brightness", "audio"} /\ ReadTv(op)
       \/ op.what = "set_brightness" /\ WriteBrightness(op)
       \/ op.what = "set_audio" /\ apply_audio_operation(op)
    /\ UNCHANGED <<summary, brightness, audio, next_id, profile, change, changes, asked>>

-----------------------------------------------------------------------------
(* The page hears how an operation ended.  One that it does not wait for   *)
(* changes nothing.                                                        *)

complete_summary(op) ==
    /\ summary' = IF summary # Loading(op.id) THEN summary
                  ELSE IF op.result = "ok" THEN [st |-> "ready", name |-> op.seen.name]
                  ELSE ReadFailed
    /\ flying' = flying \ {op}
    /\ UNCHANGED <<brightness, audio, next_id>>

complete_brightness_readMutant(op) ==
    /\ brightness' = IF brightness.st # "loading" THEN brightness
                     ELSE IF op.result = "ok" THEN BrightnessReady(op.seen.brightness)
                     ELSE ReadFailed
    /\ flying' = flying \ {op}
    /\ UNCHANGED <<summary, audio, next_id>>
complete_brightness_read(op) ==
    /\ brightness' = IF brightness # Loading(op.id) THEN brightness
                     ELSE IF op.result = "ok" THEN BrightnessReady(op.seen.brightness)
                     ELSE ReadFailed
    /\ flying' = flying \ {op}
    /\ UNCHANGED <<summary, audio, next_id>>

complete_audio_read(op) ==
    /\ audio' = IF audio # Loading(op.id) THEN audio
                ELSE IF op.result = "ok" THEN AudioReady(op.seen.volume, op.seen.muted)
                ELSE ReadFailed
    /\ flying' = flying \ {op}
    /\ UNCHANGED <<summary, brightness, next_id>>

Awaited(control, op) == control.st = "applying" /\ control.id = op.id

complete_brightness_write(op) ==
    LET next == brightness.pending \ op.level IN
    \/ /\ op.result = "ok" /\ next # None
       /\ BrightnessWrite(The(op.level), The(next), None, flying \ {op})
    \/ /\ ~(op.result = "ok" /\ next # None)
       /\ brightness' = IF op.result = "ok" THEN BrightnessReady(The(op.level))
                        ELSE [brightness EXCEPT !.st = "failed"]
       /\ flying' = flying \ {op}
       /\ UNCHANGED next_id

finish_audio_writeMutant(current, muted, pending, others) ==
    \/ /\ pending.volume # None
       /\ start_audio_write(current, muted, NoPending, SetVolumeAndUnmute(The(pending.volume)),
                            others)
    \/ /\ pending.volume = None /\ pending.muted \ Some(muted) # None
       /\ start_audio_write(current, muted, NoPending, SetMuted(The(pending.muted)), others)
    \/ /\ pending.volume = None /\ pending.muted \ Some(muted) = None
       /\ audio' = AudioReady(current, muted)
       /\ flying' = others
       /\ UNCHANGED next_id
\* A volume write always unmutes; a request to stay muted stays queued behind it.
finish_audio_write(current, muted, pending, others) ==
    \/ /\ pending.volume # None
       /\ start_audio_write(current, muted,
              [volume |-> None, muted |-> pending.muted \ Some(FALSE)],
              SetVolumeAndUnmute(The(pending.volume)), others)
    \/ /\ pending.volume = None /\ pending.muted \ Some(muted) # None
       /\ start_audio_write(current, muted, NoPending, SetMuted(The(pending.muted)), others)
    \/ /\ pending.volume = None /\ pending.muted \ Some(muted) = None
       /\ audio' = AudioReady(current, muted)
       /\ flying' = others
       /\ UNCHANGED next_id

complete_audio_write(op) ==
    \/ /\ op.result = "ok"
       /\ finish_audio_write(OrElse(op.level, audio.current), op.muted, audio.pending,
                             flying \ {op})
    \/ /\ op.result = "error"
       /\ audio' = [st |-> "failed", current |-> OrElse(op.applied, audio.current),
                    muted |-> audio.muted, pending |-> audio.pending,
                    retry |-> IF op.applied # None THEN SetMuted(FALSE) ELSE audio.operation]
       /\ flying' = flying \ {op}
       /\ UNCHANGED next_id

Complete(op) ==
    /\ op.result # "none"
    /\ \/ op.what = "summary" /\ complete_summary(op)
       \/ op.what = "brightness" /\ complete_brightness_read(op)
       \/ op.what = "audio" /\ complete_audio_read(op)
       \/ /\ op.what = "set_brightness" /\ Awaited(brightness, op)
          /\ complete_brightness_write(op)
          /\ UNCHANGED <<summary, audio>>
       \/ /\ op.what = "set_audio" /\ Awaited(audio, op)
          /\ complete_audio_write(op)
          /\ UNCHANGED <<summary, brightness>>
       \/ /\ op.what \in {"set_brightness", "set_audio"}
          /\ ~Awaited(IF op.what = "set_audio" THEN audio ELSE brightness, op)
          /\ flying' = flying \ {op}
          /\ UNCHANGED <<summary, brightness, audio, next_id>>
    /\ UNCHANGED <<tv, profile, change, changes, asked, doubt>>

-----------------------------------------------------------------------------
Init ==
    /\ tv = [t \in Tvs |-> IF t = "a"
                THEN [name |-> t, brightness |-> 1, volume |-> Some(1), muted |-> FALSE]
                ELSE [name |-> t, brightness |-> 2, volume |-> Some(2), muted |-> TRUE]]
    /\ profile = "a" /\ change = "none" /\ changes = 0
    /\ watched \in {{"summary", "brightness"}, {"audio"}}
    /\ summary = LoadingOf("summary", 0)
    /\ brightness = LoadingOf("brightness", 0)
    /\ audio = LoadingOf("audio", 0)
    /\ next_id = 1
    /\ flying = Reads(0)
    /\ asked = [brightness |-> None, audio |-> None]
    /\ doubt = {}

Next ==
    /\ \/ retry_summary \/ retry_brightness \/ retry_audio
       \/ \E v \in Levels : set_brightness(v) \/ set_volume(v)
       \/ \E m \in BOOLEAN : set_muted(m)
       \/ ManagementStarts \/ SetupOpens \/ SwitchTv \/ ChangeEnds \/ shutdown
       \/ \E op \in flying : Run(op) \/ Complete(op)
    /\ UNCHANGED watched

Spec == Init /\ [][Next]_vars

-----------------------------------------------------------------------------
Settled(control) == change = "none" /\ control.st = "ready"

\* What a control shows when it is at rest is what the configured TV has, unless a write that
\* was reported as failed was carried out: no completion of a read from before a change of
\* profile, or of a write that failed half way, leaves another value (complete_brightness_read,
\* complete_audio_read, complete_audio_write, profile_changed).
ShownIsTheTv ==
    /\ Settled(summary) => summary.name = profile
    /\ Settled(brightness) /\ "brightness" \notin doubt =>
           brightness.current = tv[profile].brightness
    /\ Settled(audio) /\ "audio" \notin doubt =>
           audio.current \subseteq tv[profile].volume /\ audio.muted = tv[profile].muted

\* However the writes overlapped, failed and were retried, when a control is at rest the TV
\* has what was chosen last: the brightness (complete_brightness_write), and the volume or
\* mute, where a volume write that overtakes a queued mute does not undo it
\* (finish_audio_write).
LastChoiceWins ==
    /\ Settled(brightness) /\ "brightness" \notin doubt =>
           asked.brightness \subseteq {tv[profile].brightness}
    /\ Settled(audio) /\ "audio" \notin doubt =>
           \A wanted \in asked.audio :
               IF wanted.level # None THEN tv[profile].volume = wanted.level
               ELSE tv[profile].muted = wanted.muted

\* A control that waits waits for an operation whose thread has not reported: the page is
\* never left loading or applying for good (profile_changed, complete_audio_read).
NoControlIsStuck ==
    /\ \A what \in {"summary", "brightness", "audio"} :
           LET control == CASE what = "summary" -> summary
                            [] what = "brightness" -> brightness
                            [] OTHER -> audio
           IN  control.st = "loading" /\ change # "management" =>
                   \E op \in flying : op.what = what /\ op.id = control.id
    /\ brightness.st = "applying" =>
           \E op \in flying : op.what = "set_brightness" /\ op.id = brightness.id
    /\ audio.st = "applying" =>
           \E op \in flying : op.what = "set_audio" /\ op.id = audio.id
=============================================================================
