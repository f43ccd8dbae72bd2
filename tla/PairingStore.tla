---------------------------- MODULE PairingStore ----------------------------
(***************************************************************************)
(* The two files that say which TV is configured and how to log in to it:  *)
(* config.env and the access token, and the transactions that write them.  *)
(* They take the same advisory lock, at different times:                   *)
(*   pair     the first pairing, locked from before the network to the end *)
(*   unpair   removes the profile and its token, locked throughout         *)
(*   login    a foreground command that pairs a TV that asks for it again; *)
(*            it locks only to store the token                             *)
(*   set      a settings change, and its undo when it cannot be applied    *)
(*   migrate  the verified migration, locked to capture and to commit      *)
(*   convert  the conversion of an old config at startup                   *)
(* Each is one process here and runs once.  Somebody may edit config.env   *)
(* by hand, without the lock, a process may be killed at any step, and     *)
(* every step on the files may fail.  Files are compared by contents.      *)
(***************************************************************************)
EXTENDS FiniteSets, Naturals

CONSTANTS
    Target,      \* the TV that pair is asked to pair
    Concurrent,  \* transactions that run together
    MaxEdits,    \* edits by hand
    MaxCrashes   \* processes killed

VARIABLES
    config,      \* config.env: the TV, its platform and one other setting
    token,       \* the access token file: NoToken or the TV that issued it and to whom
    lock,        \* the process that holds the pairing lock, or "none"
    pc, snap,    \* of each process: its next step, the files as it captured them,
    got,         \* and the token it was given
    gate,        \* StepCancellation of pair and migrate
    expected,    \* the profile on the screen when unpair was confirmed
    endpoint,    \* the TV that login connects to
    wrote, told, \* history: the processes that have written one of the files, and those
                 \* whose cancellation was accepted
    edits, crashes

vars == <<config, token, lock, pc, snap, got, gate, expected, endpoint, wrote, told,
          edits, crashes>>

Procs == {"pair", "unpair", "login", "set", "migrate", "convert"}
Ended == {"absent", "ok", "failed", "cancelled", "rollback_failed", "indeterminate", "crashed"}

Profiles == {[tv |-> "none", platform |-> "none"]}
            \cup [tv : {"a", "b"}, platform : {"legacy", "webos"}]
Configs == [profile : Profiles, setting : {"old", "new"}]

NoToken == [tv |-> "none", by |-> "none"]
Issued(tv, p) == [tv |-> tv, by |-> p]

NoTv(c) == c.profile.tv = "none"
Stale(c) == c.profile.platform = "legacy"
Paired(c, tv) == [c EXCEPT !.profile = [tv |-> tv, platform |-> "webos"]]
remove_primary_config_keys(c) == [c EXCEPT !.profile = [tv |-> "none", platform |-> "none"]]
MigrationCandidate(c) == [c EXCEPT !.profile.platform = "webos"]

-----------------------------------------------------------------------------
(* The lock, the cancellation gate and the ends of a transaction.          *)

Go(p, where) == pc' = [pc EXCEPT ![p] = where]

\* The kernel releases the lock when its holder returns or dies.
End(p, how) == Go(p, how) /\ lock' = IF lock = p THEN "none" ELSE lock

\* PairingLock::acquire does not wait: a lock that is held is an error.
Lock(p) == lock = "none" /\ lock' = p
Busy(p) == lock # "none" /\ End(p, "failed")

Capture(p) == snap' = [snap EXCEPT ![p] = [config |-> config, token |-> token]]

Same(p) == config = snap[p].config /\ token = snap[p].token

WriteConfig(p, c) == config' = c /\ wrote' = wrote \cup {p}
WriteToken(p, t) == token' = t /\ wrote' = wrote \cup {p}

\* StepCancellation: cancel and begin swap the same cell, so one of them wins.
begin(p) == gate[p] = "available"
cancel(p) ==
    /\ gate[p] = "available"
    /\ gate' = [gate EXCEPT ![p] = "cancelled"]
    /\ told' = told \cup {p}
    /\ UNCHANGED <<config, token, lock, pc, snap, got, expected, endpoint, wrote, edits, crashes>>

\* At the commit boundary the transaction goes on, or finds that it was cancelled.
Begin(p, where) ==
    IF begin(p)
    THEN gate' = [gate EXCEPT ![p] = "running"] /\ Go(p, where) /\ UNCHANGED lock
    ELSE End(p, "cancelled") /\ UNCHANGED gate

files == <<config, token, wrote>>
locals == <<snap, got, endpoint>>
rest == <<expected, told, edits, crashes>>

-----------------------------------------------------------------------------
(* pair: pair_and_save, PairingStore::prepare_pairing and commit.          *)

Mismatch(c) == ~NoTv(c) /\ c.profile # [tv |-> Target, platform |-> "webos"]

PairStart ==
    /\ pc["pair"] = "start"
    /\ IF gate["pair"] = "cancelled" THEN End("pair", "cancelled")
       ELSE IF Mismatch(config) THEN End("pair", "failed")
       ELSE IF ~NoTv(config) /\ token # NoToken THEN End("pair", "ok")
       ELSE Go("pair", "prepare") /\ UNCHANGED lock
    /\ UNCHANGED <<files, locals, gate, rest>>

PairPrepare ==
    /\ pc["pair"] = "prepare"
    /\ \/ Busy("pair") /\ UNCHANGED snap
       \/ Lock("pair") /\ ~Mismatch(config) /\ Capture("pair") /\ Go("pair", "authenticate")
       \/ lock = "none" /\ Mismatch(config) /\ End("pair", "failed") /\ UNCHANGED snap
    /\ UNCHANGED <<files, got, endpoint, gate, rest>>

PairAuthenticate ==
    /\ pc["pair"] = "authenticate"
    /\ \/ got' = [got EXCEPT !["pair"] = Issued(Target, "pair")] /\ Go("pair", "begin")
          /\ UNCHANGED lock
       \/ End("pair", IF gate["pair"] = "cancelled" THEN "cancelled" ELSE "failed")
          /\ UNCHANGED got
    /\ UNCHANGED <<files, snap, endpoint, gate, rest>>

PairBegin ==
    /\ pc["pair"] = "begin"
    /\ Begin("pair", "check")
    /\ UNCHANGED <<files, locals, rest>>

PairCheck ==
    /\ pc["pair"] = "check"
    /\ IF config = snap["pair"].config THEN Go("pair", "persist") /\ UNCHANGED lock
       ELSE End("pair", "failed")
    /\ UNCHANGED <<files, locals, gate, rest>>

PairPersist ==
    /\ pc["pair"] = "persist"
    /\ WriteToken("pair", got["pair"]) /\ Go("pair", "recheck")
    /\ UNCHANGED <<config, lock, locals, gate, rest>>

PairRecheck ==
    /\ pc["pair"] = "recheck"
    /\ Go("pair", IF config = snap["pair"].config THEN "write" ELSE "rollback")
    /\ UNCHANGED <<files, lock, locals, gate, rest>>

PairWrite ==
    /\ pc["pair"] = "write"
    /\ WriteConfig("pair", Paired(snap["pair"].config, Target)) /\ End("pair", "ok")
    /\ UNCHANGED <<token, locals, gate, rest>>

restore_tokenMutant(p) == token
\* restore_token puts back what was there before, which may be no token.
restore_token(p) == snap[p].token

PairRollback ==
    /\ pc["pair"] = "rollback"
    /\ WriteToken("pair", restore_token("pair")) /\ End("pair", "failed")
    /\ UNCHANGED <<config, locals, gate, rest>>

-----------------------------------------------------------------------------
(* unpair: manage_at and PairingStore::unpair.                             *)

validate_primary_identity(c) == ~NoTv(c) /\ c.profile = expected

UnpairStart ==
    /\ pc["unpair"] = "start"
    /\ IF ~NoTv(config) /\ config.profile = expected THEN Go("unpair", "prepare") /\ UNCHANGED lock
       ELSE End("unpair", "failed")
    /\ UNCHANGED <<files, locals, gate, rest>>

UnpairPrepare ==
    /\ pc["unpair"] = "prepare"
    /\ \/ Busy("unpair") /\ UNCHANGED snap
       \/ Lock("unpair") /\ Capture("unpair") /\ Go("unpair", "check")
    /\ UNCHANGED <<files, got, endpoint, gate, rest>>

UnpairCheck ==
    /\ pc["unpair"] = "check"
    /\ IF Same("unpair") /\ validate_primary_identity(config)
       THEN Go("unpair", "remove") /\ UNCHANGED lock
       ELSE End("unpair", "failed")
    /\ UNCHANGED <<files, locals, gate, rest>>

UnpairRemove ==
    /\ pc["unpair"] = "remove"
    /\ token = snap["unpair"].token
    /\ WriteToken("unpair", NoToken) /\ Go("unpair", "recheck")
    /\ UNCHANGED <<config, lock, locals, gate, rest>>

UnpairRecheck ==
    /\ pc["unpair"] = "recheck"
    /\ Go("unpair", IF config = snap["unpair"].config /\ validate_primary_identity(config)
                       /\ token = NoToken
                    THEN "write" ELSE "rollback")
    /\ UNCHANGED <<files, lock, locals, gate, rest>>

UnpairWrite ==
    /\ pc["unpair"] = "write"
    /\ WriteConfig("unpair", remove_primary_config_keys(snap["unpair"].config))
    /\ End("unpair", "ok")
    /\ UNCHANGED <<token, locals, gate, rest>>

\* restore_unpaired_token: a token that has appeared meanwhile is not overwritten.
UnpairRollback ==
    /\ pc["unpair"] = "rollback"
    /\ IF token = NoToken THEN WriteToken("unpair", restore_token("unpair")) ELSE UNCHANGED <<token, wrote>>
    /\ End("unpair", IF token' = restore_token("unpair") \/ restore_token("unpair") = NoToken
                     THEN "failed" ELSE "rollback_failed")
    /\ UNCHANGED <<config, locals, gate, rest>>

-----------------------------------------------------------------------------
(* login: connect_authenticated, get_or_acquire and acquire_and_persist.   *)

\* The command loads the config and builds its client for the address in it.
LoginStart ==
    /\ pc["login"] = "start"
    /\ ~NoTv(config) /\ ~Stale(config)
    /\ endpoint' = config.profile.tv /\ Go("login", "snapshot")
    /\ UNCHANGED <<files, lock, snap, got, gate, rest>>

LoginSnapshot ==
    /\ pc["login"] = "snapshot"
    /\ Capture("login") /\ Go("login", "load")
    /\ UNCHANGED <<files, lock, got, endpoint, gate, rest>>

\* A stored token logs in, unless the TV asks to pair again, which it does for a token it
\* has not issued.
LoginLoad ==
    /\ pc["login"] = "load"
    /\ \/ token # NoToken /\ token.tv = endpoint /\ End("login", "ok")
       \/ Go("login", "acquire") /\ UNCHANGED lock
    /\ UNCHANGED <<files, locals, gate, rest>>

LoginAcquire ==
    /\ pc["login"] = "acquire"
    /\ \/ got' = [got EXCEPT !["login"] = Issued(endpoint, "login")] /\ Go("login", "lock")
       \/ Go("login", "failed") /\ UNCHANGED got
    /\ UNCHANGED <<files, lock, snap, endpoint, gate, rest>>

unchangedMutant(p) == TRUE
\* The files are as they were before anything went over the network.
unchanged(p) == Same(p)

LoginLock ==
    /\ pc["login"] = "lock"
    /\ \/ Busy("login")
       \/ Lock("login") /\ Go("login", "compare")
    /\ UNCHANGED <<files, locals, gate, rest>>

LoginCompare ==
    /\ pc["login"] = "compare"
    /\ IF unchanged("login") THEN Go("login", "persist") /\ UNCHANGED lock
       ELSE End("login", "failed")
    /\ UNCHANGED <<files, locals, gate, rest>>

LoginPersist ==
    /\ pc["login"] = "persist"
    /\ WriteToken("login", got["login"]) /\ End("login", "ok")
    /\ UNCHANGED <<config, locals, gate, rest>>

-----------------------------------------------------------------------------
(* set: persist_settings_mutation and rollback_if_unchanged.               *)

SetLoad ==
    /\ pc["set"] = "start"
    /\ \/ Busy("set") /\ UNCHANGED snap
       \/ Lock("set") /\ Capture("set") /\ Go("set", "save")
    /\ UNCHANGED <<files, got, endpoint, gate, rest>>

\* The way the screen is watched, or the address of the TV.
Automatic(c) == [c EXCEPT !.setting = "new"]
Readdressed(c) == [c EXCEPT !.profile.tv = "b"]

\* A change of the address is done once it is saved.  The change to automatic watching is
\* then applied, without the lock, and undone if that fails.
SetSave ==
    /\ pc["set"] = "save"
    /\ IF config = snap["set"].config
       THEN \/ WriteConfig("set", Automatic(config)) /\ End("set", "apply")
            \/ ~NoTv(config) /\ WriteConfig("set", Readdressed(config)) /\ End("set", "ok")
       ELSE End("set", "failed") /\ UNCHANGED <<config, wrote>>
    /\ UNCHANGED <<token, locals, gate, rest>>

SetApply ==
    /\ pc["set"] = "apply"
    /\ \E how \in {"ok", "undo"} : Go("set", how)
    /\ UNCHANGED <<files, lock, locals, gate, rest>>

\* Nobody has written since: the file still holds what the change published.
Published == config = Automatic(snap["set"].config)

SetUndoLock ==
    /\ pc["set"] = "undo"
    /\ \/ Busy("set")
       \/ Lock("set") /\ Go("set", "restore")
    /\ UNCHANGED <<files, locals, gate, rest>>

SetRestore ==
    /\ pc["set"] = "restore"
    /\ IF Published THEN WriteConfig("set", snap["set"].config) ELSE UNCHANGED <<config, wrote>>
    /\ End("set", "failed")
    /\ UNCHANGED <<token, locals, gate, rest>>

-----------------------------------------------------------------------------
(* migrate: MigrationSnapshot::capture, the in-memory preparation of       *)
(* MigrationFlow, commit_with and publish.                                 *)

MigrateCapture ==
    /\ pc["migrate"] = "start"
    /\ IF lock = "none" /\ Stale(config)
       THEN Capture("migrate") /\ Go("migrate", "prepare")
       ELSE Go("migrate", "failed") /\ UNCHANGED snap
    /\ UNCHANGED <<files, lock, got, endpoint, gate, rest>>

\* The captured token is verified, or the TV asks to pair again; no lock is held.
MigratePrepare ==
    /\ pc["migrate"] = "prepare"
    /\ LET tv == snap["migrate"].config.profile.tv IN
         \/ /\ snap["migrate"].token.tv = tv
            /\ got' = [got EXCEPT !["migrate"] = snap["migrate"].token] /\ Go("migrate", "lock")
         \/ /\ got' = [got EXCEPT !["migrate"] = Issued(tv, "migrate")] /\ Go("migrate", "lock")
         \/ Go("migrate", "failed") /\ UNCHANGED got
    /\ UNCHANGED <<files, lock, snap, endpoint, gate, rest>>

MigrateLock ==
    /\ pc["migrate"] = "lock"
    /\ IF gate["migrate"] = "cancelled" THEN End("migrate", "cancelled")
       ELSE Busy("migrate") \/ (Lock("migrate") /\ Go("migrate", "check"))
    /\ UNCHANGED <<files, locals, gate, rest>>

check_configMutant(p) == TRUE
check_config(p) == config = snap[p].config
same_credential(t) == token = t

MigrateCheck ==
    /\ pc["migrate"] = "check"
    /\ IF check_config("migrate") /\ same_credential(snap["migrate"].token)
       THEN Go("migrate", "begin") /\ UNCHANGED lock
       ELSE End("migrate", "failed")
    /\ UNCHANGED <<files, locals, gate, rest>>

\* The new config is staged; it is compared once more before the gate.
MigrateBegin ==
    /\ pc["migrate"] = "begin"
    /\ IF check_config("migrate") THEN Begin("migrate", "persist")
       ELSE End("migrate", "failed") /\ UNCHANGED gate
    /\ UNCHANGED <<files, locals, rest>>

\* A token that is already there is not written again.  One that was written although the
\* write reports an error is found by reading it, and rolled back; if that read fails too,
\* it stays.
MigratePersist ==
    /\ pc["migrate"] = "persist"
    /\ \/ got["migrate"] = snap["migrate"].token /\ Go("migrate", "barrier")
          /\ UNCHANGED <<token, wrote, lock>>
       \/ /\ got["migrate"] # snap["migrate"].token /\ WriteToken("migrate", got["migrate"])
          /\ \/ \E next \in {"barrier", "rollback"} : Go("migrate", next) /\ UNCHANGED lock
             \/ End("migrate", "failed")
    /\ UNCHANGED <<config, locals, gate, rest>>

MigrateBarrier ==
    /\ pc["migrate"] = "barrier"
    /\ Go("migrate", IF check_config("migrate") /\ same_credential(got["migrate"])
                     THEN "publish" ELSE "rollback")
    /\ UNCHANGED <<files, lock, locals, gate, rest>>

\* The rename is the commit point, whatever it reports: after an error the file is read.
MigratePublish ==
    /\ pc["migrate"] = "publish"
    /\ WriteConfig("migrate", MigrationCandidate(snap["migrate"].config))
    /\ \E how \in {"ok", "reread"} : Go("migrate", how) /\ lock' = IF how = "ok" THEN "none" ELSE lock
    /\ UNCHANGED <<token, locals, gate, rest>>

MigrateReread ==
    /\ pc["migrate"] = "reread"
    /\ IF config = MigrationCandidate(snap["migrate"].config) THEN End("migrate", "ok")
       ELSE IF config = snap["migrate"].config THEN Go("migrate", "rollback") /\ UNCHANGED lock
       ELSE End("migrate", "indeterminate")
    /\ UNCHANGED <<files, locals, gate, rest>>

\* A token of ours goes back only under the config it was captured with, and only if it is
\* still there.
MigrateRollback ==
    /\ pc["migrate"] = "rollback"
    /\ IF got["migrate"] = snap["migrate"].token THEN End("migrate", "failed")
       ELSE IF config # snap["migrate"].config THEN End("migrate", "indeterminate")
       ELSE Go("migrate", "restore") /\ UNCHANGED lock
    /\ UNCHANGED <<files, locals, gate, rest>>

MigrateRestore ==
    /\ pc["migrate"] = "restore"
    /\ IF same_credential(got["migrate"])
       THEN WriteToken("migrate", restore_token("migrate")) /\ End("migrate", "failed")
       ELSE End("migrate", "rollback_failed") /\ UNCHANGED <<token, wrote>>
    /\ UNCHANGED <<config, locals, gate, rest>>

-----------------------------------------------------------------------------
(* convert: migrate_config.                                                *)

ConvertInspect ==
    /\ pc["convert"] = "start"
    /\ Go("convert", IF Stale(config) THEN "lock" ELSE "ok")
    /\ UNCHANGED <<files, lock, locals, gate, rest>>

\* The lock is tried for a second; under it the file is inspected again.
ConvertLock ==
    /\ pc["convert"] = "lock"
    /\ \/ Busy("convert") /\ UNCHANGED snap
       \/ lock = "none" /\ ~Stale(config) /\ End("convert", "ok") /\ UNCHANGED snap
       \/ Lock("convert") /\ Stale(config) /\ Capture("convert") /\ Go("convert", "check")
    /\ UNCHANGED <<files, got, endpoint, gate, rest>>

ConvertCheck ==
    /\ pc["convert"] = "check"
    /\ IF check_config("convert") THEN Go("convert", "publish") /\ UNCHANGED lock
       ELSE End("convert", "failed")
    /\ UNCHANGED <<files, locals, gate, rest>>

\* Startup goes on only with the config that was published.
ConvertPublish ==
    /\ pc["convert"] = "publish"
    /\ WriteConfig("convert", MigrationCandidate(snap["convert"].config)) /\ Go("convert", "reload")
    /\ UNCHANGED <<token, lock, locals, gate, rest>>

ConvertReload ==
    /\ pc["convert"] = "reload"
    /\ End("convert", IF config = MigrationCandidate(snap["convert"].config) THEN "ok" ELSE "indeterminate")
    /\ UNCHANGED <<files, locals, gate, rest>>

-----------------------------------------------------------------------------
(* What goes wrong.                                                        *)

\* A step on the files fails: before anything is written the transaction ends, after that
\* it rolls back, and a rollback that fails is reported as one.
Failure(p) ==
    CASE pc[p] \in {"recheck", "write", "barrier"} -> "rollback"
      [] p = "migrate" /\ pc[p] = "publish" -> "reread"
      [] pc[p] = "rollback" \/ (p = "migrate" /\ pc[p] = "restore") -> "rollback_failed"
      [] OTHER -> "failed"

IoError(p) ==
    /\ pc[p] \in {"prepare", "check", "persist", "recheck", "remove", "write", "barrier",
                  "publish", "rollback", "save", "compare", "restore"}
    /\ ~(p = "migrate" /\ pc[p] = "prepare")
    /\ IF Failure(p) \in Ended THEN End(p, Failure(p)) ELSE Go(p, Failure(p)) /\ UNCHANGED lock
    /\ UNCHANGED <<files, locals, gate, rest>>

Crash(p) ==
    /\ crashes < MaxCrashes /\ crashes' = crashes + 1
    /\ pc[p] \notin Ended /\ pc[p] # "start"
    /\ End(p, "crashed")
    /\ UNCHANGED <<files, locals, gate, expected, told, edits>>

\* An editor saves config.env.
Edit ==
    /\ edits < MaxEdits /\ edits' = edits + 1
    /\ config' \in {Automatic(config)} \cup (IF NoTv(config) THEN {} ELSE {Readdressed(config)})
    /\ config' # config
    /\ UNCHANGED <<token, lock, pc, locals, gate, expected, wrote, told, crashes>>

-----------------------------------------------------------------------------
Init ==
    /\ config \in [profile : Profiles \ [tv : {"b"}, platform : {"legacy", "webos"}], setting : {"old"}]
    /\ token \in {NoToken} \cup (IF NoTv(config) THEN {} ELSE {Issued("a", "before")})
    /\ lock = "none" /\ endpoint = "none" /\ expected = config.profile
    /\ \E running \in {P \in SUBSET Procs : Cardinality(P) = Concurrent} :
         pc = [p \in Procs |-> IF p \in running THEN "start" ELSE "absent"]
    /\ snap = [p \in Procs |-> [config |-> config, token |-> token]]
    /\ got = [p \in Procs |-> NoToken]
    /\ gate = [p \in {"pair", "migrate"} |-> "available"]
    /\ wrote = {} /\ told = {} /\ edits = 0 /\ crashes = 0

Pair == PairStart \/ PairPrepare \/ PairAuthenticate \/ PairBegin \/ PairCheck \/ PairPersist
        \/ PairRecheck \/ PairWrite \/ PairRollback
Unpair == UnpairStart \/ UnpairPrepare \/ UnpairCheck \/ UnpairRemove \/ UnpairRecheck
          \/ UnpairWrite \/ UnpairRollback
Login == LoginStart \/ LoginSnapshot \/ LoginLoad \/ LoginAcquire \/ LoginLock \/ LoginCompare
         \/ LoginPersist
Set == SetLoad \/ SetSave \/ SetApply \/ SetUndoLock \/ SetRestore
Migrate == MigrateCapture \/ MigratePrepare \/ MigrateLock \/ MigrateCheck \/ MigrateBegin
           \/ MigratePersist \/ MigrateBarrier \/ MigratePublish \/ MigrateReread
           \/ MigrateRollback \/ MigrateRestore
Convert == ConvertInspect \/ ConvertLock \/ ConvertCheck \/ ConvertPublish \/ ConvertReload

Next ==
    \/ Pair \/ Unpair \/ Login \/ Set \/ Migrate \/ Convert
    \/ \E p \in {"pair", "migrate"} : cancel(p)
    \/ \E p \in Procs : IoError(p) \/ Crash(p)
    \/ Edit

Spec == Init /\ [][Next]_vars

-----------------------------------------------------------------------------
(* Correctness.                                                            *)

\* A token is stored only under the configuration its transaction captured before it went
\* to the network, as long as everybody who writes config.env takes the lock.
TokenStep ==
    \A p \in {"pair", "login", "migrate"} :
      edits' = 0 /\ pc'[p] # pc[p] /\ token' # token /\ token'.by = p => config = snap[p].config
TokenGoesToItsConfig == [][TokenStep]_vars

\* No transaction undoes what another has changed: only set touches the other setting, only
\* pair, unpair and set change the TV, and set changes one of the two.
UpdateStep ==
    edits' = 0 /\ config' # config =>
      LET by == {p \in Procs : pc'[p] # pc[p]} IN
        /\ config'.setting # config.setting => by = {"set"} /\ config'.profile = config.profile
        /\ config'.profile.tv # config.profile.tv => by \subseteq {"set", "pair", "unpair"}
NoLostUpdate == [][UpdateStep]_vars

\* A pairing or an unpairing that fails leaves no trace: the token and the config are the
\* ones it found, as long as the rollback could be done and nobody has written since.
FailureStep ==
    \A p \in {"pair", "unpair", "login"} :
      pc[p] \notin Ended /\ pc'[p] = "failed" /\ p \in wrote' =>
        token' = snap[p].token /\ (edits' = 0 => config' = snap[p].config)
FailureLeavesNoTrace == [][FailureStep]_vars

\* A cancellation that was accepted is final: the transaction has written nothing and never
\* will (StepCancellation).
CancelIsFinal == told \cap wrote = {}

\* Unpairing removes only the profile that was on the screen when it was confirmed, and
\* with it the credential, so that a stale caller cannot erase a newly selected TV.
UnpairStep ==
    edits' = 0 /\ pc'["unpair"] # pc["unpair"] /\ "unpair" \in wrote' =>
      /\ token' # token => config.profile = expected
      /\ config' # config => config.profile = expected /\ token' = NoToken
UnpairTakesWhatWasShown == [][UnpairStep]_vars

\* The verified migration publishes the new config only with the token that it has verified
\* against that TV in place.
MigrationStep ==
    edits' = 0 /\ pc["migrate"] = "publish" /\ config' # config =>
      token = got["migrate"] /\ token.tv = config'.profile.tv
MigrationIsVerified == [][MigrationStep]_vars

=============================================================================
