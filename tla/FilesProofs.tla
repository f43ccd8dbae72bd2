------------------------- MODULE FilesProofs -------------------------
(***************************************************************************)
(* The inductive invariants of the two parts of the application that write *)
(* the files of the configuration: the transactions of PairingStore, and   *)
(* the settings page (SettingsView). Each comes with the lemmas that its   *)
(* steps keep it. ApplicationProofs has these parts beside the others, and *)
(* the theorems about them.                                                *)
(***************************************************************************)
EXTENDS Integers, Sequences, TLAPS

-----------------------------------------------------------------------------
(***************************************************************************)
(* The pairing files, for any number of transactions at once, of edits by  *)
(* hand and of crashes, and whichever TV is paired. Who holds the lock is  *)
(* known from where each transaction is; while it holds the lock nobody    *)
(* else writes, and so what it compared stays true.                        *)
(***************************************************************************)

CONSTANTS Target, Concurrent, MaxFileEdits, MaxCrashes

VARIABLES
    f_config, f_token, f_lock, f_pc, f_snap, f_got, f_gate, f_expected, f_endpoint, f_wrote,
    f_told, f_edits, f_crashes

Files == INSTANCE PairingStore WITH
    MaxEdits <- MaxFileEdits, config <- f_config, token <- f_token, lock <- f_lock,
    pc <- f_pc, snap <- f_snap, got <- f_got, gate <- f_gate, expected <- f_expected,
    endpoint <- f_endpoint, wrote <- f_wrote, told <- f_told, edits <- f_edits,
    crashes <- f_crashes

Tvs == {"none", "a", "b", Target}
Config == [profile : [tv : Tvs, platform : {"none", "legacy", "webos"}], setting : {"old", "new"}]
Token == [tv : Tvs, by : Files!Procs \cup {"none", "before"}]

Labels ==
    {"start", "prepare", "authenticate", "begin", "check", "persist", "recheck", "write", "rollback",
     "remove", "snapshot", "load", "acquire", "lock", "compare", "save", "apply", "undo", "restore",
     "barrier", "publish", "reread", "reload"} \cup Files!Ended

FilesTyped ==
    /\ f_config \in Config /\ f_token \in Token
    /\ f_lock \in Files!Procs \cup {"none"}
    /\ f_pc \in [Files!Procs -> Labels]
    /\ f_snap \in [Files!Procs -> [config : Config, token : Token]]
    /\ f_got \in [Files!Procs -> Token]
    /\ f_gate \in [{"pair", "migrate"} -> {"available", "running", "cancelled"}]
    /\ f_endpoint \in Tvs
    /\ f_wrote \subseteq Files!Procs /\ f_told \subseteq {"pair", "migrate"}
    /\ f_edits \in Nat

-----------------------------------------------------------------------------
(* What is known of a transaction from where it is.                        *)

\* It holds the lock.
Locked(p) ==
    CASE p = "pair" -> {"authenticate", "begin", "check", "persist", "recheck", "write", "rollback"}
      [] p = "unpair" -> {"check", "remove", "recheck", "write", "rollback"}
      [] p = "login" -> {"compare", "persist"}
      [] p = "set" -> {"save", "restore"}
      [] p = "migrate" -> {"check", "begin", "persist", "barrier", "publish", "reread", "rollback",
         "restore"}
      [] p = "convert" -> {"check", "publish", "reload"}

\* The config is the one that it captured, unless somebody edits it by hand.
Kept(p) ==
    CASE p = "pair" -> {"authenticate", "begin", "check", "persist", "recheck", "write", "rollback"}
      [] p = "unpair" -> {"check", "remove", "recheck", "write", "rollback"}
      [] p = "login" -> {"persist"}
      [] p = "set" -> {"save"}
      [] p = "migrate" -> {"begin", "persist", "barrier", "publish", "rollback", "restore"}
      [] p = "convert" -> {"check", "publish"}

\* The token is the one that it captured, or the one that it has put in its place.
Before(p) ==
    CASE p = "pair" -> {"authenticate", "begin", "check", "persist"}
      [] p = "unpair" -> {"check", "remove"}
      [] p = "migrate" -> {"begin", "persist"}
      [] OTHER -> {}
After(p) ==
    CASE p \in {"pair", "unpair"} -> {"recheck", "write", "rollback"}
      [] p = "migrate" -> {"barrier", "publish", "reread", "rollback", "restore"}
      [] OTHER -> {}
Placed(p) == IF p = "unpair" THEN Files!NoToken ELSE f_got[p]

\* It has written nothing.
Unwritten(p) ==
    CASE p = "pair" -> {"start", "prepare", "authenticate", "begin", "check", "persist"}
      [] p = "unpair" -> {"start", "prepare", "check", "remove"}
      [] p = "login" -> {"start", "snapshot", "load", "acquire", "lock", "compare", "persist"}
      [] OTHER -> {}

\* It is past its cancellation gate.
Committed(p) ==
    CASE p = "pair" -> {"check", "persist", "recheck", "write", "rollback"}
      [] p = "migrate" -> {"persist", "barrier", "publish", "reread", "rollback", "restore"}
      [] OTHER -> {}

FilesKnown(p) ==
    /\ f_pc[p] \in {"recheck", "write"} => p \in {"pair", "unpair"}
    /\ f_pc[p] = "barrier" => p = "migrate"
    /\ p \in {"pair", "unpair", "login"} => f_pc[p] \in Unwritten(p) \cup After(p) \cup Files!Ended
    /\ f_pc[p] \in Locked(p) <=> f_lock = p
    /\ f_pc[p] \in Kept(p) /\ f_edits = 0 => f_config = f_snap[p].config
    /\ f_pc[p] \in Before(p) => f_token = f_snap[p].token
    /\ f_pc[p] \in After(p) => f_token = Placed(p)
    /\ f_pc[p] \in Unwritten(p) => p \notin f_wrote
    /\ p \in {"pair", "migrate"} =>
          /\ f_pc[p] \in Committed(p) \/ p \in f_wrote => f_gate[p] = "running"
          /\ p \in f_told => f_gate[p] = "cancelled"
    /\ p = "unpair" /\ f_pc[p] \in {"remove", "recheck", "write", "rollback"} =>
          f_snap[p].config.profile = f_expected
    /\ p = "migrate" /\ f_pc[p] \in {"lock"} \cup Locked(p) => f_got[p].tv = f_snap[p].config.profile.tv

AllKnown == \A p \in Files!Procs : FilesKnown(p)
FilesInv == FilesTyped /\ AllKnown

-----------------------------------------------------------------------------
(* What the transactions make of a config, and of the others.              *)

\* A candidate config is a config, and each transaction changes only its own part of it.
LEMMA ConfigTypes ==
  ASSUME NEW c \in Config
  PROVE  /\ Files!Paired(c, Target) \in Config /\ Files!Paired(c, Target).setting = c.setting
         /\ Files!remove_primary_config_keys(c) \in Config /\ Files!remove_primary_config_keys(c).setting = c.setting
         /\ Files!MigrationCandidate(c) \in Config /\ Files!MigrationCandidate(c).setting = c.setting
         /\ Files!MigrationCandidate(c).profile.tv = c.profile.tv
         /\ Files!Automatic(c) \in Config /\ Files!Automatic(c).profile = c.profile
         /\ Files!Readdressed(c) \in Config /\ Files!Readdressed(c).setting = c.setting
  BY Zenon DEF Config, Tvs, Files!Paired, Files!remove_primary_config_keys,
     Files!MigrationCandidate, Files!Automatic,
     Files!Readdressed

\* The tokens that the TV issues, and the missing one, are tokens.
LEMMA TokenTypes ==
  /\ Files!NoToken \in Token
  /\ \A tv \in Tvs, p \in Files!Procs : Files!Issued(tv, p) \in Token /\ Files!Issued(tv, p).tv = tv
  /\ \A t \in Token : t.tv \in Tvs
  BY DEF Files!NoToken, Files!Issued, Token, Tvs

\* A transaction that has compared or written holds the lock.
LEMMA Places ==
  ASSUME NEW p \in Files!Procs
  PROVE  Kept(p) \subseteq Locked(p) /\ Before(p) \subseteq Locked(p) /\ After(p) \subseteq Locked(p)
  BY DEF Files!Procs, Kept, Before, After, Locked

\* A step of p leaves the rest alone; it writes only under the lock.
Frame(p) ==
    /\ \A q \in Files!Procs \ {p} :
          /\ f_pc'[q] = f_pc[q] /\ f_snap'[q] = f_snap[q] /\ f_got'[q] = f_got[q]
          /\ q \in f_wrote' <=> q \in f_wrote
          /\ q \in {"pair", "migrate"} => f_gate'[q] = f_gate[q]
    /\ UNCHANGED <<f_expected, f_told, f_edits>>
    /\ f_lock' = f_lock \/ {f_lock, f_lock'} \subseteq {p, "none"}
    /\ UNCHANGED <<f_config, f_token>> \/ f_lock = p

\* What the others know survives a step of p: they wait for the lock, or nothing they know of
\* changed.
LEMMA OthersKnow ==
  ASSUME FilesInv, NEW p \in Files!Procs, Frame(p), FilesTyped', FilesKnown(p)'
  PROVE  FilesInv'
  <1> SUFFICES ASSUME NEW q \in Files!Procs, q # p PROVE FilesKnown(q)'
    BY DEF FilesInv, AllKnown
  <1>1. /\ f_pc'[q] = f_pc[q] /\ f_snap'[q] = f_snap[q] /\ f_got'[q] = f_got[q]
        /\ q \in f_wrote' <=> q \in f_wrote
        /\ q \in {"pair", "migrate"} => f_gate'[q] = f_gate[q]
        /\ UNCHANGED <<f_expected, f_told, f_edits>>
        /\ f_lock' = q <=> f_lock = q
        /\ f_lock = q => UNCHANGED <<f_config, f_token>>
    BY DEF Frame, Files!Procs
  <1>2. FilesKnown(q)
    BY DEF FilesInv, AllKnown
  <1>3. Kept(q) \subseteq Locked(q) /\ Before(q) \subseteq Locked(q) /\ After(q) \subseteq Locked(q)
    BY Places
  <1>4. Placed(q)' = Placed(q)
    BY <1>1 DEF Placed
  <1>5. /\ f_pc'[q] \in Locked(q) <=> f_lock' = q
        /\ f_pc'[q] \in Kept(q) /\ f_edits' = 0 => f_config' = f_snap'[q].config
        /\ f_pc'[q] \in Before(q) => f_token' = f_snap'[q].token
        /\ f_pc'[q] \in After(q) => f_token' = Placed(q)'
    BY <1>1, <1>2, <1>3, <1>4 DEF FilesKnown
  <1>6. /\ f_pc'[q] \in {"recheck", "write"} => q \in {"pair", "unpair"}
        /\ f_pc'[q] = "barrier" => q = "migrate"
        /\ q \in {"pair", "unpair", "login"} => f_pc'[q] \in Unwritten(q) \cup After(q) \cup Files!Ended
        /\ f_pc'[q] \in Unwritten(q) => q \notin f_wrote'
        /\ q \in {"pair", "migrate"} =>
              /\ f_pc'[q] \in Committed(q) \/ q \in f_wrote' => f_gate'[q] = "running"
              /\ q \in f_told' => f_gate'[q] = "cancelled"
        /\ q = "unpair" /\ f_pc'[q] \in {"remove", "recheck", "write", "rollback"} =>
              f_snap'[q].config.profile = f_expected'
        /\ q = "migrate" /\ f_pc'[q] \in {"lock"} \cup Locked(q) => f_got'[q].tv = f_snap'[q].config.profile.tv
    BY <1>1, <1>2 DEF FilesKnown
  <1> QED
    BY <1>5, <1>6 DEF FilesKnown

-----------------------------------------------------------------------------
(* pair.                                                                   *)

\* Every step of a pairing keeps the invariant.
LEMMA PairKeeps ==
  ASSUME FilesInv, Files!Pair
  PROVE  FilesInv'
  <1> DEFINE p == "pair"
  <1> USE DEF Files!files, Files!locals, Files!rest
  <1>1. p \in Files!Procs /\ FilesTyped /\ FilesKnown(p)
    BY DEF FilesInv, AllKnown, Files!Procs
  <1>2. CASE Files!PairStart
    <2>1. Frame(p)
      BY <1>1, <1>2 DEF Files!PairStart, Frame, FilesTyped, FilesKnown, Locked, Files!End,
         Files!Go, Files!Mismatch, Files!NoTv
    <2>2. FilesTyped'
      BY <1>1, <1>2 DEF Files!PairStart, FilesTyped, Labels, Files!Ended, Files!End, Files!Go,
         Files!Mismatch, Files!NoTv
    <2>3. FilesKnown(p)'
      BY <1>1, <1>2 DEF Files!PairStart, FilesTyped, Files!End, Files!Go, Files!Mismatch,
         Files!NoTv, FilesKnown, Locked, Kept, Before, After,
         Placed, Unwritten, Committed, Files!Ended
    <2> QED
      BY <1>1, <2>1, <2>2, <2>3, OthersKnow
  <1>3. CASE Files!PairPrepare
    <2>1. Frame(p)
      BY <1>1, <1>3 DEF Files!PairPrepare, Frame, FilesTyped, FilesKnown, Locked, Files!End,
         Files!Go, Files!Lock, Files!Busy, Files!Capture,
         Files!Mismatch, Files!NoTv
    <2>2. FilesTyped'
      <3>1. f_snap' \in [Files!Procs -> [config : Config, token : Token]]
        BY <1>1, <1>3 DEF Files!PairPrepare, FilesTyped, Files!Capture
      <3>2. f_pc' \in [Files!Procs -> Labels] /\ f_lock' \in Files!Procs \cup {"none"}
        BY <1>1, <1>3 DEF Files!PairPrepare, FilesTyped, Labels, Files!Ended, Files!End, Files!Go,
           Files!Lock, Files!Busy
      <3> QED
        BY <1>1, <1>3, <3>1, <3>2 DEF Files!PairPrepare, FilesTyped
    <2>3. FilesKnown(p)'
      BY <1>1, <1>3 DEF Files!PairPrepare, FilesTyped, Files!End, Files!Go, Files!Lock, Files!Busy,
         Files!Capture, FilesKnown, Locked, Kept, Before,
         After, Placed, Unwritten, Committed, Files!Ended
    <2> QED
      BY <1>1, <2>1, <2>2, <2>3, OthersKnow
  <1>4. CASE Files!PairAuthenticate
    <2>1. Frame(p)
      BY <1>1, <1>4 DEF Files!PairAuthenticate, Frame, FilesTyped, FilesKnown, Locked, Files!End,
         Files!Go
    <2>2. FilesTyped'
      <3>1. Files!Issued(Target, "pair") \in Token
        BY TokenTypes DEF Tvs, Files!Procs
      <3>2. f_got' \in [Files!Procs -> Token]
        BY <1>1, <1>4, <3>1 DEF Files!PairAuthenticate, FilesTyped
      <3>3. f_pc' \in [Files!Procs -> Labels] /\ f_lock' \in Files!Procs \cup {"none"}
        BY <1>1, <1>4 DEF Files!PairAuthenticate, FilesTyped, Labels, Files!Ended, Files!End,
           Files!Go
      <3> QED
        BY <1>1, <1>4, <3>2, <3>3 DEF Files!PairAuthenticate, FilesTyped
    <2>3. FilesKnown(p)'
      BY <1>1, <1>4 DEF Files!PairAuthenticate, FilesTyped, Files!End, Files!Go, FilesKnown,
         Locked, Kept, Before, After, Placed,
         Unwritten, Committed, Files!Ended
    <2> QED
      BY <1>1, <2>1, <2>2, <2>3, OthersKnow
  <1>5. CASE Files!PairBegin
    <2>1. Frame(p)
      BY <1>1, <1>5 DEF Files!PairBegin, Frame, FilesTyped, FilesKnown, Locked, Files!Begin,
         Files!End, Files!Go, Files!begin
    <2>2. FilesTyped'
      BY <1>1, <1>5 DEF Files!PairBegin, FilesTyped, Labels, Files!Ended, Files!Begin, Files!End,
         Files!Go, Files!begin
    <2>3. FilesKnown(p)'
      BY <1>1, <1>5 DEF Files!PairBegin, FilesTyped, Files!Begin, Files!End, Files!Go, Files!begin,
         FilesKnown, Locked, Kept, Before, After,
         Placed, Unwritten, Committed, Files!Ended
    <2> QED
      BY <1>1, <2>1, <2>2, <2>3, OthersKnow
  <1>6. CASE Files!PairCheck
    <2>1. Frame(p)
      BY <1>1, <1>6 DEF Files!PairCheck, Frame, FilesTyped, FilesKnown, Locked, Files!End, Files!Go
    <2>2. FilesTyped'
      BY <1>1, <1>6 DEF Files!PairCheck, FilesTyped, Labels, Files!Ended, Files!End, Files!Go
    <2>3. FilesKnown(p)'
      BY <1>1, <1>6 DEF Files!PairCheck, FilesTyped, Files!End, Files!Go, FilesKnown, Locked, Kept,
         Before, After, Placed,
         Unwritten, Committed, Files!Ended
    <2> QED
      BY <1>1, <2>1, <2>2, <2>3, OthersKnow
  <1>7. CASE Files!PairPersist
    <2>1. Frame(p)
      BY <1>1, <1>7 DEF Files!PairPersist, Frame, FilesTyped, FilesKnown, Locked, Files!Go,
         Files!WriteToken
    <2>2. FilesTyped'
      BY <1>1, <1>7, TokenTypes DEF Files!PairPersist, FilesTyped, Labels, Files!Ended, Files!Go,
         Files!WriteToken
    <2>3. FilesKnown(p)'
      BY <1>1, <1>7, TokenTypes DEF Files!PairPersist, FilesTyped, Files!Go, Files!WriteToken,
         FilesKnown, Locked, Kept, Before,
         After, Placed, Unwritten, Committed, Files!Ended
    <2> QED
      BY <1>1, <2>1, <2>2, <2>3, OthersKnow
  <1>8. CASE Files!PairRecheck
    <2>1. Frame(p)
      BY <1>1, <1>8 DEF Files!PairRecheck, Frame, FilesTyped, FilesKnown, Locked, Files!Go
    <2>2. FilesTyped'
      BY <1>1, <1>8 DEF Files!PairRecheck, FilesTyped, Labels, Files!Ended, Files!Go
    <2>3. FilesKnown(p)'
      BY <1>1, <1>8 DEF Files!PairRecheck, FilesTyped, Files!Go, FilesKnown, Locked, Kept, Before,
         After, Placed, Unwritten,
         Committed, Files!Ended
    <2> QED
      BY <1>1, <2>1, <2>2, <2>3, OthersKnow
  <1>9. CASE Files!PairWrite
    <2>1. Frame(p)
      BY <1>1, <1>9 DEF Files!PairWrite, Frame, FilesTyped, FilesKnown, Locked, Files!End,
         Files!WriteConfig, Files!Go
    <2>2. FilesTyped'
      BY <1>1, <1>9, ConfigTypes DEF Files!PairWrite, FilesTyped, Labels, Files!Ended, Files!End,
         Files!WriteConfig, Files!Go
    <2>3. FilesKnown(p)'
      BY <1>1, <1>9, ConfigTypes DEF Files!PairWrite, FilesTyped, Files!End, Files!WriteConfig,
         Files!Go, FilesKnown, Locked, Kept,
         Before, After, Placed, Unwritten, Committed, Files!Ended
    <2> QED
      BY <1>1, <2>1, <2>2, <2>3, OthersKnow
  <1>10. CASE Files!PairRollback
    <2>1. Frame(p)
      BY <1>1, <1>10 DEF Files!PairRollback, Frame, FilesTyped, FilesKnown, Locked, Files!End,
         Files!WriteToken, Files!restore_token, Files!Go
    <2>2. FilesTyped'
      BY <1>1, <1>10, TokenTypes DEF Files!PairRollback, FilesTyped, Labels, Files!Ended,
         Files!End, Files!WriteToken,
         Files!restore_token, Files!Go
    <2>3. FilesKnown(p)'
      BY <1>1, <1>10, TokenTypes DEF Files!PairRollback, FilesTyped, Files!End, Files!WriteToken,
         Files!restore_token, Files!Go, FilesKnown,
         Locked, Kept, Before, After, Placed, Unwritten, Committed, Files!Ended
    <2> QED
      BY <1>1, <2>1, <2>2, <2>3, OthersKnow
  <1> QED
    BY <1>2, <1>3, <1>4, <1>5, <1>6, <1>7, <1>8, <1>9, <1>10 DEF Files!Pair

-----------------------------------------------------------------------------
(* unpair.                                                                 *)

\* Every step of an unpairing keeps the invariant.
LEMMA UnpairKeeps ==
  ASSUME FilesInv, Files!Unpair
  PROVE  FilesInv'
  <1> DEFINE p == "unpair"
  <1> USE DEF Files!files, Files!locals, Files!rest
  <1>1. p \in Files!Procs /\ FilesTyped /\ FilesKnown(p)
    BY DEF FilesInv, AllKnown, Files!Procs
  <1>2. CASE Files!UnpairStart
    <2>1. Frame(p)
      BY <1>1, <1>2 DEF Files!UnpairStart, Frame, FilesTyped, FilesKnown, Locked, Files!End,
         Files!Go, Files!NoTv
    <2>2. FilesTyped'
      BY <1>1, <1>2 DEF Files!UnpairStart, FilesTyped, Labels, Files!Ended, Files!End, Files!Go,
         Files!NoTv
    <2>3. FilesKnown(p)'
      BY <1>1, <1>2 DEF Files!UnpairStart, FilesTyped, Files!End, Files!Go, Files!NoTv, FilesKnown,
         Locked, Kept, Before, After, Placed,
         Unwritten, Committed, Files!Ended
    <2> QED
      BY <1>1, <2>1, <2>2, <2>3, OthersKnow
  <1>3. CASE Files!UnpairPrepare
    <2>1. Frame(p)
      BY <1>1, <1>3 DEF Files!UnpairPrepare, Frame, FilesTyped, FilesKnown, Locked, Files!Go,
         Files!Lock, Files!Busy, Files!Capture, Files!End
    <2>2. FilesTyped'
      <3>1. f_pc' \in [Files!Procs -> Labels]
        BY <1>1, <1>3 DEF Files!UnpairPrepare, FilesTyped, Labels, Files!Ended, Files!Go,
           Files!Lock, Files!Busy, Files!Capture, Files!End
      <3> QED
        BY <1>1, <1>3, <3>1 DEF Files!UnpairPrepare, FilesTyped, Files!Go, Files!Lock, Files!Busy,
           Files!Capture, Files!End
    <2>3. FilesKnown(p)'
      BY <1>1, <1>3 DEF Files!UnpairPrepare, FilesTyped, Files!Go, Files!Lock, Files!Busy,
         Files!Capture, Files!End, FilesKnown, Locked, Kept,
         Before, After, Placed, Unwritten, Committed, Files!Ended
    <2> QED
      BY <1>1, <2>1, <2>2, <2>3, OthersKnow
  <1>4. CASE Files!UnpairCheck
    <2>1. Frame(p)
      BY <1>1, <1>4 DEF Files!UnpairCheck, Frame, FilesTyped, FilesKnown, Locked, Files!End,
         Files!Go, Files!Same,
         Files!validate_primary_identity, Files!NoTv
    <2>2. FilesTyped'
      BY <1>1, <1>4 DEF Files!UnpairCheck, FilesTyped, Labels, Files!Ended, Files!End, Files!Go,
         Files!Same, Files!validate_primary_identity,
         Files!NoTv
    <2>3. FilesKnown(p)'
      BY <1>1, <1>4 DEF Files!UnpairCheck, FilesTyped, Files!End, Files!Go, Files!Same,
         Files!validate_primary_identity, Files!NoTv, FilesKnown,
         Locked, Kept, Before, After, Placed, Unwritten, Committed, Files!Ended
    <2> QED
      BY <1>1, <2>1, <2>2, <2>3, OthersKnow
  <1>5. CASE Files!UnpairRemove
    <2>1. Frame(p)
      BY <1>1, <1>5 DEF Files!UnpairRemove, Frame, FilesTyped, FilesKnown, Locked, Files!Go,
         Files!WriteToken
    <2>2. FilesTyped'
      BY <1>1, <1>5, TokenTypes DEF Files!UnpairRemove, FilesTyped, Labels, Files!Ended, Files!Go,
         Files!WriteToken
    <2>3. FilesKnown(p)'
      BY <1>1, <1>5, TokenTypes DEF Files!UnpairRemove, FilesTyped, Files!Go, Files!WriteToken,
         FilesKnown, Locked, Kept, Before,
         After, Placed, Unwritten, Committed, Files!Ended
    <2> QED
      BY <1>1, <2>1, <2>2, <2>3, OthersKnow
  <1>6. CASE Files!UnpairRecheck
    <2>1. Frame(p)
      BY <1>1, <1>6 DEF Files!UnpairRecheck, Frame, FilesTyped, FilesKnown, Locked, Files!Go,
         Files!validate_primary_identity, Files!NoTv
    <2>2. FilesTyped'
      BY <1>1, <1>6 DEF Files!UnpairRecheck, FilesTyped, Labels, Files!Ended, Files!Go,
         Files!validate_primary_identity, Files!NoTv
    <2>3. FilesKnown(p)'
      BY <1>1, <1>6 DEF Files!UnpairRecheck, FilesTyped, Files!Go, Files!validate_primary_identity,
         Files!NoTv, FilesKnown, Locked,
         Kept, Before, After, Placed, Unwritten, Committed, Files!Ended
    <2> QED
      BY <1>1, <2>1, <2>2, <2>3, OthersKnow
  <1>7. CASE Files!UnpairWrite
    <2>1. Frame(p)
      BY <1>1, <1>7 DEF Files!UnpairWrite, Frame, FilesTyped, FilesKnown, Locked, Files!End,
         Files!WriteConfig, Files!Go
    <2>2. FilesTyped'
      BY <1>1, <1>7, ConfigTypes DEF Files!UnpairWrite, FilesTyped, Labels, Files!Ended, Files!End,
         Files!WriteConfig, Files!Go
    <2>3. FilesKnown(p)'
      BY <1>1, <1>7, ConfigTypes DEF Files!UnpairWrite, FilesTyped, Files!End, Files!WriteConfig,
         Files!Go, FilesKnown, Locked, Kept,
         Before, After, Placed, Unwritten, Committed, Files!Ended
    <2> QED
      BY <1>1, <2>1, <2>2, <2>3, OthersKnow
  <1>8. CASE Files!UnpairRollback
    <2>1. Frame(p)
      BY <1>1, <1>8 DEF Files!UnpairRollback, Frame, FilesTyped, FilesKnown, Locked, Files!End,
         Files!WriteToken, Files!restore_token, Files!Go
    <2>2. FilesTyped'
      BY <1>1, <1>8, TokenTypes DEF Files!UnpairRollback, FilesTyped, Labels, Files!Ended,
         Files!End, Files!WriteToken,
         Files!restore_token, Files!Go
    <2>3. FilesKnown(p)'
      BY <1>1, <1>8, TokenTypes DEF Files!UnpairRollback, FilesTyped, Files!End, Files!WriteToken,
         Files!restore_token, Files!Go, FilesKnown,
         Locked, Kept, Before, After, Placed, Unwritten, Committed, Files!Ended
    <2> QED
      BY <1>1, <2>1, <2>2, <2>3, OthersKnow
  <1> QED
    BY <1>2, <1>3, <1>4, <1>5, <1>6, <1>7, <1>8 DEF Files!Unpair

-----------------------------------------------------------------------------
(* login.                                                                  *)

\* Every step of a login that renews the token keeps the invariant.
LEMMA LoginKeeps ==
  ASSUME FilesInv, Files!Login
  PROVE  FilesInv'
  <1> DEFINE p == "login"
  <1> USE DEF Files!files, Files!locals, Files!rest
  <1>1. p \in Files!Procs /\ FilesTyped /\ FilesKnown(p)
    BY DEF FilesInv, AllKnown, Files!Procs
  <1>2. CASE Files!LoginStart
    <2>1. Frame(p)
      BY <1>1, <1>2 DEF Files!LoginStart, Frame, FilesTyped, FilesKnown, Locked, Files!Go,
         Files!NoTv, Files!Stale
    <2>2. FilesTyped'
      <3>1. f_config.profile.tv \in Tvs
        BY <1>1 DEF FilesTyped, Config
      <3> QED
        BY <1>1, <1>2, <3>1 DEF Files!LoginStart, FilesTyped, Labels, Files!Go
    <2>3. FilesKnown(p)'
      BY <1>1, <1>2 DEF Files!LoginStart, FilesTyped, Files!Go, FilesKnown, Locked, Kept, Before,
         After, Placed, Unwritten,
         Committed, Files!Ended
    <2> QED
      BY <1>1, <2>1, <2>2, <2>3, OthersKnow
  <1>3. CASE Files!LoginSnapshot
    <2>1. Frame(p)
      BY <1>1, <1>3 DEF Files!LoginSnapshot, Frame, FilesTyped, FilesKnown, Locked, Files!Go,
         Files!Capture
    <2>2. FilesTyped'
      BY <1>1, <1>3 DEF Files!LoginSnapshot, FilesTyped, Labels, Files!Ended, Files!Go,
         Files!Capture
    <2>3. FilesKnown(p)'
      BY <1>1, <1>3 DEF Files!LoginSnapshot, FilesTyped, Files!Go, Files!Capture, FilesKnown,
         Locked, Kept, Before, After, Placed,
         Unwritten, Committed, Files!Ended
    <2> QED
      BY <1>1, <2>1, <2>2, <2>3, OthersKnow
  <1>4. CASE Files!LoginLoad
    <2>1. Frame(p)
      BY <1>1, <1>4 DEF Files!LoginLoad, Frame, FilesTyped, FilesKnown, Locked, Files!End, Files!Go
    <2>2. FilesTyped'
      <3>1. f_pc' \in [Files!Procs -> Labels]
        BY <1>1, <1>4 DEF Files!LoginLoad, FilesTyped, Labels, Files!Ended, Files!End, Files!Go
      <3> QED
        BY <1>1, <1>4, <3>1 DEF Files!LoginLoad, FilesTyped, Files!End, Files!Go
    <2>3. FilesKnown(p)'
      BY <1>1, <1>4 DEF Files!LoginLoad, FilesTyped, Files!End, Files!Go, FilesKnown, Locked, Kept,
         Before, After, Placed,
         Unwritten, Committed, Files!Ended
    <2> QED
      BY <1>1, <2>1, <2>2, <2>3, OthersKnow
  <1>5. CASE Files!LoginAcquire
    <2>1. Frame(p)
      BY <1>1, <1>5 DEF Files!LoginAcquire, Frame, FilesTyped, FilesKnown, Locked, Files!Go
    <2>2. FilesTyped'
      <3>1. Files!Issued(f_endpoint, "login") \in Token
        BY <1>1, TokenTypes DEF FilesTyped
      <3>2. f_got' \in [Files!Procs -> Token]
        BY <1>1, <1>5, <3>1 DEF Files!LoginAcquire, FilesTyped
      <3> QED
        BY <1>1, <1>5, <3>2 DEF Files!LoginAcquire, FilesTyped, Labels, Files!Ended, Files!Go
    <2>3. FilesKnown(p)'
      BY <1>1, <1>5 DEF Files!LoginAcquire, FilesTyped, Files!Go, FilesKnown, Locked, Kept, Before,
         After, Placed,
         Unwritten, Committed, Files!Ended
    <2> QED
      BY <1>1, <2>1, <2>2, <2>3, OthersKnow
  <1>6. CASE Files!LoginLock
    <2>1. Frame(p)
      BY <1>1, <1>6 DEF Files!LoginLock, Frame, FilesTyped, FilesKnown, Locked, Files!Go,
         Files!Lock, Files!Busy, Files!End
    <2>2. FilesTyped'
      BY <1>1, <1>6 DEF Files!LoginLock, FilesTyped, Labels, Files!Ended, Files!Go, Files!Lock,
         Files!Busy, Files!End
    <2>3. FilesKnown(p)'
      BY <1>1, <1>6 DEF Files!LoginLock, FilesTyped, Files!Go, Files!Lock, Files!Busy, Files!End,
         FilesKnown, Locked, Kept, Before, After,
         Placed, Unwritten, Committed, Files!Ended
    <2> QED
      BY <1>1, <2>1, <2>2, <2>3, OthersKnow
  <1>7. CASE Files!LoginCompare
    <2>1. Frame(p)
      BY <1>1, <1>7 DEF Files!LoginCompare, Frame, FilesTyped, FilesKnown, Locked, Files!End,
         Files!Go, Files!unchanged, Files!Same
    <2>2. FilesTyped'
      BY <1>1, <1>7 DEF Files!LoginCompare, FilesTyped, Labels, Files!Ended, Files!End, Files!Go,
         Files!unchanged, Files!Same
    <2>3. FilesKnown(p)'
      BY <1>1, <1>7 DEF Files!LoginCompare, FilesTyped, Files!End, Files!Go, Files!unchanged,
         Files!Same, FilesKnown, Locked, Kept, Before,
         After, Placed, Unwritten, Committed, Files!Ended
    <2> QED
      BY <1>1, <2>1, <2>2, <2>3, OthersKnow
  <1>8. CASE Files!LoginPersist
    <2>1. Frame(p)
      BY <1>1, <1>8 DEF Files!LoginPersist, Frame, FilesTyped, FilesKnown, Locked, Files!End,
         Files!WriteToken, Files!Go
    <2>2. FilesTyped'
      BY <1>1, <1>8, TokenTypes DEF Files!LoginPersist, FilesTyped, Labels, Files!Ended, Files!End,
         Files!WriteToken, Files!Go
    <2>3. FilesKnown(p)'
      BY <1>1, <1>8, TokenTypes DEF Files!LoginPersist, FilesTyped, Files!End, Files!WriteToken,
         Files!Go, FilesKnown, Locked, Kept,
         Before, After, Placed, Unwritten, Committed, Files!Ended
    <2> QED
      BY <1>1, <2>1, <2>2, <2>3, OthersKnow
  <1> QED
    BY <1>2, <1>3, <1>4, <1>5, <1>6, <1>7, <1>8 DEF Files!Login

-----------------------------------------------------------------------------
(* set.                                                                    *)

\* Every step of saving a setting keeps the invariant.
LEMMA SetKeeps ==
  ASSUME FilesInv, Files!Set
  PROVE  FilesInv'
  <1> DEFINE p == "set"
  <1> USE DEF Files!files, Files!locals, Files!rest
  <1>1. p \in Files!Procs /\ FilesTyped /\ FilesKnown(p)
    BY DEF FilesInv, AllKnown, Files!Procs
  <1>2. CASE Files!SetLoad
    <2>1. Frame(p)
      BY <1>1, <1>2 DEF Files!SetLoad, Frame, FilesTyped, FilesKnown, Locked, Files!Go, Files!Lock,
         Files!Busy, Files!Capture, Files!End
    <2>2. FilesTyped'
      <3>1. f_pc' \in [Files!Procs -> Labels]
        BY <1>1, <1>2 DEF Files!SetLoad, FilesTyped, Labels, Files!Ended, Files!Go, Files!Lock,
           Files!Busy, Files!Capture, Files!End
      <3> QED
        BY <1>1, <1>2, <3>1 DEF Files!SetLoad, FilesTyped, Files!Go, Files!Lock, Files!Busy,
           Files!Capture, Files!End
    <2>3. FilesKnown(p)'
      BY <1>1, <1>2 DEF Files!SetLoad, FilesTyped, Files!Go, Files!Lock, Files!Busy, Files!Capture,
         Files!End, FilesKnown, Locked, Kept, Before,
         After, Placed, Unwritten, Committed, Files!Ended
    <2> QED
      BY <1>1, <2>1, <2>2, <2>3, OthersKnow
  <1>3. CASE Files!SetSave
    <2>1. Frame(p)
      BY <1>1, <1>3 DEF Files!SetSave, Frame, FilesTyped, FilesKnown, Locked, Files!End,
         Files!WriteConfig, Files!NoTv, Files!Go
    <2>2. FilesTyped'
      BY <1>1, <1>3, ConfigTypes DEF Files!SetSave, FilesTyped, Labels, Files!Ended, Files!End,
         Files!WriteConfig, Files!NoTv, Files!Go
    <2>3. FilesKnown(p)'
      BY <1>1, <1>3, ConfigTypes DEF Files!SetSave, FilesTyped, Files!End, Files!WriteConfig,
         Files!NoTv, Files!Go, FilesKnown, Locked, Kept,
         Before, After, Placed, Unwritten, Committed, Files!Ended
    <2> QED
      BY <1>1, <2>1, <2>2, <2>3, OthersKnow
  <1>4. CASE Files!SetApply
    <2>1. Frame(p)
      BY <1>1, <1>4 DEF Files!SetApply, Frame, FilesTyped, FilesKnown, Locked, Files!Go
    <2>2. FilesTyped'
      BY <1>1, <1>4 DEF Files!SetApply, FilesTyped, Labels, Files!Ended, Files!Go
    <2>3. FilesKnown(p)'
      BY <1>1, <1>4 DEF Files!SetApply, FilesTyped, Files!Go, FilesKnown, Locked, Kept, Before,
         After, Placed, Unwritten,
         Committed, Files!Ended
    <2> QED
      BY <1>1, <2>1, <2>2, <2>3, OthersKnow
  <1>5. CASE Files!SetUndoLock
    <2>1. Frame(p)
      BY <1>1, <1>5 DEF Files!SetUndoLock, Frame, FilesTyped, FilesKnown, Locked, Files!Go,
         Files!Lock, Files!Busy, Files!End
    <2>2. FilesTyped'
      BY <1>1, <1>5 DEF Files!SetUndoLock, FilesTyped, Labels, Files!Ended, Files!Go, Files!Lock,
         Files!Busy, Files!End
    <2>3. FilesKnown(p)'
      BY <1>1, <1>5 DEF Files!SetUndoLock, FilesTyped, Files!Go, Files!Lock, Files!Busy, Files!End,
         FilesKnown, Locked, Kept, Before, After,
         Placed, Unwritten, Committed, Files!Ended
    <2> QED
      BY <1>1, <2>1, <2>2, <2>3, OthersKnow
  <1>6. CASE Files!SetRestore
    <2>1. Frame(p)
      BY <1>1, <1>6 DEF Files!SetRestore, Frame, FilesTyped, FilesKnown, Locked, Files!End,
         Files!WriteConfig, Files!Published, Files!Go
    <2>2. FilesTyped'
      BY <1>1, <1>6, ConfigTypes DEF Files!SetRestore, FilesTyped, Labels, Files!Ended, Files!End,
         Files!WriteConfig, Files!Published, Files!Go
    <2>3. FilesKnown(p)'
      BY <1>1, <1>6, ConfigTypes DEF Files!SetRestore, FilesTyped, Files!End, Files!WriteConfig,
         Files!Published, Files!Go, FilesKnown,
         Locked, Kept, Before, After, Placed, Unwritten, Committed, Files!Ended
    <2> QED
      BY <1>1, <2>1, <2>2, <2>3, OthersKnow
  <1> QED
    BY <1>2, <1>3, <1>4, <1>5, <1>6 DEF Files!Set

-----------------------------------------------------------------------------
(* migrate.                                                                *)

\* Every step of the migration keeps the invariant.
LEMMA MigrateKeeps ==
  ASSUME FilesInv, Files!Migrate
  PROVE  FilesInv'
  <1> DEFINE p == "migrate"
  <1> USE DEF Files!files, Files!locals, Files!rest
  <1>1. p \in Files!Procs /\ FilesTyped /\ FilesKnown(p)
    BY DEF FilesInv, AllKnown, Files!Procs
  <1>2. CASE Files!MigrateCapture
    <2>1. Frame(p)
      BY <1>1, <1>2 DEF Files!MigrateCapture, Frame, FilesTyped, FilesKnown, Locked, Files!Go,
         Files!Capture, Files!Stale
    <2>2. FilesTyped'
      BY SMTT(30), <1>1, <1>2 DEF Files!MigrateCapture, FilesTyped, Labels, Files!Ended, Files!Go,
         Files!Capture, Files!Stale
    <2>3. FilesKnown(p)'
      BY <1>1, <1>2 DEF Files!MigrateCapture, FilesTyped, Files!Go, Files!Capture, Files!Stale,
         FilesKnown, Locked, Kept, Before, After,
         Placed, Unwritten, Committed, Files!Ended
    <2> QED
      BY <1>1, <2>1, <2>2, <2>3, OthersKnow
  <1>3. CASE Files!MigratePrepare
    <2>1. Frame(p)
      BY <1>1, <1>3 DEF Files!MigratePrepare, Frame, FilesTyped, FilesKnown, Locked, Files!Go
    <2> DEFINE tv == f_snap["migrate"].config.profile.tv
    <2>4. /\ f_snap["migrate"] \in [config : Config, token : Token] /\ tv \in Tvs
          /\ f_snap["migrate"].token \in Token
      BY <1>1 DEF FilesTyped, Config
    <2>5. Files!Issued(tv, "migrate") \in Token /\ Files!Issued(tv, "migrate").tv = tv
      BY <1>1, <2>4, TokenTypes
    <2>6. PICK t \in Token :
             \/ t.tv = tv /\ f_got' = [f_got EXCEPT !["migrate"] = t] /\ Files!Go("migrate", "lock")
             \/ Files!Go("migrate", "failed") /\ UNCHANGED f_got
      BY <1>3, <2>4, <2>5 DEF Files!MigratePrepare
    <2> HIDE DEF tv
    <2>7. UNCHANGED <<Files!files, f_lock, f_snap, f_endpoint, f_gate, Files!rest>> /\ f_pc["migrate"] = "prepare"
      BY <1>3 DEF Files!MigratePrepare
    <2>2. FilesTyped'
      <3>1. f_pc' \in [Files!Procs -> Labels]
        BY <1>1, <2>6, <2>7 DEF FilesTyped, Labels, Files!Ended, Files!Go
      <3> QED
        BY <1>1, <2>6, <2>7, <3>1 DEF FilesTyped, Files!Go
    <2>3. FilesKnown(p)'
      BY <1>1, <2>6, <2>7 DEF tv, FilesTyped, Files!Go, FilesKnown, Locked, Kept, Before, After,
         Placed, Unwritten,
         Committed, Files!Ended
    <2> QED
      BY <1>1, <2>1, <2>2, <2>3, OthersKnow
  <1>4. CASE Files!MigrateLock
    <2>1. Frame(p)
      BY <1>1, <1>4 DEF Files!MigrateLock, Frame, FilesTyped, FilesKnown, Locked, Files!End,
         Files!Go, Files!Lock, Files!Busy
    <2>2. FilesTyped'
      BY <1>1, <1>4 DEF Files!MigrateLock, FilesTyped, Labels, Files!Ended, Files!End, Files!Go,
         Files!Lock, Files!Busy
    <2>3. FilesKnown(p)'
      BY <1>1, <1>4 DEF Files!MigrateLock, FilesTyped, Files!End, Files!Go, Files!Lock, Files!Busy,
         FilesKnown, Locked, Kept, Before, After,
         Placed, Unwritten, Committed, Files!Ended
    <2> QED
      BY <1>1, <2>1, <2>2, <2>3, OthersKnow
  <1>5. CASE Files!MigrateCheck
    <2>1. Frame(p)
      BY <1>1, <1>5 DEF Files!MigrateCheck, Frame, FilesTyped, FilesKnown, Locked, Files!End,
         Files!Go, Files!check_config,
         Files!same_credential
    <2>2. FilesTyped'
      BY <1>1, <1>5 DEF Files!MigrateCheck, FilesTyped, Labels, Files!Ended, Files!End, Files!Go,
         Files!check_config, Files!same_credential
    <2>3. FilesKnown(p)'
      BY <1>1, <1>5 DEF Files!MigrateCheck, FilesTyped, Files!End, Files!Go, Files!check_config,
         Files!same_credential, FilesKnown, Locked,
         Kept, Before, After, Placed, Unwritten, Committed, Files!Ended
    <2> QED
      BY <1>1, <2>1, <2>2, <2>3, OthersKnow
  <1>6. CASE Files!MigrateBegin
    <2>1. Frame(p)
      BY <1>1, <1>6 DEF Files!MigrateBegin, Frame, FilesTyped, FilesKnown, Locked, Files!End,
         Files!Begin, Files!check_config, Files!Go, Files!begin
    <2>2. FilesTyped'
      BY <1>1, <1>6 DEF Files!MigrateBegin, FilesTyped, Labels, Files!Ended, Files!End,
         Files!Begin, Files!check_config, Files!Go, Files!begin
    <2>3. FilesKnown(p)'
      BY <1>1, <1>6 DEF Files!MigrateBegin, FilesTyped, Files!End, Files!Begin, Files!check_config,
         Files!Go, Files!begin, FilesKnown, Locked, Kept,
         Before, After, Placed, Unwritten, Committed, Files!Ended
    <2> QED
      BY <1>1, <2>1, <2>2, <2>3, OthersKnow
  <1>7. CASE Files!MigratePersist
    <2>1. Frame(p)
      BY <1>1, <1>7 DEF Files!MigratePersist, Frame, FilesTyped, FilesKnown, Locked, Files!End,
         Files!Go, Files!WriteToken
    <2>2. FilesTyped'
      <3>1. \E to \in {"barrier", "rollback", "failed"} : Files!Go("migrate", to)
        BY Zenon, <1>7 DEF Files!MigratePersist, Files!End
      <3>2. f_pc' \in [Files!Procs -> Labels]
        BY <1>1, <3>1 DEF FilesTyped, Labels, Files!Ended, Files!Go
      <3> QED
        BY <1>1, <1>7, TokenTypes, <3>2 DEF Files!MigratePersist, FilesTyped, Files!End, Files!Go,
           Files!WriteToken
    <2>3. FilesKnown(p)'
      BY <1>1, <1>7, TokenTypes DEF Files!MigratePersist, FilesTyped, Files!End, Files!Go,
         Files!WriteToken, FilesKnown, Locked, Kept,
         Before, After, Placed, Unwritten, Committed, Files!Ended
    <2> QED
      BY <1>1, <2>1, <2>2, <2>3, OthersKnow
  <1>8. CASE Files!MigrateBarrier
    <2>1. Frame(p)
      BY <1>1, <1>8 DEF Files!MigrateBarrier, Frame, FilesTyped, FilesKnown, Locked, Files!Go,
         Files!check_config, Files!same_credential
    <2>2. FilesTyped'
      BY <1>1, <1>8 DEF Files!MigrateBarrier, FilesTyped, Labels, Files!Ended, Files!Go,
         Files!check_config, Files!same_credential
    <2>3. FilesKnown(p)'
      BY <1>1, <1>8 DEF Files!MigrateBarrier, FilesTyped, Files!Go, Files!check_config,
         Files!same_credential, FilesKnown, Locked, Kept,
         Before, After, Placed, Unwritten, Committed, Files!Ended
    <2> QED
      BY <1>1, <2>1, <2>2, <2>3, OthersKnow
  <1>9. CASE Files!MigratePublish
    <2>1. Frame(p)
      BY <1>1, <1>9 DEF Files!MigratePublish, Frame, FilesTyped, FilesKnown, Locked, Files!Go,
         Files!WriteConfig
    <2>2. FilesTyped'
      BY <1>1, <1>9, ConfigTypes DEF Files!MigratePublish, FilesTyped, Labels, Files!Ended,
         Files!Go, Files!WriteConfig
    <2>3. FilesKnown(p)'
      BY <1>1, <1>9, ConfigTypes DEF Files!MigratePublish, FilesTyped, Files!Go, Files!WriteConfig,
         FilesKnown, Locked, Kept,
         Before, After, Placed, Unwritten, Committed, Files!Ended
    <2> QED
      BY <1>1, <2>1, <2>2, <2>3, OthersKnow
  <1>10. CASE Files!MigrateReread
    <2>1. Frame(p)
      BY <1>1, <1>10 DEF Files!MigrateReread, Frame, FilesTyped, FilesKnown, Locked, Files!End,
         Files!Go
    <2>2. FilesTyped'
      BY <1>1, <1>10 DEF Files!MigrateReread, FilesTyped, Labels, Files!Ended, Files!End, Files!Go
    <2>3. FilesKnown(p)'
      BY <1>1, <1>10 DEF Files!MigrateReread, FilesTyped, Files!End, Files!Go, FilesKnown, Locked,
         Kept, Before, After, Placed,
         Unwritten, Committed, Files!Ended
    <2> QED
      BY <1>1, <2>1, <2>2, <2>3, OthersKnow
  <1>11. CASE Files!MigrateRollback
    <2>1. Frame(p)
      BY <1>1, <1>11 DEF Files!MigrateRollback, Frame, FilesTyped, FilesKnown, Locked, Files!End,
         Files!Go
    <2>2. FilesTyped'
      BY SMTT(30), <1>1, <1>11 DEF Files!MigrateRollback, FilesTyped, Labels, Files!Ended, Files!End, Files!Go
    <2>3. FilesKnown(p)'
      BY <1>1, <1>11 DEF Files!MigrateRollback, FilesTyped, Files!End, Files!Go, FilesKnown,
         Locked, Kept, Before, After, Placed,
         Unwritten, Committed, Files!Ended
    <2> QED
      BY <1>1, <2>1, <2>2, <2>3, OthersKnow
  <1>12. CASE Files!MigrateRestore
    <2>1. Frame(p)
      BY <1>1, <1>12 DEF Files!MigrateRestore, Frame, FilesTyped, FilesKnown, Locked, Files!End,
         Files!WriteToken, Files!restore_token,
         Files!same_credential, Files!Go
    <2>2. FilesTyped'
      <3>1. f_pc' \in [Files!Procs -> Labels]
        BY <1>1, <1>12, TokenTypes DEF Files!MigrateRestore, FilesTyped, Labels, Files!Ended,
           Files!End, Files!WriteToken, Files!restore_token, Files!same_credential, Files!Go
      <3> QED
        BY <1>1, <1>12, TokenTypes, <3>1 DEF Files!MigrateRestore, FilesTyped, Files!End,
           Files!WriteToken, Files!restore_token, Files!same_credential, Files!Go
    <2>3. FilesKnown(p)'
      BY <1>1, <1>12, TokenTypes DEF Files!MigrateRestore, FilesTyped, Files!End, Files!WriteToken,
         Files!restore_token,
         Files!same_credential, Files!Go, FilesKnown, Locked, Kept, Before, After, Placed,
         Unwritten, Committed, Files!Ended
    <2> QED
      BY <1>1, <2>1, <2>2, <2>3, OthersKnow
  <1> QED
    BY <1>2, <1>3, <1>4, <1>5, <1>6, <1>7, <1>8, <1>9, <1>10, <1>11, <1>12 DEF Files!Migrate

-----------------------------------------------------------------------------
(* convert.                                                                *)

\* Every step of the conversion of a profile keeps the invariant.
LEMMA ConvertKeeps ==
  ASSUME FilesInv, Files!Convert
  PROVE  FilesInv'
  <1> DEFINE p == "convert"
  <1> USE DEF Files!files, Files!locals, Files!rest
  <1>1. p \in Files!Procs /\ FilesTyped /\ FilesKnown(p)
    BY DEF FilesInv, AllKnown, Files!Procs
  <1>2. CASE Files!ConvertInspect
    <2>1. Frame(p)
      BY <1>1, <1>2 DEF Files!ConvertInspect, Frame, FilesTyped, FilesKnown, Locked, Files!Go,
         Files!Stale
    <2>2. FilesTyped'
      BY <1>1, <1>2 DEF Files!ConvertInspect, FilesTyped, Labels, Files!Ended, Files!Go, Files!Stale
    <2>3. FilesKnown(p)'
      BY <1>1, <1>2 DEF Files!ConvertInspect, FilesTyped, Files!Go, Files!Stale, FilesKnown,
         Locked, Kept, Before, After, Placed,
         Unwritten, Committed, Files!Ended
    <2> QED
      BY <1>1, <2>1, <2>2, <2>3, OthersKnow
  <1>3. CASE Files!ConvertLock
    <2>1. Frame(p)
      BY <1>1, <1>3 DEF Files!ConvertLock, Frame, FilesTyped, FilesKnown, Locked, Files!End,
         Files!Go, Files!Lock, Files!Busy, Files!Capture, Files!Stale
    <2>2. FilesTyped'
      <3>1. f_snap' \in [Files!Procs -> [config : Config, token : Token]]
        BY <1>1, <1>3 DEF Files!ConvertLock, FilesTyped, Files!Capture
      <3>2. f_pc' \in [Files!Procs -> Labels] /\ f_lock' \in Files!Procs \cup {"none"}
        BY <1>1, <1>3 DEF Files!ConvertLock, FilesTyped, Labels, Files!Ended, Files!End, Files!Go,
           Files!Lock, Files!Busy
      <3> QED
        BY <1>1, <1>3, <3>1, <3>2 DEF Files!ConvertLock, FilesTyped
    <2>3. FilesKnown(p)'
      BY <1>1, <1>3 DEF Files!ConvertLock, FilesTyped, Files!End, Files!Go, Files!Lock, Files!Busy,
         Files!Capture, FilesKnown, Locked, Kept, Before,
         After, Placed, Unwritten, Committed, Files!Ended
    <2> QED
      BY <1>1, <2>1, <2>2, <2>3, OthersKnow
  <1>4. CASE Files!ConvertCheck
    <2>1. Frame(p)
      BY <1>1, <1>4 DEF Files!ConvertCheck, Frame, FilesTyped, FilesKnown, Locked, Files!End,
         Files!Go, Files!check_config
    <2>2. FilesTyped'
      BY <1>1, <1>4 DEF Files!ConvertCheck, FilesTyped, Labels, Files!Ended, Files!End, Files!Go,
         Files!check_config
    <2>3. FilesKnown(p)'
      BY <1>1, <1>4 DEF Files!ConvertCheck, FilesTyped, Files!End, Files!Go, Files!check_config,
         FilesKnown, Locked, Kept, Before,
         After, Placed, Unwritten, Committed, Files!Ended
    <2> QED
      BY <1>1, <2>1, <2>2, <2>3, OthersKnow
  <1>5. CASE Files!ConvertPublish
    <2>1. Frame(p)
      BY <1>1, <1>5 DEF Files!ConvertPublish, Frame, FilesTyped, FilesKnown, Locked, Files!Go,
         Files!WriteConfig
    <2>2. FilesTyped'
      BY <1>1, <1>5, ConfigTypes DEF Files!ConvertPublish, FilesTyped, Labels, Files!Ended,
         Files!Go, Files!WriteConfig
    <2>3. FilesKnown(p)'
      BY <1>1, <1>5, ConfigTypes DEF Files!ConvertPublish, FilesTyped, Files!Go, Files!WriteConfig,
         FilesKnown, Locked, Kept,
         Before, After, Placed, Unwritten, Committed, Files!Ended
    <2> QED
      BY <1>1, <2>1, <2>2, <2>3, OthersKnow
  <1>6. CASE Files!ConvertReload
    <2>1. Frame(p)
      BY <1>1, <1>6 DEF Files!ConvertReload, Frame, FilesTyped, FilesKnown, Locked, Files!End,
         Files!Go
    <2>2. FilesTyped'
      BY <1>1, <1>6 DEF Files!ConvertReload, FilesTyped, Labels, Files!Ended, Files!End, Files!Go
    <2>3. FilesKnown(p)'
      BY <1>1, <1>6 DEF Files!ConvertReload, FilesTyped, Files!End, Files!Go, FilesKnown, Locked,
         Kept, Before, After, Placed,
         Unwritten, Committed, Files!Ended
    <2> QED
      BY <1>1, <2>1, <2>2, <2>3, OthersKnow
  <1> QED
    BY <1>2, <1>3, <1>4, <1>5, <1>6 DEF Files!Convert

-----------------------------------------------------------------------------
(* What goes wrong, and the user.                                          *)

\* A file operation that fails leaves the files as they are.
LEMMA IoErrorKeeps ==
  ASSUME FilesInv, NEW p \in Files!Procs, Files!IoError(p)
  PROVE  FilesInv'
  <1> USE DEF Files!files, Files!locals, Files!rest
  <1>1. FilesTyped /\ FilesKnown(p)
    BY DEF FilesInv, AllKnown
  <1>2. /\ f_pc' = [f_pc EXCEPT ![p] = Files!Failure(p)]
        /\ f_lock' = IF Files!Failure(p) \in Files!Ended /\ f_lock = p THEN "none" ELSE f_lock
        /\ UNCHANGED <<Files!files, Files!locals, f_gate, Files!rest>>
    BY DEF Files!IoError, Files!End, Files!Go
  <1>3. /\ Files!Failure(p) \in {"rollback", "reread", "rollback_failed", "failed"}
        /\ Files!Failure(p) = "rollback" => f_pc[p] \in {"recheck", "write", "barrier"}
        /\ Files!Failure(p) = "reread" => p = "migrate" /\ f_pc[p] = "publish"
    BY DEF Files!Failure
  <1>4. Frame(p)
    BY <1>1, <1>2 DEF Frame, FilesTyped
  <1>5. FilesTyped'
    BY <1>1, <1>2, <1>3 DEF FilesTyped, Labels, Files!Ended
  <1>6. FilesKnown(p)'
    <2>1. f_pc'[p] = Files!Failure(p)
      BY <1>1, <1>2 DEF FilesTyped
    <2>2. CASE Files!Failure(p) \in {"failed", "rollback_failed"}
      BY <1>1, <1>2, <2>1, <2>2 DEF FilesKnown, Locked, Kept, Before, After, Unwritten, Committed,
         Files!Ended,
         Files!Procs
    <2>3. CASE Files!Failure(p) \in {"rollback", "reread"}
      BY <1>1, <1>2, <1>3, <2>1, <2>3
         DEF FilesKnown, Locked, Kept, Before, After, Placed, Unwritten, Committed, Files!Ended,
             Files!Procs
    <2> QED
      BY <1>3, <2>2, <2>3
  <1> QED
    BY <1>4, <1>5, <1>6, OthersKnow

\* A process that dies releases the lock and leaves its files behind.
LEMMA CrashKeeps ==
  ASSUME FilesInv, NEW p \in Files!Procs, Files!Crash(p)
  PROVE  FilesInv'
  <1> USE DEF Files!files, Files!locals
  <1>1. FilesTyped /\ FilesKnown(p)
    BY DEF FilesInv, AllKnown
  <1>2. Frame(p) /\ FilesTyped'
    BY <1>1 DEF Files!Crash, Files!End, Files!Go, Frame, FilesTyped, Labels, Files!Ended
  <1>3. FilesKnown(p)'
    BY <1>1 DEF Files!Crash, Files!End, Files!Go, FilesTyped, FilesKnown, Locked, Kept, Before,
       After, Unwritten, Committed,
       Files!Ended, Files!Procs
  <1> QED
    BY <1>2, <1>3, OthersKnow

\* A cancellation touches neither the files nor the lock.
LEMMA CancelKeeps ==
  ASSUME FilesInv, NEW p \in {"pair", "migrate"}, Files!cancel(p)
  PROVE  FilesInv'
  <1>1. FilesTyped'
    BY DEF FilesInv, FilesTyped, Files!cancel
  <1>2. ASSUME NEW q \in Files!Procs PROVE FilesKnown(q)'
    <2>1. FilesKnown(q) /\ FilesTyped
      BY DEF FilesInv, AllKnown
    <2> QED
      BY <2>1 DEF Files!cancel, FilesTyped, FilesKnown, Placed
  <1> QED
    BY <1>1, <1>2 DEF FilesInv, AllKnown

\* Somebody who edits the config by hand ends what the transactions know of it.
LEMMA EditKeeps ==
  ASSUME FilesInv, Files!Edit
  PROVE  FilesInv'
  <1> USE DEF Files!locals
  <1>1. FilesTyped'
    BY ConfigTypes DEF FilesInv, FilesTyped, Files!Edit
  <1>2. f_edits' # 0
    BY DEF FilesInv, FilesTyped, Files!Edit
  <1>3. ASSUME NEW q \in Files!Procs PROVE FilesKnown(q)'
    <2>1. FilesKnown(q)
      BY DEF FilesInv, AllKnown
    <2> QED
      BY <1>2, <2>1 DEF Files!Edit, FilesKnown, Placed
  <1> QED
    BY <1>1, <1>3 DEF FilesInv, AllKnown

\* The invariant holds before any transaction starts.
LEMMA FilesInit ==
  ASSUME Files!Init
  PROVE  FilesInv
  <1>1. f_config \in Config /\ f_token \in Token
    BY TokenTypes DEF Files!Init, Config, Files!Profiles, Tvs, Files!Issued, Token
  <1>2. /\ f_pc \in [Files!Procs -> {"start", "absent"}] /\ f_lock = "none" /\ f_wrote = {} /\ f_told = {}
    BY DEF Files!Init
  <1>3. FilesTyped
    BY <1>1, <1>2, TokenTypes DEF Files!Init, FilesTyped, Labels, Files!Ended, Tvs
  <1>4. ASSUME NEW p \in Files!Procs PROVE FilesKnown(p)
    BY <1>2 DEF FilesKnown, Locked, Kept, Before, After, Unwritten, Committed, Files!Ended,
       Files!Procs
  <1> QED
    BY <1>3, <1>4 DEF FilesInv, AllKnown

\* Every step keeps the invariant.
LEMMA FilesNext ==
  ASSUME FilesInv, Files!Next
  PROVE  FilesInv'
  BY PairKeeps, UnpairKeeps, LoginKeeps, SetKeeps, MigrateKeeps, ConvertKeeps, IoErrorKeeps,
     CrashKeeps,
     CancelKeeps, EditKeeps DEF Files!Next

\* A step that changes nothing keeps the invariant.
LEMMA FilesStutter ==
  ASSUME FilesInv, UNCHANGED Files!vars
  PROVE  FilesInv'
  BY DEF FilesInv, AllKnown, FilesTyped, FilesKnown, Placed, Files!vars

\* The inductive invariant of the transactions.
THEOREM FilesInvariance == Files!Spec => []FilesInv
  BY FilesInit, FilesNext, FilesStutter, PTL DEF Files!Spec

-----------------------------------------------------------------------------
(* The properties.                                                         *)

\* Who writes the token, and who writes the config.
LEMMA TokenWriters ==
  ASSUME Files!Next, f_token' # f_token
  PROVE  Files!PairPersist \/ Files!PairRollback \/ Files!UnpairRemove \/ Files!UnpairRollback \/ Files!LoginPersist
         \/ Files!MigratePersist \/ Files!MigrateRestore
  <1> USE DEF Files!files
  <1>1. Files!Pair => Files!PairPersist \/ Files!PairRollback
    BY DEF Files!Pair, Files!PairStart, Files!PairPrepare, Files!PairAuthenticate, Files!PairBegin,
       Files!PairCheck, Files!PairRecheck, Files!PairWrite
  <1>2. Files!Unpair => Files!UnpairRemove \/ Files!UnpairRollback
    BY DEF Files!Unpair, Files!UnpairStart, Files!UnpairPrepare, Files!UnpairCheck,
       Files!UnpairRecheck, Files!UnpairWrite
  <1>3. Files!Login => Files!LoginPersist
    BY DEF Files!Login, Files!LoginStart, Files!LoginSnapshot, Files!LoginLoad, Files!LoginAcquire,
       Files!LoginLock, Files!LoginCompare
  <1>4. ~Files!Set /\ ~Files!Convert /\ ~Files!Edit
    BY DEF Files!Set, Files!SetLoad, Files!SetSave, Files!SetApply, Files!SetUndoLock,
       Files!SetRestore, Files!Convert, Files!ConvertInspect,
       Files!ConvertLock,
           Files!ConvertCheck, Files!ConvertPublish, Files!ConvertReload, Files!Edit
  <1>5. Files!Migrate => Files!MigratePersist \/ Files!MigrateRestore
    BY DEF Files!Migrate, Files!MigrateCapture, Files!MigratePrepare, Files!MigrateLock,
       Files!MigrateCheck, Files!MigrateBegin,
       Files!MigrateBarrier,
           Files!MigratePublish, Files!MigrateReread, Files!MigrateRollback
  <1>6. ~(\E p \in {"pair", "migrate"} : Files!cancel(p)) /\ ~(\E p \in Files!Procs : Files!IoError(p) \/ Files!Crash(p))
    BY DEF Files!cancel, Files!IoError, Files!Crash
  <1> QED
    BY <1>1, <1>2, <1>3, <1>4, <1>5, <1>6 DEF Files!Next

\* The steps that change the config.
LEMMA ConfigWriters ==
  ASSUME Files!Next, f_config' # f_config
  PROVE  Files!PairWrite \/ Files!UnpairWrite \/ Files!SetSave \/ Files!SetRestore \/ Files!MigratePublish \/ Files!ConvertPublish \/ Files!Edit
  <1> USE DEF Files!files
  <1>1. Files!Pair => Files!PairWrite
    BY DEF Files!Pair, Files!PairStart, Files!PairPrepare, Files!PairAuthenticate, Files!PairBegin,
       Files!PairCheck, Files!PairPersist,
       Files!PairRecheck,
           Files!PairRollback
  <1>2. Files!Unpair => Files!UnpairWrite
    BY DEF Files!Unpair, Files!UnpairStart, Files!UnpairPrepare, Files!UnpairCheck,
       Files!UnpairRemove, Files!UnpairRecheck, Files!UnpairRollback
  <1>3. ~Files!Login
    BY DEF Files!Login, Files!LoginStart, Files!LoginSnapshot, Files!LoginLoad, Files!LoginAcquire,
       Files!LoginLock, Files!LoginCompare,
       Files!LoginPersist
  <1>4. (Files!Set => Files!SetSave \/ Files!SetRestore) /\ (Files!Convert => Files!ConvertPublish)
    BY DEF Files!Set, Files!SetLoad, Files!SetApply, Files!SetUndoLock, Files!Convert,
       Files!ConvertInspect, Files!ConvertLock, Files!ConvertCheck,
       Files!ConvertReload
  <1>5. Files!Migrate => Files!MigratePublish
    BY DEF Files!Migrate, Files!MigrateCapture, Files!MigratePrepare, Files!MigrateLock,
       Files!MigrateCheck, Files!MigrateBegin,
       Files!MigratePersist,
           Files!MigrateBarrier, Files!MigrateReread, Files!MigrateRollback, Files!MigrateRestore
  <1>6. ~(\E p \in {"pair", "migrate"} : Files!cancel(p)) /\ ~(\E p \in Files!Procs : Files!IoError(p) \/ Files!Crash(p))
    BY DEF Files!cancel, Files!IoError, Files!Crash
  <1> QED
    BY <1>1, <1>2, <1>3, <1>4, <1>5, <1>6 DEF Files!Next

\* A transaction changes the token only beside the config it has compared.
LEMMA TokenStepHolds ==
  ASSUME FilesInv, Files!Next
  PROVE  Files!TokenStep
  <1> SUFFICES ASSUME NEW p \in {"pair", "login", "migrate"}, f_edits' = 0, f_pc'[p] # f_pc[p], f_token' # f_token
               PROVE  f_config = f_snap[p].config
    BY DEF Files!TokenStep
  <1>1. FilesTyped /\ p \in Files!Procs /\ FilesKnown(p)
    BY DEF FilesInv, AllKnown, Files!Procs
  <1>2. /\ Files!PairPersist \/ Files!PairRollback => p = "pair" /\ f_pc[p] \in {"persist", "rollback"} /\ f_edits = 0
        /\ Files!UnpairRemove \/ Files!UnpairRollback => FALSE
        /\ Files!LoginPersist => p = "login" /\ f_pc[p] = "persist" /\ f_edits = 0
        /\ Files!MigratePersist \/ Files!MigrateRestore => p = "migrate" /\ f_pc[p] \in {"persist", "restore"} /\ f_edits = 0
    BY <1>1 DEF Files!PairPersist, Files!PairRollback, Files!UnpairRemove, Files!UnpairRollback,
       Files!LoginPersist, Files!MigratePersist,
                Files!MigrateRestore, Files!rest, FilesTyped, Files!Go, Files!End, Files!Procs
  <1>3. f_pc[p] \in Kept(p) /\ f_edits = 0
    BY <1>2, TokenWriters DEF Kept
  <1> QED
    BY <1>1, <1>3 DEF FilesKnown

\* The process that takes a step is the one whose place changes.
LEMMA Mover ==
  ASSUME FilesTyped, NEW p \in Files!Procs, NEW where, Files!Go(p, where)
  PROVE  {q \in Files!Procs : f_pc'[q] # f_pc[q]} = IF where = f_pc[p] THEN {} ELSE {p}
  BY DEF FilesTyped, Files!Go

\* Only saving a setting changes the setting, and only the transactions about a TV change the
\* TV.
LEMMA UpdateStepHolds ==
  ASSUME FilesInv, Files!Next
  PROVE  Files!UpdateStep
  <1> DEFINE by == {p \in Files!Procs : f_pc'[p] # f_pc[p]}
  <1> SUFFICES ASSUME f_edits' = 0, f_config' # f_config
               PROVE  /\ f_config'.setting # f_config.setting => by = {"set"} /\ f_config'.profile = f_config.profile
                      /\ f_config'.profile.tv # f_config.profile.tv => by \subseteq {"set", "pair", "unpair"}
    BY DEF Files!UpdateStep
  <1>1. /\ FilesTyped /\ \A p \in Files!Procs : FilesKnown(p)
        /\ f_config \in Config /\ \A p \in Files!Procs : f_snap[p].config \in Config
    BY DEF FilesInv, AllKnown, FilesTyped
  <1>2. CASE Files!PairWrite
    <2>1. f_pc["pair"] = "write" /\ Files!Go("pair", "ok") /\ f_config' = Files!Paired(f_snap["pair"].config, Target) /\ f_edits = 0
      BY <1>2 DEF Files!PairWrite, Files!End, Files!WriteConfig, Files!rest
    <2>2. by = {"pair"}
      BY <1>1, <2>1, Mover DEF Files!Procs
    <2>3. f_config = f_snap["pair"].config
      BY <1>1, <2>1 DEF FilesKnown, Kept, Files!Procs
    <2> HIDE DEF by
    <2> QED
      BY <1>1, <2>1, <2>2, <2>3, ConfigTypes
  <1>3. CASE Files!UnpairWrite
    <2>1. /\ f_pc["unpair"] = "write" /\ Files!Go("unpair", "ok") /\ f_edits = 0
          /\ f_config' = Files!remove_primary_config_keys(f_snap["unpair"].config)
      BY <1>3 DEF Files!UnpairWrite, Files!End, Files!WriteConfig, Files!rest
    <2>2. by = {"unpair"}
      BY <1>1, <2>1, Mover DEF Files!Procs
    <2>3. f_config = f_snap["unpair"].config
      BY <1>1, <2>1 DEF FilesKnown, Kept, Files!Procs
    <2> HIDE DEF by
    <2> QED
      BY <1>1, <2>1, <2>2, <2>3, ConfigTypes
  <1>4. CASE Files!SetSave
    <2>1. PICK where \in {"apply", "ok"} :
            /\ f_pc["set"] = "save" /\ Files!Go("set", where)
            /\ f_config' \in {Files!Automatic(f_config), Files!Readdressed(f_config)}
      BY <1>4 DEF Files!SetSave, Files!End, Files!WriteConfig
    <2>2. by = {"set"}
      BY <1>1, <2>1, Mover DEF Files!Procs
    <2> HIDE DEF by
    <2> QED
      BY <1>1, <2>1, <2>2, ConfigTypes
  <1>5. CASE Files!SetRestore
    <2>1. /\ f_pc["set"] = "restore" /\ Files!Go("set", "failed")
          /\ f_config' = f_snap["set"].config /\ f_config = Files!Automatic(f_snap["set"].config)
      BY <1>5 DEF Files!SetRestore, Files!End, Files!WriteConfig, Files!Published
    <2>2. by = {"set"}
      BY <1>1, <2>1, Mover DEF Files!Procs
    <2>3. f_config.profile = f_config'.profile
      BY <1>1, <2>1, ConfigTypes DEF Files!Procs
    <2> HIDE DEF by
    <2> QED
      BY <2>2, <2>3
  <1>6. CASE Files!MigratePublish
    <2>1. /\ f_pc["migrate"] = "publish" /\ f_edits = 0
          /\ f_config' = Files!MigrationCandidate(f_snap["migrate"].config)
      BY <1>6 DEF Files!MigratePublish, Files!WriteConfig, Files!rest
    <2>2. f_config = f_snap["migrate"].config
      BY <1>1, <2>1 DEF FilesKnown, Kept, Files!Procs
    <2> QED
      BY <1>1, <2>1, <2>2, ConfigTypes
  <1>7. CASE Files!ConvertPublish
    <2>1. /\ f_pc["convert"] = "publish" /\ f_edits = 0
          /\ f_config' = Files!MigrationCandidate(f_snap["convert"].config)
      BY <1>7 DEF Files!ConvertPublish, Files!WriteConfig, Files!rest
    <2>2. f_config = f_snap["convert"].config
      BY <1>1, <2>1 DEF FilesKnown, Kept, Files!Procs
    <2> QED
      BY <1>1, <2>1, <2>2, ConfigTypes
  <1>8. ~Files!Edit
    BY <1>1 DEF Files!Edit, FilesTyped
  <1> QED
    BY <1>2, <1>3, <1>4, <1>5, <1>6, <1>7, <1>8, ConfigWriters

\* Unpairing removes only the profile that was shown, and its token before it.
LEMMA UnpairStepHolds ==
  ASSUME FilesInv, Files!Next
  PROVE  Files!UnpairStep
  <1> SUFFICES ASSUME f_edits' = 0, f_pc'["unpair"] # f_pc["unpair"]
               PROVE  /\ f_token' # f_token => f_config.profile = f_expected
                      /\ f_config' # f_config => f_config.profile = f_expected /\ f_token' = Files!NoToken
    BY DEF Files!UnpairStep
  <1>1. FilesTyped /\ FilesKnown("unpair")
    BY DEF FilesInv, AllKnown, Files!Procs
  <1>2. ASSUME f_token' # f_token
        PROVE  f_pc["unpair"] \in {"remove", "rollback"} /\ f_edits = 0
    <2>1. Files!UnpairRemove \/ Files!UnpairRollback
      BY <1>1, <1>2, TokenWriters DEF Files!PairPersist, Files!PairRollback, Files!LoginPersist,
         Files!MigratePersist,
         Files!MigrateRestore,
                                      FilesTyped, Files!Go, Files!End, Files!Procs
    <2> QED
      BY <2>1 DEF Files!UnpairRemove, Files!UnpairRollback, Files!rest
  <1>3. ASSUME f_config' # f_config
        PROVE  f_pc["unpair"] = "write" /\ f_edits = 0 /\ f_token' = f_token
    <2>1. Files!UnpairWrite
      BY <1>1, <1>3, ConfigWriters DEF Files!PairWrite, Files!SetSave, Files!SetRestore,
         Files!MigratePublish, Files!ConvertPublish,
         Files!Edit,
                                       FilesTyped, Files!Go, Files!End, Files!Procs
    <2> QED
      BY <2>1 DEF Files!UnpairWrite, Files!rest
  <1>4. f_pc["unpair"] \in {"remove", "write", "rollback"} /\ f_edits = 0 => f_config.profile = f_expected
    BY <1>1 DEF FilesKnown, Kept
  <1>5. f_pc["unpair"] = "write" => f_token = Files!NoToken
    BY <1>1 DEF FilesKnown, After, Placed
  <1> QED
    BY <1>2, <1>3, <1>4, <1>5

\* The migration publishes what it has verified.
LEMMA MigrationStepHolds ==
  ASSUME FilesInv, Files!Next
  PROVE  Files!MigrationStep
  <1> SUFFICES ASSUME f_edits' = 0, f_pc["migrate"] = "publish", f_config' # f_config
               PROVE  f_token = f_got["migrate"] /\ f_token.tv = f_config'.profile.tv
    BY DEF Files!MigrationStep
  <1>1. FilesTyped /\ \A p \in Files!Procs : FilesKnown(p)
    BY DEF FilesInv, AllKnown
  <1>2. /\ f_lock = "migrate" /\ f_token = f_got["migrate"]
        /\ f_got["migrate"].tv = f_snap["migrate"].config.profile.tv
    BY <1>1 DEF FilesKnown, Locked, After, Placed, Files!Procs
  <1>3. Files!MigratePublish
    <2>1. f_pc["pair"] # "write" /\ f_pc["unpair"] # "write" /\ f_pc["set"] \notin {"save", "restore"}
          /\ f_pc["convert"] # "publish"
      BY <1>1, <1>2 DEF FilesKnown, Locked, Files!Procs
    <2>2. ~Files!Edit
      BY <1>1 DEF Files!Edit, FilesTyped
    <2> QED
      BY <2>1, <2>2, ConfigWriters DEF Files!PairWrite, Files!UnpairWrite, Files!SetSave,
         Files!SetRestore, Files!ConvertPublish
  <1>4. f_config' = Files!MigrationCandidate(f_snap["migrate"].config) /\ f_snap["migrate"].config \in Config
    BY <1>1, <1>3 DEF Files!MigratePublish, Files!WriteConfig, FilesTyped, Files!Procs
  <1> QED
    BY <1>2, <1>4, ConfigTypes

\* Only its own step, or a failure of one, lets a transaction fail; it has written nothing, or
\* it has just rolled back.
LEMMA Failing ==
  ASSUME FilesInv, Files!Next, NEW p \in {"pair", "unpair", "login"}, f_pc[p] \notin Files!Ended, f_pc'[p] = "failed"
  PROVE  \/ f_wrote' = f_wrote /\ f_pc[p] \in Unwritten(p)
         \/ p = "pair" /\ Files!PairRollback
         \/ p = "unpair" /\ Files!UnpairRollback
  <1>1. FilesTyped /\ FilesKnown(p) /\ p \in Files!Procs /\ f_pc'[p] # f_pc[p]
    BY DEF FilesInv, AllKnown, Files!Procs, Files!Ended
  <1>2. CASE Files!Pair
    <2>1. p = "pair"
      BY <1>1, <1>2 DEF Files!Pair, Files!PairStart, Files!PairPrepare, Files!PairAuthenticate,
         Files!PairBegin, Files!PairCheck,
         Files!PairPersist,
           Files!PairRecheck, Files!PairWrite, Files!PairRollback, Files!Go, Files!End, Files!Busy,
           Files!Begin, FilesTyped, Files!Procs
    <2> QED
      BY <1>1, <1>2, <2>1 DEF Files!Pair, Files!PairStart, Files!PairPrepare,
         Files!PairAuthenticate, Files!PairBegin, Files!PairCheck,
         Files!PairPersist,
           Files!PairRecheck, Files!PairWrite, Files!Go, Files!End, Files!Busy, Files!Begin,
           FilesTyped, Files!Procs, Unwritten, Files!files, Files!rest
  <1>3. CASE Files!Unpair
    <2>1. p = "unpair"
      BY <1>1, <1>3 DEF Files!Unpair, Files!UnpairStart, Files!UnpairPrepare, Files!UnpairCheck,
         Files!UnpairRemove, Files!UnpairRecheck,
           Files!UnpairWrite, Files!UnpairRollback, Files!Go, Files!End, Files!Busy, FilesTyped,
           Files!Procs
    <2> QED
      BY <1>1, <1>3, <2>1 DEF Files!Unpair, Files!UnpairStart, Files!UnpairPrepare,
         Files!UnpairCheck, Files!UnpairRemove,
         Files!UnpairRecheck,
           Files!UnpairWrite, Files!Go, Files!End, Files!Busy, FilesTyped, Files!Procs, Unwritten,
           Files!files, Files!rest
  <1>4. CASE Files!Login
    <2>1. p = "login"
      BY <1>1, <1>4 DEF Files!Login, Files!LoginStart, Files!LoginSnapshot, Files!LoginLoad,
         Files!LoginAcquire, Files!LoginLock,
         Files!LoginCompare,
           Files!LoginPersist, Files!Go, Files!End, Files!Busy, FilesTyped, Files!Procs
    <2> QED
      BY <1>1, <1>4, <2>1 DEF Files!Login, Files!LoginStart, Files!LoginSnapshot, Files!LoginLoad,
         Files!LoginAcquire, Files!LoginLock,
           Files!LoginCompare, Files!LoginPersist, Files!Go, Files!End, Files!Busy, FilesTyped,
           Files!Procs, Unwritten, Files!files, Files!rest
  <1>5. ~Files!Set /\ ~Files!Convert
    <2>1. ~Files!Set
      BY SMTT(30), <1>1 DEF Files!Set, Files!SetLoad, Files!SetSave, Files!SetApply, Files!SetUndoLock,
         Files!SetRestore, Files!Go, Files!End, Files!Busy, FilesTyped, Files!Procs
    <2>2. ~Files!Convert
      BY SMTT(30), <1>1 DEF Files!Convert, Files!ConvertInspect, Files!ConvertLock, Files!ConvertCheck,
         Files!ConvertPublish, Files!ConvertReload, Files!Go, Files!End, Files!Busy, FilesTyped, Files!Procs
    <2> QED
      BY <2>1, <2>2
  <1>6. ~Files!Migrate
    BY <1>1 DEF Files!Migrate, Files!MigrateCapture, Files!MigratePrepare, Files!MigrateLock,
       Files!MigrateCheck, Files!MigrateBegin,
           Files!MigratePersist, Files!MigrateBarrier, Files!MigratePublish, Files!MigrateReread,
           Files!MigrateRollback,
              Files!MigrateRestore,
           Files!Go, Files!End, Files!Busy, Files!Begin, FilesTyped, Files!Procs
  <1>7. ~Files!Edit /\ ~(\E q \in {"pair", "migrate"} : Files!cancel(q))
    BY <1>1 DEF Files!Edit, Files!cancel
  <1>8. ~(\E q \in Files!Procs : Files!Crash(q))
    BY <1>1 DEF Files!Crash, Files!Go, Files!End, FilesTyped, Files!Procs
  <1>9. ASSUME NEW q \in Files!Procs, Files!IoError(q)
        PROVE  f_wrote' = f_wrote /\ f_pc[p] \in Unwritten(p)
    <2>1. q = p /\ Files!Failure(p) = "failed" /\ f_wrote' = f_wrote
      BY <1>1, <1>9 DEF Files!IoError, Files!Go, Files!End, FilesTyped, Files!files, Files!rest
    <2>2. f_pc[p] \notin {"recheck", "write", "rollback"}
      BY <2>1 DEF Files!Failure
    <2> QED
      BY <1>1, <2>1, <2>2 DEF FilesKnown, After
  <1> QED
    BY <1>2, <1>3, <1>4, <1>5, <1>6, <1>7, <1>8, <1>9 DEF Files!Next

\* A transaction that reports a failure after it wrote has put back what it found.
LEMMA FailureStepHolds ==
  ASSUME FilesInv, Files!Next
  PROVE  Files!FailureStep
  <1> SUFFICES ASSUME NEW p \in {"pair", "unpair", "login"}, f_pc[p] \notin Files!Ended, f_pc'[p] = "failed",
                      p \in f_wrote'
               PROVE  f_token' = f_snap[p].token /\ (f_edits' = 0 => f_config' = f_snap[p].config)
    BY DEF Files!FailureStep
  <1>1. FilesTyped /\ FilesKnown(p) /\ p \in Files!Procs
    BY DEF FilesInv, AllKnown, Files!Procs
  <1>2. (p = "pair" /\ Files!PairRollback) \/ (p = "unpair" /\ Files!UnpairRollback)
    BY <1>1, Failing DEF FilesKnown
  <1>3. f_pc[p] = "rollback" /\ f_config' = f_config /\ f_edits' = f_edits
    BY <1>2 DEF Files!PairRollback, Files!UnpairRollback, Files!rest
  <1>4. f_edits = 0 => f_config = f_snap[p].config
    BY <1>1, <1>2, <1>3 DEF FilesKnown, Kept
  <1>5. f_token' = f_snap[p].token
    <2>1. CASE p = "pair" /\ Files!PairRollback
      BY <2>1 DEF Files!PairRollback, Files!WriteToken, Files!restore_token
    <2>2. CASE p = "unpair" /\ Files!UnpairRollback
      <3>1. f_token = Files!NoToken
        BY <1>1, <1>3, <2>2 DEF FilesKnown, After, Placed
      <3> QED
        BY <2>2, <3>1 DEF Files!UnpairRollback, Files!WriteToken, Files!restore_token
    <2> QED
      BY <1>2, <2>1, <2>2
  <1> QED
    BY <1>3, <1>4, <1>5

\* Nothing that was written was cancelled: the gate is passed once, and one way.
THEOREM CancelledWritesNothing == Files!Spec => []Files!CancelIsFinal
  <1>1. FilesInv => Files!CancelIsFinal
    <2> SUFFICES ASSUME FilesInv, NEW p \in f_told, p \in f_wrote PROVE FALSE
      BY DEF Files!CancelIsFinal
    <2>1. p \in {"pair", "migrate"} /\ FilesKnown(p)
      BY DEF FilesInv, FilesTyped, AllKnown, Files!Procs
    <2> QED
      BY <2>1 DEF FilesKnown
  <1> QED
    BY <1>1, FilesInvariance, PTL

\* A token reaches the file only with the config it was obtained for.
THEOREM TokensMatch == Files!Spec => Files!TokenGoesToItsConfig
  <1>1. FilesInv /\ [Files!Next]_(Files!vars) => [Files!TokenStep]_(Files!vars)
    BY TokenStepHolds
  <1> QED
    BY <1>1, FilesInvariance, PTL DEF Files!Spec, Files!TokenGoesToItsConfig

\* No transaction undoes what another has changed.
THEOREM UpdatesStay == Files!Spec => Files!NoLostUpdate
  <1>1. FilesInv /\ [Files!Next]_(Files!vars) => [Files!UpdateStep]_(Files!vars)
    BY UpdateStepHolds
  <1> QED
    BY <1>1, FilesInvariance, PTL DEF Files!Spec, Files!NoLostUpdate

\* A pairing, an unpairing or a login that fails leaves the files as it found them.
THEOREM FailuresAreUndone == Files!Spec => Files!FailureLeavesNoTrace
  <1>1. FilesInv /\ [Files!Next]_(Files!vars) => [Files!FailureStep]_(Files!vars)
    BY FailureStepHolds
  <1> QED
    BY <1>1, FilesInvariance, PTL DEF Files!Spec, Files!FailureLeavesNoTrace

\* Unpairing takes the TV that was on the screen, and nothing else.
THEOREM UnpairsTheShown == Files!Spec => Files!UnpairTakesWhatWasShown
  <1>1. FilesInv /\ [Files!Next]_(Files!vars) => [Files!UnpairStep]_(Files!vars)
    BY UnpairStepHolds
  <1> QED
    BY <1>1, FilesInvariance, PTL DEF Files!Spec, Files!UnpairTakesWhatWasShown

\* The verified migration publishes its config only over the token it has verified.
THEOREM MigratesVerified == Files!Spec => Files!MigrationIsVerified
  <1>1. FilesInv /\ [Files!Next]_(Files!vars) => [Files!MigrationStep]_(Files!vars)
    BY MigrationStepHolds
  <1> QED
    BY <1>1, FilesInvariance, PTL DEF Files!Spec, Files!MigrationIsVerified

-----------------------------------------------------------------------------
\* Zenon finds most of the leaves; those that it does not find cite another prover.
USE Zenon

(***************************************************************************)
(* The settings page.                                                      *)
(***************************************************************************)

CONSTANTS Settings, Values, MaxEdits, MaxReads

VARIABLES
    r_state, r_rows, r_pending_read, r_pending_mutation, r_queued_mutations,
    r_reconcile_mutation, r_closed, r_reading, r_thread, r_file, r_reads, r_edits, r_newest,
    r_doubt

Rows == INSTANCE SettingsView WITH
    state <- r_state, rows <- r_rows, pending_read <- r_pending_read,
    pending_mutation <- r_pending_mutation, queued_mutations <- r_queued_mutations,
    reconcile_mutation <- r_reconcile_mutation, closed <- r_closed, reading <- r_reading,
    thread <- r_thread, file <- r_file, reads <- r_reads, edits <- r_edits,
    newest <- r_newest, doubt <- r_doubt

Saveable == Values \cup {0}
RowRecords == [value : Saveable, status : {"idle", "saving", "retry"}]
RowsOf == [Settings -> RowRecords]
Mutations == [id : Nat, setting : Settings, request : Values \cup {Rows!Retry}, previous : RowRecords]
Fates == {"waiting"} \cup Rows!Outcomes

Contents == {<<>>} \cup [Settings -> Saveable]
ReadRecord(r) == r \in [id : Nat, answer : {"none", "failed", "read"}, values : Contents]

RowsTyped ==
    /\ r_rows \in RowsOf
       \/ (r_rows = <<>> /\ r_state # "ready" /\ r_pending_mutation = {} /\ r_queued_mutations = <<>>)
    /\ r_pending_read \in Nat /\ r_reads \in Nat /\ r_edits \in Nat /\ r_pending_read <= r_reads
    /\ r_queued_mutations \in Seq(Mutations)
    /\ r_pending_mutation = {} \/ \E m \in Mutations : r_pending_mutation = {m}
    /\ r_reconcile_mutation \subseteq Mutations
    /\ r_closed \in BOOLEAN
    /\ r_thread \in {"none", "running"} \cup Rows!Outcomes
    /\ r_file \in [Settings -> Saveable]
    /\ r_newest \in [Settings -> [id : Nat, request : Saveable \cup {Rows!Retry}, fate : Fates]]
    /\ \A r \in r_reading : /\ r.id \in 1..r_reads
                            /\ ReadRecord(r)

\* One edit at a time is saved, and none beside a read that counts.
OneAtATime ==
    /\ r_thread = "none" <=> r_pending_mutation = {}
    /\ r_pending_read # 0 => r_pending_mutation = {}
    /\ ~r_closed /\ r_reconcile_mutation # {} => r_pending_mutation = {} /\ r_state # "ready"
    /\ Rows!QueueMoves

\* The read that counts has found what is saved.
ReadIsCurrent ==
    \A r \in r_reading : r.id = r_pending_read /\ r.answer \notin {"none", "failed"} => r.values = r_file

\* The edits that are not done yet.  They are numbered in the order in which they are saved, and
\* the newest of a row is the last of that row among them.
Waiting == r_pending_mutation \cup {r_queued_mutations[i] : i \in DOMAIN r_queued_mutations}

Ordered(q) == \A i, j \in DOMAIN q : i < j => q[i].id < q[j].id

Numbered ==
    /\ \A m \in r_pending_mutation, i \in DOMAIN r_queued_mutations : m.id < r_queued_mutations[i].id
    /\ Ordered(r_queued_mutations)
    /\ \A s \in Settings : r_newest[s].id <= r_edits

Behind(m) ==
    /\ m.id <= r_newest[m.setting].id
    /\ m.id = r_newest[m.setting].id => m.request = r_newest[m.setting].request
    /\ r_newest[m.setting].fate = "waiting"
NewestIsLast == \A m \in Waiting : Behind(m)

\* What the thread that saves says it did, it did.
SavedIsFiled ==
    /\ r_thread \in {"saved", "apply_failed"} =>
           \A m \in r_pending_mutation : m.request # Rows!Retry => r_file[m.setting] = m.request
    /\ \A s \in Settings :
           r_newest[s].fate \in {"saved", "apply_failed"} /\ r_newest[s].request # Rows!Retry =>
               r_file[s] = r_newest[s].request

\* The row that an edit would put back is the row as it is.
PutsBackTheRow == ~r_closed => \A m \in Waiting : m.previous.value = r_rows[m.setting].value

\* A row shows what is saved, but for the row of the edit that was just saved, one that a
\* failed undo has left in doubt, and one whose thread has died.
Exempt(s) ==
    \/ s \in r_doubt
    \/ r_thread \in {"saved", "apply_failed", "stopped"} /\ \E m \in r_pending_mutation : m.setting = s
    \/ \E m \in r_reconcile_mutation : m.setting = s
RowsAreFiled ==
    ~r_closed /\ r_rows \in RowsOf => \A s \in Settings : Exempt(s) \/ r_rows[s].value = r_file[s]

RowsInv == RowsTyped /\ OneAtATime /\ ReadIsCurrent /\ Numbered /\ NewestIsLast /\ SavedIsFiled
           /\ PutsBackTheRow /\ RowsAreFiled

-----------------------------------------------------------------------------
\* A row that gets another status.
LEMMA RowMarked ==
  ASSUME NEW r \in RowRecords, NEW st \in {"idle", "saving", "retry"}
  PROVE  [r EXCEPT !.status = st] \in RowRecords /\ [r EXCEPT !.status = st].value = r.value
  BY DEF RowRecords

\* When no read counts, none has to be current.
LEMMA NoReadCounts ==
  ASSUME RowsTyped, r_pending_read' = 0, r_reading' \subseteq r_reading
  PROVE  ReadIsCurrent'
  BY SMTT(30) DEF RowsTyped, ReadIsCurrent

\* Reads are numbered from 1: 0 stands for none.
LEMMA ZeroIsNoRead == ASSUME RowsTyped PROVE 0 \in Nat /\ 0 <= r_reads
  BY SMTT(30) DEF RowsTyped

\* A new read is the one that counts, and it has not found anything yet.
LEMMA BeginReadFacts ==
  ASSUME RowsTyped, ReadIsCurrent, Rows!begin_read, r_file' = r_file
  PROVE  /\ r_pending_read' \in Nat /\ r_reads' \in Nat /\ r_pending_read' <= r_reads'
         /\ \A r \in r_reading' : r.id \in 1..r_reads' /\ ReadRecord(r)
         /\ r_pending_read' # 0 /\ r_state' = "loading" /\ ReadIsCurrent'
  <1>1. ReadRecord([id |-> r_reads', answer |-> "none", values |-> <<>>])
    BY SMTT(30) DEF ReadRecord, Contents, RowsTyped, Rows!begin_read
  <1>2. ReadIsCurrent'
    BY SMTT(30) DEF RowsTyped, ReadIsCurrent, Rows!begin_read
  <1> QED
    BY SMTT(30), <1>1, <1>2 DEF RowsTyped, Rows!begin_read

\* The edits that wait.
LEMMA QueueTyped ==
  ASSUME RowsTyped
  PROVE  /\ \A i \in DOMAIN r_queued_mutations : r_queued_mutations[i] \in Mutations
         /\ \A m \in Waiting : m \in Mutations
  <1>1. r_queued_mutations \in Seq(Mutations)
    BY DEF RowsTyped
  <1>2. \A i \in DOMAIN r_queued_mutations : r_queued_mutations[i] \in Mutations
    BY SMTT(30), <1>1
  <1> QED
    BY <1>2 DEF Waiting, RowsTyped

\* A new page waits for its first read.
LEMMA RowsInit == Rows!Init => RowsInv
  <1> SUFFICES ASSUME Rows!Init PROVE RowsInv
    OBVIOUS
  <1>1. RowsTyped
    <2>1. <<>> \in Seq(Mutations)
      BY SMTT(30)
    <2>2. /\ r_file \in [Settings -> Saveable]
          /\ r_newest \in [Settings -> [id : Nat, request : Saveable \cup {Rows!Retry}, fate : Fates]]
      BY DEF Rows!Init, Saveable, Fates, Rows!Outcomes
    <2>3. \A r \in r_reading : /\ r.id \in 1..r_reads
                               /\ ReadRecord(r)
      BY SMTT(30) DEF Rows!Init, ReadRecord, Contents
    <2>10. r_rows = <<>> /\ r_state # "ready" /\ r_pending_mutation = {} /\ r_queued_mutations = <<>>
      BY <2>1 DEF Rows!Init
    <2>11. r_pending_read \in Nat /\ r_reads \in Nat /\ r_edits \in Nat /\ r_pending_read <= r_reads
      BY SMTT(30), <2>1 DEF Rows!Init
    <2>12. r_queued_mutations \in Seq(Mutations)
      BY <2>1 DEF Rows!Init
    <2>13. r_reconcile_mutation \subseteq Mutations /\ r_closed \in BOOLEAN
      BY <2>1 DEF Rows!Init
    <2>14. r_thread \in {"none", "running"} \cup Rows!Outcomes
      BY <2>1 DEF Rows!Init
    <2> QED
      BY <2>2, <2>3, <2>10, <2>11, <2>12, <2>13, <2>14 DEF RowsTyped
  <1>2. OneAtATime /\ ReadIsCurrent /\ Numbered /\ NewestIsLast /\ SavedIsFiled
    BY SMTT(30) DEF Rows!Init, OneAtATime, Rows!QueueMoves, ReadIsCurrent, Numbered, Ordered, NewestIsLast, Waiting,
           SavedIsFiled
  <1>3. PutsBackTheRow /\ RowsAreFiled
    <2>1. Settings # {} => r_rows \notin RowsOf
      BY SMTT(30) DEF Rows!Init, RowsOf
    <2> QED
      BY SMTT(30), <2>1 DEF Rows!Init, PutsBackTheRow, Waiting, RowsAreFiled
  <1> QED
    BY <1>1, <1>2, <1>3 DEF RowsInv

\* start_queued_mutation: the edits of q, in their order, and nothing else.
LEMMA StartsFacts ==
  ASSUME NEW q \in Seq(Mutations), Rows!Starts(q)
  PROVE  /\ r_pending_mutation' = {} \/ \E m \in Mutations : r_pending_mutation' = {m}
         /\ r_queued_mutations' \in Seq(Mutations)
         /\ r_thread' \in {"none", "running"} /\ (r_thread' = "none" <=> r_pending_mutation' = {})
         /\ r_pending_mutation' = {} => r_queued_mutations' = <<>>
         /\ q # <<>> => r_pending_mutation' # {}
         /\ Waiting' \subseteq {q[i] : i \in DOMAIN q}
         /\ Ordered(q) =>
                /\ \A m \in r_pending_mutation', i \in DOMAIN r_queued_mutations' :
                       m.id < r_queued_mutations'[i].id
                /\ Ordered(r_queued_mutations)'
  <1>1. CASE q = <<>>
    BY <1>1 DEF Rows!Starts, Waiting, Ordered
  <1>2. CASE q # <<>>
    <2>1. /\ r_pending_mutation' = {q[1]} /\ r_queued_mutations' = Tail(q) /\ r_thread' = "running"
          /\ 1 \in DOMAIN q /\ q[1] \in Mutations
      BY SMTT(30), <1>2 DEF Rows!Starts
    <2>2. /\ Tail(q) \in Seq(Mutations)
          /\ \A i \in DOMAIN Tail(q) : i + 1 \in DOMAIN q /\ Tail(q)[i] = q[i + 1] /\ i \in Nat /\ 1 <= i
      BY SMTT(30), <1>2
    <2>3. Waiting' \subseteq {q[i] : i \in DOMAIN q}
      BY <2>1, <2>2 DEF Waiting
    <2>4. ASSUME Ordered(q)
          PROVE  /\ \A m \in r_pending_mutation', i \in DOMAIN r_queued_mutations' :
                       m.id < r_queued_mutations'[i].id
                 /\ Ordered(r_queued_mutations)'
      BY SMTT(30), <2>1, <2>2, <2>4 DEF Ordered
    <2> QED
      BY <2>1, <2>2, <2>3, <2>4
  <1> QED
    BY <1>1, <1>2

\* The edits of a queue whose rows to put back were brought up to date.
LEMMA RefreshedFacts ==
  ASSUME NEW q \in Seq(Mutations), NEW P \in RowsOf, NEW completed
  PROVE  /\ Rows!Refreshed(P, q, completed) \in Seq(Mutations)
         /\ DOMAIN Rows!Refreshed(P, q, completed) = DOMAIN q
         /\ \A i \in DOMAIN q :
                LET m == Rows!Refreshed(P, q, completed)[i] IN
                /\ m \in Mutations /\ q[i] \in Mutations
                /\ m.id = q[i].id /\ m.setting = q[i].setting /\ m.request = q[i].request
                /\ m.previous = IF m.setting \in completed THEN P[m.setting] ELSE q[i].previous
  <1> DEFINE r == Rows!Refreshed(P, q, completed)
  <1>1. DOMAIN r = DOMAIN q
    BY DEF Rows!Refreshed
  <1>2. ASSUME NEW i \in DOMAIN q
        PROVE  /\ r[i] \in Mutations /\ q[i] \in Mutations
               /\ r[i].id = q[i].id /\ r[i].setting = q[i].setting /\ r[i].request = q[i].request
               /\ r[i].previous = IF r[i].setting \in completed THEN P[r[i].setting] ELSE q[i].previous
    <2>0. q[i] \in Mutations
      BY SMTT(30)
    <2>1. q[i] \in Mutations /\ P[q[i].setting] \in RowRecords
      BY <2>0 DEF Mutations, RowsOf
    <2>2. r[i] = IF q[i].setting \in completed THEN [q[i] EXCEPT !.previous = P[q[i].setting]] ELSE q[i]
      BY DEF Rows!Refreshed
    <2> HIDE DEF r
    <2> QED
      BY <2>1, <2>2 DEF Mutations
  <1>3. r \in Seq(Mutations)
    <2>1. r = [i \in 1..Len(q) |-> r[i]]
      BY SMTT(30) DEF Rows!Refreshed
    <2> HIDE DEF r
    <2>2. \A i \in 1..Len(q) : r[i] \in Mutations
      BY SMTT(30), <1>2
    <2> QED
      BY SMTT(30), <2>1, <2>2
  <1> QED
    BY <1>1, <1>2, <1>3

\* Marking the rows that are being saved leaves the values that they show.
LEMMA SavingFacts ==
  ASSUME NEW P \in RowsOf, NEW q
  PROVE  /\ Rows!Saving(P, q) \in RowsOf
         /\ \A s \in Settings : Rows!Saving(P, q)[s].value = P[s].value
  <1> SUFFICES ASSUME NEW s \in Settings
               PROVE  /\ Rows!Saving(P, q)[s] \in RowRecords
                      /\ Rows!Saving(P, q)[s].value = P[s].value
    BY DEF Rows!Saving, RowsOf
  <1>1. P[s] \in RowRecords
    BY DEF RowsOf
  <1>2. Rows!Saving(P, q)[s] = P[s] \/ Rows!Saving(P, q)[s] = [P[s] EXCEPT !.status = "saving"]
    BY DEF Rows!Saving
  <1> QED
    BY <1>1, <1>2, RowMarked

\* finish_mutation, for the edits that the last one leaves: q are they, P the rows.
Finished(P) ==
    /\ r_pending_mutation' = {} \/ \E m \in Mutations : r_pending_mutation' = {m}
    /\ r_queued_mutations' \in Seq(Mutations)
    /\ r_thread' \in {"none", "running"} /\ (r_thread' = "none" <=> r_pending_mutation' = {})
    /\ r_pending_mutation' = {} => r_queued_mutations' = <<>>
    /\ \A m \in Waiting' : /\ \E i \in DOMAIN r_queued_mutations :
                                LET n == r_queued_mutations[i] IN
                                m.id = n.id /\ m.setting = n.setting /\ m.request = n.request
                           /\ m.previous.value = r_rows'[m.setting].value
    /\ \A m \in r_pending_mutation', i \in DOMAIN r_queued_mutations' : m.id < r_queued_mutations'[i].id
    /\ Ordered(r_queued_mutations)'
    /\ r_rows' \in RowsOf /\ (\A s \in Settings : r_rows'[s].value = P[s].value)
    /\ r_state' = "ready"

LEMMA FinishFacts ==
  ASSUME RowsTyped, Ordered(r_queued_mutations), NEW P \in RowsOf, NEW completed,
         Rows!finish_mutation(P, completed, 0),
         \A i \in DOMAIN r_queued_mutations :
             LET m == r_queued_mutations[i] IN
             m.setting \notin completed => m.previous.value = P[m.setting].value
  PROVE  Finished(P)
  <1> DEFINE q == Rows!Refreshed(P, r_queued_mutations, completed)
  <1>0. r_queued_mutations \in Seq(Mutations)
    BY DEF RowsTyped
  <1>1. Rows!Starts(q) /\ r_rows' = Rows!Saving(P, q) /\ r_state' = "ready"
    BY DEF Rows!finish_mutation
  <1>2. /\ q \in Seq(Mutations) /\ DOMAIN q = DOMAIN r_queued_mutations
        /\ \A i \in DOMAIN r_queued_mutations :
                /\ q[i] \in Mutations /\ r_queued_mutations[i] \in Mutations
                /\ q[i].id = r_queued_mutations[i].id /\ q[i].setting = r_queued_mutations[i].setting
                /\ q[i].request = r_queued_mutations[i].request
                /\ q[i].previous = IF q[i].setting \in completed THEN P[q[i].setting]
                                   ELSE r_queued_mutations[i].previous
    BY SMTT(30), <1>0, RefreshedFacts
  <1> HIDE DEF q
  <1>3. r_rows' \in RowsOf /\ (\A s \in Settings : r_rows'[s].value = P[s].value)
    BY <1>1, SavingFacts
  <1>4. \A i \in DOMAIN q : q[i].previous.value = r_rows'[q[i].setting].value
    BY SMTT(30), <1>2, <1>3 DEF Mutations
  <1>5. Ordered(r_queued_mutations) => Ordered(q)
    BY <1>2 DEF Ordered
  <1>6. /\ r_pending_mutation' = {} \/ \E m \in Mutations : r_pending_mutation' = {m}
        /\ r_queued_mutations' \in Seq(Mutations)
        /\ r_thread' \in {"none", "running"} /\ (r_thread' = "none" <=> r_pending_mutation' = {})
        /\ r_pending_mutation' = {} => r_queued_mutations' = <<>>
        /\ Waiting' \subseteq {q[i] : i \in DOMAIN q}
        /\ Ordered(q) =>
                /\ \A m \in r_pending_mutation', i \in DOMAIN r_queued_mutations' :
                       m.id < r_queued_mutations'[i].id
                /\ Ordered(r_queued_mutations)'
    BY <1>1, <1>2, StartsFacts
  <1>7. ASSUME NEW m \in Waiting'
        PROVE  /\ \E i \in DOMAIN r_queued_mutations :
                     LET n == r_queued_mutations[i] IN
                     m.id = n.id /\ m.setting = n.setting /\ m.request = n.request
               /\ m.previous.value = r_rows'[m.setting].value
    <2>1. PICK i \in DOMAIN q : m = q[i]
      BY <1>6
    <2> QED
      BY <2>1, <1>2, <1>4
  <1> QED
    BY <1>1, <1>3, <1>5, <1>6, <1>7 DEF Finished

-----------------------------------------------------------------------------
\* The edit being saved.
LEMMA TheMutationIs ==
  ASSUME RowsTyped, r_pending_mutation # {}
  PROVE  /\ Rows!TheMutation \in Mutations /\ r_pending_mutation = {Rows!TheMutation}
         /\ Rows!TheMutation \in Waiting
  BY DEF RowsTyped, Rows!TheMutation, Waiting

\* A step that leaves the edits, the rows and the file alone.
LEMMA ReadsKeep ==
  ASSUME RowsInv, RowsTyped', OneAtATime', ReadIsCurrent',
         UNCHANGED <<r_rows, r_pending_mutation, r_queued_mutations, r_reconcile_mutation, r_thread, r_file, r_edits,
                     r_newest, r_doubt>>,
         r_closed' = r_closed \/ r_closed'
  PROVE  RowsInv'
  <1>1. Waiting' = Waiting
    BY DEF Waiting
  <1>2. Numbered' /\ NewestIsLast' /\ SavedIsFiled'
    BY <1>1 DEF RowsInv, Numbered, Ordered, NewestIsLast, Behind, SavedIsFiled
  <1>3. PutsBackTheRow' /\ RowsAreFiled'
    BY <1>1 DEF RowsInv, PutsBackTheRow, RowsAreFiled, Exempt, RowsTyped
  <1> QED
    BY <1>2, <1>3 DEF RowsInv

\* No edit is being saved, and a new read takes the place of the one before.
LEMMA RefreshKeeps == ASSUME RowsInv, Rows!Refresh \/ Rows!profile_changed PROVE RowsInv'
  <1>0. /\ Rows!begin_read /\ r_pending_mutation = {} /\ r_closed' = r_closed
        /\ UNCHANGED <<r_rows, r_pending_mutation, r_queued_mutations, r_reconcile_mutation, r_thread, r_file, r_edits,
                     r_newest, r_doubt>>
    BY DEF Rows!Refresh, Rows!profile_changed
  <1>1. RowsTyped'
    BY <1>0, BeginReadFacts DEF RowsInv, RowsTyped
  <1>2. OneAtATime' /\ ReadIsCurrent'
    BY <1>0, BeginReadFacts DEF RowsInv, OneAtATime, Rows!QueueMoves
  <1> QED
    BY <1>0, <1>1, <1>2, ReadsKeep

\* The window closes: the edits that were accepted stay in the queue.
LEMMA RowsCloseKeeps == ASSUME RowsInv, Rows!shutdown \/ UNCHANGED Rows!vars PROVE RowsInv'
  <1>0. /\ UNCHANGED <<r_rows, r_pending_mutation, r_queued_mutations, r_reconcile_mutation, r_thread, r_file, r_edits,
                     r_newest, r_doubt>>
        /\ UNCHANGED <<r_state, r_pending_read, r_reading, r_reads>> /\ r_closed' \in BOOLEAN
        /\ r_closed' = r_closed \/ r_closed'
    BY DEF Rows!shutdown, Rows!vars, Rows!page, RowsInv, RowsTyped
  <1>1. RowsTyped'
    BY <1>0 DEF RowsInv, RowsTyped
  <1>2. OneAtATime' /\ ReadIsCurrent'
    BY SMTT(30), <1>0 DEF RowsInv, OneAtATime, Rows!QueueMoves, ReadIsCurrent
  <1> QED
    BY <1>0, <1>1, <1>2, ReadsKeep

\* A reading thread reads the file.
LEMMA ReadFileKeeps == ASSUME RowsInv, NEW r \in r_reading, Rows!ReadFile(r) PROVE RowsInv'
  <1>0. /\ UNCHANGED <<r_rows, r_pending_mutation, r_queued_mutations, r_reconcile_mutation, r_thread, r_file, r_edits,
                     r_newest, r_doubt>>
        /\ UNCHANGED <<r_state, r_pending_read, r_reads, r_closed>>
    BY DEF Rows!ReadFile, Rows!page
  <1>1. PICK answer : /\ r_reading' = (r_reading \ {r}) \cup {answer}
                      /\ answer.id = r.id
                      /\ answer.answer = "failed" \/ answer.values = r_file
                      /\ ReadRecord(answer)
    <2>1. ReadRecord(r) /\ r_file \in Contents
      BY DEF RowsInv, RowsTyped, Contents
    <2>2. CASE r_reading' = (r_reading \ {r}) \cup {[r EXCEPT !.answer = "failed"]}
      <3>1. /\ ReadRecord([r EXCEPT !.answer = "failed"])
            /\ [r EXCEPT !.answer = "failed"].id = r.id
            /\ [r EXCEPT !.answer = "failed"].answer = "failed"
        BY <2>1 DEF ReadRecord
      <3> QED
        BY <2>2, <3>1
    <2>3. CASE r_reading' = (r_reading \ {r}) \cup {[r EXCEPT !.answer = "read", !.values = r_file]}
      <3>1. /\ ReadRecord([r EXCEPT !.answer = "read", !.values = r_file])
            /\ [r EXCEPT !.answer = "read", !.values = r_file].id = r.id
            /\ [r EXCEPT !.answer = "read", !.values = r_file].values = r_file
        BY <2>1 DEF ReadRecord
      <3> QED
        BY <2>3, <3>1
    <2> QED
      BY <2>2, <2>3 DEF Rows!ReadFile
  <1>2. RowsTyped'
    BY <1>0, <1>1 DEF RowsInv, RowsTyped
  <1>3. OneAtATime' /\ ReadIsCurrent'
    BY <1>0, <1>1 DEF RowsInv, OneAtATime, Rows!QueueMoves, ReadIsCurrent
  <1> QED
    BY <1>0, <1>2, <1>3, ReadsKeep

\* An edit is accepted.
LEMMA BeginKeeps ==
  ASSUME RowsInv, NEW s \in Settings, NEW request \in Values \cup {Rows!Retry}, Rows!begin_mutation(s, request)
  PROVE  RowsInv'
  <1> DEFINE m0 == [id |-> r_edits + 1, setting |-> s, request |-> request, previous |-> r_rows[s]]
             q == Append(r_queued_mutations, m0)
  <1>0. /\ r_rows \in RowsOf /\ ~r_closed /\ r_closed' = r_closed /\ r_reconcile_mutation = {}
        /\ r_edits \in Nat /\ r_edits' = r_edits + 1
        /\ r_queued_mutations \in Seq(Mutations) /\ r_pending_read' = 0
        /\ UNCHANGED <<r_reconcile_mutation, r_reading, r_file, r_reads, r_doubt>>
    BY DEF RowsInv, RowsTyped, Rows!begin_mutation, Rows!can_edit, Rows!loaded
  <1>1. m0 \in Mutations /\ m0.id = r_edits + 1 /\ m0.setting = s /\ m0.request = request
        /\ m0.previous = r_rows[s] /\ m0.id <= r_edits + 1
    BY SMTT(30), <1>0 DEF Mutations, RowsOf
  <1>2. IF r_pending_mutation = {} THEN Rows!Starts(q)
        ELSE r_queued_mutations' = q /\ UNCHANGED <<r_pending_mutation, r_thread>>
    BY <1>0 DEF Rows!begin_mutation, Rows!Enqueue
  <1>3. /\ r_newest' \in [Settings -> [id : Nat, request : Saveable \cup {Rows!Retry}, fate : Fates]]
        /\ r_newest'[s].id = r_edits + 1 /\ r_newest'[s].request = request /\ r_newest'[s].fate = "waiting"
        /\ \A t \in Settings \ {s} : r_newest'[t] = r_newest[t]
    BY SMTT(30), <1>0 DEF Rows!begin_mutation, RowsInv, RowsTyped, Saveable, Fates
  <1>4. r_rows' \in RowsOf /\ \A t \in Settings : r_rows'[t].value = r_rows[t].value
    <2>1. r_rows[s] \in RowRecords
      BY <1>0 DEF RowsOf
    <2>2. r_rows' = [r_rows EXCEPT ![s] = [r_rows[s] EXCEPT !.status = "saving"]]
      BY DEF Rows!begin_mutation
    <2> QED
      BY <1>0, <2>1, <2>2, RowMarked DEF RowsOf
  <1> HIDE DEF m0
  <1>5. /\ q \in Seq(Mutations) /\ q # <<>>
        /\ \A i \in DOMAIN q : \/ i \in DOMAIN r_queued_mutations /\ q[i] = r_queued_mutations[i]
                               \/ i = Len(r_queued_mutations) + 1 /\ q[i] = m0
        /\ \A i \in DOMAIN r_queued_mutations : i \in DOMAIN q /\ i < Len(r_queued_mutations) + 1
    BY SMTT(30), <1>0, <1>1
  <1> HIDE DEF q
  <1>6. \A m \in Waiting : /\ m \in Mutations /\ m.setting \in Settings
                          /\ m.id < r_edits + 1 /\ m.id <= r_edits + 1 /\ m.id # r_edits + 1
    <2> SUFFICES ASSUME NEW m \in Waiting
                 PROVE  /\ m \in Mutations /\ m.setting \in Settings
                        /\ m.id < r_edits + 1 /\ m.id <= r_edits + 1 /\ m.id # r_edits + 1
      OBVIOUS
    <2>1. m \in Mutations
      BY QueueTyped DEF RowsInv
    <2>2. m.id \in Nat /\ m.setting \in Settings
      BY <2>1 DEF Mutations
    <2>3. m.id <= r_newest[m.setting].id
      BY DEF RowsInv, NewestIsLast, Behind
    <2>4. r_newest[m.setting].id <= r_edits /\ r_newest[m.setting].id \in Nat /\ r_edits \in Nat
      BY <2>2 DEF RowsInv, RowsTyped, Numbered
    <2> QED
      BY SMTT(30), <2>1, <2>2, <2>3, <2>4
  <1>7. Ordered(q)
    <2>0. Ordered(r_queued_mutations)
      BY DEF RowsInv, Numbered
    <2>1. \A i \in DOMAIN r_queued_mutations : r_queued_mutations[i].id < r_edits + 1
      BY <1>6 DEF Waiting
    <2> QED
      BY SMTT(30), <1>1, <1>5, <2>0, <2>1 DEF Ordered
  <1>8. /\ \E m \in Mutations : r_pending_mutation' = {m}
        /\ r_queued_mutations' \in Seq(Mutations)
        /\ Waiting' \subseteq Waiting \cup {m0}
        /\ \A m \in r_pending_mutation', i \in DOMAIN r_queued_mutations' : m.id < r_queued_mutations'[i].id
        /\ Ordered(r_queued_mutations)'
        /\ r_thread' # "none" /\ r_thread' \in {"running"} \cup Rows!Outcomes
        /\ r_pending_mutation = {} => r_thread' = "running"
        /\ r_pending_mutation # {} => UNCHANGED <<r_thread, r_pending_mutation>>
    <2>0. {q[i] : i \in DOMAIN q} \subseteq Waiting \cup {m0}
      BY <1>5 DEF Waiting
    <2>1. CASE r_pending_mutation = {}
      BY <1>2, <1>5, <1>7, <2>0, <2>1, StartsFacts
    <2>2. CASE r_pending_mutation # {}
      <3>1. r_queued_mutations' = q /\ UNCHANGED <<r_pending_mutation, r_thread>>
        BY <1>2, <2>2
      <3>2. Waiting' \subseteq Waiting \cup {m0}
        BY <3>1, <2>0 DEF Waiting
      <3>3. \A m \in r_pending_mutation : m.id < r_edits + 1
        BY <1>6 DEF Waiting
      <3>4. \A m \in r_pending_mutation', i \in DOMAIN r_queued_mutations' : m.id < r_queued_mutations'[i].id
        BY <1>1, <1>5, <3>1, <3>3 DEF RowsInv, Numbered
      <3>5. Ordered(r_queued_mutations)'
        BY <1>7, <3>1 DEF Ordered
      <3>6. /\ \E m \in Mutations : r_pending_mutation' = {m}
            /\ r_thread' # "none" /\ r_thread' \in {"running"} \cup Rows!Outcomes
        BY <2>2, <3>1 DEF RowsInv, RowsTyped, OneAtATime
      <3> QED
        BY <1>5, <2>2, <3>1, <3>2, <3>4, <3>5, <3>6
    <2> QED
      BY <2>1, <2>2
  <1>9. RowsTyped' /\ OneAtATime' /\ ReadIsCurrent'
    <2>1. RowsTyped'
      <3>1. RowsTyped /\ 0 \in Nat /\ 0 <= r_reads
        BY ZeroIsNoRead DEF RowsInv
      <3>2. r_edits' \in Nat
        BY SMTT(30), <1>0
      <3> QED
        BY <1>0, <1>3, <1>4, <1>8, <3>1, <3>2 DEF RowsTyped
    <2>2. OneAtATime' /\ ReadIsCurrent'
      <3>1. OneAtATime'
        BY <1>0, <1>8 DEF OneAtATime, Rows!QueueMoves
      <3>2. ReadIsCurrent'
        BY <1>0, NoReadCounts DEF RowsInv
      <3> QED
        BY <3>1, <3>2
    <2> QED
      BY <2>1, <2>2
  <1>10. Numbered'
    <2>1. \A t \in Settings : r_newest'[t].id <= r_edits'
      <3>1. \A t \in Settings : r_newest[t].id \in Nat /\ r_newest[t].id <= r_edits
        BY DEF RowsInv, RowsTyped, Numbered
      <3> QED
        BY SMTT(30), <1>0, <1>3, <3>1
    <2> QED
      BY <1>8, <2>1 DEF Numbered
  <1>11. NewestIsLast'
    <2> SUFFICES ASSUME NEW m \in Waiting'
                 PROVE  /\ m.id <= r_newest'[m.setting].id
                        /\ m.id = r_newest'[m.setting].id => m.request = r_newest'[m.setting].request
                        /\ r_newest'[m.setting].fate = "waiting"
      BY DEF NewestIsLast, Behind
    <2>1. CASE m = m0
      BY <1>1, <1>3, <2>1
    <2>2. CASE m \in Waiting
      <3>1. CASE m.setting = s
        BY <1>3, <1>6, <2>2, <3>1
      <3>2. CASE m.setting # s
        BY <1>3, <1>6, <2>2, <3>2 DEF RowsInv, NewestIsLast, Behind
      <3> QED
        BY <3>1, <3>2
    <2> QED
      BY <1>8, <2>1, <2>2
  <1>12. SavedIsFiled'
    BY <1>0, <1>3, <1>8 DEF RowsInv, SavedIsFiled
  <1>13. PutsBackTheRow'
    <2> SUFFICES ASSUME NEW m \in Waiting'
                 PROVE  m.previous.value = r_rows'[m.setting].value
      BY DEF PutsBackTheRow
    <2>1. CASE m = m0
      BY <1>1, <1>4, <2>1
    <2>2. CASE m \in Waiting
      BY <1>0, <1>4, <1>6, <2>2 DEF RowsInv, PutsBackTheRow, Mutations
    <2> QED
      BY <1>8, <2>1, <2>2
  <1>14. RowsAreFiled'
    BY <1>0, <1>4, <1>8 DEF RowsInv, RowsAreFiled, Exempt, OneAtATime
  <1> QED
    BY <1>9, <1>10, <1>11, <1>12, <1>13, <1>14 DEF RowsInv

\* The thread has saved an edit, or not.
LEMMA WriteKeeps == ASSUME RowsInv, Rows!write_setting PROVE RowsInv'
  <1> DEFINE m == Rows!TheMutation
  <1>0. /\ r_pending_mutation = {m} /\ m \in Mutations /\ m \in Waiting /\ r_pending_read = 0
        /\ ~r_closed => r_reconcile_mutation = {}
        /\ r_newest[m.setting].fate = "waiting"
    BY TheMutationIs DEF RowsInv, OneAtATime, Rows!write_setting, NewestIsLast, Behind
  <1> HIDE DEF m
  <1>1. /\ UNCHANGED <<r_state, r_rows, r_pending_read, r_pending_mutation, r_queued_mutations, r_reconcile_mutation>>
        /\ UNCHANGED <<r_closed, r_reading, r_reads, r_edits, r_newest>>
        /\ r_thread = "running"
    BY DEF Rows!write_setting, Rows!page
  <1>2. PICK how \in Rows!Outcomes, saves \in BOOLEAN :
          /\ how \in {"saved", "apply_failed"} => saves
          /\ how = "refused" \/ m.request = Rows!Retry => ~saves \/ how \in {"saved", "apply_failed"}
          /\ r_thread' = how
          /\ r_file' = IF saves /\ m.request # Rows!Retry
                       THEN [r_file EXCEPT ![m.setting] = m.request] ELSE r_file
          /\ r_doubt' = IF how = "undone" /\ saves THEN r_doubt \cup {m.setting} ELSE r_doubt
    BY DEF Rows!write_setting, m
  <1>3. /\ r_file' \in [Settings -> Saveable]
        /\ \A s \in Settings : s # m.setting => r_file'[s] = r_file[s]
        /\ saves /\ m.request # Rows!Retry => r_file'[m.setting] = m.request
        /\ ~saves \/ m.request = Rows!Retry => r_file' = r_file
    BY <1>0, <1>2 DEF RowsInv, RowsTyped, Mutations, Saveable
  <1>4. Waiting' = Waiting
    BY <1>1 DEF Waiting
  <1>5. RowsTyped'
    BY <1>1, <1>2, <1>3 DEF RowsInv, RowsTyped
  <1>6. OneAtATime' /\ ReadIsCurrent'
    BY SMTT(30), <1>0, <1>1, <1>2 DEF RowsInv, RowsTyped, OneAtATime, Rows!QueueMoves, ReadIsCurrent, Rows!Outcomes
  <1>7. Numbered' /\ NewestIsLast' /\ PutsBackTheRow'
    BY <1>1, <1>4 DEF RowsInv, Numbered, Ordered, NewestIsLast, Behind, PutsBackTheRow
  <1>8. SavedIsFiled'
    BY <1>0, <1>1, <1>2, <1>3 DEF RowsInv, SavedIsFiled
  <1>9. RowsAreFiled'
    <2> SUFFICES ASSUME ~r_closed, r_rows \in RowsOf, NEW s \in Settings
                 PROVE  Exempt(s)' \/ r_rows[s].value = r_file'[s]
      BY <1>1 DEF RowsAreFiled
    <2>1. s \in r_doubt \/ r_rows[s].value = r_file[s]
      BY <1>0, <1>1 DEF RowsInv, RowsAreFiled, Exempt
    <2>2. CASE s # m.setting
      BY <1>2, <1>3, <2>1, <2>2 DEF Exempt
    <2>3. CASE s = m.setting
      <3>1. CASE how \in {"saved", "apply_failed", "stopped"}
        BY <1>0, <1>1, <1>2, <2>3, <3>1 DEF Exempt
      <3>2. CASE how \in {"refused", "undone"}
        BY <1>2, <1>3, <2>1, <2>3, <3>2 DEF Exempt
      <3> QED
        BY <3>1, <3>2 DEF Rows!Outcomes
    <2> QED
      BY <2>2, <2>3
  <1> QED
    BY <1>5, <1>6, <1>7, <1>8, <1>9 DEF RowsInv

-----------------------------------------------------------------------------
\* How an edit ended is remembered if it is the newest of its row; then no other edit of that
\* row waits.
LEMMA RememberFacts ==
  ASSUME RowsInv, r_pending_mutation # {}, NEW how \in Rows!Outcomes, Rows!Remember(Rows!TheMutation, how),
         how = r_thread
  PROVE  /\ r_newest' \in [Settings -> [id : Nat, request : Saveable \cup {Rows!Retry}, fate : Fates]]
         /\ \A s \in Settings : r_newest'[s].id = r_newest[s].id
         /\ \A i \in DOMAIN r_queued_mutations :
                LET n == r_queued_mutations[i] IN
                /\ n.id <= r_newest'[n.setting].id
                /\ n.id = r_newest'[n.setting].id => n.request = r_newest'[n.setting].request
                /\ r_newest'[n.setting].fate = "waiting"
         /\ \A s \in Settings :
                r_newest'[s].fate \in {"saved", "apply_failed"} /\ r_newest'[s].request # Rows!Retry =>
                    r_file[s] = r_newest'[s].request
  <1> DEFINE m == Rows!TheMutation
  <1>0. /\ r_pending_mutation = {m} /\ m \in Mutations /\ Behind(m)
    BY TheMutationIs DEF RowsInv, NewestIsLast
  <1>1. r_newest' = IF r_newest[m.setting].id = m.id THEN [r_newest EXCEPT ![m.setting].fate = how] ELSE r_newest
    BY DEF Rows!Remember
  <1>2. r_newest \in [Settings -> [id : Nat, request : Saveable \cup {Rows!Retry}, fate : Fates]]
    BY DEF RowsInv, RowsTyped
  <1> HIDE DEF m
  <1>3. m.setting \in Settings /\ how \in Fates
    BY <1>0 DEF Mutations, Fates
  <1>4. /\ r_newest' \in [Settings -> [id : Nat, request : Saveable \cup {Rows!Retry}, fate : Fates]]
        /\ \A s \in Settings :
              /\ r_newest'[s].id = r_newest[s].id /\ r_newest'[s].request = r_newest[s].request
              /\ r_newest'[s].fate = IF s = m.setting /\ r_newest[s].id = m.id THEN how ELSE r_newest[s].fate
    BY SMTT(30), <1>1, <1>2, <1>3
  <1>5. ASSUME NEW i \in DOMAIN r_queued_mutations
        PROVE  LET n == r_queued_mutations[i] IN
                /\ n.id <= r_newest'[n.setting].id
                /\ n.id = r_newest'[n.setting].id => n.request = r_newest'[n.setting].request
                /\ r_newest'[n.setting].fate = "waiting"
    <2> DEFINE n == r_queued_mutations[i]
    <2>1. n \in Mutations /\ Behind(n) /\ m.id < n.id
      BY <1>0, QueueTyped DEF RowsInv, NewestIsLast, Waiting, Numbered
    <2> HIDE DEF n
    <2>2. ~(n.setting = m.setting /\ r_newest[n.setting].id = m.id)
      BY SMTT(30), <1>0, <2>1 DEF Behind, Mutations
    <2>3. n.setting \in Settings
      BY <2>1 DEF Mutations
    <2>4. /\ n.id <= r_newest'[n.setting].id
          /\ n.id = r_newest'[n.setting].id => n.request = r_newest'[n.setting].request
          /\ r_newest'[n.setting].fate = "waiting"
      BY <1>4, <2>1, <2>2, <2>3 DEF Behind
    <2> QED
      BY <2>4 DEF n
  <1>6. ASSUME NEW s \in Settings, r_newest'[s].fate \in {"saved", "apply_failed"},
               r_newest'[s].request # Rows!Retry
        PROVE  r_file[s] = r_newest'[s].request
    <2>1. CASE s = m.setting /\ r_newest[s].id = m.id
      BY <1>0, <1>4, <1>6, <2>1 DEF RowsInv, SavedIsFiled, Behind
    <2>2. CASE ~(s = m.setting /\ r_newest[s].id = m.id)
      BY <1>4, <1>6, <2>2 DEF RowsInv, SavedIsFiled
    <2> QED
      BY <2>1, <2>2
  <1> QED
    BY <1>4, <1>5, <1>6

\* A window that has closed starts the next edit.
LEMMA DrainKeeps ==
  ASSUME RowsInv, r_closed, r_closed', Rows!Drain, r_pending_read' = 0, r_reading' \subseteq r_reading,
         UNCHANGED <<r_state, r_rows, r_reconcile_mutation, r_file, r_reads, r_edits>>,
         r_newest' \in [Settings -> [id : Nat, request : Saveable \cup {Rows!Retry}, fate : Fates]],
         \A s \in Settings : r_newest'[s].id = r_newest[s].id,
         \A i \in DOMAIN r_queued_mutations :
                LET n == r_queued_mutations[i] IN
                /\ n.id <= r_newest'[n.setting].id
                /\ n.id = r_newest'[n.setting].id => n.request = r_newest'[n.setting].request
                /\ r_newest'[n.setting].fate = "waiting",
         \A s \in Settings :
                r_newest'[s].fate \in {"saved", "apply_failed"} /\ r_newest'[s].request # Rows!Retry =>
                    r_file[s] = r_newest'[s].request
  PROVE  RowsInv'
  <1> DEFINE q == r_queued_mutations
  <1>0. q \in Seq(Mutations) /\ Ordered(q) /\ Rows!Starts(q)
    BY DEF RowsInv, RowsTyped, Numbered, Rows!Drain
  <1>1. /\ r_pending_mutation' = {} \/ \E m \in Mutations : r_pending_mutation' = {m}
        /\ r_queued_mutations' \in Seq(Mutations)
        /\ r_thread' \in {"none", "running"} /\ (r_thread' = "none" <=> r_pending_mutation' = {})
        /\ r_pending_mutation' = {} => r_queued_mutations' = <<>>
        /\ Waiting' \subseteq {q[i] : i \in DOMAIN q}
        /\ \A m \in r_pending_mutation', i \in DOMAIN r_queued_mutations' : m.id < r_queued_mutations'[i].id
        /\ Ordered(r_queued_mutations)'
    BY <1>0, StartsFacts
  <1>2. q = <<>> => r_pending_mutation' = {}
    BY <1>0 DEF Rows!Starts
  <1>3. RowsTyped'
    <2>1. RowsTyped /\ 0 \in Nat /\ 0 <= r_reads
      BY ZeroIsNoRead DEF RowsInv
    <2> QED
      BY <1>1, <1>2, <2>1 DEF RowsTyped
  <1>4. OneAtATime' /\ ReadIsCurrent' /\ Numbered'
    <2>1. OneAtATime'
      BY <1>1 DEF OneAtATime, Rows!QueueMoves
    <2>2. ReadIsCurrent'
      BY NoReadCounts DEF RowsInv
    <2>3. Numbered'
      BY <1>1 DEF RowsInv, Numbered
    <2> QED
      BY <2>1, <2>2, <2>3
  <1>5. NewestIsLast'
    <2> SUFFICES ASSUME NEW m \in Waiting' PROVE Behind(m)'
      BY DEF NewestIsLast, Behind
    <2>1. PICK i \in DOMAIN q : m = q[i]
      BY <1>1
    <2> QED
      BY <2>1 DEF Behind
  <1>6. SavedIsFiled' /\ PutsBackTheRow' /\ RowsAreFiled'
    BY <1>1 DEF SavedIsFiled, PutsBackTheRow, RowsAreFiled
  <1> QED
    BY <1>3, <1>4, <1>5, <1>6 DEF RowsInv

\* The edits that are left after the rows became P start.
LEMMA ProceedKeeps ==
  ASSUME RowsInv, ~r_closed, r_closed' = r_closed, NEW P \in RowsOf, NEW completed,
         Rows!finish_mutation(P, completed, 0),
         \A i \in DOMAIN r_queued_mutations :
             LET m == r_queued_mutations[i] IN
             m.setting \notin completed => m.previous.value = P[m.setting].value,
         r_pending_read' = 0, r_reading' \subseteq r_reading, r_reconcile_mutation' = {},
         UNCHANGED <<r_file, r_reads, r_edits>>,
         r_newest' \in [Settings -> [id : Nat, request : Saveable \cup {Rows!Retry}, fate : Fates]],
         \A s \in Settings : r_newest'[s].id = r_newest[s].id,
         \A i \in DOMAIN r_queued_mutations :
                LET n == r_queued_mutations[i] IN
                /\ n.id <= r_newest'[n.setting].id
                /\ n.id = r_newest'[n.setting].id => n.request = r_newest'[n.setting].request
                /\ r_newest'[n.setting].fate = "waiting",
         \A s \in Settings :
                r_newest'[s].fate \in {"saved", "apply_failed"} /\ r_newest'[s].request # Rows!Retry =>
                    r_file[s] = r_newest'[s].request,
         \A s \in Settings : s \in r_doubt' \/ P[s].value = r_file[s]
  PROVE  RowsInv'
  <1>0. RowsTyped /\ Ordered(r_queued_mutations)
    BY DEF RowsInv, Numbered
  <1>1. Finished(P)
    BY <1>0, FinishFacts
  <1>2. RowsTyped'
    <2>1. 0 \in Nat /\ 0 <= r_reads
      BY <1>0, ZeroIsNoRead
    <2> QED
      BY <1>0, <1>1, <2>1 DEF Finished, RowsTyped
  <1>3. OneAtATime' /\ ReadIsCurrent' /\ Numbered'
    <2>1. OneAtATime'
      BY <1>1 DEF Finished, OneAtATime, Rows!QueueMoves
    <2>2. ReadIsCurrent'
      BY <1>0, NoReadCounts
    <2>3. Numbered'
      BY <1>1 DEF Finished, RowsInv, Numbered
    <2> QED
      BY <2>1, <2>2, <2>3
  <1>4. NewestIsLast'
    <2> SUFFICES ASSUME NEW m \in Waiting' PROVE Behind(m)'
      BY DEF NewestIsLast, Behind
    <2>1. PICK i \in DOMAIN r_queued_mutations :
            /\ m.id = r_queued_mutations[i].id /\ m.setting = r_queued_mutations[i].setting
            /\ m.request = r_queued_mutations[i].request
      BY <1>1 DEF Finished
    <2> QED
      BY <2>1 DEF Behind
  <1>5. SavedIsFiled' /\ PutsBackTheRow' /\ RowsAreFiled'
    BY <1>1 DEF Finished, SavedIsFiled, PutsBackTheRow, RowsAreFiled, Exempt
  <1> QED
    BY <1>2, <1>3, <1>4, <1>5 DEF RowsInv

\* What is known of the edits when none has ended.
LEMMA NothingEnded ==
  ASSUME RowsInv, r_newest' = r_newest
  PROVE  /\ r_newest' \in [Settings -> [id : Nat, request : Saveable \cup {Rows!Retry}, fate : Fates]]
         /\ \A s \in Settings : r_newest'[s].id = r_newest[s].id
         /\ \A i \in DOMAIN r_queued_mutations :
                LET n == r_queued_mutations[i] IN
                /\ n.id <= r_newest'[n.setting].id
                /\ n.id = r_newest'[n.setting].id => n.request = r_newest'[n.setting].request
                /\ r_newest'[n.setting].fate = "waiting"
         /\ \A s \in Settings :
                r_newest'[s].fate \in {"saved", "apply_failed"} /\ r_newest'[s].request # Rows!Retry =>
                    r_file[s] = r_newest'[s].request
  <1>1. \A i \in DOMAIN r_queued_mutations : Behind(r_queued_mutations[i])
    BY DEF RowsInv, NewestIsLast, Waiting
  <1> QED
    BY <1>1 DEF RowsInv, RowsTyped, Behind, SavedIsFiled

\* A read is reported: only the newest is shown, and it starts what waits in the queue.
LEMMA SnapshotKeeps == ASSUME RowsInv, NEW r \in r_reading, Rows!complete_snapshot(r) PROVE RowsInv'
  <1>0. /\ r_reading' \subseteq r_reading /\ UNCHANGED <<r_closed, r_file, r_reads, r_edits, r_newest>>
        /\ (r_closed' = r_closed \/ r_closed') /\ r_closed \in BOOLEAN
    BY DEF Rows!complete_snapshot, RowsInv, RowsTyped
  <1>1. CASE Rows!Superseded(r)
    <2>1. UNCHANGED <<r_state, r_rows, r_pending_read, r_pending_mutation, r_queued_mutations, r_reconcile_mutation,
                      r_thread, r_doubt>>
      BY <1>1 DEF Rows!complete_snapshot, Rows!page
    <2>2. RowsTyped' /\ OneAtATime' /\ ReadIsCurrent'
      BY <1>0, <2>1 DEF RowsInv, RowsTyped, OneAtATime, Rows!QueueMoves, ReadIsCurrent
    <2> QED
      BY <1>0, <2>1, <2>2, ReadsKeep
  <1>2. CASE ~Rows!Superseded(r) /\ r_closed
    <2>1. r_pending_read # 0 /\ r_pending_mutation = {}
      BY SMTT(30), <1>2 DEF Rows!Superseded, RowsInv, RowsTyped, OneAtATime
    <2>2. Rows!Drain /\ r_pending_read' = 0 /\ UNCHANGED <<r_state, r_rows, r_reconcile_mutation, r_doubt>>
      BY <1>2, <2>1 DEF Rows!complete_snapshot
    <2> QED
      BY <1>0, <1>2, <2>2, NothingEnded, DrainKeeps
  <1>3. CASE ~Rows!Superseded(r) /\ ~r_closed /\ r.answer = "failed"
    <2>1. /\ r_state' = "failed" /\ r_pending_read' = 0
          /\ UNCHANGED <<r_rows, r_pending_mutation, r_queued_mutations, r_reconcile_mutation, r_thread, r_doubt>>
      BY <1>3 DEF Rows!complete_snapshot
    <2>2. RowsTyped' /\ OneAtATime' /\ ReadIsCurrent'
      <3>1. RowsTyped'
        <4>1. RowsTyped /\ 0 \in Nat /\ 0 <= r_reads
          BY ZeroIsNoRead DEF RowsInv
        <4> QED
          BY <1>0, <2>1, <4>1 DEF RowsTyped
      <3>2. OneAtATime'
        BY <1>0, <2>1 DEF RowsInv, OneAtATime, Rows!QueueMoves
      <3>3. ReadIsCurrent'
        BY <1>0, <2>1, NoReadCounts DEF RowsInv
      <3> QED
        BY <3>1, <3>2, <3>3
    <2> QED
      BY <1>0, <2>1, <2>2, ReadsKeep
  <1>4. CASE ~Rows!Superseded(r) /\ ~r_closed /\ r.answer # "failed"
    <2>1. /\ r_pending_read' = 0 /\ Rows!finish_mutation(Rows!FreshRows(r), Settings, 0)
          /\ r_reconcile_mutation' = {} /\ r_doubt' = {} /\ r.answer # "none"
      BY <1>4 DEF Rows!complete_snapshot
    <2>2. r.values = r_file
      BY <1>4, <2>1 DEF RowsInv, ReadIsCurrent, Rows!Superseded
    <2>3. Rows!FreshRows(r) \in RowsOf /\ \A s \in Settings : Rows!FreshRows(r)[s].value = r_file[s]
      BY <2>2 DEF Rows!FreshRows, Rows!Row, RowsInv, RowsTyped, RowsOf, RowRecords
    <2>4. \A i \in DOMAIN r_queued_mutations : r_queued_mutations[i].setting \in Settings
      BY QueueTyped DEF RowsInv, Mutations
    <2> QED
      BY <1>0, <1>4, <2>1, <2>3, <2>4, NothingEnded, ProceedKeeps
  <1> QED
    BY <1>1, <1>2, <1>3, <1>4

\* The saving thread reports how the edit went, and the next one of the queue starts.
LEMMA MutationEndKeeps == ASSUME RowsInv, Rows!complete_mutation PROVE RowsInv'
  <1> DEFINE m == Rows!TheMutation
  <1>0. /\ UNCHANGED <<r_pending_read, r_reconcile_mutation, r_closed, r_reading, r_file, r_reads, r_edits, r_doubt>>
        /\ r_thread \in {"saved", "apply_failed", "refused", "undone"} /\ r_thread \in Rows!Outcomes
        /\ Rows!Remember(m, r_thread) /\ r_closed \in BOOLEAN
    BY DEF Rows!complete_mutation, Rows!Outcomes, RowsInv, RowsTyped
  <1>1. /\ r_pending_mutation = {m} /\ m \in Mutations /\ m \in Waiting /\ r_pending_read = 0
        /\ ~r_closed => r_reconcile_mutation = {}
    BY <1>0, TheMutationIs DEF RowsInv, OneAtATime
  <1>2. /\ r_newest' \in [Settings -> [id : Nat, request : Saveable \cup {Rows!Retry}, fate : Fates]]
        /\ \A s \in Settings : r_newest'[s].id = r_newest[s].id
        /\ \A i \in DOMAIN r_queued_mutations :
                LET n == r_queued_mutations[i] IN
                /\ n.id <= r_newest'[n.setting].id
                /\ n.id = r_newest'[n.setting].id => n.request = r_newest'[n.setting].request
                /\ r_newest'[n.setting].fate = "waiting"
        /\ \A s \in Settings :
                r_newest'[s].fate \in {"saved", "apply_failed"} /\ r_newest'[s].request # Rows!Retry =>
                    r_file[s] = r_newest'[s].request
    BY <1>0, <1>1, RememberFacts
  <1>3. CASE r_closed
    <2>1. Rows!Drain /\ UNCHANGED <<r_state, r_rows>>
      BY <1>3 DEF Rows!complete_mutation
    <2> QED
      BY <1>0, <1>1, <1>2, <1>3, <2>1, DrainKeeps
  <1>4. CASE ~r_closed
    <2> DEFINE new == IF r_thread \in {"refused", "undone"}
                      THEN Rows!Row(m.previous.value,
                                    IF r_thread = "refused" /\ m.previous.status = "retry" THEN "retry" ELSE "idle")
                      ELSE Rows!Row(IF m.request = Rows!Retry THEN r_file[m.setting] ELSE m.request,
                                    IF r_thread = "saved" THEN "idle" ELSE "retry")
               P == [r_rows EXCEPT ![m.setting] = new]
    <2>1. Rows!finish_mutation(P, {m.setting}, 0)
      BY <1>1, <1>4 DEF Rows!complete_mutation
    <2>2. /\ r_rows \in RowsOf /\ m.previous.value = r_rows[m.setting].value
          /\ m.setting \in Settings /\ m.previous \in RowRecords
      BY <1>1, <1>4 DEF RowsInv, RowsTyped, PutsBackTheRow, Mutations
    <2> HIDE DEF m
    <2>3. new \in RowRecords
      BY <1>1, <2>2 DEF Rows!Row, RowRecords, RowsInv, RowsTyped, Mutations, Saveable
    <2>4. m.setting \in r_doubt \/ new.value = r_file[m.setting]
      <3>1. CASE r_thread \in {"refused", "undone"}
        <4>1. new.value = m.previous.value
          BY <3>1 DEF Rows!Row
        <4>2. m.setting \in r_doubt \/ r_rows[m.setting].value = r_file[m.setting]
          BY <1>1, <1>4, <2>2, <3>1 DEF RowsInv, RowsAreFiled, Exempt
        <4> QED
          BY <2>2, <4>1, <4>2
      <3>2. CASE r_thread \in {"saved", "apply_failed"}
        BY <1>1, <3>2 DEF RowsInv, SavedIsFiled, Rows!Row
      <3> QED
        BY <1>0, <3>1, <3>2
    <2> HIDE DEF new
    <2>5. /\ P \in RowsOf /\ P[m.setting] = new
          /\ \A s \in Settings \ {m.setting} : P[s] = r_rows[s]
      BY <2>2, <2>3 DEF RowsOf
    <2> HIDE DEF P
    <2>6. \A s \in Settings : s \in r_doubt' \/ P[s].value = r_file[s]
      <3> SUFFICES ASSUME NEW s \in Settings PROVE s \in r_doubt \/ P[s].value = r_file[s]
        BY <1>0
      <3>1. CASE s = m.setting
        BY <2>4, <2>5, <3>1
      <3>2. CASE s # m.setting
        BY <1>1, <1>4, <2>2, <2>5, <3>2 DEF RowsInv, RowsAreFiled, Exempt
      <3> QED
        BY <3>1, <3>2
    <2>7. \A i \in DOMAIN r_queued_mutations :
             LET n == r_queued_mutations[i] IN
             n.setting \notin {m.setting} => n.previous.value = P[n.setting].value
      <3> SUFFICES ASSUME NEW i \in DOMAIN r_queued_mutations,
                          r_queued_mutations[i].setting # m.setting
                   PROVE  r_queued_mutations[i].previous.value = P[r_queued_mutations[i].setting].value
        OBVIOUS
      <3>1. r_queued_mutations[i] \in Waiting /\ r_queued_mutations[i].setting \in Settings
        BY QueueTyped DEF Waiting, RowsInv, Mutations
      <3> QED
        BY <1>4, <2>5, <3>1 DEF RowsInv, PutsBackTheRow
    <2>8. r_pending_read' = 0 /\ r_reconcile_mutation' = {} /\ r_closed' = r_closed /\ r_reading' \subseteq r_reading
          /\ UNCHANGED <<r_file, r_reads, r_edits>>
      BY <1>0, <1>1, <1>4
    <2> QED
      BY <1>2, <1>4, <2>1, <2>5, <2>6, <2>7, <2>8, ProceedKeeps
  <1> QED
    BY <1>0, <1>3, <1>4

\* The saving thread has died without a report: an open page reads the file again, a closed
\* one goes on with the queue.
LEMMA StoppedKeeps == ASSUME RowsInv, Rows!mutation_worker_stopped PROVE RowsInv'
  <1> DEFINE m == Rows!TheMutation
  <1>0. /\ UNCHANGED <<r_closed, r_file, r_edits, r_doubt>>
        /\ r_thread = "stopped" /\ r_thread \in Rows!Outcomes
        /\ Rows!Remember(m, r_thread) /\ r_closed \in BOOLEAN
    BY DEF Rows!mutation_worker_stopped, Rows!Outcomes, RowsInv, RowsTyped
  <1>1. /\ r_pending_mutation = {m} /\ m \in Mutations /\ m \in Waiting /\ r_pending_read = 0
        /\ ~r_closed => r_reconcile_mutation = {}
    BY <1>0, TheMutationIs DEF RowsInv, OneAtATime
  <1>2. /\ r_newest' \in [Settings -> [id : Nat, request : Saveable \cup {Rows!Retry}, fate : Fates]]
        /\ \A s \in Settings : r_newest'[s].id = r_newest[s].id
        /\ \A i \in DOMAIN r_queued_mutations :
                LET n == r_queued_mutations[i] IN
                /\ n.id <= r_newest'[n.setting].id
                /\ n.id = r_newest'[n.setting].id => n.request = r_newest'[n.setting].request
                /\ r_newest'[n.setting].fate = "waiting"
        /\ \A s \in Settings :
                r_newest'[s].fate \in {"saved", "apply_failed"} /\ r_newest'[s].request # Rows!Retry =>
                    r_file[s] = r_newest'[s].request
    BY <1>0, <1>1, RememberFacts
  <1>3. CASE r_closed
    <2>1. Rows!Drain /\ UNCHANGED <<r_state, r_rows, r_pending_read, r_reconcile_mutation, r_reading, r_reads>>
      BY <1>3 DEF Rows!mutation_worker_stopped
    <2> QED
      BY <1>0, <1>1, <1>2, <1>3, <2>1, DrainKeeps
  <1>4. CASE ~r_closed
    <2>1. /\ Rows!begin_read /\ r_rows' = [r_rows EXCEPT ![m.setting].status = "idle"]
          /\ r_reconcile_mutation' = r_pending_mutation /\ r_pending_mutation' = {} /\ r_thread' = "none"
          /\ UNCHANGED r_queued_mutations
      BY <1>4 DEF Rows!mutation_worker_stopped
    <2>2. r_rows \in RowsOf /\ m.setting \in Settings
      BY <1>1 DEF RowsInv, RowsTyped, Mutations
    <2> HIDE DEF m
    <2>3. r_rows' \in RowsOf /\ \A s \in Settings : r_rows'[s].value = r_rows[s].value
      <3>1. r_rows[m.setting] \in RowRecords
        BY <2>2 DEF RowsOf
      <3>2. r_rows' = [r_rows EXCEPT ![m.setting] = [r_rows[m.setting] EXCEPT !.status = "idle"]]
        BY <2>1
      <3> QED
        BY <2>2, <3>1, <3>2, RowMarked DEF RowsOf
    <2>4. /\ Waiting' \subseteq Waiting
          /\ \A n \in Waiting' : n \in Mutations /\ \E i \in DOMAIN r_queued_mutations : n = r_queued_mutations[i]
      BY SMTT(30), <2>1 DEF Waiting, RowsInv, RowsTyped
    <2>5. RowsTyped'
      BY <1>0, <1>1, <1>2, <2>1, <2>3, BeginReadFacts DEF RowsInv, RowsTyped
    <2>6. OneAtATime' /\ ReadIsCurrent'
      BY <1>0, <2>1, BeginReadFacts DEF RowsInv, OneAtATime, Rows!QueueMoves
    <2>7. Numbered'
      BY <1>0, <1>2, <2>1 DEF RowsInv, Numbered, Ordered
    <2>8. NewestIsLast'
      <3> SUFFICES ASSUME NEW n \in Waiting' PROVE Behind(n)'
        BY DEF NewestIsLast, Behind
      <3>1. PICK i \in DOMAIN r_queued_mutations : n = r_queued_mutations[i]
        BY <2>4
      <3> QED
        BY <1>2, <3>1 DEF Behind
    <2>9. SavedIsFiled' /\ PutsBackTheRow'
      BY <1>0, <1>2, <1>4, <2>1, <2>3, <2>4 DEF RowsInv, SavedIsFiled, PutsBackTheRow, Mutations
    <2>10. RowsAreFiled'
      BY <1>0, <1>1, <1>4, <2>1, <2>2, <2>3 DEF RowsInv, RowsAreFiled, Exempt
    <2> QED
      BY <2>5, <2>6, <2>7, <2>8, <2>9, <2>10 DEF RowsInv
  <1> QED
    BY <1>0, <1>3, <1>4

\* Every step of the page and of its threads keeps the invariant.
LEMMA RowsNext == RowsInv /\ [Rows!Next]_(Rows!vars) => RowsInv'
  BY BeginKeeps, RefreshKeeps, RowsCloseKeeps, ReadFileKeeps, SnapshotKeeps, WriteKeeps,
     MutationEndKeeps, StoppedKeeps DEF Rows!Next

\* The invariant gives the property that the run checks.
LEMMA RowsShown == RowsInv => Rows!ShownIsSaved
  <1> SUFFICES ASSUME RowsInv, Rows!Settled, NEW s \in Settings
               PROVE  /\ r_newest[s].fate \in {"saved", "apply_failed"} /\ r_newest[s].request # Rows!Retry =>
                             r_file[s] = r_newest[s].request
                      /\ r_state = "ready" /\ ~r_closed /\ s \notin r_doubt => r_rows[s].value = r_file[s]
    BY DEF Rows!ShownIsSaved
  <1> QED
    BY DEF RowsInv, RowsTyped, OneAtATime, SavedIsFiled, RowsAreFiled, Exempt, Rows!Settled

\* An edit that waits does not wait for nothing.
LEMMA RowsMove == RowsInv => Rows!QueueMoves
  BY DEF RowsInv, OneAtATime

=============================================================================
