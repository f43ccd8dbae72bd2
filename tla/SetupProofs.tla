------------------------- MODULE SetupProofs -------------------------
(***************************************************************************)
(* The inductive invariants of three parts of the application: the gate    *)
(* that keeps the pages shut until setup is complete (SetupGate), the      *)
(* session with the TV (WebOsSession) and the update of the program        *)
(* (UpdateFlow). Each comes with the lemmas that its steps keep it.        *)
(* ApplicationProofs has these parts beside the others, and the theorems   *)
(* about them.                                                             *)
(***************************************************************************)
EXTENDS Integers, Sequences, TLAPS

-----------------------------------------------------------------------------
(***************************************************************************)
(* The setup gate, for any number of changes, operations, assessments and  *)
(* restarts of the session service.                                        *)
(***************************************************************************)

CONSTANTS MaxChanges, MaxRevision, MaxActs, MaxServices

VARIABLES
    g_admitted, g_closed, g_close_after_setup, g_manual_setup, g_health, g_probe,
    g_onboarding, g_step, g_work, g_waiting, g_facts, g_version, g_service, g_seen, g_acts

Gate == INSTANCE SetupGate WITH
    admitted <- g_admitted, closed <- g_closed, close_after_setup <- g_close_after_setup,
    manual_setup <- g_manual_setup, health <- g_health, probe <- g_probe,
    onboarding <- g_onboarding, step <- g_step, work <- g_work, waiting <- g_waiting,
    facts <- g_facts, version <- g_version, service <- g_service, seen <- g_seen,
    acts <- g_acts

Statuses == {"unchecked", "complete", "incomplete"}
Request == [instance : Nat, revision : Nat]
Assessment == [instance : Nat, revision : Nat, status : Statuses, version : Nat]

Health == [status : Statuses, running : BOOLEAN, stale : BOOLEAN, paused : BOOLEAN,
           needed : BOOLEAN, required : SUBSET Request, restart : BOOLEAN]
Operation == [pc : {"restart", "request", "snapshot", "done"}, requests : BOOLEAN,
              required : SUBSET Request, snapshot : SUBSET Assessment]
Onboarding == [open : BOOLEAN, active : {"none", "open", "work", "recheck"},
               cancellation : BOOLEAN, cancelling : BOOLEAN, status : Statuses,
               snapshot : BOOLEAN]
Works == [Gate!Pages -> {"none", "running", "done", "lost"}]
Service == [instance : Nat, revision : Nat, asked : BOOLEAN, probing : SUBSET Assessment,
            snapshot : Assessment]

SetupTyped ==
    /\ g_admitted \in BOOLEAN /\ g_closed \in BOOLEAN
    /\ g_close_after_setup \in BOOLEAN /\ g_manual_setup \in BOOLEAN
    /\ g_health \in Health /\ g_probe \subseteq Operation /\ g_onboarding \in Onboarding
    /\ g_step \in {"none", "running", "complete", "incomplete", "action", "cancelled", "error"}
    /\ g_work \in Works
    /\ g_facts \in {"complete", "incomplete"}
    /\ g_version \in Nat /\ g_seen \in Nat
    /\ g_service \in Service

-----------------------------------------------------------------------------
(* The gate: who may be at work when.                                      *)

GateInv ==
    /\ g_health.paused <=> g_closed \/ g_onboarding.active # "none" \/ \E p \in Gate!Pages : g_work[p] # "none"
    /\ g_admitted => g_health.status = "complete"
    /\ g_onboarding.open => ~g_admitted
    /\ g_onboarding.active # "none" => g_onboarding.open
    /\ g_onboarding.snapshot \/ g_onboarding.active = "work" => g_onboarding.cancellation
    /\ Gate!GateHoldsNoWork /\ Gate!OperationsAreRun /\ Gate!CloseIsOnlyPutOff

-----------------------------------------------------------------------------
(* What is known of the setup.                                             *)

\* Nothing is at work that may change the setup.
Quiet == g_work["settings"] = "none" /\ g_work["tvs"] = "none" /\ g_onboarding.active # "work"

\* Assessment s would count as the answer to the requests R.
Satisfies(s, R) ==
    s.status # "unchecked" /\ \A r \in R : s.instance # r.instance \/ s.revision >= r.revision

\* What the service has published, or will publish.
Coming == {g_service.snapshot} \cup {s \in g_service.probing : s.revision = g_service.revision}

\* Later than what was read of it.
Follows(s, old) ==
    s.instance >= old.instance /\ (s.instance = old.instance => s.revision >= old.revision)

ServiceInv ==
    /\ \A s \in {g_service.snapshot} \cup g_service.probing :
           s.instance = g_service.instance /\ s.revision <= g_service.revision
    /\ \A s \in g_service.probing : s.revision >= g_service.snapshot.revision
    /\ \A r \in g_health.required : r.instance <= g_service.instance
    /\ \A op \in g_probe :
           /\ \A r \in op.required : r.instance <= g_service.instance
           /\ op.pc \in {"restart", "request"} => op.required = {} /\ op.snapshot = {}
           /\ op.pc = "snapshot" => op.snapshot = {}
           /\ \A s, t \in op.snapshot : s = t
           /\ \A s \in op.snapshot :
                  /\ Follows(g_service.snapshot, s)
                  /\ \A r \in g_health.required \cup op.required : r.instance <= s.instance

\* In quiet, the answer to what was requested is, or will be, an assessment of the setup as it is.
FreshInv ==
    Quiet =>
        /\ ~g_health.needed => \A s \in Coming : Satisfies(s, g_health.required) => s.version = g_version
        /\ ~g_health.needed /\ g_health.required = {} /\ g_health.status # "unchecked" => g_seen = g_version
        /\ ~g_health.stale =>
              \A op \in g_probe :
                 /\ op.required # {} =>
                       \A s \in Coming \cup op.snapshot :
                           Satisfies(s, op.required) => s.version = g_version
                 /\ ~g_health.needed =>
                       \A s \in op.snapshot : Satisfies(s, g_health.required) => s.version = g_version

SetupInv == SetupTyped /\ GateInv /\ ServiceInv /\ FreshInv

-----------------------------------------------------------------------------
(* A transition and what SetupHealth knows.                                *)

\* What set_paused does to SetupHealth.
LEMMA Pausing ==
  ASSUME NEW h \in Health, NEW p \in BOOLEAN
  PROVE  LET g == Gate!set_paused(h, p) IN
         /\ g \in Health /\ g.paused = p
         /\ g.status = h.status /\ g.needed = h.needed /\ g.required = h.required
         /\ g.running <=> h.running \/ (h.paused /\ ~p)
         /\ ~g.stale => ~p /\ (~h.stale \/ (h.paused /\ ~h.running))
  BY Zenon DEF Gate!set_paused, Gate!request, Health

\* A change of the facts makes the assessment in flight stale and asks for another.
LEMMA Changed ==
  ASSUME NEW h \in Health
  PROVE  /\ Gate!changed(h) \in Health /\ Gate!changed(h).status = h.status
         /\ Gate!changed(h).running = h.running /\ Gate!changed(h).paused = h.paused
         /\ Gate!changed(h).needed /\ Gate!changed(h).required = {} /\ Gate!changed(h).stale
  BY Zenon DEF Gate!changed, Health

\* An assessment starts without a result and without facts.
LEMMA NewOperation ==
  ASSUME NEW h \in Health
  PROVE  /\ Gate!Requested(h) \in Operation
         /\ Gate!Requested(h).required = {} /\ Gate!Requested(h).snapshot = {}
         /\ Gate!Requested(h).pc \in {"restart", "request", "snapshot"}
  BY DEF Gate!Requested, Operation, Health

\* What a transition establishes.
SetupKnown(o, w) ==
    /\ g_health' \in Health /\ g_probe' \subseteq Operation
    /\ g_health'.paused = Gate!Busy(o, w) /\ g_health'.status = g_health.status
    /\ g_onboarding' = o /\ g_work' = w
    /\ g_health.running => g_probe' = g_probe
    /\ g_health'.running => g_health.running \/ g_probe' # {}
    /\ ServiceInv' /\ FreshInv'

\* A transition leaves what is known of the setup true, provided that whoever changed it says
\* so with the transition that ends its work.
LEMMA TransitionKnows ==
  ASSUME SetupInv, NEW o, NEW w, NEW h \in {g_health, Gate!changed(g_health)}, Gate!Transition(o, w, h),
         Quiet' => Quiet \/ h = Gate!changed(g_health), Gate!Busy(o, w) \in BOOLEAN,
         UNCHANGED <<g_service, g_version, g_seen>>
  PROVE  SetupKnown(o, w)
  <1> DEFINE g == Gate!set_paused(h, Gate!Busy(o, w))
  <1>1. /\ h \in Health /\ h.status = g_health.status /\ h.running = g_health.running
        /\ h.paused = g_health.paused
    BY Changed DEF SetupInv, SetupTyped
  <1>2. /\ g \in Health /\ g.paused = Gate!Busy(o, w)
        /\ g.status = h.status /\ g.needed = h.needed /\ g.required = h.required
        /\ g.running <=> h.running \/ (h.paused /\ ~Gate!Busy(o, w))
        /\ ~g.stale => ~Gate!Busy(o, w) /\ (~h.stale \/ (h.paused /\ ~h.running))
    BY <1>1, Pausing
  <1>3. /\ g_health' = g /\ g_onboarding' = o /\ g_work' = w
        /\ g_probe' = IF g_health'.running /\ ~h.running THEN {Gate!Requested(h)} ELSE g_probe
    BY DEF Gate!Transition
  <1> HIDE DEF g
  <1>4. h = g_health \/ (h.needed /\ h.required = {} /\ h.stale)
    BY Changed DEF SetupInv, SetupTyped
  <1>5. /\ Gate!Requested(h) \in Operation
        /\ Gate!Requested(h).required = {} /\ Gate!Requested(h).snapshot = {}
        /\ Gate!Requested(h).pc \in {"restart", "request", "snapshot"}
    BY <1>1, NewOperation
  <1>6. /\ g_probe' \subseteq Operation
        /\ g_health.running => g_probe' = g_probe
        /\ g_health'.running => g_health.running \/ g_probe' # {}
    BY <1>1, <1>3, <1>5 DEF SetupInv, SetupTyped
  <1>7. ServiceInv'
    BY <1>2, <1>3, <1>4, <1>5 DEF SetupInv, ServiceInv, Follows
  <1>8. FreshInv'
    <2> SUFFICES ASSUME Quiet' PROVE FreshInv'
      BY DEF FreshInv
    <2>1. Coming' = Coming
      BY DEF Coming
    <2>2. ~g_health'.needed => h = g_health /\ Quiet
      BY <1>2, <1>3, <1>4, Changed DEF SetupInv, SetupTyped
    <2>3. ~g_health'.stale => (h = g_health /\ Quiet /\ ~g_health.stale) \/ g_probe' = {Gate!Requested(h)}
      BY <1>1, <1>2, <1>3, <1>4, Changed DEF SetupInv, SetupTyped
    <2>4. g_probe' = g_probe \/ g_probe' = {Gate!Requested(h)}
      BY <1>3
    <2> QED
      BY <1>2, <1>3, <1>5, <2>1, <2>2, <2>3, <2>4 DEF SetupInv, FreshInv, Satisfies
  <1> QED
    BY <1>1, <1>2, <1>3, <1>6, <1>7, <1>8 DEF SetupKnown

-----------------------------------------------------------------------------
(* The pages.                                                              *)

\* An edit on a page keeps the invariant.
LEMMA EditStep ==
  ASSUME SetupInv, NEW p \in Gate!Pages, Gate!Edit(p)
  PROVE  SetupInv'
  <1> DEFINE w == IF g_work[p] = "none" THEN [g_work EXCEPT ![p] = "running"] ELSE g_work
  <1>1. /\ w \in Works /\ w[p] # "none"
        /\ \A q \in Gate!Pages : w[q] # "none" <=> q = p \/ g_work[q] # "none"
        /\ \A q \in Gate!Pages : w[q] = "lost" <=> g_work[q] = "lost"
    BY DEF SetupInv, SetupTyped, Works
  <1> HIDE DEF w
  <1>2. /\ Gate!Transition(g_onboarding, w, g_health) /\ g_admitted /\ ~g_closed /\ ~g_closed'
        /\ UNCHANGED <<g_admitted, g_closed, g_close_after_setup, g_manual_setup, g_step, g_facts, g_version, g_service,
                       g_seen>>
    BY DEF Gate!Edit, w
  <1>3. Gate!Busy(g_onboarding, w)
    BY <1>1 DEF Gate!Busy
  <1>4. Quiet' => Quiet
    BY <1>1, <1>2 DEF Quiet, Gate!Transition, Gate!Pages
  <1>5. SetupKnown(g_onboarding, w)
    BY Zenon, <1>2, <1>3, <1>4, TransitionKnows
  <1>6. SetupTyped'
    BY <1>1, <1>2, <1>5 DEF SetupKnown, SetupInv, SetupTyped
  <1>7. GateInv'
    BY <1>1, <1>2, <1>3, <1>5
       DEF SetupKnown, SetupInv, GateInv, Gate!GateHoldsNoWork, Gate!OperationsAreRun,
           Gate!CloseIsOnlyPutOff
  <1> QED
    BY <1>5, <1>6, <1>7 DEF SetupKnown, SetupInv

\* Work that writes, and changes the facts, keeps the invariant.
LEMMA WriteStep ==
  ASSUME SetupInv, NEW p \in Gate!Pages, Gate!Write(p)
  PROVE  SetupInv'
  <1>1. /\ g_work[p] = "running" /\ g_work' = [g_work EXCEPT ![p] = "done"]
        /\ UNCHANGED <<Gate!gui, g_health, g_probe, g_onboarding, g_step, g_service, g_seen>>
        /\ g_version' \in Nat /\ g_facts' \in {"complete", "incomplete"}
    BY DEF Gate!Write, Gate!Changes, SetupInv, SetupTyped
  <1>2. /\ g_work' \in Works
        /\ \A q \in Gate!Pages : (g_work'[q] # "none" <=> g_work[q] # "none") /\ (g_work'[q] = "lost" => g_work[q] = "lost")
    BY <1>1 DEF SetupInv, SetupTyped, Works
  <1>3. SetupTyped' /\ GateInv'
    BY <1>1, <1>2 DEF Gate!gui, SetupInv, SetupTyped, GateInv, Gate!GateHoldsNoWork,
       Gate!OperationsAreRun, Gate!CloseIsOnlyPutOff
  <1>4. ServiceInv'
    BY <1>1 DEF SetupInv, ServiceInv, Follows
  <1>5. FreshInv'
    <2>1. CASE p = "overview"
      <3>1. g_version' = g_version /\ (Quiet' => Quiet) /\ Coming' = Coming
        BY <1>1, <1>2, <2>1 DEF Gate!Write, Quiet, Coming, Gate!Pages
      <3> QED
        BY <1>1, <3>1 DEF SetupInv, FreshInv, Satisfies
    <2>2. CASE p # "overview"
      <3>1. ~Quiet'
        BY <1>1, <1>2, <2>2 DEF Quiet, Gate!Pages
      <3> QED
        BY <3>1 DEF FreshInv
    <2> QED
      BY <2>1, <2>2
  <1> QED
    BY <1>3, <1>4, <1>5 DEF SetupInv

\* Work that is completed keeps the invariant.
LEMMA CompleteStep ==
  ASSUME SetupInv, NEW p \in Gate!Pages, Gate!Complete(p)
  PROVE  SetupInv'
  <1> DEFINE w == [g_work EXCEPT ![p] = IF p \notin g_waiting THEN "none" ELSE IF g_admitted THEN "running" ELSE "lost"]
             h == IF p = "overview" THEN g_health ELSE Gate!changed(g_health)
  <1>1. g_work[p] = "done" /\ g_admitted
    BY DEF Gate!Complete, SetupInv, GateInv, Gate!GateHoldsNoWork
  <1>2. /\ w \in Works
        /\ \A q \in Gate!Pages \ {p} : w[q] = g_work[q]
        /\ w[p] # "lost"
    BY <1>1 DEF SetupInv, SetupTyped, Works
  <1>3. /\ Gate!Transition(g_onboarding, w, h)
        /\ UNCHANGED <<g_admitted, g_closed, g_close_after_setup, g_manual_setup, g_step, g_facts, g_version, g_service,
                       g_seen>>
    BY DEF Gate!Complete
  <1>4. h \in {g_health, Gate!changed(g_health)}
    OBVIOUS
  <1>5. Quiet' => Quiet \/ h = Gate!changed(g_health)
    BY <1>2, <1>3 DEF Quiet, Gate!Transition, Gate!Pages
  <1> HIDE DEF w, h
  <1>6. Gate!Busy(g_onboarding, w) \in BOOLEAN
    BY DEF Gate!Busy
  <1>7. SetupKnown(g_onboarding, w)
    BY <1>3, <1>4, <1>5, <1>6, TransitionKnows
  <1>8. SetupTyped'
    BY <1>2, <1>3, <1>7 DEF SetupKnown, SetupInv, SetupTyped
  <1>9. GateInv'
    BY Zenon, <1>1, <1>2, <1>3, <1>7
       DEF SetupKnown, Gate!Busy, SetupInv, GateInv, Gate!GateHoldsNoWork, Gate!OperationsAreRun,
           Gate!CloseIsOnlyPutOff
  <1> QED
    BY <1>7, <1>8, <1>9 DEF SetupKnown, SetupInv

-----------------------------------------------------------------------------
(* Onboarding.                                                             *)

\* An onboarding step that keeps the gate shut and ends no work that it does not report.
LEMMA OnboardingKnows ==
  ASSUME SetupInv, NEW o \in Onboarding, NEW h \in {g_health, Gate!changed(g_health)}, Gate!Transition(o, g_work, h),
         g_onboarding.active = "work" => o.active = "work" \/ h = Gate!changed(g_health),
         UNCHANGED <<g_facts, g_version, g_service, g_seen>>, g_closed => g_closed', g_closed' \in BOOLEAN,
         g_admitted' \in BOOLEAN, g_manual_setup' \in BOOLEAN, g_close_after_setup' \in BOOLEAN,
         g_step' \in {"none", "running", "complete", "incomplete", "action", "cancelled", "error"},
         g_admitted' => g_admitted, g_admitted /\ ~g_admitted' => \A q \in Gate!Pages : g_work[q] = "none",
         o.open => ~g_admitted', o.active # "none" => o.open /\ g_step' # "none",
         o.snapshot \/ o.active = "work" => o.cancellation,
         g_close_after_setup' => o.cancelling /\ o.active # "none"
  PROVE  SetupInv'
  <1>1. Gate!Busy(o, g_work) \in BOOLEAN
    BY DEF Gate!Busy
  <1>2. Quiet' => Quiet \/ h = Gate!changed(g_health)
    BY DEF Quiet, Gate!Transition
  <1>3. SetupKnown(o, g_work)
    BY <1>1, <1>2, TransitionKnows
  <1>4. SetupTyped'
    BY <1>3 DEF SetupKnown, SetupInv, SetupTyped
  <1>5. GateInv'
    BY Zenon, <1>3 DEF SetupKnown, Gate!Busy, SetupInv, SetupTyped, GateInv, Gate!GateHoldsNoWork,
       Gate!OperationsAreRun,
                Gate!CloseIsOnlyPutOff
  <1> QED
    BY <1>3, <1>4, <1>5 DEF SetupKnown, SetupInv

\* Opening the onboarding keeps the invariant.
LEMMA OpenStep ==
  ASSUME SetupInv, Gate!Open
  PROVE  SetupInv'
  <1>1. /\ Gate!Opening \in Onboarding /\ Gate!Opening.open /\ Gate!Opening.active = "open" /\ ~Gate!Opening.snapshot
        /\ ~Gate!Opening.cancelling
    BY DEF Gate!Opening, Onboarding, Statuses
  <1>2. g_onboarding.active = "none"
    BY DEF Gate!Open, SetupInv, GateInv
  <1>3. ~g_close_after_setup
    BY <1>2 DEF SetupInv, GateInv, Gate!CloseIsOnlyPutOff, SetupTyped
  <1> HIDE DEF Gate!Opening
  <1> QED
    BY Zenon, <1>1, <1>2, <1>3, OnboardingKnows DEF Gate!Open, Gate!MayOpen, SetupInv, SetupTyped

\* Submitting a step of the onboarding keeps the invariant.
LEMMA SubmitStep ==
  ASSUME SetupInv, Gate!Submit
  PROVE  SetupInv'
  <1>1. /\ g_onboarding.open /\ g_onboarding.active = "none" /\ ~g_admitted /\ ~g_close_after_setup
        /\ ~g_closed /\ ~g_closed'
        /\ UNCHANGED <<g_closed, g_close_after_setup, g_manual_setup, g_facts, g_version, g_service, g_seen>>
    BY DEF Gate!Submit, SetupInv, GateInv, Gate!CloseIsOnlyPutOff, SetupTyped
  <1>2. CASE Gate!Transition(Gate!Opening, g_work, g_health) /\ g_step' = "running" /\ UNCHANGED g_admitted
    <2>1. /\ Gate!Opening \in Onboarding /\ Gate!Opening.open /\ Gate!Opening.active = "open" /\ ~Gate!Opening.snapshot
          /\ ~Gate!Opening.cancelling
      BY DEF Gate!Opening, Onboarding, Statuses
    <2> HIDE DEF Gate!Opening
    <2> QED
      BY <1>1, <1>2, <2>1, OnboardingKnows DEF SetupInv, SetupTyped
  <1>3. ASSUME NEW command \in IF g_onboarding.snapshot THEN {"work", "recheck"} ELSE {"open"},
               Gate!Transition(Gate!start(g_onboarding, command), g_work, g_health),
               g_step' = "running", g_admitted' = FALSE
        PROVE  SetupInv'
    <2> DEFINE o == Gate!start(g_onboarding, command)
    <2>1. /\ o \in Onboarding /\ o.open /\ o.active = command /\ o.snapshot = g_onboarding.snapshot
          /\ o.cancellation = g_onboarding.cancellation /\ o.cancelling = g_onboarding.cancelling
      BY <1>1 DEF Gate!start, SetupInv, SetupTyped, Onboarding
    <2>2. o.snapshot \/ o.active = "work" => o.cancellation
      BY <2>1 DEF SetupInv, GateInv
    <2>3. Gate!Transition(o, g_work, g_health)
      BY <1>3
    <2> HIDE DEF o
    <2> QED
      BY Zenon, <1>1, <1>3, <2>1, <2>2, <2>3, OnboardingKnows DEF SetupInv, SetupTyped
  <1>4. ASSUME NEW restart \in BOOLEAN, NEW h \in {[Gate!changed(g_health) EXCEPT !.restart = restart]},
               g_health' = Gate!request(h),
               g_probe' = IF g_health'.running /\ ~h.running THEN {Gate!Requested(h)} ELSE g_probe,
               UNCHANGED <<g_admitted, g_onboarding, g_work, g_step>>
        PROVE  SetupInv'
    <2>1. /\ h \in Health /\ h.status = g_health.status /\ h.running = g_health.running
          /\ h.paused = g_health.paused /\ h.needed /\ h.required = {} /\ h.stale
      BY Changed DEF Health, SetupInv, SetupTyped
    <2>2. /\ g_health' \in Health /\ g_health'.status = h.status /\ g_health'.paused = h.paused
          /\ g_health'.needed /\ g_health'.required = {}
          /\ ~g_health'.stale => g_probe' = {Gate!Requested(h)}
          /\ g_health'.running => g_health.running \/ g_probe' # {}
          /\ g_probe' \in {g_probe, {Gate!Requested(h)}}
          /\ h.running => g_probe' = g_probe
      BY Zenon, <1>4, <2>1 DEF Gate!request, Health
    <2>3. /\ Gate!Requested(h) \in Operation
          /\ Gate!Requested(h).required = {} /\ Gate!Requested(h).snapshot = {}
          /\ Gate!Requested(h).pc \in {"restart", "request", "snapshot"}
      BY <2>1, NewOperation
    <2>4. SetupTyped'
      BY <1>1, <1>4, <2>2, <2>3 DEF SetupInv, SetupTyped
    <2>5. GateInv'
      BY <1>1, <1>4, <2>1, <2>2
         DEF SetupInv, GateInv, Gate!GateHoldsNoWork, Gate!OperationsAreRun, Gate!CloseIsOnlyPutOff
    <2>6. ServiceInv'
      BY <1>1, <2>2, <2>3 DEF SetupInv, ServiceInv, Follows
    <2>7. FreshInv'
      BY <2>2, <2>3 DEF FreshInv, Satisfies
    <2> QED
      BY <2>4, <2>5, <2>6, <2>7 DEF SetupInv
  <1> QED
    BY Zenon, <1>2, <1>3, <1>4 DEF Gate!Submit

\* The command of a step that runs keeps the invariant.
LEMMA RunCommandStep ==
  ASSUME SetupInv, Gate!RunCommand
  PROVE  SetupInv'
  <1>1. /\ UNCHANGED <<Gate!gui, g_health, g_probe, g_onboarding, g_work, g_service, g_seen>>
        /\ g_step # "none" /\ g_step' # "none"
        /\ g_step' \in {"running", "complete", "incomplete", "action", "cancelled", "error"}
        /\ g_version' \in Nat /\ g_facts' \in {"complete", "incomplete"}
        /\ g_onboarding.active = "work" \/ g_version' = g_version
    BY DEF Gate!RunCommand, SetupInv, SetupTyped
  <1>2. SetupTyped' /\ GateInv'
    BY <1>1 DEF Gate!gui, SetupInv, SetupTyped, GateInv, Gate!GateHoldsNoWork,
       Gate!OperationsAreRun, Gate!CloseIsOnlyPutOff
  <1>3. ServiceInv'
    BY <1>1 DEF SetupInv, ServiceInv, Follows
  <1>4. FreshInv'
    <2>1. (Quiet' => Quiet /\ g_version' = g_version) /\ Coming' = Coming
      BY <1>1 DEF Quiet, Coming
    <2> QED
      BY <1>1, <2>1 DEF SetupInv, FreshInv, Satisfies
  <1> QED
    BY <1>2, <1>3, <1>4 DEF SetupInv

\* An onboarding that is shut has nothing active.
LEMMA ShutOnboarding ==
  ASSUME NEW o \in Onboarding
  PROVE  /\ Gate!Shut(o) \in Onboarding /\ ~Gate!Shut(o).open /\ Gate!Shut(o).active = "none"
         /\ ~Gate!Shut(o).snapshot /\ Gate!Shut(o).status = o.status
  BY Zenon DEF Gate!Shut, Onboarding

\* The completion of an onboarding command keeps the invariant.
LEMMA CompleteOnboardingStep ==
  ASSUME SetupInv, Gate!complete_onboarding
  PROVE  SetupInv'
  <1> DEFINE next == IF g_onboarding.cancelling THEN Gate!Completed(g_onboarding) ELSE Gate!Answered(g_onboarding)
             h == IF g_onboarding.active = "work" \/ next.status = "complete" THEN Gate!changed(g_health) ELSE g_health
  <1>1. /\ g_onboarding.active # "none" /\ g_onboarding.open /\ ~g_admitted
        /\ g_onboarding \in Onboarding
        /\ UNCHANGED <<g_admitted, g_manual_setup, g_facts, g_version, g_service, g_seen>>
    BY DEF Gate!complete_onboarding, SetupInv, GateInv, SetupTyped
  <1>2. /\ next \in Onboarding
        /\ next.snapshot \/ next.active = "work" => next.cancellation
        /\ next.active # "none" => next.open
        /\ g_onboarding.cancelling => ~next.open
    <2>1. CASE g_onboarding.cancelling
      BY <1>1, <2>1, ShutOnboarding DEF Gate!Completed
    <2>2. CASE ~g_onboarding.cancelling /\ g_step = "cancelled"
      BY Zenon, <1>1, <2>2 DEF Gate!Answered, Gate!Shut, Onboarding, Statuses
    <2>3. CASE ~g_onboarding.cancelling /\ g_step = "error"
      BY Zenon, <1>1, <2>3 DEF Gate!Answered, Onboarding, Statuses
    <2>4. CASE ~g_onboarding.cancelling /\ g_step \notin {"cancelled", "error"}
      BY Zenon, <1>1, <2>4 DEF Gate!Answered, Onboarding, Statuses
    <2> QED
      BY <2>1, <2>2, <2>3, <2>4
  <1>3. /\ g_step' = IF next.active = "none" THEN "none" ELSE "running"
        /\ Gate!CloseAfter(next)
        /\ Gate!Transition(next, g_work, h)
    BY DEF Gate!complete_onboarding
  <1>4. h \in {g_health, Gate!changed(g_health)} /\ (g_onboarding.active = "work" => h = Gate!changed(g_health))
    OBVIOUS
  <1> HIDE DEF next, h
  <1>5. g_close_after_setup => g_onboarding.cancelling
    BY DEF SetupInv, GateInv, Gate!CloseIsOnlyPutOff
  <1>6. /\ g_closed' \in BOOLEAN /\ g_close_after_setup' = FALSE /\ (g_closed => g_closed')
    BY Zenon, <1>2, <1>3, <1>5 DEF Gate!CloseAfter, SetupInv, SetupTyped
  <1>7. /\ g_step' \in {"none", "running"} /\ (next.active # "none" => next.open /\ g_step' # "none")
        /\ g_admitted' = FALSE /\ g_manual_setup' \in BOOLEAN
    BY <1>1, <1>2, <1>3 DEF SetupInv, SetupTyped
  <1>8. Gate!Transition(next, g_work, h) /\ UNCHANGED <<g_facts, g_version, g_service, g_seen>>
    BY <1>1, <1>3
  <1> QED
    BY Zenon, <1>1, <1>2, <1>4, <1>6, <1>7, <1>8, OnboardingKnows

\* What Cancel, or the window's close, makes of an onboarding that is open.
LEMMA CancelledOnboarding ==
  ASSUME SetupInv, g_onboarding.open, ~g_onboarding.cancelling
  PROVE  /\ Gate!Cancelled \in Onboarding
         /\ Gate!Cancelled.open => Gate!Cancelled.cancelling /\ Gate!Cancelled.active # "none"
         /\ Gate!Cancelled.active # "none" => Gate!Cancelled.open /\ Gate!Cancelled.active = g_onboarding.active
         /\ Gate!Cancelled.snapshot \/ Gate!Cancelled.active = "work" => Gate!Cancelled.cancellation
         /\ g_onboarding.active = "work" => Gate!Cancelled.active = "work"
  <1>1. CASE g_onboarding.active # "none" /\ g_onboarding.cancellation
    BY Zenon, <1>1 DEF Gate!Cancelled, SetupInv, GateInv, SetupTyped, Onboarding
  <1>2. CASE ~(g_onboarding.active # "none" /\ g_onboarding.cancellation)
    <2>1. g_onboarding.active # "work"
      BY <1>2 DEF SetupInv, GateInv
    <2>2. Gate!Cancelled = Gate!Shut(g_onboarding) /\ g_onboarding \in Onboarding
      BY <1>2 DEF Gate!Cancelled, SetupInv, SetupTyped
    <2> QED
      BY <2>1, <2>2, ShutOnboarding
  <1> QED
    BY <1>1, <1>2

\* A cancellation keeps the invariant.
LEMMA CancelStep ==
  ASSUME SetupInv, Gate!Cancel
  PROVE  SetupInv'
  <1>1. /\ g_onboarding.open /\ ~g_onboarding.cancelling /\ ~g_admitted /\ ~g_close_after_setup
        /\ Gate!Transition(Gate!Cancelled, g_work, g_health)
        /\ g_step' = IF Gate!Cancelled.open THEN g_step ELSE "none"
        /\ UNCHANGED <<g_admitted, g_closed, g_close_after_setup, g_manual_setup, g_facts, g_version, g_service, g_seen>>
    BY DEF Gate!Cancel, SetupInv, GateInv, Gate!CloseIsOnlyPutOff, SetupTyped
  <1>2. /\ Gate!Cancelled \in Onboarding
        /\ Gate!Cancelled.active # "none" => Gate!Cancelled.open /\ Gate!Cancelled.active = g_onboarding.active
        /\ Gate!Cancelled.snapshot \/ Gate!Cancelled.active = "work" => Gate!Cancelled.cancellation
        /\ g_onboarding.active = "work" => Gate!Cancelled.active = "work"
    BY <1>1, CancelledOnboarding
  <1> HIDE DEF Gate!Cancelled
  <1>3. Gate!Cancelled.active # "none" => Gate!Cancelled.open /\ g_step' # "none"
    BY <1>1, <1>2 DEF SetupInv, GateInv, Gate!OperationsAreRun
  <1> QED
    BY <1>1, <1>2, <1>3, OnboardingKnows DEF SetupInv, SetupTyped

\* A window that closes, or waits for its work, keeps the invariant.
LEMMA CloseWindowStep ==
  ASSUME SetupInv, Gate!CloseWindow
  PROVE  SetupInv'
  <1> DEFINE o == IF g_onboarding.open THEN Gate!Cancelled ELSE g_onboarding
  <1>1. /\ ~g_onboarding.cancelling /\ ~g_closed
        /\ Gate!Transition(o, g_work, g_health) /\ g_close_after_setup' = o.open /\ g_closed' = ~o.open
        /\ g_step' = IF o.open THEN g_step ELSE "none"
        /\ UNCHANGED <<g_admitted, g_manual_setup, g_facts, g_version, g_service, g_seen>>
    BY DEF Gate!CloseWindow
  <1>2. /\ o \in Onboarding
        /\ o.open => g_onboarding.open /\ o.cancelling /\ o.active # "none"
        /\ o.active # "none" => o.open /\ o.active = g_onboarding.active
        /\ o.snapshot \/ o.active = "work" => o.cancellation
        /\ g_onboarding.active = "work" => o.active = "work"
    <2>1. CASE g_onboarding.open
      BY <1>1, <2>1, CancelledOnboarding
    <2>2. CASE ~g_onboarding.open
      BY <2>2 DEF SetupInv, SetupTyped, GateInv
    <2> QED
      BY <2>1, <2>2
  <1> HIDE DEF o
  <1>3. /\ o.active # "none" => o.open /\ g_step' # "none"
        /\ o.open => ~g_admitted'
        /\ g_closed' \in BOOLEAN /\ g_close_after_setup' \in BOOLEAN
    BY <1>1, <1>2 DEF SetupInv, GateInv, Gate!OperationsAreRun, Onboarding
  <1> QED
    BY <1>1, <1>2, <1>3, OnboardingKnows DEF SetupInv, SetupTyped

-----------------------------------------------------------------------------
(* Polling.                                                                *)

\* A refresh of the health keeps the invariant.
LEMMA RefreshStep ==
  ASSUME SetupInv, Gate!refresh_setup
  PROVE  SetupInv'
  <1>1. /\ g_health' \in Health /\ g_health'.status = g_health.status /\ g_health'.paused = g_health.paused
        /\ g_health'.needed = g_health.needed /\ g_health'.required = g_health.required
        /\ g_probe' = {Gate!Requested(g_health)}
        /\ UNCHANGED <<Gate!gui, g_onboarding, g_step, g_work, g_facts, g_version, g_service, g_seen>>
    BY Zenon DEF Gate!refresh_setup, Gate!request, Health, SetupInv, SetupTyped
  <1>2. /\ Gate!Requested(g_health) \in Operation
        /\ Gate!Requested(g_health).required = {} /\ Gate!Requested(g_health).snapshot = {}
        /\ Gate!Requested(g_health).pc \in {"restart", "request", "snapshot"}
    BY NewOperation DEF SetupInv, SetupTyped
  <1>3. SetupTyped' /\ GateInv'
    BY <1>1, <1>2 DEF Gate!gui, SetupInv, SetupTyped, GateInv, Gate!GateHoldsNoWork,
       Gate!OperationsAreRun, Gate!CloseIsOnlyPutOff
  <1>4. ServiceInv'
    BY <1>1, <1>2 DEF SetupInv, ServiceInv, Follows
  <1>5. FreshInv'
    <2>1. (Quiet' <=> Quiet) /\ Coming' = Coming
      BY <1>1 DEF Quiet, Coming
    <2> QED
      BY Zenon, <1>1, <1>2, <2>1 DEF SetupInv, FreshInv, Satisfies
  <1> QED
    BY <1>3, <1>4, <1>5 DEF SetupInv

\* A service that is started anew.
LEMMA RestartedService ==
  ASSUME SetupInv
  PROVE  LET s == Gate!Restarted(g_service) IN
         /\ s \in Service /\ s.instance = g_service.instance + 1 /\ s.probing = {}
         /\ s.snapshot \in Assessment /\ s.snapshot.instance = g_service.instance + 1
         /\ s.snapshot.revision = 0 /\ s.revision = 1 /\ s.snapshot.status = "unchecked"
  BY DEF Gate!Restarted, SetupInv, SetupTyped, Service, Assessment, Statuses

\* A service that was started anew has not answered anything.
LEMMA RestartKnows ==
  ASSUME SetupInv, g_service' = Gate!Restarted(g_service), UNCHANGED <<g_health, g_version, g_seen, g_work, g_onboarding>>,
         \/ UNCHANGED g_probe
         \/ \E op \in Operation : g_probe' = {op} /\ op.required = {} /\ op.snapshot = {}
  PROVE  g_service' \in Service /\ ServiceInv' /\ FreshInv'
  <1>1. /\ g_service' \in Service /\ g_service'.instance = g_service.instance + 1 /\ g_service'.probing = {}
        /\ g_service'.snapshot \in Assessment /\ g_service'.snapshot.instance = g_service.instance + 1
        /\ g_service'.snapshot.revision = 0 /\ g_service'.revision = 1
        /\ g_service'.snapshot.status = "unchecked"
    BY RestartedService
  <1>2. g_service \in Service /\ g_service.snapshot \in Assessment
    BY DEF SetupInv, SetupTyped, Service
  <1>3. ServiceInv'
    BY <1>1, <1>2 DEF SetupInv, SetupTyped, Health, Operation, Request, Assessment, Service,
       ServiceInv, Follows
  <1>4. Coming' = {g_service'.snapshot} /\ (Quiet' <=> Quiet)
    BY <1>1 DEF Coming, Quiet
  <1>5. FreshInv'
    BY <1>1, <1>4 DEF SetupInv, FreshInv, Satisfies
  <1> QED
    BY <1>1, <1>3, <1>5

\* Each step of the probe keeps the invariant.
LEMMA ExecuteStep ==
  ASSUME SetupInv, NEW op \in g_probe, Gate!Execute(op)
  PROVE  SetupInv'
  <1>1. /\ op \in Operation /\ g_service \in Service /\ g_service.snapshot \in Assessment
        /\ g_service.instance \in Nat /\ g_service.revision \in Nat
    BY DEF SetupInv, SetupTyped, Service
  <1>2. UNCHANGED <<Gate!gui, g_health, g_onboarding, g_step, g_work, g_facts, g_version, g_seen>>
    BY DEF Gate!Execute
  <1>3. g_probe' # {} /\ g_probe' \subseteq Operation /\ g_service' \in Service /\ ServiceInv' /\ FreshInv'
    <2>1. CASE op.pc = "restart" /\ g_service' = Gate!Restarted(g_service)
               /\ g_probe' = {[op EXCEPT !.pc = IF op.requests THEN "request" ELSE "snapshot"]}
      <3> DEFINE new == [op EXCEPT !.pc = IF op.requests THEN "request" ELSE "snapshot"]
      <3>1. new \in Operation /\ new.required = {} /\ new.snapshot = {}
        BY <1>1, <2>1 DEF Operation, SetupInv, ServiceInv
      <3>2. g_probe' = {new}
        BY <2>1
      <3> HIDE DEF new
      <3> QED
        BY <1>2, <2>1, <3>1, <3>2, RestartKnows
    <2>2. CASE /\ op.pc = "request"
               /\ g_service' = [g_service EXCEPT !.revision = @ + 1, !.asked = TRUE]
               /\ g_probe' = {[op EXCEPT !.pc = "snapshot",
                               !.required = {[instance |-> g_service.instance, revision |-> g_service'.revision]}]}
      <3> DEFINE r == [instance |-> g_service.instance, revision |-> g_service.revision + 1]
                 new == [op EXCEPT !.pc = "snapshot", !.required = {r}]
      <3>1. /\ g_service' \in Service /\ g_service'.revision = g_service.revision + 1
            /\ g_service'.instance = g_service.instance /\ g_service'.snapshot = g_service.snapshot
            /\ g_service'.probing = g_service.probing
        <4> DEFINE n == g_service.revision + 1
        <4>1. n \in Nat /\ g_service' = [g_service EXCEPT !.revision = n, !.asked = TRUE]
          BY <1>1, <2>2
        <4> HIDE DEF n
        <4>2. /\ g_service' \in Service /\ g_service'.revision = n
              /\ g_service'.instance = g_service.instance /\ g_service'.snapshot = g_service.snapshot
              /\ g_service'.probing = g_service.probing
          BY Zenon, <1>1, <4>1 DEF Service
        <4> QED
          BY <4>2 DEF n
      <3>2. r \in Request /\ r.instance = g_service.instance /\ r.revision = g_service.revision + 1
        BY <1>1 DEF Request
      <3>3. g_probe' = {new}
        BY <2>2, <3>1
      <3> HIDE DEF r
      <3>4. new \in Operation /\ new.required = {r} /\ new.snapshot = {} /\ new.pc = "snapshot"
        BY Zenon, <1>1, <2>2, <3>2 DEF Operation, SetupInv, ServiceInv
      <3> HIDE DEF new
      <3>5. ServiceInv'
        <4>1. /\ \A s \in {g_service'.snapshot} \cup g_service'.probing :
                     s.instance = g_service'.instance /\ s.revision <= g_service'.revision
              /\ \A s \in g_service'.probing : s.revision >= g_service'.snapshot.revision
          BY <1>1, <3>1 DEF SetupInv, ServiceInv, Service, Assessment
        <4>2. \A q \in g_probe' : q = new
          BY <3>3
        <4>3. \A q \in {new} : q.required = {r} /\ q.snapshot = {} /\ q.pc = "snapshot"
          BY <3>4
        <4> QED
          BY <1>1, <1>2, <3>1, <3>2, <4>1, <4>2, <4>3 DEF SetupInv, ServiceInv, Request
      <3>6. Coming' = {g_service.snapshot} /\ (Quiet' <=> Quiet)
        BY <1>1, <1>2, <3>1 DEF Coming, Quiet, SetupInv, ServiceInv, Service, Assessment
      <3>7. ~Satisfies(g_service.snapshot, {r})
        BY <1>1, <3>2 DEF Satisfies, SetupInv, ServiceInv, Assessment
      <3>8. FreshInv'
        <4>1. g_service.snapshot \in Coming
          BY DEF Coming
        <4>2. \A s \in Coming' : Satisfies(s, g_health.required)' <=> Satisfies(s, g_health.required)
          BY <1>2 DEF Satisfies
        <4>3. \A s \in Coming' \cup new.snapshot : ~Satisfies(s, {r})
          BY <3>4, <3>6, <3>7
        <4> QED
          BY Zenon, <1>2, <3>3, <3>4, <3>6, <3>7, <4>1, <4>3 DEF SetupInv, FreshInv
      <3> QED
        BY <3>1, <3>3, <3>4, <3>5, <3>8
    <2>3. CASE op.pc = "snapshot" /\ UNCHANGED g_service
               /\ g_probe' = {[op EXCEPT !.pc = "done", !.snapshot = {g_service.snapshot}]}
      <3> DEFINE new == [op EXCEPT !.pc = "done", !.snapshot = {g_service.snapshot}]
      <3>1. /\ new \in Operation /\ new.required = op.required /\ new.snapshot = {g_service.snapshot}
            /\ new.pc = "done"
        BY Zenon, <1>1 DEF Operation
      <3>2. g_probe' = {new}
        BY <2>3
      <3> HIDE DEF new
      <3>3. ServiceInv'
        BY <1>1, <1>2, <2>3, <3>1, <3>2 DEF SetupInv, ServiceInv, Follows, Assessment
      <3>4. Coming' = Coming /\ (Quiet' <=> Quiet) /\ g_service.snapshot \in Coming
        BY <1>2, <2>3 DEF Coming, Quiet
      <3>5. FreshInv'
        BY <1>2, <3>1, <3>2, <3>4 DEF SetupInv, FreshInv, Satisfies
      <3> QED
        BY <1>1, <2>3, <3>1, <3>2, <3>3, <3>5
    <2>4. CASE op.pc # "done" /\ UNCHANGED g_service /\ g_probe' = {[op EXCEPT !.pc = "done"]}
      <3> DEFINE new == [op EXCEPT !.pc = "done"]
      <3>1. /\ new \in Operation /\ new.required = op.required /\ new.snapshot = op.snapshot
            /\ new.pc = "done"
        BY <1>1 DEF Operation
      <3>2. g_probe' = {new}
        BY <2>4
      <3> HIDE DEF new
      <3>3. ServiceInv'
        BY <1>1, <1>2, <2>4, <3>1, <3>2 DEF SetupInv, ServiceInv, Follows
      <3>4. Coming' = Coming /\ (Quiet' <=> Quiet)
        BY <1>2, <2>4 DEF Coming, Quiet
      <3>5. FreshInv'
        BY <1>2, <3>1, <3>2, <3>4 DEF SetupInv, FreshInv, Satisfies
      <3> QED
        BY <1>1, <2>4, <3>1, <3>2, <3>3, <3>5
    <2> QED
      BY <2>1, <2>2, <2>3, <2>4 DEF Gate!Execute
  <1>4. SetupTyped' /\ GateInv'
    BY <1>2, <1>3 DEF Gate!gui, SetupInv, SetupTyped, GateInv, Gate!GateHoldsNoWork,
       Gate!OperationsAreRun, Gate!CloseIsOnlyPutOff
  <1> QED
    BY <1>3, <1>4 DEF SetupInv

\* The answer to an operation that a change of the setup has overtaken is not applied.
LEMMA StaleAnswer ==
  ASSUME SetupInv, NEW op \in g_probe, NEW done, done = [g_health EXCEPT !.running = FALSE], Gate!stale(done)
  PROVE  LET h == Gate!request(done) IN
         /\ done \in Health /\ h \in Health
         /\ h.status = g_health.status /\ h.needed = g_health.needed /\ h.required = g_health.required
         /\ h.paused = g_health.paused /\ (h.running <=> ~g_health.paused)
         /\ ~h.paused => ~h.stale
  BY Zenon DEF Gate!stale, Gate!request, Health, SetupInv, SetupTyped

\* The answer to an operation that nothing has overtaken is about the setup as it is.
LEMMA FreshAnswer ==
  ASSUME SetupInv, NEW op \in g_probe, NEW done, done = [g_health EXCEPT !.running = FALSE], ~Gate!stale(done)
  PROVE  LET h == Gate!Applied(done, op) IN
         /\ h \in Health /\ ~h.paused /\ ~h.running /\ ~g_health.paused
         /\ \A r \in h.required : r.instance <= g_service.instance
         /\ ~h.needed => \A s \in Coming : Satisfies(s, h.required) => s.version = g_version
         /\ IF Gate!Counting(done, op) = {}
            THEN /\ h.status = g_health.status
                 /\ ~h.needed /\ h.required = {} => ~g_health.needed /\ g_health.required = {}
            ELSE \E s \in op.snapshot :
                     /\ op.snapshot = {s} /\ s.version = g_version /\ h.status = s.status
                     /\ h.status # "unchecked"
  <1> DEFINE a == Gate!Asked(done, op)
  <1>1. /\ done \in Health /\ ~done.paused /\ ~done.stale /\ ~done.running /\ ~g_health.paused
        /\ ~g_health.stale /\ done.needed = g_health.needed /\ done.required = g_health.required
        /\ done.status = g_health.status
    BY Zenon DEF Gate!stale, Health, SetupInv, SetupTyped
  <1>2. Quiet
    BY <1>1 DEF Quiet, SetupInv, GateInv, Gate!Pages
  <1>3. op \in Operation /\ op.required \subseteq Request /\ op.snapshot \subseteq Assessment
    BY DEF SetupInv, SetupTyped, Operation
  <1>4. /\ a \in Health /\ ~a.paused /\ ~a.running /\ a.status = g_health.status
        /\ \/ a = done
           \/ a.required = op.required /\ op.required # {} /\ ~a.needed
    BY Zenon, <1>1, <1>3 DEF Gate!Asked, Health
  <1>5. \/ a.required = g_health.required /\ a.needed = g_health.needed
        \/ a.required = op.required /\ op.required # {} /\ ~a.needed
    BY Zenon, <1>1, <1>4
  <1> HIDE DEF a
  <1>6. /\ \A r \in a.required : r.instance <= g_service.instance
        /\ \A s \in op.snapshot : \A r \in a.required : r.instance <= s.instance
    BY <1>5 DEF SetupInv, ServiceInv
  <1>7. ~a.needed => \A s \in Coming \cup op.snapshot : Satisfies(s, a.required) => s.version = g_version
    BY <1>1, <1>2, <1>5 DEF SetupInv, FreshInv
  <1>8. CASE Gate!Counting(done, op) = {}
    <2>1. Gate!Applied(done, op) = a
      BY <1>8 DEF Gate!Applied, a
    <2> QED
      BY Zenon, <1>1, <1>4, <1>5, <1>6, <1>7, <1>8, <2>1
  <1>9. CASE Gate!Counting(done, op) # {}
    <2>1. PICK s \in op.snapshot : Gate!Verified(a, s) /\ s.status # "unchecked"
      BY Zenon, <1>9 DEF Gate!Counting, a
    <2>2. op.snapshot = {s} /\ (CHOOSE t \in op.snapshot : TRUE) = s
      BY <2>1 DEF SetupInv, ServiceInv
    <2>3. ~a.needed /\ Satisfies(s, a.required)
      BY <2>1 DEF Gate!Verified, Satisfies
    <2> DEFINE h == [a EXCEPT !.status = s.status, !.required = {}]
    <2>4. Gate!Applied(done, op) = h
      BY Zenon, <1>9, <2>2 DEF Gate!Applied, a
    <2>5. s \in Assessment /\ s.status \in Statuses
      BY <1>3 DEF Assessment
    <2>6. /\ h \in Health /\ ~h.paused /\ ~h.running /\ h.required = {} /\ h.status = s.status
          /\ h.needed = a.needed
      BY Zenon, <1>4, <2>5 DEF Health
    <2> HIDE DEF h
    <2>7. \A t \in Coming : Satisfies(t, {}) => Satisfies(t, a.required)
      <3> SUFFICES ASSUME NEW t \in Coming, t.status # "unchecked", NEW r \in a.required,
                          t.instance = r.instance
                   PROVE  t.revision >= r.revision
        BY DEF Satisfies
      <3>1. /\ t \in Assessment /\ g_service.snapshot \in Assessment /\ g_service \in Service
            /\ r \in Request
        BY <1>4 DEF Coming, SetupInv, SetupTyped, Service, Health
      <3>2. Follows(t, g_service.snapshot) /\ Follows(g_service.snapshot, s)
        BY <3>1 DEF Coming, Follows, SetupInv, ServiceInv, Assessment, Service
      <3>3. Follows(t, s)
        BY <2>5, <3>1, <3>2 DEF Follows, Assessment
      <3>4. r.instance <= s.instance /\ (s.instance # r.instance \/ s.revision >= r.revision)
        BY <1>6, <2>3 DEF Satisfies
      <3> QED
        BY <2>5, <3>1, <3>3, <3>4 DEF Follows, Assessment, Request
    <2> QED
      BY Zenon, <1>1, <1>7, <1>9, <2>1, <2>2, <2>3, <2>4, <2>6, <2>7
  <1> QED
    BY Zenon, <1>8, <1>9

\* The gate after a read: it moves only while nothing is at work, and opening it shuts the
\* onboarding.
LEMMA GateMoves ==
  ASSUME SetupInv, ~g_closed, ~g_closed', NEW h \in Health, NEW o, h.status = g_health.status \/ ~g_health.paused,
         h.paused = g_health.paused, g_admitted' = Gate!Ready(h),
         o = IF Gate!Ready(h) /\ ~g_admitted /\ g_onboarding.open THEN Gate!Shut(g_onboarding) ELSE g_onboarding,
         g_health' = Gate!set_paused(h, Gate!Busy(o, g_work)), g_onboarding' = o,
         h.running => g_probe' # {}, UNCHANGED <<g_close_after_setup, g_step, g_work>>
  PROVE  /\ GateInv' /\ g_health' \in Health /\ o \in Onboarding
         /\ g_health'.needed = h.needed /\ g_health'.required = h.required /\ g_health'.status = h.status
         /\ ~g_health'.stale => ~h.stale
         /\ o.active = g_onboarding.active
  <1>1. /\ o \in Onboarding /\ o.active = g_onboarding.active
        /\ o = g_onboarding \/ (~o.open /\ ~o.snapshot /\ o.active = "none")
        /\ Gate!Ready(h) => ~o.open
    <2>1. CASE Gate!Ready(h) /\ ~g_admitted /\ g_onboarding.open
      BY <2>1, ShutOnboarding DEF Gate!Ready, SetupInv, SetupTyped
    <2>2. CASE ~(Gate!Ready(h) /\ ~g_admitted /\ g_onboarding.open)
      BY <2>2 DEF Gate!Ready, SetupInv, SetupTyped, GateInv
    <2> QED
      BY <2>1, <2>2
  <1>2. Gate!Busy(o, g_work) = g_health.paused /\ g_health.paused \in BOOLEAN
    BY <1>1 DEF Gate!Busy, SetupInv, GateInv, SetupTyped, Health
  <1>3. /\ g_health' \in Health /\ g_health'.paused = g_health.paused /\ g_health'.status = h.status
        /\ g_health'.needed = h.needed /\ g_health'.required = h.required
        /\ g_health'.running => h.running
        /\ ~g_health'.stale => ~h.stale
    BY <1>2, Pausing
  <1>4. ~g_admitted' => \A p \in Gate!Pages : g_work[p] = "none"
    <2> SUFFICES ASSUME NEW p \in Gate!Pages, g_work[p] # "none"
                 PROVE  Gate!Ready(h)
      OBVIOUS
    <2>1. g_admitted /\ g_health.paused /\ ~g_onboarding.open
      BY DEF SetupInv, GateInv, Gate!GateHoldsNoWork, SetupTyped
    <2> QED
      BY <2>1 DEF Gate!Ready, SetupInv, GateInv
  <1>5. GateInv'
    <2>1. g_health'.paused <=> g_closed' \/ g_onboarding'.active # "none" \/ \E p \in Gate!Pages : g_work'[p] # "none"
      BY <1>1, <1>3 DEF SetupInv, GateInv
    <2>2. /\ g_admitted' => g_health'.status = "complete"
          /\ g_onboarding'.open => ~g_admitted'
          /\ g_onboarding'.active # "none" => g_onboarding'.open
          /\ g_onboarding'.snapshot \/ g_onboarding'.active = "work" => g_onboarding'.cancellation
      BY <1>1, <1>3 DEF Gate!Ready, SetupInv, GateInv
    <2>3. Gate!CloseIsOnlyPutOff'
      BY <1>1 DEF SetupInv, GateInv, Gate!CloseIsOnlyPutOff
    <2>4. Gate!OperationsAreRun'
      BY <1>1, <1>3 DEF SetupInv, GateInv, Gate!OperationsAreRun
    <2> QED
      BY <1>4, <2>1, <2>2, <2>3, <2>4 DEF GateInv, Gate!GateHoldsNoWork
  <1> QED
    BY <1>1, <1>3, <1>5

\* The two forms that complete_setup_assessment takes.
LEMMA AnswerForms ==
  ASSUME SetupInv, NEW op \in g_probe, Gate!complete_setup_assessment(op), NEW done,
         done = [g_health EXCEPT !.running = FALSE]
  PROVE  LET h == IF Gate!stale(done) THEN Gate!request(done) ELSE Gate!Applied(done, op)
             o == IF Gate!Ready(h) /\ ~g_admitted /\ g_onboarding.open THEN Gate!Shut(g_onboarding) ELSE g_onboarding
         IN
         /\ ~g_closed /\ ~g_closed'
         /\ g_admitted' = Gate!Ready(h) /\ g_health' = Gate!set_paused(h, Gate!Busy(o, g_work)) /\ g_onboarding' = o
         /\ g_probe' = IF h.running THEN {Gate!Requested(done)} ELSE {}
         /\ g_seen' = IF Gate!stale(done) \/ Gate!Counting(done, op) = {} THEN g_seen
                    ELSE (CHOOSE s \in op.snapshot : TRUE).version
         /\ UNCHANGED <<g_closed, g_close_after_setup, g_manual_setup, g_step, g_work, g_facts, g_version, g_service>>
  <1> DEFINE hh(d) == IF Gate!stale(d) THEN Gate!request(d) ELSE Gate!Applied(d, op)
             oo(h) == IF Gate!Ready(h) /\ ~g_admitted /\ g_onboarding.open THEN Gate!Shut(g_onboarding) ELSE g_onboarding
             body(d, h, o) ==
                /\ g_admitted' = Gate!Ready(h) /\ g_health' = Gate!set_paused(h, Gate!Busy(o, g_work)) /\ g_onboarding' = o
                /\ g_probe' = IF h.running THEN {Gate!Requested(d)} ELSE {}
                /\ g_seen' = IF Gate!stale(d) \/ Gate!Counting(d, op) = {} THEN g_seen
                           ELSE (CHOOSE s \in op.snapshot : TRUE).version
  <1>1. \E d \in {[g_health EXCEPT !.running = FALSE]} : \E h \in {hh(d)} : \E o \in {oo(h)} : body(d, h, o)
    BY Zenon DEF Gate!complete_setup_assessment
  <1> HIDE DEF hh, oo, body
  <1>2. body(done, hh(done), oo(hh(done)))
    BY Zenon, <1>1
  <1> QED
    BY Zenon, <1>2 DEF hh, oo, body, Gate!complete_setup_assessment

\* An assessment that arrives keeps the invariant, and admits only on facts that are current.
LEMMA AssessmentStep ==
  ASSUME SetupInv, NEW op \in g_probe, Gate!complete_setup_assessment(op)
  PROVE  SetupInv' /\ Gate!AdmissionStep
  <1> DEFINE done == [g_health EXCEPT !.running = FALSE]
             h == IF Gate!stale(done) THEN Gate!request(done) ELSE Gate!Applied(done, op)
             o == IF Gate!Ready(h) /\ ~g_admitted /\ g_onboarding.open THEN Gate!Shut(g_onboarding) ELSE g_onboarding
  <1>1. /\ ~g_closed /\ ~g_closed'
        /\ g_admitted' = Gate!Ready(h) /\ g_health' = Gate!set_paused(h, Gate!Busy(o, g_work)) /\ g_onboarding' = o
        /\ g_probe' = IF h.running THEN {Gate!Requested(done)} ELSE {}
        /\ g_seen' = IF Gate!stale(done) \/ Gate!Counting(done, op) = {} THEN g_seen
                   ELSE (CHOOSE s \in op.snapshot : TRUE).version
        /\ UNCHANGED <<g_closed, g_close_after_setup, g_manual_setup, g_step, g_work, g_facts, g_version, g_service>>
    BY Zenon, AnswerForms
  <1>2. done \in Health /\ Gate!Requested(done) \in Operation
        /\ Gate!Requested(done).required = {} /\ Gate!Requested(done).snapshot = {}
        /\ Gate!Requested(done).pc \in {"restart", "request", "snapshot"}
    <2>1. done \in Health
      BY Zenon DEF Health, SetupInv, SetupTyped
    <2> QED
      BY Zenon, <2>1, NewOperation
  <1>3. /\ h \in Health /\ h.paused = g_health.paused
        /\ h.status = g_health.status \/ ~g_health.paused
        /\ Gate!stale(done) =>
              /\ h.status = g_health.status /\ h.needed = g_health.needed /\ h.required = g_health.required
        /\ ~Gate!stale(done) => ~h.running /\ ~g_health.paused
        /\ \A r \in h.required : r.instance <= g_service.instance
    <2>1. CASE Gate!stale(done)
      BY Zenon, <2>1, StaleAnswer DEF SetupInv, ServiceInv
    <2>2. CASE ~Gate!stale(done)
      BY Zenon, <2>2, FreshAnswer DEF SetupInv, SetupTyped, Health
    <2> QED
      BY Zenon, <2>1, <2>2
  <1>4. ~Gate!stale(done) =>
          /\ ~h.needed => \A s \in Coming : Satisfies(s, h.required) => s.version = g_version
          /\ ~h.needed /\ h.required = {} /\ h.status # "unchecked" /\ Quiet => g_seen' = g_version
    <2> SUFFICES ASSUME ~Gate!stale(done)
                 PROVE  /\ ~h.needed => \A s \in Coming : Satisfies(s, h.required) => s.version = g_version
                        /\ ~h.needed /\ h.required = {} /\ h.status # "unchecked" /\ Quiet
                              => g_seen' = g_version
      BY Zenon
    <2>1. CASE Gate!Counting(done, op) = {}
      BY Zenon, <1>1, <2>1, FreshAnswer DEF SetupInv, FreshInv
    <2>2. CASE Gate!Counting(done, op) # {}
      <3>1. PICK s \in op.snapshot : op.snapshot = {s} /\ s.version = g_version
        BY Zenon, <2>2, FreshAnswer
      <3> QED
        BY Zenon, <1>1, <2>2, <3>1, FreshAnswer
    <2> QED
      BY Zenon, <2>1, <2>2
  <1>5. g_seen' \in Nat
    <2>1. CASE Gate!stale(done) \/ Gate!Counting(done, op) = {}
      BY Zenon, <1>1, <2>1 DEF SetupInv, SetupTyped
    <2>2. CASE ~Gate!stale(done) /\ Gate!Counting(done, op) # {}
      <3>1. PICK s \in op.snapshot : op.snapshot = {s} /\ s.version = g_version
        BY Zenon, <2>2, FreshAnswer
      <3> QED
        BY <1>1, <2>2, <3>1 DEF SetupInv, SetupTyped
    <2> QED
      BY Zenon, <2>1, <2>2
  <1>6. Gate!stale(done) => g_seen' = g_seen
    BY <1>1
  <1> HIDE DEF h, done
  <1>7. /\ GateInv' /\ g_health' \in Health /\ o \in Onboarding
        /\ g_health'.needed = h.needed /\ g_health'.required = h.required /\ g_health'.status = h.status
        /\ o.active = g_onboarding.active
    BY <1>1, <1>3, GateMoves
  <1> HIDE DEF o
  <1>8. SetupTyped'
    BY <1>1, <1>2, <1>3, <1>5, <1>7 DEF SetupInv, SetupTyped, Gate!Ready
  <1>9. ServiceInv'
    BY Zenon, <1>1, <1>2, <1>3, <1>7 DEF SetupInv, ServiceInv, Follows
  <1>10. FreshInv'
    <2>1. (Quiet' <=> Quiet) /\ Coming' = Coming
      BY Zenon, <1>1, <1>7 DEF Quiet, Coming
    <2> QED
      BY Zenon, <1>1, <1>2, <1>3, <1>4, <1>6, <1>7, <2>1 DEF SetupInv, FreshInv, Satisfies
  <1>11. Gate!AdmissionStep
    <2> SUFFICES ASSUME ~g_admitted, g_admitted' PROVE g_seen' = g_version
      BY DEF Gate!AdmissionStep
    <2>1. Gate!Ready(h) /\ ~h.needed /\ h.required = {} /\ h.status # "unchecked"
      BY Zenon, <1>1 DEF Gate!Ready, Gate!Pending
    <2>2. Quiet
      BY <2>1 DEF Gate!Ready, Quiet, SetupInv, GateInv, Gate!GateHoldsNoWork, Gate!Pages
    <2> QED
      BY <1>3, <1>4, <1>6, <2>1, <2>2 DEF SetupInv, FreshInv
  <1> QED
    BY <1>7, <1>8, <1>9, <1>10, <1>11 DEF SetupInv

-----------------------------------------------------------------------------
(* The session service.                                                    *)

\* The session service that looks at the facts keeps the invariant.
LEMMA AssessStep ==
  ASSUME SetupInv, Gate!Assess
  PROVE  SetupInv'
  <1>1. PICK found \in {g_facts, "incomplete"} :
           g_service' = [g_service EXCEPT
               !.asked = FALSE,
               !.probing = {[instance |-> g_service.instance, revision |-> g_service.revision,
                             status |-> found, version |-> g_version]}]
    BY Zenon DEF Gate!Assess
  <1> DEFINE new == [instance |-> g_service.instance, revision |-> g_service.revision,
                     status |-> found, version |-> g_version]
  <1>2. /\ g_service \in Service /\ g_service.snapshot \in Assessment
        /\ g_service.instance \in Nat /\ g_service.revision \in Nat /\ g_version \in Nat
        /\ UNCHANGED <<Gate!gui, g_health, g_probe, g_onboarding, g_step, g_work, g_facts, g_version, g_seen>>
    BY DEF Gate!Assess, SetupInv, SetupTyped, Service
  <1>3. /\ new \in Assessment /\ new.instance = g_service.instance /\ new.revision = g_service.revision
        /\ new.version = g_version
    BY <1>2 DEF Assessment, Statuses, SetupInv, SetupTyped
  <1>4. g_service' = [g_service EXCEPT !.asked = FALSE, !.probing = {new}]
    BY <1>1
  <1> HIDE DEF new
  <1>5. /\ g_service' \in Service /\ g_service'.probing = {new} /\ g_service'.snapshot = g_service.snapshot
        /\ g_service'.instance = g_service.instance /\ g_service'.revision = g_service.revision
    BY Zenon, <1>2, <1>3, <1>4 DEF Service
  <1>6. SetupTyped' /\ GateInv'
    BY <1>2, <1>5 DEF Gate!gui, SetupInv, SetupTyped, GateInv, Gate!GateHoldsNoWork,
       Gate!OperationsAreRun, Gate!CloseIsOnlyPutOff
  <1>7. ServiceInv'
    BY <1>2, <1>3, <1>5 DEF SetupInv, ServiceInv, Follows, Assessment
  <1>8. FreshInv'
    <2>1. Coming' = {g_service.snapshot, new} /\ g_service.snapshot \in Coming /\ (Quiet' <=> Quiet)
      BY <1>2, <1>3, <1>5 DEF Coming, Quiet
    <2> QED
      BY <1>2, <1>3, <2>1 DEF SetupInv, FreshInv, Satisfies
  <1> QED
    BY <1>6, <1>7, <1>8 DEF SetupInv

\* A publication of the session service keeps the invariant.
LEMMA PublishStep ==
  ASSUME SetupInv, NEW s \in g_service.probing, Gate!Publish(s)
  PROVE  SetupInv'
  <1> DEFINE published == IF Gate!Current(s) THEN s ELSE g_service.snapshot
  <1>1. g_service' = [g_service EXCEPT !.probing = {}, !.snapshot = published]
    BY DEF Gate!Publish
  <1>2. /\ g_service \in Service /\ g_service.snapshot \in Assessment /\ s \in Assessment
        /\ UNCHANGED <<Gate!gui, g_health, g_probe, g_onboarding, g_step, g_work, g_facts, g_version, g_seen>>
    BY DEF Gate!Publish, SetupInv, SetupTyped, Service
  <1>3. published \in Assessment /\ published \in Coming
    BY <1>2 DEF Coming, Gate!Current
  <1>4. /\ published.instance = g_service.instance /\ published.revision <= g_service.revision
        /\ published.revision >= g_service.snapshot.revision
    BY <1>2 DEF SetupInv, ServiceInv, Assessment
  <1> HIDE DEF published
  <1>5. /\ g_service' \in Service /\ g_service'.probing = {} /\ g_service'.snapshot = published
        /\ g_service'.instance = g_service.instance /\ g_service'.revision = g_service.revision
    BY Zenon, <1>1, <1>2, <1>3 DEF Service
  <1>6. SetupTyped' /\ GateInv'
    BY <1>2, <1>5 DEF Gate!gui, SetupInv, SetupTyped, GateInv, Gate!GateHoldsNoWork,
       Gate!OperationsAreRun, Gate!CloseIsOnlyPutOff
  <1>7. ServiceInv'
    <2>1. ASSUME NEW op \in g_probe, NEW t \in op.snapshot
          PROVE  Follows(published, t)
      <3>1. t \in Assessment /\ Follows(g_service.snapshot, t) /\ g_service.snapshot.instance = g_service.instance
        BY <2>1 DEF SetupInv, SetupTyped, Operation, ServiceInv
      <3> QED
        BY <1>2, <1>3, <1>4, <3>1 DEF Follows, Assessment
    <2>2. \A op \in g_probe : \A t \in op.snapshot : Follows(g_service'.snapshot, t)
      BY <1>5, <2>1
    <2> QED
      BY Zenon, <1>2, <1>4, <1>5, <2>2 DEF SetupInv, ServiceInv
  <1>8. FreshInv'
    <2>1. Coming' \subseteq Coming /\ (Quiet' <=> Quiet)
      BY <1>2, <1>3, <1>5 DEF Coming, Quiet
    <2> QED
      BY <1>2, <2>1 DEF SetupInv, FreshInv, Satisfies
  <1> QED
    BY <1>6, <1>7, <1>8 DEF SetupInv

\* A restart of the session service keeps the invariant.
LEMMA RestartServiceStep ==
  ASSUME SetupInv, Gate!RestartService
  PROVE  SetupInv'
  <1>1. /\ g_service' = Gate!Restarted(g_service)
        /\ UNCHANGED <<Gate!gui, g_health, g_probe, g_onboarding, g_step, g_work, g_facts, g_version, g_seen>>
    BY DEF Gate!RestartService
  <1>2. g_service' \in Service /\ ServiceInv' /\ FreshInv'
    BY <1>1, RestartKnows
  <1>3. SetupTyped' /\ GateInv'
    BY <1>1, <1>2 DEF Gate!gui, SetupInv, SetupTyped, GateInv, Gate!GateHoldsNoWork,
       Gate!OperationsAreRun, Gate!CloseIsOnlyPutOff
  <1> QED
    BY <1>2, <1>3 DEF SetupInv

-----------------------------------------------------------------------------
(* The theorems.                                                           *)

\* The invariant holds when the application starts.
LEMMA SetupInit ==
  ASSUME Gate!Init
  PROVE  SetupInv
  <1>1. /\ g_health \in Health /\ g_health.status = "unchecked" /\ ~g_health.paused /\ g_health.required = {}
        /\ ~g_health.needed
    BY DEF Gate!Init, Health, Statuses
  <1>2. /\ Gate!Requested(g_health) \in Operation
        /\ Gate!Requested(g_health).required = {} /\ Gate!Requested(g_health).snapshot = {}
        /\ Gate!Requested(g_health).pc \in {"restart", "request", "snapshot"}
        /\ g_probe = {Gate!Requested(g_health)}
    BY <1>1, NewOperation DEF Gate!Init
  <1>3. /\ g_onboarding \in Onboarding /\ ~g_onboarding.open /\ g_onboarding.active = "none"
        /\ ~g_onboarding.snapshot
    BY Zenon DEF Gate!Init, Gate!Opening, Onboarding, Statuses
  <1>4. /\ g_service \in Service /\ g_service.probing = {} /\ g_service.instance = 1 /\ g_service.revision = 1
        /\ g_service.snapshot.instance = 1 /\ g_service.snapshot.revision = 0
        /\ g_service.snapshot.status = "unchecked"
    BY DEF Gate!Init, Gate!Restarted, Service, Assessment, Statuses
  <1>5. SetupTyped
    BY Zenon, <1>1, <1>2, <1>3, <1>4 DEF Gate!Init, SetupTyped, Works, Gate!Pages
  <1>6. GateInv
    BY <1>1, <1>2, <1>3 DEF Gate!Init, GateInv, Gate!GateHoldsNoWork, Gate!OperationsAreRun,
       Gate!CloseIsOnlyPutOff
  <1>7. ServiceInv
    BY <1>1, <1>2, <1>4 DEF ServiceInv
  <1>8. FreshInv
    BY <1>1, <1>2, <1>4 DEF FreshInv, Coming, Satisfies
  <1> QED
    BY <1>5, <1>6, <1>7, <1>8 DEF SetupInv

\* Every step keeps the invariant.
LEMMA SetupNext ==
  ASSUME SetupInv, Gate!Next
  PROVE  SetupInv'
  <1>1. ASSUME NEW p \in Gate!Pages, Gate!Edit(p) \/ Gate!Write(p) \/ Gate!Complete(p)
        PROVE  SetupInv'
    BY <1>1, EditStep, WriteStep, CompleteStep
  <1>2. ASSUME NEW op \in g_probe, Gate!Execute(op) \/ Gate!complete_setup_assessment(op)
        PROVE  SetupInv'
    BY <1>2, ExecuteStep, AssessmentStep
  <1>3. ASSUME NEW s \in g_service.probing, Gate!Publish(s)
        PROVE  SetupInv'
    BY <1>3, PublishStep
  <1> QED
    BY <1>1, <1>2, <1>3, OpenStep, SubmitStep, RunCommandStep, CompleteOnboardingStep, CancelStep,
       CloseWindowStep, RefreshStep, AssessStep, RestartServiceStep DEF Gate!Next

\* A step that changes nothing keeps the invariant.
LEMMA SetupStutter ==
  ASSUME SetupInv, UNCHANGED Gate!vars
  PROVE  SetupInv'
  <1>1. /\ UNCHANGED <<g_admitted, g_closed, g_close_after_setup, g_manual_setup, g_health, g_probe, g_onboarding>>
        /\ UNCHANGED <<g_step, g_work, g_facts, g_version, g_service, g_seen>>
    BY DEF Gate!vars, Gate!gui
  <1>2. SetupTyped' /\ GateInv'
    BY <1>1 DEF SetupInv, SetupTyped, GateInv, Gate!GateHoldsNoWork, Gate!OperationsAreRun,
       Gate!CloseIsOnlyPutOff
  <1>3. ServiceInv'
    BY <1>1 DEF SetupInv, ServiceInv, Follows
  <1>4. FreshInv'
    <2>1. (Quiet' <=> Quiet) /\ Coming' = Coming
      BY <1>1 DEF Quiet, Coming
    <2> QED
      BY Zenon, <1>1, <2>1 DEF SetupInv, FreshInv, Satisfies
  <1> QED
    BY <1>2, <1>3, <1>4 DEF SetupInv

\* The inductive invariant of the gate.
THEOREM SetupInvariance == Gate!Spec => []SetupInv
  BY SetupInit, SetupNext, SetupStutter, PTL DEF Gate!Spec

\* While the gate is shut no page has a write under way: opening setup waits for the pages, and
\* a read that finds setup incomplete closes the gate only when nothing is at work
\* (handle_onboarding_intent, complete_setup_assessment).
THEOREM GateIsShutInQuiet == Gate!Spec => []Gate!GateHoldsNoWork
  <1>1. SetupInv => Gate!GateHoldsNoWork
    BY DEF SetupInv, GateInv
  <1> QED
    BY <1>1, SetupInvariance, PTL

\* No operation of a page, of onboarding or of SetupHealth is dropped with the transition that
\* carries it (Application::transition).
THEOREM NoOperationIsLost == Gate!Spec => []Gate!OperationsAreRun
  <1>1. SetupInv => Gate!OperationsAreRun
    BY DEF SetupInv, GateInv
  <1> QED
    BY <1>1, SetupInvariance, PTL

\* A close that was put off waits for an operation that is under way and being cancelled
\* (handle_overview_intent, OnboardingApplication::complete).
THEOREM CloseWaitsForCancel == Gate!Spec => []Gate!CloseIsOnlyPutOff
  <1>1. SetupInv => Gate!CloseIsOnlyPutOff
    BY DEF SetupInv, GateInv
  <1> QED
    BY <1>1, SetupInvariance, PTL

\* Every step is an AdmissionStep: what opens the gate has been verified.
LEMMA OnlyAssessmentAdmits ==
  ASSUME SetupInv, Gate!Next
  PROVE  Gate!AdmissionStep
  <1>1. ASSUME NEW op \in g_probe, Gate!complete_setup_assessment(op)
        PROVE  Gate!AdmissionStep
    BY <1>1, AssessmentStep
  <1>2. ASSUME Gate!Submit
        PROVE  Gate!AdmissionStep
    BY Zenon, <1>2 DEF Gate!Submit, Gate!AdmissionStep
  <1> QED
    BY Zenon, <1>1, <1>2
       DEF Gate!Next, Gate!Edit, Gate!Write, Gate!Complete, Gate!Open, Gate!RunCommand,
           Gate!complete_onboarding, Gate!Cancel, Gate!CloseWindow,
           Gate!refresh_setup, Gate!Execute, Gate!Assess, Gate!Publish, Gate!RestartService,
           Gate!gui, Gate!AdmissionStep

\* The gate opens on an assessment that the service made of the setup as it is, for any
\* interleaving of edits, onboarding, restarts of the service and reads (SetupHealth::complete,
\* AssessmentWorker).
THEOREM AdmissionIsCurrent == Gate!Spec => Gate!AdmissionIsVerified
  <1>1. SetupInv /\ [Gate!Next]_(Gate!vars) => [Gate!AdmissionStep]_(Gate!vars)
    BY OnlyAssessmentAdmits
  <1> QED
    BY <1>1, SetupInvariance, PTL DEF Gate!Spec, Gate!AdmissionIsVerified

-----------------------------------------------------------------------------
\* Zenon finds most of the leaves; those that it does not find cite another prover.
USE Zenon

(***************************************************************************)
(* The webOS session.                                                      *)
(***************************************************************************)

CONSTANTS MaxRequests, MaxFaults, MaxRemote

VARIABLES
    t_tv, t_policy, t_token, t_conn, t_session, t_op, t_step, t_cmd, t_reused, t_pc,
    t_result, t_faults, t_remote, t_witnessed, t_made

Tv == INSTANCE WebOsSession WITH
    MaxId <- MaxRequests, tv <- t_tv, policy <- t_policy, token <- t_token, conn <- t_conn,
    session <- t_session, op <- t_op, step <- t_step, cmd <- t_cmd, reused <- t_reused,
    pc <- t_pc, result <- t_result, faults <- t_faults, remote <- t_remote,
    witnessed <- t_witnessed, made <- t_made

Methods == {"read", "current_input", "blank_screen", "unblank_screen", "set_input", "power_off",
            "set_oled_brightness"}

Steps(o) == CASE o \in {"read", "current_input"} -> 1
              [] o \in {"set_input", "set_oled_brightness"} -> 3
              [] OTHER -> 2

RequestNames == {"read", "foreground_app", "turn_screen_off", "turn_screen_on", "power_state",
                 "switch_input", "power_off", "create_alert", "close_alert", "backlight"}
Answers == Tv!Powers \cup Tv!Readings \cup {"done", "none"}

Frames == [id : Int, body : {"ok", "error", "unreadable"}, value : Answers]
Conns == [open : BOOLEAN, next : Int, asked : Seq(RequestNames), wire : Seq(Frames)]

TvTyped ==
    /\ t_conn \in Conns
    /\ t_tv \in [power : Tv!Powers, input : Tv!Readings, level : Tv!Readings]
    /\ t_session \in BOOLEAN /\ t_reused \in BOOLEAN /\ t_witnessed \in BOOLEAN
    /\ t_pc \in {"idle", "ensure", "register", "pair", "await", "done"}
    /\ t_op \in Methods \cup {"none"} /\ (t_op = "none" <=> t_pc = "idle")
    /\ t_step \in Nat /\ (t_op # "none" => t_step \in 1..Steps(t_op))
    /\ t_cmd \in {"Ok", "Transport", "Rejected", "InvalidResponse"}
    /\ t_made \in {"no", "yes", "failed"}

\* At most the request that is waited for is on its way.
Outstanding ==
    /\ t_pc # "await" => t_conn.asked = <<>>
    /\ t_pc \in {"register", "pair"} => t_conn.next = 0
    /\ t_pc = "await" => t_conn.asked = <<>> \/ t_conn.asked = <<Tv!Script[t_op][t_step]>>

\* The answers with which a method reports success, or power_off goes on.
Confirms(value) ==
    \/ t_op = "blank_screen" /\ t_step = 2 /\ value = "ScreenOff"
    \/ t_op = "unblank_screen" /\ t_step = 2 /\ value = "Active"
    \/ t_op \in {"set_input", "set_oled_brightness"} /\ t_step = 3 /\ value = Tv!Wanted
    \/ t_op = "power_off" /\ t_step = 1 /\ Tv!Controllable(value)

\* A frame with the id that is waited for answers the request that is waited for.
Wire ==
    \A i \in DOMAIN t_conn.wire :
        /\ t_conn.wire[i].id < t_conn.next
        /\ t_pc = "await" /\ t_conn.wire[i].id = t_conn.next - 1 =>
                 /\ t_conn.asked = <<>>
                 /\ t_conn.wire[i].body = "ok" /\ Confirms(t_conn.wire[i].value) => t_witnessed

Witness ==
    /\ t_op \in {"read", "current_input"} => t_witnessed
    /\ t_op = "power_off" /\ t_step = 2 => t_witnessed
    /\ Tv!OkIsReal

\* current_input uses a session that it found, or one whose connection it has made.
FoundOrMade ==
    /\ t_op = "current_input" => t_cmd = "Ok"
    /\ /\ t_op = "current_input" /\ ~t_reused
       /\ t_pc \in {"register", "pair", "await"} \/ (t_pc = "ensure" /\ t_session)
       => t_made \in {"yes", "failed"}
    /\ Tv!IdleCloseIsHarmless

TvInv == TvTyped /\ Outstanding /\ Wire /\ Witness /\ FoundOrMade

-----------------------------------------------------------------------------
\* The requests that each method of the adapter sends, one by one.
LEMMA Scripts ==
  /\ DOMAIN Tv!Script = Methods
  /\ Tv!Script["read"] = <<"read">>
  /\ Tv!Script["current_input"] = <<"foreground_app">>
  /\ Tv!Script["blank_screen"] = <<"turn_screen_off", "power_state">>
  /\ Tv!Script["unblank_screen"] = <<"turn_screen_on", "power_state">>
  /\ Tv!Script["set_input"] = <<"switch_input", "power_state", "foreground_app">>
  /\ Tv!Script["power_off"] = <<"power_state", "power_off">>
  /\ Tv!Script["set_oled_brightness"] = <<"create_alert", "close_alert", "backlight">>
  BY DEF Tv!Script, Methods

\* How many requests a method sends.
LEMMA ScriptLengths == \A o \in Methods : Len(Tv!Script[o]) = Steps(o)
  <1>1. /\ Len(<<"read">>) = 1 /\ Len(<<"foreground_app">>) = 1
        /\ Len(<<"turn_screen_off", "power_state">>) = 2
        /\ Len(<<"turn_screen_on", "power_state">>) = 2
        /\ Len(<<"switch_input", "power_state", "foreground_app">>) = 3
        /\ Len(<<"power_state", "power_off">>) = 2
        /\ Len(<<"create_alert", "close_alert", "backlight">>) = 3
    OBVIOUS
  <1>2. /\ Steps("read") = 1 /\ Steps("current_input") = 1 /\ Steps("blank_screen") = 2
        /\ Steps("unblank_screen") = 2 /\ Steps("set_input") = 3 /\ Steps("power_off") = 2
        /\ Steps("set_oled_brightness") = 3
    BY DEF Steps
  <1> QED
    BY <1>1, <1>2, Scripts DEF Methods

\* The requests of a method, by its steps.
LEMMA Requests ==
  ASSUME NEW o \in Methods, NEW k \in 1..Steps(o)
  PROVE  /\ Tv!Script[o][k] \in RequestNames
         /\ Tv!Script[o][k] = "power_state" <=>
                \/ o \in {"blank_screen", "unblank_screen", "set_input"} /\ k = 2
                \/ o = "power_off" /\ k = 1
         /\ Tv!Script[o][k] = "foreground_app" <=> o = "current_input" \/ (o = "set_input" /\ k = 3)
         /\ Tv!Script[o][k] = "backlight" <=> o = "set_oled_brightness" /\ k = 3
  <1>0. /\ Tv!Script["read"][1] = "read" /\ Tv!Script["current_input"][1] = "foreground_app"
        /\ Tv!Script["blank_screen"][1] = "turn_screen_off" /\ Tv!Script["blank_screen"][2] = "power_state"
        /\ Tv!Script["unblank_screen"][1] = "turn_screen_on" /\ Tv!Script["unblank_screen"][2] = "power_state"
        /\ Tv!Script["set_input"][1] = "switch_input" /\ Tv!Script["set_input"][2] = "power_state"
        /\ Tv!Script["set_input"][3] = "foreground_app"
        /\ Tv!Script["power_off"][1] = "power_state" /\ Tv!Script["power_off"][2] = "power_off"
        /\ Tv!Script["set_oled_brightness"][1] = "create_alert"
        /\ Tv!Script["set_oled_brightness"][2] = "close_alert"
        /\ Tv!Script["set_oled_brightness"][3] = "backlight"
    BY SMTT(30), Scripts
  <1>1. CASE o \in {"read", "current_input"}
    <2>1. k = 1
      BY SMTT(30), <1>1 DEF Steps
    <2> QED
      BY <1>0, <1>1, <2>1 DEF RequestNames
  <1>2. CASE o \in {"blank_screen", "unblank_screen", "power_off"}
    <2>1. k = 1 \/ k = 2
      BY SMTT(30), <1>2 DEF Steps
    <2> QED
      BY <1>0, <1>2, <2>1 DEF RequestNames
  <1>3. CASE o \in {"set_input", "set_oled_brightness"}
    <2>1. k = 1 \/ k = 2 \/ k = 3
      BY SMTT(30), <1>3 DEF Steps
    <2> QED
      BY <1>0, <1>3, <2>1 DEF RequestNames
  <1> QED
    BY <1>1, <1>2, <1>3 DEF Methods

\* A connection that is not there, and one that is new.
LEMMA NewConns ==
  /\ Tv!NoConn \in Conns /\ Tv!NoConn.asked = <<>> /\ Tv!NoConn.wire = <<>>
  /\ [Tv!NoConn EXCEPT !.open = TRUE] \in Conns
  /\ [Tv!NoConn EXCEPT !.open = TRUE].asked = <<>> /\ [Tv!NoConn EXCEPT !.open = TRUE].wire = <<>>
  /\ [Tv!NoConn EXCEPT !.open = TRUE].next = 0
  <1>1. Tv!NoConn = [open |-> FALSE, next |-> 0, asked |-> <<>>, wire |-> <<>>]
    BY DEF Tv!NoConn
  <1>2. Tv!NoConn \in Conns /\ Tv!NoConn.asked = <<>> /\ Tv!NoConn.wire = <<>> /\ Tv!NoConn.next = 0
    BY SMTT(30), <1>1 DEF Conns
  <1> QED
    BY <1>2 DEF Conns

\* What is on the wire is a sequence of frames.
LEMMA WireTyped ==
  ASSUME TvTyped
  PROVE  t_conn.wire \in Seq(Frames) /\ \A i \in DOMAIN t_conn.wire : t_conn.wire[i] \in Frames
  <1>1. t_conn.wire \in Seq(Frames)
    BY DEF TvTyped, Conns
  <1> QED
    BY SMTT(30), <1>1

\* A new client has nothing outstanding and nothing on the wire.
LEMMA TvInit == Tv!Init => TvInv
  <1> SUFFICES ASSUME Tv!Init PROVE TvInv
    OBVIOUS
  <1>1. TvTyped
    BY NewConns DEF Tv!Init, TvTyped, Tv!Powers, Tv!Readings, Tv!Wanted, Methods
  <1>2. Outstanding /\ Wire /\ Witness /\ FoundOrMade
    BY SMTT(30), NewConns DEF Tv!Init, Outstanding, Wire, Witness, FoundOrMade, Tv!OkIsReal, Tv!IdleCloseIsHarmless
  <1> QED
    BY <1>1, <1>2 DEF TvInv

\* A method is called.
LEMMA CallKeeps == ASSUME TvInv, NEW o \in DOMAIN Tv!Script, Tv!Call(o) PROVE TvInv'
  <1>0. o \in Methods /\ o # "none"
    BY Scripts DEF Methods
  <1>1. TvTyped'
    <2>1. 1 \in 1..Steps(o)
      BY SMTT(30), <1>0 DEF Steps
    <2>2. Tv!About(o, t_tv) \in BOOLEAN
      <3>1. CASE o = "blank_screen"
        BY <3>1 DEF Tv!About
      <3>2. CASE o = "unblank_screen"
        BY <3>2 DEF Tv!About
      <3>3. CASE o = "set_input"
        BY <3>3 DEF Tv!About
      <3>4. CASE o = "set_oled_brightness"
        BY <3>4 DEF Tv!About
      <3>5. CASE o = "power_off"
        BY SMTT(30), <3>5 DEF Tv!About
      <3>6. CASE o \in {"read", "current_input"}
        BY <3>6 DEF Tv!About
      <3> QED
        BY <1>0, <3>1, <3>2, <3>3, <3>4, <3>5, <3>6 DEF Methods
    <2> QED
      BY <1>0, <2>1, <2>2 DEF Tv!Call, TvInv, TvTyped
  <1>2. Outstanding' /\ Wire'
    BY DEF Tv!Call, TvInv, TvTyped, Outstanding, Wire
  <1>3. Witness'
    BY SMTT(30), <1>0 DEF Tv!Call, TvInv, TvTyped, Witness, Tv!OkIsReal, Tv!About
  <1>4. FoundOrMade'
    BY <1>0 DEF Tv!Call, TvInv, TvTyped, FoundOrMade, Tv!IdleCloseIsHarmless
  <1> QED
    BY <1>1, <1>2, <1>3, <1>4 DEF TvInv

Kinds == {"Transport", "Authentication", "Rejected", "InvalidResponse"}

\* Where a request that fails takes the method.
AfterFailure(kind, live) ==
    /\ t_pc' \in {"ensure", "done"}
    /\ t_step' \in 1..Steps(t_op) /\ t_cmd' \in {"Ok", "Transport", "Rejected", "InvalidResponse"}
    /\ t_reused' \in BOOLEAN
    /\ t_op \in {"current_input", "power_off"} => t_step' = t_step /\ t_cmd' = t_cmd
    /\ t_pc' = "done" => t_result' # "Ok"
    /\ t_op = "current_input" /\ t_pc' = "done" => t_result' = kind /\ ~(t_reused /\ ~live)
    /\ t_op = "current_input" /\ t_pc' = "ensure" => t_reused /\ ~live /\ ~t_reused'

\* A failure ends the method, or a read that used a session it found is tried once more.
LEMMA FailedCases ==
  ASSUME TvTyped, FoundOrMade, t_op # "none", NEW kind \in Kinds, NEW live \in BOOLEAN,
         Tv!Failed(kind, live)
  PROVE  AfterFailure(kind, live)
  <1> USE DEF TvTyped, FoundOrMade, Kinds
  <1>1. CASE /\ t_op \in {"blank_screen", "unblank_screen", "set_input"} /\ t_step = 1
             /\ kind # "Authentication"
    BY SMTT(30), <1>1 DEF AfterFailure, Tv!Failed, Steps
  <1>2. CASE ~(/\ t_op \in {"blank_screen", "unblank_screen", "set_input"} /\ t_step = 1
               /\ kind # "Authentication")
    <2>1. CASE t_op = "current_input" /\ Tv!RetryRead(live)
      BY <1>2, <2>1 DEF AfterFailure, Tv!Failed, Tv!RetryRead
    <2>2. CASE ~(t_op = "current_input" /\ Tv!RetryRead(live))
      BY <1>2, <2>2 DEF AfterFailure, Tv!Failed, Tv!RetryRead, Tv!Return
    <2> QED
      BY <2>1, <2>2
  <1> QED
    BY <1>1, <1>2

\* A request fails, and there is no session after it.
LEMMA LostKeeps ==
  ASSUME TvInv, t_op # "none", NEW kind \in Kinds, AfterFailure(kind, FALSE),
         Tv!Drop \/ (~t_session /\ t_pc # "await" /\ UNCHANGED <<t_conn, t_session>>),
         UNCHANGED <<t_tv, t_op, t_witnessed>>,
         t_made' \in {"no", "yes", "failed"},
         t_op = "current_input" /\ t_pc' = "done" /\ kind = "Transport" => t_made' = "failed"
  PROVE  TvInv'
  <1> USE DEF TvInv, AfterFailure
  <1>1. TvTyped'
    <2>1. t_conn' \in Conns /\ t_session' \in BOOLEAN
      BY NewConns DEF TvTyped, Tv!Drop
    <2> QED
      BY SMTT(30), <2>1 DEF TvTyped
  <1>2. Outstanding' /\ Wire'
    BY SMTT(30), NewConns DEF TvTyped, Outstanding, Wire, Tv!Drop
  <1>3. Witness'
    BY DEF TvTyped, Witness, Tv!OkIsReal
  <1>4. FoundOrMade'
    BY SMTT(30) DEF TvTyped, FoundOrMade, Tv!IdleCloseIsHarmless, Tv!Drop
  <1> QED
    BY <1>1, <1>2, <1>3, <1>4

\* The connection cannot be made: whatever is left of one is dropped.
LEMMA NotConnectedKeeps ==
  ASSUME TvInv, t_op # "none", Tv!NotConnected, UNCHANGED <<t_tv, t_op, t_witnessed>>
  PROVE  TvInv'
  <1>1. AfterFailure("Transport", FALSE)
    BY FailedCases DEF Tv!NotConnected, TvInv, Kinds
  <1> QED
    BY <1>1, LostKeeps DEF Tv!NotConnected, Kinds

\* The TV refuses the token.
LEMMA RefusedKeeps ==
  ASSUME TvInv, t_op # "none", Tv!Failed("Authentication", FALSE),
         Tv!Drop \/ (~t_session /\ t_pc # "await" /\ UNCHANGED <<t_conn, t_session>>),
         UNCHANGED <<t_tv, t_op, t_witnessed, t_made>>
  PROVE  TvInv'
  <1>1. AfterFailure("Authentication", FALSE)
    BY FailedCases DEF TvInv, Kinds
  <1>2. t_made' \in {"no", "yes", "failed"}
    BY DEF TvInv, TvTyped
  <1> QED
    BY <1>1, <1>2, LostKeeps DEF Kinds

\* There is no token and the policy forbids to ask for one.
LEMMA MissingTokenKeeps == ASSUME TvInv, Tv!MissingToken PROVE TvInv'
  <1>1. t_op # "none" /\ t_pc # "await"
    BY DEF Tv!MissingToken, TvInv, TvTyped
  <1> QED
    BY <1>1, RefusedKeeps DEF Tv!MissingToken

\* A new connection, which has no session yet.
LEMMA ConnectKeeps ==
  ASSUME TvInv, t_op # "none", Tv!Connect, t_pc' \in {"register", "pair"},
         UNCHANGED <<t_tv, t_op, t_step, t_cmd, t_reused, t_result, t_witnessed>>
  PROVE  TvInv'
  <1> USE DEF TvInv, Tv!Connect
  <1>1. TvTyped'
    BY NewConns DEF TvTyped
  <1>2. Outstanding' /\ Wire'
    BY SMTT(30), NewConns DEF TvTyped, Outstanding, Wire
  <1>3. Witness' /\ FoundOrMade'
    BY DEF TvTyped, Witness, Tv!OkIsReal, FoundOrMade, Tv!IdleCloseIsHarmless
  <1> QED
    BY <1>1, <1>2, <1>3

\* The TV has registered the client, and the session is there to use.
LEMMA RegisteredKeeps ==
  ASSUME TvInv, t_pc \in {"register", "pair"}, Tv!Registered, UNCHANGED <<t_tv, t_op, t_witnessed>>
  PROVE  TvInv'
  <1> USE DEF TvInv, Tv!Registered
  <1>0. /\ t_conn' \in Conns /\ t_conn'.asked = t_conn.asked /\ t_conn'.wire = t_conn.wire
        /\ t_conn.next = 0 /\ t_conn'.next = 1
    BY SMTT(30) DEF TvTyped, Conns, Outstanding
  <1>1. TvTyped'
    BY <1>0 DEF TvTyped
  <1>2. Outstanding' /\ Wire'
    <2>1. \A i \in DOMAIN t_conn.wire : t_conn.wire[i].id < 1
      <3> SUFFICES ASSUME NEW i \in DOMAIN t_conn.wire
                   PROVE  t_conn.wire[i].id < 1
        OBVIOUS
      <3>1. t_conn.wire[i].id \in Int
        BY WireTyped DEF Frames
      <3> QED
        BY SMTT(30), <1>0, <3>1 DEF Wire
    <2> QED
      BY <1>0, <2>1 DEF Outstanding, Wire
  <1>3. Witness' /\ FoundOrMade'
    BY DEF TvTyped, Witness, Tv!OkIsReal, FoundOrMade, Tv!IdleCloseIsHarmless
  <1> QED
    BY <1>1, <1>2, <1>3

\* The three steps of ensure_session: connect, register, pair.
LEMMA ConnectionKeeps ==
  ASSUME TvInv, Tv!OpenConnection \/ Tv!Register \/ Tv!Pair PROVE TvInv'
  <1>1. t_op # "none"
    BY DEF TvInv, TvTyped, Tv!OpenConnection, Tv!Register, Tv!Pair
  <1>2. CASE Tv!OpenConnection
    BY <1>1, <1>2, ConnectKeeps, NotConnectedKeeps DEF Tv!OpenConnection
  <1>3. CASE Tv!Register
    BY <1>1, <1>3, ConnectKeeps, NotConnectedKeeps, RefusedKeeps, RegisteredKeeps DEF Tv!Register
  <1>4. CASE Tv!Pair
    BY <1>1, <1>4, NotConnectedKeeps, RefusedKeeps, RegisteredKeeps DEF Tv!Pair
  <1> QED
    BY <1>2, <1>3, <1>4

\* A request is sent under a new id, the only one that is outstanding.
LEMMA SendKeeps == ASSUME TvInv, Tv!SendRequest PROVE TvInv'
  <1> DEFINE request == Tv!Script[t_op][t_step]
  <1>0. t_op \in Methods /\ t_step \in 1..Steps(t_op) /\ request \in RequestNames
    BY Requests DEF TvInv, TvTyped, Tv!SendRequest
  <1> HIDE DEF request
  <1>1. /\ t_conn'.next = t_conn.next + 1 /\ t_conn'.open = t_conn.open /\ t_conn'.wire = t_conn.wire
        /\ t_conn'.asked = IF t_conn.open THEN Append(t_conn.asked, request) ELSE t_conn.asked
        /\ t_conn.asked = <<>>
        /\ t_conn' \in Conns
    <2>1. /\ t_conn.open \in BOOLEAN /\ t_conn.next \in Int /\ t_conn.asked = <<>> /\ t_conn.wire \in Seq(Frames)
          /\ t_conn = [open |-> t_conn.open, next |-> t_conn.next, asked |-> t_conn.asked, wire |-> t_conn.wire]
      BY DEF TvInv, TvTyped, Outstanding, Tv!SendRequest, Conns
    <2>2. t_conn' = [open |-> t_conn.open, next |-> t_conn.next + 1, wire |-> t_conn.wire,
                     asked |-> IF t_conn.open THEN Append(t_conn.asked, request) ELSE t_conn.asked]
      BY <2>1 DEF Tv!SendRequest, Tv!Send, request
    <2>3. (IF t_conn.open THEN Append(t_conn.asked, request) ELSE t_conn.asked) \in Seq(RequestNames)
      BY SMTT(30), <1>0, <2>1
    <2> QED
      BY SMTT(30), <2>1, <2>2, <2>3 DEF Conns
  <1>2. TvTyped'
    <2>1. t_session' \in BOOLEAN
      BY Zenon DEF Tv!SendRequest
    <2> QED
      BY <1>0, <1>1, <2>1 DEF TvInv, TvTyped, Tv!SendRequest
  <1>3. Outstanding'
    BY SMTT(30), <1>0, <1>1 DEF Outstanding, Tv!SendRequest, request
  <1>4. Wire'
    <2>0. t_conn.next \in Int
      BY DEF TvInv, TvTyped, Conns
    <2>1. ASSUME NEW i \in DOMAIN t_conn.wire
          PROVE  t_conn.wire[i].id < t_conn.next + 1 /\ t_conn.wire[i].id # t_conn.next
      <3>1. t_conn.wire[i].id \in Int
        BY WireTyped DEF TvInv, Frames
      <3>2. t_conn.wire[i].id < t_conn.next
        BY DEF TvInv, Wire
      <3> QED
        BY SMTT(30), <2>0, <3>1, <3>2
    <2> QED
      BY SMTT(30), <1>1, <2>0, <2>1 DEF Wire
  <1>5. Witness' /\ FoundOrMade'
    BY DEF TvInv, TvTyped, Witness, Tv!OkIsReal, FoundOrMade, Tv!IdleCloseIsHarmless, Tv!SendRequest
  <1> QED
    BY <1>2, <1>3, <1>4, <1>5 DEF TvInv

\* Where an answer takes the method.
AfterAnswer ==
    /\ t_pc' \in {"ensure", "done"} /\ t_step' \in 1..Steps(t_op) /\ UNCHANGED <<t_cmd, t_reused>>
    /\ t_op = "power_off" /\ t_step' = 2 => t_witnessed
    /\ t_pc' = "done" /\ t_result' = "Ok" => t_witnessed
    /\ t_op = "current_input" => t_pc' = "done" /\ t_result' # "Transport"

\* The answer to the last request ends the method; any other goes on to the next request.
LEMMA AnsweredCases ==
  ASSUME TvTyped, Witness, t_op # "none", NEW value, Confirms(value) => t_witnessed,
         Tv!Answered(Tv!Script[t_op][t_step], value)
  PROVE  AfterAnswer
  <1>0. t_op \in Methods /\ t_step \in 1..Steps(t_op)
    BY DEF TvTyped
  <1>1. Len(Tv!Script[t_op]) = Steps(t_op)
    BY <1>0, ScriptLengths
  <1>2. /\ Tv!Script[t_op][t_step] = "power_state" <=>
                \/ t_op \in {"blank_screen", "unblank_screen", "set_input"} /\ t_step = 2
                \/ t_op = "power_off" /\ t_step = 1
    BY <1>0, Requests
  <1> DEFINE request == Tv!Script[t_op][t_step]
  <1> HIDE DEF request
  <1>3. CASE t_op \in {"read", "current_input"}
    BY SMTT(30), <1>0, <1>1, <1>2, <1>3
       DEF Tv!Answered, AfterAnswer, Tv!Return, Tv!Proceed, Witness, Steps
  <1>4. CASE t_op \in {"blank_screen", "unblank_screen"}
    BY SMTT(30), <1>0, <1>1, <1>2, <1>4
       DEF Tv!Answered, AfterAnswer, Tv!Return, Tv!Proceed, Witness, Steps, Confirms
  <1>5. CASE t_op \in {"set_input", "set_oled_brightness"}
    BY SMTT(30), <1>0, <1>1, <1>2, <1>5
       DEF Tv!Answered, AfterAnswer, Tv!Return, Tv!Proceed, Witness, Steps, Confirms
  <1>6. CASE t_op = "power_off"
    BY SMTT(30), <1>0, <1>1, <1>2, <1>6
       DEF Tv!Answered, AfterAnswer, Tv!Return, Tv!Proceed, Witness, Steps, Confirms
  <1> QED
    BY <1>0, <1>3, <1>4, <1>5, <1>6 DEF Methods

\* What reading a frame leaves of the connection.
LEMMA ReadUpToKeeps ==
  ASSUME TvTyped, NEW i \in DOMAIN t_conn.wire, t_conn' = Tv!ReadUpTo(i)
  PROVE  /\ t_conn'.next = t_conn.next /\ t_conn'.open = t_conn.open /\ t_conn'.asked = t_conn.asked
         /\ t_conn' \in Conns
         /\ \A j \in DOMAIN t_conn'.wire : \E k \in DOMAIN t_conn.wire : t_conn'.wire[j] = t_conn.wire[k]
  <1> DEFINE w == t_conn.wire
  <1>1. w \in Seq(Frames) /\ i \in 1..Len(w)
    BY SMTT(30), WireTyped
  <1>2. t_conn'.wire = SubSeq(w, i + 1, Len(w))
    BY DEF Tv!ReadUpTo, TvTyped, Conns
  <1> HIDE DEF w
  <1>3. /\ SubSeq(w, i + 1, Len(w)) \in Seq(Frames)
        /\ \A j \in DOMAIN SubSeq(w, i + 1, Len(w)) :
               j + i \in DOMAIN w /\ SubSeq(w, i + 1, Len(w))[j] = w[j + i]
    BY SMTT(30), <1>1
  <1>4. \A j \in DOMAIN t_conn'.wire : \E k \in DOMAIN w : t_conn'.wire[j] = w[k]
    BY <1>2, <1>3
  <1>5. t_conn'.next = t_conn.next /\ t_conn'.open = t_conn.open /\ t_conn'.asked = t_conn.asked
    BY DEF Tv!ReadUpTo, TvTyped, Conns
  <1>6. t_conn' \in Conns
    BY <1>2, <1>3 DEF Tv!ReadUpTo, TvTyped, Conns
  <1> QED
    BY <1>4, <1>5, <1>6 DEF w

\* The method goes on after an answer, with the session or without.
LEMMA AnswerKeeps ==
  ASSUME TvInv, t_pc = "await", NEW i \in DOMAIN t_conn.wire, AfterAnswer, t_conn.asked = <<>>,
         Tv!Drop \/ (t_conn' = Tv!ReadUpTo(i) /\ UNCHANGED t_session), UNCHANGED <<t_tv, t_op, t_witnessed, t_made>>
  PROVE  TvInv'
  <1>1. /\ t_conn' \in Conns /\ t_conn'.asked = <<>> /\ t_session' \in BOOLEAN
        /\ \A j \in DOMAIN t_conn'.wire : t_conn'.wire[j].id < t_conn'.next
    <2>1. CASE Tv!Drop
      <3>1. t_conn' = Tv!NoConn /\ t_session' = FALSE /\ t_conn'.wire = <<>>
        BY <2>1, NewConns DEF Tv!Drop
      <3>2. \A j \in DOMAIN t_conn'.wire : t_conn'.wire[j].id < t_conn'.next
        BY SMTT(30), <3>1
      <3> QED
        BY <3>1, <3>2, NewConns
    <2>2. CASE t_conn' = Tv!ReadUpTo(i) /\ UNCHANGED t_session
      BY <2>2, ReadUpToKeeps DEF TvInv, TvTyped, Wire
    <2> QED
      BY <2>1, <2>2
  <1>2. t_op # "none"
    BY DEF TvInv, TvTyped
  <1>3. TvTyped'
    BY SMTT(30), <1>1, <1>2 DEF TvInv, TvTyped, AfterAnswer
  <1>4. Outstanding' /\ Wire'
    BY <1>1 DEF Outstanding, Wire, AfterAnswer
  <1>5. Witness' /\ FoundOrMade'
    BY <1>2 DEF TvInv, TvTyped, Witness, Tv!OkIsReal, FoundOrMade, Tv!IdleCloseIsHarmless, AfterAnswer
  <1> QED
    BY <1>3, <1>4, <1>5 DEF TvInv

\* The TV refuses the request; the session survives.
LEMMA RejectedKeeps ==
  ASSUME TvInv, t_pc = "await", NEW i \in DOMAIN t_conn.wire, AfterFailure("Rejected", TRUE),
         t_conn.asked = <<>>, t_conn' = Tv!ReadUpTo(i), UNCHANGED <<t_session, t_tv, t_op, t_witnessed, t_made>>
  PROVE  TvInv'
  <1>1. /\ t_conn' \in Conns /\ t_conn'.asked = <<>>
        /\ \A j \in DOMAIN t_conn'.wire : t_conn'.wire[j].id < t_conn'.next
    BY ReadUpToKeeps DEF TvInv, TvTyped, Wire
  <1>2. t_op # "none"
    BY DEF TvInv, TvTyped
  <1>3. TvTyped'
    BY SMTT(30), <1>1, <1>2 DEF TvInv, TvTyped, AfterFailure
  <1>4. Outstanding' /\ Wire'
    BY <1>1 DEF Outstanding, Wire, AfterFailure
  <1>5. Witness' /\ FoundOrMade'
    BY <1>2 DEF TvInv, TvTyped, Witness, Tv!OkIsReal, FoundOrMade, Tv!IdleCloseIsHarmless, AfterFailure
  <1> QED
    BY <1>3, <1>4, <1>5 DEF TvInv

\* A frame is received: it is the answer to the outstanding request, or it is stray.
LEMMA ReceiveKeeps == ASSUME TvInv, Tv!Receive PROVE TvInv'
  <1> DEFINE error(f) == IF f.body = "unreadable" THEN "Garbled"
                         ELSE IF f.body = "error" THEN "WebOs" ELSE "none"
             dead(f) == ~t_session \/ (error(f) # "none" /\ Tv!Invalidates(error(f)))
  <1>1. PICK i \in DOMAIN t_conn.wire :
          /\ Tv!Ends(i)
          /\ IF dead(t_conn.wire[i]) THEN Tv!Drop ELSE t_conn' = Tv!ReadUpTo(i) /\ UNCHANGED t_session
          /\ IF error(t_conn.wire[i]) = "none" THEN Tv!Answered(Tv!Script[t_op][t_step], t_conn.wire[i].value)
             ELSE Tv!Failed(Tv!Kind(error(t_conn.wire[i])), ~dead(t_conn.wire[i]))
    BY DEF Tv!Receive
  <1> DEFINE f == t_conn.wire[i]
  <1>2. /\ f \in Frames
        /\ t_pc = "await" /\ t_op # "none" /\ t_op \in Methods
        /\ f.body = "unreadable" \/ f.id = t_conn.next - 1
        /\ UNCHANGED <<t_tv, t_op, t_witnessed, t_made>>
    <2>1. f \in Frames
      BY <1>1, WireTyped DEF TvInv
    <2> QED
      BY <1>1, <2>1 DEF TvInv, TvTyped, Tv!Receive, Tv!Ends, Tv!parse_correlated_frame
  <1>3. f.body # "unreadable" => t_conn.asked = <<>> /\ (f.body = "ok" /\ Confirms(f.value) => t_witnessed)
    BY <1>2 DEF TvInv, Wire
  <1>4. CASE error(f) = "none"
    <2>1. f.body = "ok"
      BY <1>2, <1>4 DEF Frames
    <2>2. Tv!Answered(Tv!Script[t_op][t_step], f.value)
      BY <1>1, <1>4
    <2>3. AfterAnswer
      BY <1>2, <1>3, <2>1, <2>2, AnsweredCases DEF TvInv, Frames
    <2>4. Tv!Drop \/ (t_conn' = Tv!ReadUpTo(i) /\ UNCHANGED t_session)
      BY <1>1
    <2> QED
      BY <1>2, <1>3, <2>1, <2>3, <2>4, AnswerKeeps
  <1>5. CASE error(f) = "Garbled"
    <2>1. dead(f) /\ Tv!Kind(error(f)) = "InvalidResponse"
      BY <1>5 DEF Tv!Invalidates, Tv!Kind
    <2>2. Tv!Drop /\ Tv!Failed("InvalidResponse", FALSE)
      BY <1>1, <1>5, <2>1
    <2>3. AfterFailure("InvalidResponse", FALSE)
      BY <1>2, <2>2, FailedCases DEF TvInv, Kinds
    <2> QED
      BY <1>2, <2>2, <2>3, LostKeeps DEF Kinds, TvInv, TvTyped
  <1>6. CASE error(f) = "WebOs"
    <2>1. Tv!Kind(error(f)) = "Rejected" /\ (dead(f) <=> ~t_session) /\ t_conn.asked = <<>>
      BY <1>2, <1>3, <1>6 DEF Tv!Invalidates, Tv!Kind
    <2>2. CASE t_session
      <3>1. t_conn' = Tv!ReadUpTo(i) /\ UNCHANGED t_session /\ Tv!Failed("Rejected", TRUE)
        BY <1>1, <1>6, <2>1, <2>2
      <3>2. AfterFailure("Rejected", TRUE)
        BY <1>2, <3>1, FailedCases DEF TvInv, Kinds
      <3> QED
        BY <1>2, <2>1, <3>1, <3>2, RejectedKeeps
    <2>3. CASE ~t_session
      <3>1. Tv!Drop /\ Tv!Failed("Rejected", FALSE)
        BY <1>1, <1>6, <2>1, <2>3
      <3>2. AfterFailure("Rejected", FALSE)
        BY <1>2, <3>1, FailedCases DEF TvInv, Kinds
      <3> QED
        BY <1>2, <3>1, <3>2, LostKeeps DEF Kinds, TvInv, TvTyped
    <2> QED
      BY <2>2, <2>3
  <1> QED
    BY <1>4, <1>5, <1>6

\* A request fails: a time-out, a closed connection or a frame that cannot be read.
LEMMA FailsKeeps == ASSUME TvInv, Tv!Fails PROVE TvInv'
  <1>1. PICK error \in {"Timeout", "Closed", "Exhausted"} :
          /\ Tv!GivesUp(error)
          /\ LET live == t_session /\ ~Tv!Invalidates(error) IN
               /\ IF live THEN Tv!Keep ELSE Tv!Drop
               /\ Tv!Failed(Tv!Kind(error), live)
    BY DEF Tv!Fails
  <1>2. ~(t_session /\ ~Tv!Invalidates(error)) /\ Tv!Kind(error) = "Transport"
    BY DEF Tv!Invalidates, Tv!Kind
  <1>3. Tv!Drop /\ Tv!Failed("Transport", FALSE)
    BY <1>1, <1>2
  <1>4. t_op # "none" /\ (t_pc = "await" \/ (t_pc = "ensure" /\ t_session))
    BY <1>1 DEF Tv!GivesUp, TvInv, TvTyped
  <1>5. AfterFailure("Transport", FALSE)
    BY <1>3, <1>4, FailedCases DEF TvInv, Kinds
  <1>6. UNCHANGED <<t_tv, t_op, t_witnessed>> /\ t_made' \in {"no", "yes", "failed"}
    BY DEF Tv!Fails, TvInv, TvTyped
  <1>7. t_op = "current_input" /\ t_pc' = "done" => t_made' = "failed"
    BY <1>4, <1>5 DEF Tv!Fails, TvInv, TvTyped, FoundOrMade, AfterFailure
  <1> QED
    BY <1>3, <1>4, <1>5, <1>6, <1>7, LostKeeps DEF Kinds

\* The method returns.
LEMMA FinishKeeps == ASSUME TvInv, Tv!Finish PROVE TvInv'
  BY DEF Tv!Finish, TvInv, TvTyped, Outstanding, Wire, Witness, Tv!OkIsReal, FoundOrMade,
         Tv!IdleCloseIsHarmless, Methods

-----------------------------------------------------------------------------
\* The TV may become anything: what was witnessed stays so.
LEMMA ChangesWitness ==
  ASSUME TvInv, NEW t \in [power : Tv!Powers, input : Tv!Readings, level : Tv!Readings], Tv!Changes(t)
  PROVE  /\ t_tv' \in [power : Tv!Powers, input : Tv!Readings, level : Tv!Readings]
         /\ t_witnessed' \in BOOLEAN /\ (t_witnessed => t_witnessed')
         /\ t_op # "none" /\ Tv!About(t_op, t) => t_witnessed'
  BY DEF Tv!Changes, TvInv, TvTyped, Tv!About

\* A step of the TV that leaves the method where it is.
LEMMA TvKeeps ==
  ASSUME TvInv, t_conn' \in Conns, Outstanding', Wire',
         t_tv' \in [power : Tv!Powers, input : Tv!Readings, level : Tv!Readings],
         t_witnessed' \in BOOLEAN, t_witnessed => t_witnessed',
         UNCHANGED <<t_session, t_op, t_step, t_cmd, t_reused, t_pc, t_result, t_made>>
  PROVE  TvInv'
  <1>1. TvTyped'
    BY DEF TvInv, TvTyped
  <1>2. Witness' /\ FoundOrMade'
    BY DEF TvInv, TvTyped, Witness, Tv!OkIsReal, FoundOrMade, Tv!IdleCloseIsHarmless
  <1> QED
    BY <1>1, <1>2 DEF TvInv

\* What a request does to the TV leaves it a TV.
LEMMA EffectTyped ==
  ASSUME NEW t \in [power : Tv!Powers, input : Tv!Readings, level : Tv!Readings], NEW request
  PROVE  Tv!Effect(request, t) \in [power : Tv!Powers, input : Tv!Readings, level : Tv!Readings]
  BY DEF Tv!Effect, Tv!Powers, Tv!Readings, Tv!Wanted

\* An answer that confirms says what the TV is.
LEMMA ConfirmsAbout ==
  ASSUME TvTyped, t_op # "none", NEW t \in [power : Tv!Powers, input : Tv!Readings, level : Tv!Readings],
         Confirms(Tv!Value(Tv!Script[t_op][t_step], t))
  PROVE  Tv!About(t_op, t)
  <1>0. t_op \in Methods /\ t_step \in 1..Steps(t_op)
    BY DEF TvTyped
  <1> DEFINE request == Tv!Script[t_op][t_step]
  <1>1. /\ request = "power_state" <=>
                \/ t_op \in {"blank_screen", "unblank_screen", "set_input"} /\ t_step = 2
                \/ t_op = "power_off" /\ t_step = 1
        /\ request = "foreground_app" <=> t_op = "current_input" \/ (t_op = "set_input" /\ t_step = 3)
        /\ request = "backlight" <=> t_op = "set_oled_brightness" /\ t_step = 3
    BY <1>0, Requests
  <1>2. Confirms(Tv!Value(request, t))
    OBVIOUS
  <1> HIDE DEF request
  <1>3. CASE t_op \in {"blank_screen", "unblank_screen", "power_off"}
    BY <1>1, <1>2, <1>3 DEF Confirms, Tv!Value, Tv!About, Tv!Controllable
  <1>4. CASE t_op \in {"set_input", "set_oled_brightness"}
    BY <1>1, <1>2, <1>4 DEF Confirms, Tv!Value, Tv!About
  <1> QED
    BY <1>2, <1>3, <1>4 DEF Confirms

\* The TV carries out the request and answers it under its id.
LEMMA ServeKeeps == ASSUME TvInv, Tv!Serve PROVE TvInv'
  <1>0. t_conn \in Conns /\ t_conn.asked = <<Tv!Script[t_op][t_step]>> /\ t_pc = "await" /\ t_op # "none"
        /\ t_conn.asked # <<>>
    BY DEF Tv!Serve, TvInv, TvTyped, Outstanding
  <1> DEFINE request == Tv!Script[t_op][t_step]
  <1>1. Head(t_conn.asked) = request /\ Len(t_conn.asked) = 1 /\ Tail(t_conn.asked) = <<>>
    BY SMTT(30), <1>0
  <1>2. PICK t \in {t_tv, Tv!Effect(request, t_tv)}, body \in {"ok", "error", "none"} :
          /\ Tv!Changes(t)
          /\ t_conn' = [t_conn EXCEPT
               !.asked = <<>>,
               !.wire = IF body = "none" THEN @
                        ELSE Append(@, [id |-> t_conn.next - 1, body |-> body,
                                        value |-> Tv!Value(request, t)])]
    BY <1>1 DEF Tv!Serve
  <1>3. t \in [power : Tv!Powers, input : Tv!Readings, level : Tv!Readings]
    BY SMTT(30), <1>2, EffectTyped DEF TvInv, TvTyped
  <1>4. Tv!Value(request, t) \in Answers
    BY <1>3 DEF Tv!Value, Answers
  <1>5. Confirms(Tv!Value(request, t)) => t_witnessed'
    BY <1>0, <1>2, <1>3, ChangesWitness, ConfirmsAbout DEF TvInv
  <1> DEFINE frame == [id |-> t_conn.next - 1, body |-> body, value |-> Tv!Value(request, t)]
  <1>7. body # "none" =>
          /\ frame \in Frames /\ frame.id = t_conn.next - 1 /\ frame.body = body
          /\ frame.value = Tv!Value(request, t)
    BY SMTT(30), <1>0, <1>4 DEF Frames, Conns
  <1>6. PICK wire : /\ wire = IF body = "none" THEN t_conn.wire ELSE Append(t_conn.wire, frame)
                    /\ t_conn' = [t_conn EXCEPT !.asked = <<>>, !.wire = wire]
    BY <1>2
  <1>13. PICK empty \in Seq(RequestNames) : empty = <<>>
    <2>1. <<>> \in Seq(RequestNames)
      BY SMTT(30)
    <2> QED
      BY <2>1, Zenon
  <1> HIDE DEF frame, request
  <1>8. wire \in Seq(Frames)
    <2>1. t_conn.wire \in Seq(Frames)
      BY WireTyped DEF TvInv
    <2> QED
      BY SMTT(30), <1>6, <1>7, <2>1
  <1>12. /\ t_conn'.next = t_conn.next /\ t_conn'.open = t_conn.open /\ t_conn'.asked = <<>>
         /\ t_conn'.wire = wire /\ t_conn' \in Conns
    <2>1. t_conn' = [t_conn EXCEPT !.asked = empty, !.wire = wire]
      BY <1>6, <1>13
    <2> QED
      BY <1>0, <1>8, <1>13, <2>1 DEF Conns
  <1>9. UNCHANGED <<t_session, t_op, t_step, t_cmd, t_reused, t_pc, t_result, t_made>>
    BY DEF Tv!Serve
  <1>10. Outstanding'
    BY <1>0, <1>9, <1>12 DEF Outstanding
  <1>11. Wire'
    <2> SUFFICES ASSUME NEW j \in DOMAIN t_conn'.wire
                 PROVE  /\ t_conn'.wire[j].id < t_conn'.next
                        /\ t_conn'.wire[j].body = "ok" /\ t_conn'.wire[j].id = t_conn'.next - 1
                           /\ Confirms(t_conn'.wire[j].value) => t_witnessed'
      BY <1>9, <1>12 DEF Wire, Confirms
    <2>0. t_conn.wire \in Seq(Frames) /\ t_conn.next \in Int
      BY <1>0 DEF Conns
    <2>1. CASE j \in DOMAIN t_conn.wire
      <3>1. t_conn'.wire[j] = t_conn.wire[j]
        BY SMTT(30), <1>6, <1>7, <1>12, <2>0, <2>1
      <3>2. t_witnessed => t_witnessed'
        BY <1>2, <1>3, ChangesWitness
      <3> QED
        BY <1>0, <1>12, <2>1, <3>1, <3>2 DEF TvInv, Wire
    <2>2. CASE j \notin DOMAIN t_conn.wire
      <3>1. body # "none" /\ t_conn'.wire[j] = frame
        BY SMTT(30), <1>6, <1>7, <1>12, <2>0, <2>2
      <3> QED
        BY SMTT(30), <1>5, <1>7, <1>12, <2>0, <3>1
    <2> QED
      BY <2>1, <2>2
  <1> QED
    BY <1>2, <1>3, <1>9, <1>10, <1>11, <1>12, TvKeeps, ChangesWitness

\* The TV sends a frame that nobody asked for: it has no id that is outstanding.
LEMMA StrayKeeps == ASSUME TvInv, Tv!Stray PROVE TvInv'
  <1>1. PICK frame \in Frames : /\ frame.id = t_conn.next - 2
                                /\ t_conn' = [t_conn EXCEPT !.wire = Append(@, frame)]
    <2>1. t_conn.next \in Int
      BY DEF TvInv, TvTyped, Conns
    <2>2. PICK frame \in [id : {t_conn.next - 2}, body : {"unreadable"}, value : {"none"}]
                         \cup [id : {t_conn.next - 2}, body : {"ok"}, value : Tv!Powers \cup Tv!Readings] :
              t_conn' = [t_conn EXCEPT !.wire = Append(@, frame)]
      BY DEF Tv!Stray
    <2>3. frame \in Frames /\ frame.id = t_conn.next - 2
      BY SMTT(30), <2>1 DEF Frames, Answers
    <2> QED
      BY <2>2, <2>3
  <1>0. t_conn.wire \in Seq(Frames) /\ t_conn.next \in Int
    BY DEF TvInv, TvTyped, Conns
  <1>2. /\ t_conn \in Conns /\ t_conn'.next = t_conn.next /\ t_conn'.asked = t_conn.asked
        /\ t_conn'.wire = Append(t_conn.wire, frame)
    BY <1>1 DEF TvInv, TvTyped, Conns
  <1>3. t_conn' \in Conns
    <2>1. Append(t_conn.wire, frame) \in Seq(Frames)
      BY SMTT(30), <1>0
    <2> QED
      BY <1>1, <2>1 DEF TvInv, TvTyped, Conns
  <1>4. UNCHANGED <<t_tv, t_witnessed, t_session, t_op, t_step, t_cmd, t_reused, t_pc, t_result, t_made>>
    BY DEF Tv!Stray
  <1>5. Outstanding'
    BY <1>2, <1>4 DEF TvInv, Outstanding
  <1>6. Wire'
    <2> SUFFICES ASSUME NEW j \in DOMAIN t_conn'.wire
                 PROVE  /\ t_conn'.wire[j].id < t_conn.next
                        /\ t_pc = "await" /\ t_conn'.wire[j].id = t_conn.next - 1 =>
                                /\ t_conn.asked = <<>>
                                /\ t_conn'.wire[j].body = "ok" /\ Confirms(t_conn'.wire[j].value) => t_witnessed
      BY <1>2, <1>4 DEF Wire, Confirms
    <2>1. CASE j \in DOMAIN t_conn.wire
      <3>1. t_conn'.wire[j] = t_conn.wire[j]
        BY SMTT(30), <1>0, <1>2, <2>1
      <3> QED
        BY <2>1, <3>1 DEF TvInv, Wire
    <2>2. CASE j \notin DOMAIN t_conn.wire
      <3>1. t_conn'.wire[j] = frame
        BY SMTT(30), <1>0, <1>2, <2>2
      <3> QED
        BY SMTT(30), <1>0, <1>1, <3>1
    <2> QED
      BY <2>1, <2>2
  <1> QED
    BY <1>3, <1>4, <1>5, <1>6, TvKeeps DEF TvInv, TvTyped

\* The TV closes the connection or forgets the token; no request is served by that.
LEMMA QuietKeeps == ASSUME TvInv, Tv!Close \/ Tv!Forget \/ UNCHANGED Tv!vars PROVE TvInv'
  <1>1. t_conn \in Conns
    BY DEF TvInv, TvTyped
  <1>2. t_conn'.next = t_conn.next /\ t_conn'.wire = t_conn.wire /\ t_conn'.asked \in {t_conn.asked, <<>>}
        /\ t_conn' \in Conns
    <2>1. CASE Tv!Close
      <3>1. PICK empty \in Seq(RequestNames) : empty = <<>>
        <4>1. <<>> \in Seq(RequestNames)
          BY SMTT(30)
        <4> QED
          BY <4>1, Zenon
      <3>2. t_conn' = [t_conn EXCEPT !.open = FALSE, !.asked = empty]
        BY <2>1, <3>1 DEF Tv!Close
      <3> QED
        BY <1>1, <3>1, <3>2 DEF Conns
    <2>2. CASE Tv!Forget \/ UNCHANGED Tv!vars
      BY <1>1, <2>2 DEF Tv!Forget, Tv!vars, Tv!client
    <2> QED
      BY <2>1, <2>2
  <1>3. UNCHANGED <<t_tv, t_witnessed, t_session, t_op, t_step, t_cmd, t_reused, t_pc, t_result, t_made>>
    BY DEF Tv!Close, Tv!Forget, Tv!vars, Tv!client
  <1>4. Outstanding' /\ Wire'
    BY <1>2, <1>3 DEF TvInv, Outstanding, Wire, Confirms
  <1> QED
    BY <1>2, <1>3, <1>4, TvKeeps DEF TvInv, TvTyped

\* The TV changes by another hand: what was seen of it before counts no more.
LEMMA RemoteKeeps == ASSUME TvInv, Tv!Remote PROVE TvInv'
  <1>1. PICK t \in [power : Tv!Powers, input : Tv!Readings, level : Tv!Readings] : Tv!Changes(t)
    BY DEF Tv!Remote, TvInv, TvTyped
  <1>2. UNCHANGED <<t_conn, t_session, t_op, t_step, t_cmd, t_reused, t_pc, t_result, t_made>> /\ t_conn' \in Conns
    BY DEF Tv!Remote, Tv!client, TvInv, TvTyped
  <1>3. /\ t_tv' \in [power : Tv!Powers, input : Tv!Readings, level : Tv!Readings]
        /\ t_witnessed' \in BOOLEAN /\ (t_witnessed => t_witnessed')
    BY <1>1, ChangesWitness
  <1>4. Outstanding' /\ Wire'
    BY <1>2, <1>3 DEF TvInv, Outstanding, Wire, Confirms
  <1> QED
    BY <1>2, <1>3, <1>4, TvKeeps

\* Every step of the client and of the TV keeps the invariant.
LEMMA TvNext == TvInv /\ [Tv!Next]_(Tv!vars) => TvInv'
  BY CallKeeps, MissingTokenKeeps, ConnectionKeeps, SendKeeps, ReceiveKeeps, FailsKeeps,
     FinishKeeps, ServeKeeps, StrayKeeps, QuietKeeps, RemoteKeeps DEF Tv!Next, Tv!Work, Tv!Tv


-----------------------------------------------------------------------------
(***************************************************************************)
(* The update of the program.                                              *)
(***************************************************************************)

CONSTANTS MaxRelease, MaxTries

VARIABLES
    u_pending, u_prepared, u_installed, u_cancelling, u_closed, u_report, u_row, u_checking,
    u_mutating, u_cell, u_pc, u_bundle, u_result, u_offer, u_served, u_channel, u_host,
    u_tries, u_told, u_ran

Update == INSTANCE UpdateFlow WITH
    pending <- u_pending, prepared <- u_prepared, installed <- u_installed,
    cancelling <- u_cancelling, closed <- u_closed, report <- u_report, row <- u_row,
    checking <- u_checking, mutating <- u_mutating, cell <- u_cell, pc <- u_pc,
    bundle <- u_bundle, result <- u_result, offer <- u_offer, served <- u_served,
    channel <- u_channel, host <- u_host, tries <- u_tries, told <- u_told, ran <- u_ran

UpdateTyped ==
    /\ u_served \in Nat /\ u_bundle \in Nat
    /\ u_offer \in [target : Nat, channel : {"none"} \cup Update!Channels]
    /\ u_prepared \in [target : Nat, channel : {"none"} \cup Update!Channels]
    /\ u_host \in [runtime : Nat, gui : Nat]
    /\ u_channel \in Update!Channels
    /\ u_cell \in {"active", "cancelled", "claimed"}
    /\ u_pending \in {"none", "prepare", "install"}

\* Whose the cell is.
CellIsOwned ==
    /\ u_told => u_cell = "cancelled"
    /\ u_ran # 0 => u_cell = "claimed" /\ u_ran = u_offer.target
    /\ u_pending = "prepare" => u_ran = 0
    /\ u_closed /\ u_pending = "install" => u_cell = "cancelled"

\* What the worker of an installation has established when it gets to a step.
WorkerKnows ==
    /\ u_pc \in {"candidate", "claim"} => u_bundle = u_offer.target
    /\ u_pc \in {"installing", "verify"} => u_cell = "claimed" /\ u_pending = "install"
    /\ u_pc = "done" /\ u_result = "installed" =>
             u_pending = "install" /\ u_host = [runtime |-> u_bundle, gui |-> u_bundle]

\* After a verified installation nothing is left to confirm.
InstalledIsLast ==
    u_installed # 0 =>
        /\ u_pending = "none" /\ u_prepared = Update!NoOffer
        /\ u_host = [runtime |-> u_installed, gui |-> u_installed]

UpdateInv == UpdateTyped /\ CellIsOwned /\ WorkerKnows /\ InstalledIsLast /\ Update!UpdateExcludesEdits

USE DEF Update!vars, Update!page, Update!worker, Update!world, Update!NoOffer, Update!Channels

\* At first there is nothing to install and nothing to cancel.
LEMMA UpdateInit == Update!Init => UpdateInv
  BY SMTT(30) DEF Update!Init, UpdateInv, UpdateTyped, CellIsOwned, WorkerKnows, InstalledIsLast, Update!UpdateExcludesEdits, Update!active

\* The user's steps that move the cell.
LEMMA UserKeeps ==
  ASSUME UpdateInv,
         \/ Update!PrepareUpdateInstall \/ Update!ConfirmUpdateInstall \/ Update!CancelUpdateInstall \/ Update!CloseWindow
  PROVE  UpdateInv'
  <1>1. CASE Update!PrepareUpdateInstall
    BY <1>1 DEF UpdateInv, UpdateTyped, CellIsOwned, WorkerKnows, InstalledIsLast, Update!UpdateExcludesEdits,
       Update!active, Update!PrepareUpdateInstall, Update!start, Update!Available
  <1>2. CASE Update!ConfirmUpdateInstall
    BY <1>2 DEF UpdateInv, UpdateTyped, CellIsOwned, WorkerKnows, InstalledIsLast, Update!UpdateExcludesEdits,
       Update!active, Update!ConfirmUpdateInstall, Update!start
  <1>3. CASE Update!CancelUpdateInstall
    <2>1. /\ u_prepared' = u_prepared \/ (u_pending = "none" /\ u_prepared' = Update!NoOffer)
          /\ \/ u_pending # "none" /\ u_cell = "active" /\ u_cell' = "cancelled" /\ u_told'
             \/ UNCHANGED <<u_cell, u_told>>
          /\ UNCHANGED <<u_pending, u_installed, u_closed, u_mutating, Update!worker, Update!world, u_ran>>
      BY <1>3 DEF Update!CancelUpdateInstall, Update!CanCancel, Update!Cancels
    <2>2. UpdateTyped'
      BY SMTT(30), <2>1 DEF UpdateInv, UpdateTyped
    <2>3. CellIsOwned' /\ WorkerKnows'
      BY SMTT(30), <2>1 DEF UpdateInv, CellIsOwned, WorkerKnows
    <2>4. InstalledIsLast' /\ Update!UpdateExcludesEdits'
      BY <2>1 DEF UpdateInv, InstalledIsLast, Update!UpdateExcludesEdits, Update!active
    <2> QED
      BY <2>2, <2>3, <2>4 DEF UpdateInv
  <1>4. CASE Update!CloseWindow
    <2>1. /\ \/ u_pending = "install" /\ u_cell = "active" /\ u_cell' = "cancelled" /\ u_told'
             \/ /\ u_pending = "install" => u_cell # "claimed" /\ u_cell # "active"
                /\ UNCHANGED <<u_cell, u_told>>
          /\ UNCHANGED <<u_pending, u_prepared, u_installed, u_mutating, Update!worker, Update!world, u_ran>>
      BY <1>4 DEF Update!CloseWindow, Update!can_close, Update!CanCancel, Update!Cancels
    <2>2. UpdateTyped'
      BY SMTT(30), <2>1 DEF UpdateInv, UpdateTyped
    <2>3. CellIsOwned' /\ WorkerKnows'
      BY SMTT(30), <2>1 DEF UpdateInv, UpdateTyped, CellIsOwned, WorkerKnows
    <2>4. InstalledIsLast' /\ Update!UpdateExcludesEdits'
      BY <2>1 DEF UpdateInv, InstalledIsLast, Update!UpdateExcludesEdits, Update!active
    <2> QED
      BY <2>2, <2>3, <2>4 DEF UpdateInv
  <1> QED
    BY <1>1, <1>2, <1>3, <1>4

\* A step that leaves the cell, the worker and what is prepared alone, and starts no edit
\* beside an installation.
LEMMA UntouchedKeeps ==
  ASSUME UpdateInv, u_served' \in Nat, u_channel' \in Update!Channels,
         u_mutating' = u_mutating \/ ~u_mutating' \/ ~Update!active,
         u_closed' = u_closed \/ u_pending = "none",
         UNCHANGED <<u_pending, u_prepared, u_installed, u_cell, u_pc, u_bundle, u_result, u_offer, u_host,
                     u_told, u_ran>>
  PROVE  UpdateInv'
  <1>1. UpdateTyped' /\ WorkerKnows' /\ InstalledIsLast'
    BY DEF UpdateInv, UpdateTyped, WorkerKnows, InstalledIsLast
  <1>2. CellIsOwned'
    BY SMTT(30) DEF UpdateInv, CellIsOwned
  <1>3. Update!UpdateExcludesEdits'
    BY DEF UpdateInv, Update!UpdateExcludesEdits, Update!active
  <1> QED
    BY <1>1, <1>2, <1>3 DEF UpdateInv

\* The steps of the page, the server and the command line that do not.
LEMMA QuietPageKeeps ==
  ASSUME UpdateInv,
         \/ Update!RelaunchUpdatedApplication \/ Update!CheckStarts \/ Update!complete_update_check
         \/ Update!EditStarts \/ Update!EditEnds \/ Update!Refresh \/ Update!Republish \/ Update!ChangeChannel
         \/ UNCHANGED Update!vars
  PROVE  UpdateInv'
  <1>0. u_served \in Nat /\ u_channel \in Update!Channels /\ u_served + 1 \in Nat
    BY SMT DEF UpdateInv, UpdateTyped
  <1>1. CASE Update!RelaunchUpdatedApplication
    BY <1>0, <1>1, UntouchedKeeps DEF Update!RelaunchUpdatedApplication
  <1>2. CASE Update!CheckStarts
    BY <1>0, <1>2, UntouchedKeeps DEF Update!CheckStarts
  <1>3. CASE Update!complete_update_check
    BY <1>0, <1>3, UntouchedKeeps DEF Update!complete_update_check
  <1>4. CASE Update!EditStarts
    BY <1>0, <1>4, UntouchedKeeps DEF Update!EditStarts, Update!can_edit
  <1>5. CASE Update!EditEnds
    BY <1>0, <1>5, UntouchedKeeps DEF Update!EditEnds
  <1>6. CASE Update!Refresh
    BY <1>0, <1>6, UntouchedKeeps DEF Update!Refresh
  <1>7. CASE Update!Republish
    BY <1>0, <1>7, UntouchedKeeps DEF Update!Republish
  <1>8. CASE Update!ChangeChannel
    BY <1>0, <1>8, UntouchedKeeps DEF Update!ChangeChannel
  <1>9. CASE UNCHANGED Update!vars
    BY <1>0, <1>9, UntouchedKeeps
  <1> QED
    BY <1>1, <1>2, <1>3, <1>4, <1>5, <1>6, <1>7, <1>8, <1>9

\* The worker looks for the release; it does not touch the cell.
LEMMA PreparesKeeps ==
  ASSUME UpdateInv, Update!PrepareStep, UNCHANGED <<Update!page, u_served, u_channel, u_tries, u_told>>
  PROVE  UpdateInv'
  <1>1. /\ u_pending = "prepare" /\ UNCHANGED <<Update!page, u_served, u_channel, u_told, u_bundle, u_host, u_cell, u_ran>>
        /\ u_offer' \in {u_offer, [Update!NoOffer EXCEPT !.channel = u_channel], [u_offer EXCEPT !.target = u_served]}
        /\ u_pc' \in {"discover", "resolve", "offer"} \/ (u_pc' = "done" /\ u_result' # "installed")
    BY DEF Update!PrepareStep, Update!Cancelled, Update!Goes, Update!Reports, Update!Fails
  <1>2. u_offer' \in [target : Nat, channel : {"none"} \cup Update!Channels]
    BY SMTT(30), <1>1 DEF UpdateInv, UpdateTyped
  <1>3. UpdateTyped'
    BY <1>1, <1>2 DEF UpdateInv, UpdateTyped
  <1>4. CellIsOwned'
    BY SMTT(30), <1>1 DEF UpdateInv, CellIsOwned
  <1>5. WorkerKnows'
    BY SMTT(30), <1>1 DEF UpdateInv, WorkerKnows
  <1>6. InstalledIsLast' /\ Update!UpdateExcludesEdits'
    BY SMTT(30), <1>1 DEF UpdateInv, InstalledIsLast, Update!UpdateExcludesEdits, Update!active
  <1> QED
    BY <1>3, <1>4, <1>5, <1>6 DEF UpdateInv

\* The worker downloads, claims the cell, installs and verifies: nothing runs without the
\* claim.
LEMMA InstallsKeeps ==
  ASSUME UpdateInv, Update!InstallStep, UNCHANGED <<Update!page, u_served, u_channel, u_tries, u_told>>
  PROVE  UpdateInv'
  <1>1. CASE u_pc = "installing"
    <2>1. /\ u_pending = "install" /\ UNCHANGED <<Update!page, u_served, u_channel, u_told, u_bundle, u_offer, u_cell, u_ran>>
          /\ u_pc' = "verify" \/ (u_pc' = "done" /\ u_result' = "failed")
          /\ u_host' = u_host \/ \E gui \in {u_host.gui, u_bundle} : u_host' = [runtime |-> u_bundle, gui |-> gui]
      BY <1>1 DEF Update!InstallStep, Update!Cancelled, Update!Goes, Update!Reports, Update!Fails
    <2>2. u_host' \in [runtime : Nat, gui : Nat]
      BY SMTT(30), <2>1 DEF UpdateInv, UpdateTyped
    <2>3. UpdateTyped'
      BY <2>1, <2>2 DEF UpdateInv, UpdateTyped
    <2>4. CellIsOwned' /\ InstalledIsLast' /\ Update!UpdateExcludesEdits'
      BY SMTT(30), <2>1 DEF UpdateInv, CellIsOwned, InstalledIsLast, Update!UpdateExcludesEdits, Update!active
    <2>5. WorkerKnows'
      BY <1>1, <2>1 DEF UpdateInv, WorkerKnows
    <2> QED
      BY <2>3, <2>4, <2>5 DEF UpdateInv
  <1>2. CASE u_pc # "installing"
    BY <1>2 DEF UpdateInv, UpdateTyped, CellIsOwned, WorkerKnows, InstalledIsLast, Update!UpdateExcludesEdits, Update!active,
       Update!InstallStep, Update!Cancelled, Update!Goes, Update!Reports, Update!Fails, Update!same_target,
       Update!claim, Update!verified
  <1> QED
    BY <1>1, <1>2

\* The page learns how the worker has ended.
LEMMA UpdateCompletes ==
  ASSUME UpdateInv, Update!complete_update_install
  PROVE  UpdateInv'
  BY DEF UpdateInv, UpdateTyped, CellIsOwned, WorkerKnows, InstalledIsLast, Update!UpdateExcludesEdits, Update!active,
         Update!complete_update_install, Update!Relaunch

\* Every step of the page, of the worker and of the server keeps the invariant.
LEMMA UpdateNext == UpdateInv /\ [Update!Next]_(Update!vars) => UpdateInv'
  BY UserKeeps, QuietPageKeeps, PreparesKeeps, InstallsKeeps, UpdateCompletes DEF Update!Next, Update!WorkerStep

\* The invariant gives the properties that the run checks.
LEMMA UpdateSafe ==
  ASSUME UpdateInv
  PROVE  /\ Update!CancelledNeverInstalls /\ Update!InstalledIsConfirmed /\ Update!WindowStaysForInstaller
         /\ Update!UpdateExcludesEdits /\ Update!RelaunchIsVerified
  <1>1. Update!CancelledNeverInstalls /\ Update!InstalledIsConfirmed
    BY DEF UpdateInv, CellIsOwned, Update!CancelledNeverInstalls, Update!InstalledIsConfirmed
  <1>2. Update!WindowStaysForInstaller
    BY SMTT(30) DEF UpdateInv, UpdateTyped, CellIsOwned, WorkerKnows, Update!WindowStaysForInstaller
  <1>3. Update!UpdateExcludesEdits /\ Update!RelaunchIsVerified
    BY DEF UpdateInv, InstalledIsLast, Update!RelaunchIsVerified
  <1> QED
    BY <1>1, <1>2, <1>3
=============================================================================
