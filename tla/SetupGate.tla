------------------------------ MODULE SetupGate ------------------------------
(***************************************************************************)
(* Application keeps its pages behind a gate: they are admitted only when  *)
(* setup is known to be complete.  SetupHealth polls the setup state that  *)
(* the session service publishes, one read at a time, and asks for a new   *)
(* assessment after the GUI changed something.  AssessmentWorker, in the   *)
(* service, publishes an assessment unless another was requested while it  *)
(* probed.  Onboarding, TV management, settings edits and overview writes  *)
(* run in threads; Application keeps them apart.  A page's operation is    *)
(* started by the transition that carries it, and a transition of a page   *)
(* that is not admitted is dropped.                                        *)
(* Here a page is the one write that it has under way and whether another  *)
(* waits behind it; "version" counts what the GUI changed, which tells an  *)
(* assessment of the present setup from one of an earlier setup.           *)
(***************************************************************************)
EXTENDS Naturals

CONSTANTS
    MaxChanges,     \* changes to the setup
    MaxActs,        \* edits, and onboarding operations, of the user
    MaxRevision,    \* assessments requested of an instance of the session service
    MaxServices     \* instances of the session service

Pages == {"overview", "settings", "tvs"}

VARIABLES
    admitted, closed, close_after_setup, manual_setup,    \* Application
    health,     \* SetupHealth
    probe,      \* the assessment operation in progress, as a set of at most one
    onboarding, \* OnboardingApplication
    step,       \* what the onboarding thread has done: "none", "running" or its result
    work,       \* work[p]: the write of page p: "none", "running", "done" or "lost"
    waiting,    \* the pages whose next write waits for the one under way
    facts, version,     \* whether setup is complete, and how often the GUI changed it
    service,    \* PublishedSetup and its worker
    seen,       \* history: the version of the setup that health.status tells of
    acts

gui == <<admitted, closed, close_after_setup, manual_setup>>
vars == <<gui, health, probe, onboarding, step, work, waiting, facts, version, service, seen, acts>>

-----------------------------------------------------------------------------
(* SetupHealth.                                                            *)

Pending(h) == h.needed \/ h.required # {}

changed(h) == [h EXCEPT !.needed = TRUE, !.required = {}, !.stale = TRUE]

request(h) ==
    IF h.paused \/ h.running THEN h ELSE [h EXCEPT !.running = TRUE, !.stale = FALSE, !.restart = FALSE]

\* The operation that request starts.
Requested(h) == [pc |-> IF h.restart THEN "restart" ELSE IF h.needed THEN "request" ELSE "snapshot",
                 requests |-> h.needed, required |-> {}, snapshot |-> {}]

set_paused(h, p) ==
    IF p THEN [h EXCEPT !.paused = TRUE, !.stale = TRUE]
    ELSE IF h.paused THEN request([h EXCEPT !.paused = FALSE]) ELSE h

-----------------------------------------------------------------------------
(* Application::transition, after onboarding became o, the writes w and    *)
(* SetupHealth h: polling stops while something changes the setup, and is  *)
(* taken up again at once when nothing does.                               *)

BusyMutant(o, w) == closed' \/ o.active # "none" \/ w["overview"] # "none" \/ w["settings"] # "none"
Busy(o, w) == closed' \/ o.active # "none" \/ \E p \in Pages : w[p] # "none"

Transition(o, w, h) ==
    /\ health' = set_paused(h, Busy(o, w))
    /\ probe' = IF health'.running /\ ~h.running THEN {Requested(h)} ELSE probe
    /\ onboarding' = o /\ work' = w

-----------------------------------------------------------------------------
(* The pages.                                                              *)

\* A page takes an edit when it is admitted, no onboarding is open and no other page is doing
\* what it must not be mixed with.
Excludes(p) == IF p = "tvs" THEN {"overview", "settings"} ELSE {"tvs"}

Edit(p) ==
    /\ admitted /\ ~closed /\ ~onboarding.open /\ acts < MaxActs
    /\ \A q \in Excludes(p) : work[q] = "none"
    /\ acts' = acts + 1
    /\ waiting' = IF work[p] = "none" THEN waiting ELSE waiting \cup {p}
    /\ UNCHANGED closed
    /\ Transition(onboarding, IF work[p] = "none" THEN [work EXCEPT ![p] = "running"] ELSE work, health)
    /\ UNCHANGED <<admitted, close_after_setup, manual_setup, step, facts, version, service, seen>>

\* The setup changes, or not.
Changes ==
    \/ UNCHANGED <<facts, version>>
    \/ /\ version < MaxChanges
       /\ version' = version + 1 /\ facts' \in {"complete", "incomplete"}

\* A thread writes to the TV, the configuration or the token.
Write(p) ==
    /\ work[p] = "running"
    /\ IF p = "overview" THEN UNCHANGED <<facts, version>> ELSE Changes
    /\ work' = [work EXCEPT ![p] = "done"]
    /\ UNCHANGED <<gui, health, probe, onboarding, step, waiting, service, seen, acts>>

\* complete_overview, complete_settings_mutation and complete_tvs_management, or the thread died.
\* The write that waited starts, with the transition.
Complete(p) ==
    /\ work[p] = "done"
    /\ waiting' = waiting \ {p}
    /\ UNCHANGED closed
    /\ Transition(onboarding,
                  [work EXCEPT ![p] = IF p \notin waiting THEN "none" ELSE IF admitted THEN "running" ELSE "lost"],
                  IF p = "overview" THEN health ELSE changed(health))
    /\ UNCHANGED <<admitted, close_after_setup, manual_setup, step, facts, version, service, seen, acts>>

-----------------------------------------------------------------------------
(* Onboarding.                                                             *)

start(o, command) == [o EXCEPT !.active = command]
Shut(o) == [o EXCEPT !.open = FALSE, !.active = "none", !.cancellation = FALSE, !.cancelling = FALSE,
                     !.snapshot = FALSE]

\* Setup is not opened beside a write.
MayOpen == \A p \in Pages : work[p] = "none"

Opening == [open |-> TRUE, active |-> "open", cancellation |-> FALSE, cancelling |-> FALSE,
            status |-> "unchecked", snapshot |-> FALSE]

Open ==
    /\ ~closed /\ ~onboarding.open /\ MayOpen /\ acts < MaxActs
    /\ acts' = acts + 1
    /\ manual_setup' = admitted /\ admitted' = FALSE
    /\ UNCHANGED closed
    /\ Transition(Opening, work, health)
    /\ step' = "running"
    /\ UNCHANGED <<close_after_setup, waiting, facts, version, service, seen>>

\* Submit: the setup that onboarding completed is verified again, or repaired; otherwise the
\* next command runs.
Submit ==
    /\ ~closed /\ onboarding.open /\ onboarding.active = "none" /\ acts < MaxActs
    /\ acts' = acts + 1
    /\ UNCHANGED closed
    /\ IF onboarding.status = "complete"
       THEN \/ /\ Transition(Opening, work, health)
               /\ step' = "running" /\ UNCHANGED admitted
            \/ \E restart \in BOOLEAN :
               /\ \E h \in {[changed(health) EXCEPT !.restart = restart]} :
                     /\ health' = request(h)
                     /\ probe' = IF health'.running /\ ~h.running THEN {Requested(h)} ELSE probe
               /\ UNCHANGED <<admitted, onboarding, work, step>>
       ELSE \E command \in IF onboarding.snapshot THEN {"work", "recheck"} ELSE {"open"} :
               /\ Transition(start(onboarding, command), work, health)
               /\ step' = "running" /\ admitted' = FALSE
    /\ UNCHANGED <<close_after_setup, manual_setup, waiting, facts, version, service, seen>>

\* The commands: Open and Recheck inspect; Run, Retry and Advance change the setup, in several
\* steps.
RunCommand ==
    /\ step = "running"
    /\ \/ onboarding.active = "work" /\ version < MaxChanges /\ version' = version + 1
          /\ facts' \in {"complete", "incomplete"} /\ UNCHANGED step
       \/ /\ step' \in {"complete", "incomplete", "action", "cancelled", "error"}
          /\ step' = "complete" => facts = "complete"
          /\ UNCHANGED <<facts, version>>
    /\ UNCHANGED <<gui, health, probe, onboarding, work, waiting, service, seen, acts>>

\* onboarding_transition: a close that waited for onboarding goes on once it is shut.
CloseAfter(o) ==
    /\ closed' = (closed \/ (close_after_setup /\ ~o.open))
    /\ close_after_setup' = (close_after_setup /\ o.open)

\* complete: an operation that was cancelled meanwhile shuts the dialog, whatever it did.
Completed(o) == Shut(o)

\* Otherwise it shows the answer; an inspection that finds the next action goes on with it.
Answered(o) ==
    CASE step = "cancelled" -> [Shut(o) EXCEPT !.status = "incomplete"]
      [] step = "error" -> [o EXCEPT !.active = "none", !.status = "incomplete", !.cancellation = FALSE,
                                     !.snapshot = FALSE]
      [] OTHER -> [o EXCEPT !.active = IF step = "action" /\ @ = "open" THEN "work" ELSE "none",
                            !.cancellation = TRUE, !.snapshot = TRUE,
                            !.status = IF step = "complete" THEN "complete" ELSE "incomplete"]

complete_onboarding ==
    /\ step \notin {"none", "running"} /\ onboarding.active # "none"
    /\ \E o \in {IF onboarding.cancelling THEN Completed(onboarding) ELSE Answered(onboarding)} :
          /\ step' = IF o.active = "none" THEN "none" ELSE "running"
          /\ CloseAfter(o)
          /\ Transition(o, work, IF onboarding.active = "work" \/ o.status = "complete"
                                 THEN changed(health) ELSE health)
    /\ UNCHANGED <<admitted, manual_setup, waiting, facts, version, service, seen, acts>>

\* Cancel: the live cancellation gate may refuse; an operation that it stops shuts the dialog
\* when it ends.  Without a gate there is only an inspection to forget.
Cancelled ==
    IF onboarding.active # "none" /\ onboarding.cancellation THEN [onboarding EXCEPT !.cancelling = TRUE]
    ELSE Shut(onboarding)

Cancel ==
    /\ ~closed /\ onboarding.open /\ ~onboarding.cancelling
    /\ UNCHANGED <<closed, close_after_setup>>
    /\ Transition(Cancelled, work, health)
    /\ step' = IF Cancelled.open THEN step ELSE "none"
    /\ UNCHANGED <<admitted, manual_setup, waiting, facts, version, service, seen, acts>>

\* The window's close button; onboarding is cancelled first.
CloseWindow ==
    /\ ~closed /\ ~onboarding.cancelling
    /\ \E o \in {IF onboarding.open THEN Cancelled ELSE onboarding} :
          /\ close_after_setup' = o.open /\ closed' = ~o.open
          /\ Transition(o, work, health)
          /\ step' = IF o.open THEN step ELSE "none"
    /\ UNCHANGED <<admitted, manual_setup, waiting, facts, version, service, seen, acts>>

-----------------------------------------------------------------------------
(* Polling.                                                                *)

refresh_setup ==
    /\ ~closed /\ ~health.paused /\ ~health.running
    /\ health' = request(health) /\ probe' = {Requested(health)}
    /\ UNCHANGED <<gui, onboarding, step, work, waiting, facts, version, service, seen, acts>>

\* The service is started anew: it has published nothing yet, and assesses.
Restarted(s) ==
    [instance |-> s.instance + 1, revision |-> 1, asked |-> TRUE, probing |-> {},
     snapshot |-> [instance |-> s.instance + 1, revision |-> 0, status |-> "unchecked", version |-> 0]]

\* AssessmentOperation::execute; each of its calls may fail.
Execute(op) ==
    /\ \/ /\ op.pc = "restart" /\ service.instance < MaxServices
          /\ service' = Restarted(service)
          /\ probe' = {[op EXCEPT !.pc = IF op.requests THEN "request" ELSE "snapshot"]}
       \/ /\ op.pc = "request" /\ service.revision < MaxRevision
          /\ service' = [service EXCEPT !.revision = @ + 1, !.asked = TRUE]
          /\ probe' = {[op EXCEPT !.pc = "snapshot",
                                  !.required = {[instance |-> service.instance, revision |-> service'.revision]}]}
       \/ /\ op.pc = "snapshot"
          /\ probe' = {[op EXCEPT !.pc = "done", !.snapshot = {service.snapshot}]}
          /\ UNCHANGED service
       \/ /\ op.pc # "done"
          /\ probe' = {[op EXCEPT !.pc = "done"]} /\ UNCHANGED service
    /\ UNCHANGED <<gui, health, onboarding, step, work, waiting, facts, version, seen, acts>>

staleMutant(h) == h.paused
\* A read that a change overtook is not applied.
stale(h) == h.stale \/ h.paused

\* SetupHealth::complete, for a read that is applied: a snapshot counts once it answers the
\* assessment that was asked for, and the service has assessed.
Verified(h, s) ==
    ~h.needed /\ \A r \in h.required : s.instance # r.instance \/ s.revision >= r.revision

Asked(h, op) ==
    IF op.snapshot = {} \/ op.required = {} THEN h ELSE [h EXCEPT !.required = op.required, !.needed = FALSE]

Counting(h, op) == {s \in op.snapshot : Verified(Asked(h, op), s) /\ s.status # "unchecked"}

Applied(h, op) ==
    IF Counting(h, op) = {} THEN Asked(h, op)
    ELSE [Asked(h, op) EXCEPT !.status = (CHOOSE s \in op.snapshot : TRUE).status, !.required = {}]

\* Whether the pages are to be admitted, or kept.
Ready(h) ==
    /\ h.status = "complete" /\ onboarding.active = "none"
    /\ admitted \/ ~Pending(h)
    /\ ~manual_setup \/ ~onboarding.open \/ onboarding.status = "complete"

\* complete_setup_assessment: the gate opens, or closes.
complete_setup_assessment(op) ==
    /\ op.pc = "done" /\ ~closed /\ UNCHANGED closed
    /\ \E done \in {[health EXCEPT !.running = FALSE]} :
       \E h \in {IF stale(done) THEN request(done) ELSE Applied(done, op)} :
       \E o \in {IF Ready(h) /\ ~admitted /\ onboarding.open THEN Shut(onboarding) ELSE onboarding} :
          /\ admitted' = Ready(h)
          /\ health' = set_paused(h, Busy(o, work))
          /\ probe' = IF h.running THEN {Requested(done)} ELSE {}
          /\ onboarding' = o
          /\ seen' = IF stale(done) \/ Counting(done, op) = {} THEN seen
                     ELSE (CHOOSE s \in op.snapshot : TRUE).version
    /\ UNCHANGED <<close_after_setup, manual_setup, step, work, waiting, facts, version, service, acts>>

-----------------------------------------------------------------------------
(* AssessmentWorker, in the session service.                               *)

Assess ==
    /\ service.asked /\ service.probing = {}
    /\ \E found \in {facts, "incomplete"} :
          service' = [service EXCEPT
              !.asked = FALSE,
              !.probing = {[instance |-> service.instance, revision |-> service.revision,
                            status |-> found, version |-> version]}]
    /\ UNCHANGED <<gui, health, probe, onboarding, step, work, waiting, facts, version, seen, acts>>

\* An assessment that another request overtook is not published.
Current(s) == s.revision = service.revision

Publish(s) ==
    /\ service' = [service EXCEPT !.probing = {}, !.snapshot = IF Current(s) THEN s ELSE @]
    /\ UNCHANGED <<gui, health, probe, onboarding, step, work, waiting, facts, version, seen, acts>>

RestartService ==
    /\ service.instance < MaxServices
    /\ service' = Restarted(service)
    /\ UNCHANGED <<gui, health, probe, onboarding, step, work, waiting, facts, version, seen, acts>>

Init ==
    /\ admitted = FALSE /\ closed = FALSE /\ close_after_setup = FALSE /\ manual_setup = FALSE
    /\ health = [status |-> "unchecked", running |-> TRUE, stale |-> FALSE, paused |-> FALSE,
                 needed |-> FALSE, required |-> {}, restart |-> FALSE]
    /\ probe = {Requested(health)}
    /\ onboarding = [Opening EXCEPT !.open = FALSE, !.active = "none"]
    /\ step = "none" /\ work = [p \in Pages |-> "none"] /\ waiting = {}
    /\ facts \in {"complete", "incomplete"} /\ version = 0
    /\ service = Restarted([instance |-> 0])
    /\ seen = 0 /\ acts = 0

Next ==
    \/ \E p \in Pages : Edit(p) \/ Write(p) \/ Complete(p)
    \/ Open \/ Submit \/ RunCommand \/ complete_onboarding \/ Cancel \/ CloseWindow
    \/ refresh_setup \/ \E op \in probe : Execute(op) \/ complete_setup_assessment(op)
    \/ Assess \/ (\E s \in service.probing : Publish(s)) \/ RestartService

Spec == Init /\ [][Next]_vars

-----------------------------------------------------------------------------
\* The gate opens on an assessment of the setup as it is: one that the service made after the
\* last change of the GUI (SetupHealth::complete, AssessmentWorker).
AdmissionStep == ~admitted /\ admitted' => seen' = version
AdmissionIsVerified == [][AdmissionStep]_vars

\* Behind the closed gate no page has a write under way, so that no operation is dropped with
\* its transition and reopening finds the overview ready to be read
\* (handle_onboarding_intent, complete_setup_assessment, expect("overview refresh")).
GateHoldsNoWork == ~admitted => \A p \in Pages : work[p] = "none"

\* Every operation that the application believes to be under way has a thread: none was dropped
\* with a transition (Application::transition, complete_setup_assessment).
OperationsAreRun ==
    /\ \A p \in Pages : work[p] # "lost"
    /\ health.running /\ ~closed => probe # {}
    /\ onboarding.active # "none" => step # "none"

\* A close that was put off waits for an onboarding operation that is being cancelled, and so
\* for something that ends (handle_overview_intent, OnboardingApplication::complete).
CloseIsOnlyPutOff == close_after_setup => onboarding.cancelling /\ onboarding.active # "none"
=============================================================================
