---------------------------- MODULE SettingsView ----------------------------
(***************************************************************************)
(* The settings page: SettingsApplication on the UI thread, one thread at  *)
(* a time that saves an edit, and the threads that read.  Edits wait in a  *)
(* queue, each with the row to put back should it fail.  A read that an    *)
(* edit overtook is not applied.  When the thread that saves dies without  *)
(* an answer the page reads the file to learn what it did.  Closing the    *)
(* window leaves the queue to drain.                                       *)
(* Rows under declarative management, which take no edit, are left out.    *)
(***************************************************************************)
EXTENDS Naturals, Sequences, FiniteSets

CONSTANTS
    Settings,    \* the rows
    Values,      \* what they may be set to; Reset saves 0
    MaxEdits,    \* edits that are accepted
    MaxReads     \* reads that are begun

Retry == 9   \* the edit that applies the saved value again

VARIABLES
    state,               \* SettingsApplicationState
    rows,                \* rows[s]: the value shown and its SettingsEditStatus; {} before a read
    pending_read,        \* the read whose answer counts, or 0
    pending_mutation,    \* the edit being saved, as a set of at most one
    queued_mutations, reconcile_mutation, closed,
    reading,             \* the reads in progress or answered
    thread,              \* what the saving thread has done: "running", an outcome, or "none"
    file,                \* the saved values
    reads, edits,        \* how many were begun
    newest,              \* history: per row, the number, value and fate of the last accepted edit
    doubt                \* history: rows saved by an edit that reported a failure

page == <<state, rows, pending_read, pending_mutation, queued_mutations, reconcile_mutation>>
vars == <<page, closed, reading, thread, file, reads, edits, newest, doubt>>

TheMutation == CHOOSE m \in pending_mutation : TRUE
loaded == rows # <<>>
Row(value, status) == [value |-> value, status |-> status]

-----------------------------------------------------------------------------
(* The page's own steps.                                                   *)

can_edit == state # "failed" /\ reconcile_mutation = {} /\ loaded

\* begin_read
begin_read ==
    /\ reads < MaxReads
    /\ reads' = reads + 1
    /\ pending_read' = reads' /\ state' = "loading"
    /\ reading' = reading \cup {[id |-> reads', answer |-> "none", values |-> <<>>]}

\* The rows P, of which those with an edit in q say so.
Saving(P, q) ==
    [s \in Settings |-> IF \E i \in DOMAIN q : q[i].setting = s THEN [P[s] EXCEPT !.status = "saving"]
                        ELSE P[s]]

\* start_queued_mutation
Starts(q) ==
    /\ pending_mutation' = IF q = <<>> THEN {} ELSE {Head(q)}
    /\ queued_mutations' = IF q = <<>> THEN q ELSE Tail(q)
    /\ thread' = IF q = <<>> THEN "none" ELSE "running"

RefreshedMutant(P, q, completed) == q
\* A queued edit of a row that changed puts back what the row now shows.
Refreshed(P, q, completed) ==
    [i \in DOMAIN q |-> IF q[i].setting \in completed THEN [q[i] EXCEPT !.previous = P[q[i].setting]]
                        ELSE q[i]]

\* finish_mutation: the rows have just become P, and no edit is being saved.  The rows to put
\* back are brought up to date, and the next edit starts, unless a read is under way.
finish_mutation(P, completed, read) ==
    \E q \in {Refreshed(P, queued_mutations, completed)} :
        /\ IF read = 0 THEN Starts(q) ELSE pending_mutation' = {} /\ queued_mutations' = q /\ thread' = "none"
        /\ rows' = Saving(P, q)
        /\ state' = IF read = 0 THEN "ready" ELSE "loading"

-----------------------------------------------------------------------------
(* What the user does.                                                     *)

Enqueue(m) == Append(queued_mutations, m)

\* begin_mutation: a read that is under way no longer counts.
begin_mutation(s, request) ==
    /\ ~closed /\ can_edit /\ edits < MaxEdits
    /\ request = Retry => rows[s].status = "retry"
    /\ edits' = edits + 1
    /\ \E q \in {Enqueue([id |-> edits', setting |-> s, request |-> request, previous |-> rows[s]])} :
          IF pending_mutation = {} THEN Starts(q)
          ELSE queued_mutations' = q /\ UNCHANGED <<pending_mutation, thread>>
    /\ rows' = [rows EXCEPT ![s].status = "saving"]
    /\ state' = IF pending_read = 0 /\ pending_mutation # {} THEN state ELSE "ready"
    /\ pending_read' = 0
    /\ newest' = [newest EXCEPT ![s] = [id |-> edits', request |-> request, fate |-> "waiting"]]
    /\ UNCHANGED <<reconcile_mutation, closed, reading, file, reads, doubt>>

\* Retry after a failed read, and Refresh when the page is opened again.
Refresh ==
    /\ ~closed /\ pending_mutation = {} /\ state \in {"ready", "failed"}
    /\ begin_read
    /\ UNCHANGED <<rows, pending_mutation, queued_mutations, reconcile_mutation, closed, thread, file,
                   edits, newest, doubt>>

\* profile_changed: setup or pairing ended; neither runs beside an edit.
profile_changed ==
    /\ ~closed /\ pending_mutation = {} /\ queued_mutations = <<>>
    /\ begin_read
    /\ UNCHANGED <<rows, pending_mutation, queued_mutations, reconcile_mutation, closed, thread, file,
                   edits, newest, doubt>>

shutdown ==
    /\ ~closed /\ closed' = TRUE
    /\ UNCHANGED <<page, reading, thread, file, reads, edits, newest, doubt>>

-----------------------------------------------------------------------------
(* The threads.                                                            *)

\* read_settings_snapshot
ReadFile(r) ==
    /\ r.answer = "none"
    /\ \E answer \in {[r EXCEPT !.answer = "failed"], [r EXCEPT !.answer = "read", !.values = file]} :
          reading' = (reading \ {r}) \cup {answer}
    /\ UNCHANGED <<page, closed, thread, file, reads, edits, newest, doubt>>

Outcomes == {"saved", "apply_failed", "refused", "undone", "stopped"}

\* write_setting: the edit is saved and applied, saved only, refused, or undone after its
\* activation failed, which may itself fail; or the thread dies, before or after saving.
write_setting ==
    /\ thread = "running"
    /\ \E how \in Outcomes, saves \in BOOLEAN :
          /\ how \in {"saved", "apply_failed"} => saves
          /\ how = "refused" \/ TheMutation.request = Retry => ~saves \/ how \in {"saved", "apply_failed"}
          /\ thread' = how
          /\ file' = IF saves /\ TheMutation.request # Retry
                     THEN [file EXCEPT ![TheMutation.setting] = TheMutation.request] ELSE file
          /\ doubt' = IF how = "undone" /\ saves THEN doubt \cup {TheMutation.setting} ELSE doubt
    /\ UNCHANGED <<page, closed, reading, reads, edits, newest>>

-----------------------------------------------------------------------------
(* What the page does with their answers.                                  *)

\* A window that closed only starts the next edit.
Drain == Starts(queued_mutations)

\* complete_snapshot ignores a read that is not the one it waits for.
Superseded(r) == pending_read # r.id

\* complete_snapshot: the rows are those read, but a row whose value was saved and not applied
\* says so still.  The row of an edit whose thread died may be applied again.
FreshRows(r) ==
    [s \in Settings |->
        IF \/ \E m \in reconcile_mutation : m.setting = s
           \/ loaded /\ rows[s] = Row(r.values[s], "retry")
        THEN Row(r.values[s], "retry")
        ELSE Row(r.values[s], "idle")]

complete_snapshot(r) ==
    /\ r.answer # "none"
    /\ reading' = reading \ {r}
    /\ IF Superseded(r) THEN UNCHANGED <<page, thread, doubt>>
       ELSE /\ pending_read' = 0
            /\ IF closed
               THEN /\ IF pending_mutation = {} THEN Drain
                       ELSE UNCHANGED <<pending_mutation, queued_mutations, thread>>
                    /\ UNCHANGED <<state, rows, reconcile_mutation, doubt>>
               ELSE IF r.answer = "failed"
               THEN /\ state' = "failed"
                    /\ UNCHANGED <<rows, pending_mutation, queued_mutations, reconcile_mutation, thread,
                                   doubt>>
               ELSE /\ \E P \in {FreshRows(r)} : finish_mutation(P, Settings, 0)
                    /\ reconcile_mutation' = {} /\ doubt' = {}
    /\ UNCHANGED <<closed, file, reads, edits, newest>>

\* history
Remember(m, how) ==
    newest' = IF newest[m.setting].id = m.id THEN [newest EXCEPT ![m.setting].fate = how] ELSE newest

\* complete_mutation: a saved row shows what was saved, a failed one what it showed before.
complete_mutation ==
    /\ thread \in Outcomes \ {"stopped"}
    /\ Remember(TheMutation, thread)
    /\ IF closed THEN Drain /\ UNCHANGED <<state, rows>>
       ELSE \E m \in pending_mutation :
            \E P \in {[rows EXCEPT ![m.setting] =
                         IF thread \in {"refused", "undone"}
                         THEN Row(m.previous.value,
                                  IF thread = "refused" /\ m.previous.status = "retry" THEN "retry" ELSE "idle")
                         ELSE Row(IF m.request = Retry THEN file[m.setting] ELSE m.request,
                                  IF thread = "saved" THEN "idle" ELSE "retry")]} :
                finish_mutation(P, {m.setting}, pending_read)
    /\ UNCHANGED <<pending_read, reconcile_mutation, closed, reading, file, reads, edits, doubt>>

\* mutation_worker_stopped
mutation_worker_stopped ==
    /\ thread = "stopped"
    /\ Remember(TheMutation, "stopped")
    /\ IF closed
       THEN Drain /\ UNCHANGED <<state, rows, pending_read, reconcile_mutation, reading, reads>>
       ELSE /\ begin_read
            /\ rows' = [rows EXCEPT ![TheMutation.setting].status = "idle"]
            /\ reconcile_mutation' = pending_mutation
            /\ pending_mutation' = {} /\ thread' = "none"
            /\ UNCHANGED queued_mutations
    /\ UNCHANGED <<closed, file, edits, doubt>>

Init ==
    /\ state = "loading" /\ rows = <<>> /\ pending_read = 1 /\ pending_mutation = {}
    /\ queued_mutations = <<>> /\ reconcile_mutation = {} /\ closed = FALSE
    /\ file = [s \in Settings |-> 0]
    /\ reading = {[id |-> 1, answer |-> "none", values |-> <<>>]}
    /\ thread = "none" /\ reads = 1 /\ edits = 0
    /\ newest = [s \in Settings |-> [id |-> 0, request |-> 0, fate |-> "saved"]] /\ doubt = {}

Next ==
    \/ \E s \in Settings, request \in Values \cup {Retry} : begin_mutation(s, request)
    \/ Refresh \/ profile_changed \/ shutdown
    \/ \E r \in reading : ReadFile(r) \/ complete_snapshot(r)
    \/ write_setting \/ complete_mutation \/ mutation_worker_stopped

Spec == Init /\ [][Next]_vars

-----------------------------------------------------------------------------
\* No edit is being saved or waits to be.
Settled == pending_mutation = {} /\ queued_mutations = <<>>

\* Once the edits have settled, the last that was accepted for a row is the one that stays saved,
\* though the window closed meanwhile ("one FIFO keeps writes ordered without disabling the
\* form", begin_mutation), and a page at rest shows what is saved, whichever of the edits failed
\* and whatever reads they overtook (finish_mutation, complete_mutation).  The exception is an
\* edit that was saved, failed to activate and could not be undone.
ShownIsSaved ==
    Settled =>
        \A s \in Settings :
            /\ newest[s].fate \in {"saved", "apply_failed"} /\ newest[s].request # Retry =>
                  file[s] = newest[s].request
            /\ state = "ready" /\ ~closed /\ s \notin doubt => rows[s].value = file[s]

\* An edit that waits is behind one that is being saved or behind a read, or the page says that
\* reading failed and offers to try again (finish_mutation, complete_snapshot).
QueueMoves ==
    queued_mutations # <<>> => pending_mutation # {} \/ pending_read # 0 \/ state = "failed"

\* "Keep the controller and application alive until accepted writes drain": once the window has
\* closed, an edit that waits is behind one that is being saved or a read.
QueueDrains == closed /\ queued_mutations # <<>> => pending_mutation # {} \/ pending_read # 0
=============================================================================
