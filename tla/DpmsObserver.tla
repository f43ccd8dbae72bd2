---------------------------- MODULE DpmsObserver ----------------------------
(***************************************************************************)
(* The DPMS blank observer (sources/linux/dpms.rs): a thread that polls    *)
(* the connectors under /sys/class/drm and reports the system blanking     *)
(* the display, a known step from On to Off.                               *)
(*                                                                         *)
(* Between two polls anything may happen to a connector: it appears and    *)
(* disappears, is plugged and unplugged, its files cannot be read; and the *)
(* whole tree may be out of reach.                                         *)
(***************************************************************************)
EXTENDS Integers

CONSTANT Connectors

VARIABLES
    tree,       \* the tree can be read
    hardware,   \* per connector: what a read of it would find
    prev,       \* prev: the stored readings, with Absent for none
    blanked,    \* the last poll reported a system blank
    lit         \* history: the connectors that were on, and known to be, at the
                \* last poll

vars == <<tree, hardware, prev, blanked, lit>>

Absent == "absent"
States == {Absent, "unreadable", "unplugged", "on", "off", "standby"}

Init ==
    /\ tree \in BOOLEAN /\ hardware \in [Connectors -> States]
    /\ prev = [c \in Connectors |-> Absent]
    /\ blanked = FALSE /\ lit = {}

\* The machine: a cable, a driver, a compositor.
Change ==
    /\ \/ tree' = ~tree /\ UNCHANGED hardware
       \/ \E c \in Connectors, s \in States : hardware' = [hardware EXCEPT ![c] = s] /\ UNCHANGED tree
    /\ UNCHANGED <<prev, blanked, lit>>

\* reading_from_snapshot, of what read_sysfs_connector_states finds.
reading_from_snapshot(s) == CASE s = "on" -> "On" [] s = "off" -> "Off" [] OTHER -> "Inactive"

Present == {c \in Connectors : hardware[c] # Absent}

\* Mutant: a connector that has gone keeps its last reading.
RetainedMutant(c) == IF c \in Present THEN reading_from_snapshot(hardware[c]) ELSE prev[c]

\* The stored readings after a poll: those of the connectors that are there.
Retained(c) == IF c \in Present THEN reading_from_snapshot(hardware[c]) ELSE Absent

\* step_dpms_observations: any of them.
transitioned ==
    \E c \in Present : prev[c] = "On" /\ reading_from_snapshot(hardware[c]) = "Off"

\* One round of run_dpms_observer: a tree that cannot be read forgets everything.
Poll ==
    /\ IF tree
       THEN /\ blanked' = transitioned
            /\ prev' = [c \in Connectors |-> Retained(c)]
            /\ lit' = {c \in Connectors : hardware[c] = "on"}
       ELSE /\ blanked' = FALSE
            /\ prev' = [c \in Connectors |-> Absent]
            /\ lit' = {}
    /\ UNCHANGED <<tree, hardware>>

Next == Change \/ Poll
Spec == Init /\ [][Next]_vars

-----------------------------------------------------------------------------
\* What a poll may report.
RealBlank ==
    lit' # lit \/ blanked' # blanked
        => blanked' = (tree /\ \E c \in lit : hardware[c] = "off")

\* A poll reports a system blank exactly when a connector is off that was on, and
\* known to be, at the poll before: never for a display that was away in between,
\* and never twice for one (step_dpms_observations, run_dpms_observer).
BlankIsReal == [][RealBlank]_vars
=============================================================================
