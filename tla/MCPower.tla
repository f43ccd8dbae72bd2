------------------------------ MODULE MCPower ------------------------------
(***************************************************************************)
(* The parts that switch the TV on and off, side by side in one instance:  *)
(* the suspend rail among faults (the module's own constants) and left in  *)
(* peace, the screen actions, and the session monitor among crashes and    *)
(* left in peace.  In each behaviour one of them runs; MCScreenSuspend and *)
(* MCMonitorSuspended run a session beside a suspending machine.           *)
(***************************************************************************)
EXTENDS SuspendRail

CONSTANTS
    Interfaces,        \* the interfaces of the rail that is left in peace
    SessionAggressive, \* screen_restore_policy of the sessions that are not Faulty
    Attempts           \* SCREEN_ON_WAKE_ATTEMPTS

ASSUME PowerAssumption ==
    /\ Service \notin Interfaces /\ Nobody \notin Interfaces
    /\ SessionAggressive \in BOOLEAN
    /\ Attempts \in Nat

VARIABLES
    component,   \* the part that runs
    power, screen, input, sc_machine, sc_suspends, system_marker, sc_marker, action, step, tries,
    blank_succeeded, held, deferring, phase, restore_pending, decision, used, abandoned

rail_vars == vars
sc_vars   == <<power, screen, input, sc_machine, sc_suspends, system_marker, sc_marker, action,
               step, tries, blank_succeeded, held, deferring>>
sm_vars   == <<phase, restore_pending, decision, used, abandoned>>
all_vars  == <<component, rail_vars, sc_vars, sm_vars>>

\* Nothing fails, and each suspend is dealt with before the next.
Orderly == INSTANCE SuspendRail WITH
               Hooks <- Interfaces, Aggressive <- FALSE, MayFail <- FALSE, MayHurry <- FALSE,
               MayReconfigure <- FALSE
Solo == INSTANCE Screen WITH
            Monitor <- "monitor", Commands <- {}, Aggressive <- SessionAggressive,
            MayFail <- TRUE, FilesMayFail <- FALSE, MayRemote <- TRUE,
            machine <- sc_machine, suspends <- sc_suspends, marker <- sc_marker
Faulty == INSTANCE SessionMonitor WITH
              Monitor <- "monitor", MayFail <- TRUE, FilesMayFail <- TRUE, MayRemote <- TRUE,
              Restarts <- "any time",
              machine <- sc_machine, suspends <- sc_suspends, marker <- sc_marker
Restores == INSTANCE SessionMonitor WITH
                Monitor <- "monitor", Aggressive <- SessionAggressive, MayFail <- FALSE,
                FilesMayFail <- FALSE, MayRemote <- TRUE, MaxSuspends <- 0,
                Restarts <- "between actions",
                machine <- sc_machine, suspends <- sc_suspends, marker <- sc_marker

\* A part that does not run stays in its initial state.
PowerInit ==
    /\ component \in {"rail", "orderly", "screen", "monitor", "restores"}
    /\ IF component = "orderly" THEN Orderly!Init ELSE Init
    /\ Faulty!Init

PowerNext ==
    /\ UNCHANGED component
    /\ \/ component = "rail" /\ Next /\ UNCHANGED <<sc_vars, sm_vars>>
       \/ component = "orderly" /\ Orderly!Next /\ UNCHANGED <<sc_vars, sm_vars>>
       \/ component = "screen" /\ Solo!Next /\ UNCHANGED <<rail_vars, sm_vars>>
       \/ component = "monitor" /\ Faulty!Next /\ UNCHANGED rail_vars
       \/ component = "restores" /\ Restores!Next /\ UNCHANGED rail_vars

\* The fairness of the part that runs (Orderly!Fairness and Restores!FairSpec).
\* Only one of them runs, so that fairness of a disjunction is fairness of each disjunct.
Alone(part, A) == component = part /\ A /\ UNCHANGED <<component, sc_vars, sm_vars>>
Awake(A)       == component = "restores" /\ A /\ UNCHANGED <<component, rail_vars>>
PowerFairness ==
    /\ WF_all_vars(Alone("orderly", Orderly!Rail(Service)) \/ Awake(Restores!Act))
    /\ WF_all_vars(Alone("orderly", Orderly!Lifecycle) \/ Awake(Restores!CompleteBlank))
    /\ WF_all_vars(Alone("orderly", Orderly!TeardownNetwork) \/ Awake(Restores!SystemRestore))
    /\ WF_all_vars(Alone("orderly", Orderly!Sleep) \/ Awake(Restores!ObserveActivity))
    /\ WF_all_vars(Alone("orderly", Orderly!ConnectNetwork))
    /\ \A h \in Interfaces : /\ WF_all_vars(Alone("orderly", Orderly!Rail(h)))
                            /\ WF_all_vars(Alone("orderly", Orderly!Hook(h)))
                            /\ WF_all_vars(Alone("orderly", Orderly!StartHook(h)))

PowerSafety == PowerInit /\ [][PowerNext]_all_vars
PowerSpec   == PowerSafety /\ PowerFairness

-----------------------------------------------------------------------------
\* The properties of each part, in the behaviours where it runs; its module says
\* what they mean.  RailHasOneOwner and ConfirmedOffIsRemembered hold of the rail in
\* either setting.

\* SuspendRail left in peace: the network goes down after a decision was made
\* (run_nm_pre_down).
OrderlyTeardown == component = "orderly" => Orderly!TeardownAfterDecision

\* SuspendRail left in peace: a suspend always goes through.
SuspendGoesThrough == component = "orderly" => Orderly!SuspendIsNeverBlocked

\* SuspendRail left in peace: after the wake-up the cycle is settled.
WakeUpSettles == component = "orderly" => Orderly!ResumeSettles

\* Screen: what an action made dark is marked as ours (session/actions.rs).
DarknessIsRemembered == component = "screen" => Solo!DarknessIsRemembered

\* Screen: an action waits for the system's restore.
SessionDefersToSystem == component = "screen" => Solo!SessionDefersToSystem

\* SessionMonitor among crashes: a dark TV is known to be ours to restore.
DarkTvIsWatched == component = "monitor" => Faulty!DarkTvIsWatched

\* SessionMonitor among crashes: the timed power-off spares a TV in use.
LitTvInUseStaysOn ==
    [][component = "monitor"
       /\ step["monitor"] = "power_off" /\ action["monitor"] = "timed" /\ power # power'
       /\ step'["monitor"] # "power_off" => ~used]_all_vars

\* SessionMonitor left in peace: activity lights the TV.
ActivityLightsTheTv == component = "restores" => Restores!ActivityLightsTheTv
=============================================================================
