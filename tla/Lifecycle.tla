------------------------------ MODULE Lifecycle ------------------------------
(***************************************************************************)
(* The value the supervisor publishes through its watch channel            *)
(* (LifecycleState in supervisor.rs), the tests a WakeRequest makes        *)
(* against it, the classification of a reconciliation probe, and the       *)
(* transitions of SupervisorControl, each as a function from the current   *)
(* lifecycle to the one it publishes.                                      *)
(*                                                                         *)
(* phase_started_at and retry_at are left out of the record: the two       *)
(* tests that compare whole records compare them only where the phase and  *)
(* the launch generation already determine the publication (Conflict, an   *)
(* idle stop's Stopping and the first Reconciling are each published at    *)
(* most once per generation, which Supervisor!StaleNeverCurrent checks).   *)
(***************************************************************************)
EXTENDS Naturals

ServerPhase == {"Reconciling", "Stopped", "Starting", "Running",
                "Stopping", "Cooldown", "External", "Conflict"}

ReconciliationEvidence == {"None", "Inconclusive", "Positive"}

\* Option<FailureCategory>: NoFailure is Option::None.
NoFailure == "NoFailure"
FailureCategory == {"LaunchFailed", "StartupTimedOut",
                    "ExitedBeforeReady", "ExitedUnexpectedly"}

LifecycleState ==
    [phase             : ServerPhase,
     launch_generation : Nat,
     failure           : FailureCategory \cup {NoFailure},
     failure_streak    : Nat,
     evidence          : ReconciliationEvidence]

\* LifecycleState::reconciling, the value the channel is created with.
reconciling ==
    [phase |-> "Reconciling", launch_generation |-> 0, failure |-> NoFailure,
     failure_streak |-> 0, evidence |-> "None"]

\* What publish asserts of every value before it is sent.
invariant_holds(lc) ==
    CASE lc.phase = "Reconciling" -> TRUE
      [] lc.phase = "External"    -> lc.evidence = "Positive"
      [] lc.phase = "Conflict"    -> lc.evidence # "None"
      [] OTHER                    -> lc.evidence = "None"

(***************************************************************************)
(* WakeRequest: what a queued request, which carries the lifecycle its     *)
(* client sampled, may ask of the lifecycle that is current when it is     *)
(* received.                                                               *)
(***************************************************************************)

\* Seeded faults of can_start: the generation is not compared; requests
\* queued before the stop was over are not accepted.
can_start_any_generation(observed, current) ==
    /\ current.phase = "Stopped"
    /\ observed.phase \in {"Reconciling", "Stopped", "Stopping", "Cooldown"}

can_start_if_seen_stopped(observed, current) ==
    /\ current.phase = "Stopped"
    /\ observed.launch_generation = current.launch_generation
    /\ observed.phase \in {"Reconciling", "Stopped"}

can_start(observed, current) ==
    /\ current.phase = "Stopped"
    /\ observed.launch_generation = current.launch_generation
    /\ observed.phase \in {"Reconciling", "Stopped", "Stopping", "Cooldown"}

requests_conflict_reconciliation(observed, current) ==
    /\ current.phase = "Conflict"
    /\ observed = current

requests_restart(observed, current) ==
    /\ current.phase = "Stopping"
    /\ current.failure = NoFailure
    /\ observed = current

requests_retry(observed, current) ==
    /\ current.failure # NoFailure
    /\ observed.failure = current.failure
    /\ observed.failure_streak = current.failure_streak
    /\ observed.launch_generation = current.launch_generation
    /\ observed.phase \in {"Stopping", "Cooldown"}
    /\ current.phase \in {"Stopping", "Cooldown"}

(***************************************************************************)
(* Reconciliation probes.  A probe of a server without RCON has            *)
(* rcon = "NotConfigured".                                                 *)
(***************************************************************************)

RconProbe    == {"Authenticated", "AcceptedFailure", "Refused", "Inconclusive"}
BackendProbe == {"Connected", "Refused", "Inconclusive"}

ProbeResult(rconConfigured) ==
    [rcon    : IF rconConfigured THEN RconProbe ELSE {"NotConfigured"},
     backend : BackendProbe]

classification(result) ==
    IF /\ result.rcon \in {"Authenticated", "NotConfigured"}
       /\ result.backend = "Connected"
    THEN "FullyReady"
    ELSE IF \/ result.rcon \in {"Authenticated", "AcceptedFailure"}
            \/ result.backend = "Connected"
    THEN "Positive"
    ELSE IF /\ result.rcon \in {"Refused", "NotConfigured"}
            /\ result.backend = "Refused"
    THEN "Clean"
    ELSE "Inconclusive"

\* failure_backoff, in units of five seconds: 5, 10, 20, 40, 60, 60, ... s.
failure_backoff(streak) ==
    CASE streak = 1 -> 1
      [] streak = 2 -> 2
      [] streak = 3 -> 4
      [] streak = 4 -> 8
      [] OTHER      -> 12

(***************************************************************************)
(* SupervisorControl's transitions.  Each operator is the record that the  *)
(* method of the same name publishes; where the method's assert! restricts *)
(* the current lifecycle, Supervisor!AssertionsHold states the assertion.     *)
(***************************************************************************)

\* Seeded faults: a launch that keeps the generation, an idle stop that keeps
\* the failure.
record_launch_in_same_generation(lc) ==
    [lc EXCEPT !.phase = "Starting", !.evidence = "None"]

begin_idle_stop_keeping_failure(lc) == [lc EXCEPT !.phase = "Stopping"]

record_launch_success(lc) ==
    [lc EXCEPT !.phase = "Starting",
               !.launch_generation = @ + 1,
               !.evidence = "None"]

record_launch_failure(lc) ==
    [lc EXCEPT !.phase = "Cooldown",
               !.launch_generation = @ + 1,
               !.failure = "LaunchFailed",
               !.failure_streak = @ + 1,
               !.evidence = "None"]

record_reaped_failure(lc, category) ==
    [lc EXCEPT !.phase = "Cooldown",
               !.failure = category,
               !.failure_streak = @ + 1]

begin_failure_cleanup(lc, category) ==
    [lc EXCEPT !.phase = "Stopping",
               !.failure = category,
               !.failure_streak = @ + 1]

finish_failure_cleanup(lc) == [lc EXCEPT !.phase = "Cooldown"]

reset_failure_streak(lc) ==
    [lc EXCEPT !.failure = NoFailure, !.failure_streak = 0]

publish_running(lc) == [lc EXCEPT !.phase = "Running"]

begin_idle_stop(lc) ==
    [lc EXCEPT !.phase = "Stopping",
               !.failure = NoFailure,
               !.failure_streak = 0]

set_phase(lc, phase) == [lc EXCEPT !.phase = phase]

begin_reconciliation(lc) == [lc EXCEPT !.phase = "Reconciling"]

publish_stopped_after_clean_reconciliation(lc) ==
    [lc EXCEPT !.phase = "Stopped", !.evidence = "None"]

publish_external(lc, consumeDemand) ==
    [lc EXCEPT !.phase = "External",
               !.launch_generation = IF consumeDemand THEN @ + 1 ELSE @,
               !.evidence = "Positive"]

publish_conflict(lc, evidence, consumeDemand) ==
    [lc EXCEPT !.phase = "Conflict",
               !.launch_generation = IF consumeDemand THEN @ + 1 ELSE @,
               !.evidence = evidence]
=============================================================================
