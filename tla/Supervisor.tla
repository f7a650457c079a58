----------------------------- MODULE Supervisor -----------------------------
(***************************************************************************)
(* supervisor::run and the functions it awaits: the task that owns one     *)
(* backend server.  It reconciles with what is already listening, waits    *)
(* for a player's demand, launches the process, waits for readiness,       *)
(* monitors it, stops it when idle, backs off after failures and cleans up *)
(* on shutdown.  Connection handlers are the other actors: a handler       *)
(* samples the published lifecycle, reads the rest of the login, and only  *)
(* then tries to queue a wake request carrying what it sampled.            *)
(*                                                                         *)
(* A step of the supervisor is the code between two awaits.  pc names the  *)
(* await it is parked at:                                                  *)
(*   startup    wait_for_reconciliation of reconcile_startup               *)
(*   idle       wait_for_reconciliation_demand                             *)
(*   demand     launch_pending at the top of run's loop                    *)
(*   gate       wait_for_reconciliation of reconcile_final_gate            *)
(*   external, external_probe     the two awaits of                        *)
(*              monitor_external_server                                    *)
(*   readiness  wait_for_readiness                                         *)
(*   running    monitor_running_server                                     *)
(*   idle_stop  stop_committed_idle_server                                 *)
(*   failed_stop    finish_failed_cleanup                                  *)
(*   shutdown_stop  stop_and_reap of stop_for_shutdown, or the cleanup     *)
(*              awaited after a shutdown seen during another stop          *)
(*   error_stop stop_and_reap of reap_after_wait_error                     *)
(*   cooldown   wait_for_cooldown                                          *)
(*   done       run has returned                                           *)
(*                                                                         *)
(* Every select is biased: shutdown first, so the other branches require   *)
(* ~shutdown, and the wake channel before timers, the process and          *)
(* cleanups, which therefore require WakePolled.  (A request that arrives  *)
(* after the channel was polled is one that arrives after the step.)  Only *)
(* reconciliation polls its probe before the channel.                      *)
(***************************************************************************)
EXTENDS Lifecycle, FiniteSets

CONSTANTS
    Clients,         \* concurrent login connections
    MaxLogins,       \* bound: logins that sample the lifecycle in a behaviour
    RconConfigured,  \* config.rcon.is_some()
    NoObservation    \* an empty slot, a connection with no login in progress

ASSUME ClientsAssumption == IsFiniteSet(Clients)
ASSUME MaxLoginsAssumption == MaxLogins \in Nat
ASSUME RconConfiguredAssumption == RconConfigured \in BOOLEAN
ASSUME NoObservationAssumption == NoObservation \notin LifecycleState

VARIABLES
    lc,          \* the lifecycle in the watch channel
    pc,          \* the await the supervisor is parked at
    wake,        \* the wake channel's one slot (PENDING_WAKE_CAPACITY)
    latch,       \* startup_demand, restart or retry_pending, whichever is live
    cooldown,    \* time left until retry_at, in units of five seconds
    child,       \* the owned process
    shutdown,    \* finish_shutdown has signalled the supervisor
    result,      \* what run returned
    observed,    \* what each connection sampled and has not yet sent
    logins,      \* logins sampled so far
    \* history variables, read by no guard of the code
    asked,       \* a login sampled the current launch generation
    seenPositive,\* some probe found a backend that is not ours
    sinceGone    \* time spent in cooldown since the last process was gone

envVars  == <<observed, logins, shutdown>>
histVars == <<asked, seenPositive, sinceGone>>
vars == <<lc, pc, wake, latch, cooldown, child, shutdown, result,
          observed, logins, asked, seenPositive, sinceGone>>

\* The phases in which a Login handler sends a wake request.
WakePhases == {"Reconciling", "Stopped", "Stopping", "Cooldown", "Conflict"}

PC == {"startup", "idle", "demand", "gate", "external", "external_probe",
       "readiness", "running", "idle_stop", "failed_stop", "shutdown_stop",
       "error_stop", "cooldown", "done"}

\* The awaits during which an OwnedProcess is held.
OwningPC == {"readiness", "running", "idle_stop", "failed_stop",
             "shutdown_stop", "error_stop"}

Probes == ProbeResult(RconConfigured)

\* The wake branch of the current select is not ready (or shutdown hides it).
WakePolled == wake = NoObservation \/ shutdown

Init ==
    /\ lc = reconciling
    /\ pc = "startup"
    /\ wake = NoObservation
    /\ latch = FALSE
    /\ cooldown = 0
    /\ child = "none"
    /\ shutdown = FALSE
    /\ result = "pending"
    /\ observed = [c \in Clients |-> NoObservation]
    /\ logins = 0
    /\ asked = FALSE
    /\ seenPositive = FALSE
    /\ sinceGone = 0

-----------------------------------------------------------------------------
(***************************************************************************)
(* The supervisor's environment: connection handlers, the runtime that     *)
(* shuts it down, and the owned process.                                   *)
(***************************************************************************)

\* handle_client: the lifecycle is sampled once the handshake is read.  In
\* the phases outside WakePhases the handler proxies or sends the startup
\* message and never reaches the wake channel.
SampleLifecycle(c) ==
    /\ observed[c] = NoObservation
    /\ logins < MaxLogins
    /\ ~shutdown /\ pc # "done"
    /\ lc.phase \in WakePhases
    /\ observed' = [observed EXCEPT ![c] = lc]
    /\ logins' = logins + 1
    /\ asked' = TRUE
    /\ UNCHANGED <<lc, pc, wake, latch, cooldown, child, shutdown, result,
                   seenPositive, sinceGone>>

\* handle_sampled_connection: read_sleeping_request fails, times out or
\* turns out not to be a supported login, and nothing is sent.
AbandonLogin(c) ==
    /\ observed[c] # NoObservation
    /\ observed' = [observed EXCEPT ![c] = NoObservation]
    /\ UNCHANGED <<lc, pc, wake, latch, cooldown, child, shutdown, result,
                   logins, histVars>>

\* handle_sampled_connection: try_send into the one-slot channel.  A full
\* slot drops the request; the receiver of a finished supervisor is closed.
TrySend(c) ==
    /\ observed[c] # NoObservation
    /\ observed' = [observed EXCEPT ![c] = NoObservation]
    /\ wake' = IF wake = NoObservation /\ pc # "done" THEN observed[c] ELSE wake
    /\ UNCHANGED <<lc, pc, latch, cooldown, child, shutdown, result,
                   logins, histVars>>

\* run_until leaves its loop, aborts and joins every connection task, and
\* only then finish_shutdown signals the supervisor.
RequestShutdown ==
    /\ ~shutdown /\ pc # "done"
    /\ shutdown' = TRUE
    /\ observed' = [c \in Clients |-> NoObservation]
    /\ UNCHANGED <<lc, pc, wake, latch, cooldown, child, result,
                   logins, histVars>>

\* The owned process may exit at any time, asked to or not.
ChildExits ==
    /\ child = "alive"
    /\ child' = "exited"
    /\ UNCHANGED <<lc, pc, wake, latch, cooldown, result, envVars, histVars>>

-----------------------------------------------------------------------------
(***************************************************************************)
(* Reconciliation.                                                         *)
(***************************************************************************)

\* What a step that may bump the generation does to the history variables.
Observe(class) ==
    seenPositive' = (seenPositive \/ class \in {"FullyReady", "Positive"})

NewGeneration(next) ==
    asked' = (asked /\ next.launch_generation = lc.launch_generation)

\* reconcile_startup: a login that observed the very publication that is
\* still current is latched as the startup demand.
StartupRecvWake ==
    /\ pc = "startup" /\ ~shutdown /\ wake # NoObservation
    /\ wake' = NoObservation
    /\ latch' = (latch \/ wake = lc)
    /\ UNCHANGED <<lc, pc, cooldown, child, result, envVars, histVars>>

\* reconcile_startup once the probe completes.
ReconcileStartup(probe) ==
    LET class == classification(probe)
        next == CASE class = "Clean" ->
                       publish_stopped_after_clean_reconciliation(lc)
                  [] class = "FullyReady" -> publish_external(lc, latch)
                  [] OTHER -> publish_conflict(lc, class, latch)
    IN /\ pc = "startup" /\ ~shutdown
       /\ lc' = next
       /\ pc' = CASE class = "Clean" -> IF latch THEN "demand" ELSE "idle"
                  [] class = "FullyReady" -> "external"
                  [] OTHER -> "idle"
       /\ latch' = FALSE
       /\ Observe(class)
       /\ NewGeneration(next)
       /\ UNCHANGED <<wake, cooldown, child, result, envVars, sinceGone>>

\* wait_for_reconciliation_demand.
RecvDemand ==
    /\ pc = "idle" /\ ~shutdown /\ wake # NoObservation
    /\ wake' = NoObservation
    /\ pc' = IF \/ can_start(wake, lc)
                \/ requests_conflict_reconciliation(wake, lc)
             THEN "demand" ELSE "idle"
    /\ UNCHANGED <<lc, latch, cooldown, child, result, envVars, histVars>>

\* run, at the top of its loop with a launch pending: begin the final gate.
BeginFinalGate ==
    /\ pc = "demand" /\ ~shutdown
    /\ lc' = begin_reconciliation(lc)
    /\ pc' = "gate"
    /\ UNCHANGED <<wake, latch, cooldown, child, result, envVars, histVars>>

\* reconcile_final_gate when it blocks the launch.  Evidence that was
\* already Positive stays so whatever this probe says.
FinalGateBlocks(probe) ==
    LET class == classification(probe)
        sticky == lc.evidence = "Positive"
        next == IF class = "FullyReady"
                THEN publish_external(lc, TRUE)
                ELSE publish_conflict(lc,
                        IF sticky THEN "Positive" ELSE class, TRUE)
    IN /\ pc = "gate" /\ ~shutdown
       /\ sticky \/ class # "Clean"
       /\ lc' = next
       /\ pc' = IF class = "FullyReady" THEN "external" ELSE "idle"
       /\ Observe(class)
       /\ NewGeneration(next)
       /\ UNCHANGED <<wake, latch, cooldown, child, result, envVars, sinceGone>>

\* The final gate lets the launch through.
FinalGateOpen(probe) ==
    /\ pc = "gate" /\ ~shutdown
    /\ lc.evidence # "Positive"
    /\ classification(probe) = "Clean"

\* process::launch succeeds.
Launch(probe) ==
    /\ FinalGateOpen(probe)
    /\ lc' = record_launch_success(lc)
    /\ pc' = "readiness"
    /\ child' = "alive"
    /\ NewGeneration(lc')
    /\ UNCHANGED <<wake, latch, cooldown, result, envVars, seenPositive,
                   sinceGone>>

\* process::launch fails.
LaunchFails(probe) ==
    /\ FinalGateOpen(probe)
    /\ lc' = record_launch_failure(lc)
    /\ cooldown' = failure_backoff(lc'.failure_streak)
    /\ pc' = "cooldown"
    /\ latch' = FALSE
    /\ sinceGone' = 0
    /\ NewGeneration(lc')
    /\ UNCHANGED <<wake, child, result, envVars, seenPositive>>

\* monitor_external_server: next_poll is due.
PollExternal ==
    /\ pc = "external" /\ ~shutdown /\ WakePolled
    /\ pc' = "external_probe"
    /\ UNCHANGED <<lc, wake, latch, cooldown, child, result, envVars, histVars>>

\* monitor_external_server: the poll's probe completes.
ReconcileExternal(probe) ==
    LET class == classification(probe) IN
    /\ pc = "external_probe" /\ ~shutdown
    /\ IF class = "FullyReady"
       THEN lc' = lc /\ pc' = "external"
       ELSE lc' = publish_conflict(lc, "Positive", FALSE) /\ pc' = "idle"
    /\ Observe(class)
    /\ UNCHANGED <<wake, latch, cooldown, child, result, envVars, asked,
                   sinceGone>>

\* Awaits that receive a wake request and drop it.
IgnoreWake ==
    /\ pc \in {"gate", "external", "external_probe", "readiness", "running"}
    /\ ~shutdown /\ wake # NoObservation
    /\ wake' = NoObservation
    /\ UNCHANGED <<lc, pc, latch, cooldown, child, result, envVars, histVars>>

-----------------------------------------------------------------------------
(***************************************************************************)
(* The owned cycle: readiness, monitoring, failures.                       *)
(***************************************************************************)

\* wait_for_readiness connects, and run_server_cycle publishes Running.  The
\* process may already have exited: child.wait() was polled before connect.
BecomeReady ==
    /\ pc = "readiness" /\ ~shutdown /\ WakePolled
    /\ lc' = publish_running(lc)
    /\ pc' = "running"
    /\ UNCHANGED <<wake, latch, cooldown, child, result, envVars, histVars>>

\* wait_for_readiness at its deadline with the process still alive.  The
\* deadline is tested before the select, so a pending shutdown is not seen.
StartupTimesOut ==
    /\ pc = "readiness" /\ child = "alive" /\ WakePolled
    /\ lc' = begin_failure_cleanup(lc, "StartupTimedOut")
    /\ pc' = "failed_stop"
    /\ latch' = FALSE
    /\ UNCHANGED <<wake, cooldown, child, result, envVars, histVars>>

\* reaped_failure: child.wait() or try_wait() returned a status.  Before
\* readiness the deadline's try_wait may see it despite a pending shutdown.
ChildReaped ==
    /\ child = "exited" /\ WakePolled
    /\ \/ pc = "readiness"
       \/ pc = "running" /\ ~shutdown
    /\ lc' = record_reaped_failure(lc, IF pc = "readiness"
                                       THEN "ExitedBeforeReady"
                                       ELSE "ExitedUnexpectedly")
    /\ cooldown' = failure_backoff(lc'.failure_streak)
    /\ pc' = "cooldown"
    /\ latch' = FALSE
    /\ child' = "none"
    /\ sinceGone' = 0
    /\ UNCHANGED <<wake, result, envVars, asked, seenPositive>>

\* reap_after_wait_error: waiting for the process returned an I/O error.
ProcessWaitFails ==
    /\ WakePolled
    /\ \/ pc = "readiness"
       \/ pc = "running" /\ ~shutdown
    /\ lc' = set_phase(lc, "Stopping")
    /\ pc' = "error_stop"
    /\ UNCHANGED <<wake, latch, cooldown, child, result, envVars, histVars>>

\* complete_stability_window, with stability_pending (a nonzero streak).
CompleteStabilityWindow ==
    /\ pc = "running" /\ ~shutdown /\ WakePolled /\ child = "alive"
    /\ lc.failure_streak > 0
    /\ lc' = reset_failure_streak(lc)
    /\ UNCHANGED <<pc, wake, latch, cooldown, child, result, envVars, histVars>>

\* attempt_expired_idle_stop commits.  When it may is BackendUse's subject.
CommitIdleStop ==
    /\ pc = "running" /\ ~shutdown /\ WakePolled /\ child = "alive"
    /\ lc' = begin_idle_stop(lc)
    /\ pc' = "idle_stop"
    /\ latch' = FALSE
    /\ UNCHANGED <<wake, cooldown, child, result, envVars, histVars>>

-----------------------------------------------------------------------------
(***************************************************************************)
(* Stopping, cooling down and shutting down.  stop_and_reap either reaps   *)
(* the process or returns an error.                                        *)
(***************************************************************************)

\* stop_committed_idle_server latches a restart.
RecvRestart ==
    /\ pc = "idle_stop" /\ ~shutdown /\ ~latch /\ wake # NoObservation
    /\ wake' = NoObservation
    /\ latch' = requests_restart(wake, lc)
    /\ UNCHANGED <<lc, pc, cooldown, child, result, envVars, histVars>>

\* stop_committed_idle_server after its cleanup drains the channel, then
\* run publishes Stopped and either restarts or goes idle.
FinishIdleStop ==
    LET restart == \/ latch
                   \/ wake # NoObservation /\ requests_restart(wake, lc)
    IN /\ pc = "idle_stop" /\ ~shutdown
       /\ wake' = NoObservation
       /\ lc' = set_phase(lc, "Stopped")
       /\ pc' = IF restart THEN "demand" ELSE "idle"
       /\ latch' = FALSE
       /\ child' = "none"
       /\ sinceGone' = 0
       /\ UNCHANGED <<cooldown, result, envVars, asked, seenPositive>>

\* finish_failed_cleanup latches a retry.
RecvRetryWhileStopping ==
    /\ pc = "failed_stop" /\ ~shutdown /\ ~latch /\ wake # NoObservation
    /\ wake' = NoObservation
    /\ latch' = requests_retry(wake, lc)
    /\ UNCHANGED <<lc, pc, cooldown, child, result, envVars, histVars>>

\* finish_failed_cleanup after its cleanup: the backoff starts now.
FinishFailedStop ==
    /\ pc = "failed_stop" /\ ~shutdown /\ (latch \/ WakePolled)
    /\ lc' = finish_failure_cleanup(lc)
    /\ cooldown' = failure_backoff(lc.failure_streak)
    /\ pc' = "cooldown"
    /\ child' = "none"
    /\ sinceGone' = 0
    /\ UNCHANGED <<wake, latch, result, envVars, asked, seenPositive>>

\* Seeded fault: a retry request ends the cooldown at once.
RecvRetryEndsCooldown ==
    /\ pc = "cooldown" /\ ~shutdown /\ wake # NoObservation
    /\ wake' = NoObservation
    /\ pc' = IF requests_retry(wake, lc) THEN "demand" ELSE "cooldown"
    /\ UNCHANGED <<lc, latch, cooldown, child, result, envVars, histVars>>

\* wait_for_cooldown latches a retry.
RecvRetryInCooldown ==
    /\ pc = "cooldown" /\ ~shutdown /\ wake # NoObservation
    /\ wake' = NoObservation
    /\ latch' = (latch \/ requests_retry(wake, lc))
    /\ UNCHANGED <<lc, pc, cooldown, child, result, envVars, histVars>>

\* Five seconds of the cooldown pass.
Tick ==
    /\ pc = "cooldown" /\ cooldown > 0 /\ WakePolled
    /\ cooldown' = cooldown - 1
    /\ sinceGone' = sinceGone + 1
    /\ UNCHANGED <<lc, pc, wake, latch, child, result, envVars, asked,
                   seenPositive>>

\* wait_for_cooldown at retry_at: launch if a retry is pending (the phase
\* stays Cooldown until the final gate), else Stopped.
CooldownExpires ==
    /\ pc = "cooldown" /\ ~shutdown /\ WakePolled /\ cooldown = 0
    /\ IF latch
       THEN lc' = lc /\ pc' = "demand"
       ELSE lc' = set_phase(lc, "Stopped") /\ pc' = "idle"
    /\ latch' = FALSE
    /\ UNCHANGED <<wake, cooldown, child, result, envVars, histVars>>

\* Seeded faults: run returns on shutdown without stopping its process; the
\* wait for demand does not look at shutdown.
ShutdownForgetsChild ==
    /\ shutdown /\ pc # "done"
    /\ pc' = "done"
    /\ result' = "ok"
    /\ UNCHANGED <<lc, wake, latch, cooldown, child, envVars, histVars>>

ShutdownUnseenWhenIdle ==
    /\ shutdown
    /\ pc \notin OwningPC \cup {"idle", "done"}
    /\ pc' = "done"
    /\ result' = "ok"
    /\ UNCHANGED <<lc, wake, latch, cooldown, child, envVars, histVars>>

\* Shutdown seen where no process is owned: run returns.  wait_for_cooldown
\* publishes Stopped first, the others leave the phase as it is.
ShutdownWithoutChild ==
    /\ shutdown
    /\ pc \notin OwningPC \cup {"done"}
    /\ lc' = IF pc = "cooldown" THEN set_phase(lc, "Stopped") ELSE lc
    /\ pc' = "done"
    /\ result' = "ok"
    /\ UNCHANGED <<wake, latch, cooldown, child, envVars, histVars>>

\* Shutdown seen while a process is owned: stop_for_shutdown, or the running
\* cleanup is awaited to its end.
ShutdownWithChild ==
    /\ shutdown
    /\ pc \in {"readiness", "running", "idle_stop", "failed_stop"}
    /\ lc' = IF pc \in {"readiness", "running"}
             THEN set_phase(lc, "Stopping") ELSE lc
    /\ pc' = "shutdown_stop"
    /\ UNCHANGED <<wake, latch, cooldown, child, result, envVars, histVars>>

\* The cleanup of a shutdown or of a wait error ends, and run returns.
FinishLastStop ==
    /\ pc \in {"shutdown_stop", "error_stop"}
    /\ lc' = set_phase(lc, "Stopped")
    /\ result' = IF pc = "error_stop" THEN "error" ELSE "ok"
    /\ pc' = "done"
    /\ child' = "none"
    /\ sinceGone' = 0
    /\ UNCHANGED <<wake, latch, cooldown, envVars, asked, seenPositive>>

\* stop_and_reap returns an error: run returns it with the phase unchanged,
\* and dropping the OwnedProcess (kill_on_drop) is all that is left.
StopFails ==
    /\ pc \in {"idle_stop", "failed_stop", "shutdown_stop", "error_stop"}
    /\ pc' = "done"
    /\ result' = "error"
    /\ child' \in {"none", "dropped"}
    /\ UNCHANGED <<lc, wake, latch, cooldown, envVars, histVars>>

\* The supervisor has returned and nothing is left to happen.
Terminated ==
    /\ pc = "done"
    /\ UNCHANGED vars

-----------------------------------------------------------------------------
Environment ==
    \/ \E c \in Clients : SampleLifecycle(c) \/ TrySend(c) \/ AbandonLogin(c)
    \/ RequestShutdown
    \/ ChildExits

RecvWake ==
    \/ StartupRecvWake \/ RecvDemand \/ IgnoreWake
    \/ RecvRestart \/ RecvRetryWhileStopping \/ RecvRetryInCooldown

\* Steps that some timeout, probe or cleanup of the code is bound to bring.
Progress ==
    \/ \E probe \in Probes :
          \/ ReconcileStartup(probe) \/ FinalGateBlocks(probe)
          \/ Launch(probe) \/ LaunchFails(probe) \/ ReconcileExternal(probe)
    \/ BeginFinalGate \/ PollExternal
    \/ BecomeReady \/ StartupTimesOut \/ ChildReaped
    \/ FinishIdleStop \/ FinishFailedStop \/ CooldownExpires \/ Tick
    \/ ShutdownWithoutChild \/ ShutdownWithChild \/ FinishLastStop \/ StopFails

Next ==
    \/ Environment
    \/ RecvWake
    \/ Progress
    \/ ProcessWaitFails \/ CompleteStabilityWindow \/ CommitIdleStop
    \/ Terminated

Spec == Init /\ [][Next]_vars

\* Every probe, readiness wait, cleanup and cooldown of the code ends by a
\* timeout, and the biased selects poll the wake channel before timers.
\* Clients, the process and the choice to stop when idle owe nothing.
Fairness == WF_vars(RecvWake) /\ WF_vars(Progress)

FairSpec == Spec /\ Fairness
-----------------------------------------------------------------------------
(***************************************************************************)
(* Properties.                                                             *)
(***************************************************************************)

TypeOK ==
    /\ lc \in LifecycleState
    /\ pc \in PC
    /\ wake \in LifecycleState \cup {NoObservation}
    /\ latch \in BOOLEAN
    /\ cooldown \in Nat
    /\ child \in {"none", "alive", "exited", "dropped"}
    /\ shutdown \in BOOLEAN
    /\ result \in {"pending", "ok", "error"}
    /\ observed \in [Clients -> LifecycleState \cup {NoObservation}]
    /\ logins \in Nat
    /\ asked \in BOOLEAN
    /\ seenPositive \in BOOLEAN
    /\ sinceGone \in Nat

\* No assert! of SupervisorControl, stop_committed_idle_server,
\* failure_backoff or log_current_failure_cooldown can fail: wherever run is
\* parked, the published lifecycle is one the next transition accepts.
AssertionsHold ==
    /\ invariant_holds(lc)
    /\ pc \in {"startup", "gate"} => lc.phase = "Reconciling"
    /\ pc = "idle" => lc.phase \in {"Stopped", "Conflict"}
    /\ pc = "demand" => lc.phase \in {"Stopped", "Cooldown", "Conflict"}
    /\ pc \in {"external", "external_probe"} => lc.phase = "External"
    /\ pc = "readiness" => lc.phase = "Starting"
    /\ pc = "running" => lc.phase = "Running"
    /\ pc \in {"idle_stop", "failed_stop", "shutdown_stop", "error_stop"}
          => lc.phase = "Stopping"
    /\ pc = "idle_stop" => lc.failure = NoFailure
    /\ pc \in {"failed_stop", "cooldown"} => lc.failure # NoFailure
    /\ pc = "cooldown" => lc.phase = "Cooldown"
    /\ lc.failure = NoFailure <=> lc.failure_streak = 0

\* The supervisor holds a process exactly while it is parked at an await of
\* the owned cycle, and it returns Ok only after that process was reaped and
\* only because it was told to shut down.
ProcessOwnership ==
    /\ child \in {"alive", "exited"} <=> pc \in OwningPC
    /\ child = "dropped" => result = "error"
    /\ result = "pending" <=> pc # "done"
    /\ pc = "shutdown_stop" \/ result = "ok" => shutdown

\* Once any probe has found signs of a backend that is not ours, no process
\* is owned again and the evidence is never forgotten, whatever later probes
\* and logins say.
StickyPositive ==
    seenPositive => lc.evidence = "Positive" /\ child = "none"

\* After a failure the next final gate, and so the next launch, is not begun
\* before the backoff of the current streak has passed in cooldown, however
\* many logins arrive meanwhile.
BackoffRespected ==
    pc \in {"demand", "gate"} /\ lc.failure # NoFailure
        => sinceGone >= failure_backoff(lc.failure_streak)

\* A newly published lifecycle is never equal to an observation still held
\* by a connection or queued, so a stale request cannot pass the equality
\* tests of requests_restart and requests_conflict_reconciliation.
\* (Reconciling is excepted: outside startup its requests are dropped.)
StaleNeverCurrent ==
    [][lc' # lc /\ lc'.phase # "Reconciling"
          => /\ wake # lc'
             /\ \A c \in Clients : observed[c] # lc']_vars

\* The abstract server this supervisor implements.
OwnedServer ==
    IF lc.evidence = "Positive" THEN "foreign"
    ELSE IF child \in {"alive", "exited"} THEN "up"
    ELSE "down"

Nap == INSTANCE NapServer WITH server <- OwnedServer, asked <- asked

\* The supervisor implements NapServer: launches only on a demand that some
\* login made since the last attempt (a stale request in the one-slot
\* channel or in a slow connection never causes one), one process at a time,
\* and none after foreign evidence.
ImplementsNapServer == Nap!Spec

\* Once the runtime signals shutdown, run returns from every await.
ShutdownCompletes == shutdown ~> pc = "done"

QueuedFor(g, phases) ==
    /\ wake # NoObservation
    /\ wake.launch_generation = g
    /\ wake.phase \in phases
    /\ lc.launch_generation = g

\* A queued request of the current generation is never lost: whichever
\* await receives it, before, during or after a stop or a cooldown, the
\* generation moves on (a launch attempt or a blocked gate) unless run ends.
\* A request that observed the first Reconciling is also answered by the
\* startup probe's own verdict.
DemandServed ==
    \A g \in 0..MaxLogins :
        /\ QueuedFor(g, {"Stopped", "Stopping", "Cooldown", "Conflict"})
              ~> (lc.launch_generation > g \/ pc = "done")
        /\ QueuedFor(g, {"Reconciling"})
              ~> \/ lc.launch_generation > g \/ pc = "done"
                 \/ lc.phase \in {"External", "Conflict"}

\* README: "A Login or supported Transfer connection wakes a stopped backend".
\* A login that still sees the current Stopped state when it is refused for a
\* full slot finds there a request that will be served, or a launch that is
\* already decided.  The code does not guarantee it: the slot may hold a
\* request of an earlier generation, which the supervisor will discard.
LoginWakesStoppedBackend ==
    [][\A c \in Clients :
          /\ TrySend(c)
          /\ observed[c] = lc /\ lc.phase = "Stopped"
          /\ wake # NoObservation /\ pc # "done"
          => pc = "demand" \/ can_start(wake, lc)]_vars
=============================================================================
