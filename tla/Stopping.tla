------------------------------ MODULE Stopping ------------------------------
(***************************************************************************)
(* How an owned server is stopped, and in what time: stop_and_reap         *)
(* (supervisor.rs), process::terminate (process.rs), and the runtime that  *)
(* waits for the supervisor under a watchdog (runtime.rs).                 *)
(*                                                                         *)
(* sup names the await at which the supervisor is parked:                  *)
(*   starting   wait_for_readiness                                         *)
(*   monitor    the select of advance_running_monitor                      *)
(*   poll       poll_player_presence, run by a branch of that select       *)
(*   rcon, console, grace, reap   the timed waits of stop_and_reap         *)
(*   terminate, direct   terminate and its fallback, up to their awaits    *)
(*   killing    child.kill().await in the fallback, which has no timeout   *)
(*   idle       no process left, waiting for a login or shutdown           *)
(*   done, failed   run has returned Ok or Err; aborted by the watchdog    *)
(*                                                                         *)
(* Time is counted in ticks.  timer is what is left of the timeout of the  *)
(* current await, watch of the watchdog's.                                 *)
(***************************************************************************)
EXTENDS Naturals

CONSTANTS
    CommandTimeout,   \* command_timeout
    ShutdownTimeout,  \* shutdown_timeout
    Margin,           \* SUPERVISOR_SHUTDOWN_MARGIN, 10 s
    ForcedReaping,    \* stop_and_reap's 5 s for a terminated process
    UseRcon,          \* config.rcon is Some
    ForeignServers    \* somebody else may start a server on the same ports

ASSUME BudgetAssumption ==
    /\ CommandTimeout \in Nat \ {0} /\ ShutdownTimeout \in Nat \ {0}
    /\ Margin \in Nat /\ ForcedReaping \in Nat /\ ForcedReaping <= Margin
ASSUME SwitchAssumption == UseRcon \in BOOLEAN /\ ForeignServers \in BOOLEAN

VARIABLES
    sup,      \* where the supervisor is
    timer,    \* what is left of the timeout of its await
    why,      \* what the stop in progress is for
    errors,   \* the error values stop_and_reap holds
    child,    \* the launched process: running, killed but not dead, dead, reaped
    tree,     \* its process group has other living members
    port,     \* who listens on the RCON port: that group, or a foreign server
    foreign,  \* a server that somebody else started
    runtime,  \* the runtime: serving, in finish_shutdown, or its result
    watch,    \* what is left of the watchdog
    \* history variables
    elapsed,  \* ticks spent in timed waits of stop_and_reap
    owed,     \* what is left of the time promised for a graceful exit
    forced    \* terminate tried to kill the process group

procVars == <<child, tree, port, foreign>>
vars == <<sup, timer, why, errors, child, tree, port, foreign, runtime, watch,
          elapsed, owed, forced>>

\* Seeded fault: the watchdog does not provide for the delivery of the stop.
WaitLimitWithoutCommand == ShutdownTimeout + Margin

\* supervisor_shutdown_wait_limit
WaitLimit == CommandTimeout + ShutdownTimeout + Margin

Timed == {"poll", "rcon", "console", "grace", "reap"}
InStop == {"rcon", "console", "grace", "terminate", "direct", "killing",
           "reap"}
Over == {"done", "failed", "aborted"}

\* launch has spawned the process as the leader of a process group of its own.
Init ==
    /\ sup = "starting" /\ timer = 0 /\ why = "none" /\ errors = {}
    /\ child = "running" /\ tree \in BOOLEAN
    /\ port = "free" /\ foreign = "none"
    /\ runtime = "serving" /\ watch = 0
    /\ elapsed = 0 /\ owed = 0 /\ forced = FALSE

-----------------------------------------------------------------------------
(***************************************************************************)
(* The processes.                                                          *)
(***************************************************************************)

Alive == child \in {"running", "killed"}

\* A member of the group ends; the listener may have been another's.
Release(others) ==
    \/ port' = IF port = "own" THEN "free" ELSE port
    \/ others /\ UNCHANGED port

\* The process ends, by itself or because it was killed.
ChildExits ==
    /\ Alive
    /\ child' = "dead"
    /\ Release(tree)
    /\ UNCHANGED <<sup, timer, why, errors, tree, foreign, runtime, watch,
                   elapsed, owed, forced>>

TreeExits ==
    /\ tree /\ tree' = FALSE
    /\ Release(Alive)
    /\ UNCHANGED <<sup, timer, why, errors, child, foreign, runtime, watch,
                   elapsed, owed, forced>>

\* The launched server opens its RCON port.
ServerBinds ==
    /\ child = "running" \/ tree
    /\ port = "free" /\ port' = "own"
    /\ UNCHANGED <<sup, timer, why, errors, child, tree, foreign, runtime,
                   watch, elapsed, owed, forced>>

\* Somebody starts another server of the same configuration.
ForeignBinds ==
    /\ ForeignServers /\ foreign = "none" /\ port = "free"
    /\ foreign' = "running" /\ port' = "foreign"
    /\ UNCHANGED <<sup, timer, why, errors, child, tree, runtime, watch,
                   elapsed, owed, forced>>

\* A SIGKILL for the direct child; kill_on_drop sends it when the process is
\* dropped unreaped.
Kill == child' = IF child = "running" THEN "killed" ELSE child
DropChild == Kill

\* wait and try_wait find the dead child and reap it.
Reap == child = "dead" /\ child' = "reaped"
Reaped == child = "reaped" /\ child' = child

-----------------------------------------------------------------------------
(***************************************************************************)
(* The supervisor before the stop.                                         *)
(***************************************************************************)

\* stop_and_reap begins; command_deadline starts to run.
BeginStop(reason) ==
    /\ why' = reason
    /\ timer' = CommandTimeout
    /\ sup' = IF UseRcon THEN "rcon" ELSE "console"
    /\ UNCHANGED <<errors, procVars, runtime, watch, elapsed, owed, forced>>

\* stop_for_shutdown: the selects are biased towards the shutdown channel.
SeeShutdown ==
    /\ runtime = "waiting" /\ sup \in {"starting", "monitor"}
    /\ BeginStop("shutdown")

\* run returns from an await at which no process is owned.
SeeShutdownIdle ==
    /\ runtime = "waiting" /\ sup = "idle"
    /\ sup' = "done"
    /\ UNCHANGED <<timer, why, errors, procVars, runtime, watch, elapsed,
                   owed, forced>>

Ready ==
    /\ sup = "starting" /\ runtime # "waiting"
    /\ UseRcon => port # "free"
    /\ sup' = "monitor"
    /\ UNCHANGED <<timer, why, errors, procVars, runtime, watch, elapsed,
                   owed, forced>>

\* wait_for_readiness tests its deadline, and then the process, before the
\* select.
StartupTimesOut ==
    /\ sup = "starting" /\ child # "dead"
    /\ BeginStop("failure")

StopIdle ==
    /\ sup = "monitor" /\ runtime # "waiting"
    /\ BeginStop("idle")

\* child.wait() returns an error: reap_after_wait_error.
WaitFails ==
    /\ sup \in {"starting", "monitor"} /\ runtime # "waiting"
    /\ BeginStop("wait_error")

\* child.wait() returns the exit status: reaped_failure.
ExitSeen ==
    /\ sup = "starting" \/ (sup = "monitor" /\ runtime # "waiting")
    /\ Reap
    /\ sup' = "idle"
    /\ UNCHANGED <<timer, why, errors, tree, port, foreign, runtime, watch,
                   elapsed, owed, forced>>

\* A poll runs in the body of a branch: nothing interrupts it.
PollStarts ==
    /\ sup = "monitor" /\ runtime # "waiting" /\ UseRcon
    /\ sup' = "poll" /\ timer' = CommandTimeout
    /\ UNCHANGED <<why, errors, procVars, runtime, watch, elapsed, owed,
                   forced>>

PollEnds ==
    /\ sup = "poll"
    /\ sup' = "monitor" /\ timer' = 0
    /\ UNCHANGED <<why, errors, procVars, runtime, watch, elapsed, owed,
                   forced>>

-----------------------------------------------------------------------------
(***************************************************************************)
(* stop_and_reap.                                                          *)
(***************************************************************************)

\* Seeded fault: the graceful wait keeps the deadline of the command.
DeliveredOneDeadline ==
    /\ sup' = "grace" /\ timer' = timer /\ owed' = ShutdownTimeout
    /\ UNCHANGED <<why, errors, runtime, watch, elapsed, forced>>

\* The stop command was handed over: the process has shutdown_timeout to exit.
Delivered ==
    /\ sup' = "grace" /\ timer' = ShutdownTimeout /\ owed' = ShutdownTimeout
    /\ UNCHANGED <<why, errors, runtime, watch, elapsed, forced>>

Goto(stage, left) ==
    /\ sup' = stage /\ timer' = left
    /\ UNCHANGED <<why, runtime, watch, elapsed, owed>>

\* Whoever listens on the port, authenticates and takes the stop command.
RconStop ==
    /\ sup = "rcon" /\ port # "free"
    /\ Delivered
    /\ IF port = "foreign"
         THEN foreign' = "stopped" /\ port' = "free"
         ELSE UNCHANGED <<foreign, port>>
    /\ UNCHANGED <<child, tree>>

\* Seeded fault: the fallback gets a deadline of its own.
RconFailsNewDeadline ==
    /\ sup = "rcon"
    /\ Goto("console", CommandTimeout)
    /\ UNCHANGED <<errors, procVars, forced>>

\* An error, but not a timeout, falls back to the console, before the SAME
\* deadline.
RconFails ==
    /\ sup = "rcon"
    /\ Goto("console", timer)
    /\ UNCHANGED <<errors, procVars, forced>>

\* The pipe takes the command while somebody holds its other end.
ConsoleStop ==
    /\ sup = "console" /\ (Alive \/ tree)
    /\ Delivered
    /\ UNCHANGED procVars

\* The RCON stop times out, or the console refuses the command or does not
\* take it in time: no graceful wait.
NotDelivered ==
    /\ \/ sup = "rcon" /\ timer = 0
       \/ sup = "console"
    /\ Goto("terminate", 0)
    /\ UNCHANGED <<errors, procVars, forced>>

\* stop_and_reap returns; an error drops the process, and the supervisor's run
\* returns with it.  So does the error that led to reap_after_wait_error.
Return(failed) ==
    /\ sup' = IF failed \/ why = "wait_error" THEN "failed"
              ELSE IF runtime = "waiting" THEN "done" ELSE "idle"
    /\ timer' = 0
    /\ UNCHANGED <<why, errors, tree, port, foreign, runtime, watch, elapsed,
                   owed, forced>>

GraceEnds == sup = "grace" /\ (Reap \/ Reaped) /\ Return(FALSE)

\* wait_error is kept for the end.
GraceWaitFails ==
    /\ sup = "grace"
    /\ errors' = errors \cup {"wait"}
    /\ Goto("terminate", 0)
    /\ UNCHANGED <<procVars, forced>>

GraceTimesOut ==
    /\ sup = "grace" /\ timer = 0 /\ child \notin {"dead", "reaped"}
    /\ Goto("terminate", 0)
    /\ UNCHANGED <<errors, procVars, forced>>

\* terminate: the process cannot be queried, or has exited already.
TerminateEarly ==
    /\ sup = "terminate"
    /\ \/ errors' = errors \cup {"query"} /\ UNCHANGED child
       \/ (Reap \/ Reaped) /\ UNCHANGED errors
    /\ Goto("reap", ForcedReaping)
    /\ UNCHANGED <<tree, port, foreign, forced>>

\* killpg reaches every member of the group.
KillGroup ==
    /\ sup = "terminate" /\ child \notin {"dead", "reaped"}
    /\ Kill /\ tree' = FALSE /\ forced' = TRUE
    /\ Goto("reap", ForcedReaping)
    /\ UNCHANGED <<errors, port, foreign>>

\* Seeded fault: killing the direct child makes up for the group.
KillGroupFailsSilently ==
    /\ sup = "terminate" /\ child \notin {"dead", "reaped"}
    /\ forced' = TRUE
    /\ Goto("direct", 0)
    /\ UNCHANGED <<errors, procVars>>

\* killpg fails: terminate_direct_after_tree_failure, which always returns
\* the error it was given.
KillGroupFails ==
    /\ sup = "terminate" /\ child \notin {"dead", "reaped"}
    /\ errors' = errors \cup {"tree"} /\ forced' = TRUE
    /\ Goto("direct", 0)
    /\ UNCHANGED procVars

\* The direct child has exited, or cannot even be signalled.
DirectEarly ==
    /\ sup = "direct"
    /\ Reap \/ UNCHANGED child
    /\ Goto("reap", ForcedReaping)
    /\ UNCHANGED <<errors, tree, port, foreign, forced>>

DirectKill ==
    /\ sup = "direct"
    /\ Kill
    /\ Goto("killing", 0)
    /\ UNCHANGED <<errors, tree, port, foreign, forced>>

\* child.kill() returns once the child is reaped, or waiting for it fails.
DirectKilled ==
    /\ sup = "killing"
    /\ Reap \/ UNCHANGED child
    /\ Goto("reap", ForcedReaping)
    /\ UNCHANGED <<errors, tree, port, foreign, forced>>

\* child.wait() succeeds: the errors kept so far decide the result.
ReapEnds == sup = "reap" /\ (Reap \/ Reaped) /\ Return(errors # {})

\* child.wait() fails, or the process does not die in time.
ReapFails ==
    /\ sup = "reap"
    /\ DropChild
    /\ Return(TRUE)

-----------------------------------------------------------------------------
(***************************************************************************)
(* The runtime.                                                            *)
(***************************************************************************)

\* finish_shutdown sends on the oneshot channel and starts the watchdog.
Shutdown ==
    /\ runtime = "serving" /\ sup # "failed"
    /\ runtime' = "waiting" /\ watch' = WaitLimit
    /\ UNCHANGED <<sup, timer, why, errors, procVars, elapsed, owed, forced>>

\* The supervisor's task is joined, by finish_shutdown or by run_until.
Join ==
    /\ \/ runtime = "waiting" /\ sup = "done" /\ runtime' = "ok"
       \/ runtime \in {"serving", "waiting"} /\ sup = "failed"
          /\ runtime' = "error"
    /\ UNCHANGED <<sup, timer, why, errors, procVars, watch, elapsed, owed,
                   forced>>

\* Seeded fault: the runtime waits for the supervisor without a limit.
WatchdogMissing == FALSE /\ UNCHANGED vars

\* The watchdog: abort the supervisor's task, which drops the process.
Watchdog ==
    /\ runtime = "waiting" /\ watch = 0 /\ sup \notin Over
    /\ runtime' = "timedout" /\ sup' = "aborted"
    /\ DropChild
    /\ UNCHANGED <<timer, why, errors, tree, port, foreign, watch, elapsed,
                   owed, forced>>

-----------------------------------------------------------------------------

\* The executor and the timers are prompt: time does not pass over a step
\* that is due.
Due ==
    \/ sup \in Timed /\ timer = 0
    \/ sup \in {"terminate", "direct"}
    \/ sup \in {"grace", "reap", "killing"} /\ child \in {"dead", "reaped"}
    \/ runtime = "waiting" /\
          (watch = 0 \/ sup \in {"starting", "monitor", "idle"} \cup Over)
    \/ runtime = "serving" /\ sup = "failed"

Tick ==
    /\ ~Due /\ runtime \in {"serving", "waiting"}
    /\ timer' = IF sup \in Timed THEN timer - 1 ELSE timer
    /\ watch' = IF runtime = "waiting" THEN watch - 1 ELSE watch
    /\ elapsed' = IF sup \in Timed \ {"poll"} THEN elapsed + 1 ELSE elapsed
    /\ owed' = IF sup = "grace" /\ owed > 0 THEN owed - 1 ELSE owed
    /\ UNCHANGED <<sup, why, errors, procVars, runtime, forced>>

\* The runtime has returned.
Terminated == runtime \notin {"serving", "waiting"} /\ UNCHANGED vars

SupervisorNext ==
    \/ SeeShutdown \/ SeeShutdownIdle \/ Ready \/ StartupTimesOut \/ StopIdle
    \/ WaitFails \/ ExitSeen \/ PollStarts \/ PollEnds
    \/ RconStop \/ RconFails \/ ConsoleStop \/ NotDelivered
    \/ GraceEnds \/ GraceWaitFails \/ GraceTimesOut
    \/ TerminateEarly \/ KillGroup \/ KillGroupFails
    \/ DirectEarly \/ DirectKill \/ DirectKilled \/ ReapEnds \/ ReapFails

Next ==
    \/ ChildExits \/ TreeExits \/ ServerBinds \/ ForeignBinds
    \/ SupervisorNext
    \/ Shutdown \/ Join \/ Watchdog
    \/ Tick \/ Terminated

Spec == Init /\ [][Next]_vars

\* What is due happens and time passes.  No process is assumed to exit, not
\* even a killed one.
Fairness ==
    /\ WF_vars(Tick) /\ WF_vars(Join) /\ WF_vars(Watchdog)
    /\ WF_vars(SeeShutdown) /\ WF_vars(SeeShutdownIdle)
    /\ WF_vars(sup \in Timed /\ timer = 0 /\ SupervisorNext)
    /\ WF_vars(sup \in {"terminate", "direct"} /\ SupervisorNext)
    /\ WF_vars(GraceEnds) /\ WF_vars(ReapEnds) /\ WF_vars(DirectKilled)

FairSpec == Spec /\ Fairness

-----------------------------------------------------------------------------
(***************************************************************************)
(* Properties.                                                             *)
(***************************************************************************)

TypeOK ==
    /\ sup \in {"starting", "monitor", "poll", "idle"} \cup InStop \cup Over
    /\ timer \in Nat /\ watch \in Nat /\ elapsed \in Nat /\ owed \in Nat
    /\ why \in {"none", "shutdown", "failure", "idle", "wait_error"}
    /\ errors \subseteq {"wait", "query", "tree"}
    /\ child \in {"running", "killed", "dead", "reaped"}
    /\ tree \in BOOLEAN /\ forced \in BOOLEAN
    /\ port \in {"free", "own", "foreign"}
    /\ foreign \in {"none", "running", "stopped"}
    /\ runtime \in {"serving", "waiting", "ok", "error", "timedout"}

\* However the delivery of the stop, the graceful wait and the forced kill
\* fail, stop_and_reap's timed waits take no longer than their three timeouts
\* together.  The wait of the direct kill is not among them: it has none.
StopWithinBudgets == elapsed <= CommandTimeout + ShutdownTimeout + ForcedReaping

\* With the timeouts of config.example.toml the watchdog leaves the supervisor
\* the time to clean up: the test default_cleanup_fits_watchdog says that
\* delivery, grace and forced reaping fit into it.
CleanupFitsWatchdog == runtime = "timedout" => "tree" \in errors

\* A stop that the watchdog cuts short has had shutdown_timeout and the margin,
\* whatever the timeouts are and however late a player poll let it begin; only
\* the direct kill, which has no timeout, may be cut short earlier.  So where
\* command_timeout and the forced reaping are less than the margin, the watchdog
\* never fires on anything but that kill.
WatchdogPatient ==
    runtime = "timedout" /\ "tree" \notin errors
        => elapsed >= ShutdownTimeout + Margin

\* A stop that counts as successful has reaped its process, and a process
\* group it set out to kill is gone: a failed group kill is never covered up.
\* Whatever went wrong, a runtime that has returned left no process of its
\* server running without at least a SIGKILL.
CleanStop ==
    /\ sup = "done" \/ runtime = "ok" =>
          child = "reaped" /\ (forced => ~tree)
    /\ runtime \in {"ok", "error", "timedout"} => child # "running"

\* A process that was sent its stop command is not killed before it had
\* shutdown_timeout to save its world, less what command_timeout exceeds the
\* margin by: so much the watchdog may take from it, after a player poll and a
\* slow delivery.  The supervisor itself kills it early only when waiting for
\* it failed.
GraceHonoured ==
    [][child = "running" /\ child' = "killed"
         => \/ owed = 0
            \/ runtime' = "timedout" /\ owed + Margin <= CommandTimeout
            \/ "wait" \in errors]_vars

\* README: "MCServerNap only stops server processes that it started."
OnlyOwnServerStopped == foreign # "stopped"

\* A runtime that was told to shut down returns, even when its process cannot
\* be killed and never exits.
ShutdownReturns == runtime = "waiting" ~> runtime \in {"ok", "error", "timedout"}
=============================================================================
