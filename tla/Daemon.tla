------------------------------- MODULE Daemon -------------------------------
(***************************************************************************)
(* The daemon around the supervisors: DaemonCoordinator::run               *)
(* (coordinator.rs), the signal watcher it arms, and for each configured   *)
(* server a runtime (ServerRuntime::run_until and finish_shutdown,         *)
(* runtime.rs) with its connection tasks and its supervisor.               *)
(*                                                                         *)
(* Every one of them is a task on a multi-threaded executor.  A supervisor *)
(* appears only as a task that runs until it is told to stop, or fails:    *)
(* module Supervisor is its inside.                                        *)
(*                                                                         *)
(* pc names what the coordinator is about to do:                           *)
(*   arm       SignalWatcher::arm                                          *)
(*   bind      PreparedDaemon::bind_all, one listener after the other      *)
(*   observe   observe_pending_events before the next activation           *)
(*   activate  BoundServerRuntime::activate and spawn_runtime              *)
(*   join      the select loop over failures, watcher and runtimes         *)
(*   final, aborting  the watcher, after the last runtime was joined       *)
(*   returned  run has returned                                            *)
(***************************************************************************)
EXTENDS Naturals, FiniteSets

CONSTANTS
    Servers,        \* the configured servers
    Connections,    \* TCP connections, at most one task each at a time
    MaxConnections, \* config.max_connections, the permits of the semaphore
    Watcher         \* the signal watcher, as a reporter of failures

ASSUME ServersAssumption == IsFiniteSet(Servers) /\ Servers # {}
ASSUME ConnectionsAssumption == IsFiniteSet(Connections)
ASSUME MaxConnectionsAssumption == MaxConnections \in Nat
ASSUME WatcherAssumption == Watcher \notin Servers

VARIABLES
    pc,         \* the coordinator
    result,     \* what run returned
    shutdown,   \* Shutdown's watch channel
    failures,   \* FatalErrors: how many errors each reporter recorded
    watcher,    \* the signal watcher's task
    fatal,      \* messages in the infrastructure failure channel
    received,   \* watcher_failure_received
    seen,       \* watcher_observed
    rt,         \* each server's runtime and monitor task
    bad,        \* the runtime's result so far is an error
    sup,        \* each server's supervisor task
    told,       \* the supervisor's oneshot shutdown was sent
    conn,       \* each connection's task
    permits,    \* the connection limit's free permits
    \* history variable
    faulty      \* who met a failure of any kind

coordVars == <<pc, result, received, seen>>
watchVars == <<watcher, fatal>>
rtVars    == <<rt, bad, sup, told, conn, permits>>
vars == <<pc, result, shutdown, failures, watcher, fatal, received, seen,
          rt, bad, sup, told, conn, permits, faulty>>

Reporters == Servers \cup {Watcher}

NoTask == [at |-> "none", server |-> Watcher]

PC == {"arm", "bind", "observe", "activate", "join", "final", "aborting",
       "returned"}

\* A runtime: prepared, listening, in run_until's loop; leaving it because of
\* the supervisor, the shutdown future or a panicked connection; waiting for
\* the supervisor in finish_shutdown; its task returned; its monitor ended;
\* joined by the coordinator.
Runtime == {"prepared", "bound", "serving", "left_supervisor",
            "left_shutdown", "left_panic", "stopping", "returned", "ended",
            "joined"}
Draining == {"left_supervisor", "left_shutdown", "left_panic"}

Init ==
    /\ pc = "arm" /\ result = "pending"
    /\ shutdown = FALSE
    /\ failures = [r \in Reporters |-> 0]
    /\ watcher = "none" /\ fatal = 0
    /\ received = FALSE /\ seen = FALSE
    /\ rt = [s \in Servers |-> "prepared"]
    /\ bad = [s \in Servers |-> FALSE]
    /\ sup = [s \in Servers |-> "none"]
    /\ told = [s \in Servers |-> FALSE]
    /\ conn = [k \in Connections |-> NoTask]
    /\ permits = MaxConnections
    /\ faulty = {}

\* Shutdown::fail by reporter r: record the error, then request shutdown.
Fail(r) ==
    /\ failures' = [failures EXCEPT ![r] = @ + 1]
    /\ shutdown' = TRUE

TasksOf(s) == {k \in Connections : conn[k].server = s}

-----------------------------------------------------------------------------
(***************************************************************************)
(* The signal watcher.                                                     *)
(***************************************************************************)

\* Ctrl+C or SIGTERM, or a signal pending when the watcher was armed.
SignalArrives ==
    /\ watcher = "waiting"
    /\ shutdown' = TRUE
    /\ watcher' = "requested"
    /\ UNCHANGED <<coordVars, failures, fatal, rtVars, faulty>>

\* A listener fails: shutdown.fail, then a message that it was reported.
ListenerFails ==
    /\ watcher = "waiting"
    /\ Fail(Watcher)
    /\ fatal' = fatal + 1
    /\ watcher' = "reported"
    /\ faulty' = faulty \cup {Watcher}
    /\ UNCHANGED <<coordVars, rtVars>>

\* The watcher's task panics.
WatcherPanics ==
    /\ watcher = "waiting"
    /\ watcher' = "panicked"
    /\ faulty' = faulty \cup {Watcher}
    /\ UNCHANGED <<coordVars, shutdown, failures, fatal, rtVars>>

-----------------------------------------------------------------------------
(***************************************************************************)
(* A server's runtime.                                                     *)
(***************************************************************************)

\* run_until's select is biased: connections are accepted only when neither
\* the supervisor nor the shutdown future nor a finished task is ready.
Accepting(s) ==
    /\ rt[s] = "serving" /\ sup[s] = "running" /\ ~shutdown
    /\ \A k \in TasksOf(s) : conn[k].at = "live"

\* A connection is accepted and gets a permit.  Without a free permit it is
\* dropped, and nothing changes.
Accept(s, k) ==
    /\ Accepting(s)
    /\ conn[k] = NoTask /\ permits > 0
    /\ permits' = permits - 1
    /\ conn' = [conn EXCEPT ![k] = [at |-> "live", server |-> s]]
    /\ UNCHANGED <<coordVars, shutdown, failures, watchVars, rt, bad, sup,
                   told, faulty>>

\* Seeded fault: the permit is given back only by a task that ends by itself.
TaskEndsKeepingPermit(k, outcome) ==
    /\ conn[k].at = "live"
    /\ conn' = [conn EXCEPT ![k].at = outcome]
    /\ permits' = IF outcome = "ended" THEN permits + 1 ELSE permits
    /\ faulty' = faulty \cup IF outcome = "panicked" THEN {conn[k].server}
                             ELSE {}
    /\ UNCHANGED <<coordVars, shutdown, failures, watchVars, rt, bad, sup,
                   told>>

\* handle_client returns, is aborted or panics; the permit goes with it.
TaskEnds(k, outcome) ==
    /\ conn[k].at = "live"
    /\ conn' = [conn EXCEPT ![k].at = outcome]
    /\ permits' = permits + 1
    /\ faulty' = faulty \cup IF outcome = "panicked" THEN {conn[k].server}
                             ELSE {}
    /\ UNCHANGED <<coordVars, shutdown, failures, watchVars, rt, bad, sup,
                   told>>

\* run_until joins a finished task.  A panic ends the loop.
JoinTask(s, k) ==
    /\ rt[s] = "serving" /\ sup[s] = "running" /\ ~shutdown
    /\ conn[k].server = s /\ conn[k].at \in {"ended", "panicked"}
    /\ conn' = [conn EXCEPT ![k] = NoTask]
    /\ IF conn[k].at = "panicked"
       THEN /\ rt' = [rt EXCEPT ![s] = "left_panic"]
            /\ bad' = [bad EXCEPT ![s] = TRUE]
       ELSE UNCHANGED <<rt, bad>>
    /\ UNCHANGED <<coordVars, shutdown, failures, watchVars, sup, told,
                   permits, faulty>>

\* run_until's loop ends because the supervisor's task did.  Whatever it
\* returned is an error.
LeaveBySupervisor(s) ==
    /\ rt[s] = "serving" /\ sup[s] # "running"
    /\ rt' = [rt EXCEPT ![s] = "left_supervisor"]
    /\ bad' = [bad EXCEPT ![s] = TRUE]
    /\ UNCHANGED <<coordVars, shutdown, failures, watchVars, sup, told, conn,
                   permits, faulty>>

\* run_until's loop ends because shutdown was requested.
LeaveByShutdown(s) ==
    /\ rt[s] = "serving" /\ sup[s] = "running" /\ shutdown
    /\ rt' = [rt EXCEPT ![s] = "left_shutdown"]
    /\ UNCHANGED <<coordVars, shutdown, failures, watchVars, bad, sup, told,
                   conn, permits, faulty>>

\* Seeded fault: a panic of a task that was being aborted is not recorded.
DrainTaskIgnoringPanic(s, k) ==
    /\ rt[s] \in Draining
    /\ conn[k].server = s /\ conn[k].at \in {"ended", "panicked"}
    /\ conn' = [conn EXCEPT ![k] = NoTask]
    /\ UNCHANGED <<coordVars, shutdown, failures, watchVars, rt, bad, sup,
                   told, permits, faulty>>

\* run_until after abort_all joins what is left of its tasks.
DrainTask(s, k) ==
    /\ rt[s] \in Draining
    /\ conn[k].server = s /\ conn[k].at \in {"ended", "panicked"}
    /\ conn' = [conn EXCEPT ![k] = NoTask]
    /\ bad' = [bad EXCEPT ![s] = @ \/ conn[k].at = "panicked"]
    /\ UNCHANGED <<coordVars, shutdown, failures, watchVars, rt, sup, told,
                   permits, faulty>>

\* Seeded fault: the supervisor is told to stop while tasks are aborted.
TellSupervisorEarly(s) ==
    /\ rt[s] \in {"left_shutdown", "left_panic"}
    /\ rt' = [rt EXCEPT ![s] = "stopping"]
    /\ told' = [told EXCEPT ![s] = TRUE]
    /\ UNCHANGED <<coordVars, shutdown, failures, watchVars, bad, sup, conn,
                   permits, faulty>>

\* finish_shutdown, once every task is joined: tell the supervisor.
TellSupervisor(s) ==
    /\ rt[s] \in {"left_shutdown", "left_panic"} /\ TasksOf(s) = {}
    /\ rt' = [rt EXCEPT ![s] = "stopping"]
    /\ told' = [told EXCEPT ![s] = TRUE]
    /\ UNCHANGED <<coordVars, shutdown, failures, watchVars, bad, sup, conn,
                   permits, faulty>>

\* run_until returns without finish_shutdown: there is no supervisor left.
ReturnWithoutSupervisor(s) ==
    /\ rt[s] = "left_supervisor" /\ TasksOf(s) = {}
    /\ rt' = [rt EXCEPT ![s] = "returned"]
    /\ UNCHANGED <<coordVars, shutdown, failures, watchVars, bad, sup, told,
                   conn, permits, faulty>>

\* await_supervisor_shutdown: the supervisor's task ended.
SupervisorJoined(s) ==
    /\ rt[s] = "stopping" /\ sup[s] # "running"
    /\ rt' = [rt EXCEPT ![s] = "returned"]
    /\ bad' = [bad EXCEPT ![s] = @ \/ sup[s] # "ok"]
    /\ UNCHANGED <<coordVars, shutdown, failures, watchVars, sup, told, conn,
                   permits, faulty>>

\* Seeded fault: at the limit the supervisor's task is left running.
WatchdogDetaches(s) ==
    /\ rt[s] = "stopping" /\ sup[s] = "running"
    /\ rt' = [rt EXCEPT ![s] = "returned"]
    /\ bad' = [bad EXCEPT ![s] = TRUE]
    /\ faulty' = faulty \cup {s}
    /\ UNCHANGED <<coordVars, shutdown, failures, watchVars, sup, told, conn,
                   permits>>

\* await_supervisor_shutdown: at supervisor_wait_limit the task is aborted
\* and joined.
WatchdogAborts(s) ==
    /\ rt[s] = "stopping" /\ sup[s] = "running"
    /\ sup' = [sup EXCEPT ![s] = "aborted"]
    /\ rt' = [rt EXCEPT ![s] = "returned"]
    /\ bad' = [bad EXCEPT ![s] = TRUE]
    /\ faulty' = faulty \cup {s}
    /\ UNCHANGED <<coordVars, shutdown, failures, watchVars, told, conn,
                   permits>>

\* Seeded fault: the error of a runtime is recorded without a shutdown.
RecordWithoutShutdown(s) ==
    /\ rt[s] = "returned"
    /\ rt' = [rt EXCEPT ![s] = "ended"]
    /\ failures' = IF bad[s] THEN [failures EXCEPT ![s] = @ + 1] ELSE failures
    /\ UNCHANGED <<coordVars, shutdown, watchVars, bad, sup, told, conn,
                   permits, faulty>>

\* spawn_runtime's monitor task: the runtime's error is fatal to the daemon.
\* (Ok without a delivered shutdown would be one too; run_until returns Ok
\* only after LeaveByShutdown.)
ReportRuntime(s) ==
    /\ rt[s] = "returned"
    /\ rt' = [rt EXCEPT ![s] = "ended"]
    /\ IF bad[s] THEN Fail(s) ELSE UNCHANGED <<failures, shutdown>>
    /\ UNCHANGED <<coordVars, watchVars, bad, sup, told, conn, permits, faulty>>

\* The supervisor's task returns an error or panics, told to stop or not.
SupervisorFails(s) ==
    /\ sup[s] = "running"
    /\ sup' = [sup EXCEPT ![s] = "failed"]
    /\ faulty' = faulty \cup {s}
    /\ UNCHANGED <<coordVars, shutdown, failures, watchVars, rt, bad, told,
                   conn, permits>>

\* Told to stop, the supervisor does and returns Ok (and only then: its wake
\* channel stays open as long as the runtime lives).
SupervisorStops(s) ==
    /\ sup[s] = "running" /\ told[s]
    /\ sup' = [sup EXCEPT ![s] = "ok"]
    /\ UNCHANGED <<coordVars, shutdown, failures, watchVars, rt, bad, told,
                   conn, permits, faulty>>

-----------------------------------------------------------------------------
(***************************************************************************)
(* The coordinator.                                                        *)
(***************************************************************************)

\* SignalWatcher::arm registers the listeners.
Arm ==
    /\ pc = "arm"
    /\ pc' = "bind"
    /\ watcher' = "waiting"
    /\ UNCHANGED <<result, received, seen, shutdown, failures, fatal, rtVars,
                   faulty>>

\* Arming or binding fails: run returns the error, and dropping the listeners
\* and the SignalWatcher is all there is to do.
StartupFails ==
    /\ \/ pc = "arm"
       \/ pc = "bind" /\ \E s \in Servers : rt[s] = "prepared"
    /\ pc' = "returned"
    /\ result' = "error"
    /\ watcher' = IF watcher = "waiting" THEN "cancelled" ELSE watcher
    /\ UNCHANGED <<received, seen, shutdown, failures, fatal, rtVars, faulty>>

\* PreparedDaemon::bind_all binds one more listener (in any order).
Bind(s) ==
    /\ pc = "bind" /\ rt[s] = "prepared"
    /\ rt' = [rt EXCEPT ![s] = "bound"]
    /\ pc' = IF \A t \in Servers \ {s} : rt[t] = "bound" THEN "observe" ELSE pc
    /\ UNCHANGED <<result, received, seen, shutdown, failures, watchVars, bad,
                   sup, told, conn, permits, faulty>>

\* The watcher's task has ended by itself, and with it its end of the channel.
WatcherOver == watcher \in {"requested", "reported", "panicked"}

\* drain_infrastructure, then observe_watcher of a watcher whose task ended:
\* it must have said why, else that is a failure of its own.
ObserveWatcher ==
    /\ fatal' = 0
    /\ received' = (received \/ fatal > 0)
    /\ IF WatcherOver /\ ~seen
       THEN /\ seen' = TRUE
            /\ IF \/ watcher = "requested" /\ ~shutdown
                  \/ watcher = "reported" /\ ~received'
                  \/ watcher = "panicked"
               THEN Fail(Watcher)
               ELSE UNCHANGED <<failures, shutdown>>
       ELSE UNCHANGED <<seen, failures, shutdown>>

\* try_join_next_with_id, until no runtime task is finished.
JoinFinished ==
    rt' = [s \in Servers |-> IF rt[s] = "ended" THEN "joined" ELSE rt[s]]

\* observe_pending_events, then the test of the activation loop.
ObservePendingEvents ==
    /\ pc = "observe"
    /\ ObserveWatcher /\ JoinFinished
    /\ pc' = IF shutdown' \/ \A s \in Servers : rt[s] # "bound"
             THEN "join" ELSE "activate"
    /\ UNCHANGED <<result, watcher, bad, sup, told, conn, permits, faulty>>

\* activate and spawn_runtime.  A shutdown requested since the test is seen
\* by the runtime itself.
Activate(s) ==
    /\ pc = "activate" /\ rt[s] = "bound"
    /\ rt' = [rt EXCEPT ![s] = "serving"]
    /\ sup' = [sup EXCEPT ![s] = "running"]
    /\ pc' = "observe"
    /\ UNCHANGED <<result, received, seen, shutdown, failures, watchVars, bad,
                   told, conn, permits, faulty>>

Active(s) == rt[s] \notin {"prepared", "bound", "joined"}

\* The join loop's biased select: a reported failure, then the watcher's end,
\* then the end of a runtime's monitor.
RecvFailure ==
    /\ pc = "join" /\ (\E s \in Servers : Active(s))
    /\ fatal > 0
    /\ fatal' = fatal - 1
    /\ received' = TRUE
    /\ UNCHANGED <<pc, result, seen, shutdown, failures, watcher, rtVars,
                   faulty>>

JoinWatcher ==
    /\ pc = "join" /\ (\E s \in Servers : Active(s))
    /\ fatal = 0 /\ WatcherOver /\ ~seen
    /\ ObserveWatcher
    /\ UNCHANGED <<pc, result, watcher, rtVars, faulty>>

JoinRuntime(s) ==
    /\ pc = "join" /\ rt[s] = "ended"
    /\ fatal = 0 /\ ~(WatcherOver /\ ~seen)
    /\ rt' = [rt EXCEPT ![s] = "joined"]
    /\ UNCHANGED <<coordVars, shutdown, failures, watchVars, bad, sup, told,
                   conn, permits, faulty>>

\* Every runtime is joined: drain, and observe the watcher if it is over.
ObserveFinally ==
    /\ pc = "join" /\ \A s \in Servers : ~Active(s)
    /\ ObserveWatcher
    /\ pc' = "final"
    /\ UNCHANGED <<result, watcher, rtVars, faulty>>

\* The watcher is aborted if it is still waiting.  It may end by itself
\* before the abort takes effect.
AbortWatcher ==
    /\ pc = "final" /\ ~seen
    /\ pc' = "aborting"
    /\ UNCHANGED <<result, received, seen, shutdown, failures, watchVars,
                   rtVars, faulty>>

WatcherCancelled ==
    /\ pc = "aborting" /\ watcher = "waiting"
    /\ watcher' = "cancelled"
    /\ UNCHANGED <<coordVars, shutdown, failures, fatal, rtVars, faulty>>

\* The watcher's outcome is observed, and shutdown.finish returns an error if
\* any was recorded.
Finish ==
    /\ \/ pc = "final" /\ seen
       \/ pc = "aborting" /\ watcher # "waiting"
    /\ ObserveWatcher
    /\ result' = IF \E r \in Reporters : failures'[r] > 0 THEN "error" ELSE "ok"
    /\ pc' = "returned"
    /\ UNCHANGED <<watcher, rtVars, faulty>>

Terminated == pc = "returned" /\ UNCHANGED vars

-----------------------------------------------------------------------------
Coordinator ==
    \/ Arm \/ \E s \in Servers : Bind(s) \/ Activate(s)
    \/ StartupFails \/ ObservePendingEvents \/ ObserveFinally
    \/ RecvFailure \/ JoinWatcher \/ \E s \in Servers : JoinRuntime(s)
    \/ AbortWatcher \/ WatcherCancelled \/ Finish

\* Steps of a runtime that owe nothing to its clients or its supervisor.
RuntimeStep(s) ==
    \/ LeaveBySupervisor(s) \/ LeaveByShutdown(s)
    \/ \E k \in Connections : JoinTask(s, k) \/ DrainTask(s, k)
    \/ TellSupervisor(s) \/ ReturnWithoutSupervisor(s) \/ SupervisorJoined(s)
    \/ WatchdogAborts(s) \/ ReportRuntime(s)

Next ==
    \/ SignalArrives \/ ListenerFails \/ WatcherPanics
    \/ Coordinator
    \/ \E s \in Servers :
          \/ RuntimeStep(s) \/ SupervisorFails(s) \/ SupervisorStops(s)
          \/ \E k \in Connections : Accept(s, k)
    \/ \E k \in Connections, outcome \in {"ended", "panicked"} :
          TaskEnds(k, outcome)
    \/ Terminated

Spec == Init /\ [][Next]_vars

\* The executor runs every task that can take a step, and abort_all ends the
\* tasks of a runtime that is leaving.  Signals, failures and the end of a
\* connection that was not aborted owe nothing.
Fairness ==
    /\ WF_vars(Coordinator)
    /\ \A s \in Servers : WF_vars(RuntimeStep(s))
    /\ \A k \in Connections :
          WF_vars(/\ conn[k].server \in Servers
                  /\ rt[conn[k].server] \in Draining
                  /\ TaskEnds(k, "ended"))

FairSpec == Spec /\ Fairness

-----------------------------------------------------------------------------
(***************************************************************************)
(* Properties.                                                             *)
(***************************************************************************)

TypeOK ==
    /\ pc \in PC /\ result \in {"pending", "ok", "error"}
    /\ shutdown \in BOOLEAN
    /\ failures \in [Reporters -> Nat]
    /\ watcher \in {"none", "waiting", "requested", "reported", "panicked",
                    "cancelled"}
    /\ fatal \in Nat /\ received \in BOOLEAN /\ seen \in BOOLEAN
    /\ rt \in [Servers -> Runtime]
    /\ bad \in [Servers -> BOOLEAN]
    /\ sup \in [Servers -> {"none", "running", "ok", "failed", "aborted"}]
    /\ told \in [Servers -> BOOLEAN]
    /\ conn \in [Connections -> {NoTask} \cup
                    [at : {"live", "ended", "panicked"}, server : Servers]]
    /\ permits \in 0..MaxConnections
    /\ faulty \subseteq Reporters

LiveTasks == {k \in Connections : conn[k].at = "live"}

\* The connection limit is shared by all servers and exact: whatever way the
\* connection tasks end, none keeps a permit and none gives back two.
PermitsExact == permits + Cardinality(LiveTasks) = MaxConnections

\* run returns only when every supervisor and every connection task is over,
\* whichever of them failed, and in whatever order.
NothingLeftRunning ==
    pc = "returned" => \A s \in Servers : sup[s] # "running" /\ TasksOf(s) = {}

StartupFailed == \E s \in Servers : rt[s] = "prepared"

\* Once the listeners are bound, run reports every server that failed and the
\* watcher's failure, each exactly once, and nothing else: no failure is lost
\* in the races between shutting down, joining and aborting, and a clean
\* shutdown is never reported as an error.
ExactReport ==
    pc = "returned" /\ ~StartupFailed =>
        /\ \A r \in Reporters : failures[r] = IF r \in faulty THEN 1 ELSE 0
        /\ result = IF faulty = {} THEN "ok" ELSE "error"

\* A supervisor is told to stop only when none of its server's connection
\* handlers is left to sample its lifecycle, hold a lease or send a request.
HandlersGoneBeforeStop ==
    [][\A s \in Servers : told'[s] # told[s] => TasksOf(s) = {}]_vars

\* A signal, or a failure of any server or of the watcher, ends the daemon:
\* every other server is stopped and run returns.
FailureStopsDaemon == shutdown \/ faulty # {} ~> pc = "returned"
=============================================================================
