---------------------------- MODULE DaemonProofs ----------------------------
(***************************************************************************)
(* Proofs about Daemon, for any finite set of servers and connections and  *)
(* any connection limit.  The inductive invariant IInv says, for every     *)
(* stage of a runtime, what its supervisor and its connection tasks can    *)
(* be (TaskInv), where a failure that happened is kept until it is         *)
(* recorded (FaultInv: an unjoined task, an unjoined supervisor, or the    *)
(* runtime's result), that it is recorded once its monitor ended           *)
(* (ReportInv), the same for the watcher (WatcherInv), and what the        *)
(* coordinator has left behind at each of its stages (CoordInv).           *)
(***************************************************************************)
EXTENDS Daemon, FiniteSetTheorems, TLAPS

PermitInv == PermitsExact

TaskInv ==
    \A s \in Servers :
        /\ rt[s] \in {"prepared", "bound"} =>
              sup[s] = "none" /\ TasksOf(s) = {} /\ ~bad[s]
        /\ rt[s] = "serving" => sup[s] \in {"running", "failed"} /\ ~bad[s]
        /\ rt[s] = "left_supervisor" => sup[s] = "failed" /\ bad[s]
        /\ rt[s] \in {"left_shutdown", "left_panic"} =>
              sup[s] \in {"running", "failed"}
        /\ rt[s] = "stopping" =>
              TasksOf(s) = {} /\ sup[s] \in {"running", "failed", "ok"}
        /\ rt[s] \in {"returned", "ended", "joined"} =>
              /\ TasksOf(s) = {}
              /\ sup[s] \in {"ok", "failed", "aborted"}
              /\ sup[s] # "ok" => bad[s]
        /\ told[s] => rt[s] \in {"stopping", "returned", "ended", "joined"}

Panicked(s) == \E k \in TasksOf(s) : conn[k].at = "panicked"

FaultInv ==
    \A s \in Servers :
        s \in faulty <=> bad[s] \/ sup[s] = "failed" \/ Panicked(s)

ReportInv ==
    \A s \in Servers :
        failures[s] = IF rt[s] \in {"ended", "joined"} /\ bad[s] THEN 1 ELSE 0

WatcherInv ==
    /\ failures[Watcher] = IF \/ watcher = "reported"
                              \/ watcher = "panicked" /\ seen THEN 1 ELSE 0
    /\ Watcher \in faulty <=> watcher \in {"reported", "panicked"}
    /\ watcher = "reported" => fatal > 0 \/ received
    /\ watcher = "requested" => shutdown
    /\ seen => WatcherOver
    /\ pc = "arm" => watcher = "none"
    /\ pc # "arm" /\ watcher = "none" => pc = "returned" /\ StartupFailed
    /\ watcher = "cancelled" => pc \in {"aborting", "returned"}
    /\ pc = "returned" => watcher # "waiting"
    /\ pc = "returned" /\ ~StartupFailed => seen \/ ~WatcherOver

CoordInv ==
    /\ pc = "arm" => \A s \in Servers : rt[s] = "prepared"
    /\ pc = "bind" => /\ \A s \in Servers : rt[s] \in {"prepared", "bound"}
                      /\ \E s \in Servers : rt[s] = "prepared"
    /\ pc \in {"observe", "activate", "join", "final", "aborting"} =>
          ~StartupFailed
    /\ pc \in {"final", "aborting", "returned"} =>
          \A s \in Servers : rt[s] \in {"prepared", "bound", "joined"}
    /\ pc = "returned" /\ ~StartupFailed =>
          result = IF \E r \in Reporters : failures[r] > 0
                   THEN "error" ELSE "ok"

IInv ==
    /\ TypeOK
    /\ PermitInv
    /\ TaskInv
    /\ FaultInv
    /\ ReportInv
    /\ WatcherInv
    /\ CoordInv
-----------------------------------------------------------------------------

\* A conjunct is kept by a step that leaves its variables alone.
LEMMA Frame ==
    ASSUME IInv
    PROVE  /\ UNCHANGED <<conn, permits>> => PermitInv'
           /\ UNCHANGED <<rt, bad, sup, told, conn>> => TaskInv'
           /\ UNCHANGED <<faulty, bad, sup, conn>> => FaultInv'
           /\ UNCHANGED <<failures, rt, bad>> => ReportInv'
           /\ UNCHANGED <<failures, faulty, watcher, fatal, received,
                          shutdown, seen, pc, rt>> => WatcherInv'
           /\ UNCHANGED <<pc, result, rt, failures>> => CoordInv'
  <1>1. UNCHANGED <<conn, permits>> => PermitInv'
    BY DEF IInv, PermitInv, PermitsExact, LiveTasks
  <1>2. UNCHANGED <<rt, bad, sup, told, conn>> => TaskInv'
    BY DEF IInv, TaskInv, TasksOf
  <1>3. UNCHANGED <<faulty, bad, sup, conn>> => FaultInv'
    BY DEF IInv, FaultInv, Panicked, TasksOf
  <1>4. UNCHANGED <<failures, rt, bad>> => ReportInv'
    BY DEF IInv, ReportInv
  <1>5. UNCHANGED <<failures, faulty, watcher, fatal, received,
                    shutdown, seen, pc, rt>> => WatcherInv'
    BY DEF IInv, WatcherInv, WatcherOver, StartupFailed
  <1>6. UNCHANGED <<pc, result, rt, failures>> => CoordInv'
    BY DEF IInv, CoordInv, StartupFailed
  <1> QED
    BY <1>1, <1>2, <1>3, <1>4, <1>5, <1>6

\* The tasks that hold a permit are finitely many.
LEMMA LiveTasksFinite ==
    IsFiniteSet(LiveTasks) /\ Cardinality(LiveTasks) \in Nat
  <1>1. LiveTasks \in SUBSET Connections
    BY DEF LiveTasks
  <1>2. IsFiniteSet(LiveTasks)
    BY <1>1, ConnectionsAssumption, FS_Subset
  <1> QED
    BY <1>2, FS_CardinalityType

\* A permit that is taken is held by one more task.
LEMMA PermitTaken ==
    ASSUME IInv, NEW s \in Servers, NEW k \in Connections, Accept(s, k)
    PROVE  PermitInv' /\ permits' \in 0..MaxConnections
  <1>1. LiveTasks' = LiveTasks \cup {k} /\ k \notin LiveTasks
    BY DEF IInv, TypeOK, Accept, LiveTasks, NoTask
  <1>2. Cardinality(LiveTasks') = Cardinality(LiveTasks) + 1
    BY <1>1, LiveTasksFinite, FS_AddElement
  <1> QED
    BY <1>2, LiveTasksFinite DEF IInv, TypeOK, PermitInv, PermitsExact, Accept

\* A task that ends gives back the permit it held.
LEMMA PermitReturned ==
    ASSUME IInv, NEW k \in Connections, NEW outcome \in {"ended", "panicked"},
           TaskEnds(k, outcome)
    PROVE  PermitInv' /\ permits' \in 0..MaxConnections
  <1>1. LiveTasks' = LiveTasks \ {k} /\ k \in LiveTasks
    BY DEF IInv, TypeOK, TaskEnds, LiveTasks
  <1>2. Cardinality(LiveTasks') = Cardinality(LiveTasks) - 1
    BY <1>1, LiveTasksFinite, FS_RemoveElement
  <1>3. Cardinality(LiveTasks') \in Nat
    <2>1. IsFiniteSet(LiveTasks')
      BY <1>1, LiveTasksFinite, FS_RemoveElement
    <2> QED
      BY <2>1, FS_CardinalityType
  <1> QED
    BY <1>2, <1>3, LiveTasksFinite
    DEF IInv, TypeOK, PermitInv, PermitsExact, TaskEnds

\* A join frees no permit: the task gave it back when it ended.
LEMMA PermitKept ==
    ASSUME IInv, NEW k \in Connections, conn[k].at \in {"ended", "panicked"},
           conn' = [conn EXCEPT ![k] = NoTask], permits' = permits
    PROVE  PermitInv'
  <1>1. LiveTasks' = LiveTasks
    BY DEF LiveTasks, NoTask
  <1> QED
    BY <1>1 DEF IInv, PermitInv, PermitsExact

\* Recording an error keeps the types of what it changes.
LEMMA FailTypes ==
    ASSUME IInv, NEW r \in Reporters, Fail(r)
    PROVE  failures' \in [Reporters -> Nat] /\ shutdown' \in BOOLEAN
  BY DEF IInv, TypeOK, Fail

\* What the coordinator knows once it has observed the watcher: if its task
\* is over, that was seen, a failure of it is recorded once, and no server's.
LEMMA Observed ==
    ASSUME IInv, pc \in {"observe", "join", "final", "aborting"},
           ObserveWatcher, watcher' = watcher
    PROVE  /\ failures' \in [Reporters -> Nat] /\ shutdown' \in BOOLEAN
           /\ fatal' \in Nat /\ received' \in BOOLEAN /\ seen' \in BOOLEAN
           /\ seen' <=> WatcherOver
           /\ failures'[Watcher] =
                 IF watcher \in {"reported", "panicked"} THEN 1 ELSE 0
           /\ \A s \in Servers : failures'[s] = failures[s]
           /\ watcher = "reported" => received'
           /\ watcher = "requested" => shutdown'
  <1>1. fatal' = 0 /\ received' \in BOOLEAN
        /\ (watcher = "reported" => received')
    BY DEF IInv, WatcherInv, ObserveWatcher
  <1>2. seen' \in BOOLEAN /\ (seen' <=> WatcherOver)
    BY DEF IInv, TypeOK, WatcherInv, ObserveWatcher
  <1>3. CASE watcher = "panicked" /\ ~seen
    <2>1. Fail(Watcher)
      BY <1>3 DEF ObserveWatcher, WatcherOver
    <2>2. /\ failures'[Watcher] = 1
          /\ \A s \in Servers : failures'[s] = failures[s]
      BY <1>3, <2>1, WatcherAssumption DEF Fail, IInv, TypeOK, WatcherInv
    <2> QED
      BY <1>1, <1>2, <1>3, <2>1, <2>2, FailTypes DEF Reporters
  <1>4. CASE ~(watcher = "panicked" /\ ~seen)
    <2>1. failures' = failures /\ shutdown' = shutdown
      BY <1>1, <1>4 DEF ObserveWatcher, IInv, WatcherInv
    <2>2. failures'[Watcher] =
             IF watcher \in {"reported", "panicked"} THEN 1 ELSE 0
      BY <1>4, <2>1 DEF IInv, WatcherInv
    <2> QED
      BY <1>1, <1>2, <2>1, <2>2 DEF IInv, TypeOK, WatcherInv
  <1> QED
    BY <1>3, <1>4

\* A joined task is none of its server's any more, and no other task changes.
LEMMA TaskJoined ==
    ASSUME IInv, NEW k \in Connections, conn' = [conn EXCEPT ![k] = NoTask]
    PROVE  \A t \in Servers :
              /\ TasksOf(t)' = TasksOf(t) \ {k}
              /\ \A j \in TasksOf(t)' : conn'[j] = conn[j]
  BY WatcherAssumption DEF IInv, TypeOK, TasksOf, NoTask
-----------------------------------------------------------------------------

\* Steps of the signal watcher keep the invariant.
LEMMA WatcherStep ==
    ASSUME IInv,
           \/ SignalArrives
           \/ ListenerFails
           \/ WatcherPanics
    PROVE  IInv'
  <1>1. CASE SignalArrives
    <2>1. PermitInv' /\ TaskInv' /\ FaultInv' /\ ReportInv' /\ CoordInv'
      BY <1>1, Frame DEF SignalArrives, coordVars, rtVars
    <2>2. TypeOK'
      BY <1>1 DEF IInv, TypeOK, SignalArrives, coordVars, rtVars
    <2>3. WatcherInv'
      BY <1>1 DEF IInv, WatcherInv, WatcherOver, SignalArrives, coordVars
    <2> QED
      BY <2>1, <2>2, <2>3 DEF IInv
  <1>2. CASE ListenerFails
    <2>1. PermitInv' /\ TaskInv'
      BY <1>2, Frame DEF ListenerFails, rtVars
    <2>2. TypeOK'
      BY <1>2
      DEF IInv, TypeOK, Reporters, ListenerFails, Fail, coordVars, rtVars
    <2>3. FaultInv'
      BY <1>2, WatcherAssumption
      DEF IInv, FaultInv, Panicked, TasksOf, ListenerFails, rtVars
    <2>4. ReportInv'
      BY <1>2, WatcherAssumption
      DEF IInv, ReportInv, ListenerFails, Fail, rtVars
    <2>5. WatcherInv'
      BY <1>2
      DEF IInv, TypeOK, WatcherInv, WatcherOver, Reporters, ListenerFails,
          Fail, coordVars
    <2>6. CoordInv'
      BY <1>2
      DEF IInv, WatcherInv, CoordInv, StartupFailed, ListenerFails, coordVars,
          rtVars
    <2> QED
      BY <2>1, <2>2, <2>3, <2>4, <2>5, <2>6 DEF IInv
  <1>3. CASE WatcherPanics
    <2>1. PermitInv' /\ TaskInv' /\ ReportInv' /\ CoordInv'
      BY <1>3, Frame DEF WatcherPanics, coordVars, rtVars
    <2>2. TypeOK'
      BY <1>3 DEF IInv, TypeOK, Reporters, WatcherPanics, coordVars, rtVars
    <2>3. FaultInv'
      BY <1>3, WatcherAssumption
      DEF IInv, FaultInv, Panicked, TasksOf, WatcherPanics, rtVars
    <2>4. WatcherInv'
      BY <1>3 DEF IInv, WatcherInv, WatcherOver, WatcherPanics, coordVars
    <2> QED
      BY <2>1, <2>2, <2>3, <2>4 DEF IInv
  <1> QED
    BY <1>1, <1>2, <1>3

\* Steps of the runtimes and the supervisors keep it.
LEMMA RuntimeStepKeeps ==
    ASSUME IInv,
           \/ \E s \in Servers : LeaveBySupervisor(s)
           \/ \E s \in Servers : LeaveByShutdown(s)
           \/ \E s \in Servers : TellSupervisor(s)
           \/ \E s \in Servers : ReturnWithoutSupervisor(s)
           \/ \E s \in Servers : SupervisorJoined(s)
           \/ \E s \in Servers : WatchdogAborts(s)
           \/ \E s \in Servers : ReportRuntime(s)
           \/ \E s \in Servers : SupervisorFails(s)
           \/ \E s \in Servers : SupervisorStops(s)
    PROVE  IInv'
  <1>1. ASSUME NEW s \in Servers, LeaveBySupervisor(s) PROVE IInv'
    <2>1. PermitInv'
      BY <1>1, Frame DEF LeaveBySupervisor
    <2>2. TypeOK'
      BY <1>1
      DEF IInv, TypeOK, Runtime, LeaveBySupervisor, coordVars, watchVars
    <2>3. TaskInv'
      BY <1>1 DEF IInv, TypeOK, TaskInv, TasksOf, LeaveBySupervisor
    <2>4. FaultInv'
      BY <1>1 DEF IInv, FaultInv, TaskInv, Panicked, TasksOf, LeaveBySupervisor
    <2>5. ReportInv'
      BY <1>1 DEF IInv, ReportInv, LeaveBySupervisor
    <2>6. WatcherInv'
      BY <1>1
      DEF IInv, WatcherInv, WatcherOver, StartupFailed, LeaveBySupervisor,
          coordVars, watchVars
    <2>7. CoordInv'
      BY <1>1 DEF IInv, CoordInv, StartupFailed, LeaveBySupervisor, coordVars
    <2> QED
      BY <2>1, <2>2, <2>3, <2>4, <2>5, <2>6, <2>7 DEF IInv
  <1>2. ASSUME NEW s \in Servers, LeaveByShutdown(s) PROVE IInv'
    <2>1. PermitInv' /\ FaultInv'
      BY <1>2, Frame DEF LeaveByShutdown
    <2>2. TypeOK'
      BY <1>2 DEF IInv, TypeOK, Runtime, LeaveByShutdown, coordVars, watchVars
    <2>3. TaskInv'
      BY <1>2 DEF IInv, TaskInv, TasksOf, LeaveByShutdown
    <2>4. ReportInv'
      BY <1>2 DEF IInv, ReportInv, LeaveByShutdown
    <2>5. WatcherInv'
      BY <1>2
      DEF IInv, WatcherInv, WatcherOver, StartupFailed, LeaveByShutdown,
          coordVars, watchVars
    <2>6. CoordInv'
      BY <1>2 DEF IInv, CoordInv, StartupFailed, LeaveByShutdown, coordVars
    <2> QED
      BY <2>1, <2>2, <2>3, <2>4, <2>5, <2>6 DEF IInv
  <1>3. ASSUME NEW s \in Servers, TellSupervisor(s) PROVE IInv'
    <2>1. PermitInv' /\ FaultInv'
      BY <1>3, Frame DEF TellSupervisor
    <2>2. TypeOK'
      BY <1>3 DEF IInv, TypeOK, Runtime, TellSupervisor, coordVars, watchVars
    <2>3. TaskInv'
      BY <1>3 DEF IInv, TypeOK, TaskInv, TasksOf, TellSupervisor
    <2>4. ReportInv'
      BY <1>3 DEF IInv, ReportInv, TellSupervisor
    <2>5. WatcherInv'
      BY <1>3
      DEF IInv, WatcherInv, WatcherOver, StartupFailed, TellSupervisor,
          coordVars, watchVars
    <2>6. CoordInv'
      BY <1>3 DEF IInv, CoordInv, StartupFailed, TellSupervisor, coordVars
    <2> QED
      BY <2>1, <2>2, <2>3, <2>4, <2>5, <2>6 DEF IInv
  <1>4. ASSUME NEW s \in Servers, ReturnWithoutSupervisor(s) PROVE IInv'
    <2>1. PermitInv' /\ FaultInv'
      BY <1>4, Frame DEF ReturnWithoutSupervisor
    <2>2. TypeOK'
      BY <1>4
      DEF IInv, TypeOK, Runtime, ReturnWithoutSupervisor, coordVars, watchVars
    <2>3. TaskInv'
      BY <1>4 DEF IInv, TaskInv, TasksOf, ReturnWithoutSupervisor
    <2>4. ReportInv'
      BY <1>4 DEF IInv, ReportInv, ReturnWithoutSupervisor
    <2>5. WatcherInv'
      BY <1>4
      DEF IInv, WatcherInv, WatcherOver, StartupFailed,
          ReturnWithoutSupervisor, coordVars, watchVars
    <2>6. CoordInv'
      BY <1>4
      DEF IInv, CoordInv, StartupFailed, ReturnWithoutSupervisor, coordVars
    <2> QED
      BY <2>1, <2>2, <2>3, <2>4, <2>5, <2>6 DEF IInv
  <1>5. ASSUME NEW s \in Servers, SupervisorJoined(s) PROVE IInv'
    <2>1. PermitInv'
      BY <1>5, Frame DEF SupervisorJoined
    <2>2. TypeOK'
      BY <1>5 DEF IInv, TypeOK, Runtime, SupervisorJoined, coordVars, watchVars
    <2>3. TaskInv'
      <3>1. /\ bad'[s] = (bad[s] \/ sup[s] # "ok")
            /\ \A t \in Servers \ {s} : bad'[t] = bad[t]
        BY <1>5 DEF SupervisorJoined, IInv, TypeOK
      <3>2. sup[s] # "ok" => bad'[s]
        BY <3>1
      <3> QED
        BY <1>5, <3>1, <3>2 DEF SupervisorJoined, IInv, TaskInv, TasksOf
    <2>4. FaultInv'
      BY <1>5
      DEF IInv, TypeOK, FaultInv, TaskInv, Panicked, TasksOf, SupervisorJoined
    <2>5. ReportInv'
      BY <1>5 DEF IInv, ReportInv, SupervisorJoined
    <2>6. WatcherInv'
      BY <1>5
      DEF IInv, WatcherInv, WatcherOver, StartupFailed, SupervisorJoined,
          coordVars, watchVars
    <2>7. CoordInv'
      BY <1>5 DEF IInv, CoordInv, StartupFailed, SupervisorJoined, coordVars
    <2> QED
      BY <2>1, <2>2, <2>3, <2>4, <2>5, <2>6, <2>7 DEF IInv
  <1>6. ASSUME NEW s \in Servers, WatchdogAborts(s) PROVE IInv'
    <2>1. PermitInv'
      BY <1>6, Frame DEF WatchdogAborts
    <2>2. TypeOK'
      BY <1>6
      DEF IInv, TypeOK, Reporters, Runtime, WatchdogAborts, coordVars,
          watchVars
    <2>3. TaskInv'
      BY <1>6 DEF IInv, TypeOK, TaskInv, TasksOf, WatchdogAborts
    <2>4. FaultInv'
      BY <1>6 DEF IInv, TypeOK, FaultInv, Panicked, TasksOf, WatchdogAborts
    <2>5. ReportInv'
      BY <1>6 DEF IInv, ReportInv, WatchdogAborts
    <2>6. WatcherInv'
      BY <1>6, WatcherAssumption
      DEF IInv, WatcherInv, WatcherOver, StartupFailed, WatchdogAborts,
          coordVars, watchVars
    <2>7. CoordInv'
      BY <1>6 DEF IInv, CoordInv, StartupFailed, WatchdogAborts, coordVars
    <2> QED
      BY <2>1, <2>2, <2>3, <2>4, <2>5, <2>6, <2>7 DEF IInv
  <1>7. ASSUME NEW s \in Servers, ReportRuntime(s) PROVE IInv'
    <2>1. PermitInv' /\ FaultInv'
      BY <1>7, Frame DEF ReportRuntime
    <2>2. TypeOK'
      BY <1>7, FailTypes
      DEF IInv, TypeOK, Reporters, Runtime, ReportRuntime, coordVars, watchVars
    <2>3. TaskInv'
      BY <1>7 DEF IInv, TaskInv, TasksOf, ReportRuntime
    <2>4. ReportInv'
      BY <1>7 DEF IInv, TypeOK, ReportInv, Reporters, ReportRuntime, Fail
    <2>5. WatcherInv'
      BY <1>7, WatcherAssumption
      DEF IInv, TypeOK, WatcherInv, WatcherOver, StartupFailed, Reporters,
          ReportRuntime, Fail, coordVars, watchVars
    <2>6. CoordInv'
      BY <1>7 DEF IInv, CoordInv, StartupFailed, ReportRuntime, coordVars
    <2> QED
      BY <2>1, <2>2, <2>3, <2>4, <2>5, <2>6 DEF IInv
  <1>8. ASSUME NEW s \in Servers, SupervisorFails(s) PROVE IInv'
    <2>1. PermitInv' /\ ReportInv' /\ CoordInv'
      BY <1>8, Frame DEF SupervisorFails, coordVars
    <2>2. TypeOK'
      BY <1>8
      DEF IInv, TypeOK, Reporters, SupervisorFails, coordVars, watchVars
    <2>3. TaskInv'
      BY <1>8 DEF IInv, TaskInv, TasksOf, SupervisorFails
    <2>4. FaultInv'
      BY <1>8 DEF IInv, TypeOK, FaultInv, Panicked, TasksOf, SupervisorFails
    <2>5. WatcherInv'
      BY <1>8, WatcherAssumption
      DEF IInv, WatcherInv, WatcherOver, StartupFailed, SupervisorFails,
          coordVars, watchVars
    <2> QED
      BY <2>1, <2>2, <2>3, <2>4, <2>5 DEF IInv
  <1>9. ASSUME NEW s \in Servers, SupervisorStops(s) PROVE IInv'
    <2>1. PermitInv' /\ ReportInv' /\ WatcherInv' /\ CoordInv'
      BY <1>9, Frame DEF SupervisorStops, coordVars, watchVars
    <2>2. TypeOK'
      BY <1>9 DEF IInv, TypeOK, SupervisorStops, coordVars, watchVars
    <2>3. TaskInv'
      BY <1>9 DEF IInv, TaskInv, TasksOf, SupervisorStops
    <2>4. FaultInv'
      BY <1>9 DEF IInv, FaultInv, Panicked, TasksOf, SupervisorStops
    <2> QED
      BY <2>1, <2>2, <2>3, <2>4 DEF IInv
  <1> QED
    BY <1>1, <1>2, <1>3, <1>4, <1>5, <1>6, <1>7, <1>8, <1>9

\* Steps of the connection tasks keep it.
LEMMA TaskStepKeeps ==
    ASSUME IInv,
           \/ \E s \in Servers, k \in Connections : Accept(s, k)
           \/ \E s \in Servers, k \in Connections : JoinTask(s, k)
           \/ \E s \in Servers, k \in Connections : DrainTask(s, k)
           \/ \E k \in Connections, outcome \in {"ended", "panicked"} :
                 TaskEnds(k, outcome)
    PROVE  IInv'
  <1>1. ASSUME NEW s \in Servers, NEW k \in Connections, Accept(s, k)
       PROVE  IInv'
    <2>1. ReportInv' /\ WatcherInv' /\ CoordInv'
      BY <1>1, Frame DEF Accept, coordVars, watchVars
    <2>2. TypeOK'
      <3>1. conn' \in [Connections -> {NoTask} \cup
                         [at : {"live", "ended", "panicked"}, server : Servers]]
        BY <1>1 DEF Accept, IInv, TypeOK
      <3> QED
        BY <1>1, <3>1, PermitTaken
        DEF Accept, IInv, TypeOK, coordVars, watchVars
    <2>3. PermitInv'
      BY <1>1, PermitTaken
    <2>4. TaskInv'
      BY <1>1 DEF IInv, TaskInv, TasksOf, Accept, Accepting
    <2>5. FaultInv'
      BY <1>1 DEF IInv, FaultInv, Panicked, TasksOf, NoTask, Accept
    <2> QED
      BY <2>1, <2>2, <2>3, <2>4, <2>5 DEF IInv
  <1>2. ASSUME NEW s \in Servers, NEW k \in Connections, JoinTask(s, k)
       PROVE  IInv'
    <2>1. TypeOK'
      BY <1>2
      DEF IInv, TypeOK, Reporters, Runtime, JoinTask, coordVars, watchVars
    <2>2. PermitInv'
      BY <1>2, PermitKept DEF JoinTask
    <2>3. TaskInv'
      <3>1. conn' = [conn EXCEPT ![k] = NoTask]
        BY <1>2 DEF JoinTask
      <3>2. \A t \in Servers : TasksOf(t) = {} => TasksOf(t)' = {}
        BY <3>1, TaskJoined
      <3>3. /\ rt[s] = "serving" /\ sup' = sup /\ told' = told
            /\ \/ rt' = rt /\ bad' = bad
               \/ /\ rt' = [rt EXCEPT ![s] = "left_panic"]
                  /\ bad' = [bad EXCEPT ![s] = TRUE]
        BY <1>2 DEF JoinTask
      <3> QED
        BY <3>2, <3>3 DEF IInv, TypeOK, TaskInv
    <2>4. FaultInv'
      BY <1>2 DEF IInv, TypeOK, FaultInv, Panicked, TasksOf, NoTask, JoinTask
    <2>5. ReportInv'
      BY <1>2 DEF IInv, TypeOK, ReportInv, JoinTask
    <2>6. WatcherInv'
      BY <1>2
      DEF IInv, WatcherInv, WatcherOver, CoordInv, JoinTask, coordVars,
          watchVars
    <2>7. CoordInv'
      BY <1>2 DEF IInv, TypeOK, CoordInv, StartupFailed, JoinTask, coordVars
    <2> QED
      BY <2>1, <2>2, <2>3, <2>4, <2>5, <2>6, <2>7 DEF IInv
  <1>3. ASSUME NEW s \in Servers, NEW k \in Connections, DrainTask(s, k)
       PROVE  IInv'
    <2>1. WatcherInv' /\ CoordInv'
      BY <1>3, Frame DEF DrainTask, coordVars, watchVars
    <2>2. TypeOK'
      BY <1>3 DEF IInv, TypeOK, DrainTask, coordVars, watchVars
    <2>3. PermitInv'
      BY <1>3, PermitKept DEF DrainTask
    <2>4. TaskInv'
      <3>1. rt[s] \in Draining /\ rt' = rt /\ sup' = sup /\ told' = told
        BY <1>3 DEF DrainTask
      <3>2. /\ bad[s] => bad'[s]
            /\ \A t \in Servers \ {s} : bad'[t] = bad[t]
        BY <1>3 DEF DrainTask, IInv, TypeOK
      <3>3. \A t \in Servers : TasksOf(t) = {} => TasksOf(t)' = {}
        BY <1>3, TaskJoined DEF DrainTask
      <3> QED
        BY <3>1, <3>2, <3>3 DEF IInv, TaskInv, Draining
    <2>5. FaultInv'
      <3>1. /\ bad'[s] = (bad[s] \/ conn[k].at = "panicked")
            /\ \A t \in Servers \ {s} : bad'[t] = bad[t]
        BY <1>3 DEF DrainTask, IInv, TypeOK
      <3>2. k \in TasksOf(s) /\ \A t \in Servers \ {s} : k \notin TasksOf(t)
        BY <1>3 DEF DrainTask, TasksOf
      <3>3. \A t \in Servers : /\ TasksOf(t)' = TasksOf(t) \ {k}
                               /\ \A j \in TasksOf(t)' : conn'[j] = conn[j]
        BY <1>3, TaskJoined DEF DrainTask
      <3>4. Panicked(s) <=> Panicked(s)' \/ conn[k].at = "panicked"
        BY <3>2, <3>3 DEF Panicked
      <3>5. \A t \in Servers \ {s} : Panicked(t)' <=> Panicked(t)
        BY <3>2, <3>3 DEF Panicked
      <3> QED
        BY <1>3, <3>1, <3>4, <3>5 DEF DrainTask, IInv, FaultInv
    <2>6. ReportInv'
      BY <1>3 DEF IInv, Draining, ReportInv, DrainTask
    <2> QED
      BY <2>1, <2>2, <2>3, <2>4, <2>5, <2>6 DEF IInv
  <1>4. ASSUME NEW k \in Connections, NEW outcome \in {"ended", "panicked"},
              TaskEnds(k, outcome)
       PROVE  IInv'
    <2>1. ReportInv' /\ CoordInv'
      BY <1>4, Frame DEF TaskEnds, coordVars
    <2>2. TypeOK'
      <3>1. conn[k].server \in Servers /\ DOMAIN conn[k] = {"at", "server"}
        BY <1>4 DEF TaskEnds, IInv, TypeOK, NoTask
      <3>2. conn'[k] = [at |-> outcome, server |-> conn[k].server]
        BY <1>4 DEF TaskEnds, IInv, TypeOK, NoTask
      <3>3. conn' \in [Connections -> {NoTask} \cup
                         [at : {"live", "ended", "panicked"}, server : Servers]]
        BY <1>4, <3>1, <3>2 DEF TaskEnds, IInv, TypeOK
      <3>4. faulty' \subseteq Reporters
        BY <1>4, <3>1 DEF TaskEnds, IInv, TypeOK, Reporters
      <3> QED
        BY <1>4, <3>3, <3>4, PermitReturned
        DEF TaskEnds, IInv, TypeOK, coordVars, watchVars
    <2>3. PermitInv'
      BY <1>4, PermitReturned
    <2>4. TaskInv'
      BY <1>4 DEF IInv, TaskInv, TasksOf, TaskEnds
    <2>5. FaultInv'
      BY <1>4 DEF IInv, TypeOK, FaultInv, Panicked, TasksOf, TaskEnds
    <2>6. WatcherInv'
      <3>1. conn[k].server \in Servers
        BY <1>4 DEF TaskEnds, IInv, TypeOK, NoTask
      <3>2. Watcher \in faulty' <=> Watcher \in faulty
        BY <1>4, <3>1, WatcherAssumption DEF TaskEnds
      <3> QED
        BY <1>4, <3>2
        DEF TaskEnds, IInv, WatcherInv, WatcherOver, StartupFailed, coordVars,
            watchVars
    <2> QED
      BY <2>1, <2>2, <2>3, <2>4, <2>5, <2>6 DEF IInv
  <1> QED
    BY <1>1, <1>2, <1>3, <1>4

\* Steps of the coordinator keep it.
LEMMA CoordinatorStep ==
    ASSUME IInv,
           \/ Arm
           \/ StartupFails
           \/ \E s \in Servers : Bind(s)
           \/ \E s \in Servers : Activate(s)
           \/ ObservePendingEvents
           \/ RecvFailure
           \/ JoinWatcher
           \/ \E s \in Servers : JoinRuntime(s)
           \/ ObserveFinally
           \/ AbortWatcher
           \/ WatcherCancelled
           \/ Finish
    PROVE  IInv'
  <1>1. CASE Arm
    <2>1. PermitInv' /\ TaskInv' /\ FaultInv' /\ ReportInv'
      BY <1>1, Frame DEF Arm, rtVars
    <2>2. TypeOK'
      BY <1>1 DEF IInv, TypeOK, PC, Arm, rtVars
    <2>3. WatcherInv'
      BY <1>1 DEF IInv, WatcherInv, WatcherOver, Arm
    <2>4. CoordInv'
      BY <1>1, ServersAssumption DEF IInv, CoordInv, Arm, rtVars
    <2> QED
      BY <2>1, <2>2, <2>3, <2>4 DEF IInv
  <1>2. CASE StartupFails
    <2>1. PermitInv' /\ TaskInv' /\ FaultInv' /\ ReportInv'
      BY <1>2, Frame DEF StartupFails, rtVars
    <2>2. TypeOK'
      BY <1>2 DEF IInv, TypeOK, PC, StartupFails, rtVars
    <2>3. WatcherInv'
      BY <1>2, ServersAssumption
      DEF IInv, WatcherInv, WatcherOver, CoordInv, StartupFailed, StartupFails,
          rtVars
    <2>4. CoordInv'
      BY <1>2, ServersAssumption
      DEF IInv, CoordInv, StartupFailed, StartupFails, rtVars
    <2> QED
      BY <2>1, <2>2, <2>3, <2>4 DEF IInv
  <1>3. ASSUME NEW s \in Servers, Bind(s) PROVE IInv'
    <2>1. PermitInv' /\ FaultInv'
      BY <1>3, Frame DEF Bind
    <2>2. TypeOK'
      BY <1>3 DEF IInv, TypeOK, Runtime, PC, Bind, watchVars
    <2>3. TaskInv'
      BY <1>3 DEF IInv, TaskInv, TasksOf, Bind
    <2>4. ReportInv'
      BY <1>3 DEF IInv, ReportInv, Bind
    <2>5. WatcherInv'
      BY <1>3 DEF IInv, WatcherInv, WatcherOver, Bind, watchVars
    <2>6. CoordInv'
      BY <1>3 DEF IInv, TypeOK, CoordInv, StartupFailed, Bind
    <2> QED
      BY <2>1, <2>2, <2>3, <2>4, <2>5, <2>6 DEF IInv
  <1>4. ASSUME NEW s \in Servers, Activate(s) PROVE IInv'
    <2>1. PermitInv'
      BY <1>4, Frame DEF Activate
    <2>2. TypeOK'
      BY <1>4 DEF IInv, TypeOK, Runtime, PC, Activate, watchVars
    <2>3. TaskInv'
      BY <1>4 DEF IInv, TypeOK, TaskInv, TasksOf, Activate
    <2>4. FaultInv'
      BY <1>4 DEF IInv, FaultInv, TaskInv, Panicked, TasksOf, Activate
    <2>5. ReportInv'
      BY <1>4 DEF IInv, ReportInv, Activate
    <2>6. WatcherInv'
      BY <1>4 DEF IInv, WatcherInv, WatcherOver, Activate, watchVars
    <2>7. CoordInv'
      BY <1>4 DEF IInv, CoordInv, StartupFailed, Activate
    <2> QED
      BY <2>1, <2>2, <2>3, <2>4, <2>5, <2>6, <2>7 DEF IInv
  <1>5. CASE ObservePendingEvents
    <2>1. PermitInv' /\ FaultInv'
      BY <1>5, Frame DEF ObservePendingEvents
    <2>2. TypeOK'
      BY <1>5, Observed
      DEF IInv, TypeOK, Runtime, PC, ObservePendingEvents, JoinFinished
    <2>3. TaskInv'
      BY <1>5 DEF IInv, TaskInv, TasksOf, ObservePendingEvents, JoinFinished
    <2>4. ReportInv'
      BY <1>5, Observed DEF IInv, ReportInv, ObservePendingEvents, JoinFinished
    <2>5. WatcherInv'
      BY <1>5, Observed DEF IInv, WatcherInv, WatcherOver, ObservePendingEvents
    <2>6. CoordInv'
      BY <1>5
      DEF IInv, CoordInv, StartupFailed, ObservePendingEvents, JoinFinished
    <2> QED
      BY <2>1, <2>2, <2>3, <2>4, <2>5, <2>6 DEF IInv
  <1>6. CASE RecvFailure
    <2>1. PermitInv' /\ TaskInv' /\ FaultInv' /\ ReportInv' /\ CoordInv'
      BY <1>6, Frame DEF RecvFailure, rtVars
    <2>2. TypeOK'
      BY <1>6 DEF IInv, TypeOK, RecvFailure, rtVars
    <2>3. WatcherInv'
      BY <1>6 DEF IInv, WatcherInv, WatcherOver, RecvFailure
    <2> QED
      BY <2>1, <2>2, <2>3 DEF IInv
  <1>7. CASE JoinWatcher
    <2>1. PermitInv' /\ TaskInv' /\ FaultInv'
      BY <1>7, Frame DEF JoinWatcher, rtVars
    <2>2. TypeOK'
      BY <1>7, Observed DEF IInv, TypeOK, JoinWatcher, rtVars
    <2>3. ReportInv'
      BY <1>7, Observed DEF IInv, ReportInv, JoinWatcher, rtVars
    <2>4. WatcherInv'
      BY <1>7, Observed DEF IInv, WatcherInv, WatcherOver, JoinWatcher
    <2>5. CoordInv'
      BY <1>7 DEF IInv, CoordInv, StartupFailed, JoinWatcher, rtVars
    <2> QED
      BY <2>1, <2>2, <2>3, <2>4, <2>5 DEF IInv
  <1>8. ASSUME NEW s \in Servers, JoinRuntime(s) PROVE IInv'
    <2>1. PermitInv' /\ FaultInv'
      BY <1>8, Frame DEF JoinRuntime
    <2>2. TypeOK'
      BY <1>8 DEF IInv, TypeOK, Runtime, JoinRuntime, coordVars, watchVars
    <2>3. TaskInv'
      BY <1>8 DEF IInv, TaskInv, TasksOf, JoinRuntime
    <2>4. ReportInv'
      BY <1>8 DEF IInv, ReportInv, JoinRuntime
    <2>5. WatcherInv'
      BY <1>8
      DEF IInv, WatcherInv, WatcherOver, JoinRuntime, coordVars, watchVars
    <2>6. CoordInv'
      BY <1>8 DEF IInv, CoordInv, StartupFailed, JoinRuntime, coordVars
    <2> QED
      BY <2>1, <2>2, <2>3, <2>4, <2>5, <2>6 DEF IInv
  <1>9. CASE ObserveFinally
    <2>1. PermitInv' /\ TaskInv' /\ FaultInv'
      BY <1>9, Frame DEF ObserveFinally, rtVars
    <2>2. TypeOK'
      BY <1>9, Observed DEF IInv, TypeOK, PC, ObserveFinally, rtVars
    <2>3. ReportInv'
      BY <1>9, Observed DEF IInv, ReportInv, ObserveFinally, rtVars
    <2>4. WatcherInv'
      BY <1>9, Observed DEF IInv, WatcherInv, WatcherOver, ObserveFinally
    <2>5. CoordInv'
      BY <1>9 DEF IInv, CoordInv, StartupFailed, ObserveFinally, Active, rtVars
    <2> QED
      BY <2>1, <2>2, <2>3, <2>4, <2>5 DEF IInv
  <1>10. CASE AbortWatcher
    <2>1. PermitInv' /\ TaskInv' /\ FaultInv' /\ ReportInv'
      BY <1>10, Frame DEF AbortWatcher, rtVars
    <2>2. TypeOK'
      BY <1>10 DEF IInv, TypeOK, PC, AbortWatcher, watchVars, rtVars
    <2>3. WatcherInv'
      BY <1>10 DEF IInv, WatcherInv, AbortWatcher, watchVars
    <2>4. CoordInv'
      BY <1>10 DEF IInv, CoordInv, StartupFailed, AbortWatcher, rtVars
    <2> QED
      BY <2>1, <2>2, <2>3, <2>4 DEF IInv
  <1>11. CASE WatcherCancelled
    <2>1. PermitInv' /\ TaskInv' /\ FaultInv' /\ ReportInv' /\ CoordInv'
      BY <1>11, Frame DEF WatcherCancelled, coordVars, rtVars
    <2>2. TypeOK'
      BY <1>11 DEF IInv, TypeOK, WatcherCancelled, coordVars, rtVars
    <2>3. WatcherInv'
      BY <1>11 DEF IInv, WatcherInv, WatcherOver, WatcherCancelled, coordVars
    <2> QED
      BY <2>1, <2>2, <2>3 DEF IInv
  <1>12. CASE Finish
    <2>1. PermitInv' /\ TaskInv' /\ FaultInv'
      BY <1>12, Frame DEF Finish, rtVars
    <2>2. TypeOK'
      BY <1>12, Observed DEF IInv, TypeOK, PC, Finish, rtVars
    <2>3. ReportInv'
      BY <1>12, Observed DEF IInv, ReportInv, Finish, rtVars
    <2>4. WatcherInv'
      BY <1>12, Observed DEF IInv, WatcherInv, WatcherOver, Finish
    <2>5. CoordInv'
      BY <1>12 DEF IInv, CoordInv, Finish, rtVars
    <2> QED
      BY <2>1, <2>2, <2>3, <2>4, <2>5 DEF IInv
  <1> QED
    BY <1>1, <1>2, <1>3, <1>4, <1>5, <1>6, <1>7, <1>8, <1>9, <1>10, <1>11,
        <1>12

-----------------------------------------------------------------------------

\* The invariant holds initially.
LEMMA InitIInv == Init => IInv
  <1> SUFFICES ASSUME Init PROVE IInv
    OBVIOUS
  <1>1. TypeOK
    <2>1. permits \in 0..MaxConnections
      BY MaxConnectionsAssumption DEF Init
    <2>2. conn \in [Connections -> {NoTask} \cup
                      [at : {"live", "ended", "panicked"}, server : Servers]]
      BY DEF Init
    <2> QED
      BY <2>1, <2>2 DEF Init, TypeOK, PC, Runtime
  <1>2. PermitInv
    <2>1. LiveTasks = {}
      BY DEF Init, LiveTasks, NoTask
    <2> QED
      BY <2>1, FS_EmptySet, MaxConnectionsAssumption
      DEF Init, PermitInv, PermitsExact
  <1>3. TaskInv /\ FaultInv
    BY WatcherAssumption DEF Init, TaskInv, FaultInv, Panicked, TasksOf, NoTask
  <1>4. ReportInv /\ WatcherInv /\ CoordInv
    BY DEF Init, ReportInv, WatcherInv, CoordInv, Reporters
  <1> QED
    BY <1>1, <1>2, <1>3, <1>4 DEF IInv

\* Every step keeps it.
LEMMA NextIInv == IInv /\ [Next]_vars => IInv'
  <1> SUFFICES ASSUME IInv, [Next]_vars PROVE IInv'
    OBVIOUS
  <1>1. CASE SignalArrives \/ ListenerFails \/ WatcherPanics
    BY <1>1, WatcherStep
  <1>2. CASE Coordinator
    BY <1>2, CoordinatorStep DEF Coordinator
  <1>3. ASSUME NEW s \in Servers, RuntimeStep(s) PROVE IInv'
    BY <1>3, RuntimeStepKeeps, TaskStepKeeps DEF RuntimeStep
  <1>4. ASSUME NEW s \in Servers, SupervisorFails(s) \/ SupervisorStops(s)
        PROVE  IInv'
    BY <1>4, RuntimeStepKeeps
  <1>5. ASSUME NEW s \in Servers, NEW k \in Connections, Accept(s, k)
        PROVE  IInv'
    BY <1>5, TaskStepKeeps
  <1>6. ASSUME NEW k \in Connections, NEW outcome \in {"ended", "panicked"},
               TaskEnds(k, outcome)
        PROVE  IInv'
    BY <1>6, TaskStepKeeps
  <1>7. CASE UNCHANGED vars
    <2>1. PermitInv' /\ TaskInv' /\ FaultInv' /\ ReportInv' /\ WatcherInv'
          /\ CoordInv'
      BY <1>7, Frame DEF vars
    <2>2. TypeOK'
      BY <1>7 DEF IInv, TypeOK, vars
    <2> QED
      BY <2>1, <2>2 DEF IInv
  <1> QED
    BY <1>1, <1>2, <1>3, <1>4, <1>5, <1>6, <1>7 DEF Next, Terminated

\* The invariant holds in every reachable state.
THEOREM DaemonInvariance == Spec => []IInv
  BY InitIInv, NextIInv, PTL DEF Spec

\* Every variable keeps its type; in particular no permit is ever given back
\* that was not taken.
THEOREM DaemonTypes == Spec => []TypeOK
  <1>1. IInv => TypeOK
    BY DEF IInv
  <1> QED
    BY <1>1, DaemonInvariance, PTL

\* For any connection limit and any number of servers and connections, the
\* free permits and the tasks that hold one always add up to the limit.
THEOREM PermitsAreExact == Spec => []PermitsExact
  <1>1. IInv => PermitsExact
    BY DEF IInv, PermitInv
  <1> QED
    BY <1>1, DaemonInvariance, PTL

\* When run has returned, no supervisor and no connection task is running.
THEOREM NothingIsLeftRunning == Spec => []NothingLeftRunning
  <1>1. IInv => NothingLeftRunning
    BY DEF IInv, CoordInv, TaskInv, NothingLeftRunning
  <1> QED
    BY <1>1, DaemonInvariance, PTL

\* When run has returned, it reports exactly the servers that failed and the
\* watcher's failure, each once.
THEOREM ReportIsExact == Spec => []ExactReport
  <1>1. IInv => ExactReport
    <2> SUFFICES ASSUME IInv, pc = "returned", ~StartupFailed
                 PROVE  /\ \A r \in Reporters :
                              failures[r] = IF r \in faulty THEN 1 ELSE 0
                        /\ result = IF faulty = {} THEN "ok" ELSE "error"
      BY DEF ExactReport
    <2>1. \A s \in Servers : rt[s] = "joined" \/ rt[s] = "bound"
      BY DEF IInv, CoordInv, StartupFailed
    <2>2. ASSUME NEW s \in Servers
          PROVE  failures[s] = IF s \in faulty THEN 1 ELSE 0
      BY <2>1 DEF IInv, TaskInv, FaultInv, Panicked, ReportInv
    <2>3. failures[Watcher] = IF Watcher \in faulty THEN 1 ELSE 0
      BY DEF IInv, WatcherInv, WatcherOver
    <2>4. \A r \in Reporters : failures[r] = IF r \in faulty THEN 1 ELSE 0
      BY <2>2, <2>3 DEF Reporters
    <2>5. result = IF faulty = {} THEN "ok" ELSE "error"
      BY <2>4 DEF IInv, TypeOK, CoordInv
    <2> QED
      BY <2>4, <2>5
  <1> QED
    BY <1>1, DaemonInvariance, PTL

\* A supervisor is told to stop only when its server has no connection task.
THEOREM HandlersAreGoneBeforeStop == Spec => HandlersGoneBeforeStop
  <1>1. ASSUME IInv, [Next]_vars
        PROVE  \A s \in Servers : told'[s] # told[s] => TasksOf(s) = {}
    <2>1. CASE SignalArrives \/ ListenerFails \/ WatcherPanics
      BY <2>1 DEF SignalArrives, ListenerFails, WatcherPanics, rtVars
    <2>2. CASE Coordinator
      BY <2>2
      DEF Coordinator, Arm, Bind, Activate, StartupFails, ObservePendingEvents,
          ObserveFinally, RecvFailure, JoinWatcher, JoinRuntime, AbortWatcher,
          WatcherCancelled, Finish, rtVars
    <2>3. ASSUME NEW t \in Servers, TellSupervisor(t)
          PROVE  \A s \in Servers : told'[s] # told[s] => TasksOf(s) = {}
      BY <1>1, <2>3 DEF TellSupervisor, IInv, TypeOK
    <2>4. ASSUME NEW t \in Servers, RuntimeStep(t), ~TellSupervisor(t)
          PROVE  told' = told
      BY <2>4
      DEF RuntimeStep, LeaveBySupervisor, LeaveByShutdown, JoinTask, DrainTask,
          ReturnWithoutSupervisor, SupervisorJoined, WatchdogAborts,
          ReportRuntime
    <2>5. ASSUME NEW t \in Servers, SupervisorFails(t) \/ SupervisorStops(t)
          PROVE  told' = told
      BY <2>5 DEF SupervisorFails, SupervisorStops
    <2>6. ASSUME NEW t \in Servers, NEW k \in Connections, Accept(t, k)
          PROVE  told' = told
      BY <2>6 DEF Accept
    <2>7. ASSUME NEW k \in Connections, NEW outcome \in {"ended", "panicked"},
                 TaskEnds(k, outcome)
          PROVE  told' = told
      BY <2>7 DEF TaskEnds
    <2>8. CASE UNCHANGED vars
      BY <2>8 DEF vars
    <2> QED
      BY <1>1, <2>1, <2>2, <2>3, <2>4, <2>5, <2>6, <2>7, <2>8
      DEF Next, Terminated
  <1> QED
    BY <1>1, DaemonInvariance, PTL DEF Spec, HandlersGoneBeforeStop
=============================================================================
