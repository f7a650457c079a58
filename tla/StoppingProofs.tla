--------------------------- MODULE StoppingProofs ---------------------------
(***************************************************************************)
(* Proofs about Stopping, for all timeouts.  The invariant says of every   *)
(* stage what was waited for and may still be (Budget), how far away the  *)
(* watchdog is (Ahead), what the errors, the group and the child are worth *)
(* (Outcome) and whether the promised time is over (Promise).  There is    *)
(* one lemma per action, one step per part of the invariant.               *)
(***************************************************************************)
EXTENDS Stopping, TLAPS

Before == {"starting", "monitor", "poll"}
Delivering == {"rcon", "console"}
Forcing == {"terminate", "direct", "killing"}

\* What stop_and_reap has waited for so far, with what its await may still
\* take, is within the budgets of the stages it has entered.
Budget ==
    /\ sup \in Before => elapsed = 0
    /\ sup = "poll" => timer <= CommandTimeout
    /\ sup \in Delivering => elapsed + timer <= CommandTimeout
    /\ sup = "grace" => elapsed + timer <= CommandTimeout + ShutdownTimeout
    /\ sup \in Forcing => elapsed <= CommandTimeout + ShutdownTimeout
    /\ sup = "reap" => elapsed + timer <= CommandTimeout + ShutdownTimeout
                                             + ForcedReaping
    /\ StopWithinBudgets

\* How far the watchdog is from firing: it leaves a stop shutdown_timeout and
\* the margin, whatever came before, and so the graceful wait its time but for
\* what command_timeout exceeds the margin by.
Ahead ==
    /\ runtime = "waiting" =>
          /\ "tree" \notin errors => watch + elapsed >= ShutdownTimeout + Margin
          /\ sup = "poll" => watch >= timer + ShutdownTimeout + Margin
          /\ sup \in Delivering =>
                watch + CommandTimeout >= timer + ShutdownTimeout + Margin
          /\ sup = "grace" => watch + CommandTimeout >= timer + Margin
    /\ sup \in {"direct", "killing"} => "tree" \in errors

\* What the errors, the group and the child are worth at each stage.
Outcome ==
    /\ sup \in Before \cup Delivering \cup {"grace"} => errors = {} /\ ~forced
    /\ forced /\ "tree" \notin errors => ~tree
    /\ sup \in {"idle", "done"} => child = "reaped" /\ (forced => ~tree)
    /\ sup \in {"failed", "aborted"} => child # "running"
    /\ runtime = "ok" => sup = "done"
    /\ runtime = "error" => sup = "failed"
    /\ runtime = "timedout" => sup = "aborted"

\* The promised time is over when force is used.
Promise ==
    /\ sup \in Before \cup Delivering => owed = 0
    /\ sup = "grace" => owed = timer
    /\ sup \in Forcing \cup {"reap"} => owed = 0 \/ "wait" \in errors

\* Everything together.
IInv == TypeOK /\ Budget /\ Ahead /\ WatchdogPatient /\ Outcome /\ Promise

-----------------------------------------------------------------------------
\* A process that ends changes nothing the supervisor has seen.
LEMMA ChildExitsKeeps == ASSUME IInv, ChildExits PROVE IInv'
  <1>1. TypeOK'
    BY DEF IInv, TypeOK, ChildExits, Release
  <1>2. Budget'
    BY DEF IInv, Budget, ChildExits, StopWithinBudgets
  <1>3. Outcome'
    BY DEF IInv, Outcome, ChildExits, Alive
  <1>4. Promise'
    BY DEF IInv, Promise, ChildExits
  <1>5. Ahead' /\ WatchdogPatient'
    BY DEF IInv, Ahead, WatchdogPatient, ChildExits
  <1> QED BY <1>1, <1>2, <1>3, <1>4, <1>5 DEF IInv

\* A group that dies of itself only makes a success cleaner.
LEMMA TreeExitsKeeps == ASSUME IInv, TreeExits PROVE IInv'
  <1>1. TypeOK'
    <2>1. /\ tree' = FALSE /\ port' \in {"free", "own", "foreign"}
          /\ UNCHANGED <<sup, timer, why, errors, child, foreign, runtime, watch,
                         elapsed, owed, forced>>
      BY DEF IInv, TypeOK, TreeExits, Release
    <2> QED BY <2>1 DEF IInv, TypeOK
  <1>2. Budget'
    BY DEF IInv, Budget, TreeExits, StopWithinBudgets
  <1>3. Outcome'
    BY DEF IInv, Outcome, TreeExits
  <1>4. Promise'
    BY DEF IInv, Promise, TreeExits
  <1>5. Ahead' /\ WatchdogPatient'
    BY DEF IInv, Ahead, WatchdogPatient, TreeExits
  <1> QED BY <1>1, <1>2, <1>3, <1>4, <1>5 DEF IInv

\* Who listens on the RCON port is not part of the invariant.
LEMMA ServerBindsKeeps == ASSUME IInv, ServerBinds PROVE IInv'
  <1>1. TypeOK'
    BY DEF IInv, TypeOK, ServerBinds
  <1>2. Budget'
    BY DEF IInv, Budget, ServerBinds, StopWithinBudgets
  <1>3. Outcome'
    BY DEF IInv, Outcome, ServerBinds
  <1>4. Promise'
    BY DEF IInv, Promise, ServerBinds
  <1>5. Ahead' /\ WatchdogPatient'
    BY DEF IInv, Ahead, WatchdogPatient, ServerBinds
  <1> QED BY <1>1, <1>2, <1>3, <1>4, <1>5 DEF IInv

\* Nor is a server that somebody else started.
LEMMA ForeignBindsKeeps == ASSUME IInv, ForeignBinds PROVE IInv'
  <1>1. TypeOK'
    BY DEF IInv, TypeOK, ForeignBinds
  <1>2. Budget'
    BY DEF IInv, Budget, ForeignBinds, StopWithinBudgets
  <1>3. Outcome'
    BY DEF IInv, Outcome, ForeignBinds
  <1>4. Promise'
    BY DEF IInv, Promise, ForeignBinds
  <1>5. Ahead' /\ WatchdogPatient'
    BY DEF IInv, Ahead, WatchdogPatient, ForeignBinds
  <1> QED BY <1>1, <1>2, <1>3, <1>4, <1>5 DEF IInv

\* A stop begins with a whole command_timeout and nothing spent; after a poll
\* the margin still provides for it.
LEMMA BeginStopKeeps ==
    ASSUME IInv, sup \in {"starting", "monitor"},
           NEW reason \in {"shutdown", "failure", "idle", "wait_error"},
           BeginStop(reason)
    PROVE  IInv'
  <1>1. TypeOK'
    BY BudgetAssumption DEF IInv, TypeOK, BeginStop, procVars, InStop
  <1>2. Budget'
    BY BudgetAssumption DEF IInv, Budget, BeginStop, Before, StopWithinBudgets
  <1>3. Outcome'
    BY DEF IInv, Outcome, BeginStop, Before
  <1>4. Promise'
    BY DEF IInv, Promise, BeginStop, Before
  <1>5. Ahead' /\ WatchdogPatient'
    BY BudgetAssumption
    DEF IInv, TypeOK, Budget, Outcome, Before, Ahead, WatchdogPatient, BeginStop,
        Delivering
  <1> QED BY <1>1, <1>2, <1>3, <1>4, <1>5 DEF IInv

\* An idle supervisor ends with its process reaped.
LEMMA SeeShutdownIdleKeeps == ASSUME IInv, SeeShutdownIdle PROVE IInv'
  <1>1. TypeOK'
    BY DEF IInv, TypeOK, SeeShutdownIdle, procVars, Over
  <1>2. Budget'
    BY DEF IInv, Budget, SeeShutdownIdle, Before, Delivering, Forcing,
        StopWithinBudgets
  <1>3. Outcome'
    BY DEF IInv, Outcome, SeeShutdownIdle, procVars, Before, Delivering
  <1>4. Promise'
    BY DEF Promise, SeeShutdownIdle, Before, Delivering, Forcing
  <1>5. Ahead' /\ WatchdogPatient'
    BY DEF IInv, Ahead, WatchdogPatient, SeeShutdownIdle, Delivering
  <1> QED BY <1>1, <1>2, <1>3, <1>4, <1>5 DEF IInv

\* Readiness touches no budget.
LEMMA ReadyKeeps == ASSUME IInv, Ready PROVE IInv'
  <1>1. TypeOK'
    BY DEF IInv, TypeOK, Ready, procVars
  <1>2. Budget'
    BY BudgetAssumption
    DEF IInv, Budget, Ready, Before, Delivering, StopWithinBudgets
  <1>3. Outcome'
    BY DEF IInv, Outcome, Ready, Before
  <1>4. Promise'
    BY DEF IInv, Promise, Ready, Before
  <1>5. Ahead' /\ WatchdogPatient'
    BY DEF IInv, Ahead, WatchdogPatient, Ready
  <1> QED BY <1>1, <1>2, <1>3, <1>4, <1>5 DEF IInv

\* A process reaped before a stop leaves nothing to force.
LEMMA ExitSeenKeeps == ASSUME IInv, ExitSeen PROVE IInv'
  <1>1. TypeOK'
    BY DEF IInv, TypeOK, ExitSeen, Reap
  <1>2. Budget'
    BY BudgetAssumption
    DEF IInv, Budget, ExitSeen, Before, Delivering, StopWithinBudgets
  <1>3. Outcome'
    BY DEF IInv, Outcome, ExitSeen, Reap, Before
  <1>4. Promise'
    BY DEF Promise, ExitSeen, Before, Delivering, Forcing
  <1>5. Ahead' /\ WatchdogPatient'
    BY BudgetAssumption
    DEF IInv, TypeOK, Ahead, WatchdogPatient, ExitSeen, Delivering
  <1> QED BY <1>1, <1>2, <1>3, <1>4, <1>5 DEF IInv

\* A poll starts only before the shutdown.
LEMMA PollStartsKeeps == ASSUME IInv, PollStarts PROVE IInv'
  <1>1. TypeOK'
    BY BudgetAssumption DEF IInv, TypeOK, PollStarts, procVars
  <1>2. Budget'
    BY BudgetAssumption DEF IInv, Budget, PollStarts, Before, StopWithinBudgets
  <1>3. Outcome'
    BY DEF IInv, Outcome, PollStarts, Before
  <1>4. Promise'
    BY DEF IInv, Promise, PollStarts, Before
  <1>5. Ahead' /\ WatchdogPatient'
    BY DEF IInv, Ahead, WatchdogPatient, PollStarts
  <1> QED BY <1>1, <1>2, <1>3, <1>4, <1>5 DEF IInv

\* A poll that ends leaves the watchdog all but one command_timeout.
LEMMA PollEndsKeeps == ASSUME IInv, PollEnds PROVE IInv'
  <1>1. TypeOK'
    BY DEF IInv, TypeOK, PollEnds, procVars
  <1>2. Budget'
    BY BudgetAssumption DEF IInv, Budget, PollEnds, Before, StopWithinBudgets
  <1>3. Outcome'
    BY DEF IInv, Outcome, PollEnds, Before
  <1>4. Promise'
    BY DEF IInv, Promise, PollEnds, Before
  <1>5. Ahead' /\ WatchdogPatient'
    BY BudgetAssumption
    DEF IInv, TypeOK, Ahead, WatchdogPatient, PollEnds, Delivering
  <1> QED BY <1>1, <1>2, <1>3, <1>4, <1>5 DEF IInv

\* A delivered stop starts the promised time.
LEMMA RconStopKeeps == ASSUME IInv, RconStop PROVE IInv'
  <1>1. TypeOK'
    BY BudgetAssumption DEF IInv, TypeOK, RconStop, Delivered, InStop
  <1>2. Budget'
    BY BudgetAssumption
    DEF IInv, TypeOK, Budget, RconStop, Delivered, Before, Delivering,
        StopWithinBudgets
  <1>3. Outcome'
    BY DEF IInv, Outcome, RconStop, Delivered, Delivering
  <1>4. Promise'
    BY DEF Promise, RconStop, Delivered, Before, Delivering, Forcing
  <1>5. Ahead' /\ WatchdogPatient'
    BY BudgetAssumption
    DEF IInv, TypeOK, Ahead, WatchdogPatient, RconStop, Delivered,
        Delivering
  <1> QED BY <1>1, <1>2, <1>3, <1>4, <1>5 DEF IInv

\* The console gets what is left of the deadline, no more.
LEMMA RconFailsKeeps == ASSUME IInv, RconFails PROVE IInv'
  <1>1. TypeOK'
    BY DEF IInv, TypeOK, RconFails, Goto, procVars, InStop
  <1>2. Budget'
    BY DEF IInv, Budget, RconFails, Goto, Before, Delivering, Forcing,
        StopWithinBudgets
  <1>3. Outcome'
    BY DEF IInv, Outcome, RconFails, Goto, Delivering
  <1>4. Promise'
    BY DEF IInv, Promise, RconFails, Goto, Delivering
  <1>5. Ahead' /\ WatchdogPatient'
    BY DEF IInv, Ahead, WatchdogPatient, RconFails, Goto, Delivering
  <1> QED BY <1>1, <1>2, <1>3, <1>4, <1>5 DEF IInv

\* A delivered stop starts the promised time.
LEMMA ConsoleStopKeeps == ASSUME IInv, ConsoleStop PROVE IInv'
  <1>1. TypeOK'
    BY BudgetAssumption
    DEF IInv, TypeOK, ConsoleStop, Delivered, procVars, InStop
  <1>2. Budget'
    BY BudgetAssumption
    DEF IInv, TypeOK, Budget, ConsoleStop, Delivered, Before, Delivering,
        StopWithinBudgets
  <1>3. Outcome'
    BY DEF IInv, Outcome, ConsoleStop, Delivered, Delivering
  <1>4. Promise'
    BY DEF Promise, ConsoleStop, Delivered, Before, Delivering, Forcing
  <1>5. Ahead' /\ WatchdogPatient'
    BY BudgetAssumption
    DEF IInv, TypeOK, Ahead, WatchdogPatient, ConsoleStop, Delivered,
        Delivering
  <1> QED BY <1>1, <1>2, <1>3, <1>4, <1>5 DEF IInv

\* Nothing was promised when the stop could not be delivered.
LEMMA NotDeliveredKeeps == ASSUME IInv, NotDelivered PROVE IInv'
  <1>1. TypeOK'
    BY DEF IInv, TypeOK, NotDelivered, Goto, procVars, InStop
  <1>2. Budget'
    BY BudgetAssumption
    DEF IInv, TypeOK, Budget, NotDelivered, Goto, Before, Delivering,
        StopWithinBudgets
  <1>3. Outcome'
    BY DEF IInv, Outcome, NotDelivered, Goto, Delivering
  <1>4. Promise'
    BY DEF IInv, Promise, NotDelivered, Goto, Delivering
  <1>5. Ahead' /\ WatchdogPatient'
    BY BudgetAssumption
    DEF IInv, TypeOK, Ahead, WatchdogPatient, NotDelivered, Goto,
        Delivering
  <1> QED BY <1>1, <1>2, <1>3, <1>4, <1>5 DEF IInv

\* A graceful exit is reaped, with no error and no force.
LEMMA GraceEndsKeeps == ASSUME IInv, GraceEnds PROVE IInv'
  <1>1. TypeOK'
    BY DEF IInv, TypeOK, GraceEnds, Return, Reap, Reaped, Over
  <1>2. Budget'
    BY DEF IInv, Budget, GraceEnds, Return, Before, Delivering, Forcing,
        StopWithinBudgets
  <1>3. Outcome'
    BY DEF IInv, Outcome, GraceEnds, Return, Reap, Reaped
  <1>4. Promise'
    BY DEF Promise, GraceEnds, Return, Before, Delivering, Forcing
  <1>5. Ahead' /\ WatchdogPatient'
    BY DEF IInv, Ahead, WatchdogPatient, GraceEnds, Return, Delivering
  <1> QED BY <1>1, <1>2, <1>3, <1>4, <1>5 DEF IInv

\* The error of the wait is kept, and excuses the force that follows.
LEMMA GraceWaitFailsKeeps == ASSUME IInv, GraceWaitFails PROVE IInv'
  <1>1. TypeOK'
    BY DEF IInv, TypeOK, GraceWaitFails, Goto, procVars, InStop
  <1>2. Budget'
    BY BudgetAssumption
    DEF IInv, TypeOK, Budget, GraceWaitFails, Goto, Before, Delivering,
        StopWithinBudgets
  <1>3. Outcome'
    BY DEF IInv, Outcome, GraceWaitFails, Goto, Before, Delivering
  <1>4. Promise'
    BY DEF Promise, GraceWaitFails, Goto, Before, Delivering
  <1>5. Ahead' /\ WatchdogPatient'
    BY BudgetAssumption
    DEF IInv, TypeOK, Ahead, WatchdogPatient, GraceWaitFails, Goto,
        Delivering
  <1> QED BY <1>1, <1>2, <1>3, <1>4, <1>5 DEF IInv

\* Force follows when the promised time is over.
LEMMA GraceTimesOutKeeps == ASSUME IInv, GraceTimesOut PROVE IInv'
  <1>1. TypeOK'
    BY DEF IInv, TypeOK, GraceTimesOut, Goto, procVars, InStop
  <1>2. Budget'
    BY DEF IInv, TypeOK, Budget, GraceTimesOut, Goto, Before, Delivering,
        StopWithinBudgets
  <1>3. Outcome'
    BY DEF IInv, Outcome, GraceTimesOut, Goto
  <1>4. Promise'
    BY DEF IInv, Promise, GraceTimesOut, Goto
  <1>5. Ahead' /\ WatchdogPatient'
    BY BudgetAssumption
    DEF IInv, Ahead, WatchdogPatient, GraceTimesOut, Goto, Delivering
  <1> QED BY <1>1, <1>2, <1>3, <1>4, <1>5 DEF IInv

\* A query that fails is an error; an exit that is found is reaped.
LEMMA TerminateEarlyKeeps == ASSUME IInv, TerminateEarly PROVE IInv'
  <1>1. TypeOK'
    <2>1. /\ errors' \subseteq {"wait", "query", "tree"}
          /\ child' \in {"running", "killed", "dead", "reaped"}
      BY DEF IInv, TypeOK, TerminateEarly, Reap, Reaped
    <2>2. /\ sup' = "reap" /\ timer' = ForcedReaping
          /\ UNCHANGED <<why, tree, port, foreign, runtime, watch, elapsed, owed,
                         forced>>
      BY DEF TerminateEarly, Goto
    <2> QED BY <2>1, <2>2, BudgetAssumption DEF IInv, TypeOK, InStop
  <1>2. Budget'
    BY BudgetAssumption
    DEF IInv, TypeOK, Budget, TerminateEarly, Goto, Before, Delivering,
        Forcing, StopWithinBudgets
  <1>3. Outcome'
    BY DEF IInv, Outcome, TerminateEarly, Goto, Before, Delivering
  <1>4. Promise'
    BY DEF IInv, Promise, TerminateEarly, Goto, Before, Delivering, Forcing
  <1>5. Ahead' /\ WatchdogPatient'
    BY DEF IInv, Ahead, WatchdogPatient, TerminateEarly, Goto, Delivering
  <1> QED BY <1>1, <1>2, <1>3, <1>4, <1>5 DEF IInv

\* The group is gone once killpg has reached it.
LEMMA KillGroupKeeps == ASSUME IInv, KillGroup PROVE IInv'
  <1>1. TypeOK'
    BY BudgetAssumption DEF IInv, TypeOK, KillGroup, Goto, Kill, InStop
  <1>2. Budget'
    BY BudgetAssumption
    DEF IInv, TypeOK, Budget, KillGroup, Goto, Before, Delivering, Forcing,
        StopWithinBudgets
  <1>3. Outcome'
    BY DEF IInv, Outcome, KillGroup, Goto, Before, Delivering
  <1>4. Promise'
    BY DEF IInv, Promise, KillGroup, Goto, Before, Delivering, Forcing
  <1>5. Ahead' /\ WatchdogPatient'
    BY DEF IInv, Ahead, WatchdogPatient, KillGroup, Goto, Delivering
  <1> QED BY <1>1, <1>2, <1>3, <1>4, <1>5 DEF IInv

\* A group that could not be killed is an error for good.
LEMMA KillGroupFailsKeeps == ASSUME IInv, KillGroupFails PROVE IInv'
  <1>1. TypeOK'
    BY DEF IInv, TypeOK, KillGroupFails, Goto, procVars, InStop
  <1>2. Budget'
    BY DEF IInv, Budget, KillGroupFails, Goto, Before, Delivering, Forcing,
        StopWithinBudgets
  <1>3. Outcome'
    BY DEF IInv, Outcome, KillGroupFails, Goto, Before, Delivering
  <1>4. Promise'
    BY DEF IInv, Promise, KillGroupFails, Goto, Before, Delivering, Forcing
  <1>5. Ahead' /\ WatchdogPatient'
    BY DEF IInv, Ahead, WatchdogPatient, KillGroupFails, Goto, Delivering
  <1> QED BY <1>1, <1>2, <1>3, <1>4, <1>5 DEF IInv

\* The fallback keeps the error of the group.
LEMMA DirectEarlyKeeps == ASSUME IInv, DirectEarly PROVE IInv'
  <1>1. TypeOK'
    BY BudgetAssumption DEF IInv, TypeOK, DirectEarly, Goto, Reap, InStop
  <1>2. Budget'
    BY BudgetAssumption
    DEF IInv, TypeOK, Budget, DirectEarly, Goto, Before, Delivering, Forcing,
        StopWithinBudgets
  <1>3. Outcome'
    BY DEF IInv, Outcome, DirectEarly, Goto, Before, Delivering
  <1>4. Promise'
    BY DEF IInv, Promise, DirectEarly, Goto, Before, Delivering, Forcing
  <1>5. Ahead' /\ WatchdogPatient'
    BY DEF IInv, Ahead, WatchdogPatient, DirectEarly, Goto, Delivering
  <1> QED BY <1>1, <1>2, <1>3, <1>4, <1>5 DEF IInv

\* The fallback keeps the error of the group.
LEMMA DirectKillKeeps == ASSUME IInv, DirectKill PROVE IInv'
  <1>1. TypeOK'
    BY DEF IInv, TypeOK, DirectKill, Goto, Kill, InStop
  <1>2. Budget'
    BY DEF IInv, Budget, DirectKill, Goto, Before, Delivering, Forcing,
        StopWithinBudgets
  <1>3. Outcome'
    BY DEF IInv, Outcome, DirectKill, Goto, Before, Delivering
  <1>4. Promise'
    BY DEF IInv, Promise, DirectKill, Goto, Before, Delivering, Forcing
  <1>5. Ahead' /\ WatchdogPatient'
    BY DEF IInv, Ahead, WatchdogPatient, DirectKill, Goto, Delivering
  <1> QED BY <1>1, <1>2, <1>3, <1>4, <1>5 DEF IInv

\* The fallback keeps the error of the group.
LEMMA DirectKilledKeeps == ASSUME IInv, DirectKilled PROVE IInv'
  <1>1. TypeOK'
    BY BudgetAssumption DEF IInv, TypeOK, DirectKilled, Goto, Reap, InStop
  <1>2. Budget'
    BY BudgetAssumption
    DEF IInv, TypeOK, Budget, DirectKilled, Goto, Before, Delivering, Forcing,
        StopWithinBudgets
  <1>3. Outcome'
    BY DEF IInv, Outcome, DirectKilled, Goto, Before, Delivering
  <1>4. Promise'
    BY DEF IInv, Promise, DirectKilled, Goto, Before, Delivering, Forcing
  <1>5. Ahead' /\ WatchdogPatient'
    BY DEF IInv, Ahead, WatchdogPatient, DirectKilled, Goto, Delivering
  <1> QED BY <1>1, <1>2, <1>3, <1>4, <1>5 DEF IInv

\* A success has no error, so a forced group is gone.
LEMMA ReapEndsKeeps == ASSUME IInv, ReapEnds PROVE IInv'
  <1>1. TypeOK'
    BY DEF IInv, TypeOK, ReapEnds, Return, Reap, Reaped, Over
  <1>2. Budget'
    BY DEF IInv, Budget, ReapEnds, Return, Before, Delivering, Forcing,
        StopWithinBudgets
  <1>3. Outcome'
    BY DEF IInv, Outcome, ReapEnds, Return, Reap, Reaped, Before, Delivering
  <1>4. Promise'
    BY DEF Promise, ReapEnds, Return, Before, Delivering, Forcing
  <1>5. Ahead' /\ WatchdogPatient'
    BY DEF IInv, Ahead, WatchdogPatient, ReapEnds, Return, Delivering
  <1> QED BY <1>1, <1>2, <1>3, <1>4, <1>5 DEF IInv

\* A process given up is killed by being dropped.
LEMMA ReapFailsKeeps == ASSUME IInv, ReapFails PROVE IInv'
  <1>1. TypeOK'
    BY DEF IInv, TypeOK, ReapFails, Return, DropChild, Kill, Over
  <1>2. Budget'
    BY DEF IInv, Budget, ReapFails, Return, Before, Delivering, Forcing,
        StopWithinBudgets
  <1>3. Outcome'
    BY DEF IInv, Outcome, ReapFails, Return, DropChild, Kill, Before,
        Delivering
  <1>4. Promise'
    BY DEF Promise, ReapFails, Return, Before, Delivering, Forcing
  <1>5. Ahead' /\ WatchdogPatient'
    BY DEF IInv, Ahead, WatchdogPatient, ReapFails, Return, Delivering
  <1> QED BY <1>1, <1>2, <1>3, <1>4, <1>5 DEF IInv

\* The watchdog starts with more than any stage may still take.
LEMMA ShutdownKeeps == ASSUME IInv, Shutdown PROVE IInv'
  <1>1. TypeOK'
    BY BudgetAssumption DEF IInv, TypeOK, Shutdown, WaitLimit, procVars
  <1>2. Budget'
    BY DEF IInv, Budget, Shutdown, StopWithinBudgets
  <1>3. Outcome'
    BY DEF IInv, Outcome, Shutdown, procVars
  <1>4. Promise'
    BY DEF IInv, Promise, Shutdown
  <1>5. Ahead' /\ WatchdogPatient'
    BY BudgetAssumption
    DEF IInv, TypeOK, Ahead, WatchdogPatient, Budget, Shutdown,
        WaitLimit
  <1> QED BY <1>1, <1>2, <1>3, <1>4, <1>5 DEF IInv

\* The runtime's result is the supervisor's.
LEMMA JoinKeeps == ASSUME IInv, Join PROVE IInv'
  <1>1. TypeOK'
    BY DEF IInv, TypeOK, Join, procVars
  <1>2. Budget'
    BY DEF IInv, Budget, Join, StopWithinBudgets
  <1>3. Outcome'
    BY DEF IInv, Outcome, Join, procVars
  <1>4. Promise'
    BY DEF Promise, Join, Before, Delivering, Forcing
  <1>5. Ahead' /\ WatchdogPatient'
    BY DEF Ahead, WatchdogPatient, Join
  <1> QED BY <1>1, <1>2, <1>3, <1>4, <1>5 DEF IInv

\* What the watchdog has left is nothing, so the stop has had the rest.
LEMMA WatchdogKeeps == ASSUME IInv, Watchdog PROVE IInv'
  <1>1. TypeOK'
    BY DEF IInv, TypeOK, Watchdog, DropChild, Kill, Over
  <1>2. Budget'
    BY DEF IInv, Budget, Watchdog, Before, Delivering, Forcing,
        StopWithinBudgets
  <1>3. Outcome'
    BY DEF IInv, Outcome, Watchdog, DropChild, Kill, Before, Delivering
  <1>4. Promise'
    BY DEF Promise, Watchdog, Before, Delivering, Forcing
  <1>5. Ahead' /\ WatchdogPatient'
    BY BudgetAssumption
    DEF IInv, TypeOK, Ahead, WatchdogPatient, Watchdog, InStop, Delivering
  <1> QED BY <1>1, <1>2, <1>3, <1>4, <1>5 DEF IInv

\* Time takes from the timer and from the watchdog alike.
LEMMA TickKeeps == ASSUME IInv, Tick PROVE IInv'
  <1>1. TypeOK'
    BY DEF IInv, TypeOK, Tick, Due, procVars
  <1>2. Budget'
    BY BudgetAssumption
    DEF IInv, TypeOK, Budget, Tick, Due, Timed, Before, Delivering, Forcing,
        StopWithinBudgets
  <1>3. Outcome'
    BY DEF IInv, Outcome, Tick, procVars
  <1>4. Promise'
    BY DEF IInv, TypeOK, Promise, Tick, Due, Timed
  <1>5. Ahead' /\ WatchdogPatient'
    BY BudgetAssumption
    DEF IInv, TypeOK, Ahead, WatchdogPatient, Tick, Due, Timed, Delivering,
        InStop, Over
  <1> QED BY <1>1, <1>2, <1>3, <1>4, <1>5 DEF IInv

\* At first nothing is spent, promised or wrong.
LEMMA Initially == Init => IInv
  <1> SUFFICES ASSUME Init PROVE IInv
    OBVIOUS
  <1>1. TypeOK
    BY DEF Init, TypeOK
  <1>2. Budget /\ Outcome /\ Promise
    BY BudgetAssumption DEF Init, Budget, StopWithinBudgets, Outcome, Promise
  <1>3. Ahead /\ WatchdogPatient
    BY DEF Init, Ahead, WatchdogPatient
  <1> QED BY <1>1, <1>2, <1>3 DEF IInv

\* A stutter changes nothing.
LEMMA StutterKeeps == ASSUME IInv, UNCHANGED vars PROVE IInv'
  BY DEF IInv, TypeOK, Budget, StopWithinBudgets, Outcome, Promise, Ahead,
      WatchdogPatient, vars

-----------------------------------------------------------------------------
\* The invariant holds in every reachable state.
THEOREM StoppingInvariance == Spec => []IInv
  <1>1. ASSUME IInv, Next PROVE IInv'
    <2>1. CASE SupervisorNext
      <3>1. ASSUME SeeShutdown \/ StartupTimesOut \/ StopIdle \/ WaitFails
            PROVE  IInv'
        BY <1>1, <3>1, BeginStopKeeps
        DEF SeeShutdown, StartupTimesOut, StopIdle, WaitFails
      <3> QED
        BY <1>1, <2>1, <3>1, SeeShutdownIdleKeeps, ReadyKeeps, ExitSeenKeeps,
            PollStartsKeeps, PollEndsKeeps, RconStopKeeps, RconFailsKeeps,
            ConsoleStopKeeps, NotDeliveredKeeps, GraceEndsKeeps,
            GraceWaitFailsKeeps, GraceTimesOutKeeps, TerminateEarlyKeeps,
            KillGroupKeeps, KillGroupFailsKeeps, DirectEarlyKeeps,
            DirectKillKeeps, DirectKilledKeeps, ReapEndsKeeps, ReapFailsKeeps
        DEF SupervisorNext
    <2> QED
      BY <1>1, <2>1, ChildExitsKeeps, TreeExitsKeeps, ServerBindsKeeps,
          ForeignBindsKeeps, ShutdownKeeps, JoinKeeps, WatchdogKeeps,
          TickKeeps, StutterKeeps
      DEF Next, Terminated
  <1>2. IInv /\ [Next]_vars => IInv'
    BY <1>1, StutterKeeps
  <1> QED BY Initially, <1>2, PTL DEF Spec

\* Every variable has its type, whatever the budgets.
THEOREM TypeCorrect == Spec => []TypeOK
  <1>1. IInv => TypeOK
    BY DEF IInv
  <1> QED BY StoppingInvariance, <1>1, PTL

\* The timed waits of stop_and_reap together never exceed command_timeout,
\* shutdown_timeout and the five seconds of the forced reaping.
THEOREM StopIsBounded == Spec => []StopWithinBudgets
  <1>1. IInv => StopWithinBudgets
    BY DEF IInv, Budget
  <1> QED BY StoppingInvariance, <1>1, PTL

\* A stop that finish_shutdown cuts short, other than in its direct kill, has
\* had shutdown_timeout and the margin, for all timeouts.
THEOREM WatchdogIsPatient == Spec => []WatchdogPatient
  <1>1. IInv => WatchdogPatient
    BY DEF IInv
  <1> QED BY StoppingInvariance, <1>1, PTL

\* So when one command_timeout and the forced reaping are less than the margin
\* of supervisor_shutdown_wait_limit, finish_shutdown gives up only on a
\* supervisor that could not kill its process group.
THEOREM RoomyMarginSuffices ==
    CommandTimeout + ForcedReaping < Margin => (Spec => []CleanupFitsWatchdog)
  <1> SUFFICES ASSUME CommandTimeout + ForcedReaping < Margin
               PROVE  Spec => []CleanupFitsWatchdog
    OBVIOUS
  <1>1. IInv => CleanupFitsWatchdog
    BY BudgetAssumption
    DEF IInv, TypeOK, Budget, StopWithinBudgets, WatchdogPatient,
        CleanupFitsWatchdog
  <1> QED BY StoppingInvariance, <1>1, PTL

\* stop_and_reap reports success only of a process that is reaped, and never
\* covers up a group it could not kill.
THEOREM SuccessIsClean == Spec => []CleanStop
  <1>1. IInv => CleanStop
    BY DEF IInv, Outcome, CleanStop
  <1> QED BY StoppingInvariance, <1>1, PTL

\* A process that was sent its stop command has shutdown_timeout before it is
\* killed, for all timeouts: only a failed wait takes more from it than what
\* command_timeout exceeds the margin by, which is nothing where it does not.
THEOREM GraceIsKept == Spec => GraceHonoured
  <1> DEFINE Excused == \/ owed = 0
                        \/ runtime' = "timedout" /\ owed + Margin <= CommandTimeout
                        \/ "wait" \in errors
             Kept == child = "running" /\ child' = "killed" => Excused
  <1>1. ASSUME IInv, Next PROVE Kept
    <2> SUFFICES ASSUME child = "running", child' = "killed"
                 PROVE  Excused
      OBVIOUS
    <2>1. KillGroup \/ DirectKill \/ ReapFails \/ Watchdog
      <3>1. ~(ChildExits \/ TreeExits \/ ServerBinds \/ ForeignBinds
              \/ Shutdown \/ Join \/ Tick \/ Terminated)
        BY DEF ChildExits, TreeExits, ServerBinds, ForeignBinds, Shutdown,
            Join, Tick, Terminated, procVars, vars
      <3>2. ~(SeeShutdown \/ SeeShutdownIdle \/ Ready \/ StartupTimesOut
              \/ StopIdle \/ WaitFails \/ ExitSeen \/ PollStarts \/ PollEnds)
        BY DEF SeeShutdown, SeeShutdownIdle, Ready, StartupTimesOut, StopIdle,
            WaitFails, ExitSeen, PollStarts, PollEnds, BeginStop, Reap,
            procVars
      <3>3. ~(RconStop \/ RconFails \/ ConsoleStop \/ NotDelivered
              \/ GraceEnds \/ GraceWaitFails \/ GraceTimesOut)
        BY DEF RconStop, RconFails, ConsoleStop, NotDelivered, GraceEnds,
            GraceWaitFails, GraceTimesOut, Reap, Reaped, procVars
      <3>4. ~(TerminateEarly \/ KillGroupFails \/ DirectEarly
              \/ DirectKilled \/ ReapEnds)
        BY DEF TerminateEarly, KillGroupFails, DirectEarly, DirectKilled,
            ReapEnds, Reap, Reaped, procVars
      <3> QED BY <1>1, <3>1, <3>2, <3>3, <3>4 DEF Next, SupervisorNext
    <2>2. CASE KillGroup \/ DirectKill \/ ReapFails
      BY <1>1, <2>2
      DEF IInv, Promise, Forcing, KillGroup, DirectKill, ReapFails
    <2>3. CASE Watchdog
      BY <1>1, <2>3, BudgetAssumption
      DEF IInv, TypeOK, Ahead, Outcome, Promise, Watchdog, Before,
          Delivering, Forcing, InStop
    <2> QED BY <2>1, <2>2, <2>3
  <1>2. IInv /\ [Next]_vars => [Kept]_vars
    BY <1>1
  <1> QED BY StoppingInvariance, <1>2, PTL DEF Spec, GraceHonoured
=============================================================================
