-------------------------- MODULE SupervisorProofs --------------------------
(***************************************************************************)
(* Proofs, for every set of connections, every bound on logins and both    *)
(* RCON configurations, that the invariants of Supervisor hold and that    *)
(* Supervisor implements NapServer.                                        *)
(*                                                                         *)
(* The inductive invariant IInv joins type correctness and the checked     *)
(* invariants with three facts that make them inductive: where the backoff *)
(* time stands at every await, that no latch is left over outside the      *)
(* awaits that own one, and that every observation of the current          *)
(* generation, in flight, queued, latched or acted on, stems from a login  *)
(* made since the last attempt.  A section of its own, at the end, proves  *)
(* that a stale observation never equals a new lifecycle.                  *)
(***************************************************************************)
EXTENDS Supervisor, TLAPS

(***************************************************************************)
(* Facts about the operators of Lifecycle: what a probe is classified as,  *)
(* and what each transition of SupervisorControl publishes, field by       *)
(* field.                                                                  *)
(***************************************************************************)

\* The fields of a lifecycle have their types.
LEMMA LifecycleFields ==
    ASSUME NEW l \in LifecycleState
    PROVE  /\ l.phase \in ServerPhase
           /\ l.launch_generation \in Nat
           /\ l.failure \in FailureCategory \cup {NoFailure}
           /\ l.failure_streak \in Nat
           /\ l.evidence \in ReconciliationEvidence
  BY DEF LifecycleState

\* Replacing fields by values of their types gives a lifecycle: the phase
\* alone, with the evidence, with the generation and the evidence, with the
\* failure and its streak, and all five.
LEMMA UpdatePhase ==
    ASSUME NEW l \in LifecycleState, NEW p \in ServerPhase
    PROVE  [l EXCEPT !.phase = p] \in LifecycleState
  BY DEF LifecycleState

LEMMA UpdateEvidence ==
    ASSUME NEW l \in LifecycleState, NEW p \in ServerPhase,
           NEW e \in ReconciliationEvidence
    PROVE  [l EXCEPT !.phase = p, !.evidence = e] \in LifecycleState
  BY DEF LifecycleState

LEMMA UpdateGeneration ==
    ASSUME NEW l \in LifecycleState, NEW p \in ServerPhase,
           NEW g \in Nat, NEW e \in ReconciliationEvidence
    PROVE  [l EXCEPT !.phase = p, !.launch_generation = g, !.evidence = e]
              \in LifecycleState
  BY DEF LifecycleState

LEMMA UpdateFailure ==
    ASSUME NEW l \in LifecycleState, NEW p \in ServerPhase,
           NEW f \in FailureCategory \cup {NoFailure}, NEW s \in Nat
    PROVE  [l EXCEPT !.phase = p, !.failure = f, !.failure_streak = s]
              \in LifecycleState
  BY DEF LifecycleState

LEMMA UpdateAll ==
    ASSUME NEW l \in LifecycleState, NEW p \in ServerPhase,
           NEW g \in Nat, NEW f \in FailureCategory \cup {NoFailure},
           NEW s \in Nat, NEW e \in ReconciliationEvidence
    PROVE  [l EXCEPT !.phase = p, !.launch_generation = g, !.failure = f,
                     !.failure_streak = s, !.evidence = e] \in LifecycleState
  BY DEF LifecycleState

\* The value the channel is created with.
LEMMA ReconcilingType == reconciling \in LifecycleState
  BY DEF reconciling, LifecycleState, ServerPhase, ReconciliationEvidence

\* A probe falls in one of four classes.
LEMMA ClassificationType ==
    \A probe : classification(probe) \in
        {"FullyReady", "Positive", "Clean", "Inconclusive"}
  BY DEF classification

\* A backoff is a number of ticks.
LEMMA BackoffType == \A streak : failure_backoff(streak) \in Nat
  BY DEF failure_backoff

\* next is a lifecycle with these fields.
Publishes(next, phase, generation, failure, streak, evidence) ==
    /\ next \in LifecycleState
    /\ next.phase = phase
    /\ next.launch_generation = generation
    /\ next.failure = failure
    /\ next.failure_streak = streak
    /\ next.evidence = evidence

\* What each transition publishes.
LEMMA PhaseChanges ==
    ASSUME NEW l \in LifecycleState
    PROVE  /\ \A phase \in ServerPhase :
                 Publishes(set_phase(l, phase), phase, l.launch_generation,
                           l.failure, l.failure_streak, l.evidence)
           /\ Publishes(publish_running(l), "Running", l.launch_generation,
                        l.failure, l.failure_streak, l.evidence)
           /\ Publishes(finish_failure_cleanup(l), "Cooldown",
                        l.launch_generation,
                        l.failure, l.failure_streak, l.evidence)
           /\ Publishes(begin_reconciliation(l), "Reconciling",
                        l.launch_generation,
                        l.failure, l.failure_streak, l.evidence)
  BY DEF Publishes, LifecycleState, ServerPhase, set_phase, publish_running,
         finish_failure_cleanup, begin_reconciliation

LEMMA PublishStopped ==
    ASSUME NEW l \in LifecycleState
    PROVE  Publishes(publish_stopped_after_clean_reconciliation(l), "Stopped",
                     l.launch_generation,
                     l.failure, l.failure_streak, "None")
  <1> DEFINE next == publish_stopped_after_clean_reconciliation(l)
  <1>1. next \in LifecycleState
    BY LifecycleFields, UpdateEvidence
    DEF publish_stopped_after_clean_reconciliation, ServerPhase,
        ReconciliationEvidence
  <1> QED
    BY <1>1 DEF Publishes, publish_stopped_after_clean_reconciliation,
                LifecycleState

LEMMA LaunchSuccess ==
    ASSUME NEW l \in LifecycleState
    PROVE  Publishes(record_launch_success(l), "Starting",
                     l.launch_generation + 1,
                     l.failure, l.failure_streak, "None")
  <1> DEFINE next == record_launch_success(l)
  <1>1. l.launch_generation + 1 \in Nat
    BY LifecycleFields
  <1>2. next \in LifecycleState
    BY <1>1, LifecycleFields, UpdateGeneration
    DEF record_launch_success, ServerPhase, ReconciliationEvidence
  <1> QED
    BY <1>2 DEF Publishes, record_launch_success, LifecycleState

LEMMA LaunchFailure ==
    ASSUME NEW l \in LifecycleState
    PROVE  Publishes(record_launch_failure(l), "Cooldown",
                     l.launch_generation + 1,
                     "LaunchFailed", l.failure_streak + 1, "None")
  <1> DEFINE next == record_launch_failure(l)
  <1>1. /\ l.launch_generation + 1 \in Nat
        /\ l.failure_streak + 1 \in Nat
    BY LifecycleFields
  <1>2. next \in LifecycleState
    BY <1>1, LifecycleFields, UpdateAll
    DEF record_launch_failure, ServerPhase, ReconciliationEvidence,
        FailureCategory
  <1> QED
    BY <1>2 DEF Publishes, record_launch_failure, LifecycleState

LEMMA ReapedFailure ==
    ASSUME NEW l \in LifecycleState, NEW category \in FailureCategory
    PROVE  Publishes(record_reaped_failure(l, category), "Cooldown",
                     l.launch_generation,
                     category, l.failure_streak + 1, l.evidence)
  <1> DEFINE next == record_reaped_failure(l, category)
  <1>1. l.failure_streak + 1 \in Nat
    BY LifecycleFields
  <1>2. next \in LifecycleState
    BY <1>1, LifecycleFields, UpdateFailure
    DEF record_reaped_failure, ServerPhase
  <1> QED
    BY <1>2 DEF Publishes, record_reaped_failure, LifecycleState

LEMMA BeginFailureCleanup ==
    ASSUME NEW l \in LifecycleState, NEW category \in FailureCategory
    PROVE  Publishes(begin_failure_cleanup(l, category), "Stopping",
                     l.launch_generation,
                     category, l.failure_streak + 1, l.evidence)
  <1> DEFINE next == begin_failure_cleanup(l, category)
  <1>1. l.failure_streak + 1 \in Nat
    BY LifecycleFields
  <1>2. next \in LifecycleState
    BY <1>1, LifecycleFields, UpdateFailure
    DEF begin_failure_cleanup, ServerPhase
  <1> QED
    BY <1>2 DEF Publishes, begin_failure_cleanup, LifecycleState

LEMMA ResetStreak ==
    ASSUME NEW l \in LifecycleState
    PROVE  Publishes(reset_failure_streak(l), l.phase,
                     l.launch_generation,
                     NoFailure, 0, l.evidence)
  <1> DEFINE next == reset_failure_streak(l)
  <1>1. next \in LifecycleState
    BY DEF reset_failure_streak, LifecycleState
  <1> QED
    BY <1>1 DEF Publishes, reset_failure_streak, LifecycleState

LEMMA BeginIdleStop ==
    ASSUME NEW l \in LifecycleState
    PROVE  Publishes(begin_idle_stop(l), "Stopping",
                     l.launch_generation,
                     NoFailure, 0, l.evidence)
  <1> DEFINE next == begin_idle_stop(l)
  <1>1. next \in LifecycleState
    BY LifecycleFields, UpdateFailure DEF begin_idle_stop, ServerPhase
  <1> QED
    BY <1>1 DEF Publishes, begin_idle_stop, LifecycleState

LEMMA PublishExternal ==
    ASSUME NEW l \in LifecycleState, NEW consume \in BOOLEAN
    PROVE  Publishes(publish_external(l, consume), "External",
                     IF consume THEN l.launch_generation + 1
                     ELSE l.launch_generation,
                     l.failure, l.failure_streak, "Positive")
  <1> DEFINE next == publish_external(l, consume)
  <1>1. l.launch_generation + 1 \in Nat
    BY LifecycleFields
  <1>2. next \in LifecycleState
    <2>1. CASE consume
      BY <2>1, <1>1, LifecycleFields, UpdateGeneration
      DEF publish_external, ServerPhase, ReconciliationEvidence
    <2>2. CASE ~consume
      BY <2>2, <1>1, LifecycleFields, UpdateGeneration
      DEF publish_external, ServerPhase, ReconciliationEvidence
    <2> QED
      BY <2>1, <2>2
  <1> QED
    BY <1>2 DEF Publishes, publish_external, LifecycleState

LEMMA PublishConflict ==
    ASSUME NEW l \in LifecycleState,
           NEW evidence \in {"Positive", "Inconclusive"},
           NEW consume \in BOOLEAN
    PROVE  Publishes(publish_conflict(l, evidence, consume), "Conflict",
                     IF consume THEN l.launch_generation + 1
                     ELSE l.launch_generation,
                     l.failure, l.failure_streak, evidence)
  <1> DEFINE next == publish_conflict(l, evidence, consume)
  <1>1. l.launch_generation + 1 \in Nat
    BY LifecycleFields
  <1>2. next \in LifecycleState
    <2>1. CASE consume
      BY <2>1, <1>1, LifecycleFields, UpdateGeneration
      DEF publish_conflict, ServerPhase, ReconciliationEvidence
    <2>2. CASE ~consume
      BY <2>2, <1>1, LifecycleFields, UpdateGeneration
      DEF publish_conflict, ServerPhase, ReconciliationEvidence
    <2> QED
      BY <2>1, <2>2
  <1> QED
    BY <1>2 DEF Publishes, publish_conflict, LifecycleState

-----------------------------------------------------------------------------
(***************************************************************************)
(* The invariant, its initial states and its steps; NapServer.             *)
(***************************************************************************)

\* Awaits at which no process is owned and no cooldown runs.
RestPC == {"startup", "idle", "demand", "gate", "external", "external_probe"}

\* The time already waited covers the backoff of the streak wherever a new
\* attempt may start, and will cover it when a running cooldown expires.
BackoffInv ==
    /\ pc \in RestPC /\ lc.failure # NoFailure
          => sinceGone >= failure_backoff(lc.failure_streak)
    /\ pc = "cooldown"
          => sinceGone + cooldown >= failure_backoff(lc.failure_streak)

\* Before the first probe there is no evidence; a Positive one is final.
EvidenceInv ==
    /\ pc = "startup" => ~seenPositive /\ lc.evidence = "None"
    /\ StickyPositive

\* An observation was published no later than the current lifecycle, and one
\* of the current generation means that somebody asked in it.
Backed(observation) ==
    observation # NoObservation =>
        /\ observation.launch_generation <= lc.launch_generation
        /\ observation.launch_generation = lc.launch_generation => asked

DemandInv ==
    /\ Backed(wake)
    /\ \A c \in Clients : Backed(observed[c])
    /\ latch => asked
    /\ pc \in {"demand", "gate"} => asked
    /\ pc \in {"idle", "demand", "gate", "external", "external_probe",
               "readiness", "running"} => ~latch

IInv ==
    /\ TypeOK
    /\ AssertionsHold
    /\ ProcessOwnership
    /\ EvidenceInv
    /\ BackoffInv
    /\ DemandInv
-----------------------------------------------------------------------------
\* The supervisor starts in the invariant.
LEMMA InitIInv == Init => IInv
  <1> SUFFICES ASSUME Init PROVE IInv
    OBVIOUS
  <1>1. observed \in [Clients -> LifecycleState \cup {NoObservation}]
    BY DEF Init
  <1>2. TypeOK
    BY <1>1, ReconcilingType DEF Init, TypeOK, PC
  <1>3. AssertionsHold
    BY DEF Init, AssertionsHold, reconciling, invariant_holds
  <1>4. ProcessOwnership
    BY DEF Init, ProcessOwnership, OwningPC
  <1>5. EvidenceInv
    BY DEF Init, EvidenceInv, StickyPositive, reconciling
  <1>6. BackoffInv
    BY DEF Init, BackoffInv, RestPC, reconciling, NoFailure
  <1>7. DemandInv
    BY DEF Init, DemandInv, Backed, reconciling
  <1> QED
    BY <1>2, <1>3, <1>4, <1>5, <1>6, <1>7 DEF IInv

\* A step to the next generation leaves every older observation behind.
LEMMA OlderObservation ==
    ASSUME TypeOK, lc'.launch_generation = lc.launch_generation + 1,
           NEW observation \in LifecycleState \cup {NoObservation},
           Backed(observation)
    PROVE  observation # NoObservation =>
              /\ observation.launch_generation <= lc'.launch_generation
              /\ observation.launch_generation # lc'.launch_generation
  <1> SUFFICES ASSUME observation # NoObservation
               PROVE  /\ observation.launch_generation <= lc'.launch_generation
                      /\ observation.launch_generation # lc'.launch_generation
    OBVIOUS
  <1>1. /\ observation.launch_generation \in Nat
        /\ lc.launch_generation \in Nat
    BY LifecycleFields DEF TypeOK
  <1>2. observation.launch_generation <= lc.launch_generation
    BY DEF Backed
  <1> QED
    BY <1>1, <1>2

\* Steps of the connections, the runtime and the process keep it.
LEMMA EnvironmentStep == ASSUME IInv, Environment PROVE IInv'
  <1> USE NoObservationAssumption
      DEF IInv, TypeOK, AssertionsHold, ProcessOwnership, EvidenceInv,
          StickyPositive, BackoffInv, DemandInv, Backed, RestPC, PC, OwningPC,
          invariant_holds, envVars, histVars
  <1>1. ASSUME NEW c \in Clients, SampleLifecycle(c) PROVE IInv'
    <2>1. lc.launch_generation \in Nat
      BY LifecycleFields
    <2>2. TypeOK'
      BY <1>1 DEF SampleLifecycle
    <2>3. AssertionsHold' /\ ProcessOwnership' /\ EvidenceInv' /\ BackoffInv'
      BY <1>1 DEF SampleLifecycle
    <2>4. ASSUME NEW d \in Clients PROVE Backed(observed[d])'
      <3>1. CASE d = c
        BY <1>1, <2>1, <3>1 DEF SampleLifecycle
      <3>2. CASE d # c
        BY <1>1, <2>1, <3>2 DEF SampleLifecycle
      <3> QED
        BY <3>1, <3>2
    <2>5. DemandInv'
      BY <1>1, <2>1, <2>4 DEF SampleLifecycle
    <2> QED
      BY <2>2, <2>3, <2>5
  <1>2. ASSUME NEW c \in Clients, TrySend(c) PROVE IInv'
    BY <1>2 DEF TrySend
  <1>3. ASSUME NEW c \in Clients, AbandonLogin(c) PROVE IInv'
    BY <1>3 DEF AbandonLogin
  <1>4. CASE RequestShutdown
    BY <1>4 DEF RequestShutdown
  <1>5. CASE ChildExits
    BY <1>5 DEF ChildExits
  <1> QED
    BY <1>1, <1>2, <1>3, <1>4, <1>5 DEF Environment

\* Steps that receive a wake request keep it.
LEMMA RecvWakeStep == ASSUME IInv, RecvWake PROVE IInv'
  <1> USE NoObservationAssumption
      DEF IInv, TypeOK, AssertionsHold, ProcessOwnership, EvidenceInv,
          StickyPositive, BackoffInv, DemandInv, Backed, RestPC, PC, OwningPC,
          invariant_holds, envVars, histVars
  <1>1. CASE StartupRecvWake
    BY <1>1 DEF StartupRecvWake
  <1>2. CASE RecvDemand
    BY <1>2 DEF RecvDemand, can_start, requests_conflict_reconciliation
  <1>3. CASE IgnoreWake
    BY <1>3 DEF IgnoreWake
  <1>4. CASE RecvRestart
    BY <1>4 DEF RecvRestart, requests_restart
  <1>5. CASE RecvRetryWhileStopping
    BY <1>5 DEF RecvRetryWhileStopping, requests_retry
  <1>6. CASE RecvRetryInCooldown
    BY <1>6 DEF RecvRetryInCooldown, requests_retry
  <1> QED
    BY <1>1, <1>2, <1>3, <1>4, <1>5, <1>6 DEF RecvWake

\* Reconciliation and launching keep it.
LEMMA ReconciliationStep ==
    ASSUME IInv,
           \/ \E probe \in Probes :
                 \/ ReconcileStartup(probe) \/ FinalGateBlocks(probe)
                 \/ Launch(probe) \/ LaunchFails(probe)
                 \/ ReconcileExternal(probe)
           \/ BeginFinalGate \/ PollExternal
    PROVE  IInv'
  <1> USE NoObservationAssumption
      DEF IInv, TypeOK, AssertionsHold, ProcessOwnership, EvidenceInv,
          StickyPositive, BackoffInv, DemandInv, Backed, RestPC, PC, OwningPC,
          invariant_holds, envVars, histVars
  <1>1. ASSUME NEW probe \in Probes, ReconcileStartup(probe) PROVE IInv'
    <2> DEFINE class == classification(probe)
    <2>0. class \in {"FullyReady", "Positive", "Clean", "Inconclusive"}
      BY ClassificationType
    <2>1. CASE class = "Clean"
      <3>1. Publishes(lc', "Stopped", lc.launch_generation,
                     lc.failure, lc.failure_streak, "None")
        BY <1>1, <2>1, PublishStopped DEF ReconcileStartup
      <3> USE <1>1, <2>1, <3>1, LifecycleFields
          DEF ReconcileStartup, Observe, NewGeneration, Publishes
      <3>2. TypeOK'
        OBVIOUS
      <3>3. AssertionsHold'
        OBVIOUS
      <3>4. ProcessOwnership'
        OBVIOUS
      <3>5. EvidenceInv'
        OBVIOUS
      <3>6. BackoffInv'
        OBVIOUS
      <3>7. DemandInv'
        OBVIOUS
      <3> QED
        BY <3>2, <3>3, <3>4, <3>5, <3>6, <3>7
    <2>2. CASE class = "FullyReady"
      <3>1. Publishes(lc', "External",
                     IF latch THEN lc.launch_generation + 1
                     ELSE lc.launch_generation,
                     lc.failure, lc.failure_streak, "Positive")
        BY <1>1, <2>2, PublishExternal DEF ReconcileStartup
      <3> USE <1>1, <2>2, <3>1, LifecycleFields
          DEF ReconcileStartup, Observe, NewGeneration, Publishes
      <3>2. TypeOK'
        OBVIOUS
      <3>3. AssertionsHold'
        OBVIOUS
      <3>4. ProcessOwnership'
        OBVIOUS
      <3>5. EvidenceInv'
        OBVIOUS
      <3>6. BackoffInv'
        OBVIOUS
      <3>7. DemandInv'
        OBVIOUS
      <3> QED
        BY <3>2, <3>3, <3>4, <3>5, <3>6, <3>7
    <2>3. CASE class \in {"Positive", "Inconclusive"}
      <3>1. Publishes(lc', "Conflict",
                     IF latch THEN lc.launch_generation + 1
                     ELSE lc.launch_generation,
                     lc.failure, lc.failure_streak, class)
        BY <1>1, <2>3, PublishConflict DEF ReconcileStartup
      <3> USE <1>1, <2>3, <3>1, LifecycleFields
          DEF ReconcileStartup, Observe, NewGeneration, Publishes
      <3>2. TypeOK'
        OBVIOUS
      <3>3. AssertionsHold'
        OBVIOUS
      <3>4. ProcessOwnership'
        OBVIOUS
      <3>5. EvidenceInv'
        OBVIOUS
      <3>6. BackoffInv'
        OBVIOUS
      <3>7. DemandInv'
        OBVIOUS
      <3> QED
        BY <3>2, <3>3, <3>4, <3>5, <3>6, <3>7
    <2> QED
      BY <2>0, <2>1, <2>2, <2>3
  <1>2. ASSUME NEW probe \in Probes, FinalGateBlocks(probe) PROVE IInv'
    <2> DEFINE class == classification(probe)
    <2>0. class \in {"FullyReady", "Positive", "Clean", "Inconclusive"}
      BY ClassificationType
    <2>1. CASE class = "FullyReady"
      <3>1. Publishes(lc', "External", lc.launch_generation + 1,
                     lc.failure, lc.failure_streak, "Positive")
        BY <1>2, <2>1, PublishExternal DEF FinalGateBlocks
      <3> USE <1>2, <2>1, <3>1, LifecycleFields
          DEF FinalGateBlocks, Observe, NewGeneration, Publishes
      <3>2. TypeOK'
        OBVIOUS
      <3>3. AssertionsHold'
        OBVIOUS
      <3>4. ProcessOwnership'
        OBVIOUS
      <3>5. EvidenceInv'
        OBVIOUS
      <3>6. BackoffInv'
        OBVIOUS
      <3>7. DemandInv'
        <4>1. ASSUME NEW observation \in LifecycleState \cup {NoObservation},
                     Backed(observation)
              PROVE  observation # NoObservation =>
                       /\ observation.launch_generation
                            <= lc'.launch_generation
                       /\ observation.launch_generation # lc'.launch_generation
          BY <3>1, <4>1, OlderObservation DEF Publishes
        <4> QED
          BY <4>1
      <3> QED
        BY <3>2, <3>3, <3>4, <3>5, <3>6, <3>7
    <2>2. CASE class # "FullyReady"
      <3>1. Publishes(lc', "Conflict", lc.launch_generation + 1,
                     lc.failure, lc.failure_streak,
                     IF lc.evidence = "Positive" THEN "Positive" ELSE class)
        BY <1>2, <2>0, <2>2, PublishConflict DEF FinalGateBlocks
      <3> USE <1>2, <2>0, <2>2, <3>1, LifecycleFields
          DEF FinalGateBlocks, Observe, NewGeneration, Publishes
      <3>2. TypeOK'
        OBVIOUS
      <3>3. AssertionsHold'
        OBVIOUS
      <3>4. ProcessOwnership'
        OBVIOUS
      <3>5. EvidenceInv'
        OBVIOUS
      <3>6. BackoffInv'
        OBVIOUS
      <3>7. DemandInv'
        <4>1. ASSUME NEW observation \in LifecycleState \cup {NoObservation},
                     Backed(observation)
              PROVE  observation # NoObservation =>
                       /\ observation.launch_generation
                            <= lc'.launch_generation
                       /\ observation.launch_generation # lc'.launch_generation
          BY <3>1, <4>1, OlderObservation DEF Publishes
        <4> QED
          BY <4>1
      <3> QED
        BY <3>2, <3>3, <3>4, <3>5, <3>6, <3>7
    <2> QED
      BY <2>1, <2>2
  <1>3. ASSUME NEW probe \in Probes, Launch(probe) PROVE IInv'
    BY <1>3, LaunchSuccess, LifecycleFields
    DEF Launch, FinalGateOpen, NewGeneration, Publishes
  <1>4. ASSUME NEW probe \in Probes, LaunchFails(probe) PROVE IInv'
    <2>1. Publishes(lc', "Cooldown", lc.launch_generation + 1,
                   "LaunchFailed", lc.failure_streak + 1, "None")
      BY <1>4, LaunchFailure DEF LaunchFails
    <2> USE <1>4, <2>1, LifecycleFields, BackoffType
        DEF LaunchFails, FinalGateOpen, NewGeneration, Publishes, NoFailure
    <2>2. TypeOK'
      OBVIOUS
    <2>3. AssertionsHold'
      OBVIOUS
    <2>4. ProcessOwnership'
      OBVIOUS
    <2>5. EvidenceInv'
      OBVIOUS
    <2>6. BackoffInv'
      OBVIOUS
    <2>7. DemandInv'
      OBVIOUS
    <2> QED
      BY <2>2, <2>3, <2>4, <2>5, <2>6, <2>7
  <1>5. ASSUME NEW probe \in Probes, ReconcileExternal(probe) PROVE IInv'
    <2> DEFINE class == classification(probe)
    <2>1. CASE class = "FullyReady"
      BY <1>5, <2>1 DEF ReconcileExternal, Observe
    <2>2. CASE class # "FullyReady"
      <3>1. Publishes(lc', "Conflict", lc.launch_generation,
                     lc.failure, lc.failure_streak, "Positive")
        BY <1>5, <2>2, PublishConflict DEF ReconcileExternal
      <3> USE <1>5, <2>2, <3>1, LifecycleFields
          DEF ReconcileExternal, Observe, Publishes
      <3>2. TypeOK'
        OBVIOUS
      <3>3. AssertionsHold'
        OBVIOUS
      <3>4. ProcessOwnership'
        OBVIOUS
      <3>5. EvidenceInv'
        OBVIOUS
      <3>6. BackoffInv'
        OBVIOUS
      <3>7. DemandInv'
        OBVIOUS
      <3> QED
        BY <3>2, <3>3, <3>4, <3>5, <3>6, <3>7
    <2> QED
      BY <2>1, <2>2
  <1>6. CASE BeginFinalGate
    <2>1. Publishes(lc', "Reconciling", lc.launch_generation,
                   lc.failure, lc.failure_streak, lc.evidence)
      BY <1>6, PhaseChanges DEF BeginFinalGate
    <2> USE <1>6, <2>1 DEF BeginFinalGate, Publishes
    <2>2. TypeOK'
      OBVIOUS
    <2>3. AssertionsHold'
      OBVIOUS
    <2>4. ProcessOwnership'
      OBVIOUS
    <2>5. EvidenceInv'
      OBVIOUS
    <2>6. BackoffInv'
      OBVIOUS
    <2>7. DemandInv'
      OBVIOUS
    <2> QED
      BY <2>2, <2>3, <2>4, <2>5, <2>6, <2>7
  <1>7. CASE PollExternal
    BY <1>7 DEF PollExternal
  <1> QED
    BY <1>1, <1>2, <1>3, <1>4, <1>5, <1>6, <1>7

\* The owned cycle keeps it.
LEMMA CycleStep ==
    ASSUME IInv,
           \/ BecomeReady \/ StartupTimesOut \/ ChildReaped
           \/ ProcessWaitFails \/ CompleteStabilityWindow \/ CommitIdleStop
    PROVE  IInv'
  <1> USE NoObservationAssumption
      DEF IInv, TypeOK, AssertionsHold, ProcessOwnership, EvidenceInv,
          StickyPositive, BackoffInv, DemandInv, Backed, RestPC, PC, OwningPC,
          invariant_holds, envVars, histVars
  <1>1. CASE BecomeReady
    <2>1. Publishes(lc', "Running", lc.launch_generation,
                   lc.failure, lc.failure_streak, lc.evidence)
      BY <1>1, PhaseChanges DEF BecomeReady
    <2> USE <1>1, <2>1 DEF BecomeReady, Publishes
    <2>2. TypeOK'
      OBVIOUS
    <2>3. AssertionsHold'
      OBVIOUS
    <2>4. ProcessOwnership'
      OBVIOUS
    <2>5. EvidenceInv'
      OBVIOUS
    <2>6. BackoffInv'
      OBVIOUS
    <2>7. DemandInv'
      OBVIOUS
    <2> QED
      BY <2>2, <2>3, <2>4, <2>5, <2>6, <2>7
  <1>2. CASE StartupTimesOut
    <2>1. Publishes(lc', "Stopping", lc.launch_generation,
                   "StartupTimedOut", lc.failure_streak + 1, lc.evidence)
      BY <1>2, BeginFailureCleanup DEF StartupTimesOut, FailureCategory
    <2> USE <1>2, <2>1, LifecycleFields
        DEF StartupTimesOut, Publishes, NoFailure
    <2>2. TypeOK'
      OBVIOUS
    <2>3. AssertionsHold'
      OBVIOUS
    <2>4. ProcessOwnership'
      OBVIOUS
    <2>5. EvidenceInv'
      OBVIOUS
    <2>6. BackoffInv'
      OBVIOUS
    <2>7. DemandInv'
      OBVIOUS
    <2> QED
      BY <2>2, <2>3, <2>4, <2>5, <2>6, <2>7
  <1>3. CASE ChildReaped
    <2> DEFINE category == IF pc = "readiness" THEN "ExitedBeforeReady"
                           ELSE "ExitedUnexpectedly"
    <2>0. category \in FailureCategory /\ category # NoFailure
      BY DEF FailureCategory, NoFailure
    <2>1. Publishes(lc', "Cooldown", lc.launch_generation,
                   category, lc.failure_streak + 1, lc.evidence)
      BY <1>3, <2>0, ReapedFailure DEF ChildReaped
    <2> USE <1>3, <2>0, <2>1, LifecycleFields, BackoffType
        DEF ChildReaped, Publishes, NoFailure
    <2>2. TypeOK'
      OBVIOUS
    <2>3. AssertionsHold'
      OBVIOUS
    <2>4. ProcessOwnership'
      OBVIOUS
    <2>5. EvidenceInv'
      OBVIOUS
    <2>6. BackoffInv'
      OBVIOUS
    <2>7. DemandInv'
      OBVIOUS
    <2> QED
      BY <2>2, <2>3, <2>4, <2>5, <2>6, <2>7
  <1>4. CASE ProcessWaitFails
    <2>1. Publishes(lc', "Stopping", lc.launch_generation,
                   lc.failure, lc.failure_streak, lc.evidence)
      BY <1>4, PhaseChanges DEF ProcessWaitFails, ServerPhase
    <2> USE <1>4, <2>1 DEF ProcessWaitFails, Publishes
    <2>2. TypeOK'
      OBVIOUS
    <2>3. AssertionsHold'
      OBVIOUS
    <2>4. ProcessOwnership'
      OBVIOUS
    <2>5. EvidenceInv'
      OBVIOUS
    <2>6. BackoffInv'
      OBVIOUS
    <2>7. DemandInv'
      OBVIOUS
    <2> QED
      BY <2>2, <2>3, <2>4, <2>5, <2>6, <2>7
  <1>5. CASE CompleteStabilityWindow
    <2>1. Publishes(lc', lc.phase, lc.launch_generation,
                   NoFailure, 0, lc.evidence)
      BY <1>5, ResetStreak DEF CompleteStabilityWindow
    <2> USE <1>5, <2>1 DEF CompleteStabilityWindow, Publishes
    <2>2. TypeOK'
      OBVIOUS
    <2>3. AssertionsHold'
      OBVIOUS
    <2>4. ProcessOwnership'
      OBVIOUS
    <2>5. EvidenceInv'
      OBVIOUS
    <2>6. BackoffInv'
      OBVIOUS
    <2>7. DemandInv'
      OBVIOUS
    <2> QED
      BY <2>2, <2>3, <2>4, <2>5, <2>6, <2>7
  <1>6. CASE CommitIdleStop
    <2>1. Publishes(lc', "Stopping", lc.launch_generation,
                   NoFailure, 0, lc.evidence)
      BY <1>6, BeginIdleStop DEF CommitIdleStop
    <2> USE <1>6, <2>1 DEF CommitIdleStop, Publishes
    <2>2. TypeOK'
      OBVIOUS
    <2>3. AssertionsHold'
      OBVIOUS
    <2>4. ProcessOwnership'
      OBVIOUS
    <2>5. EvidenceInv'
      OBVIOUS
    <2>6. BackoffInv'
      OBVIOUS
    <2>7. DemandInv'
      OBVIOUS
    <2> QED
      BY <2>2, <2>3, <2>4, <2>5, <2>6, <2>7
  <1> QED
    BY <1>1, <1>2, <1>3, <1>4, <1>5, <1>6

\* Stopping, cooling down and shutting down keep it.
LEMMA StoppingStep ==
    ASSUME IInv,
           \/ FinishIdleStop \/ FinishFailedStop \/ CooldownExpires \/ Tick
           \/ ShutdownWithoutChild \/ ShutdownWithChild \/ FinishLastStop
           \/ StopFails
    PROVE  IInv'
  <1> USE NoObservationAssumption
      DEF IInv, TypeOK, AssertionsHold, ProcessOwnership, EvidenceInv,
          StickyPositive, BackoffInv, DemandInv, Backed, RestPC, PC, OwningPC,
          invariant_holds, envVars, histVars
  <1>1. CASE FinishIdleStop
    <2>1. Publishes(lc', "Stopped", lc.launch_generation,
                   lc.failure, lc.failure_streak, lc.evidence)
      BY <1>1, PhaseChanges DEF FinishIdleStop, ServerPhase
    <2> USE <1>1, <2>1 DEF FinishIdleStop, requests_restart, Publishes
    <2>2. TypeOK'
      OBVIOUS
    <2>3. AssertionsHold'
      OBVIOUS
    <2>4. ProcessOwnership'
      OBVIOUS
    <2>5. EvidenceInv'
      OBVIOUS
    <2>6. BackoffInv'
      OBVIOUS
    <2>7. DemandInv'
      OBVIOUS
    <2> QED
      BY <2>2, <2>3, <2>4, <2>5, <2>6, <2>7
  <1>2. CASE FinishFailedStop
    <2>1. Publishes(lc', "Cooldown", lc.launch_generation,
                   lc.failure, lc.failure_streak, lc.evidence)
      BY <1>2, PhaseChanges DEF FinishFailedStop
    <2> USE <1>2, <2>1, BackoffType DEF FinishFailedStop, Publishes
    <2>2. TypeOK'
      OBVIOUS
    <2>3. AssertionsHold'
      OBVIOUS
    <2>4. ProcessOwnership'
      OBVIOUS
    <2>5. EvidenceInv'
      OBVIOUS
    <2>6. BackoffInv'
      OBVIOUS
    <2>7. DemandInv'
      OBVIOUS
    <2> QED
      BY <2>2, <2>3, <2>4, <2>5, <2>6, <2>7
  <1>3. CASE CooldownExpires
    <2>1. CASE latch
      <3> USE <1>3, <2>1, BackoffType DEF CooldownExpires
      <3>1. TypeOK'
        OBVIOUS
      <3>2. AssertionsHold'
        OBVIOUS
      <3>3. ProcessOwnership'
        OBVIOUS
      <3>4. EvidenceInv'
        OBVIOUS
      <3>5. BackoffInv'
        OBVIOUS
      <3>6. DemandInv'
        OBVIOUS
      <3> QED
        BY <3>1, <3>2, <3>3, <3>4, <3>5, <3>6
    <2>2. CASE ~latch
      <3>1. Publishes(lc', "Stopped", lc.launch_generation,
                     lc.failure, lc.failure_streak, lc.evidence)
        BY <1>3, <2>2, PhaseChanges DEF CooldownExpires, ServerPhase
      <3> USE <1>3, <2>2, <3>1, BackoffType DEF CooldownExpires, Publishes
      <3>2. TypeOK'
        OBVIOUS
      <3>3. AssertionsHold'
        OBVIOUS
      <3>4. ProcessOwnership'
        OBVIOUS
      <3>5. EvidenceInv'
        OBVIOUS
      <3>6. BackoffInv'
        OBVIOUS
      <3>7. DemandInv'
        OBVIOUS
      <3> QED
        BY <3>2, <3>3, <3>4, <3>5, <3>6, <3>7
    <2> QED
      BY <2>1, <2>2
  <1>4. CASE Tick
    BY <1>4, BackoffType DEF Tick
  <1>5. CASE ShutdownWithoutChild
    <2>1. Publishes(lc', IF pc = "cooldown" THEN "Stopped" ELSE lc.phase, lc.launch_generation,
                   lc.failure, lc.failure_streak, lc.evidence)
      BY <1>5, PhaseChanges DEF ShutdownWithoutChild, ServerPhase, Publishes
    <2> USE <1>5, <2>1 DEF ShutdownWithoutChild, Publishes
    <2>2. TypeOK'
      OBVIOUS
    <2>3. AssertionsHold'
      OBVIOUS
    <2>4. ProcessOwnership'
      OBVIOUS
    <2>5. EvidenceInv'
      OBVIOUS
    <2>6. BackoffInv'
      OBVIOUS
    <2>7. DemandInv'
      OBVIOUS
    <2> QED
      BY <2>2, <2>3, <2>4, <2>5, <2>6, <2>7
  <1>6. CASE ShutdownWithChild
    <2>1. Publishes(lc', IF pc \in {"readiness", "running"}
                        THEN "Stopping" ELSE lc.phase, lc.launch_generation,
                   lc.failure, lc.failure_streak, lc.evidence)
      BY <1>6, PhaseChanges DEF ShutdownWithChild, ServerPhase, Publishes
    <2> USE <1>6, <2>1 DEF ShutdownWithChild, Publishes
    <2>2. TypeOK'
      OBVIOUS
    <2>3. AssertionsHold'
      OBVIOUS
    <2>4. ProcessOwnership'
      OBVIOUS
    <2>5. EvidenceInv'
      OBVIOUS
    <2>6. BackoffInv'
      OBVIOUS
    <2>7. DemandInv'
      OBVIOUS
    <2> QED
      BY <2>2, <2>3, <2>4, <2>5, <2>6, <2>7
  <1>7. CASE FinishLastStop
    <2>1. Publishes(lc', "Stopped", lc.launch_generation,
                   lc.failure, lc.failure_streak, lc.evidence)
      BY <1>7, PhaseChanges DEF FinishLastStop, ServerPhase
    <2> USE <1>7, <2>1 DEF FinishLastStop, Publishes
    <2>2. TypeOK'
      OBVIOUS
    <2>3. AssertionsHold'
      OBVIOUS
    <2>4. ProcessOwnership'
      OBVIOUS
    <2>5. EvidenceInv'
      OBVIOUS
    <2>6. BackoffInv'
      OBVIOUS
    <2>7. DemandInv'
      OBVIOUS
    <2> QED
      BY <2>2, <2>3, <2>4, <2>5, <2>6, <2>7
  <1>8. CASE StopFails
    BY <1>8 DEF StopFails
  <1> QED
    BY <1>1, <1>2, <1>3, <1>4, <1>5, <1>6, <1>7, <1>8

-----------------------------------------------------------------------------
\* Every step keeps the invariant.
LEMMA NextIInv == IInv /\ [Next]_vars => IInv'
  <1> SUFFICES ASSUME IInv, [Next]_vars PROVE IInv'
    OBVIOUS
  <1>1. CASE Environment
    BY <1>1, EnvironmentStep
  <1>2. CASE RecvWake
    BY <1>2, RecvWakeStep
  <1>3. CASE Progress
    BY <1>3, ReconciliationStep, CycleStep, StoppingStep DEF Progress
  <1>4. CASE ProcessWaitFails \/ CompleteStabilityWindow \/ CommitIdleStop
    BY <1>4, CycleStep
  <1>5. CASE UNCHANGED vars
    BY <1>5
    DEF vars, IInv, TypeOK, AssertionsHold, ProcessOwnership, EvidenceInv,
        StickyPositive, BackoffInv, DemandInv, Backed, invariant_holds
  <1> QED
    BY <1>1, <1>2, <1>3, <1>4, <1>5 DEF Next, Terminated

\* The inductive invariant holds in every reachable state of the supervisor
\* task, its connections and its process.
THEOREM Invariance == Spec => []IInv
  BY InitIInv, NextIInv, PTL DEF Spec

\* In every reachable state the variables have their types; in particular
\* the cooldown never counts below zero (wait_for_cooldown's retry_at).
THEOREM TypeCorrectness == Spec => []TypeOK
  <1>1. IInv => TypeOK
    BY DEF IInv
  <1> QED
    BY <1>1, Invariance, PTL

\* No assert! on the published lifecycle fails.
THEOREM NoAssertionFails == Spec => []AssertionsHold
  <1>1. IInv => AssertionsHold
    BY DEF IInv
  <1> QED
    BY <1>1, Invariance, PTL

\* A process is owned exactly at the awaits of the owned cycle, and run
\* returns Ok only once it is reaped.
THEOREM OwnershipIsExact == Spec => []ProcessOwnership
  <1>1. IInv => ProcessOwnership
    BY DEF IInv
  <1> QED
    BY <1>1, Invariance, PTL

\* Positive evidence of a foreign backend is final and rules out a process.
THEOREM PositiveIsFinal == Spec => []StickyPositive
  <1>1. IInv => StickyPositive
    BY DEF IInv, EvidenceInv
  <1> QED
    BY <1>1, Invariance, PTL

\* No attempt follows a failure before the backoff of its streak.
THEOREM BackoffIsRespected == Spec => []BackoffRespected
  <1>1. IInv => BackoffRespected
    BY DEF IInv, BackoffInv, BackoffRespected, RestPC
  <1> QED
    BY <1>1, Invariance, PTL

-----------------------------------------------------------------------------
(***************************************************************************)
(* Supervisor implements NapServer.                                        *)
(***************************************************************************)

\* A step that leaves the process, the evidence and the demand as they are
\* is a stutter of NapServer.
LEMMA Unseen ==
    ASSUME lc'.evidence = lc.evidence, child' = child, asked' = asked
    PROVE  UNCHANGED <<OwnedServer, asked>>
  BY DEF OwnedServer

\* Reconciliation and launching: an attempt, a given-up attempt, the sighting
\* of a foreign backend, or a stutter.
LEMMA ReconciliationImplements ==
    ASSUME IInv,
           \/ \E probe \in Probes :
                 \/ ReconcileStartup(probe) \/ FinalGateBlocks(probe)
                 \/ Launch(probe) \/ LaunchFails(probe)
                 \/ ReconcileExternal(probe)
           \/ BeginFinalGate \/ PollExternal
    PROVE  [Nap!Next]_<<OwnedServer, asked>>
  <1> USE DEF IInv, TypeOK, AssertionsHold, ProcessOwnership, EvidenceInv,
          StickyPositive, DemandInv, OwningPC, invariant_holds, OwnedServer,
          envVars, histVars, Nap!Next, Nap!Ask, Nap!Attempt, Nap!GiveUp,
          Nap!SeeForeign, Nap!GoDown
  <1>1. ASSUME NEW probe \in Probes, ReconcileStartup(probe)
        PROVE  [Nap!Next]_<<OwnedServer, asked>>
    <2> DEFINE class == classification(probe)
    <2>0. class \in {"FullyReady", "Positive", "Clean", "Inconclusive"}
      BY ClassificationType
    <2>1. CASE class = "Clean"
      BY <1>1, <2>1, PublishStopped
      DEF ReconcileStartup, NewGeneration, Publishes
    <2>2. CASE class = "FullyReady"
      BY <1>1, <2>2, PublishExternal
      DEF ReconcileStartup, NewGeneration, Publishes
    <2>3. CASE class \in {"Positive", "Inconclusive"}
      <3>1. Publishes(lc', "Conflict",
                      IF latch THEN lc.launch_generation + 1
                      ELSE lc.launch_generation,
                      lc.failure, lc.failure_streak, class)
        BY <1>1, <2>3, PublishConflict DEF ReconcileStartup
      <3> QED
        BY <1>1, <2>3, <3>1, LifecycleFields
        DEF ReconcileStartup, NewGeneration, Publishes
    <2> QED
      BY <2>0, <2>1, <2>2, <2>3
  <1>2. ASSUME NEW probe \in Probes, FinalGateBlocks(probe)
        PROVE  [Nap!Next]_<<OwnedServer, asked>>
    <2> DEFINE class == classification(probe)
    <2>0. class \in {"FullyReady", "Positive", "Clean", "Inconclusive"}
      BY ClassificationType
    <2>1. CASE class = "FullyReady"
      <3>1. Publishes(lc', "External", lc.launch_generation + 1,
                      lc.failure, lc.failure_streak, "Positive")
        BY <1>2, <2>1, PublishExternal DEF FinalGateBlocks
      <3> QED
        BY <1>2, <2>1, <3>1, LifecycleFields
        DEF FinalGateBlocks, NewGeneration, Publishes
    <2>2. CASE class # "FullyReady"
      <3>1. Publishes(lc', "Conflict", lc.launch_generation + 1,
                      lc.failure, lc.failure_streak,
                      IF lc.evidence = "Positive" THEN "Positive" ELSE class)
        BY <1>2, <2>0, <2>2, PublishConflict DEF FinalGateBlocks
      <3> QED
        BY <1>2, <2>0, <2>2, <3>1, LifecycleFields
        DEF FinalGateBlocks, NewGeneration, Publishes
    <2> QED
      BY <2>1, <2>2
  <1>3. ASSUME NEW probe \in Probes, Launch(probe)
        PROVE  [Nap!Next]_<<OwnedServer, asked>>
    <2>1. Publishes(lc', "Starting", lc.launch_generation + 1,
                    lc.failure, lc.failure_streak, "None")
      BY <1>3, LaunchSuccess DEF Launch
    <2> QED
      BY <1>3, <2>1, LifecycleFields
      DEF Launch, FinalGateOpen, NewGeneration, Publishes
  <1>4. ASSUME NEW probe \in Probes, LaunchFails(probe)
        PROVE  [Nap!Next]_<<OwnedServer, asked>>
    BY <1>4, LaunchFailure, LifecycleFields
    DEF LaunchFails, FinalGateOpen, NewGeneration, Publishes
  <1>5. ASSUME NEW probe \in Probes, ReconcileExternal(probe)
        PROVE  [Nap!Next]_<<OwnedServer, asked>>
    <2>1. CASE classification(probe) = "FullyReady"
      BY <1>5, <2>1, Unseen DEF ReconcileExternal
    <2>2. CASE classification(probe) # "FullyReady"
      <3>1. Publishes(lc', "Conflict", lc.launch_generation,
                      lc.failure, lc.failure_streak, "Positive")
        BY <1>5, <2>2, PublishConflict DEF ReconcileExternal
      <3>2. lc.evidence = "Positive"
        BY <1>5 DEF ReconcileExternal
      <3> QED
        BY <1>5, <3>1, <3>2, Unseen DEF ReconcileExternal, Publishes
    <2> QED
      BY <2>1, <2>2
  <1>6. CASE BeginFinalGate
    BY <1>6, PhaseChanges DEF BeginFinalGate, Publishes
  <1>7. CASE PollExternal
    BY <1>7 DEF PollExternal
  <1> QED
    BY <1>1, <1>2, <1>3, <1>4, <1>5, <1>6, <1>7

\* The owned cycle: the process goes down or nothing is seen.
LEMMA CycleImplements ==
    ASSUME IInv,
           \/ BecomeReady \/ StartupTimesOut \/ ChildReaped
           \/ ProcessWaitFails \/ CompleteStabilityWindow \/ CommitIdleStop
    PROVE  [Nap!Next]_<<OwnedServer, asked>>
  <1> USE DEF IInv, TypeOK, envVars, histVars
  <1>1. CASE BecomeReady
    BY <1>1, PhaseChanges, Unseen DEF BecomeReady, Publishes
  <1>2. CASE StartupTimesOut
    BY <1>2, BeginFailureCleanup, Unseen
    DEF StartupTimesOut, Publishes, FailureCategory
  <1>3. CASE ChildReaped
    <2> DEFINE category == IF pc = "readiness" THEN "ExitedBeforeReady"
                           ELSE "ExitedUnexpectedly"
    <2>1. lc'.evidence = lc.evidence
      BY <1>3, ReapedFailure DEF ChildReaped, Publishes, FailureCategory
    <2> QED
      BY <1>3, <2>1
      DEF ChildReaped, AssertionsHold, invariant_holds, OwnedServer,
          Nap!Next, Nap!GoDown
  <1>4. CASE ProcessWaitFails
    BY <1>4, PhaseChanges, Unseen
    DEF ProcessWaitFails, Publishes, ServerPhase
  <1>5. CASE CompleteStabilityWindow
    BY <1>5, ResetStreak, Unseen DEF CompleteStabilityWindow, Publishes
  <1>6. CASE CommitIdleStop
    BY <1>6, BeginIdleStop, Unseen DEF CommitIdleStop, Publishes
  <1> QED
    BY <1>1, <1>2, <1>3, <1>4, <1>5, <1>6

\* Stopping, cooling down, shutting down: likewise.
LEMMA StoppingImplements ==
    ASSUME IInv,
           \/ FinishIdleStop \/ FinishFailedStop \/ CooldownExpires \/ Tick
           \/ ShutdownWithoutChild \/ ShutdownWithChild \/ FinishLastStop
           \/ StopFails
    PROVE  [Nap!Next]_<<OwnedServer, asked>>
  <1> USE DEF IInv, TypeOK, envVars, histVars
  <1> DEFINE Gone == /\ pc \in OwningPC
                     /\ lc.phase = "Stopping"
                     /\ lc'.evidence = lc.evidence
                     /\ child' \in {"none", "dropped"}
                     /\ asked' = asked
  <1>0. ASSUME Gone PROVE [Nap!Next]_<<OwnedServer, asked>>
    BY <1>0
    DEF AssertionsHold, invariant_holds, ProcessOwnership, OwnedServer,
        Nap!Next, Nap!GoDown
  <1>1. CASE FinishIdleStop
    <2>1. Gone
      BY <1>1, PhaseChanges
      DEF FinishIdleStop, Publishes, ServerPhase, AssertionsHold, OwningPC
    <2> QED
      BY <2>1, <1>0
  <1>2. CASE FinishFailedStop
    <2>1. Gone
      BY <1>2, PhaseChanges
      DEF FinishFailedStop, Publishes, AssertionsHold, OwningPC
    <2> QED
      BY <2>1, <1>0
  <1>3. CASE CooldownExpires
    BY <1>3, PhaseChanges, Unseen
    DEF CooldownExpires, Publishes, ServerPhase
  <1>4. CASE Tick
    BY <1>4, Unseen DEF Tick
  <1>5. CASE ShutdownWithoutChild
    BY <1>5, PhaseChanges, Unseen
    DEF ShutdownWithoutChild, Publishes, ServerPhase
  <1>6. CASE ShutdownWithChild
    BY <1>6, PhaseChanges, Unseen
    DEF ShutdownWithChild, Publishes, ServerPhase
  <1>7. CASE FinishLastStop
    <2>1. Gone
      BY <1>7, PhaseChanges
      DEF FinishLastStop, Publishes, ServerPhase, AssertionsHold, OwningPC
    <2> QED
      BY <2>1, <1>0
  <1>8. CASE StopFails
    <2>1. Gone
      BY <1>8 DEF StopFails, AssertionsHold, OwningPC
    <2> QED
      BY <2>1, <1>0
  <1> QED
    BY <1>1, <1>2, <1>3, <1>4, <1>5, <1>6, <1>7, <1>8

\* Every step is a step of NapServer or a stutter.
LEMMA StepImplements ==
    ASSUME IInv, [Next]_vars PROVE [Nap!Next]_<<OwnedServer, asked>>
  <1>1. CASE Environment
    <2>1. ASSUME NEW c \in Clients, SampleLifecycle(c)
          PROVE  [Nap!Next]_<<OwnedServer, asked>>
      BY <2>1 DEF SampleLifecycle, OwnedServer, Nap!Next, Nap!Ask
    <2>2. ASSUME NEW c \in Clients, TrySend(c) \/ AbandonLogin(c)
          PROVE  [Nap!Next]_<<OwnedServer, asked>>
      BY <2>2, Unseen DEF TrySend, AbandonLogin, histVars
    <2>3. CASE RequestShutdown
      BY <2>3, Unseen DEF RequestShutdown, histVars
    <2>4. CASE ChildExits
      BY <2>4 DEF ChildExits, histVars, OwnedServer
    <2> QED
      BY <1>1, <2>1, <2>2, <2>3, <2>4 DEF Environment
  <1>2. CASE RecvWake
    BY <1>2, Unseen
    DEF RecvWake, StartupRecvWake, RecvDemand, IgnoreWake, RecvRestart,
        RecvRetryWhileStopping, RecvRetryInCooldown, histVars
  <1>3. CASE Progress
    BY <1>3, ReconciliationImplements, CycleImplements, StoppingImplements
    DEF Progress
  <1>4. CASE ProcessWaitFails \/ CompleteStabilityWindow \/ CommitIdleStop
    BY <1>4, CycleImplements
  <1>5. CASE UNCHANGED vars
    BY <1>5, Unseen DEF vars
  <1> QED
    BY <1>1, <1>2, <1>3, <1>4, <1>5 DEF Next, Terminated

\* The supervisor implements the abstract on-demand server: a launch only on
\* a demand made since the last attempt, one process, none beside a foreign
\* backend.
THEOREM Refinement == Spec => ImplementsNapServer
  <1>1. Init => Nap!Init
    BY DEF Init, Nap!Init, OwnedServer, reconciling
  <1> QED
    BY <1>1, StepImplements, Invariance, PTL
    DEF Spec, ImplementsNapServer, Nap!Spec

-----------------------------------------------------------------------------
(***************************************************************************)
(* A stale observation never equals a newly published lifecycle            *)
(* (StaleNeverCurrent), which the equality tests of requests_restart and   *)
(* requests_conflict_reconciliation rely on.                               *)
(*                                                                         *)
(* Within one launch generation the phases are published in the order of   *)
(* Rank, so an observation of this generation ranks no higher than the     *)
(* current position and the next publication ranks strictly higher.  The   *)
(* one exception, a reset of the failure streak, republishes Running,      *)
(* which no connection waits with.                                         *)
(***************************************************************************)

Rank(phase) ==
    CASE phase = "Starting"                   -> 1
      [] phase \in {"Running", "External"}    -> 2
      [] phase \in {"Stopping", "Conflict"}   -> 3
      [] phase = "Cooldown"                   -> 4
      [] phase = "Stopped"                    -> 5
      [] OTHER                                -> 6

\* The first Reconciling of all comes before everything else.
Position == IF pc = "startup" THEN 0 ELSE Rank(lc.phase)

Past(observation) ==
    observation # NoObservation =>
        /\ observation.phase \in WakePhases
        /\ /\ observation.launch_generation = lc.launch_generation
           /\ observation.phase # "Reconciling"
           => Rank(observation.phase) <= Position

OrderInv ==
    /\ Past(wake)
    /\ \A c \in Clients : Past(observed[c])

\* How a step may move the published lifecycle.
Advances ==
    \/ lc' = lc /\ Position' >= Position
    \/ lc'.launch_generation = lc.launch_generation + 1
    \/ /\ lc'.launch_generation = lc.launch_generation
       /\ pc' # "startup"
       /\ \/ Position' > Position
          \/ Position' = Position /\ lc'.phase = "Running"

\* A rank is a small number.
LEMMA RankType == \A phase : Rank(phase) \in 0..6
  BY DEF Rank

\* Reconciliation and launching advance.
LEMMA ReconciliationAdvances ==
    ASSUME IInv,
           \/ \E probe \in Probes :
                 \/ ReconcileStartup(probe) \/ FinalGateBlocks(probe)
                 \/ Launch(probe) \/ LaunchFails(probe)
                 \/ ReconcileExternal(probe)
           \/ BeginFinalGate \/ PollExternal
    PROVE  Advances
  <1> USE DEF IInv, TypeOK, AssertionsHold, Advances, Position, Rank
  <1>1. ASSUME NEW probe \in Probes, ReconcileStartup(probe) PROVE Advances
    <2> DEFINE class == classification(probe)
    <2>0. class \in {"FullyReady", "Positive", "Clean", "Inconclusive"}
      BY ClassificationType
    <2>1. CASE class = "Clean"
      BY <1>1, <2>1, PublishStopped DEF ReconcileStartup, Publishes
    <2>2. CASE class = "FullyReady"
      <3>1. Publishes(lc', "External",
                      IF latch THEN lc.launch_generation + 1
                      ELSE lc.launch_generation,
                      lc.failure, lc.failure_streak, "Positive")
        BY <1>1, <2>2, PublishExternal DEF ReconcileStartup
      <3> QED
        BY <1>1, <2>2, <3>1 DEF ReconcileStartup, Publishes
    <2>3. CASE class \in {"Positive", "Inconclusive"}
      <3>1. Publishes(lc', "Conflict",
                      IF latch THEN lc.launch_generation + 1
                      ELSE lc.launch_generation,
                      lc.failure, lc.failure_streak, class)
        BY <1>1, <2>3, PublishConflict DEF ReconcileStartup
      <3> QED
        BY <1>1, <2>3, <3>1 DEF ReconcileStartup, Publishes
    <2> QED
      BY <2>0, <2>1, <2>2, <2>3
  <1>2. ASSUME NEW probe \in Probes, FinalGateBlocks(probe) PROVE Advances
    <2> DEFINE class == classification(probe)
    <2>0. class \in {"FullyReady", "Positive", "Clean", "Inconclusive"}
      BY ClassificationType
    <2>1. CASE class = "FullyReady"
      BY <1>2, <2>1, PublishExternal DEF FinalGateBlocks, Publishes
    <2>2. CASE class # "FullyReady"
      <3>1. Publishes(lc', "Conflict", lc.launch_generation + 1,
                      lc.failure, lc.failure_streak,
                      IF lc.evidence = "Positive" THEN "Positive" ELSE class)
        BY <1>2, <2>0, <2>2, PublishConflict DEF FinalGateBlocks
      <3> QED
        BY <3>1 DEF Publishes
    <2> QED
      BY <2>1, <2>2
  <1>3. ASSUME NEW probe \in Probes, Launch(probe) PROVE Advances
    BY <1>3, LaunchSuccess DEF Launch, Publishes
  <1>4. ASSUME NEW probe \in Probes, LaunchFails(probe) PROVE Advances
    BY <1>4, LaunchFailure DEF LaunchFails, Publishes
  <1>5. ASSUME NEW probe \in Probes, ReconcileExternal(probe) PROVE Advances
    <2>1. CASE classification(probe) = "FullyReady"
      BY <1>5, <2>1 DEF ReconcileExternal
    <2>2. CASE classification(probe) # "FullyReady"
      <3>1. Publishes(lc', "Conflict", lc.launch_generation,
                      lc.failure, lc.failure_streak, "Positive")
        BY <1>5, <2>2, PublishConflict DEF ReconcileExternal
      <3>2. lc.phase = "External" /\ pc # "startup" /\ pc' = "idle"
        BY <1>5, <2>2 DEF ReconcileExternal
      <3> QED
        BY <3>1, <3>2 DEF Publishes
    <2> QED
      BY <2>1, <2>2
  <1>6. CASE BeginFinalGate
    BY <1>6, PhaseChanges DEF BeginFinalGate, Publishes
  <1>7. CASE PollExternal
    BY <1>7 DEF PollExternal
  <1> QED
    BY <1>1, <1>2, <1>3, <1>4, <1>5, <1>6, <1>7

\* So does the owned cycle.
LEMMA CycleAdvances ==
    ASSUME IInv,
           \/ BecomeReady \/ StartupTimesOut \/ ChildReaped
           \/ ProcessWaitFails \/ CompleteStabilityWindow \/ CommitIdleStop
    PROVE  Advances
  <1> USE DEF IInv, TypeOK, AssertionsHold, Advances, Position, Rank
  <1>1. CASE BecomeReady
    BY <1>1, PhaseChanges DEF BecomeReady, Publishes
  <1>2. CASE StartupTimesOut
    BY <1>2, BeginFailureCleanup
    DEF StartupTimesOut, Publishes, FailureCategory
  <1>3. CASE ChildReaped
    BY <1>3, ReapedFailure DEF ChildReaped, Publishes, FailureCategory
  <1>4. CASE ProcessWaitFails
    BY <1>4, PhaseChanges DEF ProcessWaitFails, Publishes, ServerPhase
  <1>5. CASE CompleteStabilityWindow
    BY <1>5, ResetStreak DEF CompleteStabilityWindow, Publishes
  <1>6. CASE CommitIdleStop
    BY <1>6, BeginIdleStop DEF CommitIdleStop, Publishes
  <1> QED
    BY <1>1, <1>2, <1>3, <1>4, <1>5, <1>6

\* So do stopping, cooling down and shutting down.
LEMMA StoppingAdvances ==
    ASSUME IInv,
           \/ FinishIdleStop \/ FinishFailedStop \/ CooldownExpires \/ Tick
           \/ ShutdownWithoutChild \/ ShutdownWithChild \/ FinishLastStop
           \/ StopFails
    PROVE  Advances
  <1> USE DEF IInv, TypeOK, AssertionsHold, Advances, Position, Rank
  <1>1. CASE FinishIdleStop
    BY <1>1, PhaseChanges DEF FinishIdleStop, Publishes, ServerPhase
  <1>2. CASE FinishFailedStop
    BY <1>2, PhaseChanges DEF FinishFailedStop, Publishes
  <1>3. CASE CooldownExpires
    BY <1>3, PhaseChanges DEF CooldownExpires, Publishes, ServerPhase
  <1>4. CASE Tick
    BY <1>4 DEF Tick
  <1>5. CASE ShutdownWithoutChild
    BY <1>5, PhaseChanges DEF ShutdownWithoutChild, Publishes, ServerPhase
  <1>6. CASE ShutdownWithChild
    BY <1>6, PhaseChanges DEF ShutdownWithChild, Publishes, ServerPhase
  <1>7. CASE FinishLastStop
    BY <1>7, PhaseChanges DEF FinishLastStop, Publishes, ServerPhase
  <1>8. CASE StopFails
    BY <1>8 DEF StopFails
  <1> QED
    BY <1>1, <1>2, <1>3, <1>4, <1>5, <1>6, <1>7, <1>8

\* Every step advances.
LEMMA StepAdvances == ASSUME IInv, [Next]_vars PROVE Advances
  <1>1. CASE Environment \/ RecvWake \/ UNCHANGED vars
    <2>1. CASE Environment
      <3>1. lc' = lc /\ pc' = pc
        BY <2>1
        DEF Environment, SampleLifecycle, TrySend, AbandonLogin,
            RequestShutdown, ChildExits
      <3> QED
        BY <3>1, RankType DEF Advances, Position
    <2>2. CASE RecvDemand
      <3>1. lc' = lc /\ pc = "idle" /\ pc' \in {"idle", "demand"}
        BY <2>2 DEF RecvDemand
      <3>2. Position' = Position
        BY <3>1 DEF Position
      <3> QED
        BY <3>1, <3>2, RankType DEF Advances, Position
    <2>3. CASE RecvWake /\ ~RecvDemand
      <3>1. lc' = lc /\ pc' = pc
        BY <2>3
        DEF RecvWake, StartupRecvWake, IgnoreWake, RecvRestart,
            RecvRetryWhileStopping, RecvRetryInCooldown
      <3> QED
        BY <3>1, RankType DEF Advances, Position
    <2>4. CASE UNCHANGED vars
      BY <2>4, RankType DEF vars, Advances, Position
    <2> QED
      BY <1>1, <2>1, <2>2, <2>3, <2>4
  <1>2. CASE Progress
    BY <1>2, ReconciliationAdvances, CycleAdvances, StoppingAdvances
    DEF Progress
  <1>3. CASE ProcessWaitFails \/ CompleteStabilityWindow \/ CommitIdleStop
    BY <1>3, CycleAdvances
  <1> QED
    BY <1>1, <1>2, <1>3 DEF Next, Terminated

\* An observation of the past is not what a step publishes now, and stays an
\* observation of the past.
LEMMA PastStaysPast ==
    ASSUME IInv, IInv', Advances,
           NEW observation \in LifecycleState \cup {NoObservation},
           Backed(observation), Past(observation)
    PROVE  /\ observation # NoObservation =>
                 /\ observation.phase \in WakePhases
                 /\ /\ observation.launch_generation = lc'.launch_generation
                    /\ observation.phase # "Reconciling"
                    => Rank(observation.phase) <= Position'
           /\ lc' # lc /\ lc'.phase # "Reconciling" => observation # lc'
  <1>1. lc \in LifecycleState /\ lc' \in LifecycleState
    BY DEF IInv, TypeOK
  <1>2. lc.launch_generation \in Nat /\ lc'.launch_generation \in Nat
    BY <1>1, LifecycleFields
  <1>3. CASE observation = NoObservation
    BY <1>1, <1>3, NoObservationAssumption
  <1>4. CASE observation # NoObservation
    <2>1. observation.launch_generation \in Nat
      BY <1>4, LifecycleFields
    <2>2. /\ observation.launch_generation <= lc.launch_generation
          /\ observation.phase \in WakePhases
          /\ /\ observation.launch_generation = lc.launch_generation
             /\ observation.phase # "Reconciling"
             => Rank(observation.phase) <= Position
      BY <1>4 DEF Backed, Past
    <2>3. /\ Rank(observation.phase) \in Nat
          /\ Position \in Nat /\ Position' \in Nat
      BY RankType DEF Position
    <2>4. CASE lc' = lc /\ Position' >= Position
      BY <2>2, <2>3, <2>4
    <2>5. CASE lc'.launch_generation = lc.launch_generation + 1
      BY <1>2, <2>1, <2>2, <2>5
    <2>6. CASE /\ lc'.launch_generation = lc.launch_generation
               /\ pc' # "startup"
               /\ \/ Position' > Position
                  \/ Position' = Position /\ lc'.phase = "Running"
      <3>1. Position' = Rank(lc'.phase)
        BY <2>6 DEF Position
      <3>2. /\ observation.launch_generation = lc'.launch_generation
            /\ observation.phase # "Reconciling"
            => Rank(observation.phase) <= Position'
        BY <2>2, <2>3, <2>6
      <3>3. ASSUME observation = lc', lc'.phase # "Reconciling" PROVE FALSE
        <4>1. Rank(observation.phase) <= Position
          BY <2>2, <2>6, <3>3
        <4>2. lc'.phase # "Running"
          BY <2>2, <3>3 DEF WakePhases
        <4> QED
          BY <2>3, <2>6, <3>1, <3>3, <4>1, <4>2
      <3> QED
        BY <2>2, <3>2, <3>3
    <2> QED
      BY <2>4, <2>5, <2>6 DEF Advances
  <1> QED
    BY <1>3, <1>4

\* No step holds on to an observation other than the ones held before and
\* the lifecycle it samples.
LEMMA HeldObservations ==
    ASSUME IInv, [Next]_vars
    PROVE  /\ \/ wake' \in {wake, NoObservation}
              \/ \E c \in Clients : wake' = observed[c]
           /\ \A c \in Clients :
                 \/ observed'[c] \in {observed[c], NoObservation}
                 \/ observed'[c] = lc /\ lc' = lc /\ pc' = pc
                    /\ lc.phase \in WakePhases
  <1> USE DEF IInv, TypeOK
  <1>1. ASSUME NEW c \in Clients, SampleLifecycle(c)
        PROVE  /\ wake' = wake /\ lc' = lc /\ pc' = pc
               /\ lc.phase \in WakePhases
               /\ \A d \in Clients : observed'[d] \in {observed[d], lc}
    BY <1>1 DEF SampleLifecycle
  <1>2. ASSUME NEW c \in Clients, TrySend(c)
        PROVE  /\ wake' \in {wake, observed[c]}
               /\ \A d \in Clients :
                     observed'[d] \in {observed[d], NoObservation}
    BY <1>2 DEF TrySend
  <1>3. ASSUME NEW c \in Clients, AbandonLogin(c)
        PROVE  /\ wake' = wake
               /\ \A d \in Clients :
                     observed'[d] \in {observed[d], NoObservation}
    BY <1>3 DEF AbandonLogin
  <1>4. CASE RequestShutdown
    BY <1>4 DEF RequestShutdown
  <1>5. ASSUME \/ ChildExits \/ RecvWake \/ Progress \/ ProcessWaitFails
               \/ CompleteStabilityWindow \/ CommitIdleStop
               \/ Terminated \/ UNCHANGED vars
        PROVE  observed' = observed /\ wake' \in {wake, NoObservation}
    BY <1>5
    DEF ChildExits, RecvWake, StartupRecvWake, RecvDemand, IgnoreWake,
        RecvRestart, RecvRetryWhileStopping, RecvRetryInCooldown, Progress,
        ReconcileStartup, FinalGateBlocks, Launch, LaunchFails,
        ReconcileExternal, BeginFinalGate, PollExternal, BecomeReady,
        StartupTimesOut, ChildReaped, FinishIdleStop, FinishFailedStop,
        CooldownExpires, Tick, ShutdownWithoutChild, ShutdownWithChild,
        FinishLastStop, StopFails, ProcessWaitFails, CompleteStabilityWindow,
        CommitIdleStop, Terminated, envVars, histVars, vars
  <1> QED
    BY <1>1, <1>2, <1>3, <1>4, <1>5 DEF Next, Environment

\* OrderInv holds initially and is kept.
LEMMA InitOrder == Init => OrderInv
  BY DEF Init, OrderInv, Past

LEMMA NextOrder == IInv /\ IInv' /\ OrderInv /\ [Next]_vars => OrderInv'
  <1> SUFFICES ASSUME IInv, IInv', OrderInv, [Next]_vars PROVE OrderInv'
    OBVIOUS
  <1>1. Advances
    BY StepAdvances
  <1>2. ASSUME NEW observation \in {wake} \cup {observed[c] : c \in Clients}
        PROVE  observation # NoObservation =>
                 /\ observation.phase \in WakePhases
                 /\ /\ observation.launch_generation = lc'.launch_generation
                    /\ observation.phase # "Reconciling"
                    => Rank(observation.phase) <= Position'
    <2>1. /\ observation \in LifecycleState \cup {NoObservation}
          /\ Backed(observation) /\ Past(observation)
      BY DEF IInv, TypeOK, DemandInv, OrderInv
    <2> QED
      BY <1>1, <2>1, PastStaysPast
  <1>3. Past(wake)'
    BY <1>2, HeldObservations DEF Past
  <1>4. ASSUME NEW c \in Clients PROVE Past(observed[c])'
    <2>1. CASE observed'[c] \in {observed[c], NoObservation}
      BY <1>2, <2>1 DEF Past
    <2>2. CASE /\ observed'[c] = lc /\ lc' = lc /\ pc' = pc
               /\ lc.phase \in WakePhases
      <3>1. CASE pc = "startup"
        BY <2>2, <3>1 DEF IInv, AssertionsHold, Past
      <3>2. CASE pc # "startup"
        BY <2>2, <3>2, RankType DEF Past, Position
      <3> QED
        BY <3>1, <3>2
    <2> QED
      BY <2>1, <2>2, HeldObservations
  <1> QED
    BY <1>3, <1>4 DEF OrderInv

\* A newly published lifecycle differs from every observation that is still
\* in a connection or in the wake channel, so the equality tests of
\* requests_restart and requests_conflict_reconciliation reject stale logins.
THEOREM StaleIsNeverCurrent == Spec => StaleNeverCurrent
  <1> DEFINE Fresh == lc' # lc /\ lc'.phase # "Reconciling"
                        => /\ wake # lc'
                           /\ \A c \in Clients : observed[c] # lc'
  <1>1. IInv /\ IInv' /\ OrderInv /\ [Next]_vars => [Fresh]_vars
    <2> SUFFICES ASSUME IInv, IInv', OrderInv, [Next]_vars PROVE Fresh
      OBVIOUS
    <2>1. Advances
      BY StepAdvances
    <2>2. ASSUME NEW observation \in {wake} \cup {observed[c] : c \in Clients},
                 lc' # lc, lc'.phase # "Reconciling"
          PROVE  observation # lc'
      <3>1. /\ observation \in LifecycleState \cup {NoObservation}
            /\ Backed(observation) /\ Past(observation)
        BY DEF IInv, TypeOK, DemandInv, OrderInv
      <3> QED
        BY <2>1, <2>2, <3>1, PastStaysPast
    <2> QED
      BY <2>2
  <1>2. Spec => []OrderInv
    BY Invariance, InitOrder, NextOrder, PTL DEF Spec
  <1> QED
    BY <1>1, <1>2, Invariance, PTL DEF Spec, StaleNeverCurrent
=============================================================================
