----------------------------- MODULE BackendUse -----------------------------
(***************************************************************************)
(* Who may use the owned backend while it is Running, and when the         *)
(* supervisor may stop it for being idle: BackendUseCoordinator            *)
(* (backend_use.rs), the connection handlers that proxy to an owned        *)
(* backend (proxy_owned_connection and what it calls, runtime.rs) and the  *)
(* running monitor (advance_running_monitor and attempt_expired_idle_stop, *)
(* supervisor.rs).                                                         *)
(*                                                                         *)
(* A connection takes a shared lease of the gate before it connects and    *)
(* keeps it for the length of a Login session; the monitor takes the gate  *)
(* exclusively before it commits an idle stop.  The gate is tokio's FIFO   *)
(* RwLock: a waiting writer holds back every reader that comes after it.   *)
(*                                                                         *)
(* Instants appear as their age, capped at the idle timeout because only   *)
(* expiry is ever asked of them.  The monitor's other question, whether    *)
(* the idle anchor is still the one it started from, is `moved'.           *)
(***************************************************************************)
EXTENDS Naturals, Sequences, FiniteSets

CONSTANTS
    Clients,         \* connection handlers
    IdleTimeout,     \* config.idle_timeout, in ticks
    MaxCycles        \* bound: launches that reach Running

ASSUME UseClientsAssumption == IsFiniteSet(Clients)
ASSUME ClientNamesAssumption == "supervisor" \notin Clients
ASSUME IdleTimeoutAssumption == IdleTimeout \in Nat \ {0}
ASSUME MaxCyclesAssumption == MaxCycles \in Nat

VARIABLES
    running,    \* the published owned_running_cycle, 0 when not Running
    cycle,      \* launch generation of the latest cycle
    monitor,    \* the await the supervisor is parked at
    activity,   \* ActivityTracker's state
    permit,     \* the Notify's stored permit
    moved,      \* the idle anchor changed since the idle stop was attempted
    inspection, \* PlayerInspection, which the configuration chooses
    rcon,       \* ConfiguredRcon: a client is connected
    zeroAge,    \* age of zero_anchor: {} or {age}
    readers,    \* connections holding a shared guard of the gate
    writing,    \* the monitor holds the gate exclusively
    queue,      \* the gate's FIFO wait queue
    conn,       \* each connection handler
    \* history variables
    sinceUse,   \* age of the last moment a login session of this cycle lived
    sinceDoubt  \* age of the last RCON observation that was not zero players

rconVars == <<inspection, rcon, zeroAge, sinceDoubt>>
gateVars == <<readers, writing, queue>>
vars == <<running, cycle, monitor, activity, permit, moved, inspection, rcon,
          zeroAge, readers, writing, queue, conn, sinceUse, sinceDoubt>>

\* The monitor's entry in the gate's queue.
Supervisor == "supervisor"

Idle == [at |-> "none", cycle |-> 0, intent |-> "Status"]

\* Where a handler is: waiting for its lease; holding it before and during
\* the connect; writing the replayed handshake; past the last check; in a
\* Login session (lease held); its session dropped but not yet the lease;
\* proxying a Status connection (no lease).
Stages == {"none", "queued", "leased", "connecting", "replaying", "ensured",
           "session", "closing", "proxying"}
LeaseStages == {"leased", "connecting", "replaying", "ensured", "session",
                "closing"}

Older(age) == IF age < IdleTimeout THEN age + 1 ELSE age

Init ==
    /\ running = 0 /\ cycle = 0
    /\ monitor = "down"
    /\ activity = [cycle |-> 0, active |-> 0, age |-> 0]
    /\ permit = FALSE /\ moved = FALSE
    /\ inspection \in {"ProxyOnly", "ConfiguredRcon"}
    /\ rcon = FALSE /\ zeroAge = {}
    /\ readers = {} /\ writing = FALSE /\ queue = <<>>
    /\ conn = [c \in Clients |-> Idle]
    /\ sinceUse = 0 /\ sinceDoubt = 0

-----------------------------------------------------------------------------
(***************************************************************************)
(* The gate.  Dropping a pending or granted guard takes its owner out.     *)
(***************************************************************************)

Waiting(q) == {q[i] : i \in 1..Len(q)}

\* The queue when somebody who waits at most once waits no more.
Without(q, who) ==
    IF who \notin Waiting(q) THEN q
    ELSE LET at == CHOOSE i \in 1..Len(q) : q[i] = who
         IN [i \in 1..(Len(q) - 1) |-> IF i < at THEN q[i] ELSE q[i + 1]]

ReleaseShared(c) ==
    /\ readers' = readers \ {c}
    /\ queue' = Without(queue, c)
    /\ UNCHANGED writing

ReleaseExclusive ==
    /\ writing' = FALSE
    /\ queue' = Without(queue, Supervisor)
    /\ UNCHANGED readers

\* acquire_shared: a reader at the head of the queue is let in.
GrantShared(c) ==
    /\ queue # <<>> /\ Head(queue) = c /\ ~writing
    /\ queue' = Tail(queue)
    /\ readers' = readers \cup {c}
    /\ conn' = [conn EXCEPT ![c].at = "leased"]
    /\ UNCHANGED <<running, cycle, monitor, activity, permit, moved, rconVars,
                   writing, sinceUse>>

\* acquire_exclusive: the monitor at the head of the queue, no reader left.
GrantExclusive ==
    /\ queue # <<>> /\ Head(queue) = Supervisor /\ ~writing /\ readers = {}
    /\ queue' = Tail(queue)
    /\ writing' = TRUE
    /\ monitor' = "holding"
    /\ UNCHANGED <<running, cycle, activity, permit, moved, rconVars, readers,
                   conn, sinceUse>>

-----------------------------------------------------------------------------
(***************************************************************************)
(* Connection handlers.                                                    *)
(***************************************************************************)

\* handle_sampled_connection saw Running: join the queue for a lease.
Sample(c) ==
    /\ conn[c].at = "none" /\ running # 0
    /\ \E intent \in {"Login", "Status"} :
          conn' = [conn EXCEPT ![c] = [at |-> "queued", cycle |-> running,
                                       intent |-> intent]]
    /\ queue' = Append(queue, c)
    /\ UNCHANGED <<running, cycle, monitor, activity, permit, moved, rconVars,
                   readers, writing, sinceUse>>

\* A handler advances only if ensure_current_owned_cycle holds; an error
\* drops the lease and closes the connection.
EnsureThen(c, from, to) ==
    /\ conn[c].at = from
    /\ IF running = conn[c].cycle
       THEN conn' = [conn EXCEPT ![c].at = to] /\ UNCHANGED gateVars
       ELSE conn' = [conn EXCEPT ![c] = Idle] /\ ReleaseShared(c)
    /\ UNCHANGED <<running, cycle, monitor, activity, permit, moved, rconVars,
                   sinceUse>>

\* Seeded fault: the lease is not kept across the connect.
BeginConnectWithoutLease(c) ==
    /\ conn[c].at = "leased"
    /\ conn' = [conn EXCEPT ![c] =
                  IF running = @.cycle THEN [@ EXCEPT !.at = "connecting"]
                  ELSE Idle]
    /\ ReleaseShared(c)
    /\ UNCHANGED <<running, cycle, monitor, activity, permit, moved, rconVars,
                   sinceUse>>

\* proxy_owned_connection: the check after the lease, then connect_backend.
BeginConnect(c) == EnsureThen(c, "leased", "connecting")

\* proxy_connected_owned: connected; the check before the replay's write_all.
BeginReplay(c) == EnsureThen(c, "connecting", "replaying")

\* establish_owned_proxy_activity: the check after the replay.
EndReplay(c) == EnsureThen(c, "replaying", "ensured")

\* Seeded faults: a session counted for whatever cycle is current; a session
\* counted without notifying the monitor.
EstablishInAnyCycle(c) ==
    /\ conn[c].at = "ensured" /\ conn[c].intent = "Login"
    /\ activity' = [activity EXCEPT !.active = @ + 1]
    /\ permit' = TRUE /\ moved' = TRUE
    /\ conn' = [conn EXCEPT ![c].at = "session"]
    /\ UNCHANGED <<running, cycle, monitor, rconVars, gateVars, sinceUse>>

EstablishUnnotified(c) ==
    /\ conn[c].at = "ensured" /\ conn[c].intent = "Login"
    /\ activity.cycle = conn[c].cycle
    /\ activity' = [activity EXCEPT !.active = @ + 1]
    /\ moved' = TRUE
    /\ conn' = [conn EXCEPT ![c].at = "session"]
    /\ UNCHANGED <<running, cycle, monitor, rconVars, gateVars, permit,
                   sinceUse>>

\* establish_owned_proxy_activity for a Login or Transfer:
\* establish_login_transfer_session counts the session under the mutex, or
\* hands the lease back when the tracker has moved to another cycle.
EstablishSession(c) ==
    /\ conn[c].at = "ensured" /\ conn[c].intent = "Login"
    /\ IF activity.cycle = conn[c].cycle
       THEN /\ activity' = [activity EXCEPT !.active = @ + 1]
            /\ permit' = TRUE /\ moved' = TRUE
            /\ conn' = [conn EXCEPT ![c].at = "session"]
            /\ sinceUse' = IF conn[c].cycle = cycle THEN 0 ELSE sinceUse
            /\ UNCHANGED gateVars
       ELSE /\ conn' = [conn EXCEPT ![c] = Idle]
            /\ ReleaseShared(c)
            /\ UNCHANGED <<activity, permit, moved, sinceUse>>
    /\ UNCHANGED <<running, cycle, monitor, rconVars>>

\* Seeded fault: the Status proxy keeps its lease.
ProxyStatusWithLease(c) ==
    /\ conn[c].at = "ensured" /\ conn[c].intent = "Status"
    /\ conn' = [conn EXCEPT ![c].at = "proxying"]
    /\ UNCHANGED <<running, cycle, monitor, activity, permit, moved, rconVars,
                   gateVars, sinceUse>>

\* establish_owned_proxy_activity for a Status or unknown intent: the lease
\* is dropped and the streams are proxied without one.
ProxyStatus(c) ==
    /\ conn[c].at = "ensured" /\ conn[c].intent = "Status"
    /\ conn' = [conn EXCEPT ![c].at = "proxying"]
    /\ ReleaseShared(c)
    /\ UNCHANGED <<running, cycle, monitor, activity, permit, moved, rconVars,
                   sinceUse>>

DropWithoutAnchor(c) ==
    /\ conn[c].at = "session"
    /\ activity' = IF activity.cycle = conn[c].cycle
                   THEN [activity EXCEPT !.active = @ - 1] ELSE activity
    /\ permit' = TRUE /\ moved' = TRUE
    /\ conn' = [conn EXCEPT ![c].at = "closing"]
    /\ sinceUse' = IF conn[c].cycle = cycle THEN 0 ELSE sinceUse
    /\ UNCHANGED <<running, cycle, monitor, rconVars, gateVars>>

\* The session ends: Drop for LoginTransferProxySession.  The tracker of a
\* later cycle is left alone.  The lease field is dropped after the body.
DropSession(c) ==
    /\ conn[c].at = "session"
    /\ IF activity.cycle = conn[c].cycle
       THEN /\ activity' = [activity EXCEPT
                  !.active = @ - 1,
                  !.age = IF activity.active = 1 THEN 0 ELSE @]
            /\ permit' = TRUE /\ moved' = TRUE
       ELSE UNCHANGED <<activity, permit, moved>>
    /\ conn' = [conn EXCEPT ![c].at = "closing"]
    /\ sinceUse' = IF conn[c].cycle = cycle THEN 0 ELSE sinceUse
    /\ UNCHANGED <<running, cycle, monitor, rconVars, gateVars>>

Leave(c) ==
    /\ conn' = [conn EXCEPT ![c] = Idle]
    /\ ReleaseShared(c)
    /\ UNCHANGED <<running, cycle, monitor, activity, permit, moved, rconVars,
                   sinceUse>>

\* The lease of a dropped session is released.
ReleaseLease(c) == conn[c].at = "closing" /\ Leave(c)

\* A handler ends outside a session: the Status proxy is closed, or waiting,
\* connecting or writing failed or was aborted.
CloseConnection(c) ==
    /\ conn[c].at \notin {"none", "session", "closing"}
    /\ Leave(c)

-----------------------------------------------------------------------------
(***************************************************************************)
(* The supervisor around the monitor.                                      *)
(***************************************************************************)

\* publish_running, first half: begin_cycle resets the tracker.
BeginCycle ==
    /\ monitor = "down" /\ cycle < MaxCycles
    /\ cycle' = cycle + 1
    /\ activity' = [cycle |-> cycle + 1, active |-> 0, age |-> 0]
    /\ monitor' = "begun"
    /\ sinceUse' = 0 /\ sinceDoubt' = 0
    /\ rcon' = FALSE /\ zeroAge' = {}
    /\ UNCHANGED <<running, permit, moved, inspection, gateVars, conn>>

\* publish_running, second half: Running is published.
PublishRunning ==
    /\ monitor = "begun"
    /\ running' = cycle
    /\ monitor' = "monitor"
    /\ UNCHANGED <<cycle, activity, permit, moved, rconVars, gateVars, conn,
                   sinceUse>>

\* The cycle ends otherwise than idle: the process exited, waiting for it
\* failed, or the daemon shuts down.  The monitor's guard or pending
\* acquisition is dropped with its future.
LoseCycle ==
    /\ monitor \in {"monitor", "waiting", "holding", "final_check"}
    /\ running' = 0
    /\ monitor' = "down"
    /\ ReleaseExclusive
    /\ UNCHANGED <<cycle, activity, permit, moved, rconVars, conn, sinceUse>>

\* The idle stop's own cleanup is over.
FinishIdleStop ==
    /\ monitor = "stopping"
    /\ monitor' = "down"
    /\ UNCHANGED <<running, cycle, activity, permit, moved, rconVars, gateVars,
                   conn, sinceUse>>

\* effective_idle_anchor is set and idle_timeout has passed since.
IdleExpired ==
    /\ activity.cycle = cycle /\ activity.active = 0
    /\ activity.age >= IdleTimeout
    /\ inspection = "ConfiguredRcon" => \E age \in zeroAge : age >= IdleTimeout

\* advance_running_monitor: the activity_changed branch.
ConsumePermit ==
    /\ monitor = "monitor" /\ permit
    /\ permit' = FALSE
    /\ UNCHANGED <<running, cycle, monitor, activity, moved, rconVars, gateVars,
                   conn, sinceUse>>

\* A reply to the RCON list command, parsed or not.  Any may come at any
\* time: players also join past the proxy.
Replies == {"zero", "players", "unknown", "error"}

\* Seeded fault: an unparsable reply leaves the zero anchor alone.
InspectReplyLeniently(reply) ==
    /\ rcon' = (reply # "error")
    /\ zeroAge' = CASE reply \in {"players", "error"}      -> {}
                    [] reply = "zero" /\ zeroAge = {}       -> {0}
                    [] OTHER                                -> zeroAge
    /\ sinceDoubt' = IF reply = "zero" THEN sinceDoubt ELSE 0

\* What a list reply leaves in the PlayerInspection: only a parsed zero
\* keeps or starts the zero anchor, and an error loses the connection.
InspectReply(reply) ==
    /\ rcon' = (reply # "error")
    /\ zeroAge' = CASE reply # "zero"              -> {}
                    [] reply = "zero" /\ zeroAge = {} -> {0}
                    [] OTHER                       -> zeroAge
    /\ sinceDoubt' = IF reply = "zero" THEN sinceDoubt ELSE 0

\* poll_player_presence.
PollPlayers ==
    /\ inspection = "ConfiguredRcon" /\ monitor = "monitor"
    /\ IF rcon
       THEN \E reply \in Replies : InspectReply(reply)
       ELSE /\ zeroAge' = {}
            /\ rcon' \in BOOLEAN
            /\ sinceDoubt' = 0
    /\ UNCHANGED <<running, cycle, monitor, activity, permit, moved, inspection,
                   gateVars, conn, sinceUse>>

\* attempt_expired_idle_stop: queue for the gate.
AttemptIdleStop ==
    /\ monitor = "monitor" /\ IdleExpired
    /\ monitor' = "waiting"
    /\ moved' = FALSE
    /\ queue' = Append(queue, Supervisor)
    /\ UNCHANGED <<running, cycle, activity, permit, rconVars, readers, writing,
                   conn, sinceUse>>

\* acquire_idle_exclusive: activity was notified while waiting.  A changed
\* anchor gives the attempt up and takes the writer out of the queue.
RecheckWhileWaiting ==
    /\ monitor = "waiting" /\ permit
    /\ permit' = FALSE
    /\ IF moved \/ ~IdleExpired
       THEN monitor' = "monitor" /\ ReleaseExclusive
       ELSE UNCHANGED <<monitor, gateVars>>
    /\ UNCHANGED <<running, cycle, activity, moved, rconVars, conn, sinceUse>>

\* What attempt_expired_idle_stop tests again once it holds the gate.
StillIdle == IdleExpired /\ ~moved /\ running = cycle

\* begin_idle_stop publishes Stopping, then the exclusive guard is dropped.
Commit ==
    /\ running' = 0
    /\ monitor' = "stopping"
    /\ ReleaseExclusive
    /\ UNCHANGED <<cycle, activity, permit, moved, rconVars, conn, sinceUse>>

\* Seeded fault: the exclusive guard outlives a vetoed attempt.
VetoKeepingGuard == monitor' = "monitor" /\ UNCHANGED gateVars

\* The attempt is vetoed: back to monitoring, the guard dropped.
Veto == monitor' = "monitor" /\ ReleaseExclusive

\* Without RCON holding the gate and still idle is enough.
CommitProxyOnly ==
    /\ monitor = "holding" /\ StillIdle /\ inspection = "ProxyOnly"
    /\ Commit

\* confirm_idle_player_state with RCON: ask once more while holding the
\* gate; without a connected client the stop is vetoed.
BeginFinalCheck ==
    /\ monitor = "holding" /\ StillIdle /\ inspection = "ConfiguredRcon"
    /\ IF rcon
       THEN monitor' = "final_check" /\ UNCHANGED <<gateVars, rconVars>>
       ELSE Veto /\ zeroAge' = {} /\ UNCHANGED <<inspection, rcon, sinceDoubt>>
    /\ UNCHANGED <<running, cycle, activity, permit, moved, conn, sinceUse>>

\* Holding the gate, but no longer idle.
RecheckFails ==
    /\ monitor = "holding" /\ ~StillIdle
    /\ Veto
    /\ UNCHANGED <<running, cycle, activity, permit, moved, rconVars, conn,
                   sinceUse>>

\* final_rcon_player_check answers zero and the stop is committed.
CommitAfterFinalCheck ==
    /\ monitor = "final_check" /\ running = cycle
    /\ Commit

\* final_rcon_player_check answers anything else, fails or times out.
FinalCheckVetoes ==
    /\ monitor = "final_check"
    /\ \E reply \in Replies \ {"zero"} : InspectReply(reply)
    /\ Veto
    /\ UNCHANGED <<running, cycle, activity, permit, moved, inspection, conn,
                   sinceUse>>

LiveSessions == {c \in Clients : conn[c].at = "session" /\ conn[c].cycle = cycle}

\* Time passes.
Tick ==
    /\ monitor \in {"monitor", "waiting", "holding", "final_check"}
    /\ activity' = [activity EXCEPT !.age = Older(@)]
    /\ zeroAge' = {Older(age) : age \in zeroAge}
    /\ sinceUse' = IF LiveSessions # {} THEN 0 ELSE Older(sinceUse)
    /\ sinceDoubt' = Older(sinceDoubt)
    /\ UNCHANGED <<running, cycle, monitor, permit, moved, inspection, rcon,
                   gateVars, conn>>

\* The bound on cycles is reached.
Rest == monitor = "down" /\ cycle = MaxCycles /\ UNCHANGED vars

-----------------------------------------------------------------------------
\* A handler's steps up to its session; each is bounded by the connect
\* timeout or by the write of one handshake.
Handler(c) ==
    \/ GrantShared(c) \/ BeginConnect(c) \/ BeginReplay(c) \/ EndReplay(c)
    \/ EstablishSession(c) \/ ProxyStatus(c) \/ ReleaseLease(c)

Monitor ==
    \/ GrantExclusive \/ ConsumePermit \/ RecheckWhileWaiting
    \/ CommitProxyOnly \/ BeginFinalCheck \/ RecheckFails
    \/ CommitAfterFinalCheck \/ FinalCheckVetoes \/ AttemptIdleStop

Next ==
    \/ \E c \in Clients :
          Sample(c) \/ Handler(c) \/ DropSession(c) \/ CloseConnection(c)
    \/ Monitor \/ PollPlayers
    \/ BeginCycle \/ PublishRunning \/ LoseCycle \/ FinishIdleStop
    \/ Tick \/ Rest

Spec == Init /\ [][Next]_vars

\* Handlers before and after their session are driven by timeouts, the
\* monitor by the executor, time by itself.  No player owes the end of a
\* session, and no process its exit.
Fairness ==
    /\ \A c \in Clients : WF_vars(Handler(c))
    /\ WF_vars(Monitor) /\ WF_vars(Tick)
    /\ WF_vars(PublishRunning) /\ WF_vars(FinishIdleStop)

\* External: a player whose server died under the session hangs up.
DeadSessionsEnd ==
    \A c \in Clients : WF_vars(conn[c].cycle # cycle /\ DropSession(c))

LingeringSpec == Spec /\ Fairness
FairSpec == LingeringSpec /\ DeadSessionsEnd

-----------------------------------------------------------------------------
(***************************************************************************)
(* Properties.                                                             *)
(***************************************************************************)

TypeOK ==
    /\ running \in Nat /\ cycle \in Nat
    /\ monitor \in {"down", "begun", "monitor", "waiting", "holding",
                    "final_check", "stopping"}
    /\ activity \in [cycle : Nat, active : Nat, age : 0..IdleTimeout]
    /\ permit \in BOOLEAN /\ moved \in BOOLEAN
    /\ inspection \in {"ProxyOnly", "ConfiguredRcon"} /\ rcon \in BOOLEAN
    /\ zeroAge \subseteq 0..IdleTimeout
    /\ readers \subseteq Clients /\ writing \in BOOLEAN
    /\ queue \in Seq(Clients \cup {Supervisor})
    /\ conn \in [Clients -> [at : Stages, cycle : Nat,
                             intent : {"Login", "Status"}]]
    /\ sinceUse \in 0..IdleTimeout /\ sinceDoubt \in 0..IdleTimeout

\* The gate agrees with its users: the shared guards are those of the
\* handlers in a lease stage, the exclusive guard is the monitor's while it
\* decides, the two exclude each other, and whoever waits waits once.
GateConsistent ==
    /\ readers = {c \in Clients : conn[c].at \in LeaseStages}
    /\ writing <=> monitor \in {"holding", "final_check"}
    /\ writing => readers = {}
    /\ Waiting(queue) = {c \in Clients : conn[c].at = "queued"}
                        \cup {x \in {Supervisor} : monitor = "waiting"}
    /\ \A i, j \in 1..Len(queue) : queue[i] = queue[j] => i = j

\* The tracker counts exactly the live Login sessions of its own cycle, so
\* the count neither underflows nor is touched by sessions that outlived a
\* crashed earlier cycle.
CountMatchesSessions ==
    activity.active =
        Cardinality({c \in Clients : /\ conn[c].at = "session"
                                     /\ conn[c].cycle = activity.cycle})

IdleStopStep == monitor # "stopping" /\ monitor' = "stopping"

\* An idle stop is never committed while a handler is between its cycle
\* check and the end of its use of the backend: what it replayed would reach
\* a server that is stopping.
NoStopUnderUse ==
    [][IdleStopStep => \A c \in Clients :
          conn[c].at \notin {"connecting", "replaying", "ensured", "session"}
      ]_vars

\* An idle stop is committed only when no Login session of the cycle has
\* lived for the whole idle timeout and, with RCON, no observation in that
\* time was anything but zero players.
IdleLongEnough ==
    [][IdleStopStep =>
          /\ sinceUse >= IdleTimeout
          /\ inspection = "ConfiguredRcon" => sinceDoubt >= IdleTimeout]_vars

\* A connection that waits for its lease is let in or turned away, even
\* when the monitor's pending exclusive acquisition is ahead of it and long
\* sessions are ahead of that.
LeaseWaitEnds ==
    \A c \in Clients : conn[c].at = "queued" ~> conn[c].at # "queued"

OnlyStatus == \A c \in Clients : conn[c].intent = "Status"

\* Status connections, however many keep coming, do not keep the server
\* awake: once nobody logs in any more, and RCON if there is one keeps
\* reporting nobody, the server is stopped.
StatusDoesNotKeepAwake ==
    <>[](OnlyStatus /\ (inspection = "ConfiguredRcon" => zeroAge # {}))
        => []<>(running = 0)
=============================================================================
