# MCServerNap in TLA+

MCServerNap keeps Minecraft servers asleep until somebody joins. One daemon
serves several servers: for each it listens on the public port, answers
status pings itself while the server sleeps, launches the process when a
player logs in, proxies connections while it runs, and stops it again when
nobody has played for a while.

This directory holds a model of that code, the configurations that
model-check it on small instances, and proofs of its main safety properties
for every instance. Paths below are relative to the repository.

## The system

| part | source | state | operations |
|---|---|---|---|
| Daemon coordinator | `src/coordinator.rs` | shutdown flag, fatal errors, set of runtimes, signal watcher | prepare, bind all, activate, join, report |
| Server runtime | `src/runtime.rs` | listener, connection tasks, permits shared by all servers | accept, handle a connection, shut down |
| Supervisor | `src/supervisor.rs` | the published `LifecycleState`, the owned process, latches, timers | reconcile, launch, monitor, stop, back off |
| Backend use | `src/backend_use.rs` | lease gate (a FIFO `RwLock`), session count of the current cycle, a `Notify` | lease, count and drop sessions, take the gate |
| Process | `src/process.rs` | child process and its process group | launch, console stop, terminate, reap |
| RCON | `src/rcon.rs` | one TCP connection, its next request id | probe, list players, stop |
| Minecraft protocol | `src/minecraft.rs`, `src/minecraft/version.rs` | the bytes read of one connection and its deadline | read handshake and login, answer status and ping, replay |
| Configuration | `src/config.rs`, `src/endpoint.rs` | none after start-up | load, validate as a whole, prepare server by server |
| Command line, labels | `src/main.rs`, `src/context.rs` | none | choose between the daemon and a single RCON stop; name a server in messages |

They interact in four ways. The supervisor publishes its lifecycle through a
watch channel that every connection handler samples. A handler asks for a
launch through an mpsc channel with ONE slot, sending the lifecycle it
sampled. Handlers and the supervisor exclude each other through the lease
gate and signal each other through the `Notify`. The runtime stops the
supervisor through a oneshot channel after it has aborted and joined its
handlers.

What is hard about it:

* a request carries an observation that may be many state changes old when it
  is received, at any of seven awaits, each with its own acceptance rule;
* the decision that the server is idle is taken from an anchor computed before
  a wait, and connections keep arriving;
* sessions may outlive the process they were proxied to, and the gate and the
  tracker are shared by all cycles;
* shutdown may come at every await, also during another stop;
* failures in the middle of a stop, launch failures and crashes feed a backoff
  that logins must not shorten;
* a stop is an escalation of timed waits with a budget each, and the runtime
  that waits for it has a watchdog of its own, computed from the same timeouts;
* RCON answers arrive late, in parts, or after the command they answer was
  given up, and request ids wrap on a connection that is kept;
* a client may send its bytes at any pace and stop anywhere, while its login
  start's layout depends on the configured release, and what was parsed must
  reach the backend unchanged;
* a host name in the configuration resolves after it was validated, and each
  time differently;
* a server that was started by somebody else must never be stopped, nor a
  second one launched beside it.

## The modules

| module | models |
|---|---|
| `Lifecycle` | the published record, `WakeRequest`'s tests, probe classification, `failure_backoff`, the transitions of `SupervisorControl`; no variables |
| `Supervisor` | `supervisor::run` and all it awaits, the handlers that send wake requests, shutdown, the process |
| `NapServer` | what the supervisor promises: attempts only on demand, one per demand, one process, none beside a foreign server |
| `BackendUse` | the lease gate, session counting, owned-proxy handlers, the running monitor and its idle stop |
| `Daemon` | the coordinator, the signal watcher, and for each server the runtime with its connection tasks, permits, watchdog and shutdown |
| `Stopping` | `stop_and_reap` and `process::terminate` in time: the RCON and console stop, the grace period, the kill of the group and of the process, and the runtime's watchdog over all of it |
| `RconClient` | the RCON connection: login, commands with their end marker, ids, and how probes, polls, the final check and the stop use, keep or drop a client |
| `Protocol` | VarInts, strings, frames, and the parsers of handshake, login start, status request and ping; no variables |
| `Connection` | one client connection from accept to its end: bytes, deadlines, answers, wake-up, connecting to the backend, replay and relay |
| `Config` | validation of a document, preparation of its servers, and what the prepared servers then listen on, connect to and launch |
| `SupervisorProofs`, `BackendUseProofs`, `DaemonProofs`, `StoppingProofs`, `RconProofs`, `ConnectionProofs`, `ProtocolProofs`, `ConfigProofs` | the proofs, each about the module it is named for; `SupervisorProofs` also about `Lifecycle`, `ProtocolProofs` about the grammar in `MCProtocol` |
| `MCSupervisor`, `MCBackendUse`, `MCDaemon`, `MCStopping`, `MCRconClient`, `MCConnection`, `MCConfig` | instances for TLC |
| `MCProtocol` | every short packet, and the protocol's grammar to compare the parsers with |

`Supervisor` and `BackendUse` are two views of one supervisor. In `Supervisor`
the idle stop may be committed at any moment of Running and the gate does not
appear; `BackendUse` models the inside of Running and treats everything else
as "down". A property of one view that holds under its weaker environment
holds in the code. `Daemon` sees a supervisor only as a task that runs until
it is told to stop, or fails. What the views assume of one another is checked
where it is implemented: `Supervisor!RequestShutdown` clears all connections,
which is `Daemon!HandlersGoneBeforeStop`; `Daemon!SupervisorStops` ends a told
supervisor, which is `Supervisor!ShutdownCompletes`; and `Supervisor!pc = "done"`
with result "ok" needs a shutdown, as `Daemon` supposes. `stop_and_reap` is one
step in `Supervisor`, which ends with or without an error; `Stopping` opens it
up and shows when it returns which (`CleanStop`). A poll is one reply in
`BackendUse`, of a count or of nothing; `RconClient!FreshAnswer` says the count
was true at some moment since the poll began. A wake request in `Supervisor` comes from a
handler that has read a login; `Connection!WakeEarned` is that premise.
That a queued request is followed is not `Connection`'s to promise: there the
channel is free, taken or closed as the world likes, and `woke` says only what
`try_send` found; `Supervisor` shows what becomes of the request.

### State and code

`Supervisor!pc` names the await at which `run` is parked; an action is the code
from one await to the next, with every publication and every assignment made
on the way. The `select!`s are biased and the guards follow the bias: shutdown
first (`~shutdown`), then the wake channel (`WakePolled`), then timers, the
process and cleanups. `wake` is the one-slot channel. `latch` is
`startup_demand`, `restart` or `retry_pending`, the local variable that is
live at the current await. `cooldown` is the distance to `retry_at` in units
of five seconds, the common divisor of the backoffs. `child` is the
`OwnedProcess`; "dropped" is a process that may still run after `stop_and_reap`
failed. `asked`, `seenPositive` and `sinceGone` are history variables.

`BackendUse!readers`, `writing` and `queue` are tokio's `RwLock`: first come,
first served, so a waiting writer holds back later readers. `activity` is the
`ActivityTracker`, `permit` the `Notify`'s stored permit, and `moved` stands
for the comparison of the idle anchor with the one the attempt started from.
Instants are ages capped at the idle timeout. `conn[c].at` is the handler's
await. The history variables `sinceUse` and `sinceDoubt` measure the two idle
times independently of the code's anchors.

`Daemon!pc` is the coordinator's place in `run`; `rt[s]` is where server `s`'s
runtime task and the monitor task around it are; `sup[s]` and `conn[k]` are
the supervisor's and the connections' tasks, of which a connection task that
ended or panicked still waits to be joined. `failures` counts the records in
`FatalErrors` by reporter, `fatal` the messages in the infrastructure channel,
`received` and `seen` are `watcher_failure_received` and `watcher_observed`.
`faulty` is the history of who met a failure, with which the final report is
compared.

`Stopping!sup` is the await of the supervisor, or a point inside `terminate`
where a system call may fail; `timer` is what is left of the await's timeout
and `watch` of the runtime's watchdog. `errors` are the error values
`stop_and_reap` collects, by the stage they come from ("tree" for a failed
group kill, after which its direct kill waits without a timeout). `tree` is
the rest of the process group. `elapsed`, `owed` and `forced` are history: how
long the timed waits took, how much of the grace period is left, and whether
the group had to be killed.

`RconClient!toServer` and `toClient` are the two directions of the connection;
`ids` are the command's and its end marker's. The server may answer as late as
it likes and in as many packets, may overlook a marker, and may send what
nobody asked for when nothing else is on its way; what it answers comes in order,
all packets of one answer before the next. `accepted` and `seen` are history: whether the server
accepted the login, and the player counts since the command was sent.

In `Protocol` a byte is a VarInt group with a continuation bit, `G` values
wide. `Connection!got` is how much of the client's stream was read and `left`
what remains of the await's timeout; `heard` and `backend` are what
the client and the backend were sent. `channel` is the wake channel as this
connection finds it, and `woke` what became of its own request: none, queued, or
dropped because another one was pending.

`Config!document` is a parsed document; `prepared` the servers accepted, by id;
`children` and `dialed` what they have launched and connected to. A path is a
file that exists under one or two names, and a name resolves to any address at
any time.

Some actions come with a variant marked "Seeded fault" just before them: the
same operation with one plausible mistake. They are part of no specification;
replacing the action by its variant must make the property it is listed with
in PROJECT.json fail, which shows that the property watches that line.

## The runs

| run | instance | checks |
|---|---|---|
| `MCSupervisor.cfg` | 2 connections, 4 logins, RCON | `AssertionsHold`, `ProcessOwnership`, `BackoffRespected`, `StaleNeverCurrent`, `ImplementsNapServer`, `ShutdownCompletes`, `DemandServed` |
| `MCSupervisorRefused.cfg` | 2 connections, 3 logins, RCON | `LoginWakesStoppedBackend`: violated |
| `MCBackendUse.cfg` | 2 connections, 2 cycles, idle timeout 2, with and without RCON | `GateConsistent`, `CountMatchesSessions`, `NoStopUnderUse`, `IdleLongEnough`, `LeaseWaitEnds`, `StatusDoesNotKeepAwake` |
| `MCBackendUseLingering.cfg` | 2 connections, 2 cycles, idle timeout 1, dead sessions may stay | `LeaseWaitEnds`: violated |
| `MCDaemon.cfg` | 2 servers, 3 connections, 2 permits | `PermitsExact`, `NothingLeftRunning`, `ExactReport`, `HandlersGoneBeforeStop`, `FailureStopsDaemon` |
| `MCStopping.cfg` | timeouts 4, 3 and 1, margin 2 ticks, RCON, another server may appear | `StopWithinBudgets`, `WatchdogPatient`, `CleanStop`, `GraceHonoured`, `ShutdownReturns` |
| `MCStoppingExample.cfg` | timeouts of `config.example.toml`, 1 tick = 5 s | `CleanupFitsWatchdog`: violated |
| `MCStoppingForeign.cfg` | timeouts 1, 2 and 1, another server may appear | `OnlyOwnServerStopped`: violated |
| `MCRconClient.cfg` | ids up to 3, answers of up to 2 packets, 0 or 1 players | `FreshAnswer`, `WholeAnswer`, `LoggedInFirst` |
| `MCProtocol.cfg` | every packet of up to 6 bytes, 3 values to a VarInt group, VarInts of 18 values | `HandshakeExact`, `LoginStartExact`, `VarIntRoundTrip`, `FramesExact`: parsers and encoders against the grammar |
| `MCConnection.cfg` | 22 client streams, 2 releases, every phase | `TypeOK`, `WakeEarned`, `RightAnswer`, `TurnedAwayAsked`, `Verbatim`, `InTime`, `Released` |
| `MCConfig.cfg` | 2988 documents with up to two servers, 3 environments | `NoProxyLoop`, `OneServerPerDirectory`, `ListenersApart` |

Bounds. Two connections are enough for one request in the slot and another in
flight, which is what the races on the one-slot channel need; the slot and the
latch are the only places a request can be. A launch attempt consumes a login,
so four logins reach the fourth generation and failure streak four, the last
step before the cap of the backoff; the proof covers every streak. Nothing else
is bounded; the number of probes, failures, conflicts and ticks is limited only
by the logins. In `BackendUse`, two connections and the monitor make a session,
a waiting reader and a writer between them; two cycles let a session of one
outlive it into the next; an idle timeout of two ticks distinguishes fresh,
ageing and expired; whether RCON is configured is chosen in `Init`. The proofs
cover any number of connections. In `Daemon`, two servers make one fail while the
other is being activated, serves or stops; three connections on two permits
reach the limit, share it between servers and leave tasks of both to be
joined. Nothing in `Daemon` is unbounded. Liveness is checked on the same
instance as safety, so no run uses symmetry.

In `Stopping` a tick is whatever the timeouts are multiples of. Nothing in
`src/config.rs` keeps `command_timeout` below the watchdog's margin, and
`config.example.toml` sets the two equal, so `MCStopping.cfg` takes a
`command_timeout` twice the margin: a poll and a delivery of four ticks each
leave a watchdog of nine ticks one tick of a grace period of three, which is the
most `GraceHonoured` allows it to take, and a poll that ends early or a quick
delivery lets it fire at the end of the grace period, in the forced reaping, in the
direct kill, or not at all. `RconClient` lets
ids wrap after three, so that with two ids to a command the second command
already uses an old one; nothing but the ids and the packets under way bounds
it, and those are bounded by the timeouts, which drop the connection.
In `Protocol` three values to a group and three groups, the last one of two
values, make VarInts of 18 values, so VarInts of the greatest number of groups,
negative numbers, the narrow last group and over-long encodings are all
written and read. Six bytes are a handshake with an address of one character, or
of none and a longer encoding of one of its numbers; names of one unit, ports of
one byte, UUIDs of two, lengths of two groups and frames of at most two bytes of
body keep every limit in reach. Five groups of 7 bits, 32 bits and packets of
any length are left to the proofs. The run adds a byte per step and ends at `MaxLength`, which is
why deadlock is not checked there.
In `Connection` the streams are logins and status requests of two releases,
well formed, over-long, truncated and contradictory, sent at any pace; a
handshake timeout of two ticks lets both packets share it, and a connect
timeout of four takes an attempt of two, a pause of one and an attempt that is
cut short. The documents of `Config` vary one server's listener and backend
over all kinds of addresses and names while the other's stay fixed, then the
directories and passwords of both, then files and timeouts; the largest duration is a small
number, so that a sum of two timeouts and the margin overflows it.

Deadlock is checked in every other run. `Terminated`, `Rest`, `Finished` and
`Done` are the states in which nothing is left to do: a task has returned, a
connection is over, a document was refused, or the bound on cycles is reached
with no server.

### Fairness

`Supervisor!Fairness` is weak fairness of the receipt of wake requests and of
the steps that a timeout, a probe or a cleanup of the code brings about: every
probe, connect and cooldown has a timeout, and the executor polls a woken task.
So has every wait of a cleanup but one: after a failed kill of the group, the
direct kill waits for the process without a timeout. That a cleanup ends rests
there on the operating system, which reaps a process it was told to kill;
`Stopping` does not assume it and finds the watchdog to be what ends the wait. Clients, the process (`ChildExits`), I/O errors and the
choice to stop when idle are not assumed to happen.

`BackendUse!Fairness` drives a handler before and after its session (connect
has a timeout, the replay is one small write), the monitor, time, and the
supervisor around them. It does not make a player leave. `DeadSessionsEnd` is
an assumption about the outside: a session whose server is gone ends.
The code does not enforce it; `MCBackendUse.cfg` with it and
`MCBackendUseLingering.cfg` without it show what hangs on it.

`Daemon!Fairness` runs every task that can take a step and lets `abort_all`
end the tasks of a runtime that is leaving its loop; the watchdog is one of
the runtime's steps. Nothing fails, no signal comes and no connection that was
not aborted ends because of it.

`Stopping!Fairness`: what is due (an await whose event has happened or whose
timer has run out) happens, and time passes. No process is assumed to exit, not
even one that was sent a SIGKILL: the watchdog is what `ShutdownReturns` rests
on.

`Connection` counts on time, on the timers and on a task being polled when its
socket has bytes for it. Neither the client nor the backend has to do anything.

### What the four violations say

`LoginWakesStoppedBackend` is README's "A Login or supported Transfer
connection wakes a stopped backend". A connection can be slow between sampling
the lifecycle and sending its request. One that sampled an earlier generation
can fill the slot just when the server is Stopped again; a fresh login then
gets `Full` and is forgotten, and the supervisor discards the stale request.
The player has to try again. `DemandServed` shows the limit of the damage: a
request that does get into the slot in its own generation is always answered.

`LeaseWaitEnds` without `DeadSessionsEnd`: a Login session keeps its shared
lease while its sockets are open, also when its server crashed and another
cycle began. The next idle stop then queues for the gate behind it, without a
timeout, and every new connection queues behind the idle stop although the
backend is Running.

`CleanupFitsWatchdog` is what the test `default_cleanup_fits_watchdog`
(`src/src/runtime.rs:2027`) says of the timeouts in `config.example.toml`: 10 s
for commands, 30 s of grace and 5 s of forced reaping are within the watchdog's
50 s. A player poll that is under way when the shutdown comes runs to its end
first and may take another 10 s. The watchdog then aborts a cleanup that has
kept within its budgets. `RoomyMarginSuffices` proves what would be
enough: `command_timeout` and the forced reaping together below the margin.
What holds whatever the timeouts are is `WatchdogPatient` and `GraceHonoured`:
the stop has had `shutdown_timeout` and the margin, and the process loses no
more of its grace period than `command_timeout` exceeds the margin by. With the
example's timeouts that is nothing; with a `command_timeout` of 20 s it can be 10 s.

`OnlyOwnServerStopped` is README's "MCServerNap only stops server processes
that it started". Between the clean final gate and the bind of the launched
process somebody else may start the same server; the launched one stays
without its port, and the RCON stop of its startup timeout reaches the other.

## The proofs

`SupervisorProofs` first states once what each transition of `Lifecycle`
publishes. It proves, for every finite set of connections, every bound on logins and both
values of `RconConfigured`, from the four named assumptions of `Supervisor`:

* `Invariance`: `Spec => []IInv`, where `IInv` is
  `TypeOK /\ AssertionsHold /\ ProcessOwnership /\ EvidenceInv /\ BackoffInv /\ DemandInv`;
* `TypeCorrectness`, `NoAssertionFails`, `OwnershipIsExact`, `PositiveIsFinal`,
  `BackoffIsRespected`: the types, the invariants of `MCSupervisor.cfg`, and
  `StickyPositive`, which the run checks as part of `ImplementsNapServer`;
* `Refinement`: `Spec => ImplementsNapServer`.

The checked invariants are not inductive by themselves. `StickyPositive` needs
to know at which awaits positive evidence can occur (`EvidenceInv`);
`BackoffRespected` needs that the time since the process went plus the time
left is the backoff throughout the cooldown (`BackoffInv`); and the refinement
needs that every place a request can be that would be accepted implies `asked`
(`DemandInv`): the slot, each connection, the latch, and the awaits after it.

Its last section proves `StaleIsNeverCurrent`. Each lifecycle gets a position:
its launch generation, then the rank of its phase within a generation. Every
publication except a return to Reconciling moves strictly forward in that
order, and whatever is held or queued is at or behind the current position,
hence different from the next one.

`DaemonProofs` proves the safety properties of `Daemon`, for any finite set of
servers and of connections and any connection limit: `DaemonTypes`,
`PermitsAreExact`, `NothingIsLeftRunning`, `ReportIsExact` and
`HandlersAreGoneBeforeStop`. `ExactReport` speaks only of the end; the invariant
behind it says where a failure is kept until it is recorded. `FaultInv`: a
server has failed exactly if its runtime's result is an error, or its
supervisor's task ended in an error that may not have been joined yet, or one
of its connection tasks panicked and was not joined yet. `ReportInv`: it is
recorded, once, exactly if the runtime's monitor has ended and the result is an
error. `TaskInv` says for every stage of a runtime which of its tasks can still
be there, so that at the last stage nothing is unjoined. `WatcherInv` is the same
for the signal watcher, `CoordInv` for what the coordinator has left behind.
`PermitsExact` is inductive with the types; its proof counts the tasks that
hold a permit.

`BackendUseProofs` proves all safety properties of `BackendUse` for any finite
set of handlers that does not contain the supervisor's own name in the queue,
any idle timeout and any number of cycles. `NoStopUnderUse` needs who holds the
gate (`Exclusion`: a handler in use is a reader, the monitor that commits is
the writer, and never both) and, because guards are handed over from the queue,
who waits for it (`Queued`: exactly the waiting handlers and monitor, each
once). `IdleLongEnough` needs that the code's anchors are never older than the
times measured beside them (`Anchors`), and those that the count is exact;
`CountMatchesSessions` needs that no handler is of a cycle to come (`Cycles`).

`StoppingProofs` proves the safety properties of `Stopping` for all timeouts.
`Budget` adds up what each stage may still take; `Outcome` says what errors and
child are at each stage; `Promise` that the grace period is over when force
comes. `Ahead` says how far the watchdog is from firing at every stage: what is
left of it and what the stop has taken are together at least `shutdown_timeout`
and the margin, and while the stop is delivered or waited for, the watchdog
falls short of the rest of the grace period by at most what `command_timeout`
exceeds the margin by. `WatchdogIsPatient` and `GraceIsKept` follow for all
timeouts. `RoomyMarginSuffices` adds the condition under which
`CleanupFitsWatchdog` holds too; `MCStoppingExample.cfg` is an instance
without it.

`ConfigProofs` proves the properties of `Config` for every set of documents,
every environment and all widths of a duration. What is prepared equals what
was accepted in the document (`Accepted`, `Faithful`), what is launched and
dialled comes from it (`Launched`, `Dialed`); `NoProxyLoop` then is a lemma about
`validate_endpoints` for all addresses a name may have, and `ListenersApart` one
about its comparison of listeners.
`DocumentsAssumption` says what a parsed document consists of and
`DurationsAssumption` that what a timer takes is a duration.

`RconProofs` proves the properties of `RconClient` for all numbers of ids from
two up, all sizes of answers and all player counts: `LoginComesFirst`,
`AnswerIsFresh`, `AnswerIsWhole`, `ClientIsInStep`. What makes `FreshAnswer`
inductive is not the ids, which wrap, but whose turn it is (`AuthTurn`,
`CommandTurn`): at each await of the client there is a short list of what
either direction can hold, and the answer to the end marker is always the last
thing in it, so that a client that goes on to the next command has nothing
outstanding. From this the packets under way carry counts of the present
command only (`FreshInv`), and a part of an answer that is not its last has the
next one behind it (`WholeInv`). Of the ids the proof needs just that a command
and its marker have different ones.

`ConnectionProofs` proves the safety properties of `Connection` for every set of
byte streams, every set of releases, all limits on packets and all timeouts:
`TypeCorrect`, `WakeIsEarned`, `AnswerIsRight`, `TurnedAwayHasAsked`,
`ReplayIsVerbatim`, `EverythingIsInTime`. What `Framing` and the parsers say of
given bytes is left open, so the theorems hold for any rules by which a packet
is whole and well formed; what they rest on is the order in which the gateway
looks at the bytes. `ReadInv`: no packet ends among the bytes read since `mark`,
and `mark` is the first end of the handshake, so that the packet the gateway
acts on is the one `PacketEnd` picks from the whole stream. `AnswerInv`: what was
chosen as an answer, and the wake-up, rest on packets seen (`Founded`), and the
history of answers has one of five forms. `ClosedInv`: a connection that ends
because the supervisor is gone has told its player nothing. `BytesInv`: on the way to the backend
nothing is read, and in the relay as many bytes have gone to the backend as
were read. `TimeInv`: what has passed and what is left add up to the timeouts of
the steps so far (`Counted`). `StreamsAssumption` says that streams consist of
bytes.

`ProtocolProofs` proves the four properties of `MCProtocol.cfg` for packets of any
length a frame can have, any number of values of a group, of groups, and of
bytes in ports, UUIDs and lengths: `VarIntIsRead`, `HandshakeIsExact`,
`LoginStartIsExact`, `FramesAreExact`. A packet in `MCProtocol` only grows, so its
invariant says no more than that it consists of bytes and is not too long; the
work is in what the operators compute. `Sums` names what the groups of a VarInt
add up to, place by place. It stays below the next place (`SumsBound`), the
groups `write_varint` cuts a number into add up to it (`WriteSums`), and the last
group decides whether 32 bits are exceeded (`LastSum`, `ReadEncodes`,
`EncodesIs`). On that rest one lemma for each reader, in both directions: what the
grammar has is read (`ReadAt`, `ReadText`, `ReadTextAt`, `UuidIsRead`), and what is
read is in the grammar (`ReadEncodes`, `ReadTextIs`). That a VarInt is a signed
number matters once: a text whose length were half of the numbers or more would be
in the grammar and not accepted, and `MaxLengthAssumption` with
`LengthAssumption` says that no packet is so long. `TextIsShort` counts the
bytes of a text against its UTF-16 units, and shows that the limit of three bytes to
a unit in `read_string` refuses nothing that the limit of units does not, here with
characters of at most two bytes. `FramingIs` and `FrameEnds` say, for what was read of a
stream and for the frames of the grammar, that both depend on where the first
length ends and on what it adds up to; `FrameIsFound` compares the two.
Places, sums and digits are recursive functions, and the proofs go by induction
over sets of numbers: `SetInduction` derives it from the least element of the
numbers left out, and `Recursion` that such a function exists. The assumptions
are those of `Protocol` on its sizes, all true of 7-bit groups, five of them, and
32 bits, and `MaxLengthAssumption` and `LimitAssumption`.

The type invariants of the other modules, `StickyPositive`, `InStep` and
`PasswordsHidden` are proved and not listed with a run; the runs spend their
time on properties that say more.

Only model-checked: liveness (`ShutdownCompletes`, `DemandServed`,
`LeaseWaitEnds`, `StatusDoesNotKeepAwake`, `FailureStopsDaemon`,
`ShutdownReturns`, `Released`), which is beyond the prover. Every safety property
of a passing run is proved.

## Not modelled, and the plan

In the order in which it is worth doing:

1. A composition of `Supervisor` and `BackendUse` into one specification, with
   the sessions of `BackendUse` behind the requests of `Supervisor`.
2. Several listeners in `Connection`, that is a release table instead of one
   layout at a time.

Reduced:

* `Stopping` models the Unix branch of `terminate`; the Windows one (`taskkill`)
  differs in how the tree is killed, not in what is waited for.
* A UTF-8 character has one or two bytes in `Protocol`, and an address or a name
  is judged by its length and validity alone.
* The release table of `version.rs` appears as the layout of a release's login
  start and its protocol number.
* `Config` knows hosts by what the validation and the sockets do with them, and
  files by whether and to what they resolve; the syntax of ids, host names, paths
  and icons is not modelled, and an answer fits a packet or does not. `ListenersApart` speaks of one address family: an
  unspecified IPv4 and an unspecified IPv6 listener on one port are accepted and
  one of them fails at bind, which ends the start.
* An RCON server that answers out of order, or sends something of its own between
  the packets of an answer, is not modelled; TCP and Minecraft's server, which
  handles one request after the other, keep the order.
* `copy_bidirectional` is the backend reading what the client sends, in
  `Connection`; the other direction is one answer of the backend.
* A panic of the coordinator's own tasks is left out, other than of the
  watcher, the supervisors and the connection tasks.

Left out for good: the wording of messages and logs, the JSON text of status
answers, socket options, parsing of TOML, scaling of icons, and the Minecraft
server itself, which appears only as a process that may exit and a port that
answers or does not.
