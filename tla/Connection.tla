----------------------------- MODULE Connection -----------------------------
(***************************************************************************)
(* One client connection, from accept to its end (handle_client and what   *)
(* it calls in runtime.rs, the envelope and the responder in               *)
(* minecraft.rs).                                                          *)
(*                                                                         *)
(* The client has a stream of bytes it would send; it sends any prefix of  *)
(* it, at any pace, and may close or reset the connection.  The gateway    *)
(* reads a handshake byte by byte, samples the lifecycle once, and then    *)
(* answers by itself or gives the connection to the backend.  pc names the *)
(* await at which the task is parked:                                      *)
(*   handshake, request   reading, both under the deadline set at accept   *)
(*   answer, ping, pong, shut   each with a timeout of its own             *)
(*   lease, connect, pause, replay, relay   on the way to the backend      *)
(* BackendUse models the leases and sessions of the owned backend; here    *)
(* only the bytes, the answers and the time count.                         *)
(***************************************************************************)
EXTENDS Protocol

CONSTANTS
    Streams,              \* what clients would send
    Versions,             \* minecraft_version: protocol and layout
    MaxHandshake,         \* MAX_HANDSHAKE_PACKET_LENGTH
    MaxLoginStart,        \* MAX_LOGIN_START_PACKET_LENGTH
    MaxStatus,            \* MAX_STATUS_PACKET_LENGTH
    HandshakeTimeout,     \* handshake_timeout, in ticks
    ProxyConnectTimeout,  \* proxy_connect_timeout
    Attempt,              \* one attempt to connect: a second
    Pause                 \* between two attempts: 100 ms

ASSUME StreamsAssumption == Streams \subseteq Seq(Byte)
ASSUME VersionsAssumption ==
    Versions \subseteq [protocol : Int, layout : InitialProtocol]
ASSUME TimesAssumption ==
    {HandshakeTimeout, ProxyConnectTimeout, Attempt, Pause} \subseteq Nat \ {0}

VARIABLES
    plan,       \* the client's stream
    version,    \* the configured release
    sent,       \* how much of the plan was sent
    hup,        \* "no", or how the client ended its stream
    got,        \* how many bytes the gateway has read
    mark,       \* where the packet being read starts
    pc,
    left,       \* ticks to the deadline of pc
    attempt,    \* ticks to the end of an attempt or of a pause
    phase,      \* the phase sampled; "None" before
    intent,     \* the intent of the handshake; "None" before
    answer,     \* the packet being written
    channel,    \* the wake channel: free, holding a request, or closed
    authority,  \* the lifecycle still shows the cycle sampled
    reachable,  \* the backend accepts connections
    backend,    \* the bytes the backend has received
    \* history variables
    woke,       \* what became of this connection's request to wake up
    heard,      \* what the client was sent
    age,        \* ticks since accept, or since the first attempt to connect
    ended       \* how the connection ended

clientVars == <<plan, version, sent, hup>>
readVars == <<got, mark>>
envVars == <<channel, authority, reachable>>
vars == <<clientVars, readVars, pc, left, attempt, phase, intent, answer,
          envVars, backend, woke, heard, age, ended>>

Phases == {"Reconciling", "Stopped", "Starting", "Running", "External",
           "Stopping", "Cooldown", "Conflict"}
WakePhases == {"Reconciling", "Stopped", "Stopping", "Cooldown", "Conflict"}
ProxyPhases == {"Running", "External"}
OwnPcs == {"handshake", "request", "answer", "ping", "pong", "shut"}
ConnectPcs == {"connect", "pause"}
Answers == {"status", "incompatible", "login", "conflict", "pong"}

Least(a, b) == IF a < b THEN a ELSE b

\* handle_client: the deadline of the whole initial exchange is set at once.
Init ==
    /\ plan \in Streams /\ version \in Versions
    /\ sent = 0 /\ hup = "no" /\ got = 0 /\ mark = 0
    /\ pc = "handshake" /\ left = HandshakeTimeout /\ attempt = 0
    /\ phase = "None" /\ intent = "None" /\ answer = "none"
    /\ channel = "free" /\ authority = TRUE
    /\ reachable \in BOOLEAN
    /\ backend = <<>> /\ woke = "no" /\ heard = <<>> /\ age = 0
    /\ ended = "no"

-----------------------------------------------------------------------------
(***************************************************************************)
(* The client, the supervisor, the backend, and time.                      *)
(***************************************************************************)

\* The client sends its next byte, or ends its stream.
ClientSends ==
    /\ pc # "done" /\ hup = "no" /\ sent < Len(plan)
    /\ sent' = sent + 1
    /\ UNCHANGED <<plan, version, hup, readVars, pc, left, attempt, phase,
                   intent, answer, envVars, backend, woke, heard, age, ended>>

ClientEnds ==
    /\ pc # "done" /\ hup = "no"
    /\ hup' \in {"closed", "reset"}
    /\ UNCHANGED <<plan, version, sent, readVars, pc, left, attempt, phase,
                   intent, answer, envVars, backend, woke, heard, age, ended>>

\* The channel is looked at when a login has been read, so it moves while one
\* is being read.
AtTheChannel == pc = "request" /\ intent # "Status" /\ channel # "closed"

\* Another connection's request enters the channel, which holds one, or the
\* supervisor takes it out, to follow it or to discard it (Supervisor).
ChannelMoves ==
    /\ AtTheChannel
    /\ channel' = IF channel = "free" THEN "pending" ELSE "free"
    /\ UNCHANGED <<clientVars, readVars, pc, left, attempt, phase, intent,
                   answer, authority, reachable, backend, woke, heard, age,
                   ended>>

\* The supervisor's task ends, and with it the wake channel.
SupervisorEnds ==
    /\ AtTheChannel
    /\ channel' = "closed"
    /\ UNCHANGED <<clientVars, readVars, pc, left, attempt, phase, intent,
                   answer, authority, reachable, backend, woke, heard, age,
                   ended>>

\* The owned cycle the connection was given to ends.
CycleEnds ==
    /\ phase = "Running" /\ authority /\ pc # "done"
    /\ authority' = FALSE
    /\ UNCHANGED <<clientVars, readVars, pc, left, attempt, phase, intent,
                   answer, channel, reachable, backend, woke,
                   heard, age, ended>>

\* The backend's listener comes and goes.
BackendMoves ==
    /\ pc \in ConnectPcs \cup {"lease"}
    /\ reachable' = ~reachable
    /\ UNCHANGED <<clientVars, readVars, pc, left, attempt, phase, intent,
                   answer, channel, authority, backend, woke,
                   heard, age, ended>>

\* Time passes, while no timer is due.
Tick ==
    /\ \/ pc \in OwnPcs /\ left > 0 /\ attempt' = attempt
       \/ pc \in ConnectPcs /\ attempt > 0 /\ attempt' = attempt - 1
    /\ left' = left - 1 /\ age' = age + 1
    /\ UNCHANGED <<clientVars, readVars, pc, phase, intent, answer, envVars,
                   backend, woke, heard, ended>>

-----------------------------------------------------------------------------
(***************************************************************************)
(* Reading.                                                                *)
(***************************************************************************)

\* The task ends; its socket is dropped.
End(how) == pc' = "done" /\ ended' = how

\* What the task does next, under a timeout of its own.
Await(step) ==
    /\ pc' = step /\ left' = HandshakeTimeout
    /\ UNCHANGED ended

Limit ==
    CASE pc = "handshake"                       -> MaxHandshake
      [] pc = "request" /\ intent # "Status"    -> MaxLoginStart
      [] OTHER                                  -> MaxStatus

\* The bytes of the packet being read, with the next one.
Read == SubSeq(plan, mark + 1, got + 1)

\* read_u8 and read_exact deliver a byte; the packet goes on, or is refused.
CanRead(step) == pc = step /\ got < sent

\* The end of the client's stream reaches the reader: after the last byte, or
\* at once when the connection was reset.
AtEnd == hup = "reset" \/ (hup = "closed" /\ got = sent)

ReadByte ==
    /\ \E step \in {"handshake", "request", "ping"} : CanRead(step)
    /\ Framing(Read, Limit) # "whole"
    /\ got' = got + 1
    /\ IF Framing(Read, Limit) = "refused" THEN End("refused")
       ELSE UNCHANGED <<pc, ended>>
    /\ UNCHANGED <<clientVars, mark, left, attempt, phase, intent, answer,
                   envVars, backend, woke, heard, age>>

\* Seeded fault of ReadFails: only the end of the stream ends the reading.
ReadFailsNoDeadline ==
    /\ pc \in {"handshake", "request"}
    /\ AtEnd /\ End("io")
    /\ UNCHANGED <<clientVars, readVars, left, attempt, phase, intent, answer,
                   envVars, backend, woke, heard, age>>

\* The client's stream ends, or the deadline of the initial exchange passes,
\* in the middle of a packet.
ReadFails ==
    /\ pc \in {"handshake", "request"}
    /\ \/ AtEnd /\ End("io")
       \/ left = 0 /\ End("timeout")
    /\ UNCHANGED <<clientVars, readVars, left, attempt, phase, intent, answer,
                   envVars, backend, woke, heard, age>>

\* Seeded fault of AnswerItself: reading the request has a deadline of its own.
AnswerItselfRestarted(h) ==
    /\ UNCHANGED <<attempt, age>>
    /\ CASE h.intent = "Unknown" ->
              End("ignored") /\ UNCHANGED <<left, answer>>
         [] h.intent = "Status" ->
              Await("request") /\ UNCHANGED answer
         [] OTHER ->
              IF h.protocol_version # version.protocol
              THEN Await("answer") /\ answer' = "incompatible"
              ELSE IF ~validate_login_intent(version.layout, h.intent)
              THEN End("refused") /\ UNCHANGED <<left, answer>>
              ELSE Await("request") /\ UNCHANGED answer

\* handle_sampled_connection for a phase that is not proxied, up to its next
\* await: nothing is read for an unknown intent or another release.
AnswerItself(h) ==
    /\ UNCHANGED <<attempt, age>>
    /\ CASE h.intent = "Unknown" ->
              End("ignored") /\ UNCHANGED <<left, answer>>
         [] h.intent = "Status" ->
              pc' = "request" /\ UNCHANGED <<left, answer, ended>>
         [] OTHER ->
              IF h.protocol_version # version.protocol
              THEN Await("answer") /\ answer' = "incompatible"
              ELSE IF ~validate_login_intent(version.layout, h.intent)
              THEN End("refused") /\ UNCHANGED <<left, answer>>
              ELSE pc' = "request" /\ UNCHANGED <<left, answer, ended>>

\* Seeded fault of StartConnecting: the deadline is granted on top of the one
\* of the initial exchange and of an attempt's.
StartConnectingUncapped ==
    /\ pc' = "connect" /\ age' = 0
    /\ left' = HandshakeTimeout + ProxyConnectTimeout + Attempt
    /\ attempt' = Least(ProxyConnectTimeout, Attempt)

\* connect_backend is called.
StartConnecting ==
    /\ pc' = "connect" /\ age' = 0
    /\ left' = ProxyConnectTimeout
    /\ attempt' = Least(ProxyConnectTimeout, Attempt)

\* The handshake is whole: it is parsed, the lifecycle is sampled, and the
\* connection goes its way.
GotHandshake ==
    /\ CanRead("handshake") /\ Framing(Read, Limit) = "whole"
    /\ got' = got + 1
    /\ LET h == parse_handshake(Body(Read))
       IN \/ /\ ~h.ok
             /\ End("refused")
             /\ UNCHANGED <<mark, left, attempt, phase, intent, answer, age>>
          \/ /\ h.ok
             /\ intent' = h.intent /\ mark' = got + 1
             /\ phase' \in Phases
             /\ CASE phase' = "Running" ->
                       /\ pc' = "lease"
                       /\ UNCHANGED <<left, attempt, answer, age, ended>>
                  [] phase' = "External" ->
                       StartConnecting /\ UNCHANGED <<answer, ended>>
                  [] OTHER -> AnswerItself(h)
    /\ UNCHANGED <<clientVars, envVars, backend, woke, heard>>

\* read_sleeping_request returns Status.
GotStatusRequest ==
    /\ CanRead("request") /\ intent = "Status"
    /\ Framing(Read, Limit) = "whole"
    /\ got' = got + 1 /\ mark' = got + 1
    /\ IF parse_status_request(Body(Read))
       THEN Await("answer") /\ answer' = "status"
       ELSE End("refused") /\ UNCHANGED <<left, answer>>
    /\ UNCHANGED <<clientVars, attempt, phase, intent, envVars, backend, woke,
                   heard, age>>

\* try_send: the request enters the channel, or finds another one there and is
\* dropped; a channel without a receiver takes none.
RequestWake ==
    IF phase \notin WakePhases \/ channel = "closed"
    THEN woke' = "no" /\ UNCHANGED channel
    ELSE /\ woke' = IF channel = "free" THEN "queued" ELSE "found_pending"
         /\ channel' = "pending"

\* Seeded fault of Farewell: a Conflict is answered as any other phase.
FarewellReassuring == "login"

\* What a player who may not join is told.
Farewell == IF phase = "Conflict" THEN "conflict" ELSE "login"

\* Seeded fault of GotLoginStart: the wake-up does not wait for the login to be
\* checked.
GotLoginStartUnchecked ==
    /\ CanRead("request") /\ intent # "Status"
    /\ Framing(Read, Limit) = "whole"
    /\ got' = got + 1 /\ mark' = got + 1
    /\ RequestWake
    /\ IF parse_login_start(Body(Read), version.layout)
       THEN Await("answer") /\ answer' = Farewell
       ELSE End("refused") /\ UNCHANGED <<left, answer>>
    /\ UNCHANGED <<clientVars, attempt, phase, intent, authority, reachable,
                   backend, heard, age>>

\* Seeded fault of GotLoginStart: a closed channel is taken for a full one.
GotLoginStartClosed ==
    /\ CanRead("request") /\ intent # "Status"
    /\ Framing(Read, Limit) = "whole"
    /\ got' = got + 1 /\ mark' = got + 1
    /\ IF parse_login_start(Body(Read), version.layout)
       THEN RequestWake /\ Await("answer") /\ answer' = Farewell
       ELSE End("refused") /\ UNCHANGED <<left, answer, woke, channel>>
    /\ UNCHANGED <<clientVars, attempt, phase, intent, authority, reachable,
                   backend, heard, age>>

\* read_sleeping_request returns Login: the server is asked to wake up, unless
\* it is starting already, and the player is told to come back.  A channel
\* without a receiver ends the connection.
GotLoginStart ==
    /\ CanRead("request") /\ intent # "Status"
    /\ Framing(Read, Limit) = "whole"
    /\ got' = got + 1 /\ mark' = got + 1
    /\ IF parse_login_start(Body(Read), version.layout)
       THEN /\ RequestWake
            /\ IF phase \in WakePhases /\ channel = "closed"
               THEN End("closed") /\ UNCHANGED <<left, answer>>
               ELSE Await("answer") /\ answer' = Farewell
       ELSE End("refused") /\ UNCHANGED <<left, answer, woke, channel>>
    /\ UNCHANGED <<clientVars, attempt, phase, intent, authority, reachable,
                   backend, heard, age>>

-----------------------------------------------------------------------------
(***************************************************************************)
(* Answering.                                                              *)
(***************************************************************************)

\* write_all_with_timeout and shutdown_with_timeout.  A status answer is
\* followed by the ping a client may send, any other by the end.
Written ==
    /\ pc \in {"answer", "pong"}
    /\ heard' = Append(heard, answer)
    /\ Await(IF answer = "status" THEN "ping" ELSE "shut")
    /\ UNCHANGED <<clientVars, readVars, attempt, phase, intent, answer,
                   envVars, backend, woke, age>>

WriteFails ==
    /\ pc \in {"answer", "pong"}
    /\ \/ hup # "no" /\ End("io")
       \/ left = 0 /\ End("timeout")
    /\ UNCHANGED <<clientVars, readVars, left, attempt, phase, intent, answer,
                   envVars, backend, woke, heard, age>>

\* serve_status: the ping, answered with its own timestamp.
GotPing ==
    /\ CanRead("ping") /\ Framing(Read, Limit) = "whole"
    /\ got' = got + 1 /\ mark' = got + 1
    /\ IF parse_ping(Body(Read)) THEN Await("pong") /\ answer' = "pong"
       ELSE End("refused") /\ UNCHANGED <<left, answer>>
    /\ UNCHANGED <<clientVars, attempt, phase, intent, envVars, backend, woke,
                   heard, age>>

\* No ping came: that is not an error.
NoPing ==
    /\ pc = "ping"
    /\ left = 0 \/ AtEnd
    /\ Await("shut")
    /\ UNCHANGED <<clientVars, readVars, attempt, phase, intent, answer,
                   envVars, backend, woke, heard, age>>

\* The socket is shut down, or that fails or times out.
ShutDown ==
    /\ pc = "shut"
    /\ End("answered")
    /\ UNCHANGED <<clientVars, readVars, left, attempt, phase, intent, answer,
                   envVars, backend, woke, heard, age>>

-----------------------------------------------------------------------------
(***************************************************************************)
(* Proxying.                                                               *)
(***************************************************************************)

\* ensure_current_owned_cycle; an external backend has no cycle to check.
Current == phase = "Running" => authority

\* acquire_shared returns (BackendUse), and the cycle is checked.
LeaseAcquired ==
    /\ pc = "lease"
    /\ IF Current THEN StartConnecting /\ UNCHANGED ended
       ELSE End("stale") /\ UNCHANGED <<left, attempt, age>>
    /\ UNCHANGED <<clientVars, readVars, phase, intent, answer, envVars,
                   backend, woke, heard>>

\* connect_backend: an attempt succeeds, fails or times out.
Connected ==
    /\ pc = "connect" /\ reachable
    /\ IF Current THEN pc' = "replay" /\ UNCHANGED ended ELSE End("stale")
    /\ UNCHANGED <<clientVars, readVars, left, attempt, phase, intent, answer,
                   envVars, backend, woke, heard, age>>

AttemptFails ==
    /\ pc = "connect"
    /\ ~reachable \/ attempt = 0
    /\ pc' = "pause" /\ attempt' = Least(Pause, left)
    /\ UNCHANGED <<clientVars, readVars, left, phase, intent, answer, envVars,
                   backend, woke, heard, age, ended>>

RetryOrGiveUp ==
    /\ pc = "pause" /\ attempt = 0
    /\ IF left = 0 THEN End("unreachable") /\ UNCHANGED attempt
       ELSE /\ pc' = "connect" /\ attempt' = Least(left, Attempt)
            /\ UNCHANGED ended
    /\ UNCHANGED <<clientVars, readVars, left, phase, intent, answer, envVars,
                   backend, woke, heard, age>>

\* Seeded fault of framed_handshake: the frame is written anew around the body.
framed_handshake_rebuilt ==
    LET body == Body(SubSeq(plan, 1, mark))
    IN write_varint(Len(body)) \o body

\* ConnectionEnvelope.framed_handshake: the bytes read, as they were read.
framed_handshake == SubSeq(plan, 1, mark)

\* write_all of the handshake, then the check that the cycle is still the one
\* the lease is for (establish_owned_proxy_activity).
Replay ==
    /\ pc = "replay"
    /\ backend' = framed_handshake
    /\ IF Current THEN pc' = "relay" /\ UNCHANGED ended ELSE End("stale")
    /\ UNCHANGED <<clientVars, readVars, left, attempt, phase, intent, answer,
                   envVars, woke, heard, age>>

\* The backend goes away after part of it.
ReplayFails ==
    /\ pc = "replay"
    /\ \E n \in 0..(Len(framed_handshake) - 1) :
          backend' = SubSeq(framed_handshake, 1, n)
    /\ End("io")
    /\ UNCHANGED <<clientVars, readVars, left, attempt, phase, intent, answer,
                   envVars, woke, heard, age>>

\* copy_bidirectional: the client's next byte, something from the backend, and
\* the end, when both sides have closed or one has failed.
RelayUp ==
    /\ pc = "relay" /\ got < sent
    /\ got' = got + 1
    /\ backend' = Append(backend, plan[got + 1])
    /\ UNCHANGED <<clientVars, mark, pc, left, attempt, phase, intent, answer,
                   envVars, woke, heard, age, ended>>

RelayDown ==
    /\ pc = "relay" /\ heard = <<>>
    /\ heard' = <<"backend">>
    /\ UNCHANGED <<clientVars, readVars, pc, left, attempt, phase, intent,
                   answer, envVars, backend, woke, age, ended>>

RelayEnds ==
    /\ pc = "relay"
    /\ \/ got = sent /\ hup # "no" /\ End("relayed")
       \/ End("io")
    /\ UNCHANGED <<clientVars, readVars, left, attempt, phase, intent, answer,
                   envVars, backend, woke, heard, age>>

\* The connection is over.
Done == pc = "done" /\ UNCHANGED vars

Reads == ReadByte \/ ReadFails \/ GotHandshake \/ GotStatusRequest
            \/ GotLoginStart
Writes == Written \/ WriteFails \/ GotPing \/ NoPing \/ ShutDown
Proxies == LeaseAcquired \/ Connected \/ AttemptFails \/ RetryOrGiveUp
              \/ Replay \/ ReplayFails \/ RelayUp \/ RelayDown \/ RelayEnds
World == ClientSends \/ ClientEnds \/ ChannelMoves \/ SupervisorEnds
            \/ CycleEnds \/ BackendMoves

Next == World \/ Tick \/ Reads \/ Writes \/ Proxies \/ Done

\* Time passes and the task is polled: a byte that is there is read, with
\* whatever follows from it, and a timer that is due fires.  Nothing is assumed
\* of the client or of the backend.
ByteRead == pc \in {"handshake", "request", "ping"} /\ got < sent /\ got' = got + 1

Fired == ReadFails \/ WriteFails \/ NoPing \/ ShutDown \/ AttemptFails
            \/ RetryOrGiveUp

Fairness == WF_vars(Tick) /\ WF_got(ByteRead) /\ WF_vars(Fired)

Spec == Init /\ [][Next]_vars /\ Fairness

-----------------------------------------------------------------------------
(***************************************************************************)
(* Properties.                                                             *)
(***************************************************************************)

TypeOK ==
    /\ plan \in Streams /\ version \in Versions
    /\ sent \in 0..Len(plan) /\ hup \in {"no", "closed", "reset"}
    /\ got \in 0..sent /\ mark \in 0..got
    /\ pc \in OwnPcs \cup ConnectPcs \cup {"lease", "replay", "relay", "done"}
    /\ left \in 0..(HandshakeTimeout + ProxyConnectTimeout)
    /\ attempt \in 0..(Attempt + Pause)
    /\ phase \in Phases \cup {"None"}
    /\ intent \in HandshakeIntent \cup {"None"}
    /\ answer \in Answers \cup {"none"}
    /\ channel \in {"free", "pending", "closed"} /\ authority \in BOOLEAN
    /\ reachable \in BOOLEAN /\ woke \in {"no", "queued", "found_pending"}
    /\ backend \in Seq(Byte) /\ heard \in Seq(Answers \cup {"backend"})
    /\ age \in Nat
    /\ ended \in {"no", "io", "timeout", "refused", "ignored", "answered",
                  "closed", "stale", "unreachable", "relayed"}

\* The first packet in the client's bytes after a place, as far as they were
\* read, is whole at this place; or 0.
PacketEnd(after, limit) ==
    LET ends == {b \in (after + 1)..got :
                    Framing(SubSeq(plan, after + 1, b), limit) = "whole"}
    IN IF ends = {} THEN 0 ELSE CHOOSE b \in ends : \A c \in ends : b <= c

\* The client's first packet is a handshake, and its second one a request,
\* with these properties.
Sent2(limit, AHandshake(_), ARequest(_)) ==
    LET first  == PacketEnd(0, MaxHandshake)
        second == PacketEnd(first, limit)
        h == parse_handshake(Body(SubSeq(plan, 1, first)))
    IN /\ first # 0 /\ second # 0 /\ h.ok /\ AHandshake(h)
       /\ ARequest(Body(SubSeq(plan, first + 1, second)))

AskedLogin ==
    Sent2(MaxLoginStart,
          LAMBDA h : /\ h.intent \in {"Login", "Transfer"}
                     /\ h.protocol_version = version.protocol
                     /\ h.intent = "Transfer"
                          => version.layout = "RequiredUuidAndTransfer",
          LAMBDA body : parse_login_start(body, version.layout))

\* The client's first packet asks to log in to another release.
AskedElsewhere ==
    LET first == PacketEnd(0, MaxHandshake)
        h == parse_handshake(Body(SubSeq(plan, 1, first)))
    IN /\ first # 0 /\ h.ok /\ h.intent \in {"Login", "Transfer"}
       /\ h.protocol_version # version.protocol

AskedStatus ==
    Sent2(MaxStatus, LAMBDA h : h.intent = "Status", parse_status_request)

\* The server is woken only by a complete and valid login of the configured
\* release, seen in a phase that does not proxy and is not starting already:
\* no scan, ping, half-sent login or other release starts a server.
WakeEarned ==
    woke # "no" => AskedLogin /\ phase \in WakePhases

\* What a client hears is what it asked for: at most one answer, and a pong
\* only after a status; that it is incompatible only after a login to another
\* release; a conflict exactly when the lifecycle showed one; the
\* backend's bytes only where the connection was given to it, and then
\* nothing of the gateway's own.
RightAnswer ==
    /\ \A i \in 1..Len(heard) :
          CASE heard[i] = "status"       -> i = 1 /\ AskedStatus
            [] heard[i] = "pong"         -> i = 2 /\ heard[1] = "status"
            [] heard[i] \in {"login", "conflict"} ->
                  /\ i = 1 /\ AskedLogin
                  /\ heard[i] = "conflict" <=> phase = "Conflict"
            [] heard[i] = "incompatible" -> i = 1 /\ AskedElsewhere
            [] heard[i] = "backend"      -> i = 1 /\ phase \in ProxyPhases
    /\ heard # <<>> /\ heard[1] # "backend" => phase \notin ProxyPhases

\* A player who is told to come back has put its own request into the wake
\* channel, or has found another one in it, or the server is starting; where the
\* supervisor's end of the channel is gone, nobody is told so.  This is all the
\* handler sees to.  That a request in the channel is followed is not promised
\* here: one that was found may be older than the login and be discarded, which
\* the refuted LoginWakesStoppedBackend of NapServer shows.
TurnedAwayAsked ==
    /\ \A i \in 1..Len(heard) :
          heard[i] \in {"login", "conflict"} => woke # "no" \/ phase = "Starting"
    /\ ended = "closed" => channel = "closed" /\ heard = <<>>

\* What the backend has received is what the client sent, byte for byte from
\* the first one, although the gateway has parsed the handshake; and it
\* received something only where the lifecycle sampled gave it the connection.
Verbatim ==
    /\ Len(backend) <= sent /\ backend = SubSeq(plan, 1, Len(backend))
    /\ backend # <<>> => phase \in ProxyPhases

\* How long a connection the gateway answers itself may take: one timeout for
\* the handshake and the request together, and one for each step after them,
\* however slowly the client sends and reads.
Timeouts ==
    IF heard = <<>> THEN IF answer = "none" THEN 1 ELSE 2
    ELSE IF answer \in {"status", "pong"} THEN 3 + Len(heard)
    ELSE 3

AnsweredInTime ==
    pc \in OwnPcs \cup {"done"} /\ phase \notin ProxyPhases
        => age <= Timeouts * HandshakeTimeout

\* A connection to the backend is tried for ProxyConnectTimeout, neither less
\* before the gateway gives up nor more, whatever the attempts and pauses
\* between them take.
TriedInTime ==
    /\ pc \in ConnectPcs => age <= ProxyConnectTimeout
    /\ ended = "unreachable" => age = ProxyConnectTimeout

\* Nobody keeps the gateway busy for longer than its timeouts say: neither a
\* client it answers itself nor a backend that does not answer.
InTime == AnsweredInTime /\ TriedInTime

\* A client that says nothing, or says it slowly, is released: every
\* connection ends or reaches the owned backend's gate or the backend itself.
Released == (pc = "handshake") ~> (pc \in {"done", "lease", "replay", "relay"})
=============================================================================
