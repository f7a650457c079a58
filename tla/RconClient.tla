----------------------------- MODULE RconClient -----------------------------
(***************************************************************************)
(* The RCON connection of one supervisor (rcon.rs) and what its users do   *)
(* with it (supervisor.rs): probes, readiness, player polls, the final     *)
(* check before an idle stop, and the stop command.                        *)
(*                                                                         *)
(* A command is two packets, the command and an empty one whose answer     *)
(* marks the end of the command's answer, which may come in several        *)
(* packets.  Answers are matched to commands by request ids, which wrap.   *)
(* Every use is under a timeout, which may expire between any two steps;   *)
(* the server answers in order, but as late as it likes.                   *)
(*                                                                         *)
(* step names the await at which the client is parked:                     *)
(*   none      there is no client            ready    kept, not in use     *)
(*   connect   TcpStream::connect            pause    between the packets  *)
(*   auth      authenticate                  reading  command's loop       *)
(***************************************************************************)
EXTENDS Naturals, Sequences

CONSTANTS
    MaxId,      \* i32::MAX, after which ids start again at 1
    MaxParts,   \* MAX_RESPONSE_BYTES, in packets
    Counts,     \* numbers of players
    Unknown     \* an answer that is no player count

ASSUME MaxIdAssumption == MaxId \in Nat /\ MaxId >= 2
ASSUME MaxPartsAssumption == MaxParts \in Nat \ {0}
ASSUME CountsAssumption == 0 \in Counts /\ Unknown \notin Counts

VARIABLES
    step, use,    \* the client and what it is used for
    nextId,       \* next_request_id
    ids,          \* the ids of the command and of its end marker
    response,     \* the packets collected for the command
    answer,       \* what the last command returned
    verdict,      \* how the last connection attempt ended
    toServer, toClient,  \* the two directions of the connection
    open,         \* the server has not closed it
    listening,    \* somebody listens on the RCON port
    trusted,      \* the configured password is the server's
    players,      \* the players on the server
    \* history variables
    accepted,     \* the server accepted this connection's password
    seen          \* the numbers of players since the command was sent

netVars == <<toServer, toClient, open>>
cmdVars == <<ids, response, answer, seen>>
envVars == <<listening, trusted, players>>
vars == <<step, use, nextId, ids, response, answer, verdict, toServer,
          toClient, open, listening, trusted, players, accepted, seen>>

ConnectUses == {"probe", "startup", "reconnect", "stop"}
CommandUses == {"poll", "final"}

Ids == 1..MaxId

\* A packet, its body reduced to what its reader looks at: the player count it
\* carries and whether it is the last of its answer.  "bad" stands for a packet
\* that read_packet or decode_payload rejects.
Packet(id, kind, count, last) ==
    [id |-> id, kind |-> kind, count |-> count, last |-> last]

Init ==
    /\ step = "none" /\ use = "probe" /\ nextId = 1
    /\ ids = <<1, 1>> /\ response = <<>> /\ answer = Unknown
    /\ verdict = "none"
    /\ toServer = <<>> /\ toClient = <<>> /\ open = FALSE
    /\ listening \in BOOLEAN /\ trusted \in BOOLEAN /\ players \in Counts
    /\ accepted = FALSE /\ seen = {}

-----------------------------------------------------------------------------
(***************************************************************************)
(* The server.                                                             *)
(***************************************************************************)

\* Players join and leave.
PlayersChange ==
    /\ players' \in Counts
    /\ seen' = IF step \in {"pause", "reading"} THEN seen \cup {players'}
               ELSE seen
    /\ UNCHANGED <<step, use, nextId, ids, response, answer, verdict, netVars,
                   listening, trusted, accepted>>

\* A server starts or stops listening; one that stops closes its connections.
ListenerChanges ==
    /\ listening' = ~listening
    /\ open' = (open /\ listening')
    /\ UNCHANGED <<step, use, nextId, cmdVars, verdict, toServer, toClient,
                   trusted, players, accepted>>

\* The answer to a command: one packet, or several when it is long.
Parts(id, count, n) ==
    [i \in 1..n |-> Packet(id, "value", IF i = 1 THEN count ELSE Unknown,
                           i = n)]

\* The server handles the next packet.  Some servers send an empty packet
\* before they answer a login.  Before a login nothing else is accepted.
ServerHandles ==
    /\ open /\ toServer # <<>>
    /\ LET p == Head(toServer)
           login == Packet(IF trusted THEN p.id ELSE 0, "auth", Unknown, TRUE)
       IN \/ /\ p.kind = "auth"
             /\ accepted' = trusted
             /\ \E greet \in {<<>>, <<Packet(p.id, "value", Unknown, TRUE)>>} :
                   toClient' = toClient \o greet \o <<login>>
             /\ UNCHANGED <<open, listening>>
          \/ /\ p.kind = "list" /\ accepted
             /\ \E n \in 1..(MaxParts + 1), c \in {players, Unknown} :
                   toClient' = toClient \o Parts(p.id, c, n)
             /\ UNCHANGED <<accepted, open, listening>>
          \/ /\ p.kind = "empty" /\ accepted
             /\ toClient' = Append(toClient,
                                   Packet(p.id, "value", Unknown, TRUE))
             /\ UNCHANGED <<accepted, open, listening>>
          \/ /\ p.kind = "stop" /\ accepted
             /\ listening' = FALSE /\ open' = FALSE
             /\ UNCHANGED <<accepted, toClient>>
    /\ toServer' = Tail(toServer)
    /\ UNCHANGED <<step, use, nextId, cmdVars, verdict, trusted, players>>

\* MC-72390: of two packets that arrive together the second is overlooked.
ServerOverlooks ==
    /\ open /\ Len(toServer) = 2
    /\ toServer' = <<Head(toServer)>>
    /\ UNCHANGED <<step, use, nextId, cmdVars, verdict, toClient, open, envVars,
                   accepted>>

\* A peer that is no Minecraft server, or a broken one, sends a packet of its
\* own.
ServerGarbles ==
    /\ open /\ toClient = <<>>
    /\ toClient' = <<Packet(0, "bad", Unknown, TRUE)>>
    /\ UNCHANGED <<step, use, nextId, cmdVars, verdict, toServer, open, envVars,
                   accepted>>

-----------------------------------------------------------------------------
(***************************************************************************)
(* RconClient.                                                             *)
(***************************************************************************)

\* send_packet: the packet takes the next id; ids wrap to 1.
SendPacket(kind) ==
    /\ toServer' = Append(toServer, Packet(nextId, kind, Unknown, TRUE))
    /\ nextId' = IF nextId = MaxId THEN 1 ELSE nextId + 1

\* The client is dropped, which closes the connection.
Drop ==
    /\ step' = "none"
    /\ toServer' = <<>> /\ toClient' = <<>> /\ open' = FALSE

\* A user connects: probe, wait_for_readiness, poll_player_presence without a
\* client, stop_and_reap.
Connect(u) ==
    /\ step = "none" /\ u \in ConnectUses
    /\ step' = "connect" /\ use' = u
    /\ UNCHANGED <<nextId, cmdVars, verdict, netVars, envVars, accepted>>

\* The connection is there, and authenticate sends the password.
Connected ==
    /\ step = "connect" /\ listening
    /\ step' = "auth"
    /\ toServer' = <<Packet(1, "auth", Unknown, TRUE)>>
    /\ nextId' = 2
    /\ toClient' = <<>> /\ open' = TRUE /\ accepted' = FALSE
    /\ UNCHANGED <<use, cmdVars, verdict, envVars>>

\* Nobody listens, or the connection fails in some other way.
ConnectFails ==
    /\ step = "connect"
    /\ \/ ~listening /\ verdict' = "refused"
       \/ verdict' = "inconclusive"
    /\ Drop
    /\ UNCHANGED <<use, nextId, cmdVars, envVars, accepted>>

\* authenticate succeeds.  A probe and the readiness test drop their client.
LoggedIn ==
    /\ toClient' = Tail(toClient)
    /\ verdict' = "authenticated"
    /\ IF use \in {"probe", "startup"}
         THEN step' = "none" /\ toServer' = <<>> /\ open' = FALSE
         ELSE step' = "ready" /\ UNCHANGED <<toServer, open>>

\* authenticate's loop skips everything but a login answer.
ReadAuthSkips ==
    /\ step = "auth" /\ toClient # <<>> /\ Head(toClient).kind = "value"
    /\ toClient' = Tail(toClient)
    /\ UNCHANGED <<step, use, nextId, cmdVars, verdict, toServer, open, envVars,
                   accepted>>

\* Seeded fault: the refusal, and any id, passes for an acceptance.
ReadAuthUnchecked ==
    /\ step = "auth" /\ toClient # <<>> /\ Head(toClient).kind = "auth"
    /\ LoggedIn
    /\ UNCHANGED <<use, nextId, cmdVars, envVars, accepted>>

\* A login answer with the id of the request; a refusal has the id -1, here 0.
ReadAuth ==
    /\ step = "auth" /\ toClient # <<>>
    /\ Head(toClient).kind = "auth" /\ Head(toClient).id = 1
    /\ LoggedIn
    /\ UNCHANGED <<use, nextId, cmdVars, envVars, accepted>>

\* A refusal, another id, a rejected packet, or the end of the connection.
AuthFails ==
    /\ step = "auth"
    /\ \/ /\ toClient # <<>>
          /\ \/ Head(toClient).kind = "auth" /\ Head(toClient).id # 1
             \/ Head(toClient).kind = "bad"
       \/ ~open
    /\ verdict' = "accepted_failure"
    /\ Drop
    /\ UNCHANGED <<use, nextId, cmdVars, envVars, accepted>>

\* The deadline that connecting and logging in share.
LoginTimesOut ==
    /\ step \in {"connect", "auth"}
    /\ verdict' = IF step = "auth" THEN "accepted_failure" ELSE "inconclusive"
    /\ Drop
    /\ UNCHANGED <<use, nextId, cmdVars, envVars, accepted>>

\* stop sends its command and waits for nothing; its client is dropped, and the
\* command stays on its way until somebody connects anew.
Stop ==
    /\ step = "ready" /\ use = "stop"
    /\ SendPacket("stop")
    /\ step' = "none"
    /\ UNCHANGED <<use, cmdVars, verdict, toClient, open, envVars, accepted>>

\* command("list"), by a poll or by the final check.
Command(u) ==
    /\ step = "ready" /\ use # "stop" /\ u \in CommandUses
    /\ SendPacket("list")
    /\ ids' = <<nextId, nextId>>
    /\ step' = "pause" /\ use' = u
    /\ response' = <<>> /\ answer' = Unknown /\ seen' = {players}
    /\ UNCHANGED <<verdict, toClient, open, envVars, accepted>>

\* Three milliseconds later, the end marker.
SendMarker ==
    /\ step = "pause"
    /\ SendPacket("empty")
    /\ ids' = <<ids[1], nextId>>
    /\ step' = "reading"
    /\ UNCHANGED <<use, response, answer, verdict, toClient, open, envVars,
                   accepted, seen>>

\* A packet of the answer, within the size limit.
ReadPart ==
    /\ step = "reading" /\ toClient # <<>>
    /\ LET p == Head(toClient)
       IN /\ p.kind = "value" /\ p.id = ids[1] /\ p.id # ids[2]
          /\ Len(response) < MaxParts
          /\ response' = Append(response, p)
    /\ toClient' = Tail(toClient)
    /\ UNCHANGED <<step, use, nextId, ids, answer, verdict, toServer, open,
                   envVars, accepted, seen>>

\* parse_player_count: the count is in the head of the answer.
PlayerCount(packets) ==
    IF packets = <<>> THEN Unknown ELSE Head(packets).count

\* poll_player_presence keeps its client.  final_rcon_player_check drops it
\* with a zero, for the stop is then committed.
Answered(count) ==
    /\ answer' = count
    /\ toClient' = Tail(toClient)
    /\ IF use = "final" /\ count = 0
         THEN step' = "none" /\ toServer' = <<>> /\ open' = FALSE
         ELSE step' = "ready" /\ UNCHANGED <<toServer, open>>

\* Seeded fault: the command ends with the first packet of its answer.
ReadFirst ==
    /\ step = "reading" /\ toClient # <<>>
    /\ LET p == Head(toClient)
       IN p.kind = "value" /\ p.id = ids[1]
          /\ Answered(p.count) /\ response' = <<p>>
    /\ UNCHANGED <<use, nextId, ids, verdict, envVars, accepted, seen>>

\* The answer to the end marker: the command's answer is complete.
ReadMarker ==
    /\ step = "reading" /\ toClient # <<>>
    /\ Head(toClient).kind # "bad" /\ Head(toClient).id = ids[2]
    /\ Answered(PlayerCount(response))
    /\ UNCHANGED <<use, nextId, ids, response, verdict, envVars, accepted, seen>>

\* An unexpected packet, too long an answer, one that is not UTF-8, or the end
\* of the connection.
CommandFails ==
    /\ step \in {"pause", "reading"}
    /\ \/ /\ step = "reading" /\ toClient # <<>>
          /\ LET p == Head(toClient)
             IN \/ p.kind = "bad"
                \/ p.id = ids[2] /\ response # <<>>
                \/ /\ p.id # ids[2]
                   /\ \/ p.kind # "value" \/ p.id # ids[1]
                      \/ Len(response) >= MaxParts
       \/ ~open
    /\ Drop
    /\ UNCHANGED <<use, nextId, cmdVars, verdict, envVars, accepted>>

\* Seeded fault: the client is kept for the next poll.
CommandTimesOutKept ==
    /\ step \in {"pause", "reading"}
    /\ step' = "ready"
    /\ UNCHANGED <<use, nextId, cmdVars, verdict, netVars, envVars, accepted>>

\* command_timeout expires, or a shutdown or the end of the process cancels
\* the final check: the client is dropped in the middle of its answer.
CommandTimesOut ==
    /\ step \in {"pause", "reading"}
    /\ Drop
    /\ UNCHANGED <<use, nextId, cmdVars, verdict, envVars, accepted>>

-----------------------------------------------------------------------------
Next ==
    \/ PlayersChange \/ ListenerChanges
    \/ ServerHandles \/ ServerOverlooks \/ ServerGarbles
    \/ \E u \in ConnectUses : Connect(u)
    \/ Connected \/ ConnectFails
    \/ ReadAuthSkips \/ ReadAuth \/ AuthFails \/ LoginTimesOut
    \/ Stop
    \/ \E u \in CommandUses : Command(u)
    \/ SendMarker \/ ReadPart \/ ReadMarker \/ CommandFails \/ CommandTimesOut

Spec == Init /\ [][Next]_vars

-----------------------------------------------------------------------------
(***************************************************************************)
(* Properties.                                                             *)
(***************************************************************************)

Packets == [id : 0..MaxId, count : Counts \cup {Unknown}, last : BOOLEAN,
            kind : {"auth", "value", "bad", "list", "empty", "stop"}]

TypeOK ==
    /\ step \in {"none", "connect", "auth", "ready", "pause", "reading"}
    /\ use \in ConnectUses \cup CommandUses
    /\ nextId \in Ids /\ ids \in Ids \X Ids
    /\ response \in Seq(Packets) /\ Len(response) <= MaxParts
    /\ answer \in Counts \cup {Unknown}
    /\ verdict \in {"none", "refused", "inconclusive", "accepted_failure",
                    "authenticated"}
    /\ toServer \in Seq(Packets) /\ toClient \in Seq(Packets)
    /\ open \in BOOLEAN /\ listening \in BOOLEAN /\ trusted \in BOOLEAN
    /\ players \in Counts /\ accepted \in BOOLEAN /\ seen \subseteq Counts

\* What a poll or the final check takes for the number of players was the
\* number of players at some moment since it sent its command: no late answer
\* to an earlier command ever counts, although ids are used again.
FreshAnswer == answer # Unknown => answer \in seen

\* An answer is used only when all of it has arrived, in however many packets.
WholeAnswer == answer # Unknown => response[Len(response)].last

\* A client that is kept between commands has no answer outstanding, so that
\* the next command reads its own: only what no command asked for can be there.
InStep ==
    step = "ready" =>
        /\ toServer = <<>>
        /\ \A i \in DOMAIN toClient : toClient[i].kind = "bad"

\* Commands are sent only on connections whose password the server accepted.
\* With the wrong password nothing gets beyond the login.
LoggedInFirst ==
    /\ step \in {"ready", "pause", "reading"} => accepted /\ trusted
    /\ \A i \in DOMAIN toServer : toServer[i].kind # "auth" => accepted
=============================================================================
