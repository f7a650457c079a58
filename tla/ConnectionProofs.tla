-------------------------- MODULE ConnectionProofs --------------------------
(***************************************************************************)
(* Proofs about Connection, for every set of streams, every release and    *)
(* all timeouts and limits.  What the parsers and the framing do with the  *)
(* bytes is left open: the proofs need only that the gateway looks at each *)
(* prefix of a packet in turn and at nothing twice.  The invariant says    *)
(* how far the reading is (ReadInv), what the answers and the wake-up rest *)
(* on (AnswerInv), what the backend has received (BytesInv), and how much  *)
(* of its time the connection has used (TimeInv).                          *)
(***************************************************************************)
EXTENDS Connection, SequenceTheorems, TLAPS

\* The bytes after one place up to another are a whole packet, the first one
\* to be so among those read.
Whole(after, b, limit) == Framing(SubSeq(plan, after + 1, b), limit) = "whole"

Ends(after, b, limit) ==
    /\ b \in (after + 1)..got /\ Whole(after, b, limit)
    /\ \A c \in (after + 1)..(b - 1) : ~Whole(after, c, limit)

\* No packet ends yet.
Unfinished(after, limit) == \A c \in (after + 1)..got : ~Whole(after, c, limit)

HandshakeAt(b) == parse_handshake(Body(SubSeq(plan, 1, b)))

Shaken(b) == Ends(0, b, MaxHandshake) /\ HandshakeAt(b).ok

\* A handshake that may be followed by a login.
Welcome(h) ==
    /\ h.intent \in {"Login", "Transfer"}
    /\ h.protocol_version = version.protocol
    /\ h.intent = "Transfer" => version.layout = "RequiredUuidAndTransfer"

SeenLogin ==
    \E b \in Nat :
        /\ Shaken(b) /\ Welcome(HandshakeAt(b))
        /\ \E c \in Nat :
              /\ Ends(b, c, MaxLoginStart)
              /\ parse_login_start(Body(SubSeq(plan, b + 1, c)), version.layout)

SeenStatus ==
    \E b \in Nat :
        /\ Shaken(b) /\ HandshakeAt(b).intent = "Status"
        /\ \E c \in Nat : /\ Ends(b, c, MaxStatus)
                          /\ parse_status_request(Body(SubSeq(plan, b + 1, c)))

SeenOther ==
    \E b \in Nat :
        /\ Shaken(b) /\ HandshakeAt(b).intent \in {"Login", "Transfer"}
        /\ HandshakeAt(b).protocol_version # version.protocol

\* How far the reading is.
ReadInv ==
    /\ pc = "handshake" =>
          /\ mark = 0 /\ phase = "None" /\ Unfinished(0, MaxHandshake)
    /\ pc = "request" =>
          /\ phase \in WakePhases \cup {"Starting"}
          /\ Shaken(mark) /\ intent = HandshakeAt(mark).intent
          /\ intent = "Status" => Unfinished(mark, MaxStatus)
          /\ intent # "Status" =>
                Unfinished(mark, MaxLoginStart) /\ Welcome(HandshakeAt(mark))

\* What an answer, once chosen, rests on.
Founded(a) ==
    /\ a = "status" => SeenStatus
    /\ a \in {"login", "conflict"} =>
          /\ SeenLogin /\ (a = "conflict" <=> phase = "Conflict")
          /\ woke # "no" \/ phase = "Starting"
    /\ a = "incompatible" => SeenOther

AnswerInv ==
    /\ pc \in {"handshake", "request"} => answer = "none" /\ woke = "no"
    /\ pc = "answer" => answer \notin {"none", "pong"}
    /\ pc = "ping" => answer = "status"
    /\ pc = "pong" => answer = "pong"
    /\ woke # "no" => SeenLogin /\ phase \in WakePhases
    /\ phase \in ProxyPhases => answer = "none"
    /\ Founded(answer)
    /\ \/ heard = <<>> /\ pc \notin {"ping", "pong", "shut"} /\ answer # "pong"
       \/ /\ heard = <<answer>> /\ answer \notin {"none", "pong"}
          /\ pc \in {"ping", "shut", "done"}
          /\ pc = "ping" => answer = "status"
       \/ /\ heard = <<"status">> /\ answer = "pong" /\ SeenStatus
          /\ pc \in {"pong", "done"}
       \/ /\ heard = <<"status", "pong">> /\ answer = "pong" /\ SeenStatus
          /\ pc \in {"shut", "done"}
       \/ /\ heard = <<"backend">> /\ phase \in ProxyPhases
          /\ pc \in {"relay", "done"}

\* What the backend has received.
BytesInv ==
    /\ pc \in {"lease", "connect", "pause", "replay"} =>
          mark = got /\ backend = <<>> /\ phase \in ProxyPhases
    /\ pc = "relay" => Len(backend) = got /\ phase \in ProxyPhases
    /\ pc \in OwnPcs => backend = <<>> /\ phase \notin ProxyPhases
    /\ Verbatim

\* How much of its time the connection has used, and how much is left.
Counted ==
    /\ pc \in {"handshake", "request"} => age + left = HandshakeTimeout
    /\ pc = "answer" => age + left <= 2 * HandshakeTimeout
    /\ pc = "ping" => age + left <= 3 * HandshakeTimeout
    /\ pc = "pong" => age + left <= 4 * HandshakeTimeout
    /\ pc = "shut" =>
          /\ answer \notin {"status", "pong"} =>
                age + left <= 3 * HandshakeTimeout
          /\ answer = "status" => age + left <= 4 * HandshakeTimeout
          /\ answer = "pong" => age + left <= 5 * HandshakeTimeout
    /\ pc \in ConnectPcs => age + left = ProxyConnectTimeout /\ attempt <= left

TimeInv == Counted /\ (pc # "done" => ended = "no") /\ InTime

\* A login refused by a closed channel is over, unanswered.
ClosedInv ==
    ended = "closed" => channel = "closed" /\ heard = <<>> /\ pc = "done"

IInv == TypeOK /\ ReadInv /\ AnswerInv /\ ClosedInv /\ BytesInv /\ TimeInv
USE StreamsAssumption, VersionsAssumption, TimesAssumption

-----------------------------------------------------------------------------
(***************************************************************************)
(* The bytes and the packets in them.                                      *)
(***************************************************************************)

\* The stream is a sequence of bytes, and its places are numbers.
LEMMA Places ==
    ASSUME TypeOK
    PROVE  /\ plan \in Seq(Byte) /\ Len(plan) \in Nat
           /\ DOMAIN plan = 1..Len(plan)
           /\ sent \in Nat /\ sent <= Len(plan)
           /\ got \in Nat /\ got <= sent /\ mark \in Nat /\ mark <= got
  <1>1. plan \in Seq(Byte)
    BY DEF TypeOK
  <1>2. Len(plan) \in Nat /\ DOMAIN plan = 1..Len(plan)
    BY <1>1, LenProperties
  <1> QED BY <1>1, <1>2 DEF TypeOK

\* A part of the stream.
LEMMA Part ==
    ASSUME TypeOK, NEW n \in 0..sent
    PROVE  /\ SubSeq(plan, 1, n) \in Seq(Byte) /\ Len(SubSeq(plan, 1, n)) = n
           /\ \A i \in 1..n : SubSeq(plan, 1, n)[i] = plan[i]
  <1>1. /\ plan \in Seq(Byte) /\ Len(plan) \in Nat /\ sent <= Len(plan)
        /\ sent \in Nat
    BY Places
  <1>2. \A i \in 1..n : plan[i] \in Byte
    BY <1>1, ElementOfSeq
  <1>3. /\ SubSeq(plan, 1, n) \in Seq(Byte)
        /\ Len(SubSeq(plan, 1, n)) = IF 1 <= n THEN n - 1 + 1 ELSE 0
        /\ \A i \in 1..(n - 1 + 1) : SubSeq(plan, 1, n)[i] = plan[1 + i - 1]
    BY <1>1, <1>2, SubSeqProperties
  <1> QED BY <1>1, <1>3

\* A part of a part, and a part with the next byte.
LEMMA PartOfPart ==
    ASSUME TypeOK, NEW m \in 0..sent, NEW n \in 0..m
    PROVE  SubSeq(SubSeq(plan, 1, m), 1, n) = SubSeq(plan, 1, n)
  <1> DEFINE s == SubSeq(plan, 1, m)
             t == SubSeq(s, 1, n)
             u == SubSeq(plan, 1, n)
  <1>1. sent \in Nat
    BY Places
  <1>2. /\ s \in Seq(Byte) /\ Len(s) = m /\ \A i \in 1..m : s[i] = plan[i]
        /\ u \in Seq(Byte) /\ Len(u) = n /\ \A i \in 1..n : u[i] = plan[i]
    BY <1>1, Part
  <1>3. \A i \in 1..n : s[i] \in Byte
    BY <1>1, <1>2, ElementOfSeq
  <1> HIDE DEF s, u
  <1>4. /\ t \in Seq(Byte) /\ Len(t) = IF 1 <= n THEN n - 1 + 1 ELSE 0
        /\ \A i \in 1..(n - 1 + 1) : t[i] = s[1 + i - 1]
    BY <1>1, <1>3, SubSeqProperties
  <1> HIDE DEF t
  <1>5. Len(t) = n /\ \A i \in 1..n : t[i] = u[i]
    BY <1>1, <1>2, <1>4
  <1>6. t = u
    BY <1>1, <1>2, <1>4, <1>5, SeqEqual
  <1> QED BY <1>6 DEF s, t, u

LEMMA NextByte ==
    ASSUME TypeOK, got < sent
    PROVE  Append(SubSeq(plan, 1, got), plan[got + 1]) = SubSeq(plan, 1, got + 1)
           /\ plan[got + 1] \in Byte
  <1> DEFINE s == SubSeq(plan, 1, got)
             t == Append(s, plan[got + 1])
             u == SubSeq(plan, 1, got + 1)
  <1>1. /\ sent \in Nat /\ got \in Nat /\ got + 1 \in 0..sent /\ got \in 0..sent
        /\ plan \in Seq(Byte) /\ got + 1 \in 1..Len(plan)
    BY Places
  <1>2. plan[got + 1] \in Byte
    BY <1>1, ElementOfSeq
  <1>3. /\ s \in Seq(Byte) /\ Len(s) = got /\ \A i \in 1..got : s[i] = plan[i]
        /\ u \in Seq(Byte) /\ Len(u) = got + 1
        /\ \A i \in 1..(got + 1) : u[i] = plan[i]
    BY <1>1, Part
  <1> HIDE DEF s, u
  <1>4. /\ t \in Seq(Byte) /\ Len(t) = got + 1
        /\ \A i \in 1..got : t[i] = s[i]
        /\ t[got + 1] = plan[got + 1]
    BY <1>2, <1>3, AppendProperties
  <1> HIDE DEF t
  <1>5. \A i \in 1..Len(t) : t[i] = u[i]
    BY <1>1, <1>3, <1>4
  <1>6. t = u
    BY <1>3, <1>4, <1>5, SeqEqual
  <1> QED BY <1>2, <1>6 DEF s, t, u

\* There is one first end.
LEMMA PacketEndIs ==
    ASSUME NEW after \in Nat, NEW b \in Nat, NEW limit, got \in Nat,
           Ends(after, b, limit)
    PROVE  PacketEnd(after, limit) = b
  <1> DEFINE ends == {x \in (after + 1)..got :
                         Framing(SubSeq(plan, after + 1, x), limit) = "whole"}
             first == CHOOSE x \in ends : \A c \in ends : x <= c
  <1>1. b \in ends /\ \A c \in ends : c >= b
    BY DEF Ends, Whole
  <1>2. ends \subseteq Nat
    OBVIOUS
  <1> HIDE DEF ends
  <1>3. first \in ends /\ \A c \in ends : first <= c
    BY <1>1, <1>2
  <1> HIDE DEF first
  <1>4. first \in Nat /\ first <= b /\ b <= first
    BY <1>1, <1>2, <1>3
  <1>5. first = b
    BY <1>4
  <1> QED BY <1>1, <1>5 DEF PacketEnd, ends, first

\* What was seen of the client is what the properties say it asked for.
LEMMA SeenIsAsked ==
    ASSUME got \in Nat
    PROVE  /\ SeenLogin => AskedLogin
           /\ SeenStatus => AskedStatus
           /\ SeenOther => AskedElsewhere
  <1>1. ASSUME NEW b \in Nat, Shaken(b)
        PROVE  PacketEnd(0, MaxHandshake) = b /\ b # 0
    BY <1>1, PacketEndIs DEF Shaken, Ends
  <1>2. ASSUME NEW b \in Nat, NEW c \in Nat, NEW limit, Ends(b, c, limit)
        PROVE  PacketEnd(b, limit) = c /\ c # 0
    BY <1>2, PacketEndIs DEF Ends
  <1>3. SeenLogin => AskedLogin
    BY <1>1, <1>2
       DEF SeenLogin, AskedLogin, Sent2, Shaken, Welcome, HandshakeAt
  <1>4. SeenStatus => AskedStatus
    BY <1>1, <1>2 DEF SeenStatus, AskedStatus, Sent2, Shaken, HandshakeAt
  <1>5. SeenOther => AskedElsewhere
    BY <1>1 DEF SeenOther, AskedElsewhere, Shaken, HandshakeAt
  <1> QED BY <1>3, <1>4, <1>5

\* What was seen stays seen when more is read.
LEMMA SeenStays ==
    ASSUME got \in Nat, got' \in Nat, got <= got',
           plan' = plan, version' = version
    PROVE  /\ SeenLogin => SeenLogin'
           /\ SeenStatus => SeenStatus'
           /\ SeenOther => SeenOther'
           /\ \A b \in Nat : Shaken(b) => Shaken(b)'
  <1>1. \A b, c \in Nat :
           /\ Ends(b, c, MaxHandshake) => Ends(b, c, MaxHandshake)'
           /\ Ends(b, c, MaxLoginStart) => Ends(b, c, MaxLoginStart)'
           /\ Ends(b, c, MaxStatus) => Ends(b, c, MaxStatus)'
    BY DEF Ends, Whole
  <1>2. \A b \in Nat : Shaken(b) => Shaken(b)'
    BY <1>1 DEF Shaken, HandshakeAt
  <1>3. SeenLogin => SeenLogin'
    BY <1>1, <1>2 DEF SeenLogin, Welcome, HandshakeAt
  <1>4. SeenStatus => SeenStatus'
    BY <1>1, <1>2 DEF SeenStatus, HandshakeAt
  <1>5. SeenOther => SeenOther'
    BY <1>1, <1>2 DEF SeenOther, HandshakeAt
  <1> QED BY <1>2, <1>3, <1>4, <1>5

-----------------------------------------------------------------------------
(***************************************************************************)
(* What every step leaves alone.                                           *)
(***************************************************************************)

\* The stream and the release stay, and nothing is unsent or unread.
LEMMA Grows ==
    ASSUME TypeOK, [Next]_vars
    PROVE  /\ plan' = plan /\ version' = version
           /\ sent' \in sent..Len(plan) /\ got' \in got..sent'
  <1>1. /\ Len(plan) \in Nat /\ sent \in Nat /\ sent <= Len(plan)
        /\ got \in Nat /\ got <= sent
    BY Places
  <1>2. CASE World
    BY <1>1, <1>2 DEF World, ClientSends, ClientEnds, ChannelMoves,
       AtTheChannel, SupervisorEnds, CycleEnds, BackendMoves, clientVars,
       readVars
  <1>3. CASE Tick
    BY <1>1, <1>3 DEF Tick, clientVars, readVars
  <1>4. CASE Reads
    BY <1>1, <1>4 DEF Reads, ReadByte, ReadFails, GotHandshake,
       GotStatusRequest, GotLoginStart, CanRead, clientVars, readVars
  <1>5. CASE Writes
    BY <1>1, <1>5 DEF Writes, Written, WriteFails, GotPing, NoPing, ShutDown,
       CanRead, clientVars, readVars
  <1>6. CASE Proxies
    BY <1>1, <1>6 DEF Proxies, LeaseAcquired, Connected, AttemptFails,
       RetryOrGiveUp, Replay, ReplayFails, RelayUp, RelayDown, RelayEnds,
       clientVars, readVars
  <1>7. CASE Done \/ UNCHANGED vars
    BY <1>1, <1>7 DEF Done, vars, clientVars, readVars
  <1> QED BY <1>2, <1>3, <1>4, <1>5, <1>6, <1>7 DEF Next

\* So what was seen of the client stays seen.
LEMMA StaysSeen ==
    ASSUME TypeOK, [Next]_vars
    PROVE  /\ SeenLogin => SeenLogin'
           /\ SeenStatus => SeenStatus'
           /\ SeenOther => SeenOther'
           /\ \A b \in Nat : Shaken(b) => Shaken(b)'
  <1>1. /\ sent \in Nat /\ got \in Nat /\ Len(plan) \in Nat
    BY Places
  <1>2. /\ plan' = plan /\ version' = version
        /\ sent' \in sent..Len(plan) /\ got' \in got..sent'
    BY Grows
  <1>3. got' \in Nat /\ got <= got'
    BY <1>1, <1>2
  <1> QED BY <1>1, <1>2, <1>3, SeenStays

-----------------------------------------------------------------------------
(***************************************************************************)
(* The types.                                                              *)
(***************************************************************************)

\* What the parser says of the intent, whatever the bytes.
LEMMA IntentType ==
    ASSUME NEW packet
    PROVE  parse_handshake(packet).intent \in HandshakeIntent
  BY DEF parse_handshake, Malformed, intent_of, HandshakeIntent

LEMMA LeastType ==
    ASSUME NEW a \in Nat, NEW b \in Nat
    PROVE  Least(a, b) \in Nat /\ Least(a, b) <= a /\ Least(a, b) <= b
  BY DEF Least

LEMMA Times ==
    /\ HandshakeTimeout \in Nat /\ HandshakeTimeout > 0
    /\ ProxyConnectTimeout \in Nat /\ ProxyConnectTimeout > 0
    /\ Attempt \in Nat /\ Attempt > 0 /\ Pause \in Nat /\ Pause > 0
  OBVIOUS

LEMMA InitTypes == Init => TypeOK
  <1> SUFFICES ASSUME Init PROVE TypeOK
    OBVIOUS
  <1>1. plan \in Seq(Byte)
    BY DEF Init
  <1>2. Len(plan) \in Nat
    BY <1>1, LenProperties
  <1>3. <<>> \in Seq(Byte) /\ <<>> \in Seq(Answers \cup {"backend"})
    BY EmptySeq
  <1>4. /\ sent \in 0..Len(plan) /\ got \in 0..sent /\ mark \in 0..got
        /\ age \in Nat /\ left \in 0..(HandshakeTimeout + ProxyConnectTimeout)
        /\ attempt \in 0..(Attempt + Pause)
    BY <1>2, Times DEF Init
  <1> QED BY <1>3, <1>4 DEF Init, TypeOK, OwnPcs

\* The part of the type invariant that is about numbers and bytes.
Numbers ==
    /\ sent \in 0..Len(plan) /\ got \in 0..sent /\ mark \in 0..got
    /\ left \in 0..(HandshakeTimeout + ProxyConnectTimeout)
    /\ attempt \in 0..(Attempt + Pause) /\ age \in Nat

Texts ==
    /\ backend \in Seq(Byte) /\ heard \in Seq(Answers \cup {"backend"})

Names ==
    /\ plan \in Streams /\ version \in Versions
    /\ hup \in {"no", "closed", "reset"}
    /\ pc \in OwnPcs \cup ConnectPcs \cup {"lease", "replay", "relay", "done"}
    /\ phase \in Phases \cup {"None"}
    /\ intent \in HandshakeIntent \cup {"None"}
    /\ answer \in Answers \cup {"none"}
    /\ channel \in {"free", "pending", "closed"} /\ authority \in BOOLEAN
    /\ reachable \in BOOLEAN /\ woke \in {"no", "queued", "found_pending"}
    /\ ended \in {"no", "io", "timeout", "refused", "ignored", "answered",
                  "closed", "stale", "unreachable", "relayed"}

LEMMA NumbersStep == IInv /\ [Next]_vars => Numbers'
  <1> SUFFICES ASSUME IInv, [Next]_vars PROVE Numbers'
    OBVIOUS
  <1>1. /\ Numbers /\ Len(plan) \in Nat /\ sent \in Nat /\ got \in Nat
        /\ mark \in Nat
    BY Places DEF IInv, TypeOK, Numbers
  <1>2. pc \in ConnectPcs => attempt <= left
    BY DEF IInv, TimeInv, Counted
  <1>3. CASE World
    BY <1>1, <1>3 DEF World, ClientSends, ClientEnds, ChannelMoves,
       AtTheChannel, SupervisorEnds, CycleEnds, BackendMoves, clientVars,
       readVars, Numbers
  <1>4. CASE Tick
    <2>1. left \in Nat /\ attempt \in Nat /\ age \in Nat
      BY <1>1, Times DEF Numbers
    <2>2. /\ left > 0 /\ left' = left - 1 /\ age' = age + 1
          /\ attempt' = attempt \/ (attempt > 0 /\ attempt' = attempt - 1)
      BY <1>2, <1>4, <2>1 DEF Tick
    <2>3. UNCHANGED <<plan, sent, got, mark>>
      BY <1>4 DEF Tick, clientVars, readVars
    <2> QED BY <1>1, <2>1, <2>2, <2>3, Times DEF Numbers
  <1>5. CASE ReadByte \/ ReadFails
    <2>1. got' = got \/ (got < sent /\ got' = got + 1)
      <3>1. CASE ReadByte
        <4>1. got' = got + 1
          BY <3>1 DEF ReadByte
        <4>2. got < sent
          BY <3>1 DEF ReadByte, CanRead
        <4> QED BY <4>1, <4>2
      <3>2. CASE ReadFails
        BY <3>2 DEF ReadFails, readVars
      <3> QED BY <1>5, <3>1, <3>2
    <2>2. UNCHANGED <<plan, sent, mark, left, attempt, age>>
      BY <1>5 DEF ReadByte, ReadFails, clientVars, readVars
    <2> QED BY <1>1, <2>1, <2>2 DEF Numbers
  <1>6. CASE GotHandshake
    <2>1. \/ UNCHANGED <<left, attempt, age>>
          \/ StartConnecting
          \/ left' = HandshakeTimeout /\ UNCHANGED <<attempt, age>>
      BY <1>6 DEF GotHandshake, AnswerItself, Await
    <2>2. /\ got' = got + 1 /\ got < sent /\ mark' \in {mark, got + 1}
          /\ plan' = plan /\ sent' = sent
      BY <1>6 DEF GotHandshake, CanRead, clientVars
    <2>3. Least(ProxyConnectTimeout, Attempt) \in 0..Attempt
      BY LeastType
    <2> QED BY <1>1, <2>1, <2>2, <2>3 DEF Numbers, StartConnecting
  <1>7. CASE GotStatusRequest \/ GotLoginStart \/ GotPing
    <2>1. /\ left' \in {left, HandshakeTimeout} /\ UNCHANGED <<attempt, age>>
      BY <1>7 DEF GotStatusRequest, GotLoginStart, GotPing, Await
    <2>2. /\ got' = got + 1 /\ got < sent /\ mark' = got + 1
          /\ plan' = plan /\ sent' = sent
      BY <1>7 DEF GotStatusRequest, GotLoginStart, GotPing, CanRead, clientVars
    <2> QED BY <1>1, <2>1, <2>2 DEF Numbers
  <1>8. CASE Written \/ WriteFails \/ NoPing \/ ShutDown
    BY <1>1, <1>8 DEF Written, WriteFails, NoPing, ShutDown, Await, clientVars,
       readVars, Numbers
  <1>9. CASE LeaseAcquired
    <2>1. Least(ProxyConnectTimeout, Attempt) \in 0..Attempt
      BY LeastType
    <2> QED BY <1>1, <1>9, <2>1 DEF LeaseAcquired, StartConnecting, clientVars,
            readVars, Numbers
  <1>10. CASE AttemptFails \/ RetryOrGiveUp
    <2>1. Least(Pause, left) \in 0..Pause /\ Least(left, Attempt) \in 0..Attempt
      <3>1. left \in Nat
        BY <1>1, Times DEF Numbers
      <3> QED BY <3>1, Times DEF Least
    <2>2. attempt' \in 0..(Attempt + Pause)
      BY <1>1, <1>10, <2>1 DEF AttemptFails, RetryOrGiveUp, Numbers
    <2> QED BY <1>1, <1>10, <2>2 DEF AttemptFails, RetryOrGiveUp, clientVars,
            readVars, Numbers
  <1>11. CASE Connected \/ Replay \/ ReplayFails \/ RelayUp \/ RelayDown
                \/ RelayEnds
    <2>1. UNCHANGED <<plan, sent, mark, left, attempt, age>>
      BY <1>11 DEF Connected, Replay, ReplayFails, RelayUp, RelayDown,
         RelayEnds, clientVars, readVars
    <2>2. got' = got \/ (got < sent /\ got' = got + 1)
      BY <1>11 DEF Connected, Replay, ReplayFails, RelayUp, RelayDown,
         RelayEnds, readVars
    <2> QED BY <1>1, <2>1, <2>2 DEF Numbers
  <1>12. CASE Done \/ UNCHANGED vars
    BY <1>1, <1>12 DEF Done, vars, clientVars, readVars, Numbers
  <1> QED BY <1>3, <1>4, <1>5, <1>6, <1>7, <1>8, <1>9, <1>10, <1>11, <1>12
          DEF Next, Reads, Writes, Proxies

LEMMA NamesStep == IInv /\ [Next]_vars => Names'
  <1> SUFFICES ASSUME IInv, [Next]_vars PROVE Names'
    OBVIOUS
  <1>1. Names
    BY DEF IInv, TypeOK, Names
  <1>2. CASE World
    <2>1. CASE BackendMoves
      <3>1. reachable' \in BOOLEAN
        BY <2>1 DEF BackendMoves
      <3>2. UNCHANGED <<plan, version, hup, pc, phase, intent, answer,
                        channel, authority, woke, ended>>
        BY <2>1 DEF BackendMoves, clientVars
      <3> QED BY <1>1, <3>1, <3>2 DEF Names
    <2>2. CASE ClientSends \/ ClientEnds \/ CycleEnds
      BY <1>1, <2>2 DEF ClientSends, ClientEnds, CycleEnds, clientVars, envVars,
         Names
    <2>3. CASE ChannelMoves \/ SupervisorEnds
      BY <1>1, <2>3 DEF ChannelMoves, SupervisorEnds, clientVars, Names
    <2> QED BY <1>2, <2>1, <2>2, <2>3 DEF World
  <1>3. CASE Tick
    BY <1>1, <1>3 DEF Tick, clientVars, envVars, Names
  <1>4. CASE ReadByte \/ ReadFails
    BY <1>1, <1>4 DEF ReadByte, ReadFails, End, clientVars, envVars, Names
  <1>5. CASE GotHandshake
    <2>1. parse_handshake(Body(Read)).intent \in HandshakeIntent
      BY IntentType
    <2>2. intent' \in HandshakeIntent \cup {"None"} /\ phase' \in Phases \cup {"None"}
      BY <1>1, <1>5, <2>1 DEF GotHandshake, Names
    <2>3. /\ pc' \in {"done", "lease", "connect", "request", "answer"}
          /\ answer' \in {answer, "incompatible"}
          /\ ended' \in {ended, "refused", "ignored"}
      BY <1>5 DEF GotHandshake, AnswerItself, StartConnecting, Await, End
    <2>4. UNCHANGED <<plan, version, hup, channel, authority, reachable, woke>>
      BY <1>5 DEF GotHandshake, clientVars, envVars
    <2> QED BY <1>1, <2>2, <2>3, <2>4 DEF Names, OwnPcs, ConnectPcs, Answers
  <1>6. CASE GotStatusRequest \/ GotPing
    BY <1>1, <1>6 DEF GotStatusRequest, GotPing, Await, End, clientVars,
       envVars, Names, OwnPcs, Answers
  <1>7. CASE GotLoginStart
    <2>1. /\ woke' \in {"no", "queued", "found_pending"}
          /\ channel' \in {"free", "pending", "closed"}
      BY <1>1, <1>7 DEF GotLoginStart, RequestWake, Names
    <2>2. /\ pc' \in {"done", "answer"}
          /\ answer' \in {answer, "login", "conflict"}
          /\ ended' \in {ended, "refused", "closed"}
      BY <1>7 DEF GotLoginStart, Farewell, Await, End
    <2>3. UNCHANGED <<plan, version, hup, phase, intent, authority,
                      reachable>>
      BY <1>7 DEF GotLoginStart, clientVars
    <2> QED BY <1>1, <2>1, <2>2, <2>3 DEF Names, OwnPcs, Answers
  <1>8. CASE Written \/ WriteFails \/ NoPing \/ ShutDown
    BY <1>1, <1>8 DEF Written, WriteFails, NoPing, ShutDown, Await, End,
       clientVars, envVars, Names, OwnPcs
  <1>9. CASE LeaseAcquired \/ Connected \/ AttemptFails \/ RetryOrGiveUp
    BY <1>1, <1>9 DEF LeaseAcquired, StartConnecting, Connected, AttemptFails,
       RetryOrGiveUp, End, clientVars, envVars, Names, ConnectPcs
  <1>10. CASE Replay \/ ReplayFails \/ RelayUp \/ RelayDown \/ RelayEnds
    BY <1>1, <1>10 DEF Replay, ReplayFails, RelayUp, RelayDown, RelayEnds, End,
       clientVars, envVars, Names
  <1>11. CASE Done \/ UNCHANGED vars
    BY <1>1, <1>11 DEF Done, vars, clientVars, envVars, Names
  <1> QED BY <1>2, <1>3, <1>4, <1>5, <1>6, <1>7, <1>8, <1>9, <1>10, <1>11
          DEF Next, Reads, Writes, Proxies

LEMMA TextsStep == IInv /\ [Next]_vars => Texts'
  <1> SUFFICES ASSUME IInv, [Next]_vars PROVE Texts'
    OBVIOUS
  <1>1. Texts /\ TypeOK
    BY DEF IInv, TypeOK, Texts
  <1>2. CASE World \/ Tick
    BY <1>1, <1>2 DEF World, ClientSends, ClientEnds, ChannelMoves,
       AtTheChannel, SupervisorEnds, CycleEnds, BackendMoves, Tick, Texts
  <1>3. CASE Reads
    BY <1>1, <1>3 DEF Reads, ReadByte, ReadFails, GotHandshake,
       GotStatusRequest, GotLoginStart, Texts
  <1>4. CASE Written
    <2>1. answer \in Answers
      BY <1>1, <1>4 DEF IInv, AnswerInv, Written, TypeOK
    <2>2. heard' = Append(heard, answer) /\ backend' = backend
      BY <1>4 DEF Written
    <2> QED BY <1>1, <2>1, <2>2, AppendProperties DEF Texts
  <1>5. CASE WriteFails \/ GotPing \/ NoPing \/ ShutDown
    BY <1>1, <1>5 DEF WriteFails, GotPing, NoPing, ShutDown, Texts
  <1>6. CASE LeaseAcquired \/ Connected \/ AttemptFails \/ RetryOrGiveUp
               \/ RelayEnds \/ Done \/ UNCHANGED vars
    BY <1>1, <1>6 DEF LeaseAcquired, Connected, AttemptFails, RetryOrGiveUp,
       RelayEnds, Done, vars, Texts
  <1>7. CASE Replay
    <2>1. backend' = SubSeq(plan, 1, mark) /\ heard' = heard
      BY <1>7 DEF Replay, framed_handshake
    <2>2. mark \in 0..sent
      BY <1>1, Places
    <2> QED BY <1>1, <2>1, <2>2, Part DEF Texts
  <1>8. CASE ReplayFails
    <2>1. mark \in 0..sent /\ mark \in Nat /\ sent \in Nat
      BY <1>1, Places
    <2>2. Len(SubSeq(plan, 1, mark)) = mark
      BY <1>1, <2>1, Part
    <2>3. PICK n \in 0..(mark - 1) :
             backend' = SubSeq(SubSeq(plan, 1, mark), 1, n)
      BY <1>8, <2>2 DEF ReplayFails, framed_handshake
    <2>4. backend' = SubSeq(plan, 1, n)
      BY <1>1, <2>1, <2>3, PartOfPart
    <2>5. n \in 0..sent
      BY <2>1
    <2>6. heard' = heard
      BY <1>8 DEF ReplayFails
    <2> QED BY <1>1, <2>4, <2>5, <2>6, Part DEF Texts
  <1>9. CASE RelayUp
    <2>1. backend' = Append(backend, plan[got + 1]) /\ heard' = heard
          /\ got < sent
      BY <1>9 DEF RelayUp
    <2>2. plan[got + 1] \in Byte
      BY <1>1, <2>1, NextByte
    <2> QED BY <1>1, <2>1, <2>2, AppendProperties DEF Texts
  <1>10. CASE RelayDown
    <2>1. heard' = <<"backend">> /\ backend' = backend
      BY <1>10 DEF RelayDown
    <2> QED BY <1>1, <2>1 DEF Texts
  <1> QED BY <1>2, <1>3, <1>4, <1>5, <1>6, <1>7, <1>8, <1>9, <1>10
          DEF Next, Writes, Proxies

LEMMA TypeStep == IInv /\ [Next]_vars => TypeOK'
  BY NumbersStep, NamesStep, TextsStep DEF Numbers, Names, Texts, TypeOK

-----------------------------------------------------------------------------
(***************************************************************************)
(* The reading.                                                            *)
(***************************************************************************)

LEMMA InitReading == Init => ReadInv
  BY DEF Init, ReadInv, Unfinished

\* A step that reads nothing and stays where it is, or reads no more packets.
LEMMA ReadKeeps ==
    ASSUME ReadInv,
           \/ UNCHANGED <<plan, version, got, mark, pc, phase, intent>>
           \/ pc' \notin {"handshake", "request"}
    PROVE  ReadInv'
  <1>1. CASE pc' \notin {"handshake", "request"}
    BY <1>1 DEF ReadInv
  <1>2. CASE UNCHANGED <<plan, version, got, mark, pc, phase, intent>>
    BY <1>2 DEF ReadInv, Unfinished, Shaken, Ends, Whole, HandshakeAt, Welcome
  <1> QED BY <1>1, <1>2

\* The handshake that is whole with the next byte is the first packet.
LEMMA HandshakeEnds ==
    ASSUME IInv, GotHandshake, NEW b \in Nat, b = got + 1
    PROVE  /\ Ends(0, b, MaxHandshake)'
           /\ parse_handshake(Body(Read)) = HandshakeAt(b)
           /\ HandshakeAt(b)' = HandshakeAt(b)
  <1>1. /\ got \in Nat /\ got' = b /\ plan' = plan
        /\ pc = "handshake" /\ mark = 0 /\ Unfinished(0, MaxHandshake)
        /\ Framing(Read, MaxHandshake) = "whole"
    BY Places DEF IInv, ReadInv, GotHandshake, CanRead, Limit, clientVars
  <1>2. Read = SubSeq(plan, 1, b)
    BY <1>1 DEF Read
  <1>3. parse_handshake(Body(Read)) = HandshakeAt(b)
    BY <1>2 DEF HandshakeAt
  <1>4. HandshakeAt(b)' = HandshakeAt(b)
    BY <1>1 DEF HandshakeAt
  <1>5. Whole(0, b, MaxHandshake)
    BY <1>1, <1>2 DEF Whole
  <1>6. Ends(0, b, MaxHandshake)'
    BY <1>1, <1>5 DEF Ends, Whole, Unfinished
  <1> QED BY <1>3, <1>4, <1>6

LEMMA ReadStep == IInv /\ [Next]_vars => ReadInv'
  <1> SUFFICES ASSUME IInv, [Next]_vars PROVE ReadInv'
    OBVIOUS
  <1>1. /\ ReadInv /\ got \in Nat /\ got <= sent /\ mark \in Nat /\ mark <= got
    BY Places DEF IInv
  <1>2. CASE World \/ Tick
    <2>1. CASE CycleEnds \/ ChannelMoves \/ SupervisorEnds
      BY <1>1, <2>1, ReadKeeps DEF CycleEnds, ChannelMoves, SupervisorEnds,
         clientVars, readVars
    <2>2. CASE ClientSends \/ ClientEnds \/ BackendMoves \/ Tick
      BY <1>1, <2>2, ReadKeeps DEF ClientSends, ClientEnds, BackendMoves, Tick,
         clientVars, readVars
    <2> QED BY <1>2, <2>1, <2>2 DEF World
  <1>3. CASE ReadByte
    <2>1. /\ plan' = plan /\ version' = version /\ got' = got + 1
          /\ UNCHANGED <<mark, phase, intent>>
          /\ pc' = pc \/ pc' = "done"
          /\ ~(Framing(Read, Limit) = "whole")
      BY <1>3 DEF ReadByte, End, clientVars
    <2>2. CASE pc' = "handshake"
      <3>1. /\ pc = "handshake" /\ mark = 0 /\ phase = "None"
            /\ Unfinished(0, MaxHandshake) /\ Limit = MaxHandshake
        BY <1>1, <2>1, <2>2 DEF ReadInv, Limit
      <3>2. ~Whole(0, got + 1, MaxHandshake)
        BY <2>1, <3>1 DEF Read, Whole
      <3>3. Unfinished(0, MaxHandshake)'
        BY <1>1, <2>1, <3>1, <3>2 DEF Unfinished, Whole
      <3> QED BY <2>1, <2>2, <3>1, <3>3 DEF ReadInv
    <2>3. CASE pc' = "request"
      <3>1. pc = "request"
        BY <2>1, <2>3
      <3>2. Shaken(mark)'
        <4>1. Shaken(mark)
          BY <1>1, <3>1 DEF ReadInv
        <4> QED BY <1>1, <2>1, <4>1 DEF Shaken, Ends, Whole, HandshakeAt
      <3>3. ASSUME NEW limit, Limit = limit, Unfinished(mark, limit)
            PROVE  Unfinished(mark, limit)'
        <4>1. ~Whole(mark, got + 1, limit)
          BY <2>1, <3>3 DEF Read, Whole
        <4> QED BY <1>1, <2>1, <3>3, <4>1 DEF Unfinished, Whole
      <3>4. Limit = IF intent = "Status" THEN MaxStatus ELSE MaxLoginStart
        BY <3>1 DEF Limit
      <3>5. intent = "Status" => Unfinished(mark, MaxStatus)'
        BY <1>1, <3>1, <3>3, <3>4 DEF ReadInv
      <3>6. intent # "Status" => Unfinished(mark, MaxLoginStart)'
        BY <1>1, <3>1, <3>3, <3>4 DEF ReadInv
      <3>7. HandshakeAt(mark)' = HandshakeAt(mark)
        BY <2>1 DEF HandshakeAt
      <3>8. Welcome(HandshakeAt(mark)) => Welcome(HandshakeAt(mark))'
        BY <2>1, <3>7 DEF Welcome
      <3> QED BY <1>1, <2>1, <2>3, <3>1, <3>2, <3>5, <3>6, <3>7, <3>8
              DEF ReadInv
    <2> QED BY <1>1, <2>2, <2>3, ReadKeeps
  <1>4. CASE GotHandshake
    <2> DEFINE h == parse_handshake(Body(Read))
    <2>1. CASE pc' \notin {"handshake", "request"}
      BY <1>1, <2>1, ReadKeeps
    <2>2. ASSUME pc' \in {"handshake", "request"}
          PROVE  /\ pc' = "request" /\ h.ok /\ intent' = h.intent
                 /\ mark' = got + 1 /\ phase' \in WakePhases \cup {"Starting"}
                 /\ h.intent # "Status" =>
                       /\ h.intent # "Unknown"
                       /\ h.protocol_version = version.protocol
                       /\ h.intent = "Transfer" =>
                             version.layout = "RequiredUuidAndTransfer"
      <3>1. /\ h.ok /\ intent' = h.intent /\ mark' = got + 1 /\ phase' \in Phases
            /\ phase' \notin ProxyPhases /\ AnswerItself(h)
        BY <1>4, <2>2 DEF GotHandshake, End, StartConnecting, ProxyPhases
      <3>2. phase' \in WakePhases \cup {"Starting"}
        BY <3>1 DEF Phases, ProxyPhases, WakePhases
      <3> HIDE DEF h
      <3> QED BY <2>2, <3>1, <3>2
              DEF AnswerItself, End, Await, validate_login_intent
    <2>3. CASE pc' \in {"handshake", "request"}
      <3>1. \A b \in Nat : b = got + 1 =>
               Ends(0, b, MaxHandshake)' /\ h = HandshakeAt(b)'
        BY <1>4, HandshakeEnds
      <3>2. h.intent \in HandshakeIntent
        BY IntentType
      <3> HIDE DEF h
      <3>3. /\ pc' = "request" /\ h.ok /\ intent' = h.intent
            /\ mark' = got + 1 /\ phase' \in WakePhases \cup {"Starting"}
            /\ h.intent # "Status" =>
                  /\ h.intent # "Unknown"
                  /\ h.protocol_version = version.protocol
                  /\ h.intent = "Transfer" =>
                        version.layout = "RequiredUuidAndTransfer"
        BY <2>2, <2>3
      <3>4. got' = got + 1 /\ version' = version
        BY <1>4 DEF GotHandshake, clientVars
      <3>5. HandshakeAt(mark)' = h /\ Ends(0, mark, MaxHandshake)'
        BY <1>1, <3>1, <3>3 DEF HandshakeAt, Ends, Whole
      <3>6. Shaken(mark)'
        BY <3>3, <3>5 DEF Shaken
      <3>7. \A limit : Unfinished(mark, limit)'
        BY <1>1, <3>3, <3>4 DEF Unfinished
      <3>8. h.intent # "Status" => Welcome(HandshakeAt(mark))'
        BY <3>2, <3>3, <3>4, <3>5 DEF Welcome, HandshakeIntent
      <3> QED BY <3>3, <3>5, <3>6, <3>7, <3>8 DEF ReadInv
    <2> QED BY <2>1, <2>3
  <1>5. CASE GotStatusRequest \/ GotLoginStart
    BY <1>1, <1>5, ReadKeeps DEF GotStatusRequest, GotLoginStart, Await, End
  <1>6. CASE ReadFails \/ Writes
    BY <1>1, <1>6, ReadKeeps DEF ReadFails, Writes, Written, WriteFails,
       GotPing, NoPing, ShutDown, Await, End
  <1>7. CASE LeaseAcquired \/ Connected \/ AttemptFails \/ RetryOrGiveUp
    BY <1>1, <1>7, ReadKeeps DEF LeaseAcquired, StartConnecting, Connected,
       AttemptFails, RetryOrGiveUp, End
  <1>8. CASE Replay \/ ReplayFails \/ RelayUp \/ RelayDown \/ RelayEnds
    BY <1>1, <1>8, ReadKeeps DEF Replay, ReplayFails, RelayUp, RelayDown,
       RelayEnds, End
  <1>9. CASE Done \/ UNCHANGED vars
    BY <1>1, <1>9, ReadKeeps DEF Done, vars, clientVars, readVars
  <1> QED BY <1>2, <1>3, <1>4, <1>5, <1>6, <1>7, <1>8, <1>9
          DEF Next, Reads, Proxies

-----------------------------------------------------------------------------
(***************************************************************************)
(* The answers and the wake-up.                                            *)
(***************************************************************************)

LEMMA InitAnswers == Init => AnswerInv
  BY DEF Init, AnswerInv, Founded, ProxyPhases

\* The request that is whole with the next byte is the second packet.
LEMMA RequestEnds ==
    ASSUME IInv, [Next]_vars, pc = "request", got < sent, got' = got + 1,
           Framing(Read, Limit) = "whole"
    PROVE  /\ intent = "Status" /\ parse_status_request(Body(Read))
                 => SeenStatus'
           /\ intent # "Status"
                 /\ parse_login_start(Body(Read), version.layout) => SeenLogin'
  <1>1. /\ got \in Nat /\ mark \in Nat /\ mark <= got
        /\ plan' = plan /\ version' = version
    BY Places, Grows DEF IInv
  <1>2. PICK b \in Nat : b = mark
    BY <1>1
  <1>3. PICK c \in Nat : c = got + 1
    BY <1>1
  <1>4. /\ Shaken(b) /\ intent = HandshakeAt(b).intent
        /\ intent = "Status" => Unfinished(b, MaxStatus)
        /\ intent # "Status" =>
              Unfinished(b, MaxLoginStart) /\ Welcome(HandshakeAt(b))
    BY <1>2 DEF IInv, ReadInv
  <1>5. Shaken(b)' /\ HandshakeAt(b)' = HandshakeAt(b)
    BY <1>1, <1>4, StaysSeen DEF IInv, HandshakeAt
  <1>6. Read = SubSeq(plan, b + 1, c)
    BY <1>2, <1>3 DEF Read
  <1>7. ASSUME NEW limit, Limit = limit, Unfinished(b, limit)
        PROVE  Ends(b, c, limit)'
    <2>1. Whole(b, c, limit) /\ c \in (b + 1)..got'
      BY <1>1, <1>2, <1>3, <1>6, <1>7 DEF Whole
    <2>2. \A x \in (b + 1)..(c - 1) : ~Whole(b, x, limit)
      BY <1>1, <1>3, <1>7 DEF Unfinished
    <2> QED BY <1>1, <2>1, <2>2 DEF Ends, Whole
  <1>8. ASSUME intent = "Status", parse_status_request(Body(Read))
        PROVE  SeenStatus'
    <2>1. Ends(b, c, MaxStatus)'
      BY <1>4, <1>7, <1>8 DEF Limit
    <2>2. parse_status_request(Body(SubSeq(plan, b + 1, c)))'
      BY <1>1, <1>6, <1>8
    <2> QED BY <1>4, <1>5, <1>8, <2>1, <2>2 DEF SeenStatus
  <1>9. ASSUME intent # "Status",
               parse_login_start(Body(Read), version.layout)
        PROVE  SeenLogin'
    <2>1. Ends(b, c, MaxLoginStart)'
      BY <1>4, <1>7, <1>9 DEF Limit
    <2>2. parse_login_start(Body(SubSeq(plan, b + 1, c)), version.layout)'
      BY <1>1, <1>6, <1>9
    <2>3. Welcome(HandshakeAt(b))'
      BY <1>1, <1>4, <1>5, <1>9 DEF Welcome
    <2> QED BY <1>5, <2>1, <2>2, <2>3 DEF SeenLogin
  <1> QED BY <1>8, <1>9

\* Another release is seen.
LEMMA OtherSeen ==
    ASSUME IInv, GotHandshake, parse_handshake(Body(Read)).ok,
           parse_handshake(Body(Read)).intent \in {"Login", "Transfer"},
           parse_handshake(Body(Read)).protocol_version # version.protocol
    PROVE  SeenOther'
  <1>1. got \in Nat /\ version' = version
    BY Places DEF IInv, GotHandshake, clientVars
  <1>2. PICK b \in Nat : b = got + 1
    BY <1>1
  <1>3. /\ Ends(0, b, MaxHandshake)'
        /\ parse_handshake(Body(Read)) = HandshakeAt(b)'
    BY <1>2, HandshakeEnds
  <1> QED BY <1>1, <1>3 DEF SeenOther, Shaken

\* What an answer rests on lasts.
LEMMA FoundedStays ==
    ASSUME TypeOK, [Next]_vars, UNCHANGED <<phase, woke>>,
           NEW a, Founded(a)
    PROVE  Founded(a)'
  BY StaysSeen DEF Founded

\* A step that chooses no answer, writes none and wakes nobody.
LEMMA AnswerKeeps ==
    ASSUME IInv, [Next]_vars, UNCHANGED <<phase, answer, woke, heard>>,
           \/ pc' \in {pc, "done"}
           \/ /\ pc \in {"lease", "connect", "pause", "replay"}
              /\ pc' \in {"connect", "pause", "replay", "relay"}
    PROVE  AnswerInv'
  <1>1. AnswerInv /\ TypeOK
    BY DEF IInv
  <1>2. /\ woke # "no" => SeenLogin' /\ phase \in WakePhases
        /\ SeenStatus => SeenStatus'
    BY <1>1, StaysSeen DEF AnswerInv
  <1>3. Founded(answer)'
    <2>1. \A a : Founded(a) => Founded(a)'
      BY <1>1, FoundedStays
    <2> QED BY <1>1, <2>1 DEF AnswerInv, Founded
  <1> QED BY <1>1, <1>2, <1>3 DEF AnswerInv

\* What a client hears first and second.
LEMMA Hears ==
    ASSUME NEW x, NEW y
    PROVE  /\ Append(<<>>, x) = <<x>> /\ Append(<<x>>, y) = <<x, y>>
           /\ Len(<<x>>) = 1 /\ <<x>> # <<>> /\ Len(<<x, y>>) = 2
  <1> DEFINE S == {x, y}
  <1>1. /\ <<>> \in Seq(S) /\ <<x>> \in Seq(S)
        /\ <<x, y>> \in Seq(S)
    OBVIOUS
  <1>2. Append(<<>>, x) = <<x>>
    OBVIOUS
  <1> DEFINE t == Append(<<x>>, y)
  <1>3. /\ t \in Seq(S) /\ Len(t) = 2 /\ t[1] = x /\ t[2] = y
    BY <1>1, AppendProperties
  <1> HIDE DEF t
  <1>4. t = <<x, y>>
    BY <1>1, <1>3, SeqEqual
  <1>5. Len(<<x>>) = 1 /\ <<x>> # <<>> /\ Len(<<x, y>>) = 2
    OBVIOUS
  <1> QED BY <1>2, <1>4, <1>5 DEF t

LEMMA AnswerStep == IInv /\ [Next]_vars => AnswerInv'
  <1> SUFFICES ASSUME IInv, [Next]_vars PROVE AnswerInv'
    OBVIOUS
  <1>1. AnswerInv /\ TypeOK
    BY DEF IInv
  <1>2. CASE World \/ Tick
    BY <1>2, AnswerKeeps DEF World, ClientSends, ClientEnds, ChannelMoves,
       AtTheChannel, SupervisorEnds, CycleEnds, BackendMoves, Tick
  <1>3. CASE ReadByte \/ ReadFails \/ WriteFails \/ ShutDown
    BY <1>3, AnswerKeeps DEF ReadByte, ReadFails, WriteFails, ShutDown, End
  <1>4. CASE LeaseAcquired \/ Connected \/ AttemptFails \/ RetryOrGiveUp
    BY <1>4, AnswerKeeps DEF LeaseAcquired, StartConnecting, Connected,
       AttemptFails, RetryOrGiveUp, End
  <1>5. CASE Replay \/ ReplayFails \/ RelayUp \/ RelayEnds
    BY <1>5, AnswerKeeps DEF Replay, ReplayFails, RelayUp, RelayEnds, End
  <1>6. CASE Done \/ UNCHANGED vars
    BY <1>6, AnswerKeeps DEF Done, vars
  <1>7. CASE GotHandshake
    <2> DEFINE h == parse_handshake(Body(Read))
    <2>1. /\ answer = "none" /\ woke = "no" /\ heard = <<>>
          /\ heard' = heard /\ woke' = "no"
      BY <1>1, <1>7 DEF GotHandshake, CanRead, AnswerInv
    <2>2. \/ /\ answer' = answer
             /\ pc' \in {"done", "lease", "connect", "request"}
          \/ /\ answer' = "incompatible" /\ pc' = "answer"
             /\ phase' \notin ProxyPhases
             /\ h.ok /\ h.intent \in {"Login", "Transfer"}
             /\ h.protocol_version # version.protocol
      <3>1. h.intent \in HandshakeIntent
        BY IntentType
      <3> HIDE DEF h
      <3> QED BY <1>7, <3>1 DEF HandshakeIntent, GotHandshake, AnswerItself,
              StartConnecting, Await, End, ProxyPhases, h
    <2>3. answer' = "incompatible" => SeenOther'
      BY <1>7, <2>1, <2>2, OtherSeen
    <2> QED BY <2>1, <2>2, <2>3 DEF AnswerInv, Founded
  <1>8. CASE GotStatusRequest
    <2>1. /\ answer = "none" /\ woke = "no" /\ heard = <<>>
          /\ UNCHANGED <<phase, woke, heard>>
          /\ phase \notin ProxyPhases
      BY <1>1, <1>8 DEF IInv, GotStatusRequest, CanRead, AnswerInv, ReadInv,
         WakePhases, ProxyPhases
    <2>2. \/ answer' = answer /\ pc' = "done"
          \/ /\ answer' = "status" /\ pc' = "answer"
             /\ parse_status_request(Body(Read))
      BY <1>8 DEF GotStatusRequest, Await, End
    <2>3. answer' = "status" => SeenStatus'
      BY <1>8, <2>1, <2>2, RequestEnds DEF GotStatusRequest, CanRead
    <2> QED BY <2>1, <2>2, <2>3 DEF AnswerInv, Founded
  <1>9. CASE GotLoginStart
    <2>1. /\ answer = "none" /\ woke = "no" /\ heard = <<>>
          /\ UNCHANGED <<phase, heard>>
          /\ phase \in WakePhases \cup {"Starting"} /\ phase \notin ProxyPhases
      BY <1>1, <1>9 DEF IInv, GotLoginStart, CanRead, AnswerInv, ReadInv,
         WakePhases, ProxyPhases
    <2>2. CASE ~parse_login_start(Body(Read), version.layout)
      BY <1>9, <2>1, <2>2 DEF GotLoginStart, End, AnswerInv, Founded
    <2>3. CASE parse_login_start(Body(Read), version.layout)
      <3>1. SeenLogin'
        BY <1>9, <2>3, RequestEnds DEF GotLoginStart, CanRead
      <3>2. woke' # "no" <=> (phase \in WakePhases /\ channel # "closed")
        BY <1>9, <2>3 DEF GotLoginStart, RequestWake
      <3>3. \/ /\ phase \in WakePhases /\ channel = "closed"
               /\ pc' = "done" /\ answer' = answer
            \/ /\ ~(phase \in WakePhases /\ channel = "closed")
               /\ pc' = "answer" /\ answer' = Farewell
        BY <1>9, <2>3 DEF GotLoginStart, Await, End
      <3>4. /\ Farewell \in {"login", "conflict"}
            /\ Farewell = "conflict" <=> phase = "Conflict"
        BY DEF Farewell
      <3> QED BY <2>1, <3>1, <3>2, <3>3, <3>4 DEF AnswerInv, Founded
    <2> QED BY <2>2, <2>3
  <1>10. CASE Written
    <2>1. UNCHANGED <<phase, answer, woke>> /\ heard' = Append(heard, answer)
          /\ pc' = (IF answer = "status" THEN "ping" ELSE "shut")
      BY <1>10 DEF Written, Await
    <2>2. /\ woke # "no" => SeenLogin' /\ phase \in WakePhases
          /\ SeenStatus => SeenStatus'
      BY <1>1, StaysSeen DEF AnswerInv
    <2>3. Founded(answer)'
      <3>1. \A a : Founded(a) => Founded(a)'
        BY <1>1, <2>1, FoundedStays
      <3> QED BY <1>1, <2>1, <3>1 DEF AnswerInv, Founded
    <2>4. CASE pc = "answer"
      <3>1. heard = <<>> /\ answer \notin {"none", "pong"}
        BY <1>1, <2>4 DEF AnswerInv
      <3>2. heard' = <<answer>>
        BY <2>1, <3>1
      <3> QED BY <1>1, <2>1, <2>2, <2>3, <3>1, <3>2 DEF AnswerInv
    <2>5. CASE pc = "pong"
      <3>1. heard = <<"status">> /\ answer = "pong" /\ SeenStatus
        BY <1>1, <2>5 DEF AnswerInv
      <3>2. Append(<<"status">>, "pong") = <<"status", "pong">>
        BY Hears
      <3>3. heard' = <<"status", "pong">>
        BY <2>1, <3>1, <3>2
      <3> QED BY <1>1, <2>1, <2>2, <2>3, <3>1, <3>3 DEF AnswerInv
    <2> QED BY <1>10, <2>4, <2>5 DEF Written
  <1>11. CASE GotPing \/ NoPing
    <2>1. /\ answer = "status" /\ heard = <<"status">> /\ SeenStatus
          /\ UNCHANGED <<phase, woke, heard>>
      BY <1>1, <1>11 DEF GotPing, NoPing, CanRead, AnswerInv, Founded
    <2>2. \/ answer' = answer /\ pc' \in {"done", "shut"}
          \/ answer' = "pong" /\ pc' = "pong"
      BY <1>11 DEF GotPing, NoPing, Await, End
    <2>3. /\ woke # "no" => SeenLogin' /\ phase \in WakePhases
          /\ SeenStatus'
      BY <1>1, <2>1, StaysSeen DEF AnswerInv
    <2>4. phase \notin ProxyPhases
      BY <1>1, <2>1 DEF AnswerInv
    <2> QED BY <2>1, <2>2, <2>3, <2>4 DEF AnswerInv, Founded
  <1>12. CASE RelayDown
    <2>1. /\ pc = "relay" /\ pc' = pc /\ heard = <<>> /\ heard' = <<"backend">>
          /\ UNCHANGED <<phase, answer, woke>> /\ phase \in ProxyPhases
      BY <1>12 DEF RelayDown, IInv, BytesInv
    <2>2. answer = "none" /\ (woke # "no" => SeenLogin' /\ phase \in WakePhases)
      BY <1>1, <2>1, StaysSeen DEF AnswerInv
    <2> QED BY <2>1, <2>2 DEF AnswerInv, Founded
  <1> QED BY <1>2, <1>3, <1>4, <1>5, <1>6, <1>7, <1>8, <1>9, <1>10, <1>11,
             <1>12 DEF Next, Reads, Writes, Proxies

\* No connection begins closed.
LEMMA InitClosed == Init => ClosedInv
  BY DEF Init, ClosedInv

\* Only a login that meets a closed channel ends so, and nothing follows.
LEMMA ClosedStep == IInv /\ [Next]_vars => ClosedInv'
  <1> SUFFICES ASSUME IInv, [Next]_vars PROVE ClosedInv'
    OBVIOUS
  <1>1. CASE ended = "closed"
    <2>1. channel = "closed" /\ heard = <<>> /\ pc = "done"
      BY <1>1 DEF IInv, ClosedInv
    <2>2. ~(Reads \/ Writes \/ Proxies)
      BY <2>1 DEF Reads, ReadByte, ReadFails, GotHandshake, GotStatusRequest,
         GotLoginStart, CanRead, Writes, Written, WriteFails, GotPing, NoPing,
         ShutDown, Proxies, LeaseAcquired, Connected, AttemptFails,
         RetryOrGiveUp, Replay, ReplayFails, RelayUp, RelayDown, RelayEnds
    <2>3. UNCHANGED <<channel, heard, pc>>
      BY <2>1, <2>2 DEF Next, World, ClientSends, ClientEnds, ChannelMoves,
         AtTheChannel, SupervisorEnds, CycleEnds, BackendMoves, Tick, Done,
         vars, envVars, OwnPcs, ConnectPcs
    <2> QED BY <2>1, <2>3 DEF ClosedInv
  <1>2. CASE ended # "closed" /\ ~GotLoginStart
    <2>1. ended' # "closed"
      <3>1. CASE World \/ Tick \/ Done \/ UNCHANGED vars
        BY <1>2, <3>1 DEF World, ClientSends, ClientEnds, ChannelMoves,
           SupervisorEnds, CycleEnds, BackendMoves, Tick, Done, vars
      <3>2. CASE Reads
        BY <1>2, <3>2 DEF Reads, ReadByte, ReadFails, GotHandshake,
           GotStatusRequest, End, Await, AnswerItself, StartConnecting
      <3>3. CASE Writes
        BY <1>2, <3>3 DEF Writes, Written, WriteFails, GotPing, NoPing,
           ShutDown, End, Await
      <3>4. CASE Proxies
        BY <1>2, <3>4 DEF Proxies, LeaseAcquired, Connected, AttemptFails,
           RetryOrGiveUp, Replay, ReplayFails, RelayUp, RelayDown, RelayEnds,
           End, StartConnecting
      <3> QED BY <3>1, <3>2, <3>3, <3>4 DEF Next
    <2> QED BY <2>1 DEF ClosedInv
  <1>3. CASE ended # "closed" /\ GotLoginStart
    <2>1. pc = "request" /\ heard = <<>> /\ heard' = heard
      BY <1>3 DEF GotLoginStart, CanRead, IInv, AnswerInv
    <2>2. ended' = "closed" => channel' = "closed" /\ pc' = "done"
      BY <1>3 DEF GotLoginStart, RequestWake, Await, End
    <2> QED BY <2>1, <2>2 DEF ClosedInv
  <1> QED BY <1>1, <1>2, <1>3

-----------------------------------------------------------------------------
(***************************************************************************)
(* The backend's bytes.                                                    *)
(***************************************************************************)

LEMMA InitBytes == Init => BytesInv
  <1> SUFFICES ASSUME Init PROVE BytesInv
    OBVIOUS
  <1>1. TypeOK /\ backend = <<>> /\ Len(backend) = 0 /\ sent = 0
    BY InitTypes DEF Init
  <1>2. 0 \in 0..sent
    BY <1>1
  <1>3. /\ SubSeq(plan, 1, 0) \in Seq(Byte) /\ Len(SubSeq(plan, 1, 0)) = 0
    BY <1>1, <1>2, Part
  <1>4. SubSeq(plan, 1, 0) = <<>>
    BY <1>3, EmptySeq
  <1> QED BY <1>1, <1>4 DEF Init, BytesInv, Verbatim, OwnPcs, ProxyPhases

\* A first part of what was sent is verbatim.
LEMMA PartIsVerbatim ==
    ASSUME TypeOK, [Next]_vars, phase' \in ProxyPhases,
           NEW n \in 0..sent, backend' = SubSeq(plan, 1, n)
    PROVE  Verbatim' /\ Len(backend') = n
  <1>1. Len(backend') = n
    BY Part
  <1>2. plan' = plan /\ sent' \in sent..Len(plan) /\ sent \in Nat
    BY Grows, Places
  <1> QED BY <1>1, <1>2 DEF Verbatim

\* A step that gives the backend nothing.
LEMMA BytesKeep ==
    ASSUME IInv, [Next]_vars, UNCHANGED <<phase, backend>>,
           \/ UNCHANGED <<pc, got, mark>>
           \/ pc' = pc /\ pc \in {"handshake", "request", "ping"}
           \/ pc' = "done"
           \/ pc \in OwnPcs /\ pc' \in OwnPcs
           \/ /\ pc \in {"lease", "connect", "pause"} /\ UNCHANGED <<got, mark>>
              /\ pc' \in {"connect", "pause", "replay"}
    PROVE  BytesInv'
  <1>1. BytesInv /\ plan' = plan /\ sent' \in sent..Len(plan) /\ sent \in Nat
        /\ Len(backend) \in Nat
    BY Grows, Places, LenProperties DEF IInv, TypeOK
  <1>2. Verbatim'
    BY <1>1 DEF BytesInv, Verbatim
  <1> QED BY <1>1, <1>2 DEF BytesInv, OwnPcs

LEMMA BytesStep == IInv /\ [Next]_vars => BytesInv'
  <1> SUFFICES ASSUME IInv, [Next]_vars PROVE BytesInv'
    OBVIOUS
  <1>1. BytesInv /\ TypeOK /\ got \in Nat /\ sent \in Nat /\ mark \in Nat
        /\ got <= sent
    BY Places DEF IInv
  <1>2. CASE World \/ Tick
    BY <1>2, BytesKeep DEF World, ClientSends, ClientEnds, ChannelMoves,
       AtTheChannel, SupervisorEnds, CycleEnds, BackendMoves, Tick, readVars
  <1>3. CASE ReadByte \/ ReadFails
    BY <1>3, BytesKeep DEF ReadByte, ReadFails, CanRead, End
  <1>4. CASE GotHandshake
    <2>1. backend = <<>> /\ backend' = backend /\ Verbatim
      BY <1>1, <1>4 DEF GotHandshake, CanRead, BytesInv, OwnPcs
    <2>2. Verbatim'
      <3>1. plan' = plan /\ sent' = sent
        BY <1>4 DEF GotHandshake, clientVars
      <3> QED BY <2>1, <3>1 DEF Verbatim
    <2>3. \/ pc' = "done"
          \/ /\ pc' \in {"lease", "connect"} /\ phase' \in ProxyPhases
             /\ mark' = got'
          \/ pc' \in {"request", "answer"} /\ phase' \notin ProxyPhases
      BY <1>4 DEF GotHandshake, AnswerItself, StartConnecting, Await, End,
         ProxyPhases
    <2> QED BY <2>1, <2>2, <2>3 DEF BytesInv, OwnPcs
  <1>5. CASE GotStatusRequest \/ GotLoginStart \/ GotPing
    BY <1>5, BytesKeep DEF GotStatusRequest, GotLoginStart, GotPing, CanRead,
       Await, End, OwnPcs
  <1>6. CASE Written \/ WriteFails \/ NoPing \/ ShutDown
    BY <1>6, BytesKeep DEF Written, WriteFails, NoPing, ShutDown, Await, End,
       OwnPcs
  <1>7. CASE LeaseAcquired \/ Connected \/ AttemptFails \/ RetryOrGiveUp
    BY <1>7, BytesKeep DEF LeaseAcquired, StartConnecting, Connected,
       AttemptFails, RetryOrGiveUp, End, readVars
  <1>8. CASE Replay
    <2>1. /\ mark = got /\ backend' = SubSeq(plan, 1, got)
          /\ phase' = phase /\ phase \in ProxyPhases /\ got' = got
          /\ pc' \in {"relay", "done"}
      BY <1>1, <1>8 DEF Replay, framed_handshake, BytesInv, End, readVars
    <2>2. Verbatim' /\ Len(backend') = got
      BY <1>1, <2>1, PartIsVerbatim
    <2> QED BY <2>1, <2>2 DEF BytesInv, OwnPcs
  <1>9. CASE ReplayFails
    <2>1. mark = got /\ phase' = phase /\ phase \in ProxyPhases /\ pc' = "done"
      BY <1>1, <1>9 DEF ReplayFails, BytesInv, End
    <2>2. Len(SubSeq(plan, 1, got)) = got
      BY <1>1, Part
    <2>3. PICK n \in 0..(got - 1) :
             backend' = SubSeq(SubSeq(plan, 1, got), 1, n)
      BY <1>9, <2>1, <2>2 DEF ReplayFails, framed_handshake
    <2>4. backend' = SubSeq(plan, 1, n) /\ n \in 0..sent
      BY <1>1, <2>3, PartOfPart
    <2>5. Verbatim'
      BY <1>1, <2>1, <2>4, PartIsVerbatim
    <2> QED BY <2>1, <2>5 DEF BytesInv, OwnPcs
  <1>10. CASE RelayUp
    <2>1. /\ got < sent /\ got' = got + 1 /\ pc' = "relay"
          /\ phase' = phase /\ phase \in ProxyPhases
          /\ backend' = Append(backend, plan[got + 1])
          /\ Len(backend) = got /\ backend = SubSeq(plan, 1, Len(backend))
      BY <1>1, <1>10 DEF RelayUp, BytesInv, Verbatim
    <2>2. backend' = SubSeq(plan, 1, got + 1)
      BY <1>1, <2>1, NextByte
    <2>3. Verbatim' /\ Len(backend') = got + 1
      BY <1>1, <2>1, <2>2, PartIsVerbatim
    <2> QED BY <2>1, <2>3 DEF BytesInv, OwnPcs
  <1>11. CASE RelayDown \/ RelayEnds
    BY <1>11, BytesKeep DEF RelayDown, RelayEnds, End, readVars
  <1>12. CASE Done \/ UNCHANGED vars
    BY <1>12, BytesKeep DEF Done, vars, readVars
  <1> QED BY <1>2, <1>3, <1>4, <1>5, <1>6, <1>7, <1>8, <1>9, <1>10, <1>11,
             <1>12 DEF Next, Reads, Writes, Proxies

-----------------------------------------------------------------------------
(***************************************************************************)
(* The time.                                                               *)
(***************************************************************************)

LEMMA InitTime == Init => TimeInv
  <1> SUFFICES ASSUME Init PROVE TimeInv
    OBVIOUS
  <1>1. heard = <<>> /\ answer = "none" /\ age = 0
    BY DEF Init
  <1>2. Timeouts = 1
    BY <1>1 DEF Timeouts
  <1>3. AnsweredInTime
    BY <1>1, <1>2, Times DEF AnsweredInTime
  <1> QED BY <1>3, Times DEF Init, TimeInv, Counted, InTime, TriedInTime,
          ConnectPcs

\* The time an answered connection has used is within its timeouts.
LEMMA Within ==
    TypeOK /\ AnswerInv /\ Counted /\ pc \in OwnPcs
        => age <= Timeouts * HandshakeTimeout
  <1> SUFFICES ASSUME TypeOK, AnswerInv, Counted, pc \in OwnPcs
               PROVE  age <= Timeouts * HandshakeTimeout
    OBVIOUS
  <1>1. age \in Nat /\ left \in Nat
    BY Times DEF TypeOK
  <1>2. CASE pc \in {"handshake", "request"}
    <2>1. heard = <<>> /\ answer = "none"
      BY <1>2 DEF AnswerInv
    <2>2. Timeouts = 1 /\ age <= HandshakeTimeout
      BY <1>1, <1>2, <2>1, Times DEF Timeouts, Counted
    <2> QED BY <1>1, <2>2, Times
  <1>3. CASE pc = "answer"
    <2>1. heard = <<>> /\ answer \notin {"none", "pong"} /\ Len(heard) = 0
      BY <1>3 DEF AnswerInv
    <2>2. Timeouts = 2 /\ age <= 2 * HandshakeTimeout
      BY <1>1, <1>3, <2>1, Times DEF Timeouts, Counted
    <2> QED BY <1>1, <2>2, Times
  <1>4. CASE pc \in {"ping", "pong"}
    <2>1. heard = <<"status">> /\ answer \in {"status", "pong"}
      BY <1>4 DEF AnswerInv
    <2>2. Len(heard) = 1 /\ heard # <<>>
      BY <2>1, Hears
    <2>3. Timeouts = 4
      <3> QED BY <2>1, <2>2 DEF Timeouts
    <2>4. age <= 4 * HandshakeTimeout
      BY <1>1, <1>4, Times DEF Counted
    <2> QED BY <1>1, <2>3, <2>4, Times
  <1>5. CASE pc = "shut" /\ answer = "pong"
    <2>1. heard = <<"status", "pong">>
      BY <1>5 DEF AnswerInv
    <2>2. Len(heard) = 2 /\ heard # <<>>
      <3>1. Len(<<"status", "pong">>) = 2
        BY Hears
      <3> QED BY <2>1, <3>1
    <2>3. Timeouts = 5
      BY <1>5, <2>2 DEF Timeouts
    <2>4. age <= 5 * HandshakeTimeout
      BY <1>1, <1>5, Times DEF Counted
    <2> QED BY <1>1, <2>3, <2>4, Times
  <1>6. CASE pc = "shut" /\ answer # "pong"
    <2>1. heard = <<answer>>
      BY <1>6 DEF AnswerInv
    <2>2. Len(heard) = 1 /\ heard # <<>>
      BY <2>1, Hears
    <2>3. Timeouts = IF answer = "status" THEN 4 ELSE 3
      BY <1>6, <2>2 DEF Timeouts
    <2>4. \/ answer = "status" /\ age <= 4 * HandshakeTimeout
          \/ answer # "status" /\ age <= 3 * HandshakeTimeout
      BY <1>1, <1>6, Times DEF Counted
    <2> QED BY <1>1, <2>3, <2>4, Times
  <1> QED BY <1>2, <1>3, <1>4, <1>5, <1>6 DEF OwnPcs

LEMMA CountedStep == IInv /\ [Next]_vars => Counted'
  <1> SUFFICES ASSUME IInv, [Next]_vars PROVE Counted'
    OBVIOUS
  <1>1. /\ Counted /\ AnswerInv /\ age \in Nat /\ left \in Nat /\ attempt \in Nat
    BY Times DEF IInv, TypeOK, TimeInv
  <1>2. CASE UNCHANGED <<pc, left, attempt, answer, age>> \/ pc' = "done"
               \/ pc' \in {"lease", "replay", "relay"}
    BY <1>1, <1>2 DEF Counted, ConnectPcs
  <1>3. CASE World
    BY <1>2, <1>3 DEF World, ClientSends, ClientEnds, ChannelMoves,
       AtTheChannel, SupervisorEnds, CycleEnds, BackendMoves
  <1>4. CASE Tick
    <2>1. /\ left' = left - 1 /\ age' = age + 1 /\ UNCHANGED <<pc, answer>>
          /\ pc \in ConnectPcs => attempt > 0 /\ attempt' = attempt - 1
          /\ pc \notin ConnectPcs => left > 0
      BY <1>4 DEF Tick, OwnPcs, ConnectPcs
    <2>2. age' + left' = age + left
      BY <1>1, <2>1
    <2>3. pc \in ConnectPcs => attempt' <= left'
      BY <1>1, <2>1 DEF Counted
    <2> QED BY <1>1, <2>1, <2>2, <2>3 DEF Counted
  <1>5. CASE ReadByte \/ ReadFails
    BY <1>2, <1>5 DEF ReadByte, ReadFails, End
  <1>6. CASE GotHandshake
    <2>1. \/ pc' \in {"done", "lease"}
          \/ pc' = "request" /\ UNCHANGED <<left, age>>
          \/ pc' = "answer" /\ left' = HandshakeTimeout /\ age' = age
          \/ pc' = "connect" /\ StartConnecting
      BY <1>6 DEF GotHandshake, AnswerItself, StartConnecting, Await, End
    <2>2. age + left = HandshakeTimeout
      BY <1>1, <1>6 DEF GotHandshake, CanRead, Counted
    <2>3. Least(ProxyConnectTimeout, Attempt) <= ProxyConnectTimeout
      BY Times DEF Least
    <2> QED BY <1>1, <2>1, <2>2, <2>3, Times DEF Counted, StartConnecting,
            ConnectPcs
  <1>7. CASE GotStatusRequest \/ GotLoginStart
    <2>1. \/ pc' = "done"
          \/ pc' = "answer" /\ left' = HandshakeTimeout /\ age' = age
      BY <1>7 DEF GotStatusRequest, GotLoginStart, Await, End
    <2>2. age + left = HandshakeTimeout
      BY <1>1, <1>7 DEF GotStatusRequest, GotLoginStart, CanRead, Counted
    <2> QED BY <1>1, <2>1, <2>2, Times DEF Counted, ConnectPcs
  <1>8. CASE Written
    <2>1. /\ pc' = (IF answer = "status" THEN "ping" ELSE "shut")
          /\ left' = HandshakeTimeout /\ UNCHANGED <<age, answer>>
      BY <1>8 DEF Written, Await
    <2>2. \/ answer # "pong" /\ age <= 2 * HandshakeTimeout
          \/ answer = "pong" /\ age <= 4 * HandshakeTimeout
      BY <1>1, <1>8, Times DEF Written, Counted, AnswerInv
    <2> QED BY <1>1, <2>1, <2>2, Times DEF Counted, ConnectPcs
  <1>9. CASE GotPing \/ NoPing
    <2>1. /\ age' = age /\ answer = "status" /\ age <= 3 * HandshakeTimeout
      BY <1>1, <1>9, Times DEF GotPing, NoPing, CanRead, Counted, AnswerInv
    <2>2. \/ pc' = "done"
          \/ pc' = "pong" /\ left' = HandshakeTimeout
          \/ pc' = "shut" /\ left' = HandshakeTimeout /\ answer' = answer
      BY <1>9 DEF GotPing, NoPing, Await, End
    <2> QED BY <1>1, <2>1, <2>2, Times DEF Counted, ConnectPcs
  <1>10. CASE WriteFails \/ ShutDown
    BY <1>2, <1>10 DEF WriteFails, ShutDown, End
  <1>11. CASE LeaseAcquired
    <2>1. pc' = "done" \/ StartConnecting
      BY <1>11 DEF LeaseAcquired, End
    <2>2. Least(ProxyConnectTimeout, Attempt) <= ProxyConnectTimeout
      BY Times DEF Least
    <2> QED BY <2>1, <2>2, Times DEF Counted, StartConnecting, ConnectPcs
  <1>12. CASE AttemptFails \/ RetryOrGiveUp
    <2>1. /\ UNCHANGED <<left, age>> /\ age + left = ProxyConnectTimeout
          /\ \/ pc' = "pause" /\ attempt' = Least(Pause, left)
             \/ pc' = "connect" /\ attempt' = Least(left, Attempt)
             \/ pc' = "done"
      BY <1>1, <1>12 DEF AttemptFails, RetryOrGiveUp, End, Counted, ConnectPcs
    <2>2. Least(Pause, left) <= left /\ Least(left, Attempt) <= left
      BY <1>1, Times DEF Least
    <2>3. \/ pc' = "done"
          \/ /\ pc' \in ConnectPcs /\ pc' \notin OwnPcs
             /\ age' + left' = ProxyConnectTimeout /\ attempt' <= left'
      BY <2>1, <2>2 DEF ConnectPcs, OwnPcs
    <2> QED BY <2>3 DEF Counted, OwnPcs, ConnectPcs
  <1>13. CASE Connected \/ Replay \/ ReplayFails \/ RelayUp \/ RelayDown
                \/ RelayEnds
    BY <1>2, <1>13 DEF Connected, Replay, ReplayFails, RelayUp, RelayDown,
       RelayEnds, End
  <1>14. CASE Done \/ UNCHANGED vars
    BY <1>2, <1>14 DEF Done, vars
  <1> QED BY <1>3, <1>4, <1>5, <1>6, <1>7, <1>8, <1>9, <1>10, <1>11, <1>12,
             <1>13, <1>14 DEF Next, Reads, Writes, Proxies

\* The end of a connection is counted against what it was told.
LEMMA EndsInTime ==
    ASSUME IInv, [Next]_vars, pc' = "done"
    PROVE  /\ AnsweredInTime'
           /\ ended' = "unreachable" => age' = ProxyConnectTimeout
  <1>1. /\ InTime /\ Counted /\ BytesInv /\ (pc # "done" => ended = "no")
        /\ age \in Nat /\ left \in Nat
    BY Times DEF IInv, TypeOK, TimeInv
  <1>2. /\ age' = age /\ heard' = heard /\ answer' = answer
        /\ phase' = phase \/ pc = "handshake"
        /\ pc = "done" => ended' = ended
    BY DEF Next, vars, World, ClientSends, ClientEnds, ChannelMoves,
       AtTheChannel, SupervisorEnds, CycleEnds, BackendMoves, Tick, Reads,
       ReadByte, ReadFails, GotHandshake,
       GotStatusRequest, GotLoginStart, CanRead, Writes, Written, WriteFails,
       GotPing, NoPing, ShutDown, Proxies, LeaseAcquired, Connected,
       AttemptFails, RetryOrGiveUp, Replay, ReplayFails, RelayUp, RelayDown,
       RelayEnds, Done, End, Await, AnswerItself, StartConnecting, OwnPcs,
       ConnectPcs
  <1>3. phase' \notin ProxyPhases =>
            pc \in OwnPcs \cup {"done"} /\ phase \notin ProxyPhases
    BY <1>1, <1>2 DEF IInv, TypeOK, BytesInv, OwnPcs, ConnectPcs
  <1>4. AnsweredInTime'
    BY <1>1, <1>2, <1>3 DEF InTime, AnsweredInTime, Timeouts
  <1>5. ended' = "unreachable" => \/ pc = "done"
                                  \/ pc = "pause" /\ left = 0
    BY <1>1 DEF Next, vars, World, ClientSends, ClientEnds, ChannelMoves,
       AtTheChannel, SupervisorEnds, CycleEnds, BackendMoves, Tick, Reads,
       ReadByte, ReadFails, GotHandshake,
       GotStatusRequest, GotLoginStart, CanRead, Writes, Written, WriteFails,
       GotPing, NoPing, ShutDown, Proxies, LeaseAcquired, Connected,
       AttemptFails, RetryOrGiveUp, Replay, ReplayFails, RelayUp, RelayDown,
       RelayEnds, Done, End, Await, AnswerItself, StartConnecting
  <1>6. pc = "pause" /\ left = 0 => age = ProxyConnectTimeout
    BY <1>1, Times DEF Counted, ConnectPcs
  <1> QED BY <1>1, <1>2, <1>4, <1>5, <1>6 DEF InTime, TriedInTime

LEMMA NotEnded ==
    ASSUME IInv, [Next]_vars, pc' # "done"
    PROVE  ended' = "no"
  <1>1. pc # "done" => ended = "no"
    BY DEF IInv, TimeInv
  <1>2. CASE World \/ Tick \/ Done \/ UNCHANGED vars
    BY <1>1, <1>2 DEF World, ClientSends, ClientEnds, ChannelMoves,
       AtTheChannel, SupervisorEnds, CycleEnds, BackendMoves, Tick, Done, vars,
       OwnPcs, ConnectPcs
  <1>3. CASE Reads
    BY <1>1, <1>3 DEF Reads, ReadByte, ReadFails, GotHandshake,
       GotStatusRequest, GotLoginStart, CanRead, End, Await, AnswerItself,
       StartConnecting
  <1>4. CASE Writes
    BY <1>1, <1>4 DEF Writes, Written, WriteFails, GotPing, NoPing, ShutDown,
       CanRead, End, Await
  <1>5. CASE Proxies
    BY <1>1, <1>5 DEF Proxies, LeaseAcquired, Connected, AttemptFails,
       RetryOrGiveUp, Replay, ReplayFails, RelayUp, RelayDown, RelayEnds, End,
       StartConnecting
  <1> QED BY <1>2, <1>3, <1>4, <1>5 DEF Next

LEMMA TimeStep == IInv /\ [Next]_vars => TimeInv'
  <1>0. (TypeOK /\ AnswerInv /\ Counted /\ pc \in OwnPcs
            => age <= Timeouts * HandshakeTimeout)'
    BY Within, PTL
  <1> SUFFICES ASSUME IInv, [Next]_vars PROVE TimeInv'
    OBVIOUS
  <1>1. TypeOK' /\ AnswerInv' /\ BytesInv' /\ Counted'
    BY TypeStep, AnswerStep, BytesStep, CountedStep
  <1>2. age' \in Nat /\ left' \in Nat
    BY <1>1, Times DEF TypeOK
  <1>3. CASE pc' = "done"
    BY <1>1, <1>3, EndsInTime DEF TimeInv, InTime, TriedInTime, ConnectPcs
  <1>4. CASE pc' # "done"
    <2>1. ended' = "no"
      BY <1>4, NotEnded
    <2>2. TriedInTime'
      <3>1. ASSUME pc' \in ConnectPcs
            PROVE  age' <= ProxyConnectTimeout
        <4>1. age' + left' = ProxyConnectTimeout
          BY <1>1, <3>1 DEF Counted
        <4>2. \A a, b \in Nat : a + b = ProxyConnectTimeout => a <= ProxyConnectTimeout
          BY Times
        <4> QED BY <1>2, <4>1, <4>2
      <3> QED BY <2>1, <3>1 DEF TriedInTime, ConnectPcs
    <2>3. pc' \in OwnPcs => (age <= Timeouts * HandshakeTimeout)'
      BY <1>0, <1>1
    <2>4. AnsweredInTime'
      BY <1>4, <2>3 DEF AnsweredInTime
    <2> QED BY <1>1, <2>1, <2>2, <2>4 DEF TimeInv, InTime
  <1> QED BY <1>3, <1>4

-----------------------------------------------------------------------------
(***************************************************************************)
(* The theorems.                                                           *)
(***************************************************************************)

THEOREM ConnectionInvariance == Spec => []IInv
  <1>1. Init => IInv
    BY InitTypes, InitReading, InitAnswers, InitClosed, InitBytes, InitTime
       DEF IInv
  <1>2. IInv /\ [Next]_vars => IInv'
    BY TypeStep, ReadStep, AnswerStep, ClosedStep, BytesStep, TimeStep DEF IInv
  <1> QED BY <1>1, <1>2, PTL DEF Spec

\* Whatever bytes come, in whatever pieces, and whenever the stream breaks off,
\* the connection's state stays within its types and its places within the
\* stream.
THEOREM TypeCorrect == Spec => []TypeOK
  BY ConnectionInvariance, PTL DEF IInv

\* Only a complete and valid login of the configured release, in a phase that
\* waits for one, wakes the server: WakeEarned, for every stream and however
\* the parsers judge it.
THEOREM WakeIsEarned == Spec => []WakeEarned
  <1>1. IInv => WakeEarned
    BY Places, SeenIsAsked DEF IInv, AnswerInv, WakeEarned
  <1> QED BY <1>1, ConnectionInvariance, PTL

\* A client hears what it asked for and what the lifecycle showed, once:
\* RightAnswer, by the form the history of answers has in AnswerInv.
THEOREM AnswerIsRight == Spec => []RightAnswer
  <1>1. IInv => RightAnswer
    <2> SUFFICES ASSUME IInv PROVE RightAnswer
      OBVIOUS
    <2>1. /\ AnswerInv /\ answer \in Answers \cup {"none"}
          /\ SeenLogin => AskedLogin
          /\ SeenStatus => AskedStatus
          /\ SeenOther => AskedElsewhere
      BY Places, SeenIsAsked DEF IInv, TypeOK
    <2>2. CASE heard = <<>>
      BY <2>2 DEF RightAnswer
    <2>3. CASE heard = <<answer>> /\ answer \notin {"none", "pong"}
      <3>1. Len(heard) = 1 /\ heard[1] = answer
        BY <2>3
      <3>2. \A i \in 1..Len(heard) : i = 1 /\ heard[i] = answer
        BY <3>1
      <3>3. answer \in {"status", "login", "conflict", "incompatible"}
        BY <2>1, <2>3 DEF Answers
      <3>4. phase \notin ProxyPhases
        BY <2>1, <2>3 DEF AnswerInv
      <3>5. Founded(answer)
        BY <2>1 DEF AnswerInv
      <3> QED BY <2>1, <3>1, <3>2, <3>3, <3>4, <3>5 DEF RightAnswer, Founded
    <2>4. CASE heard = <<"status">> /\ answer = "pong" /\ SeenStatus
      <3>1. Len(heard) = 1 /\ heard[1] = "status"
        BY <2>4
      <3>2. \A i \in 1..Len(heard) : i = 1 /\ heard[i] = "status"
        BY <3>1
      <3>3. AskedStatus /\ phase \notin ProxyPhases
        BY <2>1, <2>4 DEF AnswerInv
      <3> QED BY <3>1, <3>2, <3>3 DEF RightAnswer
    <2>5. CASE heard = <<"status", "pong">> /\ answer = "pong" /\ SeenStatus
      <3>1. Len(heard) = 2 /\ heard[1] = "status" /\ heard[2] = "pong"
        BY <2>5
      <3>2. \A i \in 1..Len(heard) : \/ i = 1 /\ heard[i] = "status"
                                     \/ i = 2 /\ heard[i] = "pong"
        BY <3>1
      <3>3. AskedStatus /\ phase \notin ProxyPhases
        BY <2>1, <2>5 DEF AnswerInv
      <3> QED BY <3>1, <3>2, <3>3 DEF RightAnswer
    <2>6. CASE heard = <<"backend">> /\ phase \in ProxyPhases
      <3>1. Len(heard) = 1 /\ heard[1] = "backend"
        BY <2>6
      <3>2. \A i \in 1..Len(heard) : i = 1 /\ heard[i] = "backend"
        BY <3>1
      <3> QED BY <2>6, <3>1, <3>2 DEF RightAnswer
    <2> QED BY <2>1, <2>2, <2>3, <2>4, <2>5, <2>6 DEF AnswerInv
  <1> QED BY <1>1, ConnectionInvariance, PTL

\* Whoever is told to come back has put a request into the wake channel or found
\* one there, or the server is starting; a channel without a receiver ends the
\* connection with no answer: TurnedAwayAsked.
THEOREM TurnedAwayHasAsked == Spec => []TurnedAwayAsked
  <1>1. IInv => TurnedAwayAsked
    <2> SUFFICES ASSUME IInv PROVE TurnedAwayAsked
      OBVIOUS
    <2>1. ASSUME NEW i \in 1..Len(heard), heard[i] \in {"login", "conflict"}
          PROVE  woke # "no" \/ phase = "Starting"
      <3>1. heard = <<answer>>
        BY <2>1 DEF IInv, AnswerInv
      <3>2. heard[i] = answer
        BY <3>1
      <3> QED BY <2>1, <3>2 DEF IInv, AnswerInv, Founded
    <2>2. ended = "closed" => channel = "closed" /\ heard = <<>>
      BY DEF IInv, ClosedInv
    <2> QED BY <2>1, <2>2 DEF TurnedAwayAsked
  <1> QED BY <1>1, ConnectionInvariance, PTL

\* The backend receives the client's bytes from the first one on, as they were
\* sent, and only where the connection was given to it: Verbatim.
THEOREM ReplayIsVerbatim == Spec => []Verbatim
  BY ConnectionInvariance, PTL DEF IInv, BytesInv

\* A connection keeps the gateway busy for no longer than its timeouts say, for
\* all values of them: InTime.
THEOREM EverythingIsInTime == Spec => []InTime
  BY ConnectionInvariance, PTL DEF IInv, TimeInv
=============================================================================
