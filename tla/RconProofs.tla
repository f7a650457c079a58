----------------------------- MODULE RconProofs -----------------------------
(***************************************************************************)
(* Proofs about RconClient, for all ids, sizes of answers and numbers of   *)
(* players.  The invariant says what each direction of the connection can  *)
(* hold at each await (AuthTurn, CommandTurn), who may have been let in    *)
(* (LoginInv), and what the packets under way and those already collected  *)
(* are worth (FreshInv, WholeInv).  There is one lemma per part, one step  *)
(* per action.                                                             *)
(***************************************************************************)
EXTENDS RconClient, SequenceTheorems, TLAPS

\* A packet that no command asked for.
Stray(p) == p = Packet(0, "bad", Unknown, TRUE)

\* A packet of the answer to the command under way.
Part(p) == p.kind = "value" /\ p.id = ids[1]

Inside == step \in {"pause", "reading"}

\* Only a server that took the password answers a login with its id.
LoginInv ==
    /\ accepted => trusted
    /\ \A i \in DOMAIN toClient :
          toClient[i].kind = "auth" /\ toClient[i].id # 0 => accepted
    /\ LoggedInFirst

\* There is one login, and its answer is the last thing that comes.
AuthTurn ==
    step = "auth" =>
        /\ Len(toServer) <= 1
        /\ \A i \in DOMAIN toServer : toServer[i].kind = "auth"
        /\ \A i \in DOMAIN toClient :
              toClient[i].kind = "auth" => i = Len(toClient) /\ toServer = <<>>

\* Between commands only strays come.  During one the server still has to
\* handle the command or its end marker; of the answers, the marker's is the
\* last.
CommandTurn ==
    /\ step = "ready" =>
          /\ toServer = <<>>
          /\ \A i \in DOMAIN toClient : Stray(toClient[i])
    /\ step = "pause" =>
          /\ ids[2] = ids[1] /\ nextId # ids[1]
          /\ Len(toServer) <= 1
          /\ \A i \in DOMAIN toServer :
                toServer[i].kind = "list" /\ toServer[i].id = ids[1]
          /\ \A i \in DOMAIN toClient : Stray(toClient[i]) \/ Part(toClient[i])
    /\ step = "reading" =>
          /\ ids[1] # ids[2]
          /\ \A i \in DOMAIN toServer :
                \/ toServer[i].kind = "list" /\ toServer[i].id = ids[1] /\ i = 1
                \/ /\ toServer[i].kind = "empty" /\ toServer[i].id = ids[2]
                   /\ i = Len(toServer)
          /\ \A i \in DOMAIN toClient :
                \/ Stray(toClient[i]) \/ Part(toClient[i])
                \/ /\ toClient[i].kind = "value" /\ toClient[i].id = ids[2]
                   /\ i = Len(toClient) /\ toServer = <<>>

\* Every count under way or collected was true since the command was sent.
FreshInv ==
    /\ FreshAnswer
    /\ Inside =>
          /\ answer = Unknown /\ players \in seen
          /\ \A i \in DOMAIN toClient : toClient[i].count \in seen \cup {Unknown}
          /\ \A i \in DOMAIN response : response[i].count \in seen \cup {Unknown}

\* A part that is not the last of its answer has another one behind it.
WholeInv ==
    /\ WholeAnswer
    /\ Inside =>
          /\ answer = Unknown
          /\ \A i \in DOMAIN toClient :
                Part(toClient[i]) /\ ~toClient[i].last =>
                    i + 1 \in DOMAIN toClient /\ Part(toClient[i + 1])
          /\ response # <<>> /\ ~response[Len(response)].last =>
                1 \in DOMAIN toClient /\ Part(toClient[1])

IInv == TypeOK /\ LoginInv /\ AuthTurn /\ CommandTurn /\ FreshInv /\ WholeInv

USE MaxIdAssumption, MaxPartsAssumption, CountsAssumption

-----------------------------------------------------------------------------
(***************************************************************************)
(* Sequences and packets.                                                  *)
(***************************************************************************)

\* What is left when the head is taken.
LEMMA TakeHead ==
    ASSUME NEW S, NEW s \in Seq(S), s # <<>>
    PROVE  /\ Len(s) \in Nat /\ Len(s) > 0 /\ DOMAIN s = 1..Len(s)
           /\ 1 \in DOMAIN s /\ Head(s) = s[1] /\ Head(s) \in S
           /\ Tail(s) \in Seq(S) /\ Len(Tail(s)) = Len(s) - 1
           /\ DOMAIN Tail(s) = 1..(Len(s) - 1)
           /\ \A i \in DOMAIN Tail(s) :
                 i + 1 \in DOMAIN s /\ Tail(s)[i] = s[i + 1]
  <1>1. Len(s) \in Nat /\ Len(s) > 0 /\ DOMAIN s = 1..Len(s)
    BY EmptySeq, LenProperties
  <1>2. /\ Head(s) \in S /\ Tail(s) \in Seq(S) /\ Len(Tail(s)) = Len(s) - 1
        /\ \A i \in 1..Len(Tail(s)) : Tail(s)[i] = s[i + 1]
    BY HeadTailProperties
  <1>3. DOMAIN Tail(s) = 1..(Len(s) - 1)
    BY <1>2, LenProperties
  <1>4. Head(s) = s[1]
    OBVIOUS
  <1> QED BY <1>1, <1>2, <1>3, <1>4

\* What is there when more is appended.
LEMMA PutBehind ==
    ASSUME NEW S, NEW s \in Seq(S), NEW t \in Seq(S)
    PROVE  /\ s \o t \in Seq(S) /\ Len(s \o t) = Len(s) + Len(t)
           /\ Len(s) \in Nat /\ Len(t) \in Nat
           /\ DOMAIN s = 1..Len(s) /\ DOMAIN t = 1..Len(t)
           /\ DOMAIN (s \o t) = 1..(Len(s) + Len(t))
           /\ \A i \in DOMAIN (s \o t) :
                 \/ i \in DOMAIN s /\ (s \o t)[i] = s[i]
                 \/ /\ i - Len(s) \in DOMAIN t /\ i > Len(s)
                    /\ (s \o t)[i] = t[i - Len(s)]
  <1>1. /\ s \o t \in Seq(S) /\ Len(s \o t) = Len(s) + Len(t)
        /\ \A i \in 1..(Len(s) + Len(t)) :
              (s \o t)[i] = IF i <= Len(s) THEN s[i] ELSE t[i - Len(s)]
    BY ConcatProperties
  <1>2. /\ Len(s) \in Nat /\ Len(t) \in Nat
        /\ DOMAIN s = 1..Len(s) /\ DOMAIN t = 1..Len(t)
        /\ DOMAIN (s \o t) = 1..(Len(s) + Len(t))
    BY <1>1, LenProperties
  <1> QED BY <1>1, <1>2

\* A sequence of one packet, and one appended.
LEMMA One ==
    ASSUME NEW S, NEW s \in Seq(S), NEW e \in S
    PROVE  /\ <<e>> \in Seq(S) /\ Len(<<e>>) = 1 /\ DOMAIN <<e>> = {1}
           /\ <<e>>[1] = e /\ Append(s, e) = s \o <<e>>
  <1>1. <<e>> \in Seq(S) /\ Len(<<e>>) = 1 /\ <<e>>[1] = e
    OBVIOUS
  <1>2. DOMAIN <<e>> = {1}
    BY <1>1, LenProperties
  <1>3. Append(s, e) = s \o <<e>>
    BY AppendIsConcat
  <1> QED BY <1>1, <1>2, <1>3

\* The empty sequence.
LEMMA Nothing == ASSUME NEW S
                 PROVE  <<>> \in Seq(S) /\ Len(<<>>) = 0 /\ DOMAIN <<>> = {}
  OBVIOUS

\* The packets of an answer.
LEMMA PartsOfAnswer ==
    ASSUME NEW id \in 0..MaxId, NEW count \in Counts \cup {Unknown},
           NEW n \in 1..(MaxParts + 1)
    PROVE  LET t == Parts(id, count, n)
           IN /\ t \in Seq(Packets) /\ Len(t) = n /\ n > 0 /\ DOMAIN t = 1..n
              /\ \A i \in 1..n :
                    /\ t[i].id = id /\ t[i].kind = "value"
                    /\ t[i].count \in {count, Unknown}
                    /\ t[i].last <=> i = n
  <1> DEFINE t == Parts(id, count, n)
  <1>1. t \in [1..n -> Packets]
    BY DEF Parts, Packet, Packets
  <1>2. t \in Seq(Packets)
    BY <1>1, SeqDef
  <1>3. Len(t) = n /\ DOMAIN t = 1..n
    BY <1>1, <1>2, LenProperties
  <1>4. \A i \in 1..n : /\ t[i].id = id /\ t[i].kind = "value"
                        /\ t[i].count \in {count, Unknown}
                        /\ t[i].last <=> i = n
    BY DEF Parts, Packet
  <1> QED BY <1>2, <1>3, <1>4
-----------------------------------------------------------------------------
(***************************************************************************)
(* Types.                                                                  *)
(***************************************************************************)

\* What the server sends when it handles a packet: r, behind what is under way.
LEMMA ServerCases ==
    ASSUME TypeOK, ServerHandles
    PROVE  /\ toServer # <<>> /\ open
           /\ Head(toServer) \in Packets /\ toServer' = Tail(toServer)
           /\ \E r \in Seq(Packets) :
                 /\ toClient' = toClient \o r
                 /\ \/ /\ Head(toServer).kind = "auth" /\ accepted' = trusted
                       /\ open' = open /\ listening' = listening
                       /\ Len(r) \in 1..2
                       /\ r[Len(r)].id # 0 => trusted
                       /\ Len(r) = 2 => r[1].kind = "value"
                    \/ /\ Head(toServer).kind = "list" /\ accepted
                       /\ accepted' = accepted
                       /\ open' = open /\ listening' = listening
                       /\ \E n \in 1..(MaxParts + 1), c \in {players, Unknown} :
                             r = Parts(Head(toServer).id, c, n)
                    \/ /\ Head(toServer).kind = "empty" /\ accepted
                       /\ accepted' = accepted
                       /\ open' = open /\ listening' = listening
                       /\ r = <<Packet(Head(toServer).id, "value", Unknown, TRUE)>>
                    \/ /\ Head(toServer).kind = "stop" /\ accepted
                       /\ accepted' = accepted
                       /\ ~open' /\ ~listening' /\ r = <<>>
  <1> DEFINE p == Head(toServer)
             login == Packet(IF trusted THEN p.id ELSE 0, "auth", Unknown, TRUE)
             hello == Packet(p.id, "value", Unknown, TRUE)
  <1>1. toServer # <<>> /\ open /\ toServer' = Tail(toServer)
    BY DEF ServerHandles
  <1>2. toServer \in Seq(Packets) /\ toClient \in Seq(Packets)
    BY DEF TypeOK
  <1>3. p \in Packets
    BY <1>1, <1>2, TakeHead
  <1>4. p.id \in 0..MaxId /\ trusted \in BOOLEAN /\ players \in Counts
    BY <1>3 DEF Packets, TypeOK
  <1>5. login \in Packets /\ hello \in Packets
    BY <1>4 DEF Packet, Packets
  <1>6. CASE p.kind = "auth" /\ accepted' = trusted
             /\ \E greet \in {<<>>, <<hello>>} :
                   toClient' = toClient \o greet \o <<login>>
             /\ UNCHANGED <<open, listening>>
    <2> HIDE DEF login, hello
    <2>1. PICK greet \in {<<>>, <<hello>>} :
             toClient' = toClient \o greet \o <<login>>
      BY <1>6
    <2> DEFINE r == greet \o <<login>>
    <2>2. <<login>> \in Seq(Packets) /\ Len(<<login>>) = 1 /\ <<login>>[1] = login
      BY <1>5
    <2>3. greet \in Seq(Packets) /\ Len(greet) \in 0..1
          /\ (Len(greet) = 1 => greet[1] = hello)
      <3>1. CASE greet = <<>>
        BY <3>1, EmptySeq
      <3>2. CASE greet = <<hello>>
        BY <1>5, <3>2
      <3> QED BY <3>1, <3>2
    <2>4. /\ r \in Seq(Packets) /\ Len(r) = Len(greet) + 1
          /\ \A i \in 1..(Len(greet) + 1) :
                r[i] = IF i <= Len(greet) THEN greet[i] ELSE <<login>>[i - Len(greet)]
      BY <2>2, <2>3, ConcatProperties
    <2>5. toClient' = toClient \o r
      BY <1>2, <2>1, <2>2, <2>3, ConcatAssociative
    <2>6. r[Len(r)] = login
      BY <2>2, <2>3, <2>4
    <2>7. Len(r) = 2 => r[1] = hello
      BY <2>2, <2>3, <2>4
    <2>8. Len(r) \in 1..2
      <3> HIDE DEF r
      <3> QED BY <2>3, <2>4
    <2>9. r[Len(r)].id # 0 => trusted
      BY <2>6 DEF login, Packet
    <2>10. Len(r) = 2 => r[1].kind = "value"
      BY <2>7 DEF hello, Packet
    <2>11. r \in Seq(Packets)
      BY <2>4
    <2> HIDE DEF r
    <2> QED BY <1>1, <1>3, <1>6, <2>5, <2>8, <2>9, <2>10, <2>11
  <1>7. CASE p.kind = "list" /\ accepted
             /\ \E n \in 1..(MaxParts + 1), c \in {players, Unknown} :
                   toClient' = toClient \o Parts(p.id, c, n)
             /\ UNCHANGED <<accepted, open, listening>>
    <2>1. PICK n \in 1..(MaxParts + 1), c \in {players, Unknown} :
             toClient' = toClient \o Parts(p.id, c, n)
      BY <1>7
    <2>2. Parts(p.id, c, n) \in Seq(Packets)
      BY <1>4, PartsOfAnswer
    <2> QED BY <1>1, <1>3, <1>7, <2>1, <2>2
  <1>8. CASE p.kind = "empty" /\ accepted
             /\ toClient' = Append(toClient, hello)
             /\ UNCHANGED <<accepted, open, listening>>
    <2>1. /\ <<hello>> \in Seq(Packets)
          /\ toClient' = toClient \o <<hello>>
      <3> HIDE DEF hello
      <3> QED BY <1>2, <1>5, <1>8, One
    <2> QED BY <1>1, <1>3, <1>8, <2>1
  <1>9. CASE p.kind = "stop" /\ accepted
             /\ listening' = FALSE /\ open' = FALSE
             /\ UNCHANGED <<accepted, toClient>>
    <2>1. <<>> \in Seq(Packets) /\ toClient' = toClient \o <<>>
      BY <1>2, <1>9, ConcatEmptySeq, EmptySeq
    <2> QED BY <1>1, <1>3, <1>9, <2>1
  <1> QED BY <1>6, <1>7, <1>8, <1>9 DEF ServerHandles

LEMMA TypeInit == Init => TypeOK
  <1>1. <<>> \in Seq(Packets) /\ Len(<<>>) = 0
    BY EmptySeq
  <1>2. 1 \in Ids
    BY DEF Ids
  <1> SUFFICES ASSUME Init PROVE TypeOK
    OBVIOUS
  <1>3. response \in Seq(Packets) /\ Len(response) <= MaxParts
    BY <1>1 DEF Init
  <1>4. toServer \in Seq(Packets) /\ toClient \in Seq(Packets)
    BY <1>1 DEF Init
  <1>5. nextId \in Ids /\ ids \in Ids \X Ids
    BY <1>2 DEF Init
  <1> QED BY <1>3, <1>4, <1>5 DEF Init, TypeOK, ConnectUses, CommandUses

LEMMA TypeStep == TypeOK /\ [Next]_vars => TypeOK'
  <1> SUFFICES ASSUME TypeOK, [Next]_vars PROVE TypeOK'
    OBVIOUS
  <1>s. ServerHandles =>
           /\ \E r \in Seq(Packets) : toClient' = toClient \o r
           /\ accepted' \in {accepted, trusted}
           /\ open' \in BOOLEAN /\ listening' \in BOOLEAN
    <2> SUFFICES ASSUME ServerHandles
                 PROVE  /\ \E r \in Seq(Packets) : toClient' = toClient \o r
                        /\ accepted' \in {accepted, trusted}
                        /\ open' \in BOOLEAN /\ listening' \in BOOLEAN
      OBVIOUS
    <2>1. open \in BOOLEAN /\ listening \in BOOLEAN
      BY DEF TypeOK
    <2>2. \E r \in Seq(Packets) : toClient' = toClient \o r
      BY ServerCases
    <2>3. /\ accepted' \in {accepted, trusted}
          /\ open' \in {open, FALSE} /\ listening' \in {listening, FALSE}
      BY DEF ServerHandles
    <2> QED BY <2>1, <2>2, <2>3
  <1> USE DEF TypeOK
  <1>a. /\ \A u \in ConnectUses \cup CommandUses :
              u \in ConnectUses \cup CommandUses
        /\ <<>> \in Seq(Packets)
    BY EmptySeq
  <1>b. toClient # <<>> => /\ Tail(toClient) \in Seq(Packets)
                           /\ Head(toClient) \in Packets
    BY TakeHead
  <1>c. ASSUME NEW kind \in {"list", "empty", "stop"}, SendPacket(kind)
        PROVE  toServer' \in Seq(Packets) /\ nextId' \in Ids
    <2>1. nextId \in 0..MaxId
          /\ kind \in {"auth", "value", "bad", "list", "empty", "stop"}
      BY <1>c DEF Ids
    <2>2. Packet(nextId, kind, Unknown, TRUE) \in Packets
      BY <2>1 DEF Packet, Packets
    <2>3. toServer' \in Seq(Packets)
      BY <1>c, <2>2, AppendProperties DEF SendPacket
    <2>4. nextId' \in Ids
      BY <1>c DEF SendPacket, Ids
    <2> QED BY <2>3, <2>4
  <1>1. CASE PlayersChange
    BY <1>1 DEF PlayersChange, netVars
  <1>2. CASE ListenerChanges
    BY <1>2 DEF ListenerChanges, cmdVars
  <1>3. CASE ServerHandles
    <2>1. toServer' \in Seq(Packets)
      BY <1>3, TakeHead DEF ServerHandles
    <2>2. toClient' \in Seq(Packets) /\ accepted' \in BOOLEAN
          /\ open' \in BOOLEAN /\ listening' \in BOOLEAN
      <3>1. PICK r \in Seq(Packets) : toClient' = toClient \o r
        BY <1>3, <1>s
      <3>2. toClient \o r \in Seq(Packets)
        BY ConcatProperties
      <3> QED BY <1>3, <1>s, <3>1, <3>2
    <2> QED BY <1>3, <2>1, <2>2 DEF ServerHandles, cmdVars
  <1>4. CASE ServerOverlooks
    <2>1. toServer # <<>>
      <3>1. SUFFICES ASSUME toServer = <<>> PROVE FALSE
        OBVIOUS
      <3>2. Len(toServer) = 0
        BY <3>1
      <3> QED BY <1>4, <3>2 DEF ServerOverlooks
    <2>2. Head(toServer) \in Packets
      BY <2>1, TakeHead
    <2>3. <<Head(toServer)>> \in Seq(Packets)
      BY <2>2, One
    <2> QED BY <1>4, <2>3 DEF ServerOverlooks, cmdVars, envVars
  <1>5. CASE ServerGarbles
    <2> DEFINE p == Packet(0, "bad", Unknown, TRUE)
    <2>1. p \in Packets
      BY DEF Packet, Packets
    <2> HIDE DEF p
    <2>2. <<p>> \in Seq(Packets)
      BY <2>1
    <2> USE DEF p
    <2> QED BY <1>5, <2>2 DEF ServerGarbles, cmdVars, envVars
  <1>6. CASE \E u \in ConnectUses : Connect(u)
    BY <1>6 DEF Connect, cmdVars, netVars, envVars
  <1>7. CASE Connected
    <2>a. 1 \in Ids /\ 2 \in Ids
      BY DEF Ids
    <2> DEFINE p == Packet(1, "auth", Unknown, TRUE)
    <2>1. p \in Packets
      BY DEF Packet, Packets
    <2> HIDE DEF p
    <2>2. <<p>> \in Seq(Packets)
      BY <2>1
    <2> USE DEF p
    <2> QED BY <1>7, <2>2, <2>a, <1>a DEF Connected, cmdVars, envVars
  <1>8. CASE ConnectFails
    BY <1>8, <1>a DEF ConnectFails, Drop, cmdVars, envVars
  <1>9. CASE ReadAuthSkips
    BY <1>9, <1>b DEF ReadAuthSkips, cmdVars, envVars
  <1>10. CASE ReadAuth
    BY <1>10, <1>a, <1>b DEF ReadAuth, LoggedIn, cmdVars, envVars
  <1>11. CASE AuthFails
    BY <1>11, <1>a DEF AuthFails, Drop, cmdVars, envVars
  <1>12. CASE LoginTimesOut
    BY <1>12, <1>a DEF LoginTimesOut, Drop, cmdVars, envVars
  <1>13. CASE Stop
    BY <1>13, <1>c DEF Stop, cmdVars, envVars
  <1>14. CASE \E u \in CommandUses : Command(u)
    BY <1>14, <1>a, <1>c DEF Command, envVars
  <1>15. CASE SendMarker
    BY <1>15, <1>c DEF SendMarker, envVars
  <1>16. CASE ReadPart
    <2>1. response' \in Seq(Packets) /\ Len(response') <= MaxParts
      BY <1>16, <1>b, AppendProperties DEF ReadPart
    <2> QED BY <1>16, <1>b, <2>1 DEF ReadPart, envVars
  <1>17. CASE ReadMarker
    <2>1. PlayerCount(response) \in Counts \cup {Unknown}
      <3>1. response # <<>> => Head(response) \in Packets
        BY TakeHead
      <3> QED BY <3>1 DEF PlayerCount, Packets
    <2> QED BY <1>17, <1>a, <1>b, <2>1 DEF ReadMarker, Answered, envVars
  <1>18. CASE CommandFails
    BY <1>18, <1>a DEF CommandFails, Drop, cmdVars, envVars
  <1>19. CASE CommandTimesOut
    BY <1>19, <1>a DEF CommandTimesOut, Drop, cmdVars, envVars
  <1>20. CASE UNCHANGED vars
    BY <1>20 DEF vars
  <1> QED
    BY <1>1, <1>2, <1>3, <1>4, <1>5, <1>6, <1>7, <1>8, <1>9, <1>10, <1>11,
       <1>12, <1>13, <1>14, <1>15, <1>16, <1>17, <1>18, <1>19, <1>20 DEF Next
-----------------------------------------------------------------------------
(***************************************************************************)
(* The two directions of the connection, step by step.                     *)
(***************************************************************************)

\* A packet the client sends is behind those under way.
LEMMA Sending ==
    ASSUME TypeOK, NEW kind \in {"list", "empty", "stop"}, SendPacket(kind)
    PROVE  /\ Len(toServer) \in Nat /\ DOMAIN toServer = 1..Len(toServer)
           /\ Len(toServer') = Len(toServer) + 1
           /\ DOMAIN toServer' = 1..(Len(toServer) + 1)
           /\ \A i \in DOMAIN toServer : toServer'[i] = toServer[i]
           /\ LET p == toServer'[Len(toServer) + 1]
              IN p.id = nextId /\ p.kind = kind
           /\ nextId \in Ids /\ nextId' \in Ids /\ nextId' # nextId
  <1> DEFINE p == Packet(nextId, kind, Unknown, TRUE)
  <1>1. toServer \in Seq(Packets) /\ nextId \in Ids
    BY DEF TypeOK
  <1>2. nextId \in 0..MaxId
        /\ kind \in {"auth", "value", "bad", "list", "empty", "stop"}
    BY <1>1 DEF Ids
  <1>3. p \in Packets /\ p.id = nextId /\ p.kind = kind
    BY <1>2 DEF Packet, Packets
  <1>4. nextId' \in Ids /\ nextId' # nextId
    BY <1>1 DEF SendPacket, Ids
  <1>5. toServer' = Append(toServer, p)
    BY DEF SendPacket
  <1> HIDE DEF p
  <1>6. /\ Len(toServer) \in Nat /\ DOMAIN toServer = 1..Len(toServer)
        /\ toServer' \in Seq(Packets) /\ Len(toServer') = Len(toServer) + 1
        /\ \A i \in 1..Len(toServer) : toServer'[i] = toServer[i]
        /\ toServer'[Len(toServer) + 1] = p
    BY <1>1, <1>3, <1>5, AppendProperties, LenProperties
  <1>7. DOMAIN toServer' = 1..(Len(toServer) + 1)
    BY <1>6, LenProperties
  <1> QED BY <1>1, <1>3, <1>4, <1>6, <1>7

\* The client reads the next packet.
LEMMA Taking ==
    ASSUME TypeOK, toClient # <<>>, toClient' = Tail(toClient)
    PROVE  /\ Len(toClient) \in Nat /\ Len(toClient) > 0
           /\ DOMAIN toClient = 1..Len(toClient)
           /\ 1 \in DOMAIN toClient /\ Head(toClient) = toClient[1]
           /\ Head(toClient) \in Packets
           /\ Len(toClient') = Len(toClient) - 1
           /\ DOMAIN toClient' = 1..(Len(toClient) - 1)
           /\ \A i \in DOMAIN toClient' :
                 i + 1 \in DOMAIN toClient /\ toClient'[i] = toClient[i + 1]
  <1>1. toClient \in Seq(Packets)
    BY DEF TypeOK
  <1> QED BY <1>1, TakeHead

\* The server handles the next packet, and the marker may be overlooked.
LEMMA Handling ==
    ASSUME TypeOK, toServer # <<>>, toServer' = Tail(toServer)
    PROVE  /\ Len(toServer) \in Nat /\ Len(toServer) > 0
           /\ DOMAIN toServer = 1..Len(toServer)
           /\ 1 \in DOMAIN toServer /\ Head(toServer) = toServer[1]
           /\ Len(toServer') = Len(toServer) - 1
           /\ DOMAIN toServer' = 1..(Len(toServer) - 1)
           /\ \A i \in DOMAIN toServer' :
                 i + 1 \in DOMAIN toServer /\ toServer'[i] = toServer[i + 1]
  <1>1. toServer \in Seq(Packets)
    BY DEF TypeOK
  <1> QED BY <1>1, TakeHead

LEMMA Overlooking ==
    ASSUME TypeOK, ServerOverlooks
    PROVE  /\ Len(toServer) = 2 /\ DOMAIN toServer = {1, 2}
           /\ Len(toServer') = 1 /\ DOMAIN toServer' = {1}
           /\ toServer'[1] = toServer[1]
  <1>1. toServer \in Seq(Packets) /\ Len(toServer) = 2
    BY DEF TypeOK, ServerOverlooks
  <1>2. toServer # <<>>
    <2>1. SUFFICES ASSUME toServer = <<>> PROVE FALSE
      OBVIOUS
    <2>2. Len(toServer) = 0
      BY <2>1
    <2> QED BY <1>1, <2>2
  <1>3. /\ Head(toServer) = toServer[1] /\ Head(toServer) \in Packets
        /\ DOMAIN toServer = 1..2
    BY <1>1, <1>2, TakeHead
  <1>4. toServer' = <<Head(toServer)>>
    BY DEF ServerOverlooks
  <1>5. Len(toServer') = 1 /\ DOMAIN toServer' = {1} /\ toServer'[1] = Head(toServer)
    BY <1>1, <1>3, <1>4, One
  <1> QED BY <1>1, <1>3, <1>5

\* A packet of the server's own is alone.
LEMMA Garbling ==
    ASSUME ServerGarbles
    PROVE  /\ Len(toClient') = 1 /\ DOMAIN toClient' = {1}
           /\ Stray(toClient'[1])
           /\ toClient'[1].kind = "bad" /\ toClient'[1].id = 0
           /\ toClient'[1].count = Unknown /\ toClient'[1].last
  <1> DEFINE p == Packet(0, "bad", Unknown, TRUE)
  <1>1. p \in Packets /\ p.kind = "bad" /\ p.id = 0 /\ p.count = Unknown /\ p.last
    BY DEF Packet, Packets
  <1>2. toClient' = <<p>>
    BY DEF ServerGarbles
  <1>3. Stray(p)
    BY DEF Stray
  <1> HIDE DEF p
  <1>4. <<p>> \in Seq(Packets) /\ Len(<<p>>) = 1 /\ DOMAIN <<p>> = {1} /\ <<p>>[1] = p
    BY <1>1, EmptySeq, One
  <1> QED BY <1>1, <1>2, <1>3, <1>4

\* What a stray is.
LEMMA StrayIs ==
    \A p : Stray(p) => p.kind = "bad" /\ p.id = 0 /\ p.count = Unknown /\ p.last
  BY DEF Stray, Packet

-----------------------------------------------------------------------------
(***************************************************************************)
(* Logins.                                                                 *)
(***************************************************************************)

LEMMA LoginInit == Init => LoginInv
  BY Nothing DEF Init, LoginInv, LoggedInFirst

LEMMA LoginStep == TypeOK /\ LoginInv /\ [Next]_vars => LoginInv'
  <1> SUFFICES ASSUME TypeOK, LoginInv, [Next]_vars PROVE LoginInv'
    OBVIOUS
  <1> USE DEF LoginInv, LoggedInFirst
  <1>n. DOMAIN <<>> = {}
    OBVIOUS
  <1>p. accepted \in BOOLEAN /\ trusted \in BOOLEAN
    BY DEF TypeOK
  <1>1. CASE PlayersChange
    BY <1>1 DEF PlayersChange, netVars
  <1>2. CASE ListenerChanges
    BY <1>2 DEF ListenerChanges
  <1>3. CASE ServerHandles
    <2>1. /\ toServer # <<>> /\ toServer' = Tail(toServer)
          /\ step' = step /\ trusted' = trusted
          /\ accepted' \in {accepted, trusted}
      BY <1>3 DEF ServerHandles
    <2>2. accepted => accepted'
      <3>1. accepted => trusted
        OBVIOUS
      <3>2. CASE accepted' = accepted
        BY <3>2
      <3>3. CASE accepted' = trusted
        BY <3>1, <3>3
      <3> QED BY <2>1, <3>2, <3>3
    <2>3. PICK r \in Seq(Packets) :
             /\ toClient' = toClient \o r
             /\ \A i \in DOMAIN r : r[i].kind = "auth" /\ r[i].id # 0 => accepted'
      <3>1. PICK r \in Seq(Packets) :
               /\ toClient' = toClient \o r
               /\ \/ /\ accepted' = trusted /\ Len(r) \in 1..2
                     /\ r[Len(r)].id # 0 => trusted
                     /\ Len(r) = 2 => r[1].kind = "value"
                  \/ \E n \in 1..(MaxParts + 1), c \in {players, Unknown} :
                        r = Parts(Head(toServer).id, c, n)
                  \/ r = <<Packet(Head(toServer).id, "value", Unknown, TRUE)>>
                  \/ r = <<>>
        BY <1>3, ServerCases
      <3>2. DOMAIN r = 1..Len(r)
        BY LenProperties
      <3>3. Head(toServer).id \in 0..MaxId /\ players \in Counts
        BY <1>3, ServerCases DEF Packets, TypeOK
      <3>4. CASE /\ accepted' = trusted /\ Len(r) \in 1..2
                 /\ r[Len(r)].id # 0 => trusted
                 /\ Len(r) = 2 => r[1].kind = "value"
        <4>1. \A i \in DOMAIN r :
                 r[i].kind = "auth" /\ r[i].id # 0 => i = Len(r)
          BY <3>2, <3>4
        <4>2. r[Len(r)].id # 0 => accepted'
          BY <3>4
        <4>3. \A i \in DOMAIN r :
                 r[i].kind = "auth" /\ r[i].id # 0 => accepted'
          BY <4>1, <4>2
        <4> QED BY <3>1, <4>3
      <3>5. CASE \E n \in 1..(MaxParts + 1), c \in {players, Unknown} :
                    r = Parts(Head(toServer).id, c, n)
        <4>1. \A i \in DOMAIN r : r[i].kind = "value"
          BY <3>3, <3>5, PartsOfAnswer
        <4> QED BY <3>1, <4>1
      <3>6. CASE r = <<Packet(Head(toServer).id, "value", Unknown, TRUE)>>
        <4>1. \A i \in DOMAIN r : r[i].kind = "value"
          BY <3>6 DEF Packet
        <4> QED BY <3>1, <4>1
      <3>7. CASE r = <<>>
        BY <3>1, <3>7, Nothing
      <3> QED BY <3>1, <3>4, <3>5, <3>6, <3>7
    <2>4. \A i \in DOMAIN toClient' :
             toClient'[i].kind = "auth" /\ toClient'[i].id # 0 => accepted'
      BY <2>2, <2>3, PutBehind DEF TypeOK
    <2>5. \A i \in DOMAIN toServer' : toServer'[i].kind # "auth" => accepted'
      BY <2>1, <2>2, Handling
    <2> QED BY <1>p, <2>1, <2>2, <2>4, <2>5
  <1>4. CASE ServerOverlooks
    BY <1>4, Overlooking DEF ServerOverlooks, envVars
  <1>5. CASE ServerGarbles
    BY <1>5, Garbling DEF ServerGarbles, envVars
  <1>6. CASE \E u \in ConnectUses : Connect(u)
    BY <1>6 DEF Connect, netVars, envVars
  <1>7. CASE Connected
    <2>1. \A i \in DOMAIN toServer' : toServer'[i].kind = "auth"
      BY <1>7 DEF Connected, Packet
    <2> QED BY <1>7, <1>n, <2>1 DEF Connected, envVars
  <1>8. CASE ConnectFails
    BY <1>8, <1>n DEF ConnectFails, Drop, envVars
  <1>9. CASE ReadAuthSkips
    BY <1>9, Taking DEF ReadAuthSkips, envVars
  <1>10. CASE ReadAuth
    <2>1. /\ toClient # <<>> /\ toClient' = Tail(toClient)
          /\ Head(toClient).kind = "auth" /\ Head(toClient).id # 0
          /\ toServer' \in {toServer, <<>>}
          /\ accepted' = accepted /\ trusted' = trusted
      BY <1>10 DEF ReadAuth, LoggedIn, envVars
    <2>2. accepted
      BY <2>1, Taking
    <2> QED BY <1>n, <2>1, <2>2, Taking
  <1>11. CASE AuthFails
    BY <1>11, <1>n DEF AuthFails, Drop, envVars
  <1>12. CASE LoginTimesOut
    BY <1>12, <1>n DEF LoginTimesOut, Drop, envVars
  <1>13. CASE Stop
    BY <1>13 DEF Stop, envVars
  <1>14. CASE \E u \in CommandUses : Command(u)
    BY <1>14 DEF Command, envVars
  <1>15. CASE SendMarker
    BY <1>15 DEF SendMarker, envVars
  <1>16. CASE ReadPart
    BY <1>16, Taking DEF ReadPart, envVars
  <1>17. CASE ReadMarker
    <2>1. /\ toClient # <<>> /\ toClient' = Tail(toClient)
          /\ toServer' \in {toServer, <<>>} /\ step = "reading"
          /\ accepted' = accepted /\ trusted' = trusted
      BY <1>17 DEF ReadMarker, Answered, envVars
    <2> QED BY <1>n, <2>1, Taking
  <1>18. CASE CommandFails
    BY <1>18, <1>n DEF CommandFails, Drop, envVars
  <1>19. CASE CommandTimesOut
    BY <1>19, <1>n DEF CommandTimesOut, Drop, envVars
  <1>20. CASE UNCHANGED vars
    BY <1>20 DEF vars
  <1> QED
    BY <1>1, <1>2, <1>3, <1>4, <1>5, <1>6, <1>7, <1>8, <1>9, <1>10, <1>11,
       <1>12, <1>13, <1>14, <1>15, <1>16, <1>17, <1>18, <1>19, <1>20 DEF Next
-----------------------------------------------------------------------------
(***************************************************************************)
(* Whose turn it is.                                                       *)
(***************************************************************************)

LEMMA NoneLeft == ASSUME NEW S, NEW s \in Seq(S), Len(s) = 0 PROVE s = <<>>
  BY EmptySeq

\* During a command the server only answers the command or its marker.
LEMMA Answering ==
    ASSUME TypeOK, CommandTurn, Inside, ServerHandles
    PROVE  \E r \in Seq(Packets) :
              /\ toClient' = toClient \o r
              /\ Len(r) \in Nat /\ Len(r) > 0 /\ DOMAIN r = 1..Len(r)
              /\ \/ \A i \in 1..Len(r) :
                       /\ Part(r[i]) /\ r[i].count \in {players, Unknown}
                       /\ r[i].last <=> i = Len(r)
                 \/ /\ step = "reading" /\ Len(r) = 1 /\ toServer' = <<>>
                    /\ r[1].kind = "value" /\ r[1].id = ids[2]
                    /\ r[1].count = Unknown /\ r[1].last
  <1>1. toServer # <<>> /\ toServer' = Tail(toServer)
    BY ServerCases
  <1>2. /\ Len(toServer) \in Nat /\ Len(toServer) > 0
        /\ DOMAIN toServer = 1..Len(toServer)
        /\ 1 \in DOMAIN toServer /\ Head(toServer) = toServer[1]
        /\ Len(toServer') = Len(toServer) - 1
    BY <1>1, Handling
  <1>3. \/ Head(toServer).kind = "list" /\ Head(toServer).id = ids[1]
        \/ /\ step = "reading" /\ Len(toServer) = 1
           /\ Head(toServer).kind = "empty" /\ Head(toServer).id = ids[2]
    BY <1>2 DEF CommandTurn, Inside
  <1>4. PICK r \in Seq(Packets) :
           /\ toClient' = toClient \o r
           /\ \/ /\ Head(toServer).kind = "list"
                 /\ \E n \in 1..(MaxParts + 1), c \in {players, Unknown} :
                       r = Parts(Head(toServer).id, c, n)
              \/ /\ Head(toServer).kind = "empty"
                 /\ r = <<Packet(Head(toServer).id, "value", Unknown, TRUE)>>
    BY <1>3, ServerCases
  <1>5. DOMAIN r = 1..Len(r) /\ Len(r) \in Nat
    BY LenProperties
  <1>6. CASE Head(toServer).kind = "list"
    <2>1. PICK n \in 1..(MaxParts + 1), c \in {players, Unknown} :
             r = Parts(Head(toServer).id, c, n)
      BY <1>4, <1>6
    <2>2. Head(toServer).id \in 0..MaxId /\ c \in Counts \cup {Unknown}
      BY ServerCases DEF Packets, TypeOK
    <2>3. /\ Len(r) = n
          /\ \A i \in 1..n : /\ r[i].id = Head(toServer).id
                             /\ r[i].kind = "value"
                             /\ r[i].count \in {c, Unknown}
                             /\ r[i].last <=> i = n
      BY <2>1, <2>2, PartsOfAnswer
    <2>4. Head(toServer).id = ids[1]
      BY <1>3, <1>6
    <2>5. \A i \in 1..Len(r) :
             /\ Part(r[i]) /\ r[i].count \in {players, Unknown}
             /\ r[i].last <=> i = Len(r)
      BY <2>3, <2>4 DEF Part
    <2>6. Len(r) > 0
      BY <2>3
    <2> QED BY <1>4, <1>5, <2>5, <2>6
  <1>7. CASE Head(toServer).kind = "empty"
    <2>1. step = "reading" /\ Len(toServer) = 1 /\ Head(toServer).id = ids[2]
      BY <1>3, <1>7
    <2>2. r = <<Packet(Head(toServer).id, "value", Unknown, TRUE)>>
      BY <1>4, <1>7
    <2>3. /\ Len(r) = 1 /\ r[1].kind = "value" /\ r[1].id = ids[2]
          /\ r[1].count = Unknown /\ r[1].last
      BY <2>1, <2>2 DEF Packet
    <2>4. toServer' \in Seq(Packets) /\ Len(toServer') = 0
      BY <1>1, <1>2, <2>1, TakeHead DEF TypeOK
    <2>5. toServer' = <<>>
      BY <2>4, NoneLeft
    <2> QED BY <1>4, <1>5, <2>1, <2>3, <2>5
  <1> QED BY <1>3, <1>6, <1>7

LEMMA TurnInit == Init => AuthTurn /\ CommandTurn
  BY DEF Init, AuthTurn, CommandTurn

\* The server's step, at each of the client's awaits.
LEMMA ServerTurn ==
    ASSUME TypeOK, AuthTurn, CommandTurn, ServerHandles
    PROVE  AuthTurn' /\ CommandTurn'
  <1>1. /\ toServer # <<>> /\ toServer' = Tail(toServer)
        /\ step' = step /\ ids' = ids /\ nextId' = nextId
    BY DEF ServerHandles, cmdVars
  <1>2. toServer' \in Seq(Packets)
    BY <1>1, TakeHead DEF TypeOK
  <1>3. toClient \in Seq(Packets)
    BY DEF TypeOK
  <1>4. CASE step = "auth"
    <2>1. Len(toServer') = 0 /\ Head(toServer).kind = "auth"
      BY <1>1, <1>4, Handling DEF AuthTurn
    <2>2. toServer' = <<>>
      BY <1>2, <2>1, NoneLeft
    <2>3. PICK r \in Seq(Packets) : /\ toClient' = toClient \o r
                                    /\ Len(r) \in 1..2
                                    /\ Len(r) = 2 => r[1].kind = "value"
      BY <2>1, ServerCases
    <2>4. \A i \in DOMAIN toClient : toClient[i].kind # "auth"
      BY <1>1, <1>4 DEF AuthTurn
    <2>5. \A i \in DOMAIN toClient' :
             toClient'[i].kind = "auth" => i = Len(toClient')
      <3>1. DOMAIN r = 1..Len(r)
        BY LenProperties
      <3>2. \A j \in DOMAIN r : r[j].kind = "auth" => j = Len(r)
        BY <2>3, <3>1
      <3> QED BY <1>3, <2>3, <2>4, <3>2, PutBehind
    <2> QED BY <1>1, <1>4, <2>1, <2>2, <2>5, Nothing DEF AuthTurn, CommandTurn
  <1>5. CASE Inside
    <2>1. PICK r \in Seq(Packets) :
             /\ toClient' = toClient \o r
             /\ Len(r) \in Nat /\ Len(r) > 0 /\ DOMAIN r = 1..Len(r)
             /\ \/ \A i \in 1..Len(r) : Part(r[i])
                \/ /\ step = "reading" /\ Len(r) = 1 /\ toServer' = <<>>
                   /\ r[1].kind = "value" /\ r[1].id = ids[2]
      BY <1>5, Answering
    <2>2. \A i \in DOMAIN toClient : \/ Stray(toClient[i]) \/ Part(toClient[i])
      BY <1>1, <1>5 DEF CommandTurn, Inside
    <2>3. \A i \in DOMAIN toClient' :
             \/ Stray(toClient'[i]) \/ Part(toClient'[i])
             \/ /\ step = "reading"
                /\ toClient'[i].kind = "value" /\ toClient'[i].id = ids[2]
                /\ i = Len(toClient') /\ toServer' = <<>>
      BY <1>3, <2>1, <2>2, PutBehind
    <2>4. \A i \in DOMAIN toServer' :
             /\ i + 1 \in DOMAIN toServer /\ toServer'[i] = toServer[i + 1]
             /\ Len(toServer') = Len(toServer) - 1
             /\ i \in Nat /\ i > 0
             /\ Len(toServer) \in Nat
      BY <1>1, Handling
    <2>5. CASE step = "pause"
      <3>1. Len(toServer') = 0
        BY <1>1, <2>5, Handling DEF CommandTurn
      <3>2. toServer' = <<>>
        BY <1>2, <3>1, NoneLeft
      <3> QED BY <1>1, <2>3, <2>5, <3>1, <3>2, Nothing
              DEF AuthTurn, CommandTurn, Part
    <2>6. CASE step = "reading"
      <3>1. \A i \in DOMAIN toServer' :
               /\ toServer'[i].kind = "empty" /\ toServer'[i].id = ids[2]
               /\ i = Len(toServer')
        BY <2>4, <2>6 DEF CommandTurn
      <3> QED BY <1>1, <2>3, <2>6, <3>1 DEF AuthTurn, CommandTurn, Part
    <2> QED BY <1>5, <2>5, <2>6 DEF Inside
  <1>6. CASE step \in {"none", "connect"}
    BY <1>1, <1>6 DEF AuthTurn, CommandTurn
  <1> QED BY <1>1, <1>4, <1>5, <1>6 DEF TypeOK, Inside, CommandTurn

LEMMA TurnStep ==
    TypeOK /\ AuthTurn /\ CommandTurn /\ [Next]_vars => AuthTurn' /\ CommandTurn'
  <1> SUFFICES ASSUME TypeOK, AuthTurn, CommandTurn, [Next]_vars
               PROVE  AuthTurn' /\ CommandTurn'
    OBVIOUS
  <1> USE DEF AuthTurn, CommandTurn, Part
  <1>n. Len(<<>>) = 0 /\ DOMAIN <<>> = {}
    OBVIOUS
  <1>1. CASE PlayersChange
    BY <1>1 DEF PlayersChange, netVars
  <1>2. CASE ListenerChanges
    BY <1>2 DEF ListenerChanges, cmdVars
  <1>3. CASE ServerHandles
    BY <1>3, ServerTurn
  <1>4. CASE ServerOverlooks
    BY <1>4, Overlooking DEF ServerOverlooks, cmdVars
  <1>5. CASE ServerGarbles
    BY <1>5, Garbling DEF ServerGarbles, cmdVars
  <1>6. CASE \E u \in ConnectUses : Connect(u)
    BY <1>6 DEF Connect
  <1>7. CASE Connected
    <2>1. Len(toServer') = 1 /\ \A i \in DOMAIN toServer' : toServer'[i].kind = "auth"
      BY <1>7 DEF Connected, Packet
    <2>2. step' = "auth" /\ toClient' = <<>>
      BY <1>7 DEF Connected
    <2>3. DOMAIN toClient' = {}
      BY <2>2
    <2> QED BY <2>1, <2>2, <2>3
  <1>8. CASE ConnectFails
    BY <1>8 DEF ConnectFails, Drop
  <1>9. CASE ReadAuthSkips
    BY <1>9, Taking DEF ReadAuthSkips, cmdVars
  <1>10. CASE ReadAuth
    <2>1. /\ step = "auth" /\ toClient # <<>> /\ toClient' = Tail(toClient)
          /\ Head(toClient).kind = "auth"
          /\ \/ step' = "none"
             \/ step' = "ready" /\ toServer' = toServer
      BY <1>10 DEF ReadAuth, LoggedIn
    <2>2. Len(toClient) = 1 /\ toServer = <<>>
      BY <2>1, Taking
    <2>3. DOMAIN toClient' = {}
      BY <2>1, <2>2, Taking
    <2> QED BY <2>1, <2>2, <2>3
  <1>11. CASE AuthFails
    BY <1>11 DEF AuthFails, Drop
  <1>12. CASE LoginTimesOut
    BY <1>12 DEF LoginTimesOut, Drop
  <1>13. CASE Stop
    BY <1>13 DEF Stop
  <1>14. CASE \E u \in CommandUses : Command(u)
    <2>1. /\ step = "ready" /\ step' = "pause" /\ SendPacket("list")
          /\ ids' = <<nextId, nextId>> /\ toClient' = toClient
      BY <1>14 DEF Command
    <2>2. Len(toServer) = 0 /\ \A i \in DOMAIN toClient : Stray(toClient[i])
      BY <1>n, <2>1
    <2>3. /\ Len(toServer') = 1 /\ DOMAIN toServer' = {1}
          /\ toServer'[1].kind = "list" /\ toServer'[1].id = nextId
          /\ nextId' # nextId
      BY <2>1, <2>2, Sending
    <2>4. ids'[1] = nextId /\ ids'[2] = nextId
      BY <2>1
    <2> QED BY <2>1, <2>2, <2>3, <2>4
  <1>15. CASE SendMarker
    <2>1. /\ step = "pause" /\ step' = "reading" /\ SendPacket("empty")
          /\ ids' = <<ids[1], nextId>> /\ toClient' = toClient
      BY <1>15 DEF SendMarker
    <2>2. ids'[1] = ids[1] /\ ids'[2] = nextId
      BY <2>1
    <2>3. /\ Len(toServer) \in 0..1 /\ DOMAIN toServer = 1..Len(toServer)
          /\ Len(toServer') = Len(toServer) + 1
          /\ DOMAIN toServer' = 1..(Len(toServer) + 1)
          /\ \A i \in DOMAIN toServer : toServer'[i] = toServer[i]
          /\ toServer'[Len(toServer) + 1].id = nextId
          /\ toServer'[Len(toServer) + 1].kind = "empty"
      BY <2>1, Sending
    <2>4. \A i \in DOMAIN toServer' :
             \/ toServer'[i].kind = "list" /\ toServer'[i].id = ids[1] /\ i = 1
             \/ /\ toServer'[i].kind = "empty" /\ toServer'[i].id = nextId
                /\ i = Len(toServer')
      BY <2>1, <2>3
    <2> QED BY <2>1, <2>2, <2>4
  <1>16. CASE ReadPart
    <2>1. /\ step = "reading" /\ step' = step /\ ids' = ids
          /\ toServer' = toServer /\ toClient # <<>> /\ toClient' = Tail(toClient)
      BY <1>16 DEF ReadPart
    <2> QED BY <2>1, Taking
  <1>17. CASE ReadMarker
    <2>1. /\ step = "reading" /\ toClient # <<>> /\ toClient' = Tail(toClient)
          /\ Head(toClient).kind # "bad" /\ Head(toClient).id = ids[2]
          /\ \/ step' = "none"
             \/ step' = "ready" /\ toServer' = toServer
      BY <1>17 DEF ReadMarker, Answered
    <2>2. Len(toClient) = 1 /\ toServer = <<>>
      BY <2>1, Taking, StrayIs
    <2>3. DOMAIN toClient' = {}
      BY <2>1, <2>2, Taking
    <2> QED BY <2>1, <2>2, <2>3
  <1>18. CASE CommandFails
    BY <1>18 DEF CommandFails, Drop
  <1>19. CASE CommandTimesOut
    BY <1>19 DEF CommandTimesOut, Drop
  <1>20. CASE UNCHANGED vars
    BY <1>20 DEF vars
  <1> QED
    BY <1>1, <1>2, <1>3, <1>4, <1>5, <1>6, <1>7, <1>8, <1>9, <1>10, <1>11,
       <1>12, <1>13, <1>14, <1>15, <1>16, <1>17, <1>18, <1>19, <1>20 DEF Next
-----------------------------------------------------------------------------
(***************************************************************************)
(* What an answer is worth.                                                *)
(***************************************************************************)

\* A whole answer, or the marker's, behind what is under way.
LEMMA AnswerBehind ==
    ASSUME NEW s \in Seq(Packets), NEW r \in Seq(Packets),
           Len(r) \in Nat, Len(r) > 0,
           \A i \in DOMAIN s : Part(s[i]) /\ ~s[i].last =>
                                   i + 1 \in DOMAIN s /\ Part(s[i + 1]),
           \/ \A i \in 1..Len(r) : Part(r[i]) /\ (r[i].last <=> i = Len(r))
           \/ Len(r) = 1 /\ r[1].last
    PROVE  LET t == s \o r
           IN /\ \A i \in DOMAIN t : Part(t[i]) /\ ~t[i].last =>
                                          i + 1 \in DOMAIN t /\ Part(t[i + 1])
              /\ 1 \in DOMAIN s => 1 \in DOMAIN t /\ t[1] = s[1]
  <1> DEFINE t == s \o r
  <1>1. \A j \in 1..Len(r) : Part(r[j]) /\ ~r[j].last =>
                                  j + 1 \in 1..Len(r) /\ Part(r[j + 1])
    <2>1. CASE \A i \in 1..Len(r) : Part(r[i]) /\ (r[i].last <=> i = Len(r))
      BY <2>1
    <2>2. CASE Len(r) = 1 /\ r[1].last
      BY <2>2
    <2> QED BY <2>1, <2>2
  <1>2. /\ Len(s) \in Nat /\ DOMAIN s = 1..Len(s)
        /\ DOMAIN t = 1..(Len(s) + Len(r))
    BY PutBehind
  <1>3. \A i \in 1..(Len(s) + Len(r)) :
           t[i] = IF i <= Len(s) THEN s[i] ELSE r[i - Len(s)]
    BY ConcatProperties
  <1> HIDE DEF t
  <1>4. ASSUME NEW i \in DOMAIN t, Part(t[i]), ~t[i].last
        PROVE  i + 1 \in DOMAIN t /\ Part(t[i + 1])
    <2>1. CASE i \in DOMAIN s
      <3>1. t[i] = s[i]
        BY <1>2, <1>3, <2>1
      <3>2. i + 1 \in DOMAIN s /\ Part(s[i + 1])
        BY <1>4, <2>1, <3>1
      <3> QED BY <1>2, <1>3, <3>2
    <2>2. CASE i \notin DOMAIN s
      <3>1. PICK j \in 1..Len(r) : i = Len(s) + j
        <4>1. i - Len(s) \in 1..Len(r) /\ i = Len(s) + (i - Len(s))
          BY <1>2, <2>2
        <4> QED BY <4>1
      <3>2. t[i] = r[j]
        BY <1>2, <1>3, <3>1
      <3>3. j + 1 \in 1..Len(r) /\ Part(r[j + 1])
        BY <1>1, <1>4, <3>2
      <3>4. i + 1 \in 1..(Len(s) + Len(r)) /\ i + 1 > Len(s)
            /\ (i + 1) - Len(s) = j + 1
        BY <1>2, <3>1, <3>3
      <3>5. t[i + 1] = r[j + 1]
        BY <1>2, <1>3, <3>4
      <3> QED BY <1>2, <3>3, <3>4, <3>5
    <2> QED BY <2>1, <2>2
  <1>5. 1 \in DOMAIN s => 1 \in DOMAIN t /\ t[1] = s[1]
    BY <1>2, <1>3
  <1> QED BY <1>4, <1>5 DEF t

LEMMA AnswerInit == Init => FreshInv /\ WholeInv
  BY DEF Init, FreshInv, WholeInv, FreshAnswer, WholeAnswer, Inside

LEMMA FreshStep ==
    TypeOK /\ CommandTurn /\ FreshInv /\ [Next]_vars => FreshInv'
  <1> SUFFICES ASSUME TypeOK, CommandTurn, FreshInv, [Next]_vars
               PROVE  FreshInv'
    OBVIOUS
  <1> USE DEF FreshInv, FreshAnswer, Inside
  <1>n. DOMAIN <<>> = {}
    OBVIOUS
  <1>1. CASE PlayersChange
    <2>1. /\ step' = step /\ answer' = answer /\ toClient' = toClient
          /\ response' = response
      BY <1>1 DEF PlayersChange, netVars
    <2>2. seen \subseteq seen' /\ (Inside => players' \in seen')
      BY <1>1 DEF PlayersChange
    <2> QED BY <2>1, <2>2
  <1>2. CASE ListenerChanges
    BY <1>2 DEF ListenerChanges, cmdVars
  <1>3. CASE ServerHandles
    <2>1. /\ step' = step /\ answer' = answer /\ response' = response
          /\ seen' = seen /\ players' = players
      BY <1>3 DEF ServerHandles, cmdVars
    <2>2. CASE Inside
      <3>1. PICK r \in Seq(Packets) :
               /\ toClient' = toClient \o r
               /\ DOMAIN r = 1..Len(r)
               /\ \/ \A i \in 1..Len(r) : r[i].count \in {players, Unknown}
                  \/ Len(r) = 1 /\ r[1].count = Unknown
        <4> HIDE DEF Inside
        <4> QED BY <1>3, <2>2, Answering
      <3>2. \A i \in DOMAIN r : r[i].count \in seen \cup {Unknown}
        BY <2>2, <3>1
      <3>3. \A i \in DOMAIN toClient' : toClient'[i].count \in seen \cup {Unknown}
        BY <2>2, <3>1, <3>2, PutBehind DEF TypeOK
      <3> QED BY <2>1, <2>2, <3>3
    <2>3. CASE ~Inside
      BY <2>1, <2>3
    <2> QED BY <2>2, <2>3
  <1>4. CASE ServerOverlooks
    BY <1>4 DEF ServerOverlooks, cmdVars, envVars
  <1>5. CASE ServerGarbles
    BY <1>5, Garbling DEF ServerGarbles, cmdVars, envVars
  <1>6. CASE \E u \in ConnectUses : Connect(u)
    BY <1>6 DEF Connect, cmdVars
  <1>7. CASE Connected
    BY <1>7 DEF Connected, cmdVars
  <1>8. CASE ConnectFails
    BY <1>8 DEF ConnectFails, Drop, cmdVars
  <1>9. CASE ReadAuthSkips
    BY <1>9 DEF ReadAuthSkips, cmdVars
  <1>10. CASE ReadAuth
    BY <1>10 DEF ReadAuth, LoggedIn, cmdVars
  <1>11. CASE AuthFails
    BY <1>11 DEF AuthFails, Drop, cmdVars
  <1>12. CASE LoginTimesOut
    BY <1>12 DEF LoginTimesOut, Drop, cmdVars
  <1>13. CASE Stop
    BY <1>13 DEF Stop, cmdVars
  <1>14. CASE \E u \in CommandUses : Command(u)
    <2>1. /\ step = "ready" /\ toClient' = toClient /\ response' = <<>>
          /\ answer' = Unknown /\ seen' = {players} /\ players' = players
      BY <1>14 DEF Command, envVars
    <2>2. \A i \in DOMAIN toClient' : toClient'[i].count = Unknown
      BY <2>1, StrayIs DEF CommandTurn
    <2>3. DOMAIN response' = {}
      BY <2>1
    <2> QED BY <2>1, <2>2, <2>3
  <1>15. CASE SendMarker
    BY <1>15 DEF SendMarker, envVars
  <1>16. CASE ReadPart
    <2>1. /\ step = "reading" /\ step' = step /\ answer' = answer
          /\ toClient # <<>> /\ toClient' = Tail(toClient)
          /\ response' = Append(response, Head(toClient))
          /\ seen' = seen /\ players' = players
      BY <1>16 DEF ReadPart, envVars
    <2>2. /\ Head(toClient) \in Packets
          /\ Head(toClient).count \in seen \cup {Unknown}
          /\ \A i \in DOMAIN toClient' :
                toClient'[i].count \in seen \cup {Unknown}
      BY <2>1, Taking
    <2>3. response' = response \o <<Head(toClient)>>
      BY <2>1, <2>2, One DEF TypeOK
    <2>4. \A i \in DOMAIN response' : response'[i].count \in seen \cup {Unknown}
      BY <2>1, <2>2, <2>3, One, PutBehind DEF TypeOK
    <2> QED BY <2>1, <2>2, <2>4
  <1>17. CASE ReadMarker
    <2>1. /\ step = "reading" /\ step' \in {"none", "ready"}
          /\ answer' = PlayerCount(response) /\ seen' = seen
      BY <1>17 DEF ReadMarker, Answered
    <2>2. PlayerCount(response) \in seen \cup {Unknown}
      <3>1. response # <<>> => 1 \in DOMAIN response /\ Head(response) = response[1]
        BY TakeHead DEF TypeOK
      <3> QED BY <2>1, <3>1 DEF PlayerCount
    <2> QED BY <2>1, <2>2
  <1>18. CASE CommandFails
    BY <1>18 DEF CommandFails, Drop, cmdVars
  <1>19. CASE CommandTimesOut
    BY <1>19 DEF CommandTimesOut, Drop, cmdVars
  <1>20. CASE UNCHANGED vars
    BY <1>20 DEF vars
  <1> QED
    BY <1>1, <1>2, <1>3, <1>4, <1>5, <1>6, <1>7, <1>8, <1>9, <1>10, <1>11,
       <1>12, <1>13, <1>14, <1>15, <1>16, <1>17, <1>18, <1>19, <1>20 DEF Next

LEMMA WholeStep ==
    TypeOK /\ CommandTurn /\ WholeInv /\ [Next]_vars => WholeInv'
  <1> SUFFICES ASSUME TypeOK, CommandTurn, WholeInv, [Next]_vars
               PROVE  WholeInv'
    OBVIOUS
  <1> USE DEF WholeInv, WholeAnswer, Inside, Part
  <1>1. CASE PlayersChange
    BY <1>1 DEF PlayersChange, netVars
  <1>2. CASE ListenerChanges
    BY <1>2 DEF ListenerChanges, cmdVars
  <1>3. CASE ServerHandles
    <2>1. /\ step' = step /\ answer' = answer /\ response' = response
          /\ ids' = ids
      BY <1>3 DEF ServerHandles, cmdVars
    <2>2. CASE Inside
      <3>1. PICK r \in Seq(Packets) :
               /\ toClient' = toClient \o r
               /\ Len(r) \in Nat /\ Len(r) > 0 /\ DOMAIN r = 1..Len(r)
               /\ \/ \A i \in 1..Len(r) : Part(r[i]) /\ (r[i].last <=> i = Len(r))
                  \/ Len(r) = 1 /\ r[1].last
        <4> HIDE DEF Inside, Part
        <4> QED BY <1>3, <2>2, Answering
      <3>2. /\ \A i \in DOMAIN toClient' :
                  Part(toClient'[i]) /\ ~toClient'[i].last =>
                      i + 1 \in DOMAIN toClient' /\ Part(toClient'[i + 1])
            /\ 1 \in DOMAIN toClient =>
                  1 \in DOMAIN toClient' /\ toClient'[1] = toClient[1]
        <4>1. \A i \in DOMAIN toClient :
                 Part(toClient[i]) /\ ~toClient[i].last =>
                     i + 1 \in DOMAIN toClient /\ Part(toClient[i + 1])
          BY <2>2
        <4>2. toClient \in Seq(Packets)
          BY DEF TypeOK
        <4> HIDE DEF Inside, Part, WholeInv
        <4> QED BY <3>1, <4>1, <4>2, AnswerBehind
      <3> QED BY <2>1, <2>2, <3>2
    <2>3. CASE ~Inside
      BY <2>1, <2>3
    <2> QED BY <2>2, <2>3
  <1>4. CASE ServerOverlooks
    BY <1>4 DEF ServerOverlooks, cmdVars, envVars
  <1>5. CASE ServerGarbles
    <2>1. /\ step' = step /\ answer' = answer /\ response' = response
          /\ ids' = ids /\ toClient = <<>>
      BY <1>5 DEF ServerGarbles, cmdVars
    <2>2. DOMAIN toClient = {}
      BY <2>1
    <2> QED BY <1>5, <2>1, <2>2, Garbling
  <1>6. CASE \E u \in ConnectUses : Connect(u)
    BY <1>6 DEF Connect, cmdVars
  <1>7. CASE Connected
    BY <1>7 DEF Connected, cmdVars
  <1>8. CASE ConnectFails
    BY <1>8 DEF ConnectFails, Drop, cmdVars
  <1>9. CASE ReadAuthSkips
    BY <1>9 DEF ReadAuthSkips, cmdVars
  <1>10. CASE ReadAuth
    BY <1>10 DEF ReadAuth, LoggedIn, cmdVars
  <1>11. CASE AuthFails
    BY <1>11 DEF AuthFails, Drop, cmdVars
  <1>12. CASE LoginTimesOut
    BY <1>12 DEF LoginTimesOut, Drop, cmdVars
  <1>13. CASE Stop
    BY <1>13 DEF Stop, cmdVars
  <1>14. CASE \E u \in CommandUses : Command(u)
    <2>1. /\ step = "ready" /\ toClient' = toClient /\ response' = <<>>
          /\ answer' = Unknown
      BY <1>14 DEF Command
    <2>2. \A i \in DOMAIN toClient' : toClient'[i].last
      BY <2>1, StrayIs DEF CommandTurn
    <2> QED BY <2>1, <2>2
  <1>15. CASE SendMarker
    <2>1. /\ step = "pause" /\ answer' = answer /\ response' = response
          /\ toClient' = toClient /\ ids'[1] = ids[1]
      BY <1>15 DEF SendMarker
    <2> QED BY <2>1
  <1>16. CASE ReadPart
    <2>1. /\ step = "reading" /\ step' = step /\ answer' = answer /\ ids' = ids
          /\ toClient # <<>> /\ toClient' = Tail(toClient)
          /\ response' = Append(response, Head(toClient))
          /\ Part(Head(toClient))
      BY <1>16 DEF ReadPart
    <2>2. response \in Seq(Packets) /\ Head(toClient) \in Packets
      BY <2>1, Taking DEF TypeOK
    <2>3. response'[Len(response')] = Head(toClient)
      BY <2>1, <2>2, AppendProperties
    <2>4. /\ Len(toClient) \in Nat /\ Len(toClient) > 0
          /\ DOMAIN toClient = 1..Len(toClient) /\ Head(toClient) = toClient[1]
          /\ DOMAIN toClient' = 1..(Len(toClient) - 1)
          /\ \A i \in DOMAIN toClient' : toClient'[i] = toClient[i + 1]
      BY <2>1, Taking
    <2>5. \A i \in DOMAIN toClient' :
             Part(toClient'[i]) /\ ~toClient'[i].last =>
                 i + 1 \in DOMAIN toClient' /\ Part(toClient'[i + 1])
      BY <2>1, <2>4
    <2>6. ~Head(toClient).last => 1 \in DOMAIN toClient' /\ Part(toClient'[1])
      BY <2>1, <2>4
    <2> QED BY <2>1, <2>3, <2>5, <2>6
  <1>17. CASE ReadMarker
    <2>1. /\ step = "reading" /\ step' \in {"none", "ready"}
          /\ toClient # <<>> /\ toClient' = Tail(toClient)
          /\ Head(toClient).id = ids[2]
          /\ answer' = PlayerCount(response) /\ response' = response
      BY <1>17 DEF ReadMarker, Answered
    <2>2. ~Part(toClient[1])
      BY <2>1, Taking DEF CommandTurn
    <2>3. response # <<>> => response[Len(response)].last
      BY <2>1, <2>2
    <2>4. answer' # Unknown => response # <<>>
      BY <2>1 DEF PlayerCount
    <2> QED BY <2>1, <2>3, <2>4
  <1>18. CASE CommandFails
    BY <1>18 DEF CommandFails, Drop, cmdVars
  <1>19. CASE CommandTimesOut
    BY <1>19 DEF CommandTimesOut, Drop, cmdVars
  <1>20. CASE UNCHANGED vars
    BY <1>20 DEF vars
  <1> QED
    BY <1>1, <1>2, <1>3, <1>4, <1>5, <1>6, <1>7, <1>8, <1>9, <1>10, <1>11,
       <1>12, <1>13, <1>14, <1>15, <1>16, <1>17, <1>18, <1>19, <1>20 DEF Next

-----------------------------------------------------------------------------
(***************************************************************************)
(* The theorems.                                                           *)
(***************************************************************************)

\* The inductive invariant of the RCON connection: what is under way in each
\* direction at each await of RconClient (rcon.rs), and what it is worth.
THEOREM RconInvariance == Spec => []IInv
  <1>1. Init => IInv
    BY TypeInit, LoginInit, TurnInit, AnswerInit DEF IInv
  <1>2. IInv /\ [Next]_vars => IInv'
    BY TypeStep, LoginStep, TurnStep, FreshStep, WholeStep DEF IInv
  <1> QED BY <1>1, <1>2, PTL DEF Spec

\* The client's ids, packets and answers are always well typed, and an answer
\* is never longer than its limit.
THEOREM TypeCorrect == Spec => []TypeOK
  <1>1. IInv => TypeOK
    BY DEF IInv
  <1> QED BY <1>1, RconInvariance, PTL

\* Commands are sent only on connections whose login the server accepted.
THEOREM LoginComesFirst == Spec => []LoggedInFirst
  <1>1. IInv => LoggedInFirst
    BY DEF IInv, LoginInv
  <1> QED BY <1>1, RconInvariance, PTL

\* A client kept between commands has no answer outstanding.
THEOREM ClientIsInStep == Spec => []InStep
  <1>1. IInv => InStep
    BY StrayIs DEF IInv, CommandTurn, InStep
  <1> QED BY <1>1, RconInvariance, PTL

\* The count of a poll or of the final check was true since its command was
\* sent, though ids wrap and answers are late.
THEOREM AnswerIsFresh == Spec => []FreshAnswer
  <1>1. IInv => FreshAnswer
    BY DEF IInv, FreshInv
  <1> QED BY <1>1, RconInvariance, PTL

\* An answer is used only when its last packet has arrived.
THEOREM AnswerIsWhole == Spec => []WholeAnswer
  <1>1. IInv => WholeAnswer
    BY DEF IInv, WholeInv
  <1> QED BY <1>1, RconInvariance, PTL
=============================================================================
