---------------------------- MODULE MCConnection ----------------------------
(***************************************************************************)
(* Connection for TLC: clients that send a handshake, well formed or not,  *)
(* and one or two packets after it.                                        *)
(***************************************************************************)
EXTENDS Connection

Frame(body) == write_varint(Len(body)) \o body

\* The same packet with its length written longer than it must be.
LongFrame(body) == <<Len(body) + G, 0>> \o body

\* A handshake with an empty address, of these protocol versions and intents.
HandshakeOf(protocol, value) == <<0, protocol, 0, 1, value>>

Followed ==
    {Frame(HandshakeOf(p, v)) \o Frame(b) :
        p \in {4, 5}, v \in {2, 3},
        b \in {<<0, 1, 0>>, <<0, 1, 0, 0>>, <<0, 0>>}}
    \cup {Frame(HandshakeOf(4, 1)) \o Frame(<<0>>) \o Frame(b) :
             b \in {<<1, 6>>, <<0, 6>>}}

Odd ==
    {LongFrame(HandshakeOf(4, 2)) \o Frame(<<0, 1, 0>>),
     Frame(HandshakeOf(4, 4)) \o Frame(<<0>>),
     Frame(HandshakeOf(4, 1)) \o Frame(<<1>>),
     Frame(HandshakeOf(4, 2)) \o <<5, 0>>,
     Frame(<<1, 4, 0, 1, 2>>), Frame(<<0, 4, 3, 1, 2>>),
     <<7, 0>>, <<8, 8, 8>>}

MCStreams == Followed \cup Odd

MCVersions == {[protocol |-> 4, layout |-> "NoUuid"],
               [protocol |-> 4, layout |-> "RequiredUuidAndTransfer"]}
=============================================================================
