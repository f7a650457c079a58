----------------------------- MODULE MCProtocol -----------------------------
(***************************************************************************)
(* Protocol for TLC: every packet up to MaxLength bytes, one byte at a     *)
(* time, against the protocol's grammar, which is written here without     *)
(* cursors and offsets: a packet is read by cutting it into its fields.    *)
(***************************************************************************)
EXTENDS Protocol

CONSTANTS MaxLength, Limit

\* No longer packet is read: read_packet's MAX_PACKET_LENGTH.
ASSUME MaxLengthAssumption == MaxLength \in 0..MaxPacketLength

\* Every kind of packet has a limit of its own.
ASSUME LimitAssumption == Limit \in Nat

VARIABLE packet

Init == packet = <<>>

Next == /\ Len(packet) < MaxLength
        /\ \E b \in Byte : packet' = Append(packet, b)

Spec == Init /\ [][Next]_packet

Values == (-(Width \div 2))..(Width \div 2 - 1)

\* The VarInt encodings of a value, of any length: the groups add up to it.
Encodes(bytes, value) ==
    /\ Len(bytes) \in 1..Groups
    /\ \A i \in 1..Len(bytes) : More(bytes[i]) <=> i < Len(bytes)
    /\ Unsigned(bytes) = ToUnsigned(value)

\* The piece of the packet after offset a up to offset b.
Piece(a, b) == SubSeq(packet, a + 1, b)

Text(bytes, text) ==
    \E cut \in 1..Len(bytes) :
        /\ Encodes(SubSeq(bytes, 1, cut), Len(text))
        /\ SubSeq(bytes, cut + 1, Len(bytes)) = text
        /\ from_utf8_ok(text)

\* The cuts of the packet into an id, a protocol version, an address, a port
\* and an intent.
Handshakes ==
    {c \in [1..4 -> 1..Len(packet)] :
        /\ c[1] < c[2] /\ c[2] < c[3] /\ c[4] = c[3] + PortBytes
        /\ Encodes(Piece(0, c[1]), 0)
        /\ \E v \in Values : Encodes(Piece(c[1], c[2]), v)
        /\ \E k \in c[2]..c[3] : Text(Piece(c[2], c[3]), Piece(k, c[3]))
        /\ \E v \in Values : Encodes(Piece(c[4], Len(packet)), v)}

\* A handshake is accepted exactly when the grammar has a reading of it, that
\* reading is the only one, and its fields are the ones the parser returns:
\* routing, version check and proxying all rely on the same reading of the
\* client's bytes.
HandshakeExact ==
    LET h == parse_handshake(packet)
    IN /\ h.ok <=> Handshakes # {}
       /\ \A c, d \in Handshakes : c = d
       /\ \A c \in Handshakes :
             /\ Encodes(Piece(c[1], c[2]), h.protocol_version)
             /\ Text(Piece(c[2], c[3]), h.address)
             /\ h.port = Piece(c[3], c[4])
             /\ \A v \in Values : Encodes(Piece(c[4], Len(packet)), v)
                                    => h.intent = intent_of(v)

\* What a release with the layout sends after the username.
Uuids(layout) ==
    LET uuid == [1..UuidBytes -> Byte]
    IN CASE layout = "NoUuid"       -> {<<>>}
         [] layout = "OptionalUuid" -> {<<0>>} \cup {<<1>> \o u : u \in uuid}
         [] OTHER                   -> uuid

\* A login start is accepted exactly when it is an id 0, a name of one to
\* NameUnits characters and what the release's layout appends to it.
LoginStartExact ==
    \A layout \in InitialProtocol :
        parse_login_start(packet, layout) <=>
            \E i, j, k \in 0..Len(packet) :
                /\ i < j /\ j < k
                /\ Encodes(Piece(0, i), 0)
                /\ Encodes(Piece(i, j), k - j)
                /\ from_utf8_ok(Piece(j, k))
                /\ encode_utf16_count(Piece(j, k)) <= NameUnits
                /\ Piece(k, Len(packet)) \in Uuids(layout)

\* What is written is read back, whatever follows it, no encoding of the value
\* is shorter, and nothing but an encoding of a value is read.
VarIntRoundTrip ==
    LET read == read_varint(packet, 0)
    IN /\ \A v \in Values :
             /\ read_varint(write_varint(v) \o packet, 0)
                   = Got(v, varint_size(v))
             /\ Encodes(packet, v) => /\ Len(packet) >= varint_size(v)
                                     /\ read = Got(v, Len(packet))
       /\ read.ok => Encodes(Piece(0, read.at), read.value)

\* A string the gateway sends, read the way it reads packets itself: no
\* prefix of the frame is taken for a whole packet or refused, and the body
\* is the id and the text.  A string that fits a packet is never refused.
FrameRoundTrip ==
    LET frame == encode_string_packet(0, packet)
        fits == /\ encode_utf16_count(packet) <= StringUnits
                /\ 2 * Len(packet) < Width
                /\ 1 + varint_size(Len(packet)) + Len(packet) < Place[LengthGroups]
    IN /\ from_utf8_ok(packet) => (frame # <<>> <=> fits)
       /\ from_utf8_ok(packet) /\ frame # <<>> =>
          /\ Framing(frame, MaxPacketLength) = "whole"
          /\ \A n \in 0..(Len(frame) - 1) :
                Framing(SubSeq(frame, 1, n), MaxPacketLength) = "partial"
          /\ read_utf8_string(Body(frame), 1) = Got(packet, Len(Body(frame)))

\* A frame within the limit: the encoding of a length, in at most LengthGroups
\* bytes, and that many bytes.
IsFrame(bytes) ==
    \E k \in 1..LengthGroups :
        /\ k <= Len(bytes) /\ Len(bytes) - k <= Limit
        /\ Encodes(SubSeq(bytes, 1, k), Len(bytes) - k)

\* A stream is cut where the grammar ends its first frame, however the length
\* is written and whatever follows.  One that begins with no frame is refused
\* by its length, before any byte of a body is waited for, and never one that
\* may still become a frame.
FrameFound ==
    LET Verdict(n) == Framing(Piece(0, n), Limit)
        ends == {n \in 0..Len(packet) : IsFrame(Piece(0, n))}
    IN \A n \in 0..Len(packet) :
          /\ Verdict(n) = "whole" <=> \E m \in ends : m <= n
          /\ Verdict(n) = "refused" =>
                /\ \E m \in 0..n : m <= LengthGroups /\ Verdict(m) = "refused"
                /\ ends = {}

\* Where a packet begins and ends is never in doubt, for what the gateway
\* sends and for what it reads.
FramesExact == FrameRoundTrip /\ FrameFound
=============================================================================
