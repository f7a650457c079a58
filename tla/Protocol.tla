------------------------------ MODULE Protocol ------------------------------
(***************************************************************************)
(* The part of the Minecraft protocol the gateway speaks (minecraft.rs):   *)
(* VarInts, strings, packets, and the parsers of the handshake, the login  *)
(* start, the status request and the ping.                                 *)
(*                                                                         *)
(* A byte holds one VarInt group of G values and the continuation bit, so  *)
(* it is a number below 2 * G (G is 2^7 in the code).  The readers take a  *)
(* packet and an offset, as PacketCursor does, and return the value they   *)
(* read and the offset after it, or Failed.                                *)
(***************************************************************************)
EXTENDS Integers, FiniteSets, Sequences

CONSTANTS
    G,             \* values of a VarInt group: 2^7
    Groups,        \* bytes of a VarInt at most: 5
    Top,           \* values the last of them may have: 2^4
    LengthGroups,  \* bytes of a packet's length at most: 3
    StringUnits,   \* UTF-16 units of a string sent at most: 32767
    NameUnits,     \* UTF-16 units of a username at most: 16
    PortBytes,     \* bytes of a port: 2
    UuidBytes,     \* bytes of a UUID: 16
    StampBytes     \* bytes of a ping's timestamp: 8

ASSUME GAssumption == G \in Nat /\ G >= 2
ASSUME GroupsAssumption == Groups \in Nat \ {0} /\ Top \in 1..G
ASSUME SizesAssumption ==
    {StringUnits, NameUnits, PortBytes, UuidBytes, StampBytes} \subseteq Nat

\* What a value of the n-th group counts, from 0: it is shifted by 7 * n bits.
Place[n \in Nat] == IF n = 0 THEN 1 ELSE G * Place[n - 1]

\* 32 bits in the code.
Width == Place[Groups - 1] * Top

\* Half of the numbers are negative.
ASSUME WidthAssumption == Width % 2 = 0

ASSUME LengthAssumption ==
    LengthGroups \in Nat /\ 2 * Place[LengthGroups] <= Width

Byte == 0..(2 * G - 1)
More(b) == b >= G        \* b & 0x80
Bits(b) == b % G         \* b & 0x7f

\* The first byte without a continuation bit ends a VarInt: its place, or 0.
LastGroup(bytes, limit) ==
    LET ends == {i \in 1..Len(bytes) : i <= limit /\ ~More(bytes[i])}
    IN IF ends = {} THEN 0 ELSE CHOOSE i \in ends : \A j \in ends : i <= j

\* The number whose groups these are, the least significant first.
Unsigned(bytes) ==
    LET sum[i \in 0..Len(bytes)] ==
            IF i = 0 THEN 0 ELSE sum[i - 1] + Bits(bytes[i]) * Place[i - 1]
    IN sum[Len(bytes)]

\* The unsigned numbers and the signed ones.
Signed(n) == IF 2 * n < Width THEN n ELSE n - Width
ToUnsigned(n) == IF n < 0 THEN n + Width ELSE n

Failed == [ok |-> FALSE, value |-> 0, at |-> 0]
Got(value, at) == [ok |-> TRUE, value |-> value, at |-> at]
Rest(packet, at) == SubSeq(packet, at + 1, Len(packet))

\* Seeded fault of read_varint: the last group is not bounded.
read_varint_wide(packet, at) ==
    LET input == Rest(packet, at)
        n == LastGroup(input, Groups)
    IN IF n = 0 THEN Failed
       ELSE Got(Signed(Unsigned(SubSeq(input, 1, n)) % Width), at + n)

read_varint(packet, at) ==
    LET input == Rest(packet, at)
        n == LastGroup(input, Groups)
    IN IF n = 0 \/ (n = Groups /\ input[n] >= Top) THEN Failed
       ELSE Got(Signed(Unsigned(SubSeq(input, 1, n))), at + n)

\* varint_size: the least number of groups that hold the value.
varint_size(value) ==
    CHOOSE k \in 1..Groups :
        /\ k = Groups \/ ToUnsigned(value) < Place[k]
        /\ k = 1 \/ ToUnsigned(value) >= Place[k - 1]

write_varint(value) ==
    LET bits == ToUnsigned(value)
        n == varint_size(value)
    IN [i \in 1..n |-> ((bits \div Place[i - 1]) % G)
                          + (IF i < n THEN G ELSE 0)]

read_bytes(packet, at, n) ==
    IF at + n <= Len(packet)
    THEN Got(SubSeq(packet, at + 1, at + n), at + n) ELSE Failed

(***************************************************************************)
(* UTF-8 reduced to characters of one and of two bytes, each one UTF-16    *)
(* unit: a byte without the high bit stands for itself; a lead byte is     *)
(* followed by a continuation byte, which has the high bit and is below    *)
(* the lead bytes.                                                         *)
(***************************************************************************)
IsLead(b) == b >= G + G \div 2
IsContinuation(b) == G <= b /\ b < G + G \div 2

from_utf8_ok(bytes) ==
    \A i \in 1..Len(bytes) :
        /\ IsLead(bytes[i]) => i < Len(bytes) /\ IsContinuation(bytes[i + 1])
        /\ IsContinuation(bytes[i]) => i > 1 /\ IsLead(bytes[i - 1])

encode_utf16_count(bytes) ==
    Cardinality({i \in 1..Len(bytes) : ~IsContinuation(bytes[i])})

read_utf8_string(packet, at) ==
    LET length == read_varint(packet, at)
        bytes == read_bytes(packet, length.at, length.value)
    IN IF length.ok /\ length.value >= 0 /\ bytes.ok /\ from_utf8_ok(bytes.value)
       THEN bytes ELSE Failed

\* Seeded fault of read_string: units are counted in bytes.
read_string_in_bytes(packet, at, units) ==
    LET text == read_utf8_string(packet, at)
    IN IF text.ok /\ Len(text.value) <= units THEN text ELSE Failed

read_string(packet, at, units) ==
    LET text == read_utf8_string(packet, at)
    IN IF /\ text.ok
          /\ Len(text.value) <= units * 3
          /\ encode_utf16_count(text.value) <= units
       THEN text ELSE Failed

-----------------------------------------------------------------------------
(***************************************************************************)
(* Packets.                                                                *)
(***************************************************************************)

HandshakeIntent == {"Status", "Login", "Transfer", "Unknown"}
InitialProtocol == {"NoUuid", "OptionalUuid", "RequiredUuid",
                    "RequiredUuidAndTransfer"}

intent_of(value) ==
    CASE value = 1 -> "Status"
      [] value = 2 -> "Login"
      [] value = 3 -> "Transfer"
      [] OTHER     -> "Unknown"

Malformed == [ok |-> FALSE, protocol_version |-> 0, address |-> <<>>,
              port |-> <<>>, intent |-> "Unknown"]

\* Seeded fault of parse_handshake: what follows the intent is ignored.
parse_handshake_open(packet) ==
    LET id       == read_varint(packet, 0)
        protocol == read_varint(packet, id.at)
        address  == read_utf8_string(packet, protocol.at)
        port     == read_bytes(packet, address.at, PortBytes)
        intent   == read_varint(packet, port.at)
    IN IF /\ id.ok /\ id.value = 0
          /\ protocol.ok /\ address.ok /\ port.ok /\ intent.ok
       THEN [ok |-> TRUE, protocol_version |-> protocol.value,
             address |-> address.value, port |-> port.value,
             intent |-> intent_of(intent.value)]
       ELSE Malformed

parse_handshake(packet) ==
    LET id       == read_varint(packet, 0)
        protocol == read_varint(packet, id.at)
        address  == read_utf8_string(packet, protocol.at)
        port     == read_bytes(packet, address.at, PortBytes)
        intent   == read_varint(packet, port.at)
    IN IF /\ id.ok /\ id.value = 0
          /\ protocol.ok /\ address.ok /\ port.ok /\ intent.ok
          /\ intent.at = Len(packet)
       THEN [ok |-> TRUE, protocol_version |-> protocol.value,
             address |-> address.value, port |-> port.value,
             intent |-> intent_of(intent.value)]
       ELSE Malformed

\* What follows the username of a login start.
read_uuid(packet, at, layout) ==
    LET present == read_bytes(packet, at, 1)
    IN IF layout = "NoUuid" THEN Got(<<>>, at)
       ELSE IF layout # "OptionalUuid" THEN read_bytes(packet, at, UuidBytes)
       ELSE IF present.ok /\ present.value = <<0>> THEN present
       ELSE IF present.ok /\ present.value = <<1>>
            THEN read_bytes(packet, present.at, UuidBytes)
       ELSE Failed

parse_login_start(packet, layout) ==
    LET id       == read_varint(packet, 0)
        username == read_string(packet, id.at, NameUnits)
        uuid     == read_uuid(packet, username.at, layout)
    IN /\ id.ok /\ id.value = 0
       /\ username.ok /\ username.value # <<>>
       /\ uuid.ok /\ uuid.at = Len(packet)

parse_status_request(packet) ==
    LET id == read_varint(packet, 0)
    IN id.ok /\ id.value = 0 /\ id.at = Len(packet)

parse_ping(packet) ==
    LET id    == read_varint(packet, 0)
        stamp == read_bytes(packet, id.at, StampBytes)
    IN id.ok /\ id.value = 1 /\ stamp.ok /\ stamp.at = Len(packet)

\* A client may log in with this intent.
validate_login_intent(layout, intent) ==
    intent # "Transfer" \/ layout = "RequiredUuidAndTransfer"

(***************************************************************************)
(* What the bytes read of a packet so far make of it: a length or a body   *)
(* that goes on, a packet that is refused, or one that is whole.           *)
(***************************************************************************)

Framing(read, limit) ==
    LET n == LastGroup(read, LengthGroups)
        length == Unsigned(SubSeq(read, 1, n))
    IN IF n = 0 THEN IF Len(read) < LengthGroups THEN "partial" ELSE "refused"
       ELSE IF length > limit THEN "refused"
       ELSE IF Len(read) < n + length THEN "partial"
       ELSE "whole"

\* The body of a whole packet.
Body(read) == Rest(read, LastGroup(read, LengthGroups))

\* MAX_PACKET_LENGTH.
MaxPacketLength == Place[LengthGroups] - 1

\* Seeded fault of encode_packet: the length leaves out the packet's id.
encode_packet_payload_length(packet_id, payload) ==
    IF Len(payload) > MaxPacketLength THEN <<>>
    ELSE write_varint(Len(payload)) \o write_varint(packet_id) \o payload

\* encode_packet; <<>> where it refuses, as in encode_string_packet.
encode_packet(packet_id, payload) ==
    LET length == varint_size(packet_id) + Len(payload)
    IN IF length > MaxPacketLength THEN <<>>
       ELSE write_varint(length) \o write_varint(packet_id) \o payload

encode_string_packet(packet_id, value) ==
    IF encode_utf16_count(value) > StringUnits \/ 2 * Len(value) >= Width
    THEN <<>>
    ELSE encode_packet(packet_id, write_varint(Len(value)) \o value)
=============================================================================
