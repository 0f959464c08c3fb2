-------------------------------- MODULE Slp ---------------------------------
(***************************************************************************)
(* Minecraft Server List Ping as controller/protocol/minecraft.rs speaks   *)
(* it: the VarInt encoding of an i32 (write_varint, read_varint), the     *)
(* request main sends as every connection's payload (build_latest_request) *)
(* and SLPParser::parse of the bytes a responder has gathered.  Bytes are  *)
(* naturals below 256; an i32 is an integer in its range, and the code's   *)
(* shifts and masks work on its 32-bit two's-complement pattern.           *)
(***************************************************************************)
EXTENDS Integers, Sequences, SequencesExt

-----------------------------------------------------------------------------
(* write_varint.  Zero is one zero byte.  Otherwise each turn of the loop *)
(* writes `value & 0x7f`, with the high bit set when bits remain, and     *)
(* shifts by `(value >> 7) & (i32::MAX >> 6)`: an arithmetic shift (floor *)
(* division) whose seven copied sign bits the mask clears.                 *)

ShiftOut(value) == (value \div 128) % 2^25

RECURSIVE WriteGroups(_)
WriteGroups(value) ==
    IF value = 0 THEN <<>>
    ELSE <<(value % 128) + (IF ShiftOut(value) # 0 THEN 128 ELSE 0)>>
             \o WriteGroups(ShiftOut(value))

WriteVarInt(value) ==
    IF value = 0 THEN <<0>> ELSE WriteGroups(value)

-----------------------------------------------------------------------------
(* read_varint: at most five bytes; each ORs its low seven bits into the  *)
(* i32 at 7 * i, where `<<` drops the bits past bit 31 (of the fifth      *)
(* byte only its low four bits stay, the fourth of them the sign bit); a  *)
(* byte without the high bit ends it, and so does the fifth byte,         *)
(* whatever its high bit.  Running out of bytes is ParseError::Incomplete. *)

ShiftIn(group, i) ==
    IF i < 4 THEN group * 2^(7 * i)
    ELSE LET low == group % 16 IN (IF low >= 8 THEN low - 16 ELSE low) * 2^28

\* Mutant: the loop runs over four bytes, `for i in 0..4`.
RECURSIVE ReadGroupsFourBytes(_, _, _)
ReadGroupsFourBytes(bytes, i, acc) ==
    IF i = 4 THEN [ok |-> TRUE, value |-> acc, rest |-> bytes]
    ELSE IF bytes = <<>> THEN [ok |-> FALSE]
    ELSE LET acc2 == acc + ShiftIn(Head(bytes) % 128, i)
         IN  IF Head(bytes) < 128
             THEN [ok |-> TRUE, value |-> acc2, rest |-> Tail(bytes)]
             ELSE ReadGroupsFourBytes(Tail(bytes), i + 1, acc2)

RECURSIVE ReadGroups(_, _, _)
ReadGroups(bytes, i, acc) ==
    IF i = 5 THEN [ok |-> TRUE, value |-> acc, rest |-> bytes]
    ELSE IF bytes = <<>> THEN [ok |-> FALSE]
    ELSE LET acc2 == acc + ShiftIn(Head(bytes) % 128, i)
         IN  IF Head(bytes) < 128
             THEN [ok |-> TRUE, value |-> acc2, rest |-> Tail(bytes)]
             ELSE ReadGroups(Tail(bytes), i + 1, acc2)

ReadVarInt(bytes) == ReadGroups(bytes, 0, 0)

-----------------------------------------------------------------------------
(* build_latest_request: a handshake packet (id 0, protocol version,      *)
(* host as a VarInt-prefixed string, port big-endian, next state 1)       *)
(* behind its VarInt length, then the one-byte status request <<1, 0>>.   *)

\* Mutant: the handshake's length prefix written as a single byte.
BuildLatestRequestByteLength(hostname, port, version) ==
    LET packet == <<0>> \o WriteVarInt(version) \o WriteVarInt(Len(hostname))
                      \o hostname \o <<port \div 256, port % 256, 1>>
    IN  <<Len(packet) % 256>> \o packet \o <<1, 0>>

BuildLatestRequest(hostname, port, version) ==
    LET packet == <<0>> \o WriteVarInt(version) \o WriteVarInt(Len(hostname))
                      \o hostname \o <<port \div 256, port % 256, 1>>
    IN  WriteVarInt(Len(packet)) \o packet \o <<1, 0>>

-----------------------------------------------------------------------------
(* SLPParser::parse.  The packet length is read and ignored, then the     *)
(* packet id and the status string's length; the bytes that follow are   *)
(* handed to serde_json::from_slice: the result is an outcome, or the     *)
(* buffer serde_json decides on.                                          *)

\* Mutant: the status buffer must be longer than response_length.
SlpParseShortByOne(data) ==
    LET len == ReadVarInt(data)
        id  == ReadVarInt(len.rest)
        rl  == ReadVarInt(id.rest)
    IN  IF ~len.ok \/ ~id.ok \/ ~rl.ok THEN [outcome |-> "Incomplete"]
        ELSE IF id.value # 0 \/ rl.value <= 0 THEN [outcome |-> "Invalid"]
        ELSE IF Len(rl.rest) <= rl.value THEN [outcome |-> "Incomplete"]
        ELSE [outcome |-> "Json", json |-> rl.rest]

SlpParse(data) ==
    LET len == ReadVarInt(data)
        id  == ReadVarInt(len.rest)
        rl  == ReadVarInt(id.rest)
    IN  IF ~len.ok \/ ~id.ok \/ ~rl.ok THEN [outcome |-> "Incomplete"]
        ELSE IF id.value # 0 \/ rl.value <= 0 THEN [outcome |-> "Invalid"]
        ELSE IF Len(rl.rest) < rl.value THEN [outcome |-> "Incomplete"]
        ELSE [outcome |-> "Json", json |-> rl.rest]

-----------------------------------------------------------------------------
(* The protocol's VarInt, for reference: the 32-bit two's-complement    *)
(* pattern of the value, bit by bit from its two 16-bit halves, cut into  *)
(* little-endian seven-bit groups; the shortest run of them, each but the *)
(* last with its high bit set.                                             *)

RefBit(v, j) ==
    IF j < 16 THEN ((v % 2^16) \div 2^j) % 2
    ELSE (((v \div 2^16) % 2^16) \div 2^(j - 16)) % 2

RefGroup(v, k) ==
    SumFunction([j \in {j \in 0 .. 6 : 7 * k + j <= 31} |-> RefBit(v, 7 * k + j) * 2^j])

RefGroupCount(v) ==
    CHOOSE n \in 1 .. 5 : /\ n = 1 \/ RefGroup(v, n - 1) # 0
                          /\ \A k \in n .. 4 : RefGroup(v, k) = 0

RefVarInt(v) ==
    [i \in 1 .. RefGroupCount(v) |->
        RefGroup(v, i - 1) + (IF i < RefGroupCount(v) THEN 128 ELSE 0)]

\* The i32 values at the edges of each VarInt length, and the protocol
\* versions and lengths the request carries.
VarIntSamples ==
    {0, 1, 127, 128, 16383, 16384, 2097151, 2097152, 268435455, 268435456,
     2147483647, -1, -2, -2147483647 - 1, 767}

\* The bytes of a request's host, of a length that needs a one-byte and a
\* two-byte VarInt.
HostSamples == {<<104, 111, 115, 116>>, [i \in 1 .. 130 |-> 97]}

\* A request framed as the protocol lays it out, each VarInt the reference
\* one: the handshake's length, then id 0, protocol version, host as a
\* string, port as an unsigned short and next state 1; then the status
\* request, length 1 and id 0.
RefRequest(hostname, port, version) ==
    LET handshake == <<0>> \o RefVarInt(version) \o RefVarInt(Len(hostname))
                         \o hostname \o <<port \div 256, port % 256, 1>>
    IN  RefVarInt(Len(handshake)) \o handshake \o <<1, 0>>

\* read_varint on the protocol's VarInt of v with a byte after it: v, the
\* byte left unread.  Five-byte VarInts (every negative i32 and those past
\* 2^28) end on a byte without the high bit, whose top four bits the code
\* drops and whose fourth bit carries the sign.
VarIntReadsBack(v) ==
    ReadVarInt(RefVarInt(v) \o <<9>>) = [ok |-> TRUE, value |-> v, rest |-> <<9>>]

\* The same VarInt cut short of its last byte is ParseError::Incomplete.
VarIntTruncatedIncomplete(v) ==
    ~ReadVarInt(SubSeq(RefVarInt(v), 1, Len(RefVarInt(v)) - 1)).ok

VarIntsDecode ==
    \A v \in VarIntSamples : VarIntReadsBack(v) /\ VarIntTruncatedIncomplete(v)

\* build_latest_request gives that request for every sampled host and
\* protocol version, negative ones and those at each VarInt length edge
\* included.
RequestsMatchProtocol ==
    \A h \in HostSamples, v \in VarIntSamples :
        BuildLatestRequest(h, 25565, v) = RefRequest(h, 25565, v)

=============================================================================
