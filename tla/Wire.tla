-------------------------------- MODULE Wire --------------------------------
(***************************************************************************)
(* The Minecraft wire format as redoxide reads and writes it: src/protocol *)
(* (VarInts, packets, strings, the handshake and Login Start), src/status. *)
(* rs and the status reply a probe reads (src/proxy.rs). A reader is given *)
(* the bytes that have come so far and says "ok" and what it read of them, *)
(* "bad", or "more" when it would go on reading.                           *)
(*                                                                         *)
(* Text is a sequence of bytes. JSON is left as text, and text that UTF-8  *)
(* encodes in more than one byte per character is left out.                *)
(***************************************************************************)
EXTENDS Integers, Sequences

CONSTANTS
    MaxPacketLen,  \* MAX_PACKET_LEN: 2097151 in the code
    MaxStringLen   \* MAX_STRING_LEN: 131072 in the code

Int32 == {v \in Int : -2147483647 - 1 <= v /\ v <= 2147483647}

(* Both are lengths a VarInt can hold.                                     *)
ASSUME LimitsAssumption ==
    MaxPacketLen \in Nat \cap Int32 /\ MaxStringLen \in Nat \cap Int32

Bad == [is |-> "bad"]
More == [is |-> "more"]

---------------------------------------------------------------------------
(* VarInts: seven bits to a byte, least significant first, the high bit    *)
(* set on all but the last byte                                            *)

Weight == <<1, 128, 16384, 2097152, 268435456>>

VarintEnds(s, n) ==
    /\ n <= Len(s)
    /\ s[n] < 128
    /\ \A i \in 1..(n - 1) : s[i] >= 128

(* The fifth byte has room for four bits, the sign among them; its others  *)
(* are shifted out.                                                        *)
Group(b, i) ==
    IF i < 5 THEN b % 128
    ELSE IF b % 16 < 8 THEN b % 16
    ELSE (b % 16) - 16

Part(s, n, i) == IF i <= n THEN Group(s[i], i) * Weight[i] ELSE 0

(* read_varint and read_varint_sync, to which "more" is an error.          *)
ReadVarint(s) ==
    IF \E n \in 1..5 : VarintEnds(s, n)
    THEN LET n == CHOOSE n \in 1..5 : VarintEnds(s, n)
         IN  [is |-> "ok", used |-> n,
              value |-> Part(s, n, 1) + Part(s, n, 2) + Part(s, n, 3)
                          + Part(s, n, 4) + Part(s, n, 5)]
    ELSE IF Len(s) < 5 THEN More ELSE Bad

VarintLen_OffByOne(v) ==
    IF v < 0 THEN 5
    ELSE IF v <= 128 THEN 1
    ELSE IF v < 16384 THEN 2
    ELSE IF v < 2097152 THEN 3
    ELSE IF v < 268435456 THEN 4
    ELSE 5

VarintLen(v) ==
    IF v < 0 THEN 5
    ELSE IF v < 128 THEN 1
    ELSE IF v < 16384 THEN 2
    ELSE IF v < 2097152 THEN 3
    ELSE IF v < 268435456 THEN 4
    ELSE 5

(* The i-th group of v as u32.                                             *)
Digit(v, i) == (v \div Weight[i]) % (IF i < 5 THEN 128 ELSE 16)

EncodeVarint(v) ==
    [i \in 1..VarintLen(v) |-> Digit(v, i) + (IF i < VarintLen(v) THEN 128 ELSE 0)]

---------------------------------------------------------------------------
(* Packets and strings                                                     *)

Rest(read, s) == SubSeq(s, read.used + 1, Len(s))

EncodePacket_DataLength(id, data) ==
    EncodeVarint(Len(data)) \o EncodeVarint(id) \o data

EncodePacket(id, data) ==
    EncodeVarint(Len(EncodeVarint(id)) + Len(data)) \o EncodeVarint(id) \o data

(* A whole packet has come; its length prefix is written anew for raw.     *)
PacketOf_RawData(body, used) ==
    LET id == ReadVarint(body)
    IN  IF id.is # "ok" THEN Bad
        ELSE [is |-> "ok", id |-> id.value, data |-> Rest(id, body), used |-> used,
              raw |-> EncodeVarint(Len(body)) \o Rest(id, body)]

PacketOf(body, used) ==
    LET id == ReadVarint(body)
    IN  IF id.is # "ok" THEN Bad
        ELSE [is |-> "ok", id |-> id.value, data |-> Rest(id, body), used |-> used,
              raw |-> EncodeVarint(Len(body)) \o body]

ReadPacket_Greedy(s) ==
    LET length == ReadVarint(s)
    IN  IF length.is # "ok" THEN length
        ELSE IF length.value \notin 0..MaxPacketLen THEN Bad
        ELSE IF Len(s) < length.used + length.value THEN More
        ELSE PacketOf(Rest(length, s), Len(s))

ReadPacket(s) ==
    LET length == ReadVarint(s)
        end == length.used + length.value
    IN  IF length.is # "ok" THEN length
        ELSE IF length.value \notin 0..MaxPacketLen THEN Bad
        ELSE IF Len(s) < end THEN More
        ELSE PacketOf(SubSeq(s, length.used + 1, end), end)

EncodeString(text) == EncodeVarint(Len(text)) \o text

Utf8(text) == \A i \in DOMAIN text : text[i] < 128

ReadString(s) ==
    LET length == ReadVarint(s)
        end == length.used + length.value
        text == SubSeq(s, length.used + 1, end)
    IN  IF length.is # "ok" \/ length.value \notin 0..MaxStringLen THEN Bad
        ELSE IF Len(s) < end \/ ~Utf8(text) THEN Bad
        ELSE [is |-> "ok", text |-> text, used |-> end]

---------------------------------------------------------------------------
(* What clients say first                                                  *)

(* The address up to a NUL: modded clients append markers to it.           *)
BeforeNul(text) ==
    LET nuls == {i \in DOMAIN text : text[i] = 0}
        first == CHOOSE i \in nuls : \A j \in nuls : i <= j
    IN  IF nuls = {} THEN text ELSE SubSeq(text, 1, first - 1)

ParseHandshake_NoPort(data) ==
    LET version == ReadVarint(data)
        address == ReadString(Rest(version, data))
        next == ReadVarint(Rest(address, Rest(version, data)))
    IN  IF version.is # "ok" \/ address.is # "ok" \/ next.is # "ok" THEN Bad
        ELSE [is |-> "ok", protocol_version |-> version.value,
              server_address |-> BeforeNul(address.text), next_state |-> next.value]

(* The two bytes of the port are skipped.                                  *)
ParseHandshake(data) ==
    LET version == ReadVarint(data)
        address == ReadString(Rest(version, data))
        after == Rest(address, Rest(version, data))
        next == ReadVarint(SubSeq(after, 3, Len(after)))
    IN  IF version.is # "ok" \/ address.is # "ok" \/ Len(after) < 2 \/ next.is # "ok" THEN Bad
        ELSE [is |-> "ok", protocol_version |-> version.value,
              server_address |-> BeforeNul(address.text), next_state |-> next.value]

ParseLoginStart_WholeBody(data) ==
    LET name == ReadString(data)
    IN  IF name.is # "ok" \/ name.used < Len(data) THEN Bad ELSE name

(* Whatever follows the name is left alone.                                *)
ParseLoginStart(data) == ReadString(data)

Lower(text) ==
    [i \in DOMAIN text |-> IF text[i] \in 65..90 THEN text[i] + 32 ELSE text[i]]

(* handle_connection_inner: where a handshake packet leads.                *)
Route(data, server_address) ==
    LET handshake == ParseHandshake(data)
    IN  IF handshake.is # "ok" THEN "close"
        ELSE IF Lower(handshake.server_address) # Lower(server_address) THEN "close"
        ELSE IF handshake.next_state = 1 THEN "ping"
        ELSE IF handshake.next_state = 2 THEN "login"
        ELSE "close"

---------------------------------------------------------------------------
(* What redoxide says                                                      *)

EncodeStatusResponse(json) == EncodePacket(0, EncodeString(json))

EncodeLoginDisconnect(json) == EncodePacket(0, EncodeString(json))

EncodeLoginPluginRequest(message_id, channel) ==
    EncodePacket(4, EncodeVarint(message_id) \o EncodeString(channel))

(* A probe: the handshake for a status, and the reading of the reply. A    *)
(* length that wraps as usize names a range that ends before it starts, or *)
(* past the data.                                                          *)
ProbeHandshake(host, port) ==
    EncodeVarint(0) \o EncodeString(host) \o <<port \div 256, port % 256>> \o EncodeVarint(1)

ReadStatusReply(s) ==
    LET reply == ReadPacket(s)
        length == ReadVarint(reply.data)
        end == length.used + length.value
    IN  IF reply.is # "ok" THEN reply
        ELSE IF reply.id # 0 \/ length.is # "ok" THEN Bad
        ELSE IF length.value < 0 \/ end > Len(reply.data) THEN Bad
        ELSE [is |-> "ok", json |-> SubSeq(reply.data, length.used + 1, end)]
=============================================================================
