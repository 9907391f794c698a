------------------------------- MODULE Inputs -------------------------------
(***************************************************************************)
(* Wire and Config on every input up to a bound: a stream that grows byte  *)
(* by byte, as a TCP stream does, and a server.properties that grows line  *)
(* by line. What they compute is compared with what their callers count    *)
(* on; the actions are the inputs' own.                                    *)
(***************************************************************************)
EXTENDS Wire, Config

CONSTANTS
    Bytes,       \* the bytes a stream is made of
    MaxStream,   \* bound: length of the stream
    Numbers,     \* VarInts to write
    Lines,       \* lines of server.properties
    MaxLines,    \* bound: lines of the file
    Configs      \* what config.toml may hold

(* No byte that leads a multi-byte character of UTF-8.                     *)
ASSUME BytesAssumption == Bytes \subseteq (0..255) \ (192..247)
ASSUME NumbersAssumption == Numbers \subseteq Int32
ASSUME LinesAssumption == Lines \subseteq [key : STRING, value : STRING]

VARIABLES
    stream,  \* what a peer has sent
    config,  \* what config.toml holds
    lines,   \* the lines of the file read so far
    found    \* what they have set

vars == <<stream, config, lines, found>>

Init ==
    /\ stream = <<>> /\ lines = <<>>
    /\ config \in Configs /\ found = Locals(config)

Receive(b) ==
    /\ lines = <<>> /\ Len(stream) < MaxStream
    /\ stream' = Append(stream, b)
    /\ UNCHANGED <<config, lines, found>>

AddLine(l) ==
    /\ stream = <<>> /\ Len(lines) < MaxLines
    /\ lines' = Append(lines, l)
    /\ found' = ApplyLine(found, l)
    /\ UNCHANGED <<stream, config>>

Next ==
    \/ \E b \in Bytes : Receive(b)
    \/ \E l \in Lines : AddLine(l)

Spec == Init /\ [][Next]_vars

---------------------------------------------------------------------------
(* Properties                                                              *)

(* A VarInt is read back from what is written of it, for every i32, and    *)
(* whatever follows is left unread (varint.rs:5-60).                       *)
VarintRoundTrip ==
    \A v \in Numbers :
        ReadVarint(EncodeVarint(v) \o stream)
            = [is |-> "ok", value |-> v, used |-> Len(EncodeVarint(v))]

(* What has been read of a stream does not depend on what comes later: a   *)
(* packet is found whole, at the same place, however the stream is cut     *)
(* (packet.rs:17-40).                                                      *)
FramingIsStable ==
    [][ ReadPacket(stream).is # "more" => ReadPacket(stream') = ReadPacket(stream) ]_stream

(* The raw form kept for forwarding is, but for a length prefix longer     *)
(* than it need be, what was consumed, and the server reads the same       *)
(* packet in it (packet.rs:29-33, README.md:42).                           *)
ForwardedIsRead ==
    LET packet == ReadPacket(stream)
        minimal == EncodeVarint(ReadVarint(stream).value)
    IN  packet.is = "ok" =>
            /\ ReadPacket(packet.raw) = [packet EXCEPT !.used = Len(packet.raw)]
            /\ packet.raw = minimal \o
                  SubSeq(stream, ReadVarint(stream).used + 1, packet.used)

(* A client's name is found whatever its protocol version appends to it    *)
(* (handshake.rs:34-43).                                                   *)
LoginNameIsFound ==
    \A n \in 0..Len(stream) :
        LET name == SubSeq(stream, 1, n)
            tail == SubSeq(stream, n + 1, Len(stream))
            read == ParseLoginStart(EncodeString(name) \o tail)
        IN  Utf8(name) /\ n <= MaxStringLen => read.is = "ok" /\ read.text = name

(* A handshake leads where the code means it to, whatever the marker after *)
(* a NUL, the port and the address's letter case (handshake.rs:11-32,      *)
(* proxy.rs:27-43): here the probe's own, with an address and a marker.    *)
(* proxy.rs:29-30 lowers both addresses, where README.md:51 says that they *)
(* must match exactly; only the code's word is stated here.                *)
HandshakeIsRouted ==
    \A n \in 0..Len(stream), port \in {0, 25565} :
        LET host == SubSeq(stream, 1, n)
            data == ProbeHandshake(stream, port)
        IN  Utf8(stream) /\ Len(stream) <= MaxStringLen =>
                Route(data, host) = IF Lower(host) = Lower(BeforeNul(stream))
                                    THEN "ping" ELSE "close"

(* What redoxide writes, of any length that fits a packet, is what the     *)
(* other side reads: a status, which is also how a probe of another        *)
(* redoxide sees it, a disconnect and a keepalive (status.rs:23-38,        *)
(* packet.rs:42-58, proxy.rs:389-401).                                     *)
RepliesAreRead ==
    /\ Len(EncodeString(stream)) < MaxPacketLen =>
          /\ ReadStatusReply(EncodeStatusResponse(stream)) = [is |-> "ok", json |-> stream]
          /\ ReadPacket(EncodeLoginDisconnect(stream)).data = EncodeString(stream)
    /\ \A id \in Numbers :
          1 + Len(EncodeVarint(id)) + Len(EncodeString(stream)) <= MaxPacketLen =>
              LET query == ReadPacket(EncodeLoginPluginRequest(id, stream))
                  message == ReadVarint(query.data)
              IN  /\ query.id = 4 /\ message.value = id
                  /\ Rest(message, query.data) = EncodeString(stream)

(* The last line that counts wins, whatever came before it: junk for the   *)
(* player limit does not count, junk for the port does. RCON is configured *)
(* from the file only where config.toml is silent, the last switch is on   *)
(* and the last password is one (config.rs:73-118). The last condition is  *)
(* the code's alone: README.md:136 asks for the switch and no password.    *)
LastOf(file, key, values, default) ==
    LET counting == {i \in DOMAIN file : file[i].key = key /\ file[i].value \in values}
    IN  IF counting = {} THEN default
        ELSE file[CHOOSE i \in counting : \A j \in counting : j <= i].value

LastLineWins ==
    LET limit == LastOf(lines, "max-players", DOMAIN AsI32, "")
        port == LastOf(lines, "rcon.port", STRING, "")
        password == LastOf(lines, "rcon.password", STRING, "")
        wanted == LastOf(lines, "enable-rcon", STRING, "false") = "true" /\ password # ""
    IN  ApplyServerProperties(config, found) =
            [max_players |-> IF limit \in DOMAIN AsI32 THEN AsI32[limit]
                             ELSE config.max_players,
             online_motd |-> LastOf(lines, "motd", STRING, config.online_motd),
             rcon |-> IF config.rcon # NoRcon \/ ~wanted THEN config.rcon
                      ELSE [port |-> IF port \in DOMAIN AsU16 THEN AsU16[port]
                                    ELSE DefaultRconPort,
                            password |-> password]]
=============================================================================
