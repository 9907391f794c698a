---------------------------- MODULE InputsProofs ----------------------------
(***************************************************************************)
(* What Inputs states of streams and of server.properties, proved for      *)
(* streams and files of any length.                                        *)
(***************************************************************************)
EXTENDS Inputs, WireProofs, WellFoundedInduction

(* Only bytes come.                                                        *)
Received == stream \in Seq(Byte)

LEMMA StreamOfBytes == Spec => []Received
<1>1. Init => Received
  BY EmptySeq, Zenon DEF Init, Received
<1>2. Received /\ [Next]_vars => Received'
  <2> SUFFICES ASSUME Received, [Next]_vars
               PROVE  Received'
    OBVIOUS
  <2>1. ASSUME NEW b \in Bytes, Receive(b)
        PROVE  Received'
    <3>1. b \in Byte
      BY BytesAssumption, SMT DEF Byte
    <3> QED
      BY <2>1, <3>1, SMT DEF Receive, Received
  <2>2. ASSUME NEW l \in Lines, AddLine(l)
        PROVE  Received'
    BY <2>2 DEF AddLine, Received
  <2>3. CASE UNCHANGED vars
    BY <2>3 DEF vars, Received
  <2> QED
    BY <2>1, <2>2, <2>3 DEF Next
<1> QED
  BY <1>1, <1>2, PTL DEF Spec

(* The same of the runs' own property, for every set of i32s and however   *)
(* the stream has grown (varint.rs:5-60).                                  *)
THEOREM EveryNumberIsReadBack == Spec => []VarintRoundTrip
<1>1. Received => VarintRoundTrip
  BY NumbersAssumption, VarintsRoundTrip, Zenon DEF VarintRoundTrip, Received
<1> QED
  BY <1>1, StreamOfBytes, PTL

(* A packet is found whole, at the same place, however its stream is cut,  *)
(* for any limit on its length (packet.rs:17-40).                          *)
THEOREM FramingStays == Spec => FramingIsStable
<1>1. Received /\ [Next]_vars =>
        [ReadPacket(stream).is # "more" => ReadPacket(stream') = ReadPacket(stream)]_stream
  <2> SUFFICES ASSUME Received, [Next]_vars, stream' # stream,
                      ReadPacket(stream).is # "more"
               PROVE  ReadPacket(stream') = ReadPacket(stream)
    OBVIOUS
  <2>1. ASSUME NEW b \in Bytes, Receive(b)
        PROVE  ReadPacket(stream') = ReadPacket(stream)
    <3>1. b \in Byte
      BY BytesAssumption, SMT DEF Byte
    <3>2. stream' = Append(stream, b)
      BY <2>1, Zenon DEF Receive
    <3> QED
      BY <3>1, <3>2, PacketStays, Zenon DEF Received
  <2>2. ~(\E l \in Lines : AddLine(l)) /\ ~(UNCHANGED vars)
    BY Zenon DEF AddLine, vars
  <2> QED
    BY <2>1, <2>2, Zenon DEF Next
<1> QED
  BY <1>1, StreamOfBytes, PTL DEF Spec, FramingIsStable

(* The raw form of what was read of any stream is read again as the same   *)
(* packet (packet.rs:29-33).                                               *)
THEOREM ForwardedStaysRead == Spec => []ForwardedIsRead
<1>1. Received => ForwardedIsRead
  <2> SUFFICES ASSUME Received, ReadPacket(stream).is = "ok"
               PROVE  LET packet == ReadPacket(stream)
                          minimal == EncodeVarint(ReadVarint(stream).value)
                      IN  /\ ReadPacket(packet.raw) = [packet EXCEPT !.used = Len(packet.raw)]
                          /\ packet.raw = minimal \o
                                SubSeq(stream, ReadVarint(stream).used + 1, packet.used)
    BY Zenon DEF ForwardedIsRead
  <2> QED
    BY RawIsReadAgain, Zenon DEF Received
<1> QED
  BY <1>1, StreamOfBytes, PTL

(* A name of any length within the limit is found, whatever follows it     *)
(* (handshake.rs:34-43).                                                   *)
THEOREM LoginNameIsAlwaysFound == Spec => []LoginNameIsFound
<1>1. Received => LoginNameIsFound
  <2> SUFFICES ASSUME Received, NEW n \in 0..Len(stream),
                      Utf8(SubSeq(stream, 1, n)), n <= MaxStringLen
               PROVE  LET name == SubSeq(stream, 1, n)
                          tail == SubSeq(stream, n + 1, Len(stream))
                          read == ParseLoginStart(EncodeString(name) \o tail)
                      IN  read.is = "ok" /\ read.text = name
    BY Zenon DEF LoginNameIsFound
  <2> DEFINE name == SubSeq(stream, 1, n)
             tail == SubSeq(stream, n + 1, Len(stream))
  <2>1. Len(stream) \in Nat
    BY LenProperties, Zenon DEF Received
  <2>2. /\ n \in Nat /\ n <= Len(stream) /\ n + 1 \in Nat \ {0} /\ 1 \in Nat \ {0}
        /\ Len(stream) <= Len(stream)
        /\ (1 <= n => n - 1 + 1 = n) /\ (~(1 <= n) => 0 = n)
    BY <2>1, SMT
  <2>3. name \in Seq(Byte) /\ Len(name) = n
    <3>1. /\ name \in Seq(Byte)
          /\ Len(name) = IF 1 <= n THEN n - 1 + 1 ELSE 0
      BY <2>2, PieceOfBytes, Zenon DEF Received
    <3> HIDE DEF name
    <3> QED
      BY <2>2, <3>1, Zenon
  <2>4. tail \in Seq(Byte)
    BY <2>1, <2>2, PieceOfBytes, Zenon DEF Received
  <2>5. Utf8(name)
    BY Zenon
  <2> HIDE DEF name, tail
  <2>6. ReadString(EncodeString(name) \o tail)
          = [is |-> "ok", text |-> name, used |-> Len(EncodeString(name))]
    BY <2>3, <2>4, <2>5, StringIsRead, Zenon
  <2>7. /\ ReadString(EncodeString(name) \o tail).is = "ok"
        /\ ReadString(EncodeString(name) \o tail).text = name
    BY <2>6, SMT
  <2> QED
    BY <2>7, Zenon DEF name, tail, ParseLoginStart
<1> QED
  BY <1>1, StreamOfBytes, PTL

(* A handshake with any address within the limit leads where its part      *)
(* before a NUL says (handshake.rs:11-32, proxy.rs:27-43).                 *)
THEOREM HandshakeIsAlwaysRouted == Spec => []HandshakeIsRouted
<1>1. Received => HandshakeIsRouted
  <2> SUFFICES ASSUME Received, NEW n \in 0..Len(stream), NEW port \in {0, 25565},
                      Utf8(stream), Len(stream) <= MaxStringLen
               PROVE  Route(ProbeHandshake(stream, port), SubSeq(stream, 1, n))
                        = IF Lower(SubSeq(stream, 1, n)) = Lower(BeforeNul(stream))
                          THEN "ping" ELSE "close"
    BY SMT DEF HandshakeIsRouted
  <2>1. port \in Port
    BY SMT DEF Port
  <2> QED
    BY <2>1, ProbeIsRouted, SMT DEF Received
<1> QED
  BY <1>1, StreamOfBytes, PTL

(* Replies of any length that fits a packet are read (status.rs:23-38,     *)
(* packet.rs:42-58, proxy.rs:389-401).                                     *)
THEOREM RepliesAreAlwaysRead == Spec => []RepliesAreRead
<1>1. Received => RepliesAreRead
  <2> SUFFICES ASSUME Received
               PROVE  RepliesAreRead
    OBVIOUS
  <2>1. Len(EncodeString(stream)) < MaxPacketLen =>
          /\ ReadStatusReply(EncodeStatusResponse(stream)) = [is |-> "ok", json |-> stream]
          /\ ReadPacket(EncodeLoginDisconnect(stream)).data = EncodeString(stream)
    BY StatusIsRead, Zenon DEF Received
  <2>2. ASSUME NEW id \in Numbers,
               1 + Len(EncodeVarint(id)) + Len(EncodeString(stream)) <= MaxPacketLen
        PROVE  LET query == ReadPacket(EncodeLoginPluginRequest(id, stream))
                   message == ReadVarint(query.data)
               IN  /\ query.id = 4 /\ message.value = id
                   /\ Rest(message, query.data) = EncodeString(stream)
    <3>1. id \in Int32
      BY NumbersAssumption, Zenon
    <3> QED
      BY <2>2, <3>1, QueryIsRead, Zenon DEF Received
  <2> QED
    BY <2>1, <2>2, Zenon DEF RepliesAreRead
<1> QED
  BY <1>1, StreamOfBytes, PTL

---------------------------------------------------------------------------
(* server.properties: the last line that counts.                           *)

LEMMA LastExists ==
    ASSUME NEW n \in Nat, NEW S \in SUBSET (1..n), S # {}
    PROVE  \E i \in S : \A j \in S : j <= i
<1> DEFINE T == {n - i : i \in S}
           R == OpToRel(<, Nat)
<1>1. T \subseteq Nat /\ T # {}
  <2>1. \A i \in S : n - i \in Nat
    BY SMT
  <2> QED
    BY <2>1, Zenon
<1>2. \A x, y \in Nat : x < y => <<x, y>> \in R
  BY SMT DEF OpToRel
<1>3. IsWellFoundedOn(R, Nat)
  BY NatLessThanWellFounded, Zenon
<1> HIDE DEF R, T
<1>4. PICK x \in T : \A y \in T : ~ (<<y, x>> \in R)
  BY <1>1, <1>3, WFMin, Zenon
<1>5. PICK i \in S : x = n - i
  BY Zenon DEF T
<1>6. ASSUME NEW j \in S PROVE j <= i
  <2>1. n - j \in T
    BY Zenon DEF T
  <2>2. ~(n - j < n - i)
    BY <1>1, <1>2, <1>4, <1>5, <2>1, Zenon
  <2>3. i \in Int /\ j \in Int
    BY SMT
  <2> QED
    BY <2>2, <2>3, SMT
<1> QED
  BY <1>6, Zenon

LEMMA NothingCounts ==
    ASSUME NEW key, NEW values, NEW default
    PROVE  LastOf(<<>>, key, values, default) = default
<1>1. DOMAIN <<>> = {}
  BY SMT
<1>2. {i \in DOMAIN <<>> : <<>>[i].key = key /\ <<>>[i].value \in values} = {}
  BY <1>1, Zenon
<1> QED
  BY <1>2, Zenon DEF LastOf

(* One more line is the last that counts, or changes nothing.              *)
LEMMA LastOfAppend ==
    ASSUME NEW S, NEW file \in Seq(S), NEW line \in S, NEW key, NEW values, NEW default
    PROVE  LastOf(Append(file, line), key, values, default)
             = IF line.key = key /\ line.value \in values THEN line.value
               ELSE LastOf(file, key, values, default)
<1> DEFINE longer == Append(file, line)
           n == Len(file)
           Counts(l) == l.key = key /\ l.value \in values
           before == {i \in DOMAIN file : Counts(file[i])}
           after == {i \in DOMAIN longer : Counts(longer[i])}
           Top(set) == CHOOSE i \in set : \A j \in set : j <= i
<1>1. /\ n \in Nat /\ DOMAIN file = 1..n /\ DOMAIN longer = 1..(n + 1)
      /\ longer[n + 1] = line /\ \A i \in 1..n : longer[i] = file[i]
  BY SMT
<1>2. /\ n + 1 \in 1..(n + 1) /\ n + 1 \notin 1..n
      /\ \A i \in 1..(n + 1) : i = n + 1 \/ i \in 1..n
      /\ \A i \in 1..n : i \in 1..(n + 1)
      /\ \A i \in 1..(n + 1) : i <= n + 1 /\ (n + 1 <= i => i = n + 1)
  BY <1>1, SMT
<1>3. /\ LastOf(file, key, values, default)
            = IF before = {} THEN default ELSE file[Top(before)].value
      /\ LastOf(longer, key, values, default)
            = IF after = {} THEN default ELSE longer[Top(after)].value
  BY Zenon DEF LastOf
<1> HIDE DEF longer, n
<1>4. ASSUME Counts(line)
      PROVE  LastOf(longer, key, values, default) = line.value
  <2>1. n + 1 \in after /\ \A j \in after : j <= n + 1 /\ (n + 1 <= j => j = n + 1)
    BY <1>1, <1>2, <1>4, Zenon
  <2> HIDE DEF after
  <2>2. Top(after) = n + 1
    BY <2>1, Zenon
  <2> HIDE DEF Top
  <2> QED
    BY <1>1, <1>3, <2>1, <2>2, Zenon
<1>5. ASSUME ~Counts(line)
      PROVE  LastOf(longer, key, values, default) = LastOf(file, key, values, default)
  <2>1. after = before
    BY <1>1, <1>2, <1>5, Zenon
  <2>2. before # {} => Top(before) \in 1..n
    <3>1. before \in SUBSET (1..n)
      BY <1>1, Zenon
    <3> HIDE DEF before
    <3>2. before # {} => \E i \in before : \A j \in before : j <= i
      BY <1>1, <3>1, LastExists, Zenon
    <3> QED
      BY <3>1, <3>2, Zenon
  <2>3. before # {} => longer[Top(before)] = file[Top(before)]
    <3> HIDE DEF before, Top
    <3> QED
      BY <1>1, <2>2, Zenon
  <2>4. Top(after) = Top(before)
    BY <2>1, Zenon
  <2> HIDE DEF after, before, Top
  <2>5. CASE before = {}
    BY <1>3, <2>1, <2>5, Zenon
  <2>6. CASE before # {}
    <3>1. after # {}
      BY <2>1, <2>6, Zenon
    <3>2. LastOf(longer, key, values, default) = longer[Top(after)].value
      BY <1>3, <3>1, Zenon
    <3>3. LastOf(file, key, values, default) = file[Top(before)].value
      BY <1>3, <2>6, Zenon
    <3>4. longer[Top(after)] = file[Top(before)]
      BY <2>3, <2>4, <2>6, Zenon
    <3> QED
      BY <3>2, <3>3, <3>4, Zenon
  <2> QED
    BY <2>5, <2>6, Zenon
<1> QED
  BY <1>4, <1>5, Zenon DEF longer

(* One line more, field by field.                                          *)
LEMMA LineSetsOne ==
    ASSUME NEW limit, NEW motd, NEW on \in BOOLEAN, NEW port, NEW password, NEW line
    PROVE  ApplyLine([max_players |-> limit, online_motd |-> motd, rcon_enabled |-> on,
                      rcon_port |-> port, rcon_password |-> password], line)
             = [max_players |-> IF line.key = "max-players" /\ line.value \in DOMAIN AsI32
                                THEN AsI32[line.value] ELSE limit,
                online_motd |-> IF line.key = "motd" THEN line.value ELSE motd,
                rcon_enabled |-> IF line.key = "enable-rcon" THEN line.value = "true" ELSE on,
                rcon_port |-> IF line.key = "rcon.port"
                              THEN IF line.value \in DOMAIN AsU16 THEN AsU16[line.value]
                                   ELSE DefaultRconPort
                              ELSE port,
                rcon_password |-> IF line.key = "rcon.password" THEN line.value ELSE password]
BY DEF ApplyLine

(* What the loop has found so far, for a configuration c: by the last line *)
(* that counts for each field.                                             *)
Expected(file, c) ==
    [max_players |-> LET limit == LastOf(file, "max-players", DOMAIN AsI32, "")
                     IN  IF limit \in DOMAIN AsI32 THEN AsI32[limit] ELSE c.max_players,
     online_motd |-> LastOf(file, "motd", STRING, c.online_motd),
     rcon_enabled |-> LastOf(file, "enable-rcon", STRING, "false") = "true",
     rcon_port |-> LET port == LastOf(file, "rcon.port", STRING, "")
                   IN  IF port \in DOMAIN AsU16 THEN AsU16[port] ELSE DefaultRconPort,
     rcon_password |-> LastOf(file, "rcon.password", STRING, "")]

LEMMA NothingIsExpected ==
    ASSUME NEW c
    PROVE  Expected(<<>>, c) = Locals(c)
<1>1. /\ LastOf(<<>>, "max-players", DOMAIN AsI32, "") = ""
      /\ LastOf(<<>>, "motd", STRING, c.online_motd) = c.online_motd
      /\ LastOf(<<>>, "enable-rcon", STRING, "false") = "false"
      /\ LastOf(<<>>, "rcon.port", STRING, "") = ""
      /\ LastOf(<<>>, "rcon.password", STRING, "") = ""
  BY NothingCounts, Zenon
<1>2. "" \notin DOMAIN AsI32 /\ "" \notin DOMAIN AsU16
  BY NumberAssumption, Zenon
<1>3. ("false" = "true") = FALSE
  BY SMT
<1> QED
  BY <1>1, <1>2, <1>3, Zenon DEF Expected, Locals

LEMMA ExpectedNext ==
    ASSUME NEW c, NEW file \in Seq(Lines), NEW line \in Lines
    PROVE  Expected(Append(file, line), c) = ApplyLine(Expected(file, c), line)
<1>1. line.value \in STRING
  BY LinesAssumption, SMT
<1> DEFINE longer == Append(file, line)
           limit == LastOf(file, "max-players", DOMAIN AsI32, "")
           motd == LastOf(file, "motd", STRING, c.online_motd)
           switch == LastOf(file, "enable-rcon", STRING, "false")
           port == LastOf(file, "rcon.port", STRING, "")
           password == LastOf(file, "rcon.password", STRING, "")
<1>2. /\ LastOf(longer, "max-players", DOMAIN AsI32, "")
            = IF line.key = "max-players" /\ line.value \in DOMAIN AsI32 THEN line.value ELSE limit
      /\ LastOf(longer, "motd", STRING, c.online_motd)
            = IF line.key = "motd" THEN line.value ELSE motd
      /\ LastOf(longer, "enable-rcon", STRING, "false")
            = IF line.key = "enable-rcon" THEN line.value ELSE switch
      /\ LastOf(longer, "rcon.port", STRING, "")
            = IF line.key = "rcon.port" THEN line.value ELSE port
      /\ LastOf(longer, "rcon.password", STRING, "")
            = IF line.key = "rcon.password" THEN line.value ELSE password
  <2>1. ASSUME NEW key, NEW values, NEW default
        PROVE  /\ line.key = key /\ line.value \in values
                    => LastOf(longer, key, values, default) = line.value
               /\ ~(line.key = key /\ line.value \in values)
                    => LastOf(longer, key, values, default) = LastOf(file, key, values, default)
    BY LastOfAppend
  <2>2. ASSUME NEW key, NEW default
        PROVE  LastOf(longer, key, STRING, default)
                 = IF line.key = key THEN line.value ELSE LastOf(file, key, STRING, default)
    BY <1>1, <2>1, Zenon
  <2> QED
    BY <2>1, <2>2, Zenon
<1> HIDE DEF longer, limit, motd, switch, port, password
<1> DEFINE players == IF limit \in DOMAIN AsI32 THEN AsI32[limit] ELSE c.max_players
           number == IF port \in DOMAIN AsU16 THEN AsU16[port] ELSE DefaultRconPort
           new == [max_players |-> IF line.key = "max-players" /\ line.value \in DOMAIN AsI32
                                   THEN AsI32[line.value] ELSE players,
                   online_motd |-> IF line.key = "motd" THEN line.value ELSE motd,
                   rcon_enabled |-> IF line.key = "enable-rcon" THEN line.value = "true"
                                    ELSE switch = "true",
                   rcon_port |-> IF line.key = "rcon.port"
                                 THEN IF line.value \in DOMAIN AsU16 THEN AsU16[line.value]
                                      ELSE DefaultRconPort
                                 ELSE number,
                   rcon_password |-> IF line.key = "rcon.password" THEN line.value ELSE password]
<1>3. Expected(longer, c) = new
  <2>1. (LET l == LastOf(longer, "max-players", DOMAIN AsI32, "")
         IN  IF l \in DOMAIN AsI32 THEN AsI32[l] ELSE c.max_players) = new.max_players
    BY <1>2
  <2>2. (LET p == LastOf(longer, "rcon.port", STRING, "")
         IN  IF p \in DOMAIN AsU16 THEN AsU16[p] ELSE DefaultRconPort) = new.rcon_port
    BY <1>2
  <2>3. (LastOf(longer, "enable-rcon", STRING, "false") = "true") = new.rcon_enabled
    BY <1>2
  <2> QED
    BY <1>2, <2>1, <2>2, <2>3 DEF Expected
<1>4. Expected(file, c) = [max_players |-> players, online_motd |-> motd,
            rcon_enabled |-> switch = "true", rcon_port |-> number, rcon_password |-> password]
  BY Zenon DEF Expected, limit, motd, switch, port, password
<1>5. ApplyLine(Expected(file, c), line) = new
  <2>1. (switch = "true") \in BOOLEAN
    BY Zenon
  <2> HIDE DEF players, number
  <2>2. PICK on \in BOOLEAN : on = (switch = "true")
    BY <2>1, Zenon
  <2>3. ApplyLine([max_players |-> players, online_motd |-> motd, rcon_enabled |-> on,
                   rcon_port |-> number, rcon_password |-> password], line)
          = [new EXCEPT !.rcon_enabled =
                IF line.key = "enable-rcon" THEN line.value = "true" ELSE on]
    BY LineSetsOne
  <2>4. [new EXCEPT !.rcon_enabled =
            IF line.key = "enable-rcon" THEN line.value = "true" ELSE on] = new
    BY <2>2
  <2>5. Expected(file, c) = [max_players |-> players, online_motd |-> motd,
            rcon_enabled |-> on, rcon_port |-> number, rcon_password |-> password]
    BY <1>4, <2>2
  <2> HIDE DEF new
  <2> QED
    BY <2>3, <2>4, <2>5, Zenon
<1> HIDE DEF new
<1> QED
  BY <1>3, <1>5, Zenon DEF longer

(* The loop's invariant.                                                   *)
FoundIsExpected ==
    /\ lines \in Seq(Lines)
    /\ found = Expected(lines, config)

LEMMA LoopFindsExpected == Spec => []FoundIsExpected
<1>1. Init => FoundIsExpected
  BY EmptySeq, NothingIsExpected, Zenon DEF Init, FoundIsExpected
<1>2. FoundIsExpected /\ [Next]_vars => FoundIsExpected'
  <2> SUFFICES ASSUME FoundIsExpected, [Next]_vars
               PROVE  FoundIsExpected'
    OBVIOUS
  <2>1. ASSUME NEW b \in Bytes, Receive(b)
        PROVE  FoundIsExpected'
    BY <2>1, Zenon DEF Receive, FoundIsExpected
  <2>2. ASSUME NEW l \in Lines, AddLine(l)
        PROVE  FoundIsExpected'
    <3>1. lines' = Append(lines, l) /\ found' = ApplyLine(found, l) /\ config' = config
      BY <2>2, Zenon DEF AddLine
    <3>2. lines' \in Seq(Lines)
      BY <3>1, AppendProperties, Zenon DEF FoundIsExpected
    <3>3. Expected(Append(lines, l), config) = ApplyLine(Expected(lines, config), l)
      BY ExpectedNext, Zenon DEF FoundIsExpected
    <3>4. found' = Expected(lines', config')
      BY <3>1, <3>3, Zenon DEF FoundIsExpected
    <3> QED
      BY <3>2, <3>4, Zenon DEF FoundIsExpected
  <2>3. CASE UNCHANGED vars
    BY <2>3, Zenon DEF vars, FoundIsExpected
  <2> QED
    BY <2>1, <2>2, <2>3, Zenon DEF Next
<1> QED
  BY <1>1, <1>2, PTL DEF Spec

(* The last line that counts wins in a file of any length, whatever parses *)
(* as a number (config.rs:73-118).                                         *)
THEOREM LastLineAlwaysWins == Spec => []LastLineWins
<1>1. FoundIsExpected => LastLineWins
  <2> SUFFICES ASSUME FoundIsExpected
               PROVE  LastLineWins
    OBVIOUS
  <2> DEFINE limit == LastOf(lines, "max-players", DOMAIN AsI32, "")
             port == LastOf(lines, "rcon.port", STRING, "")
             switch == LastOf(lines, "enable-rcon", STRING, "false")
             password == LastOf(lines, "rcon.password", STRING, "")
             motd == LastOf(lines, "motd", STRING, config.online_motd)
             players == IF limit \in DOMAIN AsI32 THEN AsI32[limit] ELSE config.max_players
             number == IF port \in DOMAIN AsU16 THEN AsU16[port] ELSE DefaultRconPort
  <2>1. found = [max_players |-> players, online_motd |-> motd,
            rcon_enabled |-> switch = "true", rcon_port |-> number, rcon_password |-> password]
    BY Zenon DEF FoundIsExpected, Expected
  <2> HIDE DEF players, number, motd, switch, password
  <2>2. /\ found.max_players = players /\ found.online_motd = motd
        /\ found.rcon_enabled = (switch = "true")
        /\ found.rcon_port = number /\ found.rcon_password = password
    BY <2>1
  <2>3. ApplyServerProperties(config, found)
          = [max_players |-> players, online_motd |-> motd,
             rcon |-> IF (switch = "true") /\ password # "" /\ config.rcon = NoRcon
                      THEN [port |-> number, password |-> password] ELSE config.rcon]
    BY <2>2, Zenon DEF ApplyServerProperties
  <2>4. (IF (switch = "true") /\ password # "" /\ config.rcon = NoRcon
         THEN [port |-> number, password |-> password] ELSE config.rcon)
          = IF config.rcon # NoRcon \/ ~(switch = "true" /\ password # "") THEN config.rcon
            ELSE [port |-> number, password |-> password]
    BY Zenon
  <2>5. ApplyServerProperties(config, found)
          = [max_players |-> players, online_motd |-> motd,
             rcon |-> IF config.rcon # NoRcon \/ ~(switch = "true" /\ password # "")
                      THEN config.rcon ELSE [port |-> number, password |-> password]]
    BY <2>3, <2>4, Zenon
  <2> QED
    BY <2>5, Zenon DEF LastLineWins, players, number, motd, switch, password
<1> QED
  BY <1>1, LoopFindsExpected, PTL
=============================================================================
