SPECIFICATION Spec
CONSTANTS
    MaxPacketLen = 12
    MaxStringLen = 4
    AsI32 <- MCAsI32
    AsU16 <- MCAsU16
    NoRcon = NoRcon
    Bytes <- MCBytes
    MaxStream = 6
    Numbers <- MCNumbers
    Lines <- MCLines
    MaxLines = 4
    Configs <- MCConfigs
INVARIANTS
    VarintRoundTrip
    ForwardedIsRead
    LoginNameIsFound
    HandshakeIsRouted
    RepliesAreRead
    LastLineWins
PROPERTIES
    FramingIsStable
CHECK_DEADLOCK FALSE
