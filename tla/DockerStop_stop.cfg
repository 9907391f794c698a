SPECIFICATION FairSpec
CONSTANTS
    Rcon = TRUE
    ReplyLengths = {0, 9, 10, 4106, 4107}
    MaxPolls = 30
INVARIANTS
    TypeOK
PROPERTIES
    ImplementsStopCall
    StopEnds
