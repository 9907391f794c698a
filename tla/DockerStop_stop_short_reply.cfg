SPECIFICATION Spec
CONSTANTS
    Rcon = TRUE
    ReplyLengths = {0, 9, 10, 4106, 4107}
    MaxPolls = 30
INVARIANTS
    AlwaysFallsBack
