SPECIFICATION FairSpec
CONSTANTS
    MaxKeepalives = 3
    MaxOthers = 2
INVARIANTS
    TypeOK
    CountIsOutstanding
    CleanUnlessTorn
PROPERTIES
    ImplementsWaitCall
    WaitEnds
CHECK_DEADLOCK FALSE
