SPECIFICATION Spec
CONSTANTS
    MaxKeepalives = 3
    MaxOthers = 2
INVARIANTS
    CleanHandover
CHECK_DEADLOCK FALSE
