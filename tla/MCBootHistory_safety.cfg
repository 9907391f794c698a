SPECIFICATION BootSpec
CONSTANTS
    Conns = {c1, c2}
    Timers = {t1, t2}
    Starts = {s1}
    None = None
    Faults = {"start_fails", "stop_fails", "stop_panics", "external"}
    SlowPolls = TRUE
    MaxArmers = 1
    MaxCrashes = 1
SYMMETRY Symmetry
INVARIANTS
    TypeOK
    SessionsCounted
    HandleNamesLive
    NoLostFailure
    LockHeld
PROPERTIES
    OneStartPerBoot
    LoginWaits
    OnlyEmptyIsStopped
