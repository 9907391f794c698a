SPECIFICATION FairSpec
CONSTANTS
    Conns = {c1}
    Timers = {t1, t2}
    Starts = {s1}
    None = None
    SlowPolls = FALSE
    Faults = {"start_fails", "external"}
    MaxArmers = 1
    MaxCrashes = 1
INVARIANTS
    IdleCovered
PROPERTIES
    IdleSettles
    SyncConverges
