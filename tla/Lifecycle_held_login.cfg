SPECIFICATION FairSpec
CONSTANTS
    Conns = {c1}
    Timers = {t1, t2}
    Starts = {s1}
    None = None
    Faults = {}
    SlowPolls = FALSE
    MaxArmers = 1
    MaxCrashes = 0
PROPERTIES
    HeldLoginProceeds
