SPECIFICATION FairSpec
CONSTANTS
    Probers = {p1, p2}
    Releases <- MCReleases
    ConfigInfo <- MCConfigInfo
    None = None
    Torn = Torn
    Faults = {"save_fails"}
    Pings = {c1}
    SlowUpdates = FALSE
    MaxUpgrades = 2
    MaxCrashes = 1
INVARIANTS
    TypeOK
    CacheIsReal
    KnownIsCurrent
    CacheMatches
    PingIsCurrent
PROPERTIES
    HelloEnds
CHECK_DEADLOCK FALSE
