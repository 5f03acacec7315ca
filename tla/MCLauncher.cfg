SPECIFICATION FairSpec
CONSTANTS
    Launchers = {l1}
    Stoppers = {s1}
    NoOne = NoOne
    MaxRapid = 3
    RapidWindow = 1
    Grace = 1
    StopWait = 2
    MaxSignals = 1
    MaxKills = 1
    MaxLives = 4
INVARIANTS
    TypeOK
    PoliteFirst
    GaveUpForCause
    StopInTime
PROPERTIES
    ImplementsSupervisor
    StopEnds
CHECK_DEADLOCK FALSE
