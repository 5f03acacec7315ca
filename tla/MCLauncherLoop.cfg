SPECIFICATION Spec
CONSTANTS
    Launchers = {l1}
    Stoppers = {}
    NoOne = NoOne
    MaxRapid = 3
    RapidWindow = 1
    Grace = 1
    StopWait = 2
    MaxSignals = 0
    MaxKills = 0
    MaxLives = 6
INVARIANT CrashLoopSurfaces
CHECK_DEADLOCK FALSE
