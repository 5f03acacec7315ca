SPECIFICATION FairSpec
CONSTANTS
    a = a
    b = b
    typo = typo
    NoJob = NoJob
    NoRun = NoRun
    Jobs = {a, b}
    Runs = {r1, r2}
    Ids = {x, y}
    Typos = {typo}
    Policies <- MCPolicies
    EffectFree = {b}
    SeenCapacity = 1
    MaxBatch = 1
PROPERTIES
    ImplementsCursorStore
    EveryRunEnds
CHECK_DEADLOCK FALSE
