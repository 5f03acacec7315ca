SPECIFICATION FairSpec
CONSTANTS
    a = a
    b = b
    typo = typo
    NoJob = NoJob
    NoRun = NoRun
    Jobs = {a, b}
    Runs = {r1, r2}
    Ids = {x}
    Typos = {typo}
    Policies <- MCPolicies
    EffectFree = {b}
    SeenCapacity = 2
    MaxBatch = 1
PROPERTIES
    RehearsalConsumesNothing
CHECK_DEADLOCK FALSE
