SPECIFICATION Spec
CONSTANTS
    a = a
    b = b
    typo = typo
    NoJob = NoJob
    NoRun = NoRun
    Jobs = {a, b}
    Runs = {r1, r2, r3}
    Ids = {x}
    Typos = {typo}
    Policies <- MCPolicies
    EffectFree = {b}
    SeenCapacity = 2
    MaxBatch = 1
SYMMETRY Symmetry
INVARIANTS
    TypeOK
    OneRunPerJob
    HandlersNested
    RetryNeverOverlaps
    RecordedOnce
    NoDuplicateIds
PROPERTIES
    MemoryHoldsStill
    CursorMovesOnlyWithItsRun
    ImplementsCursorStore
CHECK_DEADLOCK FALSE
