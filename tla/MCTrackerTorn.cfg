SPECIFICATION TrackerSpec
CONSTANTS
    LinkIds = {"l1", "l2"}
    ClickIds = {"c1"}
    MaxMishaps = 2
INVARIANTS
    CostsTheLastLine
CHECK_DEADLOCK FALSE
