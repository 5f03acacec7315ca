SPECIFICATION TrackerSpec
CONSTANTS
    LinkIds = {"l1", "l2"}
    ClickIds = {"c1"}
    MaxMishaps = 4
INVARIANTS
    NoLinkExpires
CHECK_DEADLOCK FALSE
