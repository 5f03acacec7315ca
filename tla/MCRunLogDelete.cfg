SPECIFICATION RunLogSlice
CONSTANTS
    RunJobs = {"read", "send"}
    Scopes <- MCScopes
    Outcomes = {"ok", "failed"}
    capacity = 1
    failureCapacity = 1
    MaxRuns = 2
    MaxClicks = 4
PROPERTIES
    DeletesTheCounted
CHECK_DEADLOCK FALSE
