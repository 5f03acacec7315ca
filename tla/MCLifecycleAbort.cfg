SPECIFICATION Spec
CONSTANTS
    a = a
    b = b
    Jobs = {a, b}
    Order <- MCOrder
    Schedules <- MCSchedules
    Manual = Manual
    Declared <- MCDeclared
    Day = 2
    Ticks = {1, 2}
    Doors = {d}
    MaxTime = 2
    MaxPlans = 2
    MaxExits = 2
INVARIANTS
    RestartAbortsNothing
CHECK_DEADLOCK FALSE
