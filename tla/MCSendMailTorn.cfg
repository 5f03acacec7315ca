SPECIFICATION Spec
CONSTANTS
    p = p
    q = q
    Recipients <- MCRecipients
    List <- MCList
    Loops = {w1, w2, w3}
    MaxAbandoned = 1
    MayTear = TRUE
INVARIANTS
    AtMostOnce
CHECK_DEADLOCK FALSE
