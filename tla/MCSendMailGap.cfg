SPECIFICATION Spec
CONSTANTS
    p = p
    q = q
    Recipients <- MCRecipients
    List <- MCList
    Loops = {w1, w2, w3}
    MaxAbandoned = 1
    MayTear = FALSE
INVARIANTS
    NeverTwice
CHECK_DEADLOCK FALSE
