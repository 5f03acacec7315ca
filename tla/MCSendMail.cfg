SPECIFICATION Spec
CONSTANTS
    p = p
    q = q
    Recipients <- MCRecipients
    List <- MCList
    Loops = {w1, w2, w3}
    MaxAbandoned = 1
    MayTear = FALSE
SYMMETRY Symmetry
INVARIANTS
    TypeOK
    AtMostOnce
    MarkerPrecedesMail
    NobodyForgotten
    HopelessMeansBlocked
    ReportIsTrue
CHECK_DEADLOCK FALSE
