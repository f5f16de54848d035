CONSTANTS
    Users = {u1, u2}
    AccessSeconds = 1
    RefreshTime = 3
    MaxPairs = 3
    MaxTime = 5
SPECIFICATION Spec
SYMMETRY UserSymmetry
INVARIANTS
    TypeOK OneGoodTokenPerSession LoggedOutTokensStayOut CutIsFinal
PROPERTIES
    SessionsStayEnded
CHECK_DEADLOCK FALSE
