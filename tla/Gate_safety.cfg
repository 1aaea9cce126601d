SPECIFICATION Spec
CONSTANTS
    Requests = {q1, q2, q3}
    Ips = {i1}
    Visits <- OneVisit
    Max = 2
    Window = 3
    Second = 2
    MaxNow = 4
    StoreFails = TRUE
SYMMETRY GateSymmetry
INVARIANTS TypeOK LimitHolds TurnedAwayForCause
CHECK_DEADLOCK FALSE
