SPECIFICATION Spec
CONSTANTS
    Complaints = {c1}
    Orders = {o1}
    Requests = {q1, q2, q3}
    Clients = {u1, u2}
    Admins = {a1}
    Verdicts = {warning}
    None = None
    StoreFails = TRUE
SYMMETRY FeedbackSymmetry
INVARIANTS TypeOK DecidedOnce LastEventTellsStatus OneReviewPerOrder
CHECK_DEADLOCK FALSE
