SPECIFICATION Spec
CONSTANTS
    Requests = {q1, q2}
    Ips = {i1}
    Visits <- TwoVisits
    Max = 2
    Window = 6
    Second = 2
    MaxNow = 7
    StoreFails = FALSE
INVARIANT OnboardingIsMandatory
CHECK_DEADLOCK FALSE
