SPECIFICATION Spec
CONSTANTS
    cl1 = cl1
    cl2 = cl2
    cr1 = cr1
    cr2 = cr2
    ad1 = ad1
    pid1 = pid1
    pid2 = pid2
    Clients = {cl1}
    Craftsmen = {cr1}
    Admins = {}
    ProfileId <- SameIds
    Orders = {o1}
    Requests = {r1, r2, r3, r4}
    TimeoutJob = TimeoutJob
    NoUser = NoUser
    NoOrder = NoOrder
    NoPrice = NoPrice
    WorkerRunning = TRUE
    ClockSkew = FALSE
PROPERTIES
    CompletedIsFinal
CHECK_DEADLOCK FALSE
