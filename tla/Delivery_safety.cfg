SPECIFICATION Spec
CONSTANTS
    Runs = {r1, r2}
    Dispatches = {d1, d2}
    Hooks = {h1}
    Kinds = {"order.accepted", "order.timed_out", "craftsman.registered"}
    Client = Client
    Craftsman = Craftsman
    NoUser = NoUser
    Attempts = 2
    MaxNow = 1
    MaxCrashes = 1
    MaxStarted = 2
    StoreFails = TRUE
SYMMETRY DeliverySymmetry
INVARIANTS TypeOK DroppedForATwin HandledMeansTold
PROPERTIES ImplementsQueue
CHECK_DEADLOCK FALSE
