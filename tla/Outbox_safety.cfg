SPECIFICATION Spec
CONSTANTS
    Workers = {w1, w2}
    MaxEvents = 2
    Names = {0}
    NameOf <- TurnsOf
    BatchLimit = 2
    MaxAborts = 1
    MaxCrashes = 1
    BrokerFails = TRUE
SYMMETRY WorkerSymmetry
INVARIANTS TypeOK RepeatsHaveACause
PROPERTIES SettledRowIsFinal ImplementsRelay
