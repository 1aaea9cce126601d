SPECIFICATION FairSpec
CONSTANTS
    Workers = {w1, w2}
    MaxEvents = 2
    Names = {0}
    NameOf <- TurnsOf
    BatchLimit = 2
    MaxAborts = 0
    MaxCrashes = 0
    BrokerFails = FALSE
PROPERTIES EventReachesHandlers
CHECK_DEADLOCK FALSE
