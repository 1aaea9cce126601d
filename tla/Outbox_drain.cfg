SPECIFICATION FairSpec
CONSTANTS
    Workers = {w1}
    MaxEvents = 3
    Names = {0, 1}
    NameOf <- TurnsOf
    BatchLimit = 2
    MaxAborts = 1
    MaxCrashes = 1
    BrokerFails = TRUE
PROPERTIES AgedEventSettles
