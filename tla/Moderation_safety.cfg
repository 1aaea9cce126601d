SPECIFICATION FairSpec
CONSTANTS
    Craftsmen = {c1}
    Requests = {r1, r2, r3}
    Sessions = {s1}
    Holder <- OneHolder
    Threshold = 2
    NoOne = NoOne
INVARIANTS TypeOK StrikeOutBans BanIsDeserved FlagWasEarned
PROPERTIES ImplementsStanding CachesConverge
