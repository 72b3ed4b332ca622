SPECIFICATION FairSpec
CONSTANTS
    Calls = 3
    Kinds = {"init", "query", "settle", "clear"}
    Key = {k1}
    NoKey = NoKey
    MaxVersion = 1
    MaxFaults = 1
INVARIANTS
    TypeOK
    OneSubscription
    ClearedIsQuiet
    StoreFollows
PROPERTIES
    StoreOnlyAdvances
    EveryCallSettles
CHECK_DEADLOCK FALSE
