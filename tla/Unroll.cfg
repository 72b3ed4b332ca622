SPECIFICATION FairSpec
CONSTANTS
    s1 = s1
    s2 = s2
    Tx <- MCTx
    Parents <- MCParents
    Kind <- MCKind
    Session = {s1, s2}
    Chain <- ChainsPart
    Coin = {c1, c2}
    NoCoin = NoCoin
    MaxFailures = 1
    MaxEvictions = 1
INVARIANTS
    TypeOK
    ParentsFirst
    DoneIsConfirmed
PROPERTIES
    ExitSpec
    SessionEnds
CHECK_DEADLOCK FALSE
