SPECIFICATION Spec
CONSTANTS
    Call = {c1, c2}
    Funding = {{1}, {720}, {600, 900, 1500}, {500, 610}, {304}, {304, 200}}
    Received = {550}
    Amounts = {1, 546, 1000}
    FeeRates = {0, 15, 28}
    ParentVSize = 150
    Relay = 330
    MaxCoin = 5
    MaxFailures = 1
SYMMETRY CallSymmetry
INVARIANTS
    TypeOK
    BalanceAddsUp
    FewestInputs
    EnoughOrInsufficient
    OneCoinPaysTheRate
CHECK_DEADLOCK FALSE
