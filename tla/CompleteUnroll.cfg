SPECIFICATION Spec
CONSTANTS
    Vtxo = {v1, v2}
    Amount <- MCAmount
    Leaves <- BothExits
    SmallNumber = 1
    Provider = "other"
    FeeRates = {5, 15, 30, 120}
    Dust = 330
    MaxHeight = 4
    MaxStep = 1
    MaxFailures = 1
INVARIANTS
    TypeOK
    ExitsAreMature
    ExitConservesValue
CHECK_DEADLOCK FALSE
