SPECIFICATION Spec
CONSTANTS
    Vtxo = {v1}
    Amount <- BigAmount
    Leaves <- SecondsExit
    SmallNumber = 1
    Provider = "esplora"
    FeeRates = {10}
    Dust = 330
    MaxHeight = 4
    MaxStep = 1
    MaxFailures = 0
INVARIANTS
    ReadyExitCompletes
CHECK_DEADLOCK FALSE
