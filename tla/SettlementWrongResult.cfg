SPECIFICATION Spec
CONSTANTS
    MaxBatch = 2
    VtxoLeaves = 1
    Vtxos = {}
    Requeue = TRUE
    Recoverables = {r1}
    BoardingUtxos = {}
    ArkNotes = {}
    Cause = {network}
    NoEvent = NoEvent
    NoBatch = NoBatch
    MaxErrors = 0
    MaxUnrolls = 0
    LossyAnswers = FALSE
INVARIANTS
    ResultIsSettled
CHECK_DEADLOCK FALSE
