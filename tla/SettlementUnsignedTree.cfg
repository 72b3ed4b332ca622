SPECIFICATION Spec
CONSTANTS
    MaxBatch = 2
    VtxoLeaves = 1
    Vtxos = {v1}
    Requeue = TRUE
    Recoverables = {}
    BoardingUtxos = {}
    ArkNotes = {}
    Cause = {network}
    NoEvent = NoEvent
    NoBatch = NoBatch
    MaxErrors = 1
    MaxUnrolls = 0
    LossyAnswers = FALSE
INVARIANTS
    ForfeitsAfterTreeSigned
CHECK_DEADLOCK FALSE
