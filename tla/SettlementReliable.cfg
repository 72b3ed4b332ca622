SPECIFICATION Spec
CONSTANTS
    MaxBatch = 2
    VtxoLeaves = 1
    Vtxos = {v1, v2}
    Requeue = FALSE
    Recoverables = {r1}
    BoardingUtxos = {b1}
    ArkNotes = {}
    Cause = {network}
    NoEvent = NoEvent
    NoBatch = NoBatch
    MaxErrors = 0
    MaxUnrolls = 0
    LossyAnswers = TRUE
INVARIANTS
    ForfeitsAfterTreeSigned
    ForfeitsCoverVtxos
    ResultIsSettled
CHECK_DEADLOCK FALSE
