SPECIFICATION FairSpec
CONSTANTS
    MaxBatch = 2
    VtxoLeaves = 1
    Vtxos = {v1}
    Requeue = TRUE
    Recoverables = {}
    BoardingUtxos = {}
    ArkNotes = {}
    Cause = {network}
    NoEvent = NoEvent
    NoBatch = NoBatch
    MaxErrors = 1
    MaxUnrolls = 1
    LossyAnswers = TRUE
INVARIANTS
    TypeOK
    JoinsOnce
    CosignsJoinedBatch
    ForfeitsToJoinedBatch
    TreesAccepted
PROPERTIES
    JoinedEnds
    SwapSpec
CHECK_DEADLOCK FALSE
