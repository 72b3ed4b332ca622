SPECIFICATION MCSpec
CONSTANTS
    MaxMessages = 4
    MaxErrors = 2
    Event <- MCEvent
    NoEvent = NoEvent
    Cause = {"BodyTimeoutError", "network"}
INVARIANTS
    NothingAfterAbort
    DeliveredInOrder
    WaitsOnLiveSource
CHECK_DEADLOCK FALSE
