SPECIFICATION FairSpec
CONSTANTS
    Tx = {t1}
    Tick = {i1, i2}
    MaxFaults = 2
    MaxQueued = 2
INVARIANTS
    PolledOnce
    AnsweredWatchEnds
PROPERTIES
    StoppedIsQuiet
    ConfirmationReported
CHECK_DEADLOCK FALSE
