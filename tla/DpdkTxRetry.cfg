SPECIFICATION TxFairSpec
CONSTANTS
    NRings = 2
    PerRing = 2
    NRx = 0
    Depth = 2
    MaxThresh = 1
    MaxBatch = 2
    MaxTxFaults = 0
    Habits = {"retrier"}
INVARIANTS
    TxOneOwner
CHECK_DEADLOCK FALSE
