SPECIFICATION FairSpec
CONSTANTS
    Own = {o1, o2}
    Foreign = {r1}
    NRings = 2
    Cap = 2
    MaxBatch = 2
INVARIANTS
    OneOwner
PROPERTIES
    FullRingDrains
    KeepsTxContract
CHECK_DEADLOCK FALSE
