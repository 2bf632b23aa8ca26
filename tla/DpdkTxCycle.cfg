SPECIFICATION CycleSpec
CONSTANTS
    NRings = 1
    PerRing = 2
    NRx = 0
    Depth = 2
    MaxThresh = 1
    MaxBatch = 2
    MaxTxFaults = 0
    Habits = {"cycle"}
PROPERTIES
    FullRingDrains
CHECK_DEADLOCK FALSE
