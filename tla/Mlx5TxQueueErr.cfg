SPECIFICATION FairSpec
CONSTANTS
    Own = {o1, o2}
    Foreign = {r1}
    NRings = 2
    Cap = 2
    MaxBatch = 2
PROPERTIES
    FailedTakesNothing
CHECK_DEADLOCK FALSE
