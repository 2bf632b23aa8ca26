SPECIFICATION FairSpec
CONSTANTS
    Frames = {f1, f2, f3}
    Entries = 2
    CQEntries = 3
    W = 4
    Faults = {"opcode", "format", "lost", "repeated"}
    MaxBatch = 2
    MaxPi = 6
    MaxFaults = 1
INVARIANTS
    NoSharedFrame
    OneOwner
    RightFrame
    NoUnmappedRead
PROPERTIES
    ConsumedOrReported
    CloseEnds
CHECK_DEADLOCK FALSE
