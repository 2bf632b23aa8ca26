SPECIFICATION MCFairSpec
CONSTANTS
    Frames = {f1, f2, f3}
    BBs = 2
    MultiSlots = 6
    CQEntries = 3
    W = 4
    Modes = {"single", "pointer", "copy"}
    InlineLen = 0
    Lens = {0, 1, 3}
    MPWMaxLen = 2
    MaxDS = 8
    SignalEvery = 0
    Faults = {"opcode", "format", "stale"}
    MaxBatch = 2
    MaxPi = 6
    MaxFaults = 1
INVARIANTS
    NoEarlyRelease
    FramesConserved
    NicReadsOwnEntry
    AcceptedIsFinished
    FullQueueReports
    CqNeverOverruns
PROPERTIES
    AllReturned
    KeepsTxContract
