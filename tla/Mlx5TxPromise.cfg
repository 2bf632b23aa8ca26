SPECIFICATION Spec
CONSTANTS
    Frames = {f1, f2, f3, f4}
    BBs = 4
    MultiSlots = 12
    CQEntries = 4
    W = 8
    Modes = {"copy"}
    InlineLen = 2
    Lens = {1, 3}
    MPWMaxLen = 3
    MaxDS = 12
    SignalEvery = 0
    Faults = {}
    MaxBatch = 2
    MaxPi = 12
    MaxFaults = 0
SYMMETRY Symmetry
INVARIANTS
    PromiseKept
