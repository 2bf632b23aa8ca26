SPECIFICATION MCSpec
CONSTANTS
    Frames = {f1, f2, f3}
    SupplyCap = 2
    Bulk = 2
    MaxPkts = 3
    MaxFrees = 1
    MaxFaults = 1
    NRings = 2
    PerRing = 2
    NRx = 3
    Depth = 2
    MaxThresh = 2
    MaxBatch = 2
    MaxTxFaults = 1
    Habits = {"sender", "forwarder"}
    Users = {"a", "b"}
    MaxQueues = 2
    MaxOpens = 2
    MayFail = {"init", "probe", "info", "region", "promisc", "isolate", "configure",
               "pool", "setup", "newqueue", "start", "flow",
               "stop", "closeport", "unisolate", "unpromisc", "memory", "remove"}
INVARIANTS
    OneOwner
    NoneSkipped
    NotInStoppedDriver
    TxOneOwner
    DriverHasLiveMemory
    PortAsReported
PROPERTIES
    CloseEnds
    FullRingDrains
CHECK_DEADLOCK FALSE
