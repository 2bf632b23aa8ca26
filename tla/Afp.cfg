SPECIFICATION MCSpec
CONSTANTS
    TxOwn = {a, b}
    TxForeign = {x}
    TxSegs = {s, t}
    TxBatch = 2
    MaxPending = 2
    MaxChain = 2
    IovBudget = 3
    MaxDescs = 3
    MaxSent = 3
    CounterSize = 8
    NFrames = 2
    BlockNr = 2
    PerBlock = 2
    BigNeeds = 2
    Kinds = {"fits", "big", "clipped", "bad"}
    HiddenKinds = {"fits"}
    MaxReceive = 2
    MaxPackets = 4
    BaseIndex = 2
    Count = 4
    FrameSize = 2
    RegionFrames = 7
    MaxRejected = 1
INVARIANTS
    WireIsAsked
    AfpTxOneOwner
    ReceiveAccounts
    ContinuesIfWhole
    NoUnmappedRead
    NothingLost
PROPERTIES
    PollEnds
    KeepsTxContract
CHECK_DEADLOCK FALSE
