SPECIFICATION TxSpec
CONSTANTS
    TxOwn = {a, b}
    TxForeign = {}
    TxSegs = {s}
    TxBatch = 2
    MaxPending = 2
    MaxChain = 1
    IovBudget = 2
    MaxDescs = 2
    MaxSent = 2
    CounterSize = 8
INVARIANT StatsNeverWrap
CHECK_DEADLOCK FALSE
