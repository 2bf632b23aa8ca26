SPECIFICATION MCSpec
CONSTANTS
    RxQ = {r1, r2}
    TxQ = {t1}
    Writers = {w1}
    Closers = {c1, c2}
    QLen = 2
    BatchSize = 1
    IPs = {p1, p2}
    MACs = {m1, m2}
    MaxNeighbors = 1
    Loops = {r1, r2}
    Pinners = {u1}
INVARIANTS
    NothingInsideAfterClose
    OneStackDrives
    NothingStranded
PROPERTIES
    CloseEnds
    PinKept
CHECK_DEADLOCK FALSE
