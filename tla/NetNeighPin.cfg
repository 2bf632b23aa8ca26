SPECIFICATION NeighSpec
CONSTANTS
    IPs = {p1, p2}
    MACs = {m1, m2}
    MaxNeighbors = 2
    Loops = {g1}
    Pinners = {u1}
INVARIANT PinDecides
CHECK_DEADLOCK FALSE
