CONSTANTS
    a1 = a1
    a2 = a2
    a3 = a3
    p1 = p1
    NULL = NULL
    Addr <- MCAddr
    Peers = {p1}
    MaxCreates = 3
    Amounts <- MCAmounts
    Default = 2
    BufLen = 1
    Micro = 2
    ClockRes = 4
    Wide = 32
    Grace = 1
    TimeGrace = 0
    EndFrames = 1
    MaxTime = 1
    MaxTx = 2
    Rates = {2}
    Apps = {"tradeoff"}
    PeerModes = {"none"}
SYMMETRY MCSymmetry
SPECIFICATION Spec
PROPERTY AbortCancelsTest
\* lwiperf is idle, not stuck, once every session has ended.
CHECK_DEADLOCK FALSE
