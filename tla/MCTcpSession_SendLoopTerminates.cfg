CONSTANTS
    a1 = a1
    a2 = a2
    a3 = a3
    NULL = NULL
    Addr <- MCAddr
    MaxCreates = 2
    SetLen = 2
    Block = 4
    Mss = 3
    SndBuf = 3
    MaxIdle = 2
    MaxTime = 1
    MaxPressure = 1
    MaxRx = 3
    MaxTx = 8
    Amounts <- MCAmounts
    BufLens = {2}
    SegLens = {1, 3}
    Apps = {"server"}
    PeerModes = {"reverse"}
SYMMETRY MCSymmetry
SPECIFICATION Spec
INVARIANT SendLoopTerminates
CHECK_DEADLOCK FALSE
