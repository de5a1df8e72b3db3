\* Servers for every peer mode next to dual and tradeoff clients: the
\* accepted connections of both sides share the three blocks.
CONSTANTS
    a1 = a1
    a2 = a2
    a3 = a3
    NULL = NULL
    Addr <- MCAddr
    MaxCreates = 3
    SetLen = 2
    Block = 4
    Mss = 3
    SndBuf = 3
    MaxIdle = 2
    MaxTime = 1
    MaxPressure = 1
    MaxRx = 3
    MaxTx = 8
    Amounts <- MCAmounts
    BufLens = {0}
    SegLens = {1, 3}
    Apps = {"server", "dual", "tradeoff"}
    PeerModes = {"none", "reverse", "dual", "tradeoff"}
SYMMETRY MCSymmetry
SPECIFICATION Spec
INVARIANT TypeOK
INVARIANT RxBytesExact
INVARIANT AcceptedRoleConsistent
\* lwiperf only reacts to the application and the stack: once every session
\* has ended and no further start is made, the system is idle, not stuck.
CHECK_DEADLOCK FALSE
