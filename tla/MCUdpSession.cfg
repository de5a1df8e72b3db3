CONSTANTS
    a1 = a1
    a2 = a2
    a3 = a3
    p1 = p1
    NULL = NULL
    Addr <- MCAddr
    Peers = {p1}
    MaxCreates = 3
    Amounts <- MCAmounts
    Rates = {2}
    Default = 2
    BufLen = 1
    Micro = 2
    ClockRes = 4
    Wide = 32
    Grace = 1
    TimeGrace = 0
    EndFrames = 1
    MaxTime = 1
    MaxTx = 2
    Apps = {"server", "tradeoff", "reverse"}
    PeerModes = {"none", "reverse", "dual", "tradeoff"}
SYMMETRY MCSymmetry
SPECIFICATION Spec
INVARIANT TypeOK
INVARIANT ReportHeldIffTimerPending

\* lwiperf only reacts to the application, the stack and the timers: once
\* every session has ended and no further start is made, it is idle.
CHECK_DEADLOCK FALSE
