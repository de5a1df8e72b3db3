CONSTANTS
    N = 3
    MaxDups = 1
    Width = 8
    Milli = 2
    Micro = 4
    Nano = 8
    MaxClock = 0
    Steps = {1}
    RecvBoots = {1}
    SendEpochs = {1019}

SPECIFICATION Spec

INVARIANT LossAtMostSent

\* The sender emits N datagrams and stops; once the network has delivered
\* or dropped them all the test is over, which is not a deadlock.
CHECK_DEADLOCK FALSE
