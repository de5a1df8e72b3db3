CONSTANTS
    N = 4
    MaxDups = 1
    Width = 8
    Milli = 2
    Micro = 4
    Nano = 8
    MaxClock = 36
    Steps = {17, 18}
    RecvBoots = {1, 509}
    SendEpochs = {1019}

SPECIFICATION Spec

INVARIANT TypeOK
INVARIANT LossExactWhenInOrder
INVARIANT TransitExactModWord

\* The sender emits N datagrams and stops; once the network has delivered
\* or dropped them all and the clock bound is reached the test is over,
\* which is not a deadlock.
CHECK_DEADLOCK FALSE
