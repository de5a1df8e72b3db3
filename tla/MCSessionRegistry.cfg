CONSTANTS
    a1 = a1
    a2 = a2
    a3 = a3
    NULL = NULL
    Addr <- MCAddr
    MaxCreates = 6

SYMMETRY MCSymmetry

SPECIFICATION Spec

INVARIANT RegistryIsExactlyLive
INVARIANT NoDanglingMaster
PROPERTY AbortLeavesNoMatch
