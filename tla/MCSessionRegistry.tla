------------------------- MODULE MCSessionRegistry -------------------------
EXTENDS SessionRegistry, TLC

CONSTANTS a1, a2, a3

MCAddr == {a1, a2, a3}

MCSymmetry == Permutations(MCAddr)
=============================================================================
