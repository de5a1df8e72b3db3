---------------------------- MODULE MCUdpSession ----------------------------
(* Model values and bounds for checking UdpSession with TLC.               *)
EXTENDS UdpSession, TLC

CONSTANTS a1, a2, a3, p1

MCAddr == {a1, a2, a3}

(* A byte target of one datagram.                                         *)
MCAmounts == {[time |-> FALSE, n |-> 1]}

(* The default rate and a negative s32_t rate a peer may announce.        *)
MCRatesNegative == {2, -1}

MCSymmetry == Permutations(MCAddr)
=============================================================================
