---------------------------- MODULE MCTcpSession ----------------------------
(* Model values and bounds for checking TcpSession with TLC.               *)
EXTENDS TcpSession, TLC

CONSTANTS a1, a2, a3

MCAddr == {a1, a2, a3}

(* Byte targets on and off a block boundary, and a time target.           *)
MCAmounts == {[time |-> FALSE, n |-> 4], [time |-> FALSE, n |-> 7],
              [time |-> TRUE, n |-> 1]}

(* A byte target and a time target.                                        *)
MCAmountsTwo == {[time |-> FALSE, n |-> 4], [time |-> TRUE, n |-> 1]}

(* A byte target of zero: the peer asks for a reverse test of 0 bytes.     *)
MCAmountsZero == {[time |-> FALSE, n |-> 0]}

MCSymmetry == Permutations(MCAddr)
=============================================================================
