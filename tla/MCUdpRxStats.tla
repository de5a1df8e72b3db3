--------------------------- MODULE MCUdpRxStats ---------------------------
(* Model-checking instance of UdpRxStats; the constants are given in the   *)
(* .cfg files.                                                             *)
EXTENDS UdpRxStats
=============================================================================
