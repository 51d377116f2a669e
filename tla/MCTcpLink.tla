------------------------------ MODULE MCTcpLink ------------------------------
(* A small instance of TcpLink for TLC: two losses fit into MaxBytes.        *)
EXTENDS TcpLink, TLC
=============================================================================
