------------------------------ MODULE MCUdpHub ------------------------------
(* Small instances of UdpHub for TLC. *)
EXTENDS UdpHub, TLC
=============================================================================
