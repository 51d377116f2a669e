---------------------------- MODULE MCRbProtocol ----------------------------
(* Small instances of RbProtocol for TLC. *)
EXTENDS RbProtocol, TLC

\* the restart marker, and two packets of which the first is late after the second
MCNumbers == {-1, 1, 2}
OneNumber == {1}
=============================================================================
