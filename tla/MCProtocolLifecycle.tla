------------------------ MODULE MCProtocolLifecycle ------------------------
(* Small instances of ProtocolLifecycle for TLC. *)
EXTENDS ProtocolLifecycle, TLC
=============================================================================
