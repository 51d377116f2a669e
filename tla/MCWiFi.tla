------------------------------- MODULE MCWiFi -------------------------------
(* Small instances of WiFi for TLC. *)
EXTENDS WiFi, TLC
=============================================================================
