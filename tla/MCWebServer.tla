---------------------------- MODULE MCWebServer ----------------------------
(* A small instance of WebServer for TLC. *)
EXTENDS WebServer, TLC

OneHeader == {"Upgrade: websocket"}
=============================================================================
