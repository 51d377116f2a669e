----------------------------- MODULE MCWebFiles -----------------------------
(* A small instance of WebFiles for TLC: files of up to two chunks, and      *)
(* ranges inside and across the end, and from the end.                       *)
EXTENDS WebFiles, TLC

AllHeaders == UpgradeHeaders \cup {"Sec-WebSocket-Version", "Host"}
MCRanges == {[first |-> 0, last |-> 0], [first |-> 1, last |-> 2],
             [first |-> 2, last |-> 4], [first |-> -1, last |-> 0]}
=============================================================================
