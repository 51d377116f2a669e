------------------------- MODULE MustArriveSession -------------------------
(***************************************************************************)
(* What send_mustarrive and is_mustarrive_complete promise an application: *)
(* within a session every id is handed out once, in increasing order, is   *)
(* outstanding until it is settled and never again.  A new possession      *)
(* closes the session; nothing is promised until the next one is open, and *)
(* nothing outstanding is carried into it.                                 *)
(***************************************************************************)
EXTENDS Naturals

VARIABLES
    resetting,    \* a possession is being taken
    next,         \* the id the next call gets
    outstanding   \* the ids not settled yet

session == <<resetting, next, outstanding>>

SessionInit == resetting = FALSE /\ next = 0 /\ outstanding = {}

Issue ==
    /\ ~resetting
    /\ outstanding' = outstanding \cup {next}
    /\ next' = next + 1
    /\ UNCHANGED resetting

\* acknowledged or given up
Settle ==
    /\ ~resetting
    /\ \E i \in outstanding : outstanding' = outstanding \ {i}
    /\ UNCHANGED <<resetting, next>>

Close ==
    /\ ~resetting
    /\ resetting' = TRUE
    /\ next' = 0
    /\ outstanding' = {}

\* a call caught by the possession may have moved the first id
Open ==
    /\ resetting
    /\ resetting' = FALSE
    /\ next' \in Nat
    /\ UNCHANGED outstanding

SessionNext == Issue \/ Settle \/ Close \/ Open

SessionSpec == SessionInit /\ [][SessionNext]_session
=============================================================================
