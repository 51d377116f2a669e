----------------------------- MODULE ReceiveTask -----------------------------
(***************************************************************************)
(* recv_task of rbprotocol.cpp over both backends: each turn takes at most *)
(* one datagram from the UDP socket and then goes once over the WebSocket  *)
(* clients of WsBackend.  Both read into one buffer, which the UDP backend *)
(* makes larger when a datagram does not fit.  handle_msg is the step that *)
(* hands a payload over; it returns, as RbProtocol shows.                  *)
(***************************************************************************)
EXTENDS WsBackend

CONSTANTS
    UdpLengths,   \* lengths of the datagrams that are sent to the port
    FirstBuf,     \* size of buf when the task begins, 64
    Step,         \* how much buf grows, 16
    MaxInbox      \* bound: datagrams waiting in the socket

ASSUME ReceiveAssumption ==
    /\ UdpLengths \subseteq Nat /\ MaxInbox \in Nat
    /\ FirstBuf \in Nat /\ Chunk <= FirstBuf /\ Step \in Nat \ {0}

VARIABLES
    turn,         \* the backend recv_task turns to next
    inbox,        \* lengths of the datagrams in the UDP socket
    bufSize       \* buf.size()

vars == <<wsVars, turn, inbox, bufSize>>

Init == WsInit /\ turn = "udp" /\ inbox = <<>> /\ bufSize = FirstBuf

DatagramArrives ==
    /\ Len(inbox) < MaxInbox
    /\ \E n \in UdpLengths : inbox' = Append(inbox, n)
    /\ UNCHANGED <<wsVars, turn, bufSize>>

\* a datagram is peeked at until it leaves something of the buffer free
Fits(n, size) == n < size

Grown(n) == CHOOSE size \in {bufSize + Step * k : k \in 0..(n + 1)} :
                /\ Fits(n, size)
                /\ size = bufSize \/ ~Fits(n, size - Step)

\* ProtBackendUdp::recv_iter: peek, take off the socket, parse, and handle_msg
UdpIter ==
    /\ turn = "udp" /\ turn' = "ws"
    /\ IF inbox = <<>> THEN handed' = Nothing /\ UNCHANGED <<inbox, bufSize>>
       ELSE LET n == Head(inbox)
            IN  /\ bufSize' = Grown(n)
                /\ inbox' = Tail(inbox)
                /\ handed' = [payload |-> [i \in 1..(IF n < bufSize' THEN n ELSE bufSize') |-> i],
                              from |-> 0, to |-> n, by |-> "udp"]
    /\ UNCHANGED <<m_clients, client, scan, wire, arrived, peer, sent>>

\* ProtBackendWs::recv_iter, and handle_msg
WsBegin ==
    /\ turn = "ws" /\ scan = 0
    /\ IF m_clients = <<>> THEN turn' = "udp" /\ handed' = Nothing
                               /\ UNCHANGED <<m_clients, client, scan, wire, arrived, peer, sent>>
       ELSE turn' = "scan" /\ RecvIter
    /\ UNCHANGED <<inbox, bufSize>>

WsDecode ==
    /\ turn = "scan" /\ Decode
    /\ turn' = IF scan' = 0 THEN "udp" ELSE "scan"
    /\ UNCHANGED <<inbox, bufSize>>

RecvTask == (UdpIter \/ WsBegin \/ WsDecode) /\ UNCHANGED kind

Elsewhere == UNCHANGED <<turn, inbox, bufSize>>

Next == RecvTask \/ DatagramArrives \/ (WsEnvironment /\ Elsewhere)

Spec == Init /\ [][Next]_vars

\* recv_task goes on, and bytes that were sent arrive
FairSpec == Spec /\ WF_vars(RecvTask) /\ \A fd \in Fds : WF_vars(ByteArrives(fd) /\ Elsewhere)

-----------------------------------------------------------------------------
\* However its bytes arrive and over whichever transport, what is handed to the parser is
\* a whole message, in order and unmasked with the right bytes of the key; a control frame
\* between its fragments takes the ones before it away, and nothing else does
\* (rbprotocolws.cpp 150-213, rbprotocoludp.cpp 83-110).
MessagesIntact == handed.payload = [i \in 1..(handed.to - handed.from) |-> handed.from + i]

\* Nobody starves: recv_iter begins with the first client every time and returns at the
\* first message, and the UDP socket may always be full, yet a complete message of any
\* client and any datagram is handed to the parser in the end (rbprotocol.cpp 430-455,
\* rbprotocolws.cpp 245-265).
NobodyStarves ==
    /\ \A fd \in Fds : sent[fd] # <<>> ~> (handed.by = fd \/ sent[fd] = <<>>)
    /\ inbox # <<>> ~> handed.by = "udp"

\* A client whose connection broke, that asked to close or that broke the protocol is
\* closed in the end; one that left with an orderly end of the connection, or whose last
\* bytes are no whole part of a frame, stays until a send to it fails
\* (rbprotocolws.cpp 108-124, 245-261).
GoneAreClosed ==
    \A fd \in Fds :
        (peer[fd].left \in {"closed", "refused"} \/ (peer[fd].left = "reset" /\ wire[fd] = <<>>))
            ~> fd \notin ToSet(m_clients)
=============================================================================
