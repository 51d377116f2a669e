----------------------------- MODULE WsBackend -----------------------------
(***************************************************************************)
(* The WebSocket backend of rbprotocolws.cpp: the set of clients and the   *)
(* decoder that turns the bytes of each into messages.  A client's bytes   *)
(* arrive one by one, at any time; recv_iter visits the clients in order,  *)
(* moves each decoder by at most one state and stops at the first complete *)
(* message.  A payload byte is its position in its message, masked with    *)
(* one of the four bytes of the frame's key; unmasked with another it is   *)
(* Garbage.  A control frame is a ping, whose payload is no packet.        *)
(* Lengths are scaled down, Chunk stays a multiple of the key.             *)
(***************************************************************************)
EXTENDS Integers, Sequences, SequencesExt

CONSTANTS
    Fds,          \* file descriptors of WebSocket connections
    Lengths,      \* payload lengths of the frames a peer sends
    Mixes,        \* bound: which fds are used, and by what kind of peer
    ShortLen,     \* longest length that fits the header, 125
    Chunk,        \* bytes read at once, 64
    MaxPayload,   \* longest message, 32 * 1024
    MaxUnread     \* bound: a peer sends its next frame when no more bytes are unread

ASSUME WsAssumption ==
    /\ Lengths \subseteq Nat /\ Mixes \subseteq [Fds -> {"absent", "simple", "rich"}]
    /\ ShortLen \in Nat /\ MaxPayload \in Nat /\ MaxUnread \in Nat
    /\ Chunk \in Nat \ {0} /\ Chunk % 4 = 0

VARIABLES
    kind,         \* the mix of peers; a simple one only sends empty messages, and its
                  \* frames arrive as a whole
    m_clients,    \* fds in the order they were added
    client,       \* the decoder of each fd
    scan,         \* position in recv_iter's loop, 0 outside recv_iter
    wire,         \* bytes sent by each peer and not read yet
    arrived,      \* how many of them have arrived
    peer,         \* the message each peer is sending, and how it left
    sent,         \* history: the messages on their way, as stretches of positions
    handed        \* history: the payload just given to rbjson::parse, and what was sent

wsVars == <<kind, m_clients, client, scan, wire, arrived, peer, sent, handed>>

Garbage == 0
FreshClient == [state |-> "INITIAL", fin |-> FALSE, opcode |-> "continue",
                remaining |-> 0, payload |-> <<>>]
\* fragments sent so far, the ones before the last control frame among them
IdlePeer == [open |-> FALSE, length |-> 0, before |-> 0, left |-> "no"]
NoOne == "nobody"
Nothing == [payload |-> <<>>, from |-> 0, to |-> 0, by |-> NoOne]

WsInit ==
    /\ kind \in Mixes
    /\ m_clients = <<>> /\ scan = 0
    /\ client = [fd \in Fds |-> FreshClient]
    /\ wire = [fd \in Fds |-> <<>>] /\ arrived = [fd \in Fds |-> 0]
    /\ peer = [fd \in Fds |-> IdlePeer] /\ sent = [fd \in Fds |-> <<>>]
    /\ handed = Nothing

-----------------------------------------------------------------------------
(* The peers.                                                                *)

Payload(from, n) == [i \in 1..n |-> <<from + i, (i - 1) % 4>>]

FrameBytes(fin, opcode, masked, n, from) ==
    <<<<fin, opcode>>, <<masked, IF n <= ShortLen THEN n ELSE ShortLen + 1>>>>
    \o (IF n <= ShortLen THEN <<>> ELSE <<n, n>>)
    \o <<"key", "key", "key", "key">> \o Payload(from, n)

Sends(fd, frame) ==
    /\ fd \in ToSet(m_clients) /\ peer[fd].left = "no"
    /\ Len(wire[fd]) <= MaxUnread
    /\ wire' = [wire EXCEPT ![fd] = @ \o frame]
    /\ UNCHANGED <<m_clients, client, scan, arrived, handed>>

\* a message is a text frame and continuations
PeerSends(fd, fin, n) ==
    LET total == peer[fd].length + n
    IN  /\ total <= MaxPayload
        /\ Sends(fd, FrameBytes(fin, IF peer[fd].open THEN "continue" ELSE "text",
                                TRUE, n, peer[fd].length))
        /\ peer' = [peer EXCEPT ![fd] = IF fin THEN IdlePeer
                                        ELSE [@ EXCEPT !.open = TRUE, !.length = total]]
        /\ sent' = IF fin THEN [sent EXCEPT ![fd] = Append(@, [from |-> peer[fd].before,
                                                              to |-> total])]
                   ELSE sent

\* a control frame, which may come between the fragments of a message
PeerPings(fd) ==
    /\ Sends(fd, FrameBytes(TRUE, "ping", TRUE, 0, 0))
    /\ peer' = [peer EXCEPT ![fd].before = peer[fd].length]
    /\ UNCHANGED sent

PeerCloses(fd) ==
    /\ ~peer[fd].open
    /\ \E n \in {0, 2} : Sends(fd, FrameBytes(TRUE, "close", TRUE, n, 0))
    /\ peer' = [peer EXCEPT ![fd].left = "closed"]
    /\ UNCHANGED sent

\* a frame the decoder refuses: not masked, with a 64 bit length, or too long
PeerMisbehaves(fd) ==
    /\ ~peer[fd].open
    /\ \E masked \in BOOLEAN, n \in {0, ShortLen + 2, MaxPayload + 1} :
          /\ ~masked \/ n > 0
          /\ Sends(fd, IF n = ShortLen + 2 THEN <<<<TRUE, "text">>, <<masked, ShortLen + 2>>>>
                       ELSE FrameBytes(TRUE, "text", masked, n, 0))
    /\ peer' = [peer EXCEPT ![fd].left = "refused"]
    /\ UNCHANGED sent

\* the peer goes without a close frame: an orderly end of the connection, or a reset,
\* which may take the unread bytes with it
PeerLeaves(fd) ==
    /\ fd \in ToSet(m_clients) /\ peer[fd].left = "no"
    /\ arrived[fd] = Len(wire[fd])
    /\ \/ peer' = [peer EXCEPT ![fd].left = "fin"] /\ UNCHANGED <<wire, arrived>>
       \/ /\ peer' = [peer EXCEPT ![fd].left = "reset"]
          /\ \/ UNCHANGED <<wire, arrived>>
             \/ wire' = [wire EXCEPT ![fd] = <<>>] /\ arrived' = [arrived EXCEPT ![fd] = 0]
    /\ UNCHANGED <<m_clients, client, scan, sent, handed>>

ByteArrives(fd) ==
    /\ arrived[fd] < Len(wire[fd])
    /\ arrived' = [arrived EXCEPT ![fd] = IF kind[fd] = "simple" THEN Len(wire[fd]) ELSE @ + 1]
    /\ UNCHANGED <<kind, m_clients, client, scan, wire, peer, sent, handed>>

-----------------------------------------------------------------------------
(* The client set.  recv_iter and the sending side exclude each other.       *)

\* rb_web_ws_new_connection
addClient(fd) ==
    /\ scan = 0 /\ fd \notin ToSet(m_clients)
    /\ m_clients' = Append(m_clients, fd)
    /\ UNCHANGED <<client, scan, wire, arrived, peer, sent, handed>>

\* closing a connection forgets its decoder and its bytes
Forget(fd) ==
    /\ m_clients' = RemoveFirst(m_clients, fd)
    /\ client' = [client EXCEPT ![fd] = FreshClient]
    /\ wire' = [wire EXCEPT ![fd] = <<>>] /\ arrived' = [arrived EXCEPT ![fd] = 0]
    /\ peer' = [peer EXCEPT ![fd] = IdlePeer] /\ sent' = [sent EXCEPT ![fd] = <<>>]

\* send_from_queue: a ::send fails
SendFails(fd) ==
    /\ scan = 0 /\ fd \in ToSet(m_clients)
    /\ Forget(fd)
    /\ UNCHANGED <<scan, handed>>

-----------------------------------------------------------------------------
(* recv_iter.                                                                *)

RecvIter ==
    /\ scan = 0 /\ m_clients # <<>>
    /\ scan' = 1
    /\ handed' = Nothing
    /\ UNCHANGED <<m_clients, client, wire, arrived, peer, sent>>

Current == m_clients[scan]
NextScan == IF scan < Len(m_clients) THEN scan + 1 ELSE 0
At(state) == scan > 0 /\ client[Current].state = state
Byte(k) == wire[Current][k]

\* read_at_least: all n bytes or none
Read(n) ==
    /\ arrived[Current] >= n
    /\ wire' = [wire EXCEPT ![Current] = SubSeq(@, n + 1, Len(@))]
    /\ arrived' = [arrived EXCEPT ![Current] = @ - n]

\* process_client returned 0 and the message is not complete
MoveOn(c) ==
    /\ client' = [client EXCEPT ![Current] = c]
    /\ scan' = NextScan
    /\ UNCHANGED <<m_clients, peer, sent, handed>>

\* process_client returned -1
CloseCurrent ==
    /\ scan' = IF scan < Len(m_clients) THEN scan ELSE 0
    /\ Forget(Current)
    /\ UNCHANGED handed

\* FULLY_RECEIVED: recv_iter returns, whatever clients are left
Complete(c) ==
    /\ scan' = 0
    /\ client' = [client EXCEPT ![Current] = [c EXCEPT !.state = "INITIAL"]]
    /\ IF c.opcode = "ping" THEN UNCHANGED <<handed, sent>>
       ELSE /\ handed' = [payload |-> c.payload, from |-> Head(sent[Current]).from,
                          to |-> Head(sent[Current]).to, by |-> Current]
            /\ sent' = [sent EXCEPT ![Current] = Tail(@)]
    /\ UNCHANGED <<m_clients, peer>>

\* the frame is over
EndFrame(c) == IF c.fin THEN Complete(c) ELSE MoveOn([c EXCEPT !.state = "INITIAL"])

\* ... and it was a close frame: answered, and the client is gone
Closing(c) == c.fin /\ c.opcode = "close"
CloseGracefully ==
    /\ scan' = 0
    /\ Forget(Current)
    /\ UNCHANGED handed

\* Mutant: recv_iter returns at the first client without enough bytes.
TooFew_EndsPass(n) ==
    /\ arrived[Current] < n
    /\ scan' = 0
    /\ UNCHANGED <<m_clients, client, wire, arrived, peer, sent, handed>>

\* Mutant: an error of recv is taken for an empty connection.
TooFew_IgnoresErrors(n) ==
    /\ arrived[Current] < n
    /\ scan' = NextScan
    /\ UNCHANGED <<m_clients, client, wire, arrived, peer, sent, handed>>

\* read_at_least: the end of the connection reads like bytes that are not there yet, and
\* a reset is reported when no bytes are left
TooFew(n) ==
    /\ arrived[Current] < n
    /\ IF arrived[Current] = 0 /\ peer[Current].left = "reset" THEN CloseCurrent
       ELSE /\ scan' = NextScan
            /\ UNCHANGED <<m_clients, client, wire, arrived, peer, sent, handed>>

ReadInitial ==
    LET c == client[Current]
    IN  /\ At("INITIAL")
        /\ \/ TooFew(2)
           \/ /\ arrived[Current] >= 2
              /\ ~Byte(2)[1] \/ Byte(2)[2] > ShortLen + 1
              /\ CloseCurrent
           \/ /\ Read(2)
              /\ Byte(2)[1] /\ Byte(2)[2] <= ShortLen + 1
              /\ LET short == Byte(2)[2] <= ShortLen
                 IN  MoveOn([state |-> IF short THEN "MASK" ELSE "LEN1",
                             fin |-> Byte(1)[1], opcode |-> Byte(1)[2],
                             remaining |-> IF short THEN Byte(2)[2] ELSE c.remaining,
                             payload |-> IF Byte(1)[2] = "continue" THEN c.payload ELSE <<>>])

ReadLen1 ==
    /\ At("LEN1")
    /\ \/ TooFew(2)
       \/ /\ Read(2)
          /\ MoveOn([client[Current] EXCEPT !.remaining = Byte(1), !.state = "MASK"])

\* Mutant: the limit lets one byte more through.
TooLong_OffByOne(c) == Len(c.payload) + c.remaining > MaxPayload + 1

TooLong(c) == Len(c.payload) + c.remaining > MaxPayload

ReadMask ==
    LET c == client[Current]
    IN  /\ At("MASK")
        /\ \/ TooFew(4)
           \/ /\ arrived[Current] >= 4 /\ c.remaining > 0 /\ TooLong(c)
              /\ CloseCurrent
           \/ /\ c.remaining > 0 /\ ~TooLong(c)
              /\ Read(4)
              /\ MoveOn([c EXCEPT !.state = "DATA",
                                  !.payload = @ \o [i \in 1..c.remaining |-> Garbage]])
           \/ /\ c.remaining = 0 /\ ~Closing(c)
              /\ Read(4)
              /\ EndFrame(c)
           \/ /\ c.remaining = 0 /\ Closing(c) /\ arrived[Current] >= 4
              /\ CloseGracefully

\* Mutant: the key runs on from the message's first frame to the next.
Unmask_ByMessage(byte, k, start) == IF byte[2] = (k - 1) % 4 THEN byte[1] ELSE Garbage

\* the loop over whole chunks of what has arrived; each starts at key byte 0
Unmask(byte, k, start) ==
    IF byte[2] = ((k - start - 1) % Chunk) % 4 THEN byte[1] ELSE Garbage

ReadData ==
    LET c == client[Current]
        n == IF arrived[Current] >= c.remaining THEN c.remaining
             ELSE (arrived[Current] \div Chunk) * Chunk
        start == Len(c.payload) - c.remaining
        filled == [c EXCEPT !.remaining = @ - n,
                            !.payload = [k \in DOMAIN @ |->
                                IF k \in (start + 1)..(start + n)
                                THEN Unmask(Byte(k - start), k, start) ELSE @[k]]]
    IN  /\ At("DATA")
        /\ \/ n = 0 /\ TooFew(c.remaining)
           \/ n = c.remaining /\ Closing(c) /\ CloseGracefully
           \/ /\ n > 0 /\ ~(n = c.remaining /\ Closing(c))
              /\ Read(n)
              /\ IF filled.remaining = 0 THEN EndFrame(filled) ELSE MoveOn(filled)

Decode == ReadInitial \/ ReadLen1 \/ ReadMask \/ ReadData

WsEnvironment ==
    /\ \E fd \in Fds :
          \/ kind[fd] # "absent" /\ addClient(fd)
          \/ SendFails(fd) \/ ByteArrives(fd)
          \/ \E fin \in BOOLEAN, n \in IF kind[fd] = "rich" THEN Lengths ELSE {0} :
                PeerSends(fd, fin, n)
          \/ /\ kind[fd] = "rich"
             /\ PeerPings(fd) \/ PeerCloses(fd) \/ PeerMisbehaves(fd) \/ PeerLeaves(fd)
    /\ UNCHANGED kind

-----------------------------------------------------------------------------
Clients == [state : {"INITIAL", "LEN1", "MASK", "DATA"}, fin : BOOLEAN,
            opcode : {"continue", "text", "ping", "close"}, remaining : Nat, payload : Seq(Nat)]

\* A closed fd has no decoder, a client is listed once, a decoder is between frames or
\* inside one, what it still expects of a payload lies inside the buffer resized for it,
\* and no buffer grows past the limit (rbprotocolws.cpp 58-78, 177-184, 193-213).
DecodersSound ==
    /\ IsInjective(m_clients) /\ ToSet(m_clients) \subseteq Fds
    /\ client \in [Fds -> Clients]
    /\ \A fd \in Fds \ ToSet(m_clients) : client[fd] = FreshClient
    /\ \A fd \in Fds : LET c == client[fd]
                      IN  /\ Len(c.payload) <= MaxPayload
                          /\ c.state = "DATA" => c.remaining \in 1..Len(c.payload)
=============================================================================
