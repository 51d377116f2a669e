------------------------------- MODULE UdpHub -------------------------------
(***************************************************************************)
(* rb::Udp of rbudp.cpp: one socket per port with callbacks, shared by all *)
(* of them, and one task that reads the sockets in turn.  The task holds   *)
(* m_mutex over a whole round, callbacks included, so users only get in    *)
(* between two rounds; a callback that calls Udp itself waits for its own  *)
(* lock.  Descriptors are numbers that lwIP hands out again: other tasks   *)
(* open and close sockets of their own, and some close one of these.       *)
(***************************************************************************)
EXTENDS Integers, Sequences, FiniteSets

CONSTANTS
    Ports,        \* a set of numbers: the round goes through them in order
    Fds,          \* file descriptors
    Datagrams,    \* payloads, each of which arrives at most once
    InboxCap,     \* datagrams lwIP keeps for a socket
    MaxHandles    \* bound: callbacks registered

ASSUME UdpAssumption ==
    /\ Ports \subseteq Nat \ {0} /\ IsFiniteSet(Ports) /\ Fds \subseteq Nat
    /\ InboxCap \in Nat \ {0} /\ MaxHandles \in Nat

VARIABLES
    m_open_sockets,   \* the descriptor of each port, -1 while it cannot be opened again
    m_callbacks,      \* port of each handle, 0 when it is not registered
    m_callback_id_counter,
    bound,            \* the port each descriptor's socket is bound to
    inbox,            \* datagrams waiting in each socket
    port,             \* the socket readTask is at, 0 between two rounds
    pc,               \* "none", "sleep", "read", "pop", "bad", "reopen", "deliver", "stuck"
    buf,              \* the datagram in hand
    todo,             \* callbacks that have not seen it yet
    fresh,            \* datagrams that have not been sent
    sent_to,          \* history: the port each was sent to
    got,              \* history: the handles each was given to, in order
    stray,            \* history: ports whose descriptor somebody else closed
    leaked            \* history: sockets removeCallback should have closed, and did not

hub == <<m_open_sockets, m_callbacks, m_callback_id_counter>>
net == <<bound, inbox, stray, leaked>>
data == <<buf, todo, got>>
vars == <<hub, net, port, pc, data, fresh, sent_to>>

Handles == 1..MaxHandles
NotOpen == -2      \* a port that is not in m_open_sockets
Free == -1         \* a descriptor without a socket
Others == 0        \* one of another task, bound to a port of its own
NoData == "no data"
Registered(p) == {h \in Handles : m_callbacks[h] = p}
MutexFree == pc \in {"none", "sleep"}

Init ==
    /\ m_open_sockets = [p \in Ports |-> NotOpen]
    /\ m_callbacks = [h \in Handles |-> 0] /\ m_callback_id_counter = 0
    /\ bound = [fd \in Fds |-> Free] /\ inbox = [fd \in Fds |-> <<>>]
    /\ stray = {} /\ leaked = {}
    /\ port = 0 /\ pc = "none" /\ buf = NoData /\ todo = {}
    /\ fresh = Datagrams /\ sent_to = [d \in Datagrams |-> Others]
    /\ got = [d \in Datagrams |-> <<>>]

\* socket() and bind(): SO_REUSEADDR lets two sockets have one port
Opens(fd, p) == bound[fd] = Free /\ bound' = [bound EXCEPT ![fd] = p]

\* close(), by whom it does not belong to or not; `left' is left open beside it
Closes(fd, left) ==
    /\ bound' = [f \in Fds |-> IF f = fd THEN Free ELSE bound[f]]
    /\ inbox' = [f \in Fds |-> IF f = fd THEN <<>> ELSE inbox[f]]
    /\ leaked' = (leaked \cup left) \ {fd}

-----------------------------------------------------------------------------
(* The users.                                                                *)

\* Mutant: every callback opens a socket.
Shared_Never(p) == FALSE

Shared(p) == m_open_sockets[p] # NotOpen

onReceive(p) ==
    /\ MutexFree /\ m_callback_id_counter < MaxHandles
    /\ IF Shared(p) THEN UNCHANGED <<m_open_sockets, bound>>
       ELSE \E fd \in Fds : Opens(fd, p) /\ m_open_sockets' = [m_open_sockets EXCEPT ![p] = fd]
    /\ m_callback_id_counter' = m_callback_id_counter + 1
    /\ m_callbacks' = [m_callbacks EXCEPT ![m_callback_id_counter'] = p]
    /\ pc' \in IF pc = "none" THEN {"none", "sleep"} ELSE {"sleep"}
    /\ UNCHANGED <<inbox, stray, leaked, port, data, fresh, sent_to>>

\* the last callback of a port takes the socket with it
LastOf(h) == Registered(m_callbacks[h]) = {h}

\* The descriptor is read from the erased map entry: close() gets it, another one or none.
CloseErased(p) ==
    /\ m_open_sockets' = [m_open_sockets EXCEPT ![p] = NotOpen]
    /\ \E victim \in Fds \cup {-1} :
          /\ Closes(victim, IF p \in stray THEN {} ELSE {m_open_sockets[p]})
          /\ stray' = (stray \ {p}) \cup {q \in Ports \ {p} : m_open_sockets[q] = victim}

removeCallback(h) ==
    /\ MutexFree /\ m_callbacks[h] # 0
    /\ m_callbacks' = [m_callbacks EXCEPT ![h] = 0]
    /\ IF LastOf(h) THEN CloseErased(m_callbacks[h]) ELSE UNCHANGED <<m_open_sockets, net>>
    /\ UNCHANGED <<m_callback_id_counter, port, pc, data, fresh, sent_to>>

\* send opens a socket of its own when the port has none, and closes it again: it
\* leaves nothing behind.  A callback that calls it, or the two above, never returns.
CallsBack ==
    /\ pc = "deliver" /\ todo # {}
    /\ pc' = "stuck"
    /\ UNCHANGED <<hub, net, port, data, fresh, sent_to>>

-----------------------------------------------------------------------------
(* readTask.                                                                 *)

\* Mutant: the iterator stays where it is.
After_Same(p) == {q \in Ports : q >= p /\ m_open_sockets[q] # NotOpen}

After(p) == {q \in Ports : q > p /\ m_open_sockets[q] # NotOpen}
Next_port(p) == IF After(p) = {} THEN 0 ELSE CHOOSE q \in After(p) : \A r \in After(p) : q <= r

\* the iterator moves on, or the round ends and the mutex is free for 25 ms
Advance ==
    /\ port' = Next_port(port)
    /\ pc' = IF port' = 0 THEN "sleep" ELSE "read"

BeginRound ==
    /\ pc = "sleep"
    /\ Advance
    /\ UNCHANGED <<hub, net, data, fresh, sent_to>>

socketFd == m_open_sockets[port]

\* at most one datagram of each socket in a round
ReadNothing ==
    /\ pc = "read" /\ bound[socketFd] # Free /\ inbox[socketFd] = <<>>
    /\ Advance
    /\ UNCHANGED <<hub, net, data, fresh, sent_to>>

Peek ==
    /\ pc = "read" /\ bound[socketFd] # Free /\ inbox[socketFd] # <<>>
    /\ buf' = Head(inbox[socketFd])
    /\ pc' = "pop"
    /\ UNCHANGED <<hub, net, port, todo, got, fresh, sent_to>>

\* the second call may block: it takes what is first in the queue by now
Pop ==
    /\ pc = "pop" /\ bound[socketFd] # Free /\ inbox[socketFd] # <<>>
    /\ inbox' = [inbox EXCEPT ![socketFd] = Tail(@)]
    /\ todo' = Registered(port)
    /\ pc' = "deliver"
    /\ UNCHANGED <<hub, bound, stray, leaked, port, buf, got, fresh, sent_to>>

\* EBADF of either call
SeesClosed ==
    /\ pc \in {"read", "pop"} /\ bound[socketFd] = Free
    /\ pc' = "bad" /\ buf' = NoData
    /\ UNCHANGED <<hub, net, port, todo, got, fresh, sent_to>>

\* reopenSocketLocked closes the descriptor, whoever has it by now ...
CloseBad ==
    /\ pc = "bad"
    /\ Closes(socketFd, {})
    /\ stray' = stray \cup {q \in Ports : m_open_sockets[q] = socketFd}
    /\ pc' = "reopen"
    /\ UNCHANGED <<hub, port, data, fresh, sent_to>>

\* ... and tries until it has a socket
ReopenFails ==
    /\ pc = "reopen"
    /\ m_open_sockets' = [m_open_sockets EXCEPT ![port] = -1]
    /\ UNCHANGED <<m_callbacks, m_callback_id_counter, net, port, pc, data, fresh, sent_to>>

Reopen ==
    /\ pc = "reopen"
    /\ \E fd \in Fds : Opens(fd, port) /\ m_open_sockets' = [m_open_sockets EXCEPT ![port] = fd]
    /\ stray' = stray \ {port}
    /\ Advance
    /\ UNCHANGED <<m_callbacks, m_callback_id_counter, inbox, leaked, data, fresh, sent_to>>

\* Mutant: in no particular order.
Deliver_AnyOrder ==
    /\ pc = "deliver"
    /\ \E h \in todo : got' = [got EXCEPT ![buf] = Append(@, h)] /\ todo' = todo \ {h}
    /\ UNCHANGED <<hub, net, port, pc, buf, fresh, sent_to>>

\* in the order of their handles
Deliver ==
    /\ pc = "deliver"
    /\ \E h \in todo :
          /\ \A k \in todo : h <= k
          /\ got' = [got EXCEPT ![buf] = Append(@, h)]
          /\ todo' = todo \ {h}
    /\ UNCHANGED <<hub, net, port, pc, buf, fresh, sent_to>>

Delivered ==
    /\ pc = "deliver" /\ todo = {}
    /\ buf' = NoData
    /\ Advance
    /\ UNCHANGED <<hub, net, todo, got, fresh, sent_to>>

\* what the task does by itself
ReadTask == BeginRound \/ ReadNothing \/ Peek \/ Pop \/ SeesClosed \/ CloseBad \/ Deliver
            \/ Delivered

-----------------------------------------------------------------------------
(* The network, and the other tasks.                                         *)

Arrives(d, fd) ==
    /\ d \in fresh /\ bound[fd] # Free /\ Len(inbox[fd]) < InboxCap
    /\ inbox' = [inbox EXCEPT ![fd] = Append(@, d)]
    /\ fresh' = fresh \ {d} /\ sent_to' = [sent_to EXCEPT ![d] = bound[fd]]
    /\ UNCHANGED <<hub, bound, stray, leaked, port, pc, data>>

OthersOpen(fd) ==
    /\ Opens(fd, Others)
    /\ UNCHANGED <<hub, inbox, stray, leaked, port, pc, data, fresh, sent_to>>

\* one of theirs, or one that was closed and is not theirs any more
OthersClose(fd) ==
    /\ bound[fd] # Free
    /\ Closes(fd, {})
    /\ stray' = stray \cup {p \in Ports : m_open_sockets[p] = fd}
    /\ UNCHANGED <<hub, port, pc, data, fresh, sent_to>>

Next == \/ ReadTask \/ CallsBack \/ ReopenFails \/ Reopen
        \/ \E p \in Ports : onReceive(p)
        \/ \E h \in Handles : removeCallback(h)
        \/ \E fd \in Fds : OthersOpen(fd) \/ OthersClose(fd) \/ \E d \in Datagrams : Arrives(d, fd)

Spec == Init /\ [][Next]_vars

\* the task runs; nothing says that a port can ever be bound again
FairSpec == Spec /\ WF_vars(ReadTask)

-----------------------------------------------------------------------------
\* m_mutex is free exactly between two rounds, when readTask is at no socket, and a
\* socket that could not be opened again is seen by nobody else (rbudp.cpp 133-203).
TypeOK ==
    /\ m_open_sockets \in [Ports -> Fds \cup {-1, NotOpen}]
    /\ m_callbacks \in [Handles -> Ports \cup {0}] /\ m_callback_id_counter \in 0..MaxHandles
    /\ bound \in [Fds -> Ports \cup {Free, Others}] /\ inbox \in [Fds -> Seq(Datagrams)]
    /\ stray \subseteq Ports /\ leaked \subseteq Fds
    /\ fresh \subseteq Datagrams /\ sent_to \in [Datagrams -> Ports \cup {Others}]
    /\ port \in Ports \cup {0} /\ buf \in Datagrams \cup {NoData} /\ todo \subseteq Handles
    /\ pc \in {"none", "sleep", "read", "pop", "bad", "reopen", "deliver", "stuck"}
    /\ port = 0 <=> MutexFree
    /\ \A p \in Ports : m_open_sockets[p] = -1 => pc = "reopen" /\ port = p
    /\ got \in [Datagrams -> Seq(Handles)]

\* A port is in the map exactly as long as it has a callback.  Its descriptor is a socket
\* bound to it unless somebody else closed it, and every socket bound to a port is the
\* one in the map, but for those left behind when removeCallback, which reads the map
\* entry after it was erased, closed another descriptor or none (rbudp.cpp 55-142).
SocketsMatchCallbacks ==
    /\ TypeOK
    /\ \A p \in Ports : /\ m_open_sockets[p] = NotOpen <=> Registered(p) = {}
                        /\ (m_open_sockets[p] # NotOpen /\ p \notin stray)
                              => m_open_sockets[p] \in Fds /\ bound[m_open_sockets[p]] = p
    /\ \A fd \in Fds : bound[fd] \in Ports =>
          \/ fd \in leaked
          \/ m_open_sockets[bound[fd]] = fd /\ bound[fd] \notin stray

\* Every callback that was registered when a datagram was read is given it once, in the
\* order of registration, and nobody else is; and it was sent to their port, unless
\* somebody closed the port's descriptor, which another socket may have by now
\* (rbudp.cpp 154-197).
GivenOnceInOrder ==
    /\ \A d \in Datagrams : \A i, j \in DOMAIN got[d] : i < j => got[d][i] < got[d][j]
    /\ pc = "deliver" =>
          /\ {got[buf][i] : i \in DOMAIN got[buf]} \cup todo = Registered(port)
          /\ port \notin stray => sent_to[buf] = port

\* The users get the mutex back, unless a callback called Udp, a socket cannot be opened
\* again, or the descriptor was closed and handed out between the two calls that read a
\* datagram, and the second waits for one (rbudp.cpp 133-142, 154-203).
RoundEnds ==
    [](pc = "read" => <>(\/ MutexFree \/ pc = "stuck" \/ [](pc = "reopen")
                         \/ [](pc = "pop" /\ port \in stray)))

=============================================================================
