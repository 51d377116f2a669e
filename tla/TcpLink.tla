------------------------------- MODULE TcpLink -------------------------------
(***************************************************************************)
(* rb::Tcp of rbtcp.cpp: one socket, the task that reads it every 25 ms    *)
(* into a buffer that grows, the callbacks that get what was read, and the *)
(* destructor.  The bytes of the peer are numbered; the ones a connection  *)
(* still holds when it is closed are skipped.  lwIP reports EBADF for a    *)
(* descriptor of -1 only.  The buffer's sizes are scaled down.             *)
(***************************************************************************)
EXTENDS Integers, FiniteSets, Sequences, SequencesExt

CONSTANTS
    FirstSize,    \* size of the buffer when the task begins, 64
    Grow,         \* how much a full buffer grows, 16
    FullSize,     \* a buffer of this size is handed over full, 1024
    MaxBytes,     \* bound: bytes the peer sends
    MaxHandles    \* bound: callbacks registered in the life of the socket

ASSUME TcpAssumption ==
    /\ FirstSize \in Nat \ {0} /\ Grow \in 1..FirstSize
    /\ FullSize \in Nat /\ FirstSize < FullSize
    /\ MaxBytes \in Nat /\ MaxHandles \in Nat

VARIABLES
    m_fd,         \* -1, or 1 for the first connection and 2 for the next
    locked,       \* m_mutex is held by the reading task
    m_callbacks,  \* handles of the registered callbacks
    m_cbCounter,
    reader,       \* where the reading task is
    buf,          \* its buffer: size, capacity, bufOff and the data up to it
    at,           \* the handle of the callback it called last, 0 for none
    peer,         \* bytes sent, bytes read, and how the connection ended
    caller,       \* what another task waits to do under the mutex
    destructor,   \* where ~TcpSocketReal is
    heard,        \* history: per callback, bytes read before it came and bytes given to it
    gaps          \* history: the stretches of bytes that were read and given to nobody

vars == <<m_fd, locked, m_callbacks, m_cbCounter, reader, buf, at, peer, caller,
          destructor, heard, gaps>>

Handles == 1..MaxHandles
Idle == [op |-> "none", handle |-> 0]
Deaf == [since |-> 0, bytes |-> <<>>]
Smaller(m, n) == IF m < n THEN m ELSE n
Larger(m, n) == IF m < n THEN n ELSE m

\* a socket that could not be opened gets no task, and the result of xTaskCreate is
\* ignored: in both cases m_readTask stays uninitialised
Init ==
    /\ m_fd \in {1, -1}
    /\ reader = "never" \/ (m_fd = 1 /\ reader = "begin")
    /\ locked = FALSE /\ m_callbacks = {} /\ m_cbCounter = 0
    /\ buf = [size |-> FirstSize, capacity |-> FirstSize, data |-> <<>>] /\ at = 0
    /\ peer = [sent |-> 0, read |-> 0, end |-> "none"]
    /\ caller = Idle /\ destructor = "none"
    /\ heard = [h \in Handles |-> Deaf] /\ gaps = <<>>

-----------------------------------------------------------------------------
(* The peer.                                                                 *)

PeerSends ==
    /\ peer.end = "none" /\ peer.sent < MaxBytes /\ m_fd > 0
    /\ peer' = [peer EXCEPT !.sent = @ + 1]
    /\ UNCHANGED <<m_fd, locked, m_callbacks, m_cbCounter, reader, buf, at, caller,
                   destructor, heard, gaps>>

PeerEnds ==
    /\ peer.end = "none" /\ m_fd > 0
    /\ \E end \in {"fin", "reset"} : peer' = [peer EXCEPT !.end = end]
    /\ UNCHANGED <<m_fd, locked, m_callbacks, m_cbCounter, reader, buf, at, caller,
                   destructor, heard, gaps>>

-----------------------------------------------------------------------------
(* readTask.  It holds the mutex except while it sleeps.                     *)

\* Mutant: the first look is left to the loop's body.
Begin_NoLook ==
    /\ reader = "begin" /\ ~locked
    /\ reader' = "asleep"
    /\ UNCHANGED <<m_fd, locked, m_callbacks, m_cbCounter, buf, at, peer, caller,
                   destructor, heard, gaps>>

\* the first look at m_fd; a task that ends here ends with the mutex
Begin ==
    /\ reader = "begin" /\ ~locked
    /\ IF m_fd >= 0 THEN reader' = "asleep" /\ UNCHANGED locked
       ELSE reader' = "deleted" /\ locked' = TRUE
    /\ UNCHANGED <<m_fd, m_callbacks, m_cbCounter, buf, at, peer, caller, destructor,
                   heard, gaps>>

\* Mutant: the buffer keeps the size of what was read last.
Wake_SameSize ==
    /\ reader = "asleep" /\ ~locked
    /\ reader' = "reading" /\ locked' = TRUE
    /\ buf' = [buf EXCEPT !.data = <<>>]
    /\ UNCHANGED <<m_fd, m_callbacks, m_cbCounter, at, peer, caller, destructor,
                   heard, gaps>>

Wake ==
    /\ reader = "asleep" /\ ~locked
    /\ reader' = "reading" /\ locked' = TRUE
    /\ buf' = [buf EXCEPT !.size = buf.capacity, !.data = <<>>]
    /\ UNCHANGED <<m_fd, m_callbacks, m_cbCounter, at, peer, caller, destructor,
                   heard, gaps>>

\* what is left in the buffer is not looked at again
Sleep == /\ reader' = "asleep" /\ locked' = FALSE
         /\ buf' = [buf EXCEPT !.data = <<>>] /\ at' = 0

Unread == peer.sent - peer.read
Rest == buf.size - Len(buf.data)
Numbers(first, n) == [i \in 1..n |-> first + i - 1]

\* recv fails while m_fd is a descriptor: what this round has read is given to nobody
RecvFails ==
    /\ reader = "reading" /\ m_fd >= 0
    /\ Unread = 0 /\ peer.end # "fin"
    /\ gaps' = IF buf.data = <<>> THEN gaps ELSE Append(gaps, ToSet(buf.data))
    /\ Sleep
    /\ UNCHANGED <<m_fd, m_callbacks, m_cbCounter, peer, caller, destructor, heard>>

\* resize(size + 16), as std::vector allocates
Grown == [size |-> buf.size + Grow,
          capacity |-> IF buf.size + Grow <= buf.capacity THEN buf.capacity
                       ELSE buf.size + Larger(buf.size, Grow)]

\* Mutant: the next part is read over the first.
Filled_FromStart(new) == IF Len(new) = Rest THEN new ELSE buf.data \o new

Filled(new) == buf.data \o new

\* recv returns data, or 0 when the peer has closed the connection
Recv ==
    LET res  == Smaller(Unread, Rest)
        data == Filled(Numbers(peer.read + 1, res))
    IN  /\ reader = "reading" /\ m_fd >= 0
        /\ Unread > 0 \/ peer.end = "fin"
        /\ peer' = [peer EXCEPT !.read = @ + res]
        /\ IF res < Rest \/ buf.size >= FullSize
           THEN /\ buf' = [buf EXCEPT !.size = Len(data), !.data = data]
                /\ reader' = "calling" /\ at' = 0
           ELSE /\ buf' = [size |-> Grown.size, capacity |-> Grown.capacity, data |-> data]
                /\ UNCHANGED <<reader, at>>
        /\ UNCHANGED <<m_fd, locked, m_callbacks, m_cbCounter, caller, destructor,
                       heard, gaps>>

\* EBADF
RecvBad ==
    /\ reader = "reading" /\ m_fd < 0
    /\ reader' = "reopening"
    /\ UNCHANGED <<m_fd, locked, m_callbacks, m_cbCounter, buf, at, peer, caller,
                   destructor, heard, gaps>>

\* the openSocket that succeeds; the ones that fail change nothing
reopenSocketLocked ==
    /\ reader = "reopening"
    /\ m_fd' = 2
    /\ peer' = [sent |-> peer.sent, read |-> peer.sent, end |-> "none"]
    /\ Sleep
    /\ UNCHANGED <<m_callbacks, m_cbCounter, caller, destructor, heard, gaps>>

After(handle) == {h \in m_callbacks : h > handle}
First(handles) == CHOOSE h \in handles : \A other \in handles : h <= other

Callback ==
    /\ reader = "calling" /\ After(at) # {}
    /\ at' = First(After(at))
    /\ heard' = [heard EXCEPT ![at'].bytes = @ \o buf.data]
    /\ UNCHANGED <<m_fd, locked, m_callbacks, m_cbCounter, reader, buf, peer, caller,
                   destructor, gaps>>

\* Mutant: the round ends with the mutex.
CallbacksDone_KeepsLock ==
    /\ reader = "calling" /\ After(at) = {}
    /\ reader' = "asleep"
    /\ UNCHANGED <<m_fd, locked, m_callbacks, m_cbCounter, buf, at, peer, caller,
                   destructor, heard, gaps>>

CallbacksDone ==
    /\ reader = "calling" /\ After(at) = {}
    /\ Sleep
    /\ UNCHANGED <<m_fd, m_callbacks, m_cbCounter, peer, caller, destructor, heard, gaps>>

\* the idle task frees a deleted task, and the memory is used again
IdleFrees ==
    /\ reader = "deleted"
    /\ reader' = "reused"
    /\ UNCHANGED <<m_fd, locked, m_callbacks, m_cbCounter, buf, at, peer, caller,
                   destructor, heard, gaps>>

-----------------------------------------------------------------------------
(* The owner's tasks.                                                        *)

Ask ==
    /\ caller = Idle /\ destructor = "none"
    /\ \/ caller' = [op |-> "onReceive", handle |-> 0]
       \/ \E h \in 1..m_cbCounter : caller' = [op |-> "removeCallback", handle |-> h]
    /\ UNCHANGED <<m_fd, locked, m_callbacks, m_cbCounter, reader, buf, at, peer,
                   destructor, heard, gaps>>

onReceive ==
    /\ caller.op = "onReceive" /\ ~locked
    /\ m_cbCounter < MaxHandles
    /\ m_cbCounter' = m_cbCounter + 1
    /\ m_callbacks' = m_callbacks \cup {m_cbCounter'}
    /\ heard' = [heard EXCEPT ![m_cbCounter'] = [since |-> peer.read, bytes |-> <<>>]]
    /\ caller' = Idle
    /\ UNCHANGED <<m_fd, locked, reader, buf, at, peer, destructor, gaps>>

removeCallback ==
    /\ caller.op = "removeCallback" /\ ~locked
    /\ m_callbacks' = m_callbacks \ {caller.handle}
    /\ heard' = [heard EXCEPT ![caller.handle] = Deaf]
    /\ caller' = Idle
    /\ UNCHANGED <<m_fd, locked, m_cbCounter, reader, buf, at, peer, destructor, gaps>>

\* the last TcpSocket that shares the socket goes away: nobody is inside a call
Close ==
    /\ destructor = "none" /\ caller = Idle /\ ~locked
    /\ m_fd' = -1
    /\ destructor' = "polling"
    /\ UNCHANGED <<locked, m_callbacks, m_cbCounter, reader, buf, at, peer, caller,
                   heard, gaps>>

\* Mutant: the destructor does not wait.
Poll_Once ==
    /\ destructor = "polling" /\ destructor' = "returned"
    /\ UNCHANGED <<m_fd, locked, m_callbacks, m_cbCounter, reader, buf, at, peer, caller,
                   heard, gaps>>

\* eTaskGetState says eDeleted
Poll ==
    /\ destructor = "polling" /\ reader = "deleted"
    /\ destructor' = "returned"
    /\ UNCHANGED <<m_fd, locked, m_callbacks, m_cbCounter, reader, buf, at, peer, caller,
                   heard, gaps>>

\* ... of a handle that was never set, or whose memory is used again: it may say anything
PollGarbage ==
    /\ destructor = "polling" /\ reader \in {"never", "reused"}
    /\ destructor' = "returned"
    /\ UNCHANGED <<m_fd, locked, m_callbacks, m_cbCounter, reader, buf, at, peer, caller,
                   heard, gaps>>

ReadTask == Begin \/ Wake \/ RecvFails \/ Recv \/ RecvBad \/ Callback \/ CallbacksDone

Next == \/ PeerSends \/ PeerEnds
        \/ ReadTask \/ reopenSocketLocked \/ IdleFrees
        \/ Ask \/ onReceive \/ removeCallback \/ Close \/ Poll \/ PollGarbage

Spec == Init /\ [][Next]_vars

\* the reading task runs; a mutex that is free again and again is got in the end, and
\* the destructor polls often enough; nothing says that a connect succeeds
FairSpec == Spec /\ WF_vars(ReadTask) /\ SF_vars(onReceive) /\ SF_vars(removeCallback)
                 /\ WF_vars(Poll)

-----------------------------------------------------------------------------
Lost == UNION ToSet(gaps)

\* A callback hears, in order and once, every byte read since it was registered, but
\* for the stretches that were given to nobody (rbtcp.cpp 110-138).
NothingElseLost ==
    /\ \A h \in m_callbacks : \A i, j \in DOMAIN heard[h].bytes :
          i < j => heard[h].bytes[i] < heard[h].bytes[j]
    /\ reader = "asleep" /\ m_fd = 1 => \A h \in m_callbacks :
          ToSet(heard[h].bytes) = ((heard[h].since + 1)..peer.read) \ Lost

\* Bytes are lost when they end with the buffer, before it is full size, and the buffer
\* has doubled then: the i-th loss takes at least FirstSize * 2^(i-1) bytes, so a link
\* loses data a few times in its life, however long it lives (rbtcp.cpp 110-134).
LossesDouble ==
    \A i \in DOMAIN gaps :
        Cardinality(gaps[i]) \in (FirstSize * 2^(i - 1))..(FullSize - 1)

\* The object is freed after its task has ended or when it never had one, and a socket
\* is opened again only under a destructor, which then never returns (rbtcp.cpp 44-64,
\* 86-94, 119-121).
DestructorWaits ==
    /\ destructor = "returned" => reader \in {"never", "deleted", "reused"}
    /\ m_fd = 2 => destructor = "polling"

\* A destructor that is quicker than the task's first look is told that the task has
\* ended; any later one closes a socket that the task then tries to open again
\* (rbtcp.cpp 53-64, 104-121).
DestructorSettles ==
    /\ (destructor = "polling" /\ reader = "begin")
           ~> (destructor = "returned" \/ reader = "reused")
    /\ (destructor = "polling" /\ reader \notin {"begin", "never", "deleted", "reused"})
           ~> (reader = "reopening" \/ m_fd = 2)

\* While a task reads and nobody destroys the socket, what has arrived is read, and a call
\* that waits for the mutex gets it between two rounds (rbtcp.cpp 70-84, 104-139).
ArrivedIsRead ==
    /\ (Unread > 0 /\ m_fd = 1 /\ reader # "never") ~> (Unread = 0 \/ destructor # "none")
    /\ \A h \in Handles : (caller = [op |-> "removeCallback", handle |-> h]) ~> (caller = Idle)
=============================================================================
