----------------------------- MODULE RbProtocol -----------------------------
(***************************************************************************)
(* rb::Protocol of rbprotocol.cpp between start() and stop(): application  *)
(* tasks that send, the receiving task that runs handle_msg, the sending   *)
(* task that drains m_sendQueue and resends, and the peers around them.    *)
(*                                                                         *)
(* Grain.  A critical section of m_mutex is one action: it never blocks    *)
(* inside.  m_mustarrive_mutex is held across blocking calls, so it is a   *)
(* variable, mustarrive_owner.  m_mustarrive_e is incremented under that   *)
(* mutex but reset under m_mutex, a data race: the increment is a load and *)
(* a store.  A packet is its address, its command and its "n", "f", "e".   *)
(***************************************************************************)
EXTENDS Integers, Sequences, SequencesExt

CONSTANTS
    Apps,         \* application tasks calling send and send_mustarrive
    UdpAddrs,     \* peers reached by UDP
    WsAddrs,      \* file descriptors a WebSocket client can have
    NoAddr,       \* ProtocolAddr of kind PROT_NONE
    QueueCap,     \* length of m_sendQueue, 32
    MaxBurst,     \* items send_task takes before it looks at the time, 16
    MaxAttempts,  \* MUST_ARRIVE_ATTEMPTS, 15
    Window,       \* how far back "n" counts as a late packet, 25
    Numbers,      \* the "n" a packet may carry
    Acks,         \* the "e" a packet may carry
    Fs,           \* the "f" a packet may carry
    NoF,          \* 0xFFFFFFFF in m_mustarrive_f: no "f" seen yet
    MaxWrite,     \* bound: larger values of m_write_counter are not told apart
    MaxId         \* bound: applications do not ask for ids beyond this one

RecvTask == "recv_task"
SendTask == "send_task"
Nobody   == "nobody"
Absent   == -1        \* a packet without "f", or without "e"

Addrs   == UdpAddrs \cup WsAddrs
Callers == Apps \cup {RecvTask}       \* the tasks that call send...
Tasks   == Callers \cup {SendTask}

ASSUME TasksAssumption ==
    {RecvTask, SendTask, Nobody} \cap Apps = {}
ASSUME AddrsAssumption ==
    NoAddr \notin Addrs /\ UdpAddrs \cap WsAddrs = {}
ASSUME SizesAssumption ==
    /\ QueueCap \in Nat \ {0} /\ MaxBurst \in Nat \ {0}
    /\ MaxAttempts \in Nat \ {0} /\ Window \in Nat
    /\ MaxWrite \in Nat /\ MaxId \in Nat
ASSUME PacketsAssumption ==
    /\ Numbers \subseteq Nat \cup {-1} /\ Acks \subseteq Nat /\ Fs \subseteq Nat
    /\ NoF \in Nat /\ \A f \in Fs : f < NoF

VARIABLES
    m_possessed_addr, m_read_counter, m_write_counter,
    m_mustarrive_e, m_mustarrive_f,
    m_mustarrive_queue,   \* entries [id, attempts]
    mustarrive_owner,     \* the task inside m_mustarrive_mutex
    m_sendQueue,          \* addresses of the queued packets
    m_clients,            \* open WebSocket connections of the backend
    pc,                   \* where each task is
    addr, id, then,       \* locals of a caller: target, id loaded, where it returns to
    pkt,                  \* the packet handle_msg is working on
    burst,                \* items send_task took since it looked at the time
    timer_due,            \* xTaskGetTickCount() >= mustarrive_next
    resend_addr, itr,     \* locals of resend_mustarrive_locked
    delivered             \* history: the "f"s given to m_callback in this session

session_vars == <<m_possessed_addr, m_read_counter, m_mustarrive_f, delivered>>
arrive_vars  == <<m_mustarrive_e, m_mustarrive_queue>>
caller_vars  == <<addr, id, then>>
sender_vars  == <<burst, timer_due, resend_addr, itr>>
vars == <<session_vars, m_write_counter, arrive_vars, mustarrive_owner, m_sendQueue,
          m_clients, pc, caller_vars, pkt, sender_vars>>

Entries == [id : Nat, attempts : Nat]
\* a packet with both "f" and "e" is treated as one with "f" alone
Packets == {p \in [addr : Addrs, cmd : {"possess", "command"},
                   f : Fs \cup {Absent}, e : Acks \cup {Absent}] :
                p.f = Absent \/ p.e = Absent}
NoPacket == [addr |-> NoAddr, cmd |-> "none", f |-> Absent, e |-> Absent]

is_possessed == m_possessed_addr # NoAddr

Pending == {m_mustarrive_queue[k].id : k \in DOMAIN m_mustarrive_queue}

is_mustarrive_complete(i) == i \notin Pending

Successor(n) == IF n < MaxWrite THEN n + 1 ELSE n     \* m_write_counter++

Goto(t, label) == pc' = [pc EXCEPT ![t] = label]

-----------------------------------------------------------------------------
Init ==
    /\ m_possessed_addr = NoAddr
    /\ m_read_counter = 0 /\ m_write_counter = 0
    /\ m_mustarrive_e = 0 /\ m_mustarrive_f = NoF
    /\ m_mustarrive_queue = <<>> /\ mustarrive_owner = Nobody
    /\ m_sendQueue = <<>> /\ m_clients = {}
    /\ pc = [t \in Tasks |-> CASE t = RecvTask -> "receive"
                               [] t = SendTask -> "drain"
                               [] OTHER -> "idle"]
    /\ addr = [t \in Callers |-> NoAddr]
    /\ id = [t \in Callers |-> 0]
    /\ then = [t \in Callers |-> IF t = RecvTask THEN "receive" ELSE "idle"]
    /\ pkt = NoPacket
    /\ burst = 0 /\ timer_due = FALSE
    /\ resend_addr = NoAddr /\ itr = 1
    /\ delivered = <<>>

-----------------------------------------------------------------------------
(* send and send_mustarrive, called by an application, by m_callback or by   *)
(* handle_msg itself.                                                        *)

MayCall(t) == \/ t \in Apps /\ pc[t] = "idle"
              \/ t = RecvTask /\ pc[t] = "in_callback"

Home(t) == IF t = RecvTask THEN "receive" ELSE "idle"

\* Mutant: the result of get_possessed_addr is not looked at.
Begin_Unchecked(t, label) ==
    /\ addr' = [addr EXCEPT ![t] = m_possessed_addr]
    /\ Goto(t, label)

\* get_possessed_addr, then the call goes on with the address it copied
Begin(t, label) ==
    /\ is_possessed
    /\ addr' = [addr EXCEPT ![t] = m_possessed_addr]
    /\ Goto(t, label)

SendCall(t) ==
    /\ MayCall(t)
    /\ Begin(t, "number")
    /\ then' = [then EXCEPT ![t] = Home(t)]
    /\ UNCHANGED <<session_vars, m_write_counter, arrive_vars, mustarrive_owner,
                   m_sendQueue, m_clients, id, pkt, sender_vars>>

MustArriveCall(t) ==
    /\ MayCall(t)
    /\ m_mustarrive_e < MaxId /\ \A c \in Callers : id[c] < MaxId     \* bound
    /\ Begin(t, "lock")
    /\ then' = [then EXCEPT ![t] = Home(t)]
    /\ UNCHANGED <<session_vars, m_write_counter, arrive_vars, mustarrive_owner,
                   m_sendQueue, m_clients, id, pkt, sender_vars>>

\* Mutant: the mutex is not taken.
LockMustArrive_Unlocked(t) ==
    /\ pc[t] = "lock"
    /\ mustarrive_owner' = t
    /\ id' = [id EXCEPT ![t] = m_mustarrive_e]
    /\ Goto(t, "store")
    /\ UNCHANGED <<session_vars, m_write_counter, arrive_vars, m_sendQueue, m_clients,
                   addr, then, pkt, sender_vars>>

\* m_mustarrive_mutex.lock(), and the load of m_mustarrive_e++
LockMustArrive(t) ==
    /\ pc[t] = "lock"
    /\ mustarrive_owner = Nobody
    /\ mustarrive_owner' = t
    /\ id' = [id EXCEPT ![t] = m_mustarrive_e]
    /\ Goto(t, "store")
    /\ UNCHANGED <<session_vars, m_write_counter, arrive_vars, m_sendQueue, m_clients,
                   addr, then, pkt, sender_vars>>

\* the store of m_mustarrive_e++, and the new entry
AddMustArrive(t) ==
    /\ pc[t] = "store"
    /\ m_mustarrive_e' = id[t] + 1
    /\ m_mustarrive_queue' = Append(m_mustarrive_queue, [id |-> id[t], attempts |-> 0])
    /\ id' = [id EXCEPT ![t] = 0]
    /\ Goto(t, "number")
    /\ UNCHANGED <<session_vars, m_write_counter, mustarrive_owner, m_sendQueue, m_clients,
                   addr, then, pkt, sender_vars>>

\* send(addr, obj) takes "n" under m_mutex ...
Number(t) ==
    /\ pc[t] = "number"
    /\ m_write_counter' = Successor(m_write_counter)
    /\ Goto(t, "enqueue")
    /\ UNCHANGED <<session_vars, arrive_vars, mustarrive_owner, m_sendQueue, m_clients,
                   caller_vars, pkt, sender_vars>>

Return(t) ==
    /\ Goto(t, then[t])
    /\ addr' = [addr EXCEPT ![t] = NoAddr]
    /\ then' = [then EXCEPT ![t] = Home(t)]
    /\ mustarrive_owner' = IF mustarrive_owner = t THEN Nobody ELSE mustarrive_owner

\* ... and send(addr, buf, size) waits up to 200 ms for room in m_sendQueue
Enqueue(t) ==
    /\ pc[t] = "enqueue"
    /\ Len(m_sendQueue) < QueueCap
    /\ m_sendQueue' = Append(m_sendQueue, addr[t])
    /\ Return(t)
    /\ UNCHANGED <<session_vars, m_write_counter, arrive_vars, m_clients, id, pkt, sender_vars>>

\* Mutant: send waits for room for ever.
EnqueueTimeout_Never(t) == FALSE

EnqueueTimeout(t) ==
    /\ pc[t] = "enqueue"
    /\ Len(m_sendQueue) = QueueCap
    /\ Return(t)
    /\ UNCHANGED <<session_vars, m_write_counter, arrive_vars, m_sendQueue, m_clients, id,
                   pkt, sender_vars>>

-----------------------------------------------------------------------------
(* recv_task and handle_msg.  A packet without "n", and a late one, change   *)
(* nothing.                                                                  *)

Late(n) == n < m_read_counter /\ m_read_counter - n < Window

\* where handle_msg goes once possession is settled
Reliability(p) == IF p.f # Absent THEN "respond"
                  ELSE IF p.e # Absent THEN "acknowledge"
                  ELSE IF p.cmd = "possess" THEN "announce" ELSE "callback"

ReceiveDiscover(a) ==
    /\ pc[RecvTask] = "receive"
    /\ a \in UdpAddrs \cup m_clients
    /\ addr' = [addr EXCEPT ![RecvTask] = a]
    /\ Goto(RecvTask, "enqueue")
    /\ UNCHANGED <<session_vars, m_write_counter, arrive_vars, mustarrive_owner, m_sendQueue,
                   m_clients, id, then, pkt, sender_vars>>

ReceivePacket(p, n) ==
    LET restarts == n = -1 \/ p.cmd = "possess"
    IN  /\ pc[RecvTask] = "receive"
        /\ p.addr \in UdpAddrs \cup m_clients
        /\ restarts \/ ~Late(n)
        /\ m_read_counter' = IF restarts THEN 0 ELSE n
        /\ m_write_counter' = IF restarts THEN 0 ELSE m_write_counter
        /\ pkt' = p
        /\ Goto(RecvTask, IF ~is_possessed \/ p.cmd = "possess" THEN "possess"
                                                                ELSE Reliability(p))
        /\ UNCHANGED <<m_possessed_addr, m_mustarrive_f, delivered, arrive_vars,
                       mustarrive_owner, m_sendQueue, m_clients, caller_vars, sender_vars>>

\* the new session, under m_mutex ...
TakePossession ==
    /\ pc[RecvTask] = "possess"
    /\ m_possessed_addr' = pkt.addr
    /\ m_mustarrive_e' = 0
    /\ m_mustarrive_f' = NoF
    /\ m_write_counter' = -1
    /\ m_read_counter' = -1
    /\ delivered' = <<>>
    /\ Goto(RecvTask, "clear")
    /\ UNCHANGED <<m_mustarrive_queue, mustarrive_owner, m_sendQueue, m_clients, caller_vars,
                   pkt, sender_vars>>

\* ... and only then the old session's entries, under m_mustarrive_mutex
ClearPending ==
    /\ pc[RecvTask] = "clear"
    /\ mustarrive_owner = Nobody
    /\ m_mustarrive_queue' = <<>>
    /\ Goto(RecvTask, Reliability(pkt))
    /\ UNCHANGED <<session_vars, m_write_counter, m_mustarrive_e, mustarrive_owner, m_sendQueue,
                   m_clients, caller_vars, pkt, sender_vars>>

\* "f": answer it first, then look whether it was seen before
Respond ==
    /\ pc[RecvTask] = "respond"
    /\ addr' = [addr EXCEPT ![RecvTask] = pkt.addr]
    /\ then' = [then EXCEPT ![RecvTask] = "check"]
    /\ Goto(RecvTask, "number")
    /\ UNCHANGED <<session_vars, m_write_counter, arrive_vars, mustarrive_owner, m_sendQueue,
                   m_clients, id, pkt, sender_vars>>

\* Mutant: the last "f" itself is not a repetition.
Seen_Strict(f) == f < m_mustarrive_f /\ m_mustarrive_f # NoF

Seen(f) == f <= m_mustarrive_f /\ m_mustarrive_f # NoF

CheckSeen ==
    /\ pc[RecvTask] = "check"
    /\ IF Seen(pkt.f)
       THEN /\ Goto(RecvTask, "receive")
            /\ pkt' = NoPacket
            /\ UNCHANGED m_mustarrive_f
       ELSE /\ Goto(RecvTask, IF pkt.cmd = "possess" THEN "announce" ELSE "callback")
            /\ m_mustarrive_f' = pkt.f
            /\ UNCHANGED pkt
    /\ UNCHANGED <<m_possessed_addr, m_read_counter, delivered, m_write_counter, arrive_vars,
                   mustarrive_owner, m_sendQueue, m_clients, caller_vars, sender_vars>>

\* Mutant: the oldest entry is settled, whichever id arrived.
First_Oldest(i) == {1} \cap DOMAIN m_mustarrive_queue

\* "e": the first entry with that id has arrived
First(i) == {k \in DOMAIN m_mustarrive_queue :
                /\ m_mustarrive_queue[k].id = i
                /\ \A j \in 1..(k - 1) : m_mustarrive_queue[j].id # i}

Acknowledge ==
    /\ pc[RecvTask] = "acknowledge"
    /\ mustarrive_owner = Nobody
    /\ \/ is_mustarrive_complete(pkt.e) /\ UNCHANGED m_mustarrive_queue
       \/ \E k \in First(pkt.e) : m_mustarrive_queue' = RemoveAt(m_mustarrive_queue, k)
    /\ pkt' = NoPacket
    /\ Goto(RecvTask, "receive")
    /\ UNCHANGED <<session_vars, m_write_counter, m_mustarrive_e, mustarrive_owner, m_sendQueue,
                   m_clients, caller_vars, sender_vars>>

\* send_log("... has been possessed"), a must-arrive packet
Announce ==
    /\ pc[RecvTask] = "announce"
    /\ Begin(RecvTask, "lock")
    /\ then' = [then EXCEPT ![RecvTask] = "callback"]
    /\ UNCHANGED <<session_vars, m_write_counter, arrive_vars, mustarrive_owner, m_sendQueue,
                   m_clients, id, pkt, sender_vars>>

\* m_callback(cmd, pkt): it may send before it returns
Callback ==
    /\ pc[RecvTask] = "callback"
    /\ delivered' = IF pkt.f = Absent THEN delivered ELSE Append(delivered, pkt.f)
    /\ pkt' = NoPacket
    /\ Goto(RecvTask, "in_callback")
    /\ UNCHANGED <<m_possessed_addr, m_read_counter, m_mustarrive_f, m_write_counter, arrive_vars,
                   mustarrive_owner, m_sendQueue, m_clients, caller_vars, sender_vars>>

CallbackReturns ==
    /\ pc[RecvTask] = "in_callback"
    /\ Goto(RecvTask, "receive")
    /\ UNCHANGED <<session_vars, m_write_counter, arrive_vars, mustarrive_owner, m_sendQueue,
                   m_clients, caller_vars, pkt, sender_vars>>

-----------------------------------------------------------------------------
(* send_task and resend_mustarrive_locked.                                   *)

\* a WebSocket client that cannot be written to is closed
Transmit ==
    /\ pc[SendTask] = "drain"
    /\ burst < MaxBurst
    /\ m_sendQueue # <<>>
    /\ m_sendQueue' = Tail(m_sendQueue)
    /\ burst' = burst + 1
    /\ m_clients' \in {m_clients, m_clients \ {Head(m_sendQueue)}}
    /\ UNCHANGED <<session_vars, m_write_counter, arrive_vars, mustarrive_owner, pc, caller_vars,
                   pkt, timer_due, resend_addr, itr>>

EndBurst ==
    /\ pc[SendTask] = "drain"
    /\ burst = MaxBurst \/ m_sendQueue = <<>>
    /\ burst' = 0
    /\ Goto(SendTask, IF timer_due THEN "lock_resend" ELSE "drain")
    /\ UNCHANGED <<session_vars, m_write_counter, arrive_vars, mustarrive_owner, m_sendQueue,
                   m_clients, caller_vars, pkt, timer_due, resend_addr, itr>>

\* resend_addr is uninitialized when nobody possesses the device
LockResend ==
    /\ pc[SendTask] = "lock_resend"
    /\ mustarrive_owner = Nobody
    /\ mustarrive_owner' = SendTask
    /\ resend_addr' \in IF m_mustarrive_queue = <<>> THEN {NoAddr}
                       ELSE IF is_possessed THEN {m_possessed_addr}
                       ELSE Addrs \cup {NoAddr}
    /\ itr' = 1
    /\ Goto(SendTask, "resend")
    /\ UNCHANGED <<session_vars, m_write_counter, arrive_vars, m_sendQueue, m_clients,
                   caller_vars, pkt, burst, timer_due>>

\* a UDP packet is sent past m_sendQueue with a fresh "n"
ResendOne ==
    /\ pc[SendTask] = "resend"
    /\ itr <= Len(m_mustarrive_queue)
    /\ m_write_counter' = IF resend_addr \in UdpAddrs THEN Successor(m_write_counter)
                                                      ELSE m_write_counter
    /\ LET tried == m_mustarrive_queue[itr].attempts + 1
       IN  IF tried >= MaxAttempts
           THEN /\ m_mustarrive_queue' = RemoveAt(m_mustarrive_queue, itr)
                /\ UNCHANGED itr
           ELSE /\ m_mustarrive_queue' = [m_mustarrive_queue EXCEPT ![itr].attempts = tried]
                /\ itr' = itr + 1
    /\ UNCHANGED <<session_vars, m_mustarrive_e, mustarrive_owner, m_sendQueue, m_clients, pc,
                   caller_vars, pkt, burst, timer_due, resend_addr>>

EndResend ==
    /\ pc[SendTask] = "resend"
    /\ itr > Len(m_mustarrive_queue)
    /\ mustarrive_owner' = Nobody
    /\ timer_due' = FALSE
    /\ resend_addr' = NoAddr
    /\ itr' = 1
    /\ Goto(SendTask, "drain")
    /\ UNCHANGED <<session_vars, m_write_counter, arrive_vars, m_sendQueue, m_clients,
                   caller_vars, pkt, burst>>

-----------------------------------------------------------------------------
(* Time and the WebSocket peers.                                             *)

TimerExpires ==
    /\ ~timer_due
    /\ timer_due' = TRUE
    /\ UNCHANGED <<session_vars, m_write_counter, arrive_vars, mustarrive_owner, m_sendQueue,
                   m_clients, pc, caller_vars, pkt, burst, resend_addr, itr>>

ClientConnects(fd) ==
    /\ fd \notin m_clients
    /\ m_clients' = m_clients \cup {fd}
    /\ UNCHANGED <<session_vars, m_write_counter, arrive_vars, mustarrive_owner, m_sendQueue, pc,
                   caller_vars, pkt, sender_vars>>

\* recv_iter closes a client whose frames it cannot read
ClientFails(fd) ==
    /\ pc[RecvTask] = "receive"
    /\ fd \in m_clients
    /\ m_clients' = m_clients \ {fd}
    /\ UNCHANGED <<session_vars, m_write_counter, arrive_vars, mustarrive_owner, m_sendQueue, pc,
                   caller_vars, pkt, sender_vars>>

-----------------------------------------------------------------------------
CallerStep(t) == \/ LockMustArrive(t) \/ AddMustArrive(t) \/ Number(t)
                 \/ Enqueue(t) \/ EnqueueTimeout(t)

HandlerStep == \/ TakePossession \/ ClearPending \/ Respond \/ CheckSeen
               \/ Acknowledge \/ Announce \/ Callback \/ CallbackReturns

SenderStep == Transmit \/ EndBurst \/ LockResend \/ ResendOne \/ EndResend

Environment == \/ \E t \in Callers : SendCall(t) \/ MustArriveCall(t)
               \/ \E a \in Addrs : ReceiveDiscover(a)
               \/ \E p \in Packets, n \in Numbers : ReceivePacket(p, n)
               \/ \E fd \in WsAddrs : ClientConnects(fd) \/ ClientFails(fd)
               \/ TimerExpires

Next == \/ \E t \in Callers : CallerStep(t)
        \/ HandlerStep
        \/ SenderStep
        \/ Environment

Spec == Init /\ [][Next]_vars

\* Every task keeps running, a lock that is released again and again is
\* eventually granted, time passes, and the callback returns.
Fairness == /\ \A t \in Callers : /\ WF_vars(CallerStep(t))
                                  /\ SF_vars(LockMustArrive(t))
            /\ WF_vars(HandlerStep)
            /\ SF_vars(ClearPending) /\ SF_vars(Acknowledge)
            /\ WF_vars(SenderStep) /\ SF_vars(LockResend)
            /\ WF_vars(TimerExpires)

FairSpec == Spec /\ Fairness

-----------------------------------------------------------------------------
(* Safety.                                                                   *)

AppLabels     == {"idle", "lock", "store", "number", "enqueue"}
HandlerLabels == {"receive", "possess", "clear", "respond", "check", "acknowledge", "announce",
                  "callback", "in_callback", "lock", "store", "number", "enqueue"}
SenderLabels  == {"drain", "lock_resend", "resend"}

SessionOK == /\ m_possessed_addr \in Addrs \cup {NoAddr}
             /\ m_read_counter \in Nat \cup {-1}
             /\ m_mustarrive_f \in Fs \cup {NoF}
             /\ delivered \in Seq(Fs)

ArriveOK == m_mustarrive_e \in Nat /\ m_mustarrive_queue \in Seq(Entries)

QueueOK == m_sendQueue \in Seq(Addrs) /\ Len(m_sendQueue) <= QueueCap

CallerOK == /\ addr \in [Callers -> Addrs \cup {NoAddr}]
            /\ id \in [Callers -> Nat]
            /\ then \in [Callers -> {"idle", "receive", "check", "callback"}]
            /\ then[RecvTask] # "idle" /\ \A t \in Apps : then[t] = "idle"

SenderOK == /\ burst \in 0..MaxBurst /\ timer_due \in BOOLEAN
            /\ resend_addr \in Addrs \cup {NoAddr} /\ itr \in Nat \ {0}

ControlOK == /\ DOMAIN pc = Tasks
             /\ pc[RecvTask] \in HandlerLabels /\ pc[SendTask] \in SenderLabels
             /\ \A t \in Apps : pc[t] \in AppLabels

\* Every variable keeps the type its declaration in rbprotocol.h gives it, and
\* m_sendQueue never holds more than its length.
TypeOK == /\ SessionOK /\ ArriveOK /\ QueueOK /\ CallerOK /\ SenderOK /\ ControlOK
          /\ m_write_counter \in (-1)..MaxWrite
          /\ mustarrive_owner \in Tasks \cup {Nobody}
          /\ m_clients \subseteq WsAddrs
          /\ pkt \in Packets \cup {NoPacket}

\* the ids in q differ, and all are below e
Distinct(q, e) == /\ \A i, j \in DOMAIN q : q[i].id = q[j].id => i = j
                  /\ \A i \in DOMAIN q : q[i].id < e

\* Outside the window between the reset of m_mustarrive_e and the clearing of
\* the queue, no two pending commands share an id and no pending id will be
\* handed out again: an "e" settles one command only (rbprotocol.cpp 215-221,
\* 290-304, 321-333).
UniqueIds == pc[RecvTask] # "clear" => Distinct(m_mustarrive_queue, m_mustarrive_e)

\* resend_mustarrive_locked never sends a command to the address it did not
\* manage to read: something pending means somebody possessed the device
\* (rbprotocol.cpp 345-356, the ignored result of get_possessed_addr).
ResendAddressKnown ==
    /\ m_mustarrive_queue # <<>> => is_possessed
    /\ pc[SendTask] = "resend" /\ m_mustarrive_queue # <<>> => resend_addr # NoAddr

\* Within a session m_callback sees each must-arrive command of the peer at most
\* once, and in the order of their "f" (rbprotocol.cpp 307-320, 340).
DeliveredOnce ==
    \A i, j \in DOMAIN delivered : i < j => delivered[i] < delivered[j]

-----------------------------------------------------------------------------
(* The inductive invariant.                                                  *)

\* who is inside m_mustarrive_mutex
OwnerInv ==
    /\ \A t \in Callers : /\ mustarrive_owner = t => pc[t] \in {"store", "number", "enqueue"}
                          /\ pc[t] = "store" => mustarrive_owner = t
    /\ mustarrive_owner = SendTask <=> pc[SendTask] = "resend"

\* the load and the store of m_mustarrive_e++ agree, the window aside
LoadedInv ==
    pc[RecvTask] # "clear" =>
        \A t \in Callers : pc[t] = "store" => id[t] = m_mustarrive_e

\* the labels at which a task is inside send or send_mustarrive
Sending == {"lock", "store", "number", "enqueue"}

\* nobody is asked for an id before the device is possessed
PossessedInv ==
    /\ pc[RecvTask] \in {"clear", "respond", "check", "announce"} => is_possessed
    /\ pc[RecvTask] \in Sending /\ then[RecvTask] \in {"check", "callback"} => is_possessed
    /\ \A t \in Callers : pc[t] \in {"lock", "store"} => is_possessed

\* a call under way has somebody to send to
TargetInv ==
    \A t \in Callers : pc[t] \in Sending => addr[t] # NoAddr

\* handle_msg has a packet while it works on one
PacketInv ==
    /\ pc[RecvTask] \in {"possess", "clear", "respond", "check"} => pkt \in Packets
    /\ pc[RecvTask] \in {"respond", "check"} => pkt.f # Absent
    /\ pc[RecvTask] \in Sending /\ then[RecvTask] = "check" => pkt.f # Absent
    /\ pc[RecvTask] \notin Sending => then[RecvTask] = "receive"

\* handle_msg is on its way to m_callback
Delivering ==
    \/ pc[RecvTask] \in {"announce", "callback"}
    \/ pc[RecvTask] \in Sending /\ then[RecvTask] = "callback"

\* m_mustarrive_f is the last "f" let through
SeenInv ==
    /\ m_mustarrive_f = NoF => delivered = <<>>
    /\ \A i \in DOMAIN delivered : delivered[i] <= m_mustarrive_f
    /\ Delivering /\ pkt.f # Absent =>
          pkt.f = m_mustarrive_f /\ \A i \in DOMAIN delivered : delivered[i] < pkt.f

IInv == /\ TypeOK /\ OwnerInv /\ LoadedInv /\ PossessedInv /\ TargetInv /\ PacketInv /\ SeenInv
        /\ UniqueIds /\ ResendAddressKnown /\ DeliveredOnce

-----------------------------------------------------------------------------
(* What a step may not do, and what must happen.                             *)

\* A pending command leaves the queue only because it was acknowledged, because
\* a new session began, or because it was tried MUST_ARRIVE_ATTEMPTS times
\* (rbprotocol.cpp 299-304, 321-331, 360-363).
GivenUpOnlyAfterBudget ==
    [][\A i \in Pending : i \notin Pending' =>
          \/ pc[RecvTask] = "clear"
          \/ pc[RecvTask] = "acknowledge" /\ pkt.e = i
          \/ \E k \in DOMAIN m_mustarrive_queue :
                /\ m_mustarrive_queue[k].id = i
                /\ m_mustarrive_queue[k].attempts + 1 >= MaxAttempts]_vars

\* A must-arrive command is settled in the end whatever the peer does, so polling
\* is_mustarrive_complete terminates (rbprotocol.cpp 135-145, 360-363).
Settles ==
    \A i \in 0..MaxId : ~is_mustarrive_complete(i) ~> is_mustarrive_complete(i)

\* No task stays inside the protocol for ever: a call of send or send_mustarrive
\* returns although it waits for m_sendQueue inside m_mustarrive_mutex and send_task,
\* which empties m_sendQueue, waits for that mutex, and the receiving task comes back to
\* its sockets whichever path a packet took (rbprotocol.cpp 191, 215-221, 254-343, 403-408).
CallsReturn == /\ \A t \in Apps : pc[t] # "idle" ~> pc[t] = "idle"
               /\ pc[RecvTask] # "receive" ~> pc[RecvTask] = "receive"

-----------------------------------------------------------------------------
(* What send_mustarrive promises, as an abstract specification.              *)

Session == INSTANCE MustArriveSession WITH
    resetting <- pc[RecvTask] = "clear",
    next <- IF pc[RecvTask] = "clear" THEN 0 ELSE m_mustarrive_e,
    outstanding <- IF pc[RecvTask] = "clear" THEN {} ELSE Pending

\* The queue, its mutexes and the resending implement a session that hands out
\* every id once (rbprotocol.cpp 197-224, 299-304, 321-333, 345-367).
ImplementsSession == Session!SessionSpec
=============================================================================
