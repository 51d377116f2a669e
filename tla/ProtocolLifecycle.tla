------------------------- MODULE ProtocolLifecycle -------------------------
(***************************************************************************)
(* start() and stop() of rb::Protocol, called by any task at any time, and *)
(* the two tasks each start() creates.  stop() does not join them: it puts *)
(* an empty item (a pill) in front of m_sendQueue, notifies the receiver   *)
(* and returns, so tasks of several starts may be alive together, sharing  *)
(* the queue.  m_mutex is a variable here, because stop() waits for room   *)
(* in the queue while it holds it.  A task is named by the number of the   *)
(* start() that created it.                                                *)
(***************************************************************************)
EXTENDS Naturals, Sequences, FiniteSets

CONSTANTS
    Controllers,  \* tasks that call start and stop
    Apps,         \* tasks that call send
    QueueCap,     \* length of m_sendQueue
    MaxStarts     \* bound: calls of start() that create tasks

ASSUME LifecycleAssumption ==
    /\ QueueCap \in Nat \ {0} /\ MaxStarts \in Nat
    /\ Controllers \cap Apps = {}

VARIABLES
    m_task_send, m_task_recv,   \* the handles, 0 for nullptr
    backends,                   \* there are m_udp and m_ws
    m_sendQueue,                \* "pill"s and "item"s
    stopping,                   \* the controller inside stop(), holding m_mutex
    sender,                     \* what the sending task of each start is doing
    receiver,                   \* the same of the receiving ones, and where their packet is of
    notified,                   \* receivers with a notification pending
    app,                        \* what each application task is doing
    starts,                     \* tasks created so far
    short                       \* history: xTaskCreate failed once

vars == <<m_task_send, m_task_recv, backends, m_sendQueue, stopping, sender, receiver,
          notified, app, starts, short>>

Generations == 1..MaxStarts
LiveSenders   == {g \in Generations : sender[g] \notin {"none", "gone"}}
LiveReceivers == {g \in Generations : receiver[g].at \notin {"none", "gone"}}
Pills == Cardinality({i \in DOMAIN m_sendQueue : m_sendQueue[i] = "pill"})

\* Mutant: one item less than the queue holds.
HasRoom_OneLess == Len(m_sendQueue) + 1 < QueueCap

HasRoom == Len(m_sendQueue) < QueueCap
MutexFree == stopping = {}

\* a receiver that has no packet, and one that has
At(place) == [at |-> place, of |-> "none"]
With(place, backend) == [at |-> place, of |-> backend]

Receivers == [at : {"none", "poll", "udp", "ws", "gone"}, of : {"none"}]
             \cup [at : {"packet", "handle", "enqueue"}, of : {"udp", "ws"}]

\* Mutant: a full queue drops its first element for the new one.
Queued_DropsFirst == Append(IF HasRoom THEN m_sendQueue ELSE Tail(m_sendQueue), "item")

\* an item is dropped after 200 ms without room
Queued == IF HasRoom THEN Append(m_sendQueue, "item") ELSE m_sendQueue

\* The handles, the queue and the tasks keep their types, m_mutex has at most one
\* holder, and m_sendQueue never holds more than its length (rbprotocol.cpp 32, 93-110).
TypeOK ==
    /\ m_task_send \in {0} \cup Generations /\ m_task_recv \in {0} \cup Generations
    /\ m_sendQueue \in Seq({"pill", "item"}) /\ Len(m_sendQueue) <= QueueCap
    /\ stopping \in SUBSET Controllers /\ Cardinality(stopping) <= 1
    /\ sender \in [Generations -> {"none", "drain", "send", "gone"}]
    /\ receiver \in [Generations -> Receivers] /\ backends \in BOOLEAN
    /\ notified \subseteq Generations
    /\ app \in [Apps -> {"idle", "enqueue"}]
    /\ starts \in 0..MaxStarts /\ short \in BOOLEAN

Init ==
    /\ m_task_send = 0 /\ m_task_recv = 0 /\ backends = FALSE
    /\ m_sendQueue = <<>> /\ stopping = {}
    /\ sender = [g \in Generations |-> "none"]
    /\ receiver = [g \in Generations |-> At("none")]
    /\ notified = {} /\ app = [a \in Apps |-> "idle"]
    /\ starts = 0 /\ short = FALSE

-----------------------------------------------------------------------------
\* start(): a second one is refused by the handle; a backend that does not start
\* leaves everything as it was
Start ==
    /\ MutexFree /\ m_task_send = 0 /\ starts < MaxStarts
    /\ starts' = starts + 1
    /\ m_task_send' = starts' /\ m_task_recv' = starts' /\ backends' = TRUE
    /\ sender' = [sender EXCEPT ![starts'] = "drain"]
    /\ receiver' = [receiver EXCEPT ![starts'] = At("poll")]
    /\ UNCHANGED <<m_sendQueue, stopping, notified, app, short>>

\* xTaskCreate fails for one or both of the tasks: nobody looks at its result, and the
\* handle stays what it was
StartShort(sends, receives) ==
    /\ MutexFree /\ m_task_send = 0 /\ starts < MaxStarts
    /\ ~(sends /\ receives)
    /\ starts' = starts + 1
    /\ m_task_send' = IF sends THEN starts' ELSE m_task_send
    /\ m_task_recv' = IF receives THEN starts' ELSE m_task_recv
    /\ sender' = [sender EXCEPT ![starts'] = IF sends THEN "drain" ELSE "gone"]
    /\ receiver' = [receiver EXCEPT ![starts'] = At(IF receives THEN "poll" ELSE "gone")]
    /\ backends' = TRUE /\ short' = TRUE
    /\ UNCHANGED <<m_sendQueue, stopping, notified, app>>

\* stop(): lock m_mutex, nothing to do when the handle is null ...
StopBegins(c) ==
    /\ MutexFree /\ m_task_send # 0
    /\ stopping' = {c}
    /\ UNCHANGED <<m_task_send, m_task_recv, backends, m_sendQueue, sender, receiver, notified,
                   app, starts, short>>

\* Mutant: the receiver is not notified.
StopEnds_Unnotified(c) ==
    /\ c \in stopping
    /\ HasRoom /\ m_task_recv # 0
    /\ m_sendQueue' = <<"pill">> \o m_sendQueue
    /\ m_task_send' = 0 /\ m_task_recv' = 0 /\ backends' = FALSE
    /\ stopping' = {}
    /\ UNCHANGED <<sender, receiver, notified, app, starts, short>>

\* ... wait for room, put the pill in front, notify, drop the backends, unlock; without a
\* receiver xTaskNotify aborts the program, and nobody gets past it
StopEnds(c) ==
    /\ c \in stopping
    /\ HasRoom /\ m_task_recv # 0
    /\ m_sendQueue' = <<"pill">> \o m_sendQueue
    /\ notified' = notified \cup {m_task_recv}
    /\ m_task_send' = 0 /\ m_task_recv' = 0 /\ backends' = FALSE
    /\ stopping' = {}
    /\ UNCHANGED <<sender, receiver, app, starts, short>>

-----------------------------------------------------------------------------
SenderReceives(g) ==
    /\ sender[g] = "drain" /\ m_sendQueue # <<>>
    /\ m_sendQueue' = Tail(m_sendQueue)
    /\ sender' = [sender EXCEPT ![g] = IF Head(m_sendQueue) = "pill" THEN "gone" ELSE "send"]
    /\ UNCHANGED <<m_task_send, m_task_recv, backends, stopping, receiver, notified, app,
                   starts, short>>

\* the must-arrive timer is due and there is something to resend
SenderResends(g) ==
    /\ sender[g] = "drain"
    /\ sender' = [sender EXCEPT ![g] = "send"]
    /\ UNCHANGED <<m_task_send, m_task_recv, backends, m_sendQueue, stopping, receiver, notified,
                   app, starts, short>>

\* both uses of the backends take m_mutex and look at the pointers inside it
SenderTransmits(g) ==
    /\ sender[g] = "send"
    /\ MutexFree
    /\ sender' = [sender EXCEPT ![g] = "drain"]
    /\ UNCHANGED <<m_task_send, m_task_recv, backends, m_sendQueue, stopping, receiver, notified,
                   app, starts, short>>

ReceiverEnds(g) ==
    /\ receiver[g].at = "poll" /\ g \in notified
    /\ receiver' = [receiver EXCEPT ![g] = At("gone")]
    /\ notified' = notified \ {g}
    /\ UNCHANGED <<m_task_send, m_task_recv, backends, m_sendQueue, stopping, sender, app,
                   starts, short>>

\* what else a receiver does, and whether it puts an item into the queue
ReceiverStep(g, to, enqueues) ==
    /\ receiver' = [receiver EXCEPT ![g] = to]
    /\ m_sendQueue' = IF enqueues THEN Queued ELSE m_sendQueue
    /\ UNCHANGED <<m_task_send, m_task_recv, backends, stopping, sender, notified, app, starts,
                   short>>

ReceiverPolls(g) == receiver[g].at = "poll" /\ g \notin notified
                    /\ ReceiverStep(g, At("udp"), FALSE)

\* both backends under one lock, unless m_udp has a packet; m_ws is then read after it
ReceiverReads(g) ==
    /\ receiver[g].at \in {"udp", "ws"} /\ MutexFree
    /\ \E to \in {At("poll")} \cup IF ~backends THEN {}
                                    ELSE {With("packet", b) : b \in {receiver[g].at, "ws"}} :
          ReceiverStep(g, to, FALSE)

\* back in recv_task
Behind(g) == IF receiver[g].of = "udp" THEN At("ws") ELSE At("poll")

\* handle_msg: "discover" is answered without m_mutex and without a number
ReceiverDiscovers(g) == receiver[g].at = "packet" /\ ReceiverStep(g, Behind(g), TRUE)

\* anything else that is sent, by the callback too, is numbered under m_mutex ...
ReceiverNumbers(g) == receiver[g].at \in {"packet", "handle"} /\ MutexFree
                      /\ ReceiverStep(g, With("enqueue", receiver[g].of), FALSE)

\* ... and queued after it
ReceiverEnqueues(g) == receiver[g].at = "enqueue"
                       /\ ReceiverStep(g, With("handle", receiver[g].of), TRUE)

ReceiverReturns(g) == receiver[g].at \in {"packet", "handle"}
                      /\ ReceiverStep(g, Behind(g), FALSE)

-----------------------------------------------------------------------------
\* send(): the number is taken under m_mutex, the item is queued after it
AppNumbers(a) ==
    /\ app[a] = "idle" /\ MutexFree
    /\ app' = [app EXCEPT ![a] = "enqueue"]
    /\ UNCHANGED <<m_task_send, m_task_recv, backends, m_sendQueue, stopping, sender, receiver,
                   notified, starts, short>>

AppEnqueues(a) ==
    /\ app[a] = "enqueue"
    /\ m_sendQueue' = Queued
    /\ app' = [app EXCEPT ![a] = "idle"]
    /\ UNCHANGED <<m_task_send, m_task_recv, backends, stopping, sender, receiver, notified,
                   starts, short>>

SenderStep(g) == SenderReceives(g) \/ SenderResends(g) \/ SenderTransmits(g)
ReceiverTask(g) == \/ ReceiverEnds(g) \/ ReceiverPolls(g) \/ ReceiverReads(g)
                   \/ ReceiverDiscovers(g) \/ ReceiverNumbers(g) \/ ReceiverEnqueues(g)
                   \/ ReceiverReturns(g)

Next == \/ Start \/ \E sends, receives \in BOOLEAN : StartShort(sends, receives)
        \/ \E c \in Controllers : StopBegins(c) \/ StopEnds(c)
        \/ \E g \in Generations : SenderStep(g) \/ ReceiverTask(g)
        \/ \E a \in Apps : AppNumbers(a) \/ AppEnqueues(a)

Spec == Init /\ [][Next]_vars

\* The tasks run; a sender's loop always comes back to the queue; a FreeRTOS mutex
\* goes to the waiting task of the highest priority, so it is granted in the end; a
\* callback sends so many packets and returns.
FairSpec == /\ Spec
            /\ \A g \in Generations :
                  /\ SF_vars(SenderReceives(g)) /\ SF_vars(SenderTransmits(g))
                  /\ SF_vars(ReceiverReturns(g)) /\ SF_vars(ReceiverReads(g))
                  /\ WF_vars(ReceiverEnds(g)) /\ WF_vars(ReceiverEnqueues(g))
            /\ \A c \in Controllers : WF_vars(StopEnds(c))
            /\ \A a \in Apps : WF_vars(AppEnqueues(a))

-----------------------------------------------------------------------------
\* Every pill finds a sender and every sender a pill or a handle, whichever sender
\* takes whose pill after a quick restart (rbprotocol.cpp 56-57, 93-101, 378-381).
SendersAccounted ==
    /\ TypeOK
    /\ ~short => Cardinality(LiveSenders) = Pills + (IF m_task_send = 0 THEN 0 ELSE 1)

\* A receiver is either the current one or told to end: no restart leaves one that
\* nobody can stop (rbprotocol.cpp 88-89, 101, 109).
ReceiversTold ==
    ~short => \A g \in LiveReceivers : g = m_task_recv \/ g \in notified

\* Once stopped for good, the protocol has no task left in the end, and nothing it
\* left in the queue keeps one alive (rbprotocol.cpp 93-110).
EndsForGood ==
    ~short /\ m_task_send = 0 ~> short \/ m_task_send # 0
                                 \/ (LiveSenders = {} /\ LiveReceivers = {})

\* stop() returns if it finds room for the pill behind every packet that may still come
\* without m_mutex: those already numbered, and the answer to a discovery that was received
\* before.  Without that room it may wait for ever: the sender that would make some waits
\* for the m_mutex stop() holds (rbprotocol.cpp 94-100, 191, 257-266, 383).
OnTheWay == Cardinality({a \in Apps : app[a] = "enqueue"})
            + Cardinality({g \in Generations : receiver[g].at \in {"packet", "enqueue"}})

StopReturns ==
    \A c \in Controllers :
        c \in stopping /\ m_task_recv # 0 /\ Len(m_sendQueue) + OnTheWay < QueueCap
            ~> c \notin stopping
=============================================================================
