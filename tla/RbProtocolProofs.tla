-------------------------- MODULE RbProtocolProofs --------------------------
(***************************************************************************)
(* Theorems about RbProtocol for every set of tasks and peers and every    *)
(* size of the queue, the burst and the number of attempts.                *)
(***************************************************************************)
EXTENDS RbProtocol, SequenceTheorems, TLAPS

-----------------------------------------------------------------------------
\* The names of the tasks are told apart.
LEMMA TaskFacts ==
    /\ RecvTask \in Callers /\ RecvTask \in Tasks /\ SendTask \in Tasks
    /\ SendTask \notin Callers /\ Nobody \notin Tasks /\ RecvTask # SendTask
    /\ Callers \subseteq Tasks /\ Apps \subseteq Callers
    /\ \A t \in Tasks : t \in Callers \/ t = SendTask
    /\ \A t \in Callers : t \in Apps <=> t # RecvTask
BY TasksAssumption DEF RecvTask, SendTask, Nobody, Callers, Tasks

\* RemoveAt drops one element and keeps the order of the others.
LEMMA RemoveAtFacts ==
    ASSUME NEW S, NEW q \in Seq(S), NEW k \in 1..Len(q)
    PROVE  /\ RemoveAt(q, k) \in Seq(S)
           /\ Len(RemoveAt(q, k)) = Len(q) - 1
           /\ \A i \in 1..(Len(q) - 1) :
                 RemoveAt(q, k)[i] = IF i < k THEN q[i] ELSE q[i + 1]
<1> DEFINE a == SubSeq(q, 1, k - 1)
           b == SubSeq(q, k + 1, Len(q))
<1>1. Len(q) \in Nat /\ \A i \in 1..Len(q) : q[i] \in S
  BY ElementOfSeq, LenProperties
<1>2. /\ a \in Seq(S) /\ Len(a) = k - 1
      /\ \A i \in 1..(k - 1) : a[i] = q[i]
  BY <1>1, SubSeqProperties
<1>3. /\ b \in Seq(S) /\ Len(b) = Len(q) - k
      /\ \A i \in 1..(Len(q) - k) : b[i] = q[k + i]
  BY <1>1, SubSeqProperties
<1> HIDE DEF a, b
<1>4. /\ a \o b \in Seq(S)
      /\ Len(a \o b) = Len(a) + Len(b)
      /\ \A i \in 1..(Len(a) + Len(b)) :
            (a \o b)[i] = IF i <= Len(a) THEN a[i] ELSE b[i - Len(a)]
  BY <1>2, <1>3, ConcatProperties
<1>5. ASSUME NEW i \in 1..(Len(q) - 1)
      PROVE  (a \o b)[i] = IF i < k THEN q[i] ELSE q[i + 1]
  <2>1. /\ i \in 1..(Len(a) + Len(b)) /\ Len(a) = k - 1
        /\ i \in Nat /\ k \in Nat /\ Len(q) \in Nat
    BY <1>1, <1>2, <1>3
  <2>2. CASE i < k
    BY <2>1, <2>2, <1>2, <1>4
  <2>3. CASE i >= k
    <3>1. i - (k - 1) \in 1..(Len(q) - k) /\ k + (i - (k - 1)) = i + 1
      BY <2>1, <2>3
    <3>2. (a \o b)[i] = b[i - (k - 1)]
      BY <2>1, <2>3, <1>4
    <3> QED BY <3>1, <3>2, <2>1, <2>3, <1>3
  <2> QED BY <2>1, <2>2, <2>3
<1>6. RemoveAt(q, k) = a \o b
  BY DEF RemoveAt, a, b
<1>7. Len(a) + Len(b) = Len(q) - 1
  BY <1>1, <1>2, <1>3
<1> QED BY <1>4, <1>5, <1>6, <1>7

-----------------------------------------------------------------------------
(* Types.                                                                    *)

\* What a task's move does to the labels.
LEMMA GotoFacts ==
    ASSUME DOMAIN pc = Tasks, NEW t \in Tasks, NEW label, Goto(t, label)
    PROVE  /\ DOMAIN pc' = Tasks /\ pc'[t] = label
           /\ \A u \in Tasks : u # t => pc'[u] = pc[u]
BY DEF Goto

\* A label of the right kind keeps every label of the right kind.
LEMMA ControlFacts ==
    ASSUME ControlOK, NEW t \in Tasks, NEW label, Goto(t, label),
           t \in Apps => label \in AppLabels,
           t = RecvTask => label \in HandlerLabels,
           t = SendTask => label \in SenderLabels
    PROVE  ControlOK'
BY TaskFacts, GotoFacts DEF ControlOK

\* Variables left alone keep their types.
LEMMA UnchangedFacts ==
    /\ SessionOK /\ UNCHANGED session_vars => SessionOK'
    /\ ArriveOK /\ UNCHANGED arrive_vars => ArriveOK'
    /\ QueueOK /\ UNCHANGED m_sendQueue => QueueOK'
    /\ CallerOK /\ UNCHANGED caller_vars => CallerOK'
    /\ SenderOK /\ UNCHANGED sender_vars => SenderOK'
    /\ ControlOK /\ UNCHANGED pc => ControlOK'
<1>1. SessionOK /\ UNCHANGED session_vars => SessionOK'
  BY DEF SessionOK, session_vars
<1>2. ArriveOK /\ UNCHANGED arrive_vars => ArriveOK'
  BY DEF ArriveOK, arrive_vars
<1>3. QueueOK /\ UNCHANGED m_sendQueue => QueueOK'
  BY DEF QueueOK
<1>4. CallerOK /\ UNCHANGED caller_vars => CallerOK'
  BY DEF CallerOK, caller_vars
<1>5. SenderOK /\ UNCHANGED sender_vars => SenderOK'
  BY DEF SenderOK, sender_vars
<1>6. ControlOK /\ UNCHANGED pc => ControlOK'
  BY DEF ControlOK
<1> QED BY <1>1, <1>2, <1>3, <1>4, <1>5, <1>6

\* An entry tried once more is an entry.
LEMMA TriedEntry ==
    ASSUME NEW e \in Entries
    PROVE  [e EXCEPT !.attempts = e.attempts + 1] \in Entries
BY DEF Entries

\* A step keeps every variable's type.  m_mustarrive_f needs to know that the
\* packet being checked has an "f", m_sendQueue that a call has a target.
TypeInv == TypeOK /\ PacketInv /\ TargetInv

LEMMA TypeCaller ==
    ASSUME TypeInv, NEW t \in Callers, CallerStep(t) \/ SendCall(t) \/ MustArriveCall(t)
    PROVE  TypeOK'
<1> USE TaskFacts, UnchangedFacts DEF TypeInv, TypeOK
<1>0. /\ t \in Tasks /\ t # SendTask /\ t \notin Apps => t = RecvTask
      /\ t \in Apps <=> t # RecvTask
      /\ {"lock", "store", "number", "enqueue"} \subseteq AppLabels \cap HandlerLabels
      /\ "idle" \in AppLabels /\ {"receive", "check", "callback"} \subseteq HandlerLabels
  BY DEF AppLabels, HandlerLabels
<1>1. CASE SendCall(t) \/ MustArriveCall(t)
  <2>1. Goto(t, "number") \/ Goto(t, "lock")
    BY <1>1 DEF SendCall, MustArriveCall, Begin
  <2>2. ControlOK'
    BY <2>1, <1>0, ControlFacts
  <2>3. /\ id' = id /\ m_possessed_addr \in Addrs \cup {NoAddr}
        /\ addr' = [addr EXCEPT ![t] = m_possessed_addr]
        /\ then' = [then EXCEPT ![t] = Home(t)]
    BY <1>1 DEF SendCall, MustArriveCall, Begin, SessionOK, is_possessed
  <2>4. /\ Home(t) \in {"idle", "receive"}
        /\ t \in Apps => Home(t) = "idle"
        /\ t = RecvTask => Home(t) = "receive"
    BY <1>0 DEF Home
  <2>5. CallerOK'
    BY <2>3, <2>4 DEF CallerOK
  <2> QED BY <1>1, <2>2, <2>5 DEF SendCall, MustArriveCall
<1>2. CASE LockMustArrive(t)
  <2>1. ControlOK'
    BY <1>2, <1>0, ControlFacts DEF LockMustArrive
  <2>2. CallerOK'
    BY <1>2 DEF LockMustArrive, CallerOK, ArriveOK
  <2> QED BY <1>2, <2>1, <2>2 DEF LockMustArrive
<1>3. CASE AddMustArrive(t)
  <2>1. ControlOK'
    BY <1>3, <1>0, ControlFacts DEF AddMustArrive
  <2>2. CallerOK'
    BY <1>3 DEF AddMustArrive, CallerOK
  <2>3. id[t] \in Nat /\ [id |-> id[t], attempts |-> 0] \in Entries
    BY DEF CallerOK, Entries
  <2>4. ArriveOK'
    BY <1>3, <2>3, AppendProperties DEF AddMustArrive, ArriveOK
  <2> QED BY <1>3, <2>1, <2>2, <2>4 DEF AddMustArrive
<1>4. CASE Number(t)
  <2>1. ControlOK'
    BY <1>4, <1>0, ControlFacts DEF Number
  <2>2. m_write_counter' \in (-1)..MaxWrite
    BY <1>4, SizesAssumption DEF Number, Successor
  <2> QED BY <1>4, <2>1, <2>2 DEF Number
<1>5. CASE Enqueue(t) \/ EnqueueTimeout(t)
  <2>1. Return(t)
    BY <1>5 DEF Enqueue, EnqueueTimeout
  <2>2. /\ t \in Apps => then[t] \in AppLabels
        /\ t = RecvTask => then[t] \in HandlerLabels
    BY <1>0 DEF CallerOK
  <2>3. ControlOK'
    BY <2>1, <2>2, <1>0, ControlFacts DEF Return
  <2>4. CallerOK'
    BY <2>1, <1>5 DEF Return, Home, Enqueue, EnqueueTimeout, CallerOK
  <2>5. addr[t] \in Addrs
    BY <1>5 DEF Enqueue, EnqueueTimeout, TargetInv, Sending, CallerOK
  <2>6. QueueOK'
    BY <2>5, <1>5, SizesAssumption, AppendProperties, LenProperties
       DEF Enqueue, EnqueueTimeout, QueueOK
  <2>7. mustarrive_owner' \in Tasks \cup {Nobody}
    BY <2>1 DEF Return
  <2> QED BY <1>5, <2>3, <2>4, <2>6, <2>7 DEF Enqueue, EnqueueTimeout
<1> QED BY <1>1, <1>2, <1>3, <1>4, <1>5 DEF CallerStep

LEMMA TypeHandler ==
    ASSUME TypeInv,
           HandlerStep \/ (\E a \in Addrs : ReceiveDiscover(a))
                       \/ (\E p \in Packets, n \in Numbers : ReceivePacket(p, n))
    PROVE  TypeOK'
<1> USE TaskFacts, UnchangedFacts DEF TypeInv, TypeOK
<1> DEFINE Move(label) == label \in HandlerLabels /\ Goto(RecvTask, label)
<1>0. ASSUME NEW label, Move(label)
      PROVE  ControlOK'
  BY <1>0, ControlFacts
<1>1. ASSUME NEW a \in Addrs, ReceiveDiscover(a)
      PROVE  TypeOK'
  <2>1. ControlOK'
    BY <1>1, <1>0 DEF ReceiveDiscover, HandlerLabels
  <2>2. CallerOK'
    BY <1>1 DEF ReceiveDiscover, CallerOK, caller_vars
  <2> QED BY <1>1, <2>1, <2>2 DEF ReceiveDiscover
<1>2. ASSUME NEW p \in Packets, NEW n \in Numbers, ReceivePacket(p, n)
      PROVE  TypeOK'
  <2>1. ControlOK'
    BY <1>2, <1>0 DEF ReceivePacket, Reliability, HandlerLabels
  <2>2. SessionOK' /\ m_write_counter' \in (-1)..MaxWrite
    BY <1>2, PacketsAssumption, SizesAssumption DEF ReceivePacket, SessionOK
  <2> QED BY <1>2, <2>1, <2>2 DEF ReceivePacket
<1>3. CASE TakePossession
  <2>1. ControlOK'
    BY <1>3, <1>0 DEF TakePossession, HandlerLabels
  <2>2. pkt \in Packets /\ pkt.addr \in Addrs
    BY <1>3 DEF TakePossession, PacketInv, Packets
  <2>3. SessionOK' /\ ArriveOK' /\ m_write_counter' \in (-1)..MaxWrite
    BY <2>2, <1>3, EmptySeq, SizesAssumption DEF TakePossession, SessionOK, ArriveOK
  <2> QED BY <1>3, <2>1, <2>3 DEF TakePossession
<1>4. CASE ClearPending
  <2>1. ControlOK'
    BY <1>4, <1>0 DEF ClearPending, Reliability, HandlerLabels
  <2>2. ArriveOK'
    BY <1>4, EmptySeq DEF ClearPending, ArriveOK
  <2> QED BY <1>4, <2>1, <2>2 DEF ClearPending
<1>5. CASE Respond
  <2>1. ControlOK'
    BY <1>5, <1>0 DEF Respond, HandlerLabels
  <2>2. pkt.addr \in Addrs
    BY <1>5 DEF Respond, PacketInv, Packets
  <2>3. CallerOK'
    BY <1>5, <2>2 DEF Respond, CallerOK
  <2> QED BY <1>5, <2>1, <2>3 DEF Respond
<1>6. CASE CheckSeen
  <2>1. ControlOK'
    BY <1>6, <1>0 DEF CheckSeen, HandlerLabels
  <2>2. pkt.f \in Fs
    BY <1>6 DEF CheckSeen, PacketInv, Packets
  <2>3. SessionOK' /\ pkt' \in Packets \cup {NoPacket}
    BY <1>6, <2>2 DEF CheckSeen, SessionOK
  <2> QED BY <1>6, <2>1, <2>3 DEF CheckSeen
<1>7. CASE Acknowledge
  <2>1. ControlOK'
    BY <1>7, <1>0 DEF Acknowledge, HandlerLabels
  <2>2. ASSUME NEW k \in First(pkt.e), m_mustarrive_queue' = RemoveAt(m_mustarrive_queue, k)
        PROVE  m_mustarrive_queue' \in Seq(Entries)
    BY <2>2, RemoveAtFacts, LenProperties DEF First, ArriveOK
  <2>3. ArriveOK'
    BY <2>2, <1>7 DEF Acknowledge, ArriveOK
  <2> QED BY <1>7, <2>1, <2>3 DEF Acknowledge
<1>8. CASE Announce
  <2>1. ControlOK'
    BY <1>8, <1>0 DEF Announce, Begin, HandlerLabels
  <2>2. CallerOK'
    BY <1>8 DEF Announce, Begin, CallerOK, SessionOK
  <2> QED BY <1>8, <2>1, <2>2 DEF Announce
<1>9. CASE Callback
  <2>1. ControlOK'
    BY <1>9, <1>0 DEF Callback, HandlerLabels
  <2>2. pkt.f = Absent \/ pkt.f \in Fs
    BY DEF Packets, NoPacket
  <2>3. SessionOK'
    BY <1>9, <2>2, AppendProperties DEF Callback, SessionOK
  <2> QED BY <1>9, <2>1, <2>3 DEF Callback
<1>10. CASE CallbackReturns
  <2>1. ControlOK'
    BY <1>10, <1>0 DEF CallbackReturns, HandlerLabels
  <2> QED BY <1>10, <2>1 DEF CallbackReturns
<1> QED BY <1>1, <1>2, <1>3, <1>4, <1>5, <1>6, <1>7, <1>8, <1>9, <1>10 DEF HandlerStep

LEMMA TypeSender ==
    ASSUME TypeInv,
           \/ SenderStep
           \/ TimerExpires
           \/ \E fd \in WsAddrs : ClientConnects(fd) \/ ClientFails(fd)
           \/ UNCHANGED vars
    PROVE  TypeOK'
<1> USE TaskFacts, UnchangedFacts DEF TypeInv, TypeOK
<1> DEFINE Move(label) == label \in SenderLabels /\ Goto(SendTask, label)
<1>0. ASSUME NEW label, Move(label)
      PROVE  ControlOK'
  BY <1>0, ControlFacts
<1>1. CASE Transmit
  <2>1. QueueOK'
    BY <1>1, HeadTailProperties, LenProperties, SizesAssumption DEF Transmit, QueueOK
  <2>2. SenderOK'
    BY <1>1, SizesAssumption DEF Transmit, SenderOK
  <2>3. m_clients' \subseteq WsAddrs
    BY <1>1 DEF Transmit
  <2> QED BY <1>1, <2>1, <2>2, <2>3 DEF Transmit
<1>2. CASE EndBurst
  <2>1. ControlOK'
    BY <1>2, <1>0 DEF EndBurst, SenderLabels
  <2>2. SenderOK'
    BY <1>2, SizesAssumption DEF EndBurst, SenderOK
  <2> QED BY <1>2, <2>1, <2>2 DEF EndBurst
<1>3. CASE LockResend
  <2>1. ControlOK'
    BY <1>3, <1>0 DEF LockResend, SenderLabels
  <2>2. SenderOK'
    BY <1>3 DEF LockResend, is_possessed, SenderOK, SessionOK
  <2> QED BY <1>3, <2>1, <2>2 DEF LockResend
<1>4. CASE ResendOne
  <2>1. itr \in 1..Len(m_mustarrive_queue) /\ m_mustarrive_queue[itr] \in Entries
    BY <1>4, LenProperties, ElementOfSeq DEF ResendOne, ArriveOK, SenderOK
  <2> DEFINE tried == m_mustarrive_queue[itr].attempts + 1
  <2>2. ASSUME tried >= MaxAttempts
        PROVE  ArriveOK' /\ SenderOK'
    <3>1. m_mustarrive_queue' \in Seq(Entries)
      BY <2>2, <2>1, <1>4, RemoveAtFacts DEF ResendOne, ArriveOK
    <3> QED BY <3>1, <2>2, <1>4 DEF ResendOne, ArriveOK, SenderOK
  <2>3. ASSUME ~(tried >= MaxAttempts)
        PROVE  ArriveOK' /\ SenderOK'
    <3>1. [m_mustarrive_queue[itr] EXCEPT !.attempts = tried] \in Entries
      BY <2>1, TriedEntry
    <3>2. m_mustarrive_queue' = [m_mustarrive_queue EXCEPT ![itr] =
                                   [m_mustarrive_queue[itr] EXCEPT !.attempts = tried]]
      BY <2>3, <1>4 DEF ResendOne
    <3>3. m_mustarrive_queue' \in Seq(Entries)
      BY <3>1, <3>2, <2>1, ExceptSeq DEF ArriveOK
    <3> QED BY <3>3, <2>3, <1>4 DEF ResendOne, ArriveOK, SenderOK
  <2>4. m_write_counter' \in (-1)..MaxWrite
    BY <1>4, SizesAssumption DEF ResendOne, Successor
  <2> QED BY <1>4, <2>2, <2>3, <2>4 DEF ResendOne
<1>5. CASE EndResend
  <2>1. ControlOK'
    BY <1>5, <1>0 DEF EndResend, SenderLabels
  <2>2. /\ burst' = burst /\ timer_due' = FALSE
        /\ resend_addr' = NoAddr /\ itr' = 1
    BY <1>5 DEF EndResend
  <2>3. SenderOK'
    <3>1. burst' \in 0..MaxBurst
      BY <2>2 DEF SenderOK
    <3>2. timer_due' \in BOOLEAN
      BY <2>2
    <3>3. resend_addr' \in Addrs \cup {NoAddr} /\ itr' \in Nat \ {0}
      BY <2>2
    <3> QED BY <3>1, <3>2, <3>3 DEF SenderOK
  <2> QED BY <1>5, <2>1, <2>3 DEF EndResend
<1>6. CASE TimerExpires
  <2>1. SenderOK'
    BY <1>6 DEF TimerExpires, SenderOK
  <2> QED BY <1>6, <2>1 DEF TimerExpires
<1>7. ASSUME NEW fd \in WsAddrs, ClientConnects(fd) \/ ClientFails(fd)
      PROVE  TypeOK'
  BY <1>7 DEF ClientConnects, ClientFails
<1>8. CASE UNCHANGED vars
  BY <1>8 DEF vars
<1> QED BY <1>1, <1>2, <1>3, <1>4, <1>5, <1>6, <1>7, <1>8 DEF SenderStep

-----------------------------------------------------------------------------
(* The parts of the inductive invariant, one lemma each, one step per action. *)

\* A call has a target while it is under way.
LEMMA KeepsTarget ==
    ASSUME IInv, TypeOK', [Next]_vars
    PROVE  TargetInv'
<1> USE TaskFacts, GotoFacts, AddrsAssumption
    DEF TargetInv, Sending, is_possessed, PacketInv, Packets, IInv, TypeOK, ControlOK,
        CallerOK, session_vars, arrive_vars, caller_vars, sender_vars
<1>1. ASSUME NEW t \in Callers, SendCall(t)
      PROVE  TargetInv'
  BY <1>1 DEF SendCall, MayCall, Begin, Home
<1>2. ASSUME NEW t \in Callers, MustArriveCall(t)
      PROVE  TargetInv'
  BY <1>2 DEF MustArriveCall, MayCall, Begin, Home
<1>3. ASSUME NEW t \in Callers, LockMustArrive(t)
      PROVE  TargetInv'
  BY <1>3 DEF LockMustArrive
<1>4. ASSUME NEW t \in Callers, AddMustArrive(t)
      PROVE  TargetInv'
  BY <1>4 DEF AddMustArrive
<1>5. ASSUME NEW t \in Callers, Number(t)
      PROVE  TargetInv'
  BY <1>5 DEF Number
<1>6. ASSUME NEW t \in Callers, Enqueue(t)
      PROVE  TargetInv'
  BY <1>6 DEF Enqueue, Return, Home
<1>7. ASSUME NEW t \in Callers, EnqueueTimeout(t)
      PROVE  TargetInv'
  BY <1>7 DEF EnqueueTimeout, Return, Home
<1>8. ASSUME NEW a \in Addrs, ReceiveDiscover(a)
      PROVE  TargetInv'
  BY <1>8 DEF ReceiveDiscover
<1>9. ASSUME NEW p \in Packets, NEW n \in Numbers, ReceivePacket(p, n)
      PROVE  TargetInv'
  BY <1>9 DEF ReceivePacket, Reliability
<1>10. CASE TakePossession
  BY <1>10 DEF TakePossession
<1>11. CASE ClearPending
  BY <1>11 DEF ClearPending, Reliability
<1>12. CASE Respond
  BY <1>12 DEF Respond
<1>13. CASE CheckSeen
  BY <1>13 DEF CheckSeen
<1>14. CASE Acknowledge
  BY <1>14 DEF Acknowledge
<1>15. CASE Announce
  BY <1>15 DEF Announce, Begin
<1>16. CASE Callback
  BY <1>16 DEF Callback
<1>17. CASE CallbackReturns
  BY <1>17 DEF CallbackReturns
<1>18. CASE Transmit
  BY <1>18 DEF Transmit
<1>19. CASE EndBurst
  BY <1>19 DEF EndBurst
<1>20. CASE LockResend
  BY <1>20 DEF LockResend
<1>21. CASE ResendOne
  BY <1>21 DEF ResendOne
<1>22. CASE EndResend
  BY <1>22 DEF EndResend
<1>23. ASSUME NEW fd \in WsAddrs, ClientConnects(fd) \/ ClientFails(fd)
       PROVE  TargetInv'
  BY <1>23 DEF ClientConnects, ClientFails
<1>24. CASE TimerExpires
  BY <1>24 DEF TimerExpires
<1>25. CASE UNCHANGED vars
  BY <1>25 DEF vars
<1> QED BY <1>1, <1>2, <1>3, <1>4, <1>5, <1>6, <1>7, <1>8, <1>9, <1>10, <1>11, <1>12, <1>13,
           <1>14, <1>15, <1>16, <1>17, <1>18, <1>19, <1>20, <1>21, <1>22, <1>23, <1>24,
           <1>25
       DEF Next, CallerStep, HandlerStep, SenderStep, Environment

\* handle_msg has a packet while it works on one.
LEMMA KeepsPacket ==
    ASSUME IInv, TypeOK', [Next]_vars
    PROVE  PacketInv'
<1> USE TaskFacts, GotoFacts
    DEF PacketInv, Sending, Packets, NoPacket, SessionOK, IInv, TypeOK, ControlOK, CallerOK,
        session_vars, arrive_vars, caller_vars, sender_vars
<1>1. ASSUME NEW t \in Callers, SendCall(t)
      PROVE  PacketInv'
  BY <1>1 DEF SendCall, MayCall, Begin, Home
<1>2. ASSUME NEW t \in Callers, MustArriveCall(t)
      PROVE  PacketInv'
  BY <1>2 DEF MustArriveCall, MayCall, Begin, Home
<1>3. ASSUME NEW t \in Callers, LockMustArrive(t)
      PROVE  PacketInv'
  BY <1>3 DEF LockMustArrive
<1>4. ASSUME NEW t \in Callers, AddMustArrive(t)
      PROVE  PacketInv'
  BY <1>4 DEF AddMustArrive
<1>5. ASSUME NEW t \in Callers, Number(t)
      PROVE  PacketInv'
  BY <1>5 DEF Number
<1>6. ASSUME NEW t \in Callers, Enqueue(t)
      PROVE  PacketInv'
  BY <1>6 DEF Enqueue, Return, Home
<1>7. ASSUME NEW t \in Callers, EnqueueTimeout(t)
      PROVE  PacketInv'
  BY <1>7 DEF EnqueueTimeout, Return, Home
<1>8. ASSUME NEW a \in Addrs, ReceiveDiscover(a)
      PROVE  PacketInv'
  BY <1>8 DEF ReceiveDiscover
<1>9. ASSUME NEW p \in Packets, NEW n \in Numbers, ReceivePacket(p, n)
      PROVE  PacketInv'
  BY <1>9 DEF ReceivePacket, Reliability
<1>10. CASE TakePossession
  BY <1>10 DEF TakePossession
<1>11. CASE ClearPending
  BY <1>11 DEF ClearPending, Reliability
<1>12. CASE Respond
  BY <1>12 DEF Respond
<1>13. CASE CheckSeen
  BY <1>13 DEF CheckSeen
<1>14. CASE Acknowledge
  BY <1>14 DEF Acknowledge
<1>15. CASE Announce
  BY <1>15 DEF Announce, Begin
<1>16. CASE Callback
  BY <1>16 DEF Callback
<1>17. CASE CallbackReturns
  BY <1>17 DEF CallbackReturns
<1>18. CASE Transmit
  BY <1>18 DEF Transmit
<1>19. CASE EndBurst
  BY <1>19 DEF EndBurst
<1>20. CASE LockResend
  BY <1>20 DEF LockResend
<1>21. CASE ResendOne
  BY <1>21 DEF ResendOne
<1>22. CASE EndResend
  BY <1>22 DEF EndResend
<1>23. ASSUME NEW fd \in WsAddrs, ClientConnects(fd) \/ ClientFails(fd)
       PROVE  PacketInv'
  BY <1>23 DEF ClientConnects, ClientFails
<1>24. CASE TimerExpires
  BY <1>24 DEF TimerExpires
<1>25. CASE UNCHANGED vars
  BY <1>25 DEF vars
<1> QED BY <1>1, <1>2, <1>3, <1>4, <1>5, <1>6, <1>7, <1>8, <1>9, <1>10, <1>11, <1>12, <1>13,
           <1>14, <1>15, <1>16, <1>17, <1>18, <1>19, <1>20, <1>21, <1>22, <1>23, <1>24,
           <1>25
       DEF Next, CallerStep, HandlerStep, SenderStep, Environment

\* The owner of m_mustarrive_mutex is where the code holds it.
LEMMA KeepsOwner ==
    ASSUME IInv, TypeOK', [Next]_vars
    PROVE  OwnerInv'
<1> USE TaskFacts, GotoFacts
    DEF OwnerInv, IInv, TypeOK, ControlOK, CallerOK, session_vars, arrive_vars, caller_vars,
        sender_vars
<1>1. ASSUME NEW t \in Callers, SendCall(t)
      PROVE  OwnerInv'
  BY <1>1 DEF SendCall, MayCall, Begin, Home
<1>2. ASSUME NEW t \in Callers, MustArriveCall(t)
      PROVE  OwnerInv'
  BY <1>2 DEF MustArriveCall, MayCall, Begin, Home
<1>3. ASSUME NEW t \in Callers, LockMustArrive(t)
      PROVE  OwnerInv'
  BY <1>3 DEF LockMustArrive
<1>4. ASSUME NEW t \in Callers, AddMustArrive(t)
      PROVE  OwnerInv'
  BY <1>4 DEF AddMustArrive
<1>5. ASSUME NEW t \in Callers, Number(t)
      PROVE  OwnerInv'
  BY <1>5 DEF Number
<1>6. ASSUME NEW t \in Callers, Enqueue(t)
      PROVE  OwnerInv'
  BY <1>6 DEF Enqueue, Return, Home
<1>7. ASSUME NEW t \in Callers, EnqueueTimeout(t)
      PROVE  OwnerInv'
  BY <1>7 DEF EnqueueTimeout, Return, Home
<1>8. ASSUME NEW a \in Addrs, ReceiveDiscover(a)
      PROVE  OwnerInv'
  BY <1>8 DEF ReceiveDiscover
<1>9. ASSUME NEW p \in Packets, NEW n \in Numbers, ReceivePacket(p, n)
      PROVE  OwnerInv'
  BY <1>9 DEF ReceivePacket, Reliability
<1>10. CASE TakePossession
  BY <1>10 DEF TakePossession
<1>11. CASE ClearPending
  BY <1>11 DEF ClearPending, Reliability
<1>12. CASE Respond
  BY <1>12 DEF Respond
<1>13. CASE CheckSeen
  BY <1>13 DEF CheckSeen
<1>14. CASE Acknowledge
  BY <1>14 DEF Acknowledge
<1>15. CASE Announce
  BY <1>15 DEF Announce, Begin
<1>16. CASE Callback
  BY <1>16 DEF Callback
<1>17. CASE CallbackReturns
  BY <1>17 DEF CallbackReturns
<1>18. CASE Transmit
  BY <1>18 DEF Transmit
<1>19. CASE EndBurst
  BY <1>19 DEF EndBurst
<1>20. CASE LockResend
  BY <1>20 DEF LockResend
<1>21. CASE ResendOne
  BY <1>21 DEF ResendOne
<1>22. CASE EndResend
  BY <1>22 DEF EndResend
<1>23. ASSUME NEW fd \in WsAddrs, ClientConnects(fd) \/ ClientFails(fd)
       PROVE  OwnerInv'
  BY <1>23 DEF ClientConnects, ClientFails
<1>24. CASE TimerExpires
  BY <1>24 DEF TimerExpires
<1>25. CASE UNCHANGED vars
  BY <1>25 DEF vars
<1> QED BY <1>1, <1>2, <1>3, <1>4, <1>5, <1>6, <1>7, <1>8, <1>9, <1>10, <1>11, <1>12, <1>13,
           <1>14, <1>15, <1>16, <1>17, <1>18, <1>19, <1>20, <1>21, <1>22, <1>23, <1>24,
           <1>25
       DEF Next, CallerStep, HandlerStep, SenderStep, Environment

\* Outside the window nobody stores a stale m_mustarrive_e.
LEMMA KeepsLoaded ==
    ASSUME IInv, TypeOK', [Next]_vars
    PROVE  LoadedInv'
<1> USE TaskFacts, GotoFacts
    DEF LoadedInv, OwnerInv, IInv, TypeOK, ControlOK, CallerOK, session_vars, arrive_vars,
        caller_vars, sender_vars
<1>1. ASSUME NEW t \in Callers, SendCall(t)
      PROVE  LoadedInv'
  BY <1>1 DEF SendCall, MayCall, Begin, Home
<1>2. ASSUME NEW t \in Callers, MustArriveCall(t)
      PROVE  LoadedInv'
  BY <1>2 DEF MustArriveCall, MayCall, Begin, Home
<1>3. ASSUME NEW t \in Callers, LockMustArrive(t)
      PROVE  LoadedInv'
  BY <1>3 DEF LockMustArrive
<1>4. ASSUME NEW t \in Callers, AddMustArrive(t)
      PROVE  LoadedInv'
  BY <1>4 DEF AddMustArrive
<1>5. ASSUME NEW t \in Callers, Number(t)
      PROVE  LoadedInv'
  BY <1>5 DEF Number
<1>6. ASSUME NEW t \in Callers, Enqueue(t)
      PROVE  LoadedInv'
  BY <1>6 DEF Enqueue, Return, Home
<1>7. ASSUME NEW t \in Callers, EnqueueTimeout(t)
      PROVE  LoadedInv'
  BY <1>7 DEF EnqueueTimeout, Return, Home
<1>8. ASSUME NEW a \in Addrs, ReceiveDiscover(a)
      PROVE  LoadedInv'
  BY <1>8 DEF ReceiveDiscover
<1>9. ASSUME NEW p \in Packets, NEW n \in Numbers, ReceivePacket(p, n)
      PROVE  LoadedInv'
  BY <1>9 DEF ReceivePacket, Reliability
<1>10. CASE TakePossession
  BY <1>10 DEF TakePossession
<1>11. CASE ClearPending
  BY <1>11 DEF ClearPending, Reliability
<1>12. CASE Respond
  BY <1>12 DEF Respond
<1>13. CASE CheckSeen
  BY <1>13 DEF CheckSeen
<1>14. CASE Acknowledge
  BY <1>14 DEF Acknowledge
<1>15. CASE Announce
  BY <1>15 DEF Announce, Begin
<1>16. CASE Callback
  BY <1>16 DEF Callback
<1>17. CASE CallbackReturns
  BY <1>17 DEF CallbackReturns
<1>18. CASE Transmit
  BY <1>18 DEF Transmit
<1>19. CASE EndBurst
  BY <1>19 DEF EndBurst
<1>20. CASE LockResend
  BY <1>20 DEF LockResend
<1>21. CASE ResendOne
  BY <1>21 DEF ResendOne
<1>22. CASE EndResend
  BY <1>22 DEF EndResend
<1>23. ASSUME NEW fd \in WsAddrs, ClientConnects(fd) \/ ClientFails(fd)
       PROVE  LoadedInv'
  BY <1>23 DEF ClientConnects, ClientFails
<1>24. CASE TimerExpires
  BY <1>24 DEF TimerExpires
<1>25. CASE UNCHANGED vars
  BY <1>25 DEF vars
<1> QED BY <1>1, <1>2, <1>3, <1>4, <1>5, <1>6, <1>7, <1>8, <1>9, <1>10, <1>11, <1>12, <1>13,
           <1>14, <1>15, <1>16, <1>17, <1>18, <1>19, <1>20, <1>21, <1>22, <1>23, <1>24,
           <1>25
       DEF Next, CallerStep, HandlerStep, SenderStep, Environment

\* Ids are asked for on a possessed device only.
LEMMA KeepsPossessed ==
    ASSUME IInv, TypeOK', [Next]_vars
    PROVE  PossessedInv'
<1> USE TaskFacts, GotoFacts, AddrsAssumption
    DEF PossessedInv, Sending, is_possessed, PacketInv, Packets, IInv, TypeOK, ControlOK,
        CallerOK, session_vars, arrive_vars, caller_vars, sender_vars
<1>1. ASSUME NEW t \in Callers, SendCall(t)
      PROVE  PossessedInv'
  BY <1>1 DEF SendCall, MayCall, Begin, Home
<1>2. ASSUME NEW t \in Callers, MustArriveCall(t)
      PROVE  PossessedInv'
  BY <1>2 DEF MustArriveCall, MayCall, Begin, Home
<1>3. ASSUME NEW t \in Callers, LockMustArrive(t)
      PROVE  PossessedInv'
  BY <1>3 DEF LockMustArrive
<1>4. ASSUME NEW t \in Callers, AddMustArrive(t)
      PROVE  PossessedInv'
  BY <1>4 DEF AddMustArrive
<1>5. ASSUME NEW t \in Callers, Number(t)
      PROVE  PossessedInv'
  BY <1>5 DEF Number
<1>6. ASSUME NEW t \in Callers, Enqueue(t)
      PROVE  PossessedInv'
  BY <1>6 DEF Enqueue, Return, Home
<1>7. ASSUME NEW t \in Callers, EnqueueTimeout(t)
      PROVE  PossessedInv'
  BY <1>7 DEF EnqueueTimeout, Return, Home
<1>8. ASSUME NEW a \in Addrs, ReceiveDiscover(a)
      PROVE  PossessedInv'
  BY <1>8 DEF ReceiveDiscover
<1>9. ASSUME NEW p \in Packets, NEW n \in Numbers, ReceivePacket(p, n)
      PROVE  PossessedInv'
  BY <1>9 DEF ReceivePacket, Reliability
<1>10. CASE TakePossession
  BY <1>10 DEF TakePossession
<1>11. CASE ClearPending
  BY <1>11 DEF ClearPending, Reliability
<1>12. CASE Respond
  BY <1>12 DEF Respond
<1>13. CASE CheckSeen
  BY <1>13 DEF CheckSeen
<1>14. CASE Acknowledge
  BY <1>14 DEF Acknowledge
<1>15. CASE Announce
  BY <1>15 DEF Announce, Begin
<1>16. CASE Callback
  BY <1>16 DEF Callback
<1>17. CASE CallbackReturns
  BY <1>17 DEF CallbackReturns
<1>18. CASE Transmit
  BY <1>18 DEF Transmit
<1>19. CASE EndBurst
  BY <1>19 DEF EndBurst
<1>20. CASE LockResend
  BY <1>20 DEF LockResend
<1>21. CASE ResendOne
  BY <1>21 DEF ResendOne
<1>22. CASE EndResend
  BY <1>22 DEF EndResend
<1>23. ASSUME NEW fd \in WsAddrs, ClientConnects(fd) \/ ClientFails(fd)
       PROVE  PossessedInv'
  BY <1>23 DEF ClientConnects, ClientFails
<1>24. CASE TimerExpires
  BY <1>24 DEF TimerExpires
<1>25. CASE UNCHANGED vars
  BY <1>25 DEF vars
<1> QED BY <1>1, <1>2, <1>3, <1>4, <1>5, <1>6, <1>7, <1>8, <1>9, <1>10, <1>11, <1>12, <1>13,
           <1>14, <1>15, <1>16, <1>17, <1>18, <1>19, <1>20, <1>21, <1>22, <1>23, <1>24,
           <1>25
       DEF Next, CallerStep, HandlerStep, SenderStep, Environment

\* The "f"s of a session are numbers and never the reserved one.
LEMMA NumbersOfSession ==
    ASSUME SessionOK
    PROVE  /\ \A f \in Fs : f \in Nat /\ f # NoF
           /\ m_mustarrive_f \in Nat
           /\ \A i \in DOMAIN delivered : delivered[i] \in Nat
<1>1. \A i \in DOMAIN delivered : delivered[i] \in Fs
  BY ElementOfSeq, LenProperties DEF SessionOK
<1>2. \A f \in Fs : f \in Nat /\ f # NoF
  BY PacketsAssumption
<1>3. m_mustarrive_f \in Nat
  BY PacketsAssumption DEF SessionOK
<1> QED BY <1>1, <1>2, <1>3

\* m_mustarrive_f bounds what was delivered.
LEMMA KeepsSeen ==
    ASSUME IInv, TypeOK', [Next]_vars
    PROVE  SeenInv'
<1> USE TaskFacts, GotoFacts, PacketsAssumption
    DEF SeenInv, PacketInv, Sending, Packets, NoPacket, Delivering, Seen, SessionOK, IInv,
        TypeOK, ControlOK, CallerOK, session_vars, arrive_vars, caller_vars, sender_vars
<1>1. ASSUME NEW t \in Callers, SendCall(t)
      PROVE  SeenInv'
  BY <1>1 DEF SendCall, MayCall, Begin, Home
<1>2. ASSUME NEW t \in Callers, MustArriveCall(t)
      PROVE  SeenInv'
  BY <1>2 DEF MustArriveCall, MayCall, Begin, Home
<1>3. ASSUME NEW t \in Callers, LockMustArrive(t)
      PROVE  SeenInv'
  BY <1>3 DEF LockMustArrive
<1>4. ASSUME NEW t \in Callers, AddMustArrive(t)
      PROVE  SeenInv'
  BY <1>4 DEF AddMustArrive
<1>5. ASSUME NEW t \in Callers, Number(t)
      PROVE  SeenInv'
  BY <1>5 DEF Number
<1>6. ASSUME NEW t \in Callers, Enqueue(t)
      PROVE  SeenInv'
  BY <1>6 DEF Enqueue, Return, Home
<1>7. ASSUME NEW t \in Callers, EnqueueTimeout(t)
      PROVE  SeenInv'
  BY <1>7 DEF EnqueueTimeout, Return, Home
<1>8. ASSUME NEW a \in Addrs, ReceiveDiscover(a)
      PROVE  SeenInv'
  BY <1>8 DEF ReceiveDiscover
<1>9. ASSUME NEW p \in Packets, NEW n \in Numbers, ReceivePacket(p, n)
      PROVE  SeenInv'
  BY <1>9 DEF ReceivePacket, Reliability
<1>10. CASE TakePossession
  BY <1>10 DEF TakePossession
<1>11. CASE ClearPending
  BY <1>11 DEF ClearPending, Reliability
<1>12. CASE Respond
  BY <1>12 DEF Respond
<1>13. CASE CheckSeen
  <2>1. pkt.f \in Fs /\ pkt.f \in Nat /\ pkt.f # NoF /\ m_mustarrive_f \in Nat
    <3>1. pkt \in Packets /\ pkt.f # Absent
      BY <1>13 DEF CheckSeen
    <3>2. pkt.f \in Fs
      BY <3>1
    <3> QED BY <3>2, NumbersOfSession
  <2>2. \A i \in DOMAIN delivered : delivered[i] \in Nat
    BY NumbersOfSession
  <2>3. CASE Seen(pkt.f)
    BY <2>1, <2>3, <1>13 DEF CheckSeen
  <2>4. CASE ~Seen(pkt.f)
    <3>1. /\ m_mustarrive_f' = pkt.f /\ pkt' = pkt /\ delivered' = delivered
      BY <2>4, <1>13 DEF CheckSeen
    <3>2. \A i \in DOMAIN delivered : delivered[i] < pkt.f
      BY <2>1, <2>2, <2>4
    <3> QED BY <2>1, <2>2, <3>1, <3>2
  <2> QED BY <2>3, <2>4
<1>14. CASE Acknowledge
  BY <1>14 DEF Acknowledge
<1>15. CASE Announce
  BY <1>15 DEF Announce, Begin
<1>16. CASE Callback
  BY <1>16 DEF Callback
<1>17. CASE CallbackReturns
  BY <1>17 DEF CallbackReturns
<1>18. CASE Transmit
  BY <1>18 DEF Transmit
<1>19. CASE EndBurst
  BY <1>19 DEF EndBurst
<1>20. CASE LockResend
  BY <1>20 DEF LockResend
<1>21. CASE ResendOne
  BY <1>21 DEF ResendOne
<1>22. CASE EndResend
  BY <1>22 DEF EndResend
<1>23. ASSUME NEW fd \in WsAddrs, ClientConnects(fd) \/ ClientFails(fd)
       PROVE  SeenInv'
  BY <1>23 DEF ClientConnects, ClientFails
<1>24. CASE TimerExpires
  BY <1>24 DEF TimerExpires
<1>25. CASE UNCHANGED vars
  BY <1>25 DEF vars
<1> QED BY <1>1, <1>2, <1>3, <1>4, <1>5, <1>6, <1>7, <1>8, <1>9, <1>10, <1>11, <1>12, <1>13,
           <1>14, <1>15, <1>16, <1>17, <1>18, <1>19, <1>20, <1>21, <1>22, <1>23, <1>24,
           <1>25
       DEF Next, CallerStep, HandlerStep, SenderStep, Environment

\* Removing an entry leaves the ids distinct.
LEMMA RemovalKeepsDistinct ==
    ASSUME NEW q \in Seq(Entries), NEW e \in Nat, NEW k \in 1..Len(q), Distinct(q, e)
    PROVE  Distinct(RemoveAt(q, k), e)
<1> DEFINE r == RemoveAt(q, k)
<1>1. /\ Len(q) \in Nat /\ DOMAIN q = 1..Len(q) /\ k \in Nat
      /\ r \in Seq(Entries) /\ Len(r) = Len(q) - 1
      /\ \A i \in 1..(Len(q) - 1) : r[i] = IF i < k THEN q[i] ELSE q[i + 1]
  BY RemoveAtFacts, LenProperties
<1>2. DOMAIN r = 1..(Len(q) - 1)
  BY <1>1, LenProperties
<1> HIDE DEF r
<1>3. ASSUME NEW i \in DOMAIN r
      PROVE  \E m \in DOMAIN q : r[i] = q[m] /\ m = IF i < k THEN i ELSE i + 1
  BY <1>1, <1>2
<1>4. \A i \in DOMAIN r : r[i].id < e
  BY <1>3 DEF Distinct
<1>5. ASSUME NEW i \in DOMAIN r, NEW j \in DOMAIN r, r[i].id = r[j].id
      PROVE  i = j
  <2>1. PICK m \in DOMAIN q : r[i] = q[m] /\ m = IF i < k THEN i ELSE i + 1
    BY <1>3
  <2>2. PICK n \in DOMAIN q : r[j] = q[n] /\ n = IF j < k THEN j ELSE j + 1
    BY <1>3
  <2>3. m = n
    BY <2>1, <2>2, <1>5 DEF Distinct
  <2> QED BY <2>1, <2>2, <2>3, <1>1, <1>2
<1> QED BY <1>4, <1>5 DEF Distinct, r

\* Nor does an entry with the next id make them equal.
LEMMA AppendKeepsDistinct ==
    ASSUME NEW q \in Seq(Entries), NEW e \in Nat, Distinct(q, e),
           NEW new \in Entries, new.id = e
    PROVE  Distinct(Append(q, new), e + 1)
<1> DEFINE r == Append(q, new)
<1>1. /\ r \in Seq(Entries) /\ Len(r) = Len(q) + 1 /\ Len(q) \in Nat
      /\ DOMAIN q = 1..Len(q) /\ DOMAIN r = 1..(Len(q) + 1)
      /\ \A i \in 1..Len(q) : r[i] = q[i]
      /\ r[Len(q) + 1] = new
  BY AppendProperties, LenProperties
<1>2. \A i \in 1..Len(q) : q[i].id \in Nat /\ q[i].id < e
  <2>1. \A i \in 1..Len(q) : q[i] \in Entries
    BY ElementOfSeq
  <2> QED BY <2>1, <1>1 DEF Distinct, Entries
<1> HIDE DEF r
<1>3. \A i \in DOMAIN r : r[i].id < e + 1
  BY <1>1, <1>2
<1>4. ASSUME NEW i \in DOMAIN r, NEW j \in DOMAIN r, r[i].id = r[j].id
      PROVE  i = j
  <2>1. CASE i \in 1..Len(q) /\ j \in 1..Len(q)
    BY <2>1, <1>1, <1>4 DEF Distinct
  <2>2. CASE ~(i \in 1..Len(q) /\ j \in 1..Len(q))
    BY <2>2, <1>1, <1>2, <1>4
  <2> QED BY <2>1, <2>2
<1> QED BY <1>3, <1>4 DEF Distinct, r

\* Ids stay distinct, and below the next one.
LEMMA KeepsUnique ==
    ASSUME IInv, TypeOK', [Next]_vars
    PROVE  UniqueIds'
<1> USE TaskFacts, GotoFacts
    DEF UniqueIds, Distinct, OwnerInv, LoadedInv, ArriveOK, IInv, TypeOK, ControlOK,
        CallerOK, session_vars, arrive_vars, caller_vars, sender_vars
<1>1. ASSUME NEW t \in Callers, SendCall(t)
      PROVE  UniqueIds'
  BY <1>1 DEF SendCall, MayCall, Begin, Home
<1>2. ASSUME NEW t \in Callers, MustArriveCall(t)
      PROVE  UniqueIds'
  BY <1>2 DEF MustArriveCall, MayCall, Begin, Home
<1>3. ASSUME NEW t \in Callers, LockMustArrive(t)
      PROVE  UniqueIds'
  BY <1>3 DEF LockMustArrive
<1>4. ASSUME NEW t \in Callers, AddMustArrive(t)
      PROVE  UniqueIds'
  <2>1. CASE pc[RecvTask] = "clear"
    BY <2>1, <1>4 DEF AddMustArrive
  <2>2. CASE pc[RecvTask] # "clear"
    <3>1. id[t] = m_mustarrive_e /\ m_mustarrive_e \in Nat
      BY <2>2, <1>4 DEF AddMustArrive
    <3> DEFINE new == [id |-> m_mustarrive_e, attempts |-> 0]
    <3>2. new \in Entries /\ new.id = m_mustarrive_e
      BY <3>1 DEF Entries
    <3>3. m_mustarrive_queue' = Append(m_mustarrive_queue, new)
      BY <3>1, <1>4 DEF AddMustArrive
    <3> HIDE DEF new
    <3>4. m_mustarrive_e' = m_mustarrive_e + 1
      BY <3>1, <1>4 DEF AddMustArrive
    <3>5. Distinct(m_mustarrive_queue, m_mustarrive_e)
      BY <2>2
    <3>6. Distinct(Append(m_mustarrive_queue, new), m_mustarrive_e + 1)
      BY <3>1, <3>2, <3>5, AppendKeepsDistinct
    <3> QED BY <3>3, <3>4, <3>6
  <2> QED BY <2>1, <2>2
<1>5. ASSUME NEW t \in Callers, Number(t)
      PROVE  UniqueIds'
  BY <1>5 DEF Number
<1>6. ASSUME NEW t \in Callers, Enqueue(t)
      PROVE  UniqueIds'
  BY <1>6 DEF Enqueue, Return, Home
<1>7. ASSUME NEW t \in Callers, EnqueueTimeout(t)
      PROVE  UniqueIds'
  BY <1>7 DEF EnqueueTimeout, Return, Home
<1>8. ASSUME NEW a \in Addrs, ReceiveDiscover(a)
      PROVE  UniqueIds'
  BY <1>8 DEF ReceiveDiscover
<1>9. ASSUME NEW p \in Packets, NEW n \in Numbers, ReceivePacket(p, n)
      PROVE  UniqueIds'
  BY <1>9 DEF ReceivePacket, Reliability
<1>10. CASE TakePossession
  BY <1>10 DEF TakePossession
<1>11. CASE ClearPending
  BY <1>11 DEF ClearPending, Reliability
<1>12. CASE Respond
  BY <1>12 DEF Respond
<1>13. CASE CheckSeen
  BY <1>13 DEF CheckSeen
<1>14. CASE Acknowledge
  <2>1. pc[RecvTask] # "clear" /\ m_mustarrive_e' = m_mustarrive_e
    BY <1>14 DEF Acknowledge
  <2>2. ASSUME NEW k \in First(pkt.e), m_mustarrive_queue' = RemoveAt(m_mustarrive_queue, k)
        PROVE  Distinct(m_mustarrive_queue', m_mustarrive_e)
    <3>1. k \in 1..Len(m_mustarrive_queue)
      BY LenProperties DEF First
    <3> QED BY <2>1, <2>2, <3>1, RemovalKeepsDistinct
  <2> QED BY <2>1, <2>2, <1>14 DEF Acknowledge
<1>15. CASE Announce
  BY <1>15 DEF Announce, Begin
<1>16. CASE Callback
  BY <1>16 DEF Callback
<1>17. CASE CallbackReturns
  BY <1>17 DEF CallbackReturns
<1>18. CASE Transmit
  BY <1>18 DEF Transmit
<1>19. CASE EndBurst
  BY <1>19 DEF EndBurst
<1>20. CASE LockResend
  BY <1>20 DEF LockResend
<1>21. CASE ResendOne
  <2>1. /\ itr \in 1..Len(m_mustarrive_queue) /\ m_mustarrive_e' = m_mustarrive_e
        /\ m_mustarrive_queue[itr] \in Entries /\ pc' = pc
    BY <1>21, LenProperties, ElementOfSeq DEF ResendOne, SenderOK
  <2> DEFINE tried == m_mustarrive_queue[itr].attempts + 1
  <2>2. CASE tried >= MaxAttempts
    <3>1. m_mustarrive_queue' = RemoveAt(m_mustarrive_queue, itr)
      BY <2>2, <1>21 DEF ResendOne
    <3>2. pc[RecvTask] # "clear" => Distinct(RemoveAt(m_mustarrive_queue, itr), m_mustarrive_e)
      BY <2>1, RemovalKeepsDistinct
    <3> QED BY <2>1, <3>1, <3>2
  <2>3. CASE ~(tried >= MaxAttempts)
    <3>1. m_mustarrive_queue' = [m_mustarrive_queue EXCEPT ![itr] =
                                   [m_mustarrive_queue[itr] EXCEPT !.attempts = tried]]
      BY <2>3, <1>21 DEF ResendOne
    <3>2. /\ DOMAIN m_mustarrive_queue' = DOMAIN m_mustarrive_queue
          /\ \A i \in DOMAIN m_mustarrive_queue :
                m_mustarrive_queue'[i].id = m_mustarrive_queue[i].id
      BY <2>1, <3>1 DEF Entries
    <3> QED BY <2>1, <3>2
  <2> QED BY <2>2, <2>3
<1>22. CASE EndResend
  BY <1>22 DEF EndResend
<1>23. ASSUME NEW fd \in WsAddrs, ClientConnects(fd) \/ ClientFails(fd)
       PROVE  UniqueIds'
  BY <1>23 DEF ClientConnects, ClientFails
<1>24. CASE TimerExpires
  BY <1>24 DEF TimerExpires
<1>25. CASE UNCHANGED vars
  BY <1>25 DEF vars
<1> QED BY <1>1, <1>2, <1>3, <1>4, <1>5, <1>6, <1>7, <1>8, <1>9, <1>10, <1>11, <1>12, <1>13,
           <1>14, <1>15, <1>16, <1>17, <1>18, <1>19, <1>20, <1>21, <1>22, <1>23, <1>24,
           <1>25
       DEF Next, CallerStep, HandlerStep, SenderStep, Environment

\* What is resent has somewhere to go.
LEMMA KeepsAddressKnown ==
    ASSUME IInv, TypeOK', [Next]_vars
    PROVE  ResendAddressKnown'
<1> USE TaskFacts, GotoFacts, AddrsAssumption
    DEF ResendAddressKnown, OwnerInv, PossessedInv, is_possessed, ArriveOK, PacketInv,
        Packets, IInv, TypeOK, ControlOK, CallerOK, session_vars, arrive_vars, caller_vars,
        sender_vars
<1>1. ASSUME NEW t \in Callers, SendCall(t)
      PROVE  ResendAddressKnown'
  BY <1>1 DEF SendCall, MayCall, Begin, Home
<1>2. ASSUME NEW t \in Callers, MustArriveCall(t)
      PROVE  ResendAddressKnown'
  BY <1>2 DEF MustArriveCall, MayCall, Begin, Home
<1>3. ASSUME NEW t \in Callers, LockMustArrive(t)
      PROVE  ResendAddressKnown'
  BY <1>3 DEF LockMustArrive
<1>4. ASSUME NEW t \in Callers, AddMustArrive(t)
      PROVE  ResendAddressKnown'
  BY <1>4 DEF AddMustArrive
<1>5. ASSUME NEW t \in Callers, Number(t)
      PROVE  ResendAddressKnown'
  BY <1>5 DEF Number
<1>6. ASSUME NEW t \in Callers, Enqueue(t)
      PROVE  ResendAddressKnown'
  BY <1>6 DEF Enqueue, Return, Home
<1>7. ASSUME NEW t \in Callers, EnqueueTimeout(t)
      PROVE  ResendAddressKnown'
  BY <1>7 DEF EnqueueTimeout, Return, Home
<1>8. ASSUME NEW a \in Addrs, ReceiveDiscover(a)
      PROVE  ResendAddressKnown'
  BY <1>8 DEF ReceiveDiscover
<1>9. ASSUME NEW p \in Packets, NEW n \in Numbers, ReceivePacket(p, n)
      PROVE  ResendAddressKnown'
  BY <1>9 DEF ReceivePacket, Reliability
<1>10. CASE TakePossession
  BY <1>10 DEF TakePossession
<1>11. CASE ClearPending
  BY <1>11 DEF ClearPending, Reliability
<1>12. CASE Respond
  BY <1>12 DEF Respond
<1>13. CASE CheckSeen
  BY <1>13 DEF CheckSeen
<1>14. CASE Acknowledge
  <2>1. m_mustarrive_queue' = m_mustarrive_queue \/ m_mustarrive_queue # <<>>
    BY <1>14, EmptySeq, LenProperties DEF Acknowledge, First
  <2>2. /\ UNCHANGED <<m_possessed_addr, resend_addr>>
        /\ pc'[SendTask] = pc[SendTask]
    BY <1>14 DEF Acknowledge
  <2> QED BY <2>1, <2>2
<1>15. CASE Announce
  BY <1>15 DEF Announce, Begin
<1>16. CASE Callback
  BY <1>16 DEF Callback
<1>17. CASE CallbackReturns
  BY <1>17 DEF CallbackReturns
<1>18. CASE Transmit
  BY <1>18 DEF Transmit
<1>19. CASE EndBurst
  BY <1>19 DEF EndBurst
<1>20. CASE LockResend
  BY <1>20 DEF LockResend
<1>21. CASE ResendOne
  <2>1. m_mustarrive_queue # <<>>
    BY <1>21, EmptySeq DEF ResendOne, SenderOK
  <2>2. UNCHANGED <<m_possessed_addr, resend_addr, pc>>
    BY <1>21 DEF ResendOne
  <2> QED BY <2>1, <2>2
<1>22. CASE EndResend
  BY <1>22 DEF EndResend
<1>23. ASSUME NEW fd \in WsAddrs, ClientConnects(fd) \/ ClientFails(fd)
       PROVE  ResendAddressKnown'
  BY <1>23 DEF ClientConnects, ClientFails
<1>24. CASE TimerExpires
  BY <1>24 DEF TimerExpires
<1>25. CASE UNCHANGED vars
  BY <1>25 DEF vars
<1> QED BY <1>1, <1>2, <1>3, <1>4, <1>5, <1>6, <1>7, <1>8, <1>9, <1>10, <1>11, <1>12, <1>13,
           <1>14, <1>15, <1>16, <1>17, <1>18, <1>19, <1>20, <1>21, <1>22, <1>23, <1>24,
           <1>25
       DEF Next, CallerStep, HandlerStep, SenderStep, Environment

\* The callback sees increasing "f"s.
LEMMA KeepsDelivered ==
    ASSUME IInv, TypeOK', [Next]_vars
    PROVE  DeliveredOnce'
<1> USE TaskFacts, GotoFacts
    DEF DeliveredOnce, SeenInv, Delivering, SessionOK, PacketInv, Packets, IInv, TypeOK,
        ControlOK, CallerOK, session_vars, arrive_vars, caller_vars, sender_vars
<1>1. ASSUME NEW t \in Callers, SendCall(t)
      PROVE  DeliveredOnce'
  BY <1>1 DEF SendCall, MayCall, Begin, Home
<1>2. ASSUME NEW t \in Callers, MustArriveCall(t)
      PROVE  DeliveredOnce'
  BY <1>2 DEF MustArriveCall, MayCall, Begin, Home
<1>3. ASSUME NEW t \in Callers, LockMustArrive(t)
      PROVE  DeliveredOnce'
  BY <1>3 DEF LockMustArrive
<1>4. ASSUME NEW t \in Callers, AddMustArrive(t)
      PROVE  DeliveredOnce'
  BY <1>4 DEF AddMustArrive
<1>5. ASSUME NEW t \in Callers, Number(t)
      PROVE  DeliveredOnce'
  BY <1>5 DEF Number
<1>6. ASSUME NEW t \in Callers, Enqueue(t)
      PROVE  DeliveredOnce'
  BY <1>6 DEF Enqueue, Return, Home
<1>7. ASSUME NEW t \in Callers, EnqueueTimeout(t)
      PROVE  DeliveredOnce'
  BY <1>7 DEF EnqueueTimeout, Return, Home
<1>8. ASSUME NEW a \in Addrs, ReceiveDiscover(a)
      PROVE  DeliveredOnce'
  BY <1>8 DEF ReceiveDiscover
<1>9. ASSUME NEW p \in Packets, NEW n \in Numbers, ReceivePacket(p, n)
      PROVE  DeliveredOnce'
  BY <1>9 DEF ReceivePacket, Reliability
<1>10. CASE TakePossession
  BY <1>10 DEF TakePossession
<1>11. CASE ClearPending
  BY <1>11 DEF ClearPending, Reliability
<1>12. CASE Respond
  BY <1>12 DEF Respond
<1>13. CASE CheckSeen
  BY <1>13 DEF CheckSeen
<1>14. CASE Acknowledge
  BY <1>14 DEF Acknowledge
<1>15. CASE Announce
  BY <1>15 DEF Announce, Begin
<1>16. CASE Callback
  BY <1>16 DEF Callback
<1>17. CASE CallbackReturns
  BY <1>17 DEF CallbackReturns
<1>18. CASE Transmit
  BY <1>18 DEF Transmit
<1>19. CASE EndBurst
  BY <1>19 DEF EndBurst
<1>20. CASE LockResend
  BY <1>20 DEF LockResend
<1>21. CASE ResendOne
  BY <1>21 DEF ResendOne
<1>22. CASE EndResend
  BY <1>22 DEF EndResend
<1>23. ASSUME NEW fd \in WsAddrs, ClientConnects(fd) \/ ClientFails(fd)
       PROVE  DeliveredOnce'
  BY <1>23 DEF ClientConnects, ClientFails
<1>24. CASE TimerExpires
  BY <1>24 DEF TimerExpires
<1>25. CASE UNCHANGED vars
  BY <1>25 DEF vars
<1> QED BY <1>1, <1>2, <1>3, <1>4, <1>5, <1>6, <1>7, <1>8, <1>9, <1>10, <1>11, <1>12, <1>13,
           <1>14, <1>15, <1>16, <1>17, <1>18, <1>19, <1>20, <1>21, <1>22, <1>23, <1>24,
           <1>25
       DEF Next, CallerStep, HandlerStep, SenderStep, Environment

-----------------------------------------------------------------------------
(* The theorems.                                                             *)

LEMMA InitIInv == Init => IInv
<1> SUFFICES ASSUME Init PROVE IInv
  OBVIOUS
<1> USE TaskFacts, AddrsAssumption, SizesAssumption, PacketsAssumption DEF Init
<1>1. pc[RecvTask] = "receive" /\ pc[SendTask] = "drain" /\ \A t \in Apps : pc[t] = "idle"
  OBVIOUS
<1>2. SessionOK /\ ArriveOK /\ QueueOK
  BY EmptySeq DEF SessionOK, ArriveOK, QueueOK
<1>3. SenderOK
  <2>1. burst \in 0..MaxBurst
    OBVIOUS
  <2>2. timer_due \in BOOLEAN
    OBVIOUS
  <2>3. resend_addr \in Addrs \cup {NoAddr}
    OBVIOUS
  <2>4. itr \in Nat \ {0}
    OBVIOUS
  <2> QED BY <2>1, <2>2, <2>3, <2>4 DEF SenderOK
<1>10. CallerOK
  <2>1. addr \in [Callers -> Addrs \cup {NoAddr}] /\ id \in [Callers -> Nat]
    OBVIOUS
  <2>2. then \in [Callers -> {"idle", "receive", "check", "callback"}]
    OBVIOUS
  <2>3. then[RecvTask] = "receive" /\ \A t \in Apps : then[t] = "idle"
    OBVIOUS
  <2> QED BY <2>1, <2>2, <2>3 DEF CallerOK
<1>4. ControlOK
  BY <1>1 DEF ControlOK, AppLabels, HandlerLabels, SenderLabels
<1>5. TypeOK
  BY <1>2, <1>3, <1>10, <1>4 DEF TypeOK
<1>6. \A t \in Callers : pc[t] \in {"idle", "receive"}
  BY <1>1
<1>7. OwnerInv /\ LoadedInv /\ PossessedInv /\ TargetInv
  BY <1>1, <1>6 DEF OwnerInv, LoadedInv, PossessedInv, TargetInv, Sending
<1>8. PacketInv /\ SeenInv
  BY <1>1 DEF PacketInv, SeenInv, Delivering, Sending
<1>9. UniqueIds /\ ResendAddressKnown /\ DeliveredOnce
  BY <1>1 DEF UniqueIds, Distinct, ResendAddressKnown, DeliveredOnce
<1> QED BY <1>5, <1>7, <1>8, <1>9 DEF IInv

LEMMA StepIInv == IInv /\ [Next]_vars => IInv'
<1> SUFFICES ASSUME IInv, [Next]_vars PROVE IInv'
  OBVIOUS
<1>1. TypeOK'
  BY TypeCaller, TypeHandler, TypeSender DEF IInv, TypeInv, Next, Environment
<1>2. TargetInv' /\ PacketInv' /\ OwnerInv' /\ LoadedInv' /\ PossessedInv'
  BY <1>1, KeepsTarget, KeepsPacket, KeepsOwner, KeepsLoaded, KeepsPossessed
<1>3. SeenInv' /\ UniqueIds' /\ ResendAddressKnown' /\ DeliveredOnce'
  BY <1>1, KeepsSeen, KeepsUnique, KeepsAddressKnown, KeepsDelivered
<1> QED BY <1>1, <1>2, <1>3 DEF IInv

\* The inductive invariant holds in every reachable state.
THEOREM Invariance == Spec => []IInv
BY InitIInv, StepIInv, PTL DEF Spec

\* Every variable of rb::Protocol keeps its type and m_sendQueue its length.
THEOREM TypeCorrect == Spec => []TypeOK
<1>1. IInv => TypeOK
  BY DEF IInv
<1> QED BY <1>1, Invariance, PTL

\* Outside the window of a possession the pending must-arrive ids are distinct and
\* below the next one, whatever the race on m_mustarrive_e does.
THEOREM IdsUnique == Spec => []UniqueIds
<1>1. IInv => UniqueIds
  BY DEF IInv
<1> QED BY <1>1, Invariance, PTL

\* resend_mustarrive_locked never uses an address it did not read.
THEOREM AddressKnown == Spec => []ResendAddressKnown
<1>1. IInv => ResendAddressKnown
  BY DEF IInv
<1> QED BY <1>1, Invariance, PTL

\* m_callback gets a must-arrive command of the peer at most once in a session.
THEOREM AtMostOnce == Spec => []DeliveredOnce
<1>1. IInv => DeliveredOnce
  BY DEF IInv
<1> QED BY <1>1, Invariance, PTL

-----------------------------------------------------------------------------
(* The refinement: what each step does to the session an application sees.   *)

\* the ids of a queue, so that Pending is IdsOf(m_mustarrive_queue)
IdsOf(q) == {q[k].id : k \in DOMAIN q}

\* A new entry adds its id to the pending ones.
LEMMA AppendIds ==
    ASSUME NEW q \in Seq(Entries), NEW new \in Entries
    PROVE  IdsOf(Append(q, new)) = IdsOf(q) \cup {new.id}
<1> DEFINE r == Append(q, new)
<1>1. /\ Len(q) \in Nat /\ DOMAIN q = 1..Len(q) /\ DOMAIN r = 1..(Len(q) + 1)
      /\ \A i \in 1..Len(q) : r[i] = q[i]
      /\ r[Len(q) + 1] = new
  BY AppendProperties, LenProperties
<1> HIDE DEF r
<1>2. DOMAIN r = DOMAIN q \cup {Len(q) + 1}
  BY <1>1
<1> QED BY <1>1, <1>2 DEF IdsOf, r

\* Removing an entry removes its id, and no other, when ids are distinct.
LEMMA RemovalIds ==
    ASSUME NEW q \in Seq(Entries), NEW e \in Nat, Distinct(q, e), NEW k \in DOMAIN q
    PROVE  IdsOf(RemoveAt(q, k)) = IdsOf(q) \ {q[k].id}
<1> DEFINE r == RemoveAt(q, k)
<1>1. /\ Len(q) \in Nat /\ DOMAIN q = 1..Len(q) /\ k \in 1..Len(q)
      /\ DOMAIN r = 1..(Len(q) - 1)
      /\ \A i \in 1..(Len(q) - 1) : r[i] = IF i < k THEN q[i] ELSE q[i + 1]
  BY RemoveAtFacts, LenProperties
<1> HIDE DEF r
<1>2. ASSUME NEW i \in DOMAIN r
      PROVE  \E m \in DOMAIN q : m # k /\ r[i] = q[m]
  <2>1. CASE i < k
    BY <2>1, <1>1
  <2>2. CASE ~(i < k)
    BY <2>2, <1>1
  <2> QED BY <2>1, <2>2
<1>3. ASSUME NEW m \in DOMAIN q, m # k
      PROVE  \E i \in DOMAIN r : r[i] = q[m]
  <2>1. CASE m < k
    BY <2>1, <1>1
  <2>2. CASE m > k
    <3>1. m - 1 \in DOMAIN r /\ r[m - 1] = q[m]
      BY <2>2, <1>1
    <3> QED BY <3>1
  <2> QED BY <2>1, <2>2, <1>1, <1>3
<1>4. \A m \in DOMAIN q : q[m].id = q[k].id <=> m = k
  BY DEF Distinct
<1> QED BY <1>2, <1>3, <1>4 DEF IdsOf, r

\* The steps that neither give out, settle nor reset ids leave the session alone.
LEMMA QuietStep ==
    ASSUME TypeOK, [Next]_vars, ~TakePossession, ~ClearPending, ~Acknowledge, ~ResendOne,
           \A t \in Callers : ~AddMustArrive(t)
    PROVE  /\ UNCHANGED arrive_vars
           /\ pc'[RecvTask] = "clear" <=> pc[RecvTask] = "clear"
<1> DEFINE Quiet == /\ UNCHANGED arrive_vars
                    /\ pc'[RecvTask] = "clear" <=> pc[RecvTask] = "clear"
<1> USE TaskFacts, GotoFacts
    DEF TypeOK, ControlOK, session_vars, arrive_vars, caller_vars, sender_vars
<1>1. ASSUME NEW t \in Callers, SendCall(t) \/ MustArriveCall(t)
      PROVE  Quiet
  BY <1>1 DEF SendCall, MustArriveCall, MayCall, Begin
<1>2. ASSUME NEW t \in Callers, LockMustArrive(t) \/ Number(t)
      PROVE  Quiet
  BY <1>2 DEF LockMustArrive, Number
<1>3. ASSUME NEW t \in Callers, Enqueue(t) \/ EnqueueTimeout(t)
      PROVE  Quiet
  BY <1>3 DEF Enqueue, EnqueueTimeout, Return, CallerOK
<1>4. ASSUME NEW a \in Addrs, ReceiveDiscover(a)
      PROVE  Quiet
  BY <1>4 DEF ReceiveDiscover
<1>5. ASSUME NEW p \in Packets, NEW n \in Numbers, ReceivePacket(p, n)
      PROVE  Quiet
  BY <1>5 DEF ReceivePacket, Reliability
<1>6. CASE Respond \/ CheckSeen \/ Announce \/ Callback \/ CallbackReturns
  BY <1>6 DEF Respond, CheckSeen, Announce, Begin, Callback, CallbackReturns
<1>7. CASE Transmit \/ EndBurst \/ LockResend \/ EndResend
  BY <1>7 DEF Transmit, EndBurst, LockResend, EndResend
<1>8. ASSUME NEW fd \in WsAddrs, ClientConnects(fd) \/ ClientFails(fd)
      PROVE  Quiet
  BY <1>8 DEF ClientConnects, ClientFails
<1>9. CASE TimerExpires \/ UNCHANGED vars
  BY <1>9 DEF TimerExpires, vars
<1> QED BY <1>1, <1>2, <1>3, <1>4, <1>5, <1>6, <1>7, <1>8, <1>9
       DEF Next, CallerStep, HandlerStep, SenderStep, Environment

\* An id is handed out: the one the counter holds, unless a possession is being taken.
LEMMA IssueStep ==
    ASSUME IInv, NEW t \in Callers, AddMustArrive(t)
    PROVE  /\ pc'[RecvTask] = "clear" <=> pc[RecvTask] = "clear"
           /\ pc[RecvTask] # "clear" => /\ m_mustarrive_e' = m_mustarrive_e + 1
                                        /\ Pending' = Pending \cup {m_mustarrive_e}
<1> USE TaskFacts, GotoFacts DEF AddMustArrive, IInv, TypeOK, ControlOK, CallerOK, ArriveOK
<1>1. pc'[RecvTask] = "clear" <=> pc[RecvTask] = "clear"
  OBVIOUS
<1>2. ASSUME pc[RecvTask] # "clear"
      PROVE  /\ m_mustarrive_e' = m_mustarrive_e + 1
             /\ Pending' = Pending \cup {m_mustarrive_e}
  <2> DEFINE new == [id |-> m_mustarrive_e, attempts |-> 0]
  <2>1. id[t] = m_mustarrive_e
    BY <1>2 DEF LoadedInv
  <2>2. new \in Entries /\ new.id = m_mustarrive_e
    BY DEF Entries
  <2>3. m_mustarrive_queue' = Append(m_mustarrive_queue, new)
    BY <2>1
  <2> HIDE DEF new
  <2>4. IdsOf(m_mustarrive_queue') = IdsOf(m_mustarrive_queue) \cup {m_mustarrive_e}
    BY <2>2, <2>3, AppendIds
  <2> QED BY <2>1, <2>4 DEF Pending, IdsOf
<1> QED BY <1>1, <1>2

\* An "e" settles at most the command it names.
LEMMA AcknowledgeStep ==
    ASSUME IInv, Acknowledge
    PROVE  /\ pc[RecvTask] = "acknowledge" /\ pc'[RecvTask] = "receive"
           /\ m_mustarrive_e' = m_mustarrive_e
           /\ Pending' = Pending \/ (pkt.e \in Pending /\ Pending' = Pending \ {pkt.e})
<1> USE DEF Acknowledge, IInv, TypeOK, ControlOK, ArriveOK
<1>1. /\ pc[RecvTask] = "acknowledge" /\ pc'[RecvTask] = "receive"
      /\ m_mustarrive_e' = m_mustarrive_e
  BY TaskFacts, GotoFacts
<1>2. CASE UNCHANGED m_mustarrive_queue
  BY <1>1, <1>2 DEF Pending
<1>3. ASSUME NEW k \in First(pkt.e), m_mustarrive_queue' = RemoveAt(m_mustarrive_queue, k)
      PROVE  pkt.e \in Pending /\ Pending' = Pending \ {pkt.e}
  <2>1. k \in DOMAIN m_mustarrive_queue /\ m_mustarrive_queue[k].id = pkt.e
    BY DEF First
  <2>2. Distinct(m_mustarrive_queue, m_mustarrive_e)
    BY <1>1 DEF UniqueIds
  <2>3. IdsOf(m_mustarrive_queue') = IdsOf(m_mustarrive_queue) \ {pkt.e}
    BY <1>3, <2>1, <2>2, RemovalIds
  <2> QED BY <2>1, <2>3 DEF Pending, IdsOf
<1> QED BY <1>1, <1>2, <1>3

\* An attempt gives up at most the command it tried, after its budget.
LEMMA ResendStep ==
    ASSUME IInv, ResendOne
    PROVE  /\ UNCHANGED <<m_mustarrive_e, pc>>
           /\ pc[RecvTask] # "clear" =>
                 \/ Pending' = Pending
                 \/ \E k \in DOMAIN m_mustarrive_queue :
                       /\ m_mustarrive_queue[k].attempts + 1 >= MaxAttempts
                       /\ Pending' = Pending \ {m_mustarrive_queue[k].id}
<1> USE DEF ResendOne, IInv, TypeOK, ArriveOK
<1>1. itr \in DOMAIN m_mustarrive_queue /\ m_mustarrive_queue[itr] \in Entries
  BY LenProperties, ElementOfSeq DEF SenderOK
<1> DEFINE tried == m_mustarrive_queue[itr].attempts + 1
<1>2. CASE tried >= MaxAttempts
  <2>1. m_mustarrive_queue' = RemoveAt(m_mustarrive_queue, itr)
    BY <1>2
  <2>2. ASSUME pc[RecvTask] # "clear"
        PROVE  IdsOf(m_mustarrive_queue') =
                   IdsOf(m_mustarrive_queue) \ {m_mustarrive_queue[itr].id}
    BY <1>1, <2>1, <2>2, RemovalIds DEF UniqueIds
  <2>3. pc[RecvTask] # "clear" => Pending' = Pending \ {m_mustarrive_queue[itr].id}
    BY <2>2 DEF Pending, IdsOf
  <2> QED BY <1>1, <1>2, <2>3
<1>3. CASE ~(tried >= MaxAttempts)
  <2>1. m_mustarrive_queue' = [m_mustarrive_queue EXCEPT ![itr] =
                                 [m_mustarrive_queue[itr] EXCEPT !.attempts = tried]]
    BY <1>3
  <2>2. /\ DOMAIN m_mustarrive_queue' = DOMAIN m_mustarrive_queue
        /\ \A i \in DOMAIN m_mustarrive_queue :
              m_mustarrive_queue'[i].id = m_mustarrive_queue[i].id
    BY <1>1, <2>1 DEF Entries
  <2>3. Pending' = Pending
    BY <2>2 DEF Pending
  <2> QED BY <2>3
<1> QED BY <1>2, <1>3

\* A must-arrive command leaves the queue only when it was acknowledged, when a new
\* session began or when its attempts are used up: the resender, the acknowledgements
\* and the callers never settle a command of each other.
THEOREM GivesUpLate == Spec => GivenUpOnlyAfterBudget
<1> DEFINE Excused(i) ==
      \/ pc[RecvTask] = "clear"
      \/ pc[RecvTask] = "acknowledge" /\ pkt.e = i
      \/ \E k \in DOMAIN m_mustarrive_queue :
            /\ m_mustarrive_queue[k].id = i
            /\ m_mustarrive_queue[k].attempts + 1 >= MaxAttempts
<1>1. ASSUME IInv, Next, NEW i \in Pending, i \notin Pending'
      PROVE  Excused(i)
  <2> SUFFICES ASSUME pc[RecvTask] # "clear"
               PROVE  Excused(i)
    OBVIOUS
  <2>1. CASE \E t \in Callers : AddMustArrive(t)
    BY <2>1, <1>1, IssueStep
  <2>2. CASE TakePossession
    BY <2>2, <1>1 DEF TakePossession, Pending
  <2>3. CASE ClearPending
    BY <2>3, TaskFacts DEF ClearPending, Goto
  <2>4. CASE Acknowledge
    BY <2>4, <1>1, AcknowledgeStep
  <2>5. CASE ResendOne
    BY <2>5, <1>1, ResendStep
  <2>6. CASE UNCHANGED arrive_vars
    BY <2>6, <1>1 DEF arrive_vars, Pending
  <2> QED BY <2>1, <2>2, <2>3, <2>4, <2>5, <2>6, <1>1, QuietStep DEF IInv
<1>2. IInv /\ [Next]_vars =>
        [\A i \in Pending : i \notin Pending' => Excused(i)]_vars
  BY <1>1
<1> QED BY <1>2, Invariance, PTL DEF Spec, GivenUpOnlyAfterBudget

\* The queue, the two mutexes, the acknowledgements and the resending together are a
\* session in which every id is handed out once, in order, and settled once; only a
\* possession closes it.
THEOREM SessionImplemented == Spec => ImplementsSession
<1> DEFINE resetting == pc[RecvTask] = "clear"
           next == IF resetting THEN 0 ELSE m_mustarrive_e
           outstanding == IF resetting THEN {} ELSE Pending
<1>1. Init => Session!SessionInit
  BY TaskFacts DEF Init, Session!SessionInit, Pending
<1>2. ASSUME IInv, IInv', [Next]_vars
      PROVE  [Session!SessionNext]_(Session!session)
  <2> USE DEF Session!session
  <2>1. ASSUME NEW t \in Callers, AddMustArrive(t)
        PROVE  Session!Issue \/ UNCHANGED Session!session
    BY <2>1, <1>2, IssueStep DEF Session!Issue
  <2>2. ASSUME TakePossession
        PROVE  Session!Close
    <3>1. pc[RecvTask] = "possess" /\ pc'[RecvTask] = "clear"
      BY <2>2, <1>2, TaskFacts, GotoFacts DEF TakePossession, IInv, TypeOK, ControlOK
    <3> QED BY <3>1 DEF Session!Close
  <2>3. ASSUME ClearPending
        PROVE  Session!Open
    <3>1. Pending' = {}
      BY <2>3 DEF ClearPending, Pending
    <3>2. pc[RecvTask] = "clear" /\ pc'[RecvTask] # "clear"
      BY <2>3, <1>2, TaskFacts, GotoFacts
         DEF ClearPending, Reliability, IInv, TypeOK, ControlOK
    <3>3. m_mustarrive_e' \in Nat
      BY <1>2 DEF IInv, TypeOK, ArriveOK
    <3> QED BY <3>1, <3>2, <3>3 DEF Session!Open
  <2>4. ASSUME Acknowledge
        PROVE  Session!Settle \/ UNCHANGED Session!session
    <3>1. /\ pc[RecvTask] # "clear" /\ pc'[RecvTask] # "clear"
          /\ m_mustarrive_e' = m_mustarrive_e
      BY <2>4, <1>2, AcknowledgeStep
    <3>2. CASE Pending' = Pending
      BY <3>1, <3>2
    <3>3. CASE pkt.e \in Pending /\ Pending' = Pending \ {pkt.e}
      BY <3>1, <3>3 DEF Session!Settle
    <3> QED BY <3>2, <3>3, <2>4, <1>2, AcknowledgeStep
  <2>5. ASSUME ResendOne
        PROVE  Session!Settle \/ UNCHANGED Session!session
    <3>1. m_mustarrive_e' = m_mustarrive_e /\ pc' = pc
      BY <2>5, <1>2, ResendStep
    <3>2. CASE pc[RecvTask] = "clear" \/ Pending' = Pending
      BY <3>1, <3>2
    <3>3. ASSUME pc[RecvTask] # "clear", NEW k \in DOMAIN m_mustarrive_queue,
                 Pending' = Pending \ {m_mustarrive_queue[k].id}
          PROVE  Session!Settle
      <4>1. m_mustarrive_queue[k].id \in Pending
        BY DEF Pending
      <4> QED BY <3>1, <3>3, <4>1 DEF Session!Settle
    <3> QED BY <3>2, <3>3, <2>5, <1>2, ResendStep
  <2>6. CASE /\ UNCHANGED arrive_vars
             /\ pc'[RecvTask] = "clear" <=> pc[RecvTask] = "clear"
    BY <2>6 DEF arrive_vars, Pending
  <2>7. \/ \E t \in Callers : AddMustArrive(t)
        \/ TakePossession \/ ClearPending \/ Acknowledge \/ ResendOne
        \/ /\ UNCHANGED arrive_vars
           /\ pc'[RecvTask] = "clear" <=> pc[RecvTask] = "clear"
    BY <1>2, QuietStep DEF IInv
  <2> QED BY <2>1, <2>2, <2>3, <2>4, <2>5, <2>6, <2>7 DEF Session!SessionNext
<1> QED BY <1>1, <1>2, Invariance, PTL DEF Spec, ImplementsSession, Session!SessionSpec
=============================================================================
