----------------------- MODULE ProtocolLifecycleProofs -----------------------
(***************************************************************************)
(* Theorems about starting and stopping a Protocol, for any number of      *)
(* tasks and restarts and any length of the queue.                         *)
(***************************************************************************)
EXTENDS ProtocolLifecycle, SequenceTheorems, FiniteSetTheorems, TLAPS

-----------------------------------------------------------------------------
(* Pills in a queue.                                                         *)

Queues == Seq({"pill", "item"})
PillsAt(q) == {i \in DOMAIN q : q[i] = "pill"}
PillsIn(q) == Cardinality(PillsAt(q))

LEMMA PillsFinite ==
    ASSUME NEW q \in Queues
    PROVE  IsFiniteSet(PillsAt(q)) /\ PillsIn(q) \in Nat
<1>1. DOMAIN q = 1..Len(q) /\ Len(q) \in Nat
  BY DEF Queues
<1>2. IsFiniteSet(1..Len(q))
  BY <1>1, FS_Interval
<1>3. PillsAt(q) \in SUBSET (1..Len(q))
  BY <1>1 DEF PillsAt
<1>4. IsFiniteSet(PillsAt(q))
  BY <1>2, <1>3, FS_Subset
<1> QED BY <1>4, FS_CardinalityType DEF PillsIn

\* Taking the first element takes its pill.
LEMMA PillsTail ==
    ASSUME NEW q \in Queues, q # <<>>
    PROVE  /\ Tail(q) \in Queues /\ Len(Tail(q)) = Len(q) - 1
           /\ Head(q) \in {"pill", "item"}
           /\ PillsIn(Tail(q)) = IF Head(q) = "pill" THEN PillsIn(q) - 1 ELSE PillsIn(q)
<1>1. /\ Tail(q) \in Queues /\ Len(Tail(q)) = Len(q) - 1 /\ Len(q) \in Nat /\ Len(q) # 0
      /\ Head(q) = q[1] /\ Head(q) \in {"pill", "item"}
      /\ \A i \in 1..(Len(q) - 1) : Tail(q)[i] = q[i + 1]
      /\ DOMAIN q = 1..Len(q) /\ DOMAIN Tail(q) = 1..(Len(q) - 1)
  BY DEF Queues
<1> DEFINE rest == PillsAt(q) \ {1}
           f == [i \in rest |-> i - 1]
<1>2. IsFiniteSet(rest) /\ Cardinality(rest)
          = IF 1 \in PillsAt(q) THEN PillsIn(q) - 1 ELSE PillsIn(q)
  BY PillsFinite, FS_RemoveElement DEF PillsIn
<1>3. 1 \in PillsAt(q) <=> Head(q) = "pill"
  BY <1>1 DEF PillsAt
<1>4. \A i \in rest : i \in 2..Len(q) /\ q[i] = "pill"
  BY <1>1 DEF PillsAt
<1>5. \A i \in rest : i - 1 \in PillsAt(Tail(q))
  <2> SUFFICES ASSUME NEW i \in rest PROVE i - 1 \in PillsAt(Tail(q))
    OBVIOUS
  <2>1. i \in 2..Len(q) /\ q[i] = "pill"
    BY <1>4
  <2>2. i - 1 \in 1..(Len(q) - 1) /\ i - 1 + 1 = i
    BY <1>1, <2>1
  <2>3. Tail(q)[i - 1] = q[i]
    BY <1>1, <2>2
  <2> QED BY <1>1, <2>1, <2>2, <2>3 DEF PillsAt
<1>6. \A j \in PillsAt(Tail(q)) : j + 1 \in rest /\ j + 1 - 1 = j
  <2> SUFFICES ASSUME NEW j \in PillsAt(Tail(q)) PROVE j + 1 \in rest /\ j + 1 - 1 = j
    OBVIOUS
  <2>1. j \in 1..(Len(q) - 1) /\ Tail(q)[j] = "pill"
    BY <1>1 DEF PillsAt
  <2>2. j + 1 \in 1..Len(q) /\ j + 1 # 1 /\ q[j + 1] = "pill"
    BY <1>1, <2>1
  <2> QED BY <1>1, <2>1, <2>2 DEF PillsAt
<1>7. f \in Bijection(rest, PillsAt(Tail(q)))
  <2>1. f \in [rest -> PillsAt(Tail(q))]
    BY <1>5
  <2>2. ASSUME NEW i \in rest, NEW j \in rest, f[i] = f[j] PROVE i = j
    <3>1. i \in Nat /\ j \in Nat /\ i - 1 = j - 1
      BY <1>1, <1>4, <2>2
    <3> QED BY <3>1
  <2>3. f \in Injection(rest, PillsAt(Tail(q)))
    BY <2>1, <2>2 DEF Injection, IsInjective
  <2>4. f \in Surjection(rest, PillsAt(Tail(q)))
    BY <1>6, <2>1 DEF Surjection
  <2> QED BY <2>3, <2>4 DEF Bijection
<1>8. Cardinality(PillsAt(Tail(q))) = Cardinality(rest)
  BY <1>2, <1>7, FS_Bijection DEF ExistsBijection
<1> QED BY <1>1, <1>2, <1>3, <1>8 DEF PillsIn

\* stop() puts one pill in front.
LEMMA PillsFront ==
    ASSUME NEW q \in Queues
    PROVE  LET new == <<"pill">> \o q
           IN  /\ new \in Queues /\ Len(new) = Len(q) + 1
               /\ PillsIn(new) = PillsIn(q) + 1
<1> DEFINE new == <<"pill">> \o q
<1>1. /\ new \in Queues /\ Len(new) = Len(q) + 1 /\ new # <<>>
      /\ Head(new) = "pill" /\ Tail(new) = q
  BY DEF Queues
<1>2. PillsIn(Tail(new)) = PillsIn(new) - 1 /\ PillsIn(new) \in Nat
  <2> HIDE DEF new
  <2> QED BY <1>1, PillsTail, PillsFinite
<1>3. PillsIn(Tail(new)) = PillsIn(q)
  BY <1>1
<1> HIDE DEF new
<1>4. PillsIn(new) = PillsIn(q) + 1
  BY <1>2, <1>3
<1> QED BY <1>1, <1>4 DEF new

\* A packet is no pill.
LEMMA PillsItem ==
    ASSUME NEW q \in Queues
    PROVE  LET new == Append(q, "item")
           IN  /\ new \in Queues /\ Len(new) = Len(q) + 1
               /\ PillsIn(new) = PillsIn(q)
<1> DEFINE new == Append(q, "item")
<1>1. /\ new \in Queues /\ Len(new) = Len(q) + 1 /\ Len(q) \in Nat
      /\ DOMAIN q = 1..Len(q) /\ DOMAIN new = 1..(Len(q) + 1)
      /\ \A i \in 1..Len(q) : new[i] = q[i]
      /\ new[Len(q) + 1] = "item"
  BY DEF Queues
<1>2. PillsAt(new) = PillsAt(q)
  BY <1>1 DEF PillsAt
<1> QED BY <1>1, <1>2 DEF PillsIn

-----------------------------------------------------------------------------
(* The tasks.                                                                *)

\* the handles are set and reset together, but for a start that fell short
HandlesInv ==
    /\ ~short => m_task_recv = m_task_send
    /\ stopping # {} => m_task_send # 0

\* a task that was not created yet does nothing
FreshInv == \A g \in Generations : g > starts => sender[g] = "none" /\ receiver[g] = At("none")

CountInv ==
    ~short => Cardinality(LiveSenders) = PillsIn(m_sendQueue)
                                         + (IF m_task_send = 0 THEN 0 ELSE 1)

LifeInv == TypeOK /\ HandlesInv /\ FreshInv /\ CountInv /\ ReceiversTold

LEMMA LiveFinite ==
    /\ LiveSenders \subseteq Generations /\ IsFiniteSet(LiveSenders)
    /\ Cardinality(LiveSenders) \in Nat
<1>1. IsFiniteSet(Generations)
  BY LifecycleAssumption, FS_Interval DEF Generations
<1>2. LiveSenders \in SUBSET Generations
  BY DEF LiveSenders
<1> QED BY <1>1, <1>2, FS_Subset, FS_CardinalityType

\* What is counted, with the queue and the senders left alone.
LEMMA CountQuiet ==
    ASSUME CountInv, UNCHANGED <<sender, m_task_send, short>>,
           PillsIn(m_sendQueue') = PillsIn(m_sendQueue)
    PROVE  CountInv'
BY DEF CountInv, LiveSenders

LEMMA PillsArePills == TypeOK => Pills = PillsIn(m_sendQueue) /\ m_sendQueue \in Queues
BY DEF TypeOK, Pills, PillsIn, PillsAt, Queues

\* A task that changes what it is doing, but neither begins nor ends.
LEMMA SenderKeepsOn ==
    ASSUME TypeOK, NEW g \in LiveSenders, NEW to \in {"drain", "send"},
           sender' = [sender EXCEPT ![g] = to]
    PROVE  LiveSenders' = LiveSenders
BY DEF TypeOK, LiveSenders

LEMMA SenderEnds ==
    ASSUME TypeOK, NEW g \in LiveSenders, sender' = [sender EXCEPT ![g] = "gone"]
    PROVE  Cardinality(LiveSenders') = Cardinality(LiveSenders) - 1
<1>1. LiveSenders' = LiveSenders \ {g}
  BY DEF TypeOK, LiveSenders
<1> QED BY <1>1, LiveFinite, FS_RemoveElement

LEMMA SenderBegins ==
    ASSUME TypeOK, NEW g \in Generations, sender[g] = "none",
           sender' = [sender EXCEPT ![g] = "drain"]
    PROVE  Cardinality(LiveSenders') = Cardinality(LiveSenders) + 1
<1>1. LiveSenders' = LiveSenders \cup {g} /\ g \notin LiveSenders
  BY DEF TypeOK, LiveSenders
<1> QED BY <1>1, LiveFinite, FS_AddElement

\* start(): the next generation gets its tasks, or some of them.
LEMMA StartStep ==
    ASSUME LifeInv, Start \/ \E sends, receives \in BOOLEAN : StartShort(sends, receives)
    PROVE  LifeInv'
<1> PICK g : g = starts'
  OBVIOUS
<1>1. /\ TypeOK /\ FreshInv /\ starts \in Nat /\ MaxStarts \in Nat /\ 0 \notin Generations
      /\ g = starts + 1 /\ g \in Generations
      /\ sender[g] = "none" /\ receiver[g] = At("none")
  <2>1. TypeOK /\ FreshInv /\ starts \in 0..MaxStarts /\ starts < MaxStarts /\ g = starts + 1
    BY DEF LifeInv, TypeOK, Start, StartShort
  <2>2. starts \in Nat /\ MaxStarts \in Nat /\ g \in Generations /\ g > starts
        /\ 0 \notin Generations
    BY <2>1, LifecycleAssumption DEF Generations
  <2> QED BY <2>1, <2>2 DEF FreshInv
<1>2. /\ starts' = g /\ m_task_send = 0 /\ stopping = {} /\ backends' = TRUE
      /\ m_task_send' \in {m_task_send, g} /\ m_task_recv' \in {m_task_recv, g}
      /\ UNCHANGED <<m_sendQueue, stopping, notified, app>>
  BY DEF Start, StartShort, MutexFree
<1>3. PICK to \in {"drain", "gone"} : sender' = [sender EXCEPT ![g] = to]
  BY <1>2 DEF Start, StartShort
<1>4. PICK place \in {"poll", "gone"} : receiver' = [receiver EXCEPT ![g] = At(place)]
  <2>1. CASE Start
    BY <1>2, <2>1 DEF Start
  <2>2. CASE \E sends, receives \in BOOLEAN : StartShort(sends, receives)
    <3>1. PICK sends \in BOOLEAN, receives \in BOOLEAN : StartShort(sends, receives)
      BY <2>2
    <3> QED BY <1>2, <3>1 DEF StartShort
  <2> QED BY <2>1, <2>2
<1>5. TypeOK'
  <2>1. At(place) \in Receivers /\ starts' \in 0..MaxStarts
    BY <1>1, <1>2 DEF Receivers, At, Generations
  <2>3. short' \in BOOLEAN
    BY <1>1 DEF Start, StartShort, TypeOK
  <2>2. receiver' \in [Generations -> Receivers]
    BY <1>1, <1>4, <2>1 DEF TypeOK
  <2> QED BY <1>1, <1>2, <1>3, <2>1, <2>2, <2>3 DEF TypeOK
<1>6. FreshInv'
  BY <1>1, <1>2, <1>3, <1>4 DEF FreshInv, TypeOK, Generations
<1>7. CASE Start
  <2>1. /\ m_task_send' = g /\ m_task_recv' = g /\ sender' = [sender EXCEPT ![g] = "drain"]
        /\ receiver' = [receiver EXCEPT ![g] = At("poll")] /\ short' = short
    BY <1>7, <1>2 DEF Start
  <2>2. HandlesInv'
    BY <1>1, <1>2, <2>1 DEF LifeInv, HandlesInv
  <2>3. CountInv'
    <3>1. Cardinality(LiveSenders') = Cardinality(LiveSenders) + 1
      BY <1>1, <2>1, SenderBegins
    <3>2. PillsIn(m_sendQueue) \in Nat /\ g # 0
      BY <1>1, PillsArePills, PillsFinite
    <3> QED BY <1>2, <2>1, <3>1, <3>2 DEF LifeInv, CountInv
  <2>4. LiveReceivers' = LiveReceivers \cup {g}
    BY <1>1, <2>1 DEF TypeOK, LiveReceivers, At
  <2>5. ReceiversTold'
    BY <1>2, <2>1, <2>4 DEF LifeInv, HandlesInv, ReceiversTold, LiveReceivers, Generations
  <2> QED BY <1>5, <1>6, <2>2, <2>3, <2>5 DEF LifeInv
<1>8. CASE \E sends, receives \in BOOLEAN : StartShort(sends, receives)
  <2>1. short' = TRUE
    BY <1>8 DEF StartShort
  <2>2. HandlesInv' /\ CountInv' /\ ReceiversTold'
    BY <1>2, <2>1 DEF HandlesInv, CountInv, ReceiversTold
  <2> QED BY <1>5, <1>6, <2>2 DEF LifeInv
<1> QED BY <1>7, <1>8

\* stop(): the pill stands for the sender from now on.
LEMMA StopStep ==
    ASSUME LifeInv, NEW c \in Controllers, StopBegins(c) \/ StopEnds(c)
    PROVE  LifeInv'
<1>0. TypeOK /\ Cardinality({c}) = 1 /\ Cardinality({}) = 0
  BY FS_Singleton, FS_EmptySet DEF LifeInv
<1>1. CASE StopBegins(c)
  <2>1. TypeOK'
    BY <1>0, <1>1 DEF StopBegins, TypeOK
  <2>2. HandlesInv'
    BY <1>1 DEF StopBegins, LifeInv, HandlesInv
  <2>3. CountInv'
    BY <1>1, CountQuiet DEF StopBegins, LifeInv
  <2>4. FreshInv' /\ ReceiversTold'
    BY <1>1 DEF StopBegins, LifeInv, FreshInv, ReceiversTold, LiveReceivers
  <2> QED BY <2>1, <2>2, <2>3, <2>4 DEF LifeInv
<1>2. CASE StopEnds(c)
  <2>1. /\ Len(m_sendQueue) < QueueCap /\ m_sendQueue' = <<"pill">> \o m_sendQueue
        /\ notified' = notified \cup {m_task_recv}
        /\ m_task_send' = 0 /\ m_task_recv' = 0 /\ stopping' = {}
        /\ UNCHANGED <<sender, receiver, app, starts, short>>
        /\ m_task_send # 0 /\ (~short => m_task_recv = m_task_send) /\ 0 \notin Generations
        /\ m_task_recv # 0
        /\ backends' = FALSE
    BY <1>2 DEF StopEnds, HasRoom, LifeInv, HandlesInv, Generations
  <2>2. /\ m_sendQueue' \in Queues /\ Len(m_sendQueue') = Len(m_sendQueue) + 1
        /\ PillsIn(m_sendQueue') = PillsIn(m_sendQueue) + 1
        /\ PillsIn(m_sendQueue) \in Nat /\ Len(m_sendQueue) \in Nat
    BY <1>0, <2>1, PillsArePills, PillsFront, PillsFinite DEF Queues
  <2>3. TypeOK'
    <3>1. notified' \subseteq Generations
      BY <1>0, <2>1 DEF TypeOK
    <3>2. stopping' \in SUBSET Controllers /\ Cardinality(stopping') <= 1
      BY <1>0, <2>1
    <3>3. Len(m_sendQueue') <= QueueCap
      BY <2>1, <2>2, LifecycleAssumption
    <3> QED BY <1>0, <2>1, <2>2, <3>1, <3>2, <3>3 DEF TypeOK, Queues
  <2>4. HandlesInv' /\ FreshInv'
    BY <2>1 DEF LifeInv, HandlesInv, FreshInv
  <2>5. CountInv'
    BY <2>1, <2>2, LiveFinite DEF LifeInv, CountInv, LiveSenders
  <2>6. ReceiversTold'
    BY <2>1 DEF LifeInv, ReceiversTold, LiveReceivers
  <2> QED BY <2>3, <2>4, <2>5, <2>6 DEF LifeInv
<1> QED BY <1>1, <1>2

\* The sending task of some start: whose pill it takes does not matter.
LEMMA SenderKeeps ==
    ASSUME LifeInv, NEW g \in Generations,
           SenderReceives(g) \/ SenderResends(g) \/ SenderTransmits(g)
    PROVE  LifeInv'
<1>1. /\ TypeOK /\ g \in LiveSenders /\ g <= starts
      /\ UNCHANGED <<m_task_send, m_task_recv, backends, stopping, receiver, notified, app,
                      starts, short>>
  <2>1. TypeOK /\ g \in LiveSenders
    BY DEF LifeInv, LiveSenders, SenderReceives, SenderResends, SenderTransmits
  <2>2. sender[g] # "none"
    BY <2>1 DEF LiveSenders
  <2>3. ~(g > starts) /\ g \in Nat /\ starts \in Nat
    BY <2>1, <2>2, LifecycleAssumption DEF LifeInv, FreshInv, TypeOK, Generations
  <2> QED BY <2>1, <2>3 DEF SenderReceives, SenderResends, SenderTransmits
<1>2. HandlesInv' /\ ReceiversTold'
  BY <1>1 DEF LifeInv, HandlesInv, ReceiversTold, LiveReceivers
<1>3. ASSUME NEW to, sender' = [sender EXCEPT ![g] = to] PROVE FreshInv'
  BY <1>1, <1>3, LifecycleAssumption DEF LifeInv, FreshInv, TypeOK, Generations
<1>4. CASE SenderResends(g) \/ SenderTransmits(g)
  <2>1. PICK to \in {"drain", "send"} : sender' = [sender EXCEPT ![g] = to]
    BY <1>4 DEF SenderResends, SenderTransmits
  <2>2. m_sendQueue' = m_sendQueue
    BY <1>4 DEF SenderResends, SenderTransmits
  <2>3. TypeOK' /\ LiveSenders' = LiveSenders
    BY <1>1, <2>1, <2>2, SenderKeepsOn DEF TypeOK
  <2>4. CountInv'
    BY <1>1, <2>2, <2>3 DEF LifeInv, CountInv
  <2> QED BY <1>2, <1>3, <2>1, <2>3, <2>4 DEF LifeInv
<1>5. CASE SenderReceives(g)
  <2>1. /\ m_sendQueue \in Queues /\ m_sendQueue # <<>> /\ m_sendQueue' = Tail(m_sendQueue)
        /\ sender' = [sender EXCEPT ![g] = IF Head(m_sendQueue) = "pill" THEN "gone"
                                           ELSE "send"]
    BY <1>1, <1>5, PillsArePills DEF SenderReceives
  <2>2. /\ m_sendQueue' \in Queues /\ Len(m_sendQueue') = Len(m_sendQueue) - 1
        /\ PillsIn(m_sendQueue') = IF Head(m_sendQueue) = "pill"
                                   THEN PillsIn(m_sendQueue) - 1 ELSE PillsIn(m_sendQueue)
        /\ PillsIn(m_sendQueue) \in Nat /\ Len(m_sendQueue) \in Nat
    BY <2>1, PillsTail, PillsFinite DEF Queues
  <2>3. TypeOK'
    <3>1. Len(m_sendQueue') <= QueueCap
      BY <1>1, <2>2, LifecycleAssumption DEF TypeOK
    <3> QED BY <1>1, <2>1, <2>2, <3>1 DEF TypeOK, Queues
  <2>4. CountInv'
    <3>1. CASE Head(m_sendQueue) = "pill"
      <4>1. Cardinality(LiveSenders') = Cardinality(LiveSenders) - 1
        BY <1>1, <2>1, <3>1, SenderEnds
      <4> QED BY <1>1, <2>2, <3>1, <4>1, LiveFinite DEF LifeInv, CountInv
    <3>2. CASE Head(m_sendQueue) # "pill"
      <4>1. LiveSenders' = LiveSenders
        BY <1>1, <2>1, <3>2, SenderKeepsOn
      <4> QED BY <1>1, <2>2, <3>2, <4>1 DEF LifeInv, CountInv
    <3> QED BY <3>1, <3>2
  <2> QED BY <1>2, <1>3, <2>1, <2>3, <2>4 DEF LifeInv
<1> QED BY <1>4, <1>5

\* A packet that is queued, or dropped, changes the number of no pills.
LEMMA QueuedStep ==
    ASSUME TypeOK
    PROVE  /\ Queued \in Queues /\ Len(Queued) <= QueueCap
           /\ PillsIn(Queued) = PillsIn(m_sendQueue)
<1>1. m_sendQueue \in Queues /\ Len(m_sendQueue) <= QueueCap /\ Len(m_sendQueue) \in Nat
  BY PillsArePills DEF TypeOK, Queues
<1> QED BY <1>1, PillsItem, LifecycleAssumption DEF Queued, HasRoom

\* The receiving task of some start, and the application.
LEMMA ReceiverKeeps ==
    ASSUME LifeInv, NEW g \in Generations, ReceiverTask(g)
    PROVE  LifeInv'
<1>1. /\ TypeOK /\ g \in LiveReceivers
      /\ UNCHANGED <<m_task_send, m_task_recv, backends, stopping, sender, app, starts, short>>
      /\ m_sendQueue' \in {m_sendQueue, Queued}
  BY DEF LifeInv, LiveReceivers, ReceiverTask, ReceiverEnds, ReceiverStep, ReceiverPolls,
         ReceiverReads, ReceiverDiscovers, ReceiverNumbers, ReceiverEnqueues, ReceiverReturns
<1>2. PICK to \in Receivers :
        /\ receiver' = [receiver EXCEPT ![g] = to]
        /\ notified' = IF to = At("gone") THEN notified \ {g} ELSE notified
  <2>1. receiver[g] \in Receivers
    BY <1>1 DEF TypeOK
  <2>2. CASE ReceiverEnds(g)
    <3>1. At("gone") \in Receivers
      BY DEF Receivers, At
    <3> QED BY <2>2, <3>1 DEF ReceiverEnds
  <2>3. CASE ReceiverPolls(g)
    <3>1. At("udp") \in Receivers /\ At("udp") # At("gone")
      BY DEF Receivers, At
    <3> QED BY <2>3, <3>1 DEF ReceiverPolls, ReceiverStep
  <2>4. CASE ReceiverReads(g)
    <3>1. At("poll") \in Receivers /\ At("poll") # At("gone")
      BY DEF Receivers, At
    <3>2. \A b \in {"udp", "ws"} : With("packet", b) \in Receivers
                                  /\ With("packet", b) # At("gone")
      BY DEF Receivers, With, At
    <3>3. receiver[g].at \in {"udp", "ws"}
      BY <2>4 DEF ReceiverReads
    <3>4. PICK next \in {At("poll")} \cup {With("packet", b) : b \in {"udp", "ws"}} :
             ReceiverStep(g, next, FALSE)
      BY <2>4, <3>3 DEF ReceiverReads
    <3> QED BY <3>1, <3>2, <3>4 DEF ReceiverStep
  <2>5. CASE ReceiverDiscovers(g) \/ ReceiverReturns(g)
    <3>1. Behind(g) \in Receivers /\ Behind(g) # At("gone")
      BY DEF Behind, Receivers, At
    <3> QED BY <2>5, <3>1 DEF ReceiverDiscovers, ReceiverReturns, ReceiverStep
  <2>6. CASE ReceiverNumbers(g) \/ ReceiverEnqueues(g)
    <3>1. receiver[g].of \in {"udp", "ws"}
      BY <2>1, <2>6 DEF ReceiverNumbers, ReceiverEnqueues, Receivers
    <3>2. \A place \in {"enqueue", "handle"} :
             /\ With(place, receiver[g].of) \in Receivers
             /\ With(place, receiver[g].of) # At("gone")
      BY <3>1 DEF With, At, Receivers
    <3> QED BY <2>6, <3>2 DEF ReceiverNumbers, ReceiverEnqueues, ReceiverStep
  <2> QED BY <2>2, <2>3, <2>4, <2>5, <2>6 DEF ReceiverTask
<1>3. ~(g > starts) /\ g \in Nat /\ starts \in Nat
  BY <1>1, LifecycleAssumption DEF LifeInv, FreshInv, TypeOK, Generations, LiveReceivers, At
<1>4. /\ m_sendQueue' \in Queues /\ Len(m_sendQueue') <= QueueCap
      /\ PillsIn(m_sendQueue') = PillsIn(m_sendQueue)
  BY <1>1, QueuedStep, PillsArePills DEF TypeOK
<1>5. TypeOK'
  BY <1>1, <1>2, <1>4 DEF TypeOK, Queues
<1>6. HandlesInv'
  BY <1>1 DEF LifeInv, HandlesInv
<1>7. FreshInv'
  BY <1>1, <1>2, <1>3 DEF LifeInv, FreshInv, TypeOK
<1>8. CountInv'
  BY <1>1, <1>4, CountQuiet DEF LifeInv
<1>9. ReceiversTold'
  BY <1>1, <1>2 DEF LifeInv, ReceiversTold, LiveReceivers, TypeOK, At
<1> QED BY <1>5, <1>6, <1>7, <1>8, <1>9 DEF LifeInv

LEMMA AppStep ==
    ASSUME LifeInv, NEW a \in Apps, AppNumbers(a) \/ AppEnqueues(a)
    PROVE  LifeInv'
<1>1. /\ TypeOK /\ m_sendQueue' \in {m_sendQueue, Queued}
      /\ UNCHANGED <<m_task_send, m_task_recv, backends, stopping, sender, receiver, notified,
                      starts, short>>
      /\ \E to \in {"idle", "enqueue"} : app' = [app EXCEPT ![a] = to]
  BY DEF LifeInv, AppNumbers, AppEnqueues
<1>2. /\ m_sendQueue' \in Queues /\ Len(m_sendQueue') <= QueueCap
      /\ PillsIn(m_sendQueue') = PillsIn(m_sendQueue)
  BY <1>1, QueuedStep, PillsArePills DEF TypeOK
<1>3. TypeOK'
  BY <1>1, <1>2 DEF TypeOK, Queues
<1>4. HandlesInv' /\ FreshInv' /\ ReceiversTold'
  BY <1>1 DEF LifeInv, HandlesInv, FreshInv, ReceiversTold, LiveReceivers
<1>5. CountInv'
  BY <1>1, <1>2, CountQuiet DEF LifeInv
<1> QED BY <1>3, <1>4, <1>5 DEF LifeInv

LEMMA InitLifeInv == Init => LifeInv
<1> SUFFICES ASSUME Init PROVE LifeInv
  OBVIOUS
<1>1. Cardinality({}) = 0 /\ Len(m_sendQueue) = 0
  BY FS_EmptySet DEF Init
<1>2. TypeOK
  <2>1. Cardinality(stopping) <= 1 /\ stopping \in SUBSET Controllers
    <3>1. stopping = {}
      BY DEF Init
    <3>2. Cardinality(stopping) = 0
      BY <1>1, <3>1, Zenon
    <3> QED BY <3>1, <3>2
  <2>2. starts \in 0..MaxStarts /\ Len(m_sendQueue) <= QueueCap
    BY <1>1, LifecycleAssumption DEF Init
  <2>3. m_sendQueue \in Seq({"pill", "item"})
    BY EmptySeq DEF Init
  <2>4. At("none") \in Receivers
    BY DEF At, Receivers
  <2> QED BY <2>1, <2>2, <2>3, <2>4 DEF Init, TypeOK
<1>3. LiveSenders = {} /\ LiveReceivers = {} /\ PillsAt(m_sendQueue) = {}
  BY DEF Init, LiveSenders, LiveReceivers, PillsAt, At
<1>4. CountInv
  <2>1. Cardinality(LiveSenders) = 0 /\ PillsIn(m_sendQueue) = 0
    BY <1>1, <1>3, Zenon DEF PillsIn
  <2> QED BY <2>1 DEF Init, CountInv
<1>5. HandlesInv /\ FreshInv /\ ReceiversTold
  BY <1>3 DEF Init, HandlesInv, FreshInv, ReceiversTold
<1> QED BY <1>2, <1>4, <1>5 DEF LifeInv

LEMMA LifeInvariance == Spec => []LifeInv
<1>1. LifeInv /\ UNCHANGED vars => LifeInv'
  BY DEF vars, LifeInv, TypeOK, HandlesInv, FreshInv, CountInv, ReceiversTold, LiveSenders,
         LiveReceivers
<1>2. LifeInv /\ [Next]_vars => LifeInv'
  BY <1>1, StartStep, StopStep, SenderKeeps, ReceiverKeeps, AppStep DEF Next, SenderStep
<1> QED BY <1>2, InitLifeInv, PTL DEF Spec

\* As many senders are alive as there are pills and a handle, across every restart.
THEOREM EverySenderEnds == Spec => []SendersAccounted
<1>1. LifeInv => SendersAccounted
  BY PillsArePills DEF LifeInv, CountInv, SendersAccounted
<1> QED BY <1>1, LifeInvariance, PTL

\* No restart leaves a receiver that nobody can stop.
THEOREM EveryReceiverIsTold == Spec => []ReceiversTold
<1>1. LifeInv => ReceiversTold
  BY DEF LifeInv
<1> QED BY <1>1, LifeInvariance, PTL

=============================================================================
