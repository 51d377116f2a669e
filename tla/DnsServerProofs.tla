--------------------------- MODULE DnsServerProofs ---------------------------
(***************************************************************************)
(* Theorems about the DNS server's start, stop and tasks, for every set of *)
(* peers and queries and any number of starts, and about the replies to    *)
(* every query of any number of questions.                                 *)
(***************************************************************************)
EXTENDS DnsServer, SequenceTheorems, WellFoundedInduction, TLAPS

Task == [pc : {"none", "peek", "pop", "answer", "gone"}, query : Peers \cup {Nobody},
         to : Peers \cup {Nobody}]

-----------------------------------------------------------------------------
(* The socket and the task.                                                  *)

LEMMA IdleType == \A pc \in {"none", "peek", "pop", "answer", "gone"} : Idle(pc) \in Task
BY DEF Idle, Task

\* What the two calls on the socket leave of the task and of the queue.
LEMMA SeenType ==
    ASSUME TypeOK, inbox # <<>>, NEW g \in Generations
    PROVE  /\ Head(inbox) \in Peers
           /\ Tail(inbox) \in Seq(Peers) /\ Len(Tail(inbox)) <= InboxCap
           /\ [pc |-> "pop", query |-> Head(inbox), to |-> Nobody] \in Task
           /\ [task[g] EXCEPT !.pc = "answer", !.to = Head(inbox)] \in Task
<1>1. inbox \in Seq(Peers) /\ Len(inbox) <= InboxCap /\ task[g] \in Task
  BY DEF TypeOK, Task
<1>2. Head(inbox) \in Peers /\ Tail(inbox) \in Seq(Peers) /\ Len(Tail(inbox)) = Len(inbox) - 1
  BY <1>1, HeadTailProperties
<1>3. Len(inbox) \in Nat /\ InboxCap \in Nat
  BY <1>1, DnsServerAssumption
<1>4. PICK p \in Peers : p = Head(inbox)
  BY <1>2
<1>5. [pc |-> "pop", query |-> p, to |-> Nobody] \in Task
  BY DEF Task
<1>6. [task[g] EXCEPT !.pc = "answer", !.to = p] \in Task
  BY <1>1 DEF Task
<1>7. Len(Tail(inbox)) <= InboxCap
  BY <1>1, <1>2, <1>3
<1> QED BY <1>2, <1>4, <1>5, <1>6, <1>7

LEMMA PortInitially == Init => PortFollowsTask
<1> SUFFICES ASSUME Init PROVE PortFollowsTask
  OBVIOUS
<1>1. task \in [Generations -> Task]
  BY IdleType DEF Init
<1>2. inbox \in Seq(Peers) /\ Len(inbox) <= InboxCap /\ starts \in 0..MaxStarts
  BY DnsServerAssumption DEF Init
<1>3. TypeOK
  BY <1>1, <1>2 DEF Init, TypeOK, Task
<1> QED BY <1>3 DEF Init, PortFollowsTask

\* start() and stop()
LEMMA PortStarts ==
    ASSUME PortFollowsTask, Start \/ StartShort \/ StartFails \/ Stop
    PROVE  PortFollowsTask'
<1>0. TypeOK
  BY DEF PortFollowsTask
<1>1. CASE Start
  <2>1. starts' \in Generations /\ starts' \in 0..MaxStarts /\ starts' # 0
    BY <1>0, <1>1, DnsServerAssumption DEF Start, TypeOK, Generations
  <2>2. task' \in [Generations -> Task]
    BY <1>0, <1>1, <2>1, IdleType DEF Start, TypeOK, Task
  <2>3. TypeOK'
    BY <1>0, <1>1, <2>1, <2>2 DEF Start, TypeOK, Task
  <2> QED BY <1>1, <2>1, <2>3 DEF Start, PortFollowsTask
<1>2. CASE StartShort \/ StartFails
  <2>1. overlap' \in BOOLEAN /\ m_socket' \in BOOLEAN /\ bound' \in BOOLEAN /\ short' \in BOOLEAN
    BY <1>0, <1>2 DEF StartShort, StartFails, TypeOK
  <2>2. UNCHANGED <<m_task, inbox, task, starts>> /\ m_task = 0 /\ (~bound' \/ short')
    BY <1>2 DEF StartShort, StartFails, PortFollowsTask
  <2> QED BY <1>0, <2>1, <2>2 DEF PortFollowsTask, TypeOK
<1>3. CASE Stop
  <2>1. <<>> \in Seq(Peers) /\ Len(<<>>) <= InboxCap
    BY DnsServerAssumption
  <2> QED BY <1>0, <1>3, <2>1 DEF Stop, PortFollowsTask, TypeOK
<1> QED BY <1>1, <1>2, <1>3

LEMMA PortArrives ==
    ASSUME PortFollowsTask, NEW p \in Peers, Arrives(p)
    PROVE  PortFollowsTask'
<1>0. TypeOK /\ inbox \in Seq(Peers)
  BY DEF PortFollowsTask, TypeOK
<1>1. inbox' = IF Len(inbox) < InboxCap THEN Append(inbox, p) ELSE inbox
  BY DEF Arrives
<1>2. inbox' \in Seq(Peers) /\ Len(inbox') <= InboxCap
  <2>1. CASE Len(inbox) < InboxCap
    <3>1. inbox' \in Seq(Peers) /\ Len(inbox') = Len(inbox) + 1
      BY <1>0, <1>1, <2>1, AppendProperties
    <3> QED BY <1>0, <2>1, <3>1, DnsServerAssumption
  <2>2. CASE ~(Len(inbox) < InboxCap)
    BY <1>0, <1>1, <2>2 DEF TypeOK
  <2> QED BY <2>1, <2>2
<1> QED BY <1>0, <1>2 DEF Arrives, PortFollowsTask, TypeOK

LEMMA PortTasks ==
    ASSUME PortFollowsTask, NEW g \in Generations, TaskStep(g), ~Panics(g)
    PROVE  PortFollowsTask'
<1>0. TypeOK /\ task \in [Generations -> Task] /\ inbox \in Seq(Peers)
      /\ Len(inbox) <= InboxCap
  BY DEF PortFollowsTask, TypeOK, Task
<1>1. UNCHANGED <<m_socket, m_task, bound, starts, short, overlap>>
  BY DEF TaskStep, SeesClosed, Peek, Pop, Answer
<1>2. \E t \in Task : task' = [task EXCEPT ![g] = t]
  <2>1. CASE SeesClosed(g) \/ Answer(g)
    BY <2>1, IdleType DEF SeesClosed, Answer, Becomes
  <2>2. CASE Peek(g)
    BY <1>0, <2>2, SeenType DEF Peek, Becomes
  <2>3. CASE Pop(g)
    <3>1. CASE inbox = <<>>
      BY <2>3, <3>1, IdleType DEF Pop, Becomes
    <3>2. CASE inbox # <<>>
      BY <1>0, <2>3, <3>2, SeenType DEF Pop, Becomes
    <3> QED BY <3>1, <3>2
  <2> QED BY <2>1, <2>2, <2>3 DEF TaskStep
<1>3. inbox' \in Seq(Peers) /\ Len(inbox') <= InboxCap
  <2>1. CASE UNCHANGED inbox
    BY <1>0, <2>1
  <2>2. CASE inbox # <<>> /\ inbox' = Tail(inbox)
    BY <1>0, <2>2, SeenType
  <2> QED BY <2>1, <2>2 DEF TaskStep, SeesClosed, Peek, Pop, Answer
<1>4. task' \in [Generations -> Task]
  BY <1>0, <1>2
<1> QED BY <1>0, <1>1, <1>3, <1>4 DEF PortFollowsTask, TypeOK, Task

LEMMA PortPanics ==
    ASSUME PortFollowsTask, NEW g \in Generations, Panics(g)
    PROVE  PortFollowsTask'
<1>1. task' \in [Generations -> Task]
  BY IdleType DEF Panics
<1>2. <<>> \in Seq(Peers) /\ Len(<<>>) <= InboxCap
  BY DnsServerAssumption
<1> QED BY <1>1, <1>2 DEF Panics, PortFollowsTask, TypeOK, Task

LEMMA PortInvariance == Spec => []PortFollowsTask
<1>1. PortFollowsTask /\ [Next]_vars => PortFollowsTask'
  <2> SUFFICES ASSUME PortFollowsTask, [Next]_vars PROVE PortFollowsTask'
    OBVIOUS
  <2>1. CASE UNCHANGED vars
    BY <2>1 DEF vars, PortFollowsTask, TypeOK
  <2> QED BY <2>1, PortStarts, PortArrives, PortTasks, PortPanics DEF Next
<1> QED BY <1>1, PortInitially, PTL DEF Spec

\* A server with a task has its socket, bound, and without one the port is free for
\* the next start(), unless a task could not be created (rbdns.cpp 57-101).
THEOREM PortIsTheTasks == Spec => []PortFollowsTask
BY PortInvariance, PTL

-----------------------------------------------------------------------------
(* The queries and the answers.                                              *)

\* As long as no task met a later one's socket there is one task, what it peeked at is
\* still the first in the queue of an open socket, and whom it answers asked.
OneTask == \A g, h \in Live : g = h
PeekedIsFirst ==
    \A g \in Generations : task[g].pc = "pop" /\ m_socket =>
        inbox # <<>> /\ Head(inbox) = task[g].query
AskerIsAnswered ==
    \A g \in Generations : task[g].pc = "answer" => task[g].query = task[g].to
QueriesInv == ~overlap => OneTask /\ PeekedIsFirst /\ AskerIsAnswered

LEMMA QueriesInitially == Init => QueriesInv /\ AnswersReachTheAsker
BY DEF Init, QueriesInv, OneTask, PeekedIsFirst, AskerIsAnswered, Live, Idle,
       AnswersReachTheAsker, NoReply

LEMMA QueriesStep == PortFollowsTask /\ QueriesInv /\ [Next]_vars => QueriesInv'
<1> SUFFICES ASSUME PortFollowsTask, QueriesInv, [Next]_vars, ~overlap' PROVE
             OneTask' /\ PeekedIsFirst' /\ AskerIsAnswered'
  BY DEF QueriesInv
<1>0. /\ TypeOK /\ task \in [Generations -> Task] /\ inbox \in Seq(Peers)
      /\ OneTask /\ PeekedIsFirst /\ AskerIsAnswered
  BY DEF PortFollowsTask, TypeOK, QueriesInv, Next, Start, StartShort, StartFails, Stop, Arrives,
         TaskStep, SeesClosed, Peek, Pop, Answer, Panics, Task, vars
<1>1. CASE Start \/ StartShort
  <2>1. Live = {} /\ \A g \in Generations : task[g].pc \in {"none", "gone"}
    BY <1>1 DEF Start, StartShort, Live
  <2>2. \A g \in Generations : /\ task'[g].pc \in {"none", "gone", "peek"}
                               /\ task'[g].pc = "peek" => g = starts'
    BY <1>0, <1>1, <2>1 DEF Start, StartShort, Idle
  <2> QED BY <2>2 DEF OneTask, PeekedIsFirst, AskerIsAnswered, Live
<1>2. CASE StartFails \/ Stop
  BY <1>0, <1>2 DEF StartFails, Stop, OneTask, PeekedIsFirst, AskerIsAnswered, Live
<1>3. ASSUME NEW p \in Peers, Arrives(p) PROVE OneTask' /\ PeekedIsFirst' /\ AskerIsAnswered'
  <2>1. UNCHANGED <<task, m_socket>>
    BY <1>3 DEF Arrives
  <2>2. inbox # <<>> => inbox' # <<>> /\ Head(inbox') = Head(inbox)
    <3>1. PICK d : inbox' \in {inbox, Append(inbox, d)}
      BY <1>3 DEF Arrives
    <3>2. inbox # <<>> => Append(inbox, d) # <<>> /\ Head(Append(inbox, d)) = Head(inbox)
      BY <1>0
    <3> QED BY <3>1, <3>2
  <2> QED BY <1>0, <2>1, <2>2 DEF OneTask, PeekedIsFirst, AskerIsAnswered, Live
<1>6. ASSUME NEW g \in Generations, Panics(g)
      PROVE  OneTask' /\ PeekedIsFirst' /\ AskerIsAnswered'
  BY <1>6 DEF Panics, OneTask, PeekedIsFirst, AskerIsAnswered, Live, Idle
<1>4. ASSUME NEW g \in Generations, TaskStep(g), ~Panics(g)
      PROVE  OneTask' /\ PeekedIsFirst' /\ AskerIsAnswered'
  <2>1. g \in Live
    BY <1>4 DEF TaskStep, SeesClosed, Peek, Pop, Answer, Live
  <2>2. \A h \in Generations : h # g => task'[h] = task[h] /\ task[h].pc \in {"none", "gone"}
    BY <1>0, <1>4, <2>1 DEF TaskStep, SeesClosed, Peek, Pop, Answer, Becomes, OneTask, Live
  <2>3. OneTask'
    BY <2>2 DEF OneTask, Live
  <2>4. CASE SeesClosed(g) \/ Answer(g)
    <3>1. task' = [task EXCEPT ![g] = Idle("gone")] \/ task' = [task EXCEPT ![g] = Idle("peek")]
      BY <2>4 DEF SeesClosed, Answer, Becomes
    <3>2. task'[g].pc \in {"gone", "peek"}
      BY <1>0, <3>1 DEF Idle
    <3> QED BY <2>2, <2>3, <3>2 DEF PeekedIsFirst, AskerIsAnswered
  <2>5. CASE Peek(g)
    <3>1. task'[g].pc = "pop" /\ task'[g].query = Head(inbox) /\ inbox' = inbox /\ inbox # <<>>
      BY <1>0, <2>5 DEF Peek, Becomes
    <3> QED BY <2>2, <2>3, <3>1 DEF PeekedIsFirst, AskerIsAnswered
  <2>6. CASE Pop(g)
    <3>1. Head(inbox) = task[g].query
      BY <1>0, <2>6 DEF Pop, PeekedIsFirst
    <3>2. \/ task'[g].pc = "peek"
          \/ /\ task'[g].pc = "answer" /\ task'[g].to = Head(inbox)
             /\ task'[g].query = task[g].query
      <4>1. CASE inbox = <<>>
        BY <1>0, <2>6, <4>1 DEF Pop, Becomes, Idle
      <4>2. CASE inbox # <<>>
        <5>1. task'[g] = [task[g] EXCEPT !.pc = "answer", !.to = Head(inbox)]
          BY <1>0, <2>6, <4>2 DEF Pop, Becomes
        <5>2. task[g] \in Task
          BY <1>0
        <5> QED BY <5>1, <5>2 DEF Task
      <4> QED BY <4>1, <4>2
    <3> QED BY <2>2, <2>3, <3>1, <3>2 DEF PeekedIsFirst, AskerIsAnswered
  <2> QED BY <1>4, <2>4, <2>5, <2>6 DEF TaskStep
<1>5. CASE UNCHANGED vars
  BY <1>0, <1>5 DEF vars, OneTask, PeekedIsFirst, AskerIsAnswered, Live
<1> QED BY <1>1, <1>2, <1>3, <1>4, <1>5, <1>6 DEF Next

LEMMA AnswerStep ==
    QueriesInv /\ AnswersReachTheAsker /\ [Next]_vars => AnswersReachTheAsker'
<1> SUFFICES ASSUME QueriesInv, AnswersReachTheAsker, [Next]_vars, ~overlap'
             PROVE  answered'.query = answered'.to
  BY DEF AnswersReachTheAsker
<1>1. CASE answered' = NoReply
  BY <1>1 DEF NoReply
<1>2. ASSUME NEW g \in Generations, Answer(g) \/ Panics(g)
      PROVE  answered'.query = answered'.to
  <2>1. AskerIsAnswered /\ task[g].pc = "answer"
    BY <1>2 DEF QueriesInv, Answer, Panics
  <2>2. PICK q, r : answered' = [query |-> task[g].query, to |-> task[g].to,
                                 content |-> q, replied |-> r]
    BY <1>2 DEF Answer, Panics, Answers
  <2>3. answered'.query = task[g].query /\ answered'.to = task[g].to
    BY <2>2
  <2> QED BY <2>1, <2>3 DEF AskerIsAnswered
<1>3. CASE UNCHANGED vars
  BY <1>3 DEF vars, AnswersReachTheAsker
<1> QED BY <1>1, <1>2, <1>3 DEF Next, Start, StartShort, StartFails, Stop, Arrives, TaskStep,
           SeesClosed, Peek, Pop, Quiet

\* A reply goes to the peer whose query it answers although the two come from two
\* calls on the socket, unless an older task lived when the socket was opened: then
\* the two tasks could take turns at its queue (rbdns.cpp 103-144, 265-300).
THEOREM AskersGetTheirs == Spec => []AnswersReachTheAsker
BY QueriesInitially, QueriesStep, AnswerStep, PortInvariance, PTL DEF Spec


-----------------------------------------------------------------------------
(* Naturals and recursive functions.                                         *)

\* Naturals have a least element: by well-foundedness, in place of an induction.
LEMMA LeastElement ==
    ASSUME NEW T \in SUBSET Nat, T # {}
    PROVE  \E x \in T : \A y \in T : x <= y
<1> DEFINE R == {ss \in Nat \X Nat : ss[1] < ss[2]}
<1>1. R = OpToRel(<, Nat)
  BY DEF OpToRel
<1>2. IsWellFoundedOn(R, Nat)
  BY <1>1, NatLessThanWellFounded, Zenon
<1> HIDE DEF R
<1>3. PICK x \in T : \A y \in T : ~ (<<y, x>> \in R)
  BY <1>2, WFMin
<1>4. ASSUME NEW y \in T PROVE x <= y
  <2>1. <<y, x>> \in Nat \X Nat /\ <<y, x>> \notin R
    BY <1>3
  <2>2. ~(y < x)
    BY <2>1 DEF R
  <2> QED BY <2>2
<1> QED BY <1>3, <1>4

\* A set that has 0 and the successor of each of its elements below N has all up to N.
LEMMA UpTo ==
    ASSUME NEW N \in Nat, NEW A, 0 \in A, \A n \in 1..N : n - 1 \in A => n \in A
    PROVE  \A n \in 0..N : n \in A
<1> DEFINE T == (0..N) \ A
<1>1. SUFFICES ASSUME T # {} PROVE FALSE
  OBVIOUS
<1>2. T \in SUBSET Nat
  OBVIOUS
<1> HIDE DEF T
<1>3. PICK x \in T : \A y \in T : x <= y
  BY <1>1, <1>2, LeastElement
<1>4. x \in 1..N /\ x - 1 \in 0..N /\ x - 1 \notin T
  BY <1>3 DEF T
<1> QED BY <1>4 DEF T

\* f is the recursion over 0..N that begins with base and takes each step by F.
Solves(f, N, base, F) == f[0] = base /\ \A n \in 1..N : f[n] = F[<<n, f[n - 1]>>]

\* A recursion has a solution.
LEMMA Recursion ==
    ASSUME NEW N \in Nat, NEW S, NEW base \in S, NEW F \in [(1..N) \X S -> S]
    PROVE  \E f \in [0..N -> S] : Solves(f, N, base, F)
<1> DEFINE A == {m \in 0..N : \E f \in [0..m -> S] : Solves(f, m, base, F)}
<1>1. 0 \in A
  <2> DEFINE g == [n \in 0..0 |-> base]
  <2>1. g \in [0..0 -> S] /\ g[0] = base
    OBVIOUS
  <2> HIDE DEF g
  <2>2. g \in [0..0 -> S] /\ Solves(g, 0, base, F)
    BY <2>1 DEF Solves
  <2> QED BY <2>2
<1>2. ASSUME NEW m \in 1..N, m - 1 \in A PROVE m \in A
  <2>1. PICK f \in [0..(m - 1) -> S] : Solves(f, m - 1, base, F)
    BY <1>2
  <2> DEFINE g == [n \in 0..m |-> IF n = m THEN F[<<m, f[m - 1]>>] ELSE f[n]]
  <2>2. f[m - 1] \in S
    BY <2>1
  <2>3. F[<<m, f[m - 1]>>] \in S
    BY <2>2
  <2>4. g \in [0..m -> S]
    BY <2>1, <2>3
  <2>5. \A n \in 0..(m - 1) : g[n] = f[n]
    OBVIOUS
  <2>6. g[m] = F[<<m, g[m - 1]>>]
    <3>1. m \in 0..m /\ m - 1 \in 0..(m - 1)
      OBVIOUS
    <3>2. g[m - 1] = f[m - 1]
      BY <3>1, <2>5
    <3>3. g[m] = F[<<m, f[m - 1]>>]
      BY <3>1
    <3> QED BY <3>2, <3>3
  <2> HIDE DEF g
  <2>7. Solves(g, m, base, F)
    <3>1. g[0] = base
      BY <2>1, <2>5 DEF Solves
    <3>2. ASSUME NEW n \in 1..m PROVE g[n] = F[<<n, g[n - 1]>>]
      <4>1. CASE n = m
        BY <4>1, <2>6
      <4>2. CASE n # m
        <5>1. n \in 1..(m - 1) /\ n \in 0..(m - 1) /\ n - 1 \in 0..(m - 1)
          BY <4>2
        <5> QED BY <5>1, <2>1, <2>5 DEF Solves
      <4> QED BY <4>1, <4>2
    <3> QED BY <3>1, <3>2 DEF Solves
  <2>8. m \in 0..N
    BY <1>2
  <2> QED BY <2>4, <2>7, <2>8
<1> HIDE DEF A
<1>3. N \in A
  BY <1>1, <1>2, UpTo
<1> QED BY <1>3 DEF A

\* f[n] is what the first n of N sequences are when they are joined.
Joined(f, N, seqs) ==
    /\ f[0] = <<>> /\ \A n \in 1..N : f[n] = f[n - 1] \o seqs[n]
    /\ FlattenSeq(seqs) = f[N]

\* FlattenSeq joins the sequences one after the other.
LEMMA Flattened ==
    ASSUME NEW T, NEW N \in Nat, NEW seqs, seqs \in [1..N -> Seq(T)]
    PROVE  \E f \in [0..N -> Seq(T)] : Joined(f, N, seqs)
<1> DEFINE F == [p \in (1..N) \X Seq(T) |-> p[2] \o seqs[p[1]]]
<1>1. /\ Len(seqs) = N /\ <<>> \in Seq(T) /\ \A n \in 1..N : seqs[n] \in Seq(T)
      /\ \A n \in 1..N : n \in 0..N /\ n - 1 \in 0..N /\ (n # 1 => n - 1 \in 1..N)
  OBVIOUS
<1>2. F \in [(1..N) \X Seq(T) -> Seq(T)]
  <2>1. ASSUME NEW p \in (1..N) \X Seq(T) PROVE p[2] \o seqs[p[1]] \in Seq(T)
    <3>1. p[2] \in Seq(T) /\ seqs[p[1]] \in Seq(T)
      BY <1>1
    <3> QED BY <3>1, ConcatProperties
  <2> QED BY <2>1
<1>3. PICK f \in [0..N -> Seq(T)] : f[0] = <<>> /\ \A n \in 1..N : f[n] = F[<<n, f[n - 1]>>]
  <2> DEFINE S == Seq(T)
             base == <<>>
  <2>1. base \in S /\ F \in [(1..N) \X S -> S]
    BY <1>1, <1>2
  <2> HIDE DEF F, S, base
  <2>2. \E f \in [0..N -> S] : Solves(f, N, base, F)
    BY <2>1, Recursion
  <2> QED BY <2>2 DEF S, base, Solves
<1>4. \A n \in 1..N : f[n] = f[n - 1] \o seqs[n]
  <2> TAKE n \in 1..N
  <2>1. f[n - 1] \in Seq(T) /\ f[n] = F[<<n, f[n - 1]>>]
    BY <1>1, <1>3
  <2> QED BY <2>1
<1>5. ASSUME 1 \in 1..N PROVE f[1] = seqs[1]
  <2>1. f[1] = f[0] \o seqs[1] /\ seqs[1] \in Seq(T)
    BY <1>4, <1>5, <1>1
  <2>2. <<>> \o seqs[1] = seqs[1]
    BY <2>1, ConcatEmptySeq
  <2> QED BY <2>1, <2>2, <1>3
<1>6. FlattenSeq(seqs) = f[N]
  <2>1. CASE N = 0
    <3>1. seqs = <<>>
      BY <2>1
    <3> QED BY <2>1, <3>1, <1>1, <1>3 DEF FlattenSeq
  <2>2. CASE N # 0
    <3> DEFINE Flattens(g) == g = [i \in 1..N |-> IF i = 1 THEN seqs[i] ELSE g[i - 1] \o seqs[i]]
               flatten == CHOOSE g : Flattens(g)
    <3>1. \E g : Flattens(g)
      <4> DEFINE g == [i \in 1..N |-> f[i]]
      <4>1. ASSUME NEW i \in 1..N PROVE g[i] = IF i = 1 THEN seqs[i] ELSE g[i - 1] \o seqs[i]
        <5>1. CASE i = 1
          BY <5>1, <1>5
        <5>2. CASE i # 1
          <6>1. g[i - 1] = f[i - 1]
            BY <5>2, <1>1
          <6> QED BY <5>2, <6>1, <1>4
        <5> QED BY <5>1, <5>2
      <4>2. Flattens(g)
        <5>1. DOMAIN g = 1..N
          OBVIOUS
        <5>2. g = [i \in 1..N |-> g[i]]
          OBVIOUS
        <5> HIDE DEF g
        <5> QED BY <4>1, <5>2
      <4> QED BY <4>2
    <3>2. Flattens(flatten)
      BY <3>1
    <3>3. FlattenSeq(seqs) = flatten[N]
      BY <2>2, <1>1 DEF FlattenSeq
    <3> HIDE DEF flatten
    <3>4. \A i \in 1..N : flatten[i] = IF i = 1 THEN seqs[i] ELSE flatten[i - 1] \o seqs[i]
      BY <3>2
    <3> HIDE DEF Flattens
    <3> DEFINE A == {n \in 0..N : n # 0 => flatten[n] = f[n]}
    <3>5. ASSUME NEW n \in 1..N, n - 1 \in A PROVE n \in A
      <4>1. CASE n = 1
        <5>1. flatten[n] = f[n]
          BY <4>1, <3>4, <1>5
        <5> QED BY <5>1, <1>1
      <4>2. CASE n # 1
        <5>1. flatten[n - 1] = f[n - 1]
          BY <3>5, <4>2
        <5>2. flatten[n] = f[n]
          BY <5>1, <3>4, <1>4, <4>2
        <5> QED BY <5>2, <1>1
      <4> QED BY <4>1, <4>2
    <3>6. 0 \in A
      OBVIOUS
    <3> HIDE DEF A
    <3>7. \A n \in 1..N : n - 1 \in A => n \in A
      BY <3>5
    <3>8. \A n \in 0..N : n \in A
      BY <3>6, <3>7, UpTo
    <3>9. N \in A
      BY <3>8
    <3> QED BY <3>3, <3>9, <2>2 DEF A
  <2> QED BY <2>1, <2>2
<1> QED BY <1>3, <1>4, <1>6 DEF Joined

-----------------------------------------------------------------------------
(* The query and the buffer.                                                 *)

Labels == {"header", "question", "extra", "answer"}
Byte == (Labels \X Nat \X Nat) \cup {<<"junk">>}

\* Queries that claim no more than came.
Understood == Queries \ Astray

LEMMA QuestionType == \A question \in Question : QuestionLen(question) \in Nat
<1> TAKE question \in Question
<1>1. PICK ends \in Seq(Nat) : ends = question.ends
  BY DEF Question
<1>2. CASE ends = <<>>
  BY <1>1, <1>2 DEF QuestionLen
<1>3. CASE ends # <<>>
  <2>1. ends[Len(ends)] \in Nat
    BY <1>3
  <2> QED BY <1>1, <1>3, <2>1 DEF QuestionLen
<1> QED BY <1>2, <1>3

LEMMA QueryType ==
    ASSUME NEW q \in Understood
    PROVE  /\ q.questions \in Seq(Question) /\ q.extra \in Nat /\ Len(q.questions) \in Nat
           /\ q.questions \in [1..Len(q.questions) -> Question]
           /\ DOMAIN q.questions = 1..Len(q.questions)
           /\ \A k \in 1..Len(q.questions) : /\ q.questions[k] \in Question
                                             /\ QuestionLen(q.questions[k]) \in Nat
           /\ q.header = HeaderLen /\ q.count = Len(q.questions)
           /\ q.buffer \in Int
<1>0. q \in Queries /\ ~(q.header < HeaderLen) /\ ~(q.count > Len(q.questions))
  BY DEF Understood, Astray
<1>1. q.questions \in Seq(Question) /\ q.extra \in Nat /\ q.buffer \in Int
  BY <1>0, DnsAssumption
<1>2. /\ Len(q.questions) \in Nat /\ q.questions \in [1..Len(q.questions) -> Question]
      /\ DOMAIN q.questions = 1..Len(q.questions)
  BY <1>1, LenProperties
<1>3. ASSUME NEW k \in 1..Len(q.questions)
      PROVE  q.questions[k] \in Question /\ QuestionLen(q.questions[k]) \in Nat
  BY <1>2, QuestionType
<1>4. q.header = HeaderLen /\ q.count = Len(q.questions)
  <2>1. q.header \in 0..HeaderLen /\ q.count \in Nat /\ Len(q.questions) <= q.count
        /\ HeaderLen \in Nat
    BY <1>0, DnsAssumption
  <2> QED BY <1>0, <1>2, <2>1
<1> QED BY <1>1, <1>2, <1>3, <1>4

LEMMA BytesType ==
    ASSUME NEW label \in Labels, NEW at \in Nat, NEW n \in Nat
    PROVE  /\ Bytes(label, at, n) \in Seq(Byte) /\ Len(Bytes(label, at, n)) = n
<1>1. \A i \in 1..n : <<label, at, i>> \in Byte
  <2> TAKE i \in 1..n
  <2>1. i \in Nat
    OBVIOUS
  <2>2. <<label, at, i>> \in Labels \X Nat \X Nat
    BY <2>1
  <2> QED BY <2>2 DEF Byte
<1> DEFINE b == Bytes(label, at, n)
<1>2. b \in [1..n -> Byte]
  BY <1>1 DEF Bytes
<1> HIDE DEF b
<1>3. b \in Seq(Byte) /\ Len(b) = n
  BY <1>2
<1> QED BY <1>3 DEF b

LEMMA MaxOfTwo ==
    ASSUME NEW a \in Int, NEW b \in Int
    PROVE  Max({a, b}) = IF a >= b THEN a ELSE b
<1> DEFINE m == IF a >= b THEN a ELSE b
<1>1. m \in {a, b} /\ \A y \in {a, b} : m >= y
  OBVIOUS
<1>2. \A x \in {a, b} : (\A y \in {a, b} : x >= y) => x = m
  OBVIOUS
<1> HIDE DEF m
<1>3. Max({a, b}) = m
  BY <1>1, <1>2 DEF Max
<1> QED BY <1>3 DEF m

LEMMA JunkType ==
    ASSUME NEW n \in Int
    PROVE  /\ Junk(n) \in Seq(Byte) /\ Len(Junk(n)) = IF n > 0 THEN n ELSE 0
<1>1. PICK m \in Nat : m = Max({0, n}) /\ m = IF n > 0 THEN n ELSE 0
  BY MaxOfTwo
<1>2. Junk(n) = [i \in 1..m |-> <<"junk">>]
  BY <1>1 DEF Junk
<1>3. <<"junk">> \in Byte
  BY Zenon DEF Byte
<1>4. Junk(n) \in [1..m -> Byte]
  BY <1>2, <1>3
<1> DEFINE b == Junk(n)
<1> HIDE DEF b
<1>5. b \in Seq(Byte) /\ Len(b) = m
  BY <1>4 DEF b
<1> QED BY <1>1, <1>5 DEF b

LEMMA WrittenType ==
    ASSUME NEW buff \in Seq(Byte), NEW bytes \in Seq(Byte), NEW at \in Nat
    PROVE  /\ Written(buff, bytes, at) \in Seq(Byte)
           /\ Len(Written(buff, bytes, at)) = Len(buff)
           /\ \A i \in 1..Len(buff) :
                 Written(buff, bytes, at)[i] = IF i \in (at + 1)..(at + Len(bytes))
                                               THEN bytes[i - at] ELSE buff[i]
<1> DEFINE w == Written(buff, bytes, at)
<1>1. PICK n \in Nat : n = Len(buff) /\ DOMAIN buff = 1..n /\ \A i \in 1..n : buff[i] \in Byte
  BY LenProperties, ElementOfSeq
<1>2. PICK m \in Nat : m = Len(bytes) /\ \A i \in 1..m : bytes[i] \in Byte
  BY LenProperties, ElementOfSeq
<1>3. w = [i \in 1..n |-> IF i \in (at + 1)..(at + m) THEN bytes[i - at] ELSE buff[i]]
  BY <1>1, <1>2 DEF Written
<1>4. \A i \in (at + 1)..(at + m) : i - at \in 1..m
  BY <1>2
<1>5. w \in [1..n -> Byte]
  BY <1>1, <1>2, <1>3, <1>4
<1>6. w \in Seq(Byte) /\ Len(w) = n
  BY <1>5
<1> QED BY <1>1, <1>2, <1>3, <1>6

LEMMA Joins ==
    ASSUME NEW a \in Seq(Byte), NEW b \in Seq(Byte), NEW m \in Nat, NEW n \in Nat,
           Len(a) = m, Len(b) = n
    PROVE  /\ a \o b \in Seq(Byte) /\ Len(a \o b) = m + n
           /\ \A i \in 1..m : (a \o b)[i] = a[i]
<1>1. /\ a \o b \in Seq(Byte) /\ Len(a \o b) = Len(a) + Len(b)
      /\ \A i \in 1..(Len(a) + Len(b)) :
            (a \o b)[i] = IF i <= Len(a) THEN a[i] ELSE b[i - Len(a)]
  BY ConcatProperties
<1>2. ASSUME NEW i \in 1..m PROVE (a \o b)[i] = a[i]
  <2>1. i \in 1..(Len(a) + Len(b)) /\ i <= Len(a)
    OBVIOUS
  <2> QED BY <2>1, <1>1
<1> QED BY <1>1, <1>2

\* The offset of a question is the sum of the lengths before it.
LEMMA Offsets ==
    ASSUME NEW q \in Understood, NEW N \in Nat, N = Len(q.questions)
    PROVE  \E f \in [0..N -> Nat] :
              /\ f[0] = HeaderLen /\ \A n \in 1..N : f[n] = f[n - 1] + QuestionLen(q.questions[n])
              /\ \A k \in 1..(N + 1) : Offset(q, k) = f[k - 1]
<1> DEFINE len(n) == QuestionLen(q.questions[n])
<1>1. (\A n \in 1..N : len(n) \in Nat) /\ HeaderLen \in Nat
  BY QueryType, DnsAssumption
<1>2. \A n \in 1..N : n \in 0..N /\ n - 1 \in 0..N
  OBVIOUS
<1> DEFINE Sums(g) == g = [j \in 0..N |-> IF j = 0 THEN HeaderLen ELSE g[j - 1] + len(j)]
           offset == CHOOSE g : Sums(g)
<1>3. \A k \in 1..(N + 1) : Offset(q, k) = offset[k - 1]
  BY DEF Offset
<1> HIDE DEF len
<1>4. \E g : Sums(g)
  <2> DEFINE F == [p \in (1..N) \X Nat |-> p[2] + len(p[1])]
  <2>1. F \in [(1..N) \X Nat -> Nat]
    BY <1>1
  <2>2. PICK f \in [0..N -> Nat] : Solves(f, N, HeaderLen, F)
    <3> HIDE DEF F
    <3> QED BY <1>1, <2>1, Recursion
  <2>3. ASSUME NEW j \in 0..N PROVE f[j] = IF j = 0 THEN HeaderLen ELSE f[j - 1] + len(j)
    <3>1. CASE j = 0
      BY <3>1, <2>2 DEF Solves
    <3>2. CASE j # 0
      <4>1. j \in 1..N /\ f[j - 1] \in Nat
        BY <3>2
      <4>2. f[j] = F[<<j, f[j - 1]>>]
        BY <4>1, <2>2 DEF Solves
      <4> QED BY <3>2, <4>1, <4>2
    <3> QED BY <3>1, <3>2
  <2>4. f = [j \in 0..N |-> f[j]]
    OBVIOUS
  <2>5. Sums(f)
    BY <2>3, <2>4
  <2> QED BY <2>5
<1>5. Sums(offset)
  BY <1>4
<1> HIDE DEF offset
<1>6. \A j \in 0..N : offset[j] = IF j = 0 THEN HeaderLen ELSE offset[j - 1] + len(j)
  BY <1>5
<1>7. offset = [j \in 0..N |-> offset[j]]
  BY <1>5
<1> HIDE DEF Sums
<1>8. offset[0] = HeaderLen /\ \A n \in 1..N : offset[n] = offset[n - 1] + len(n)
  BY <1>6
<1>9. \A n \in 0..N : offset[n] \in Nat
  <2> DEFINE A == {n \in 0..N : offset[n] \in Nat}
  <2>1. 0 \in A
    BY <1>1, <1>8
  <2>2. ASSUME NEW n \in 1..N, n - 1 \in A PROVE n \in A
    <3>1. offset[n - 1] \in Nat /\ len(n) \in Nat /\ offset[n] = offset[n - 1] + len(n)
      BY <1>1, <1>8, <2>2
    <3> QED BY <3>1, <1>2
  <2> HIDE DEF A
  <2>3. \A n \in 1..N : n - 1 \in A => n \in A
    BY <2>2
  <2>4. \A n \in 0..N : n \in A
    BY <2>1, <2>3, UpTo
  <2> QED BY <2>4 DEF A
<1>10. offset \in [0..N -> Nat]
  BY <1>7, <1>9
<1> QED BY <1>3, <1>8, <1>10 DEF len

\* What was asked is as long as the offset behind the last question.
LEMMA AskedType ==
    ASSUME NEW q \in Understood, NEW N \in Nat, N = Len(q.questions)
    PROVE  /\ Asked(q) \in Seq(Byte) /\ Len(Asked(q)) = Offset(q, N + 1)
           /\ Offset(q, N + 1) \in Nat
<1>1. PICK f \in [0..N -> Nat] :
           /\ f[0] = HeaderLen /\ \A n \in 1..N : f[n] = f[n - 1] + QuestionLen(q.questions[n])
           /\ \A k \in 1..(N + 1) : Offset(q, k) = f[k - 1]
  BY Offsets
<1>2. \A k \in 1..N : QuestionLen(q.questions[k]) \in Nat /\ k \in Nat
  BY QueryType
<1> DEFINE parts == [k \in 1..N |-> Bytes("question", k, QuestionLen(q.questions[k]))]
<1>3. ASSUME NEW k \in 1..N
      PROVE  parts[k] \in Seq(Byte) /\ Len(parts[k]) = QuestionLen(q.questions[k])
  <2>1. "question" \in Labels
    BY DEF Labels
  <2> QED BY <2>1, <1>2, BytesType
<1>4. parts \in [1..N -> Seq(Byte)]
  BY <1>3
<1>5. QuestionBytes(q) = FlattenSeq(parts)
  BY QueryType DEF QuestionBytes
<1> HIDE DEF parts
<1>6. PICK g \in [0..N -> Seq(Byte)] : Joined(g, N, parts)
  BY <1>4, Flattened
<1>7. Len(g[N]) = f[N] - HeaderLen
  <2> DEFINE A == {n \in 0..N : Len(g[n]) = f[n] - HeaderLen}
  <2>1. 0 \in A
    BY <1>1, <1>6, DnsAssumption DEF Joined
  <2>2. ASSUME NEW n \in 1..N, n - 1 \in A PROVE n \in A
    <3>1. Len(g[n - 1]) = f[n - 1] - HeaderLen /\ n \in 0..N
      BY <2>2
    <3> HIDE DEF A
    <3>2. n - 1 \in 0..N
      OBVIOUS
    <3>3. g[n - 1] \in Seq(Byte) /\ f[n - 1] \in Nat
      BY <3>2
    <3>9. g[n] = g[n - 1] \o parts[n]
      BY <1>6 DEF Joined
    <3>4. Len(g[n - 1] \o parts[n]) = Len(g[n - 1]) + Len(parts[n])
      BY <3>3, <1>3, ConcatProperties
    <3>5. f[n] = f[n - 1] + QuestionLen(q.questions[n]) /\ QuestionLen(q.questions[n]) \in Nat
      BY <1>1, <1>2
    <3>6. PICK l \in Nat : l = QuestionLen(q.questions[n])
      BY <3>5
    <3>7. Len(parts[n]) = l
      BY <3>6, <1>3
    <3>8. Len(g[n]) = (f[n - 1] - HeaderLen) + l /\ f[n] = f[n - 1] + l
      BY <3>1, <3>4, <3>5, <3>6, <3>7, <3>9
    <3>10. Len(g[n]) = f[n] - HeaderLen
      BY <3>3, <3>8, DnsAssumption
    <3> QED BY <3>1, <3>10 DEF A
  <2> HIDE DEF A
  <2>3. \A n \in 1..N : n - 1 \in A => n \in A
    BY <2>2
  <2>4. \A n \in 0..N : n \in A
    BY <2>1, <2>3, UpTo
  <2>5. N \in A
    BY <2>4
  <2> QED BY <2>5 DEF A
<1>8. "header" \in Labels /\ 0 \in Nat /\ HeaderLen \in Nat
  BY DnsAssumption DEF Labels
<1>9. Bytes("header", 0, HeaderLen) \in Seq(Byte) /\ Len(Bytes("header", 0, HeaderLen)) = HeaderLen
  BY <1>8, BytesType
<1>10. g[N] \in Seq(Byte) /\ f[N] \in Nat /\ Offset(q, N + 1) = f[N]
  BY <1>1, <1>6
<1>11. Asked(q) = Bytes("header", 0, HeaderLen) \o g[N]
  BY <1>5, <1>6, QueryType DEF Asked, Joined
<1>12. /\ Asked(q) \in Seq(Byte)
       /\ Len(Asked(q)) = Len(Bytes("header", 0, HeaderLen)) + Len(g[N])
  BY <1>9, <1>10, <1>11, ConcatProperties
<1> QED BY <1>7, <1>8, <1>9, <1>10, <1>12

LEMMA Product ==
    ASSUME NEW a \in Nat, NEW b \in Nat, NEW c \in Nat, a <= b
    PROVE  a * c \in Nat /\ b * c \in Nat /\ a * c <= b * c /\ (a + 1) * c = a * c + c
<1>1. PICK d \in Nat : b = a + d
  <2>1. b - a \in Nat /\ b = a + (b - a)
    OBVIOUS
  <2> QED BY <2>1
<1>2. d * c \in Nat /\ a * c \in Nat /\ b * c = a * c + d * c /\ (a + 1) * c = a * c + c
  BY <1>1
<1> QED BY <1>2

\* The buffer begins with the query and has room for an answer to each of its questions.
LEMMA ReceivedType ==
    ASSUME NEW q \in Understood, NEW N \in Nat, N = Len(q.questions)
    PROVE  /\ req_size(q) \in Nat /\ Len(Asked(q)) \in Nat /\ req_size(q) = Len(Asked(q)) + q.extra
           /\ full_reply_len(q) = N * AnswerLen + req_size(q) /\ N * AnswerLen \in Nat
           /\ Received(q) \in Seq(Byte) /\ Len(Received(q)) \in Nat
           /\ full_reply_len(q) <= Len(Received(q))
           /\ \A i \in 1..Len(Asked(q)) : Received(q)[i] = Asked(q)[i]
<1>1. PICK L \in Nat : L = Len(Asked(q))
  BY AskedType
<1>2. PICK e \in Nat : e = q.extra
  BY QueryType
<1>3. PICK m \in Nat : m = N * AnswerLen
  BY Product, DnsAssumption
<1>4. req_size(q) = L + e /\ full_reply_len(q) = m + (L + e)
  BY <1>1, <1>2, <1>3, QueryType DEF req_size, full_reply_len
<1> DEFINE query == Asked(q) \o Bytes("extra", 0, q.extra)
<1>5. query \in Seq(Byte) /\ Len(query) = L + e /\ \A i \in 1..L : query[i] = Asked(q)[i]
  <2>1. "extra" \in Labels /\ 0 \in Nat
    BY DEF Labels
  <2>2. Bytes("extra", 0, q.extra) \in Seq(Byte) /\ Len(Bytes("extra", 0, q.extra)) = e
    BY <1>2, <2>1, BytesType
  <2>3. Asked(q) \in Seq(Byte)
    BY AskedType
  <2>4. \A i \in 1..L : i \in 1..(L + e) /\ i <= L
    OBVIOUS
  <2> QED BY <1>1, <2>2, <2>3, <2>4, ConcatProperties
<1>6. PICK x \in Nat : /\ x = Max({q.buffer, full_reply_len(q)}) /\ m + (L + e) <= x
  BY <1>4, MaxOfTwo, QueryType
<1> DEFINE rest == Junk(x - Len(query))
<1>7. rest \in Seq(Byte) /\ Len(rest) = x - (L + e)
  <2>1. PICK y \in Nat : y = x - (L + e)
    BY <1>6
  <2>2. rest = Junk(y)
    BY <1>5, <2>1
  <2>3. Junk(y) \in Seq(Byte) /\ Len(Junk(y)) = y
    BY JunkType
  <2> QED BY <2>1, <2>2, <2>3
<1>8. Received(q) = query \o rest
  BY <1>6 DEF Received
<1> HIDE DEF query, rest
<1>9. Received(q) \in Seq(Byte) /\ Len(Received(q)) = x
      /\ \A i \in 1..L : Received(q)[i] = query[i]
  <2>1. PICK r \in Nat : r = Len(rest) /\ (L + e) + r = x
    BY <1>5, <1>6, <1>7
  <2>2. /\ query \o rest \in Seq(Byte) /\ Len(query \o rest) = (L + e) + r
        /\ \A i \in 1..(L + e) : (query \o rest)[i] = query[i]
    <3>1. PICK l \in Nat : l = L + e /\ \A i \in 1..L : i \in 1..l
      OBVIOUS
    <3>2. query \in Seq(Byte) /\ Len(query) = l /\ rest \in Seq(Byte) /\ Len(rest) = r
      BY <3>1, <2>1, <1>5, <1>7
    <3> QED BY <3>1, <3>2, Joins
  <2>3. \A i \in 1..L : i \in 1..(L + e)
    OBVIOUS
  <2>4. L + e + r = x /\ Received(q) = query \o rest
    BY <2>1, <1>8
  <2>5. ASSUME NEW i \in 1..L PROVE Received(q)[i] = query[i]
    BY <2>2, <2>3, <2>4
  <2> QED BY <2>2, <2>4, <2>5
<1>10. /\ req_size(q) \in Nat /\ Len(Asked(q)) \in Nat /\ req_size(q) = Len(Asked(q)) + q.extra
       /\ full_reply_len(q) = N * AnswerLen + req_size(q) /\ N * AnswerLen \in Nat
  BY <1>1, <1>2, <1>3, <1>4
<1>11. full_reply_len(q) <= Len(Received(q)) /\ Len(Received(q)) \in Nat
  BY <1>4, <1>6, <1>9
<1>12. \A i \in 1..Len(Asked(q)) : Received(q)[i] = Asked(q)[i]
  BY <1>1, <1>5, <1>9
<1> QED BY <1>9, <1>10, <1>11, <1>12

-----------------------------------------------------------------------------
(* The loop over the questions.                                              *)

LoopState == [buff : Seq(Byte), cur_question : Nat, answer_count : Nat]

\* One round: only a question of type A writes an answer, and every one is passed.
LEMMA RoundType ==
    ASSUME NEW q \in Understood, NEW loop \in LoopState, NEW question \in Question
    PROVE  /\ Answered(q, loop, question) \in LoopState
           /\ Answered(q, loop, question).cur_question = loop.cur_question + QuestionLen(question)
           /\ question.kind # "A" =>
                 /\ Answered(q, loop, question).answer_count = loop.answer_count
                 /\ Answered(q, loop, question).buff = loop.buff
           /\ question.kind = "A" =>
                 /\ Answered(q, loop, question).answer_count = loop.answer_count + 1
                 /\ Answered(q, loop, question).buff =
                       Written(loop.buff, Bytes("answer", loop.cur_question, AnswerLen),
                               req_size(q) + loop.answer_count * AnswerLen)
<1>1. PICK b \in Seq(Byte), p \in Nat, c \in Nat :
           loop = [buff |-> b, cur_question |-> p, answer_count |-> c]
  BY DEF LoopState
<1>2. PICK l \in Nat : l = QuestionLen(question)
  BY QuestionType
<1> DEFINE next == [buff |-> b, cur_question |-> p + l, answer_count |-> c]
<1>3. [loop EXCEPT !.cur_question = @ + QuestionLen(question)] = next
  BY <1>1, <1>2
<1>4. CASE question.kind # "A"
  <2>1. Answered(q, loop, question) = next
    BY <1>3, <1>4 DEF Answered
  <2>2. next \in LoopState
    BY DEF LoopState
  <2> QED BY <1>1, <1>2, <1>4, <2>1, <2>2
<1>5. CASE question.kind = "A"
  <2> DEFINE w == Written(b, Bytes("answer", p, AnswerLen), req_size(q) + c * AnswerLen)
  <2>1. w \in Seq(Byte)
    <3>1. Bytes("answer", p, AnswerLen) \in Seq(Byte)
      BY BytesType, DnsAssumption DEF Labels
    <3>2. req_size(q) \in Nat
      BY ReceivedType, QueryType
    <3>3. c * AnswerLen \in Nat
      BY Product, DnsAssumption
    <3>4. req_size(q) + c * AnswerLen \in Nat
      BY <3>2, <3>3
    <3> QED BY <3>1, <3>4, WrittenType
  <2>2. Answered(q, loop, question)
        = [next EXCEPT !.answer_count = @ + 1,
                       !.buff = Written(@, Bytes("answer", loop.cur_question, AnswerLen),
                                        req_size(q) + loop.answer_count * AnswerLen)]
    BY <1>3, <1>5 DEF Answered
  <2>3. Answered(q, loop, question) = [buff |-> w, cur_question |-> p + l, answer_count |-> c + 1]
    BY <2>2, <1>1
  <2> HIDE DEF w
  <2>4. Answered(q, loop, question) \in LoopState
    BY <2>1, <2>3 DEF LoopState
  <2>5. w = Written(loop.buff, Bytes("answer", loop.cur_question, AnswerLen),
                    req_size(q) + loop.answer_count * AnswerLen)
    BY <1>1 DEF w
  <2> QED BY <1>1, <1>2, <1>5, <2>3, <2>4, <2>5
<1> QED BY <1>4, <1>5

FirstRound(q) == [buff |-> Received(q), cur_question |-> HeaderLen, answer_count |-> 0]

\* The loop goes once over every question.
LEMMA Rounds ==
    ASSUME NEW q \in Understood, NEW N \in Nat, N = Len(q.questions)
    PROVE  \E f \in [0..N -> LoopState] :
              /\ f[0] = FirstRound(q)
              /\ \A n \in 1..N : f[n] = Answered(q, f[n - 1], q.questions[n])
              /\ AfterQuestions(q) = f[N]
<1>1. FirstRound(q) \in LoopState
  BY ReceivedType, DnsAssumption DEF FirstRound, LoopState
<1>2. \A n \in 1..N : q.questions[n] \in Question /\ n \in 0..N /\ n - 1 \in 0..N
  BY QueryType
<1> DEFINE step(n, s) == Answered(q, s, q.questions[n])
           Runs(g) == g = [n \in 0..N |-> IF n = 0 THEN FirstRound(q) ELSE step(n, g[n - 1])]
           loop == CHOOSE g : Runs(g)
<1>3. AfterQuestions(q) = loop[N]
  BY DEF AfterQuestions, FirstRound
<1>4. \A n \in 1..N : \A s \in LoopState : step(n, s) \in LoopState
  BY <1>2, RoundType
<1> HIDE DEF step
<1>5. \E g : Runs(g)
  <2> DEFINE F == [p \in (1..N) \X LoopState |-> step(p[1], p[2])]
  <2>1. F \in [(1..N) \X LoopState -> LoopState]
    BY <1>4
  <2>2. PICK f \in [0..N -> LoopState] : Solves(f, N, FirstRound(q), F)
    <3> HIDE DEF F
    <3> QED BY <1>1, <2>1, Recursion
  <2>3. ASSUME NEW n \in 0..N PROVE f[n] = IF n = 0 THEN FirstRound(q) ELSE step(n, f[n - 1])
    <3>1. CASE n = 0
      BY <3>1, <2>2 DEF Solves
    <3>2. CASE n # 0
      <4>1. n \in 1..N /\ f[n - 1] \in LoopState
        BY <3>2
      <4>2. f[n] = F[<<n, f[n - 1]>>]
        BY <4>1, <2>2 DEF Solves
      <4> QED BY <3>2, <4>1, <4>2
    <3> QED BY <3>1, <3>2
  <2>4. f = [n \in 0..N |-> f[n]]
    OBVIOUS
  <2>5. Runs(f)
    BY <2>3, <2>4
  <2> QED BY <2>5
<1>6. Runs(loop)
  BY <1>5
<1> HIDE DEF loop
<1>7. \A n \in 0..N : loop[n] = IF n = 0 THEN FirstRound(q) ELSE step(n, loop[n - 1])
  BY <1>6
<1>8. loop = [n \in 0..N |-> loop[n]]
  BY <1>6
<1> HIDE DEF Runs
<1>9. loop[0] = FirstRound(q) /\ \A n \in 1..N : loop[n] = step(n, loop[n - 1])
  BY <1>7
<1>10. \A n \in 0..N : loop[n] \in LoopState
  <2> DEFINE A == {n \in 0..N : loop[n] \in LoopState}
  <2>1. 0 \in A
    BY <1>1, <1>9
  <2>2. ASSUME NEW n \in 1..N, n - 1 \in A PROVE n \in A
    <3>1. loop[n - 1] \in LoopState /\ loop[n] = step(n, loop[n - 1])
      BY <1>9, <2>2
    <3> QED BY <3>1, <1>2, <1>4
  <2> HIDE DEF A
  <2>3. \A n \in 1..N : n - 1 \in A => n \in A
    BY <2>2
  <2>4. \A n \in 0..N : n \in A
    BY <2>1, <2>3, UpTo
  <2> QED BY <2>4 DEF A
<1>11. loop \in [0..N -> LoopState]
  BY <1>8, <1>10
<1> QED BY <1>3, <1>9, <1>11 DEF step

\* What answers question k.
AnswerTo(q, k) ==
    IF q.questions[k].kind = "A" THEN Bytes("answer", Offset(q, k), AnswerLen) ELSE <<>>

\* After n questions the loop is behind them, and their answers stand behind the query,
\* which is as it was.
LoopOk(q, n, loop, answers) ==
    /\ loop \in LoopState /\ loop.answer_count \in 0..n /\ answers \in Seq(Byte)
    /\ loop.cur_question = Offset(q, n + 1)
    /\ Len(answers) = loop.answer_count * AnswerLen
    /\ Len(loop.buff) = Len(Received(q))
    /\ \A i \in 1..req_size(q) : loop.buff[i] = Received(q)[i]
    /\ \A i \in 1..Len(answers) : loop.buff[req_size(q) + i] = answers[i]

\* An answer lies behind the query and behind the answers before it, inside the buffer.
LEMMA RoundKeeps ==
    ASSUME NEW q \in Understood, NEW N \in Nat, N = Len(q.questions), NEW n \in 1..N,
           NEW loop, NEW answers, LoopOk(q, n - 1, loop, answers)
    PROVE  LoopOk(q, n, Answered(q, loop, q.questions[n]), answers \o AnswerTo(q, n))
<1> DEFINE next == Answered(q, loop, q.questions[n])
<1>1. PICK r \in Nat, size \in Nat : /\ r = req_size(q) /\ size = Len(Received(q))
                                     /\ N * AnswerLen \in Nat /\ N * AnswerLen + r <= size
  BY ReceivedType
<1>2. PICK c \in 0..(n - 1) : c = loop.answer_count
  BY DEF LoopOk
<1>3. PICK m \in Nat : m = c * AnswerLen
  BY Product, DnsAssumption
<1>4. PICK al \in Nat : al = AnswerLen
  BY DnsAssumption
<1>5. /\ loop \in LoopState /\ loop.buff \in Seq(Byte) /\ loop.cur_question \in Nat
      /\ loop.answer_count = c /\ answers \in Seq(Byte) /\ Len(answers) = m
      /\ loop.cur_question = Offset(q, n) /\ Len(loop.buff) = size
      /\ \A i \in 1..r : loop.buff[i] = Received(q)[i]
      /\ \A i \in 1..m : loop.buff[r + i] = answers[i]
  BY <1>1, <1>2, <1>3 DEF LoopOk, LoopState
<1>6. q.questions[n] \in Question
  BY QueryType
<1>7. /\ next \in LoopState /\ next.cur_question = loop.cur_question + QuestionLen(q.questions[n])
      /\ q.questions[n].kind # "A" => next.answer_count = c /\ next.buff = loop.buff
      /\ q.questions[n].kind = "A" =>
            /\ next.answer_count = c + 1
            /\ next.buff = Written(loop.buff, Bytes("answer", loop.cur_question, AnswerLen), r + m)
  BY <1>1, <1>3, <1>5, <1>6, RoundType
<1>8. next.cur_question = Offset(q, n + 1)
  <2>1. PICK f \in [0..N -> Nat] :
             /\ f[0] = HeaderLen /\ \A k \in 1..N : f[k] = f[k - 1] + QuestionLen(q.questions[k])
             /\ \A k \in 1..(N + 1) : Offset(q, k) = f[k - 1]
    BY Offsets
  <2>2. n \in 1..(N + 1) /\ n + 1 \in 1..(N + 1) /\ (n + 1) - 1 = n
    OBVIOUS
  <2>3. Offset(q, n) = f[n - 1] /\ Offset(q, n + 1) = f[n]
    BY <2>1, <2>2
  <2> QED BY <2>1, <2>3, <1>5, <1>7
<1> HIDE DEF next
<1>9. CASE q.questions[n].kind # "A"
  <2>1. AnswerTo(q, n) = <<>> /\ answers \o <<>> = answers
    BY <1>5, <1>9, ConcatEmptySeq DEF AnswerTo
  <2>2. c \in 0..n
    BY <1>2
  <2>3. next.answer_count = c /\ next.buff = loop.buff
    BY <1>7, <1>9
  <2>4. /\ Len(answers) = next.answer_count * AnswerLen /\ Len(next.buff) = Len(Received(q))
        /\ \A i \in 1..req_size(q) : next.buff[i] = Received(q)[i]
        /\ \A i \in 1..Len(answers) : next.buff[req_size(q) + i] = answers[i]
    BY <1>1, <1>3, <1>5, <2>3
  <2>5. LoopOk(q, n, next, answers)
    BY <1>5, <1>7, <1>8, <2>2, <2>3, <2>4 DEF LoopOk
  <2> QED BY <2>1, <2>5 DEF next
<1>10. CASE q.questions[n].kind = "A"
  <2> DEFINE bytes == Bytes("answer", loop.cur_question, AnswerLen)
             all == answers \o bytes
  <2>1. bytes \in Seq(Byte) /\ Len(bytes) = al
    BY <1>4, <1>5, BytesType DEF Labels
  <2>2. AnswerTo(q, n) = bytes
    BY <1>5, <1>10 DEF AnswerTo
  <2> HIDE DEF bytes
  <2>3. /\ all \in Seq(Byte) /\ Len(all) = m + al
        /\ \A i \in 1..m : all[i] = answers[i]
        /\ \A i \in (m + 1)..(m + al) : all[i] = bytes[i - m]
    <3>1. answers \in Seq(Byte) /\ Len(answers) = m
      BY <1>5
    <3> HIDE DEF all
    <3>2. /\ answers \o bytes \in Seq(Byte) /\ Len(answers \o bytes) = Len(answers) + Len(bytes)
          /\ \A i \in 1..(Len(answers) + Len(bytes)) :
                (answers \o bytes)[i] = IF i <= Len(answers) THEN answers[i]
                                        ELSE bytes[i - Len(answers)]
      BY <3>1, <2>1, ConcatProperties
    <3>3. ASSUME NEW i \in 1..(m + al)
          PROVE  (answers \o bytes)[i] = IF i <= m THEN answers[i] ELSE bytes[i - m]
      BY <3>1, <3>2, <2>1
    <3>4. \A i \in 1..m : i \in 1..(m + al) /\ i <= m
      OBVIOUS
    <3>5. \A i \in (m + 1)..(m + al) : i \in 1..(m + al) /\ ~(i <= m)
      OBVIOUS
    <3>6. answers \o bytes \in Seq(Byte) /\ Len(answers \o bytes) = m + al
      BY <3>1, <3>2, <2>1
    <3>7. /\ \A i \in 1..m : (answers \o bytes)[i] = answers[i]
          /\ \A i \in (m + 1)..(m + al) : (answers \o bytes)[i] = bytes[i - m]
      BY <3>3, <3>4, <3>5
    <3> QED BY <3>6, <3>7 DEF all
  <2> HIDE DEF all
  <2>4. c + 1 \in 0..n /\ (c + 1) * AnswerLen = m + al /\ r + (m + al) <= size
    <3>1. c + 1 \in 0..n /\ c + 1 \in Nat /\ c \in Nat /\ c + 1 <= N /\ c <= c
      BY <1>2
    <3>2. (c + 1) * AnswerLen \in Nat /\ (c + 1) * AnswerLen <= N * AnswerLen
      BY <3>1, Product, DnsAssumption
    <3>3. (c + 1) * AnswerLen = m + al
      BY <3>1, <1>3, <1>4, Product, DnsAssumption
    <3>4. PICK na \in Nat : na = N * AnswerLen
      BY <1>1
    <3>5. m + al <= na /\ na + r <= size
      BY <3>2, <3>3, <3>4, <1>1
    <3>6. r + (m + al) <= size
      BY <3>5
    <3> QED BY <3>1, <3>3, <3>6
  <2>5. /\ next.buff \in Seq(Byte) /\ Len(next.buff) = size
        /\ \A i \in 1..size : next.buff[i] = IF i \in ((r + m) + 1)..((r + m) + al)
                                             THEN bytes[i - (r + m)] ELSE loop.buff[i]
    <3>1. r + m \in Nat /\ next.buff = Written(loop.buff, bytes, r + m)
      BY <1>7, <1>10 DEF bytes
    <3>2. loop.buff \in Seq(Byte) /\ Len(loop.buff) = size
      BY <1>5
    <3> DEFINE at == r + m
    <3> HIDE DEF at
    <3>3. at \in Nat
      BY <3>1 DEF at
    <3>4. /\ Written(loop.buff, bytes, at) \in Seq(Byte)
          /\ Len(Written(loop.buff, bytes, at)) = size
          /\ \A i \in 1..size : Written(loop.buff, bytes, at)[i]
                                = IF i \in (at + 1)..(at + al) THEN bytes[i - at] ELSE loop.buff[i]
      <4>1. /\ Written(loop.buff, bytes, at) \in Seq(Byte)
            /\ Len(Written(loop.buff, bytes, at)) = Len(loop.buff)
            /\ \A i \in 1..Len(loop.buff) :
                  Written(loop.buff, bytes, at)[i]
                  = IF i \in (at + 1)..(at + Len(bytes)) THEN bytes[i - at] ELSE loop.buff[i]
        BY <3>2, <3>3, <2>1, WrittenType
      <4> QED BY <4>1, <3>2, <2>1
    <3> QED BY <3>1, <3>4 DEF at
  <2>6. ASSUME NEW i \in 1..r PROVE next.buff[i] = Received(q)[i]
    <3>1. i \in 1..size /\ i \notin ((r + m) + 1)..((r + m) + al)
      BY <2>4
    <3> QED BY <3>1, <2>5, <1>5
  <2>7. ASSUME NEW i \in 1..(m + al) PROVE next.buff[r + i] = all[i]
    <3>1. r + i \in 1..size
      BY <2>4
    <3>2. CASE i \in 1..m
      <4>1. r + i \notin ((r + m) + 1)..((r + m) + al)
        BY <3>2
      <4> QED BY <3>1, <3>2, <4>1, <2>3, <2>5, <1>5
    <3>3. CASE i \notin 1..m
      <4>1. /\ r + i \in ((r + m) + 1)..((r + m) + al) /\ (r + i) - (r + m) = i - m
            /\ i \in (m + 1)..(m + al)
        BY <3>3
      <4> QED BY <3>1, <4>1, <2>3, <2>5
    <3> QED BY <3>2, <3>3
  <2>8. LoopOk(q, n, next, all)
    BY <1>1, <1>7, <1>8, <1>10, <2>3, <2>4, <2>5, <2>6, <2>7 DEF LoopOk
  <2> QED BY <2>2, <2>8 DEF next, all
<1> QED BY <1>9, <1>10

\* So it is after the last question, with the answers the reply is expected to have.
LEMMA AllAnswered ==
    ASSUME NEW q \in Understood, NEW N \in Nat, N = Len(q.questions)
    PROVE  \E answers : /\ LoopOk(q, N, AfterQuestions(q), answers)
                        /\ Expected(q) = Asked(q) \o answers
<1>1. PICK f \in [0..N -> LoopState] :
           /\ f[0] = FirstRound(q) /\ AfterQuestions(q) = f[N]
           /\ \A n \in 1..N : f[n] = Answered(q, f[n - 1], q.questions[n])
  BY Rounds
<1> DEFINE parts == [k \in 1..N |-> AnswerTo(q, k)]
<1>2. parts \in [1..N -> Seq(Byte)]
  <2>1. ASSUME NEW k \in 1..N PROVE AnswerTo(q, k) \in Seq(Byte)
    <3>1. PICK h \in [0..N -> Nat] : \A j \in 1..(N + 1) : Offset(q, j) = h[j - 1]
      BY Offsets
    <3>2. k \in 1..(N + 1) /\ k - 1 \in 0..N
      OBVIOUS
    <3>3. Offset(q, k) \in Nat
      BY <3>1, <3>2
    <3>4. Bytes("answer", Offset(q, k), AnswerLen) \in Seq(Byte) /\ <<>> \in Seq(Byte)
      BY <3>3, BytesType, DnsAssumption DEF Labels
    <3> QED BY <3>4 DEF AnswerTo
  <2> QED BY <2>1
<1>3. Expected(q) = Asked(q) \o FlattenSeq(parts)
  BY QueryType DEF Expected, AnswerTo
<1>4. \A n \in 1..N : parts[n] = AnswerTo(q, n)
  OBVIOUS
<1> HIDE DEF parts
<1>5. PICK g \in [0..N -> Seq(Byte)] : Joined(g, N, parts)
  BY <1>2, Flattened
<1> DEFINE A == {n \in 0..N : LoopOk(q, n, f[n], g[n])}
<1>6. 0 \in A
  <2>1. PICK h \in [0..N -> Nat] : h[0] = HeaderLen /\ \A j \in 1..(N + 1) : Offset(q, j) = h[j - 1]
    BY Offsets
  <2>2. 1 \in 1..(N + 1) /\ 0 \in 0..N /\ 0 + 1 = 1 /\ 1 - 1 = 0
    OBVIOUS
  <2>3. Offset(q, 1) = HeaderLen
    BY <2>1, <2>2
  <2>4. f[0] \in LoopState /\ g[0] = <<>> /\ <<>> \in Seq(Byte) /\ Len(<<>>) = 0
    BY <1>1, <1>5, <2>2 DEF Joined
  <2>5. /\ f[0].buff = Received(q) /\ f[0].cur_question = HeaderLen /\ f[0].answer_count = 0
        /\ 0 * AnswerLen = 0 /\ 0 \in 0..0
    BY <1>1, DnsAssumption DEF FirstRound
  <2>6. LoopOk(q, 0, f[0], <<>>)
    BY <2>2, <2>3, <2>4, <2>5 DEF LoopOk
  <2> QED BY <2>2, <2>4, <2>6
<1>7. ASSUME NEW n \in 1..N, n - 1 \in A PROVE n \in A
  <2>1. LoopOk(q, n - 1, f[n - 1], g[n - 1]) /\ n \in 0..N
    BY <1>7
  <2>2. LoopOk(q, n, Answered(q, f[n - 1], q.questions[n]), g[n - 1] \o AnswerTo(q, n))
    BY <2>1, RoundKeeps
  <2>3. f[n] = Answered(q, f[n - 1], q.questions[n]) /\ g[n] = g[n - 1] \o AnswerTo(q, n)
    BY <1>1, <1>4, <1>5 DEF Joined
  <2> QED BY <2>1, <2>2, <2>3
<1>8. \A n \in 1..N : n - 1 \in A => n \in A
  BY <1>7
<1> HIDE DEF A
<1>9. \A n \in 0..N : n \in A
  BY <1>6, <1>8, UpTo
<1>10. N \in A
  BY <1>9
<1> QED BY <1>1, <1>3, <1>5, <1>10 DEF A, Joined

-----------------------------------------------------------------------------
(* The reply.                                                                *)

\* What a reply is made of: the query, its answers and what is cut out between them.
LEMMA ReplyIs ==
    ASSUME NEW q \in Accepted, q \notin Astray
    PROVE  /\ q \in Fitting
           /\ q \in LongCut => q \in WellAnswered
<1>1. q \in Understood /\ ~Refused(q)
  BY DEF Accepted, Understood
<1>2. PICK N \in Nat : N = Len(q.questions)
  BY <1>1, QueryType
<1> DEFINE loop == AfterQuestions(q)
<1>3. PICK a : LoopOk(q, N, loop, a) /\ Expected(q) = Asked(q) \o a
  BY <1>1, <1>2, AllAnswered
<1>4. PICK L \in Nat, e \in Nat, r \in Nat, size \in Nat :
           L = Len(Asked(q)) /\ e = q.extra /\ r = req_size(q) /\ size = Len(Received(q))
  BY <1>1, <1>2, ReceivedType, QueryType
<1>0. r = L + e
  BY <1>1, <1>2, <1>4, ReceivedType
<1>5. PICK c \in 0..N : c = loop.answer_count
  BY <1>3 DEF LoopOk
<1>6. PICK m \in Nat, na \in Nat : m = c * AnswerLen /\ na = N * AnswerLen /\ m <= na
  BY <1>5, Product, DnsAssumption
<1>7. r + m <= size /\ full_reply_len(q) = na + r /\ na + r <= SizeLimit
  <2>1. full_reply_len(q) = na + r /\ na + r <= size
    BY <1>1, <1>2, <1>4, <1>6, ReceivedType
  <2>2. ~(full_reply_len(q) > SizeLimit)
    BY <1>1 DEF Refused, Unread
  <2> QED BY <2>1, <2>2, <1>6, DnsAssumption
<1>16. r + m <= size
  BY <1>7
<1>8. PICK buff \in Seq(Byte) : buff = loop.buff
  BY <1>3 DEF LoopOk, LoopState
<1>9. /\ loop.cur_question = L /\ a \in Seq(Byte) /\ Len(a) = m /\ Len(buff) = size
      /\ \A i \in 1..r : buff[i] = Received(q)[i]
      /\ \A i \in 1..m : buff[r + i] = a[i]
  BY <1>1, <1>2, <1>3, <1>4, <1>5, <1>6, <1>8, AskedType DEF LoopOk
<1> HIDE DEF loop
<1> DEFINE src == SubSeq(buff \o Junk(e), r + 1, r + e)
           w == Written(buff, src, L)
<1>10. src \in Seq(Byte) /\ Len(src) = e /\ \A i \in 1..e : i <= m => src[i] = a[i]
  <2>1. Junk(e) \in Seq(Byte) /\ Len(Junk(e)) = e
    BY JunkType
  <2> DEFINE long == buff \o Junk(e)
  <2>2. long \in Seq(Byte) /\ Len(long) = size + e /\ \A i \in 1..size : long[i] = buff[i]
    BY <1>9, <2>1, Joins
  <2> HIDE DEF long
  <2>3. \A i \in (r + 1)..(r + e) : long[i] \in Byte
    <3>1. \A i \in (r + 1)..(r + e) : i \in 1..(size + e)
      BY <1>16
    <3> QED BY <2>2, <3>1, ElementOfSeq
  <2>4. /\ src \in Seq(Byte) /\ Len(src) = IF r + 1 <= r + e THEN (r + e) - (r + 1) + 1 ELSE 0
        /\ \A i \in 1..((r + e) - (r + 1) + 1) : src[i] = long[(r + 1) + i - 1]
    <3>1. PICK lo \in Int, hi \in Int : lo = r + 1 /\ hi = r + e
      OBVIOUS
    <3>2. \A i \in lo..hi : long[i] \in Byte
      BY <2>3, <3>1
    <3>3. /\ SubSeq(long, lo, hi) \in Seq(Byte)
          /\ Len(SubSeq(long, lo, hi)) = IF lo <= hi THEN hi - lo + 1 ELSE 0
          /\ \A i \in 1..(hi - lo + 1) : SubSeq(long, lo, hi)[i] = long[lo + i - 1]
      BY <3>2, SubSeqProperties
    <3>4. src = SubSeq(long, lo, hi)
      BY <3>1 DEF long
    <3> HIDE DEF src
    <3> QED BY <3>1, <3>3, <3>4
  <2> HIDE DEF src
  <2>5. Len(src) = e
    BY <2>4
  <2>6. ASSUME NEW i \in 1..e, i <= m PROVE src[i] = a[i]
    <3>1. /\ i \in 1..((r + e) - (r + 1) + 1) /\ (r + 1) + i - 1 = r + i
          /\ r + i \in 1..size /\ i \in 1..m
      BY <2>6, <1>7
    <3> QED BY <3>1, <2>2, <2>4, <1>9
  <2> QED BY <2>4, <2>5, <2>6
<1> HIDE DEF src
<1>11. /\ w \in Seq(Byte) /\ Len(w) = size
       /\ \A i \in 1..size : w[i] = IF i \in (L + 1)..(L + e) THEN src[i - L] ELSE buff[i]
  <2>1. /\ w \in Seq(Byte) /\ Len(w) = Len(buff)
        /\ \A i \in 1..Len(buff) :
              w[i] = IF i \in (L + 1)..(L + Len(src)) THEN src[i - L] ELSE buff[i]
    BY <1>10, WrittenType
  <2> HIDE DEF w
  <2> QED BY <2>1, <1>9, <1>10
<1>12. Reply(q) = SubSeq(w, 1, m + L)
  <2>1. r - L = e /\ m + r - e = m + L
    BY <1>0
  <2>2. Reply(q) = SubSeq(Written(buff, SubSeq(buff \o Junk(r - L), r + 1, r + (r - L)), L),
                          1, m + r - (r - L))
    BY <1>4, <1>5, <1>6, <1>8, <1>9 DEF Reply, Moved, loop
  <2> QED BY <2>1, <2>2 DEF src
<1> HIDE DEF w
<1>13. /\ Reply(q) \in Seq(Byte) /\ Len(Reply(q)) = m + L
       /\ \A i \in 1..(m + L) : Reply(q)[i] = w[i]
  <2>1. \A i \in 1..(m + L) : i \in 1..size
    BY <1>0, <1>16
  <2>2. \A i \in 1..(m + L) : w[i] \in Byte
    BY <2>1, <1>11, ElementOfSeq
  <2>3. /\ SubSeq(w, 1, m + L) \in Seq(Byte)
        /\ Len(SubSeq(w, 1, m + L)) = IF 1 <= m + L THEN m + L - 1 + 1 ELSE 0
        /\ \A i \in 1..(m + L - 1 + 1) : SubSeq(w, 1, m + L)[i] = w[1 + i - 1]
    BY <2>2, SubSeqProperties
  <2> HIDE DEF w
  <2>4. ASSUME NEW i \in 1..(m + L) PROVE SubSeq(w, 1, m + L)[i] = w[i]
    <3>1. i \in 1..(m + L - 1 + 1) /\ 1 + i - 1 = i
      OBVIOUS
    <3> QED BY <2>3, <3>1
  <2>5. Len(SubSeq(w, 1, m + L)) = m + L
    BY <2>3
  <2> QED BY <2>3, <2>4, <2>5, <1>12
<1>14. q \in Fitting
  <2>1. AnswerCount(q) * AnswerLen = m
    BY <1>5, <1>6 DEF AnswerCount, loop
  <2>2. m <= na /\ na + r <= SizeLimit
    BY <1>6, <1>7
  <2>4. m + L <= SizeLimit /\ r + m <= size
    BY <2>2, <1>0, <1>16, DnsAssumption
  <2>3. req_size(q) + AnswerCount(q) * AnswerLen <= Len(Received(q)) /\ Len(Reply(q)) <= SizeLimit
    BY <2>1, <2>4, <1>4, <1>13
  <2> QED BY <2>3 DEF Fitting
<1>15. ASSUME q \in LongCut PROVE q \in WellAnswered
  <2>1. e = 0 \/ e >= m
    BY <1>4, <1>5, <1>6, <1>15 DEF LongCut, AnswerCount, loop
  <2>2. Asked(q) \in Seq(Byte)
    BY <1>1, <1>2, AskedType
  <2>3. /\ Expected(q) \in Seq(Byte) /\ Len(Expected(q)) = L + m
        /\ \A i \in 1..L : Expected(q)[i] = Asked(q)[i]
        /\ \A i \in (L + 1)..(L + m) : Expected(q)[i] = a[i - L]
    <3>1. Len(Asked(q)) = L /\ a \in Seq(Byte) /\ Len(a) = m /\ Expected(q) = Asked(q) \o a
      BY <1>3, <1>4, <1>9
    <3> DEFINE x == Asked(q)
    <3>2. x \in Seq(Byte) /\ Len(x) = L /\ a \in Seq(Byte) /\ Len(a) = m
      BY <3>1, <2>2
    <3> HIDE DEF x
    <3>3. /\ x \o a \in Seq(Byte) /\ Len(x \o a) = L + m
          /\ \A i \in 1..L : (x \o a)[i] = x[i]
      BY <3>2, Joins
    <3>4. ASSUME NEW i \in (L + 1)..(L + m) PROVE (x \o a)[i] = a[i - L]
      <4>1. i \in 1..(Len(x) + Len(a)) /\ ~(i <= Len(x))
        BY <3>2
      <4>2. (x \o a)[i] = a[i - Len(x)]
        BY <3>2, <4>1, ConcatProperties
      <4> QED BY <3>2, <4>2
    <3> QED BY <3>1, <3>3, <3>4 DEF x
  <2>4. ASSUME NEW i \in 1..(L + m) PROVE Reply(q)[i] = Expected(q)[i]
    <3>1. i \in 1..size /\ i \in 1..(m + L)
      BY <1>0, <1>16
    <3>2. Reply(q)[i] = w[i]
      BY <1>13, <3>1
    <3>3. CASE i <= L
      <4>1. i \in 1..L /\ i \in 1..r /\ i \notin (L + 1)..(L + e)
        BY <1>0, <3>3
      <4>2. w[i] = buff[i] /\ buff[i] = Received(q)[i]
        BY <1>9, <1>11, <3>1, <4>1
      <4>3. Received(q)[i] = Asked(q)[i]
        BY <1>1, <1>2, <1>4, <4>1, ReceivedType
      <4> QED BY <2>3, <3>2, <4>1, <4>2, <4>3
    <3>4. CASE ~(i <= L)
      <4>1. i \in (L + 1)..(L + m) /\ i - L \in 1..m /\ i - L <= m
        BY <3>4
      <4>2. CASE e = 0
        <5>1. i \notin (L + 1)..(L + e) /\ r + (i - L) = i
          BY <1>0, <4>2
        <5> QED BY <1>9, <1>11, <2>3, <3>1, <3>2, <4>1, <5>1
      <4>3. CASE e >= m
        <5>1. i \in (L + 1)..(L + e) /\ i - L \in 1..e
          BY <4>1, <4>3
        <5> QED BY <1>10, <1>11, <2>3, <3>1, <3>2, <4>1, <5>1
      <4> QED BY <2>1, <4>2, <4>3
    <3> QED BY <3>3, <3>4
  <2>5. Len(Reply(q)) = L + m
    BY <1>13
  <2>6. Reply(q) = Expected(q)
    BY <1>13, <2>3, <2>4, <2>5, SeqEqual
  <2> QED BY <2>6 DEF WellAnswered
<1> QED BY <1>14, <1>15

\* Questions stand one behind the other, so what is left of the query where one begins
\* holds all of it.
LEMMA QuestionIsThere ==
    ASSUME NEW q \in Understood, NEW k \in 1..Len(q.questions)
    PROVE  /\ req_size(q) - Offset(q, k) \in Int
           /\ QuestionLen(q.questions[k]) <= req_size(q) - Offset(q, k)
<1>1. PICK N \in Nat : N = Len(q.questions)
  BY QueryType
<1>2. PICK f \in [0..N -> Nat] :
           /\ f[0] = HeaderLen /\ \A n \in 1..N : f[n] = f[n - 1] + QuestionLen(q.questions[n])
           /\ \A j \in 1..(N + 1) : Offset(q, j) = f[j - 1]
  BY <1>1, Offsets
<1>3. \A n \in 1..N : /\ QuestionLen(q.questions[n]) \in Nat /\ n \in 0..N /\ n - 1 \in 0..N
                       /\ f[n] \in Nat /\ f[n - 1] \in Nat
  <2> TAKE n \in 1..N
  <2>1. n \in 0..N /\ n - 1 \in 0..N
    OBVIOUS
  <2>2. QuestionLen(q.questions[n]) \in Nat
    BY <1>1, QueryType
  <2> QED BY <2>1, <2>2
<1> DEFINE A == {n \in 0..N : n >= k => f[n] >= f[k]}
<1>4. 0 \in A
  BY <1>1
<1>5. ASSUME NEW n \in 1..N, n - 1 \in A PROVE n \in A
  <2>1. n - 1 >= k => f[n - 1] >= f[k]
    BY <1>5
  <2>2. f[n] >= f[n - 1] /\ f[k] \in Nat /\ n \in 0..N
    <3>1. PICK l \in Nat : l = QuestionLen(q.questions[n])
      BY <1>3
    <3>2. f[n] = f[n - 1] + l
      BY <1>2, <3>1
    <3> QED BY <1>1, <1>3, <3>2
  <2>3. n >= k => f[n] >= f[k]
    BY <2>1, <2>2, <1>1, <1>3
  <2> QED BY <2>2, <2>3
<1> HIDE DEF A
<1>6. \A n \in 0..N : n \in A
  BY <1>4, <1>5, UpTo
<1>7. f[N] >= f[k]
  <2>1. N \in A /\ N >= k
    BY <1>1, <1>6
  <2> QED BY <2>1 DEF A
<1>8. req_size(q) \in Nat /\ req_size(q) >= f[N]
  <2>1. PICK L \in Nat, e \in Nat : L = Offset(q, N + 1) /\ e = q.extra /\ req_size(q) = L + e
    BY <1>1, AskedType, QueryType DEF req_size
  <2>2. Offset(q, N + 1) = f[N]
    BY <1>2
  <2> QED BY <2>1, <2>2
<1>9. /\ Offset(q, k) = f[k - 1] /\ f[k - 1] \in Nat /\ f[k] \in Nat /\ f[N] \in Nat
      /\ f[k] = f[k - 1] + QuestionLen(q.questions[k]) /\ QuestionLen(q.questions[k]) \in Nat
  <2>1. k \in 1..N /\ k \in 1..(N + 1) /\ N \in 0..N
    BY <1>1
  <2> QED BY <2>1, <1>2, <1>3
<1> QED BY <1>7, <1>8, <1>9

LEMMA MinOfTwo ==
    ASSUME NEW a \in Int, NEW b \in Int
    PROVE  Min({a, b}) = IF a <= b THEN a ELSE b
<1> DEFINE m == IF a <= b THEN a ELSE b
<1>1. m \in {a, b} /\ \A y \in {a, b} : m <= y
  OBVIOUS
<1>2. \A x \in {a, b} : (\A y \in {a, b} : x <= y) => x = m
  OBVIOUS
<1> HIDE DEF m
<1>3. Min({a, b}) = m
  BY <1>1, <1>2 DEF Min
<1> QED BY <1>3 DEF m

\* A label copied too far has its dot just behind the buffer, or comes after one that has:
\* a name never takes all that is left of its query, so nothing else brings maxlen below 0.
LEMMA OverrunIs == (Overrun \ Astray) \subseteq DotBehind
<1> SUFFICES ASSUME NEW q \in Understood, q \in Overrun PROVE q \in DotBehind
  BY DEF Understood, Overrun
<1>1. PICK k \in DOMAIN q.questions : NameSpills(q, k)
  BY DEF Overrun
<1>2. k \in 1..Len(q.questions) /\ q.questions[k] \in Question
  BY <1>1, QueryType
<1>3. PICK ends \in Seq(Nat) : ends = q.questions[k].ends
  BY <1>2 DEF Question
<1>4. PICK i \in DOMAIN ends : LabelPasses(q, k, i) /\ ends[i] > NameLimit
  <2>1. PICK i \in LabelsCopied(q, k) : ends[i] > NameLimit
    BY <1>1, <1>3 DEF NameSpills
  <2>2. i \in DOMAIN ends /\ i \in 1..i /\ \A h \in 1..i : LabelPasses(q, k, h)
    BY <2>1, <1>3 DEF LabelsCopied
  <2> QED BY <2>1, <2>2
<1>5. PICK n \in Nat : n = Len(ends) /\ DOMAIN ends = 1..n /\ \A h \in 1..n : ends[h] \in Nat
  BY <1>3, LenProperties, ElementOfSeq
<1>6. PICK rest \in Int : rest = req_size(q) - Offset(q, k) /\ QuestionLen(q.questions[k]) <= rest
  BY <1>2, QuestionIsThere
<1>7. NameLimit \in Nat
  BY DnsAssumption
<1>8. maxlen(q, k) = IF NameLimit <= rest THEN NameLimit ELSE rest
  BY <1>6, <1>7, MinOfTwo DEF maxlen
<1>9. \A h \in 1..n : ends[h] + 5 <= rest
  <2> TAKE h \in 1..n
  <2>1. ends[h] <= ends[n]
    <3>1. q \in Queries
      BY DEF Understood
    <3>2. h < n => ends[h] < ends[n]
      BY <1>1, <1>3, <1>5, <3>1, DnsAssumption
    <3> QED BY <1>5, <3>2
  <2>2. ends # <<>>
    BY <1>5
  <2>3. QuestionLen(q.questions[k]) = 5 + ends[n]
    BY <1>3, <1>5, <2>2 DEF QuestionLen
  <2> QED BY <1>5, <1>6, <2>1, <2>3
<1>10. \/ ends[i] - 1 <= maxlen(q, k)
       \/ \E h \in 1..(i - 1) : ends[h] = maxlen(q, k) + 1
  BY <1>3, <1>4 DEF LabelPasses
<1>11. \E h \in 1..n : ends[h] = NameLimit + 1
  <2>1. CASE ends[i] - 1 <= maxlen(q, k)
    <3>1. ends[i] \in Nat /\ i \in 1..n
      BY <1>4, <1>5
    <3>2. ends[i] = NameLimit + 1
      BY <1>4, <1>6, <1>7, <1>8, <2>1, <3>1
    <3> QED BY <3>1, <3>2
  <2>2. ASSUME NEW h \in 1..(i - 1), ends[h] = maxlen(q, k) + 1 PROVE ends[h] = NameLimit + 1
    <3>1. h \in 1..n /\ ends[h] \in Nat /\ ends[h] + 5 <= rest
      BY <1>4, <1>5, <1>9
    <3> QED BY <1>6, <1>7, <1>8, <2>2, <3>1
  <2>3. \A h \in 1..(i - 1) : h \in 1..n
    BY <1>4, <1>5
  <2> QED BY <1>10, <2>1, <2>2, <2>3
<1> QED BY <1>1, <1>3, <1>5, <1>11 DEF DotBehind, Understood

\* For every query of any number of questions of any length that claims no more than came:
\* a name leaves parseDnsName's buffer only by a dot just behind it, and if none does, the
\* answers stay inside the task's buffer, the reply inside the limit, and it is the query
\* with an answer to each question of type A, unless less is cut out than answers move into
\* its place (rbdns.cpp 146-262).
THEOREM RepliesAreRight == Spec => []RepliesAreSound
<1> DEFINE I == /\ answered # NoReply => answered.content \in Queries
                /\ answered # NoReply /\ answered.replied => answered.content \in Accepted
<1>1. Init => I
  BY DEF Init
<1>2. I /\ [Next]_vars => I'
  <2> SUFFICES ASSUME I, [Next]_vars PROVE I'
    OBVIOUS
  <2>1. ASSUME NEW g \in Generations, Answer(g) \/ Panics(g) PROVE I'
    <3>1. ASSUME NEW q \in Queries, Answers(g, q, FALSE) PROVE I'
      BY <3>1 DEF Answers
    <3>2. ASSUME NEW q \in Accepted, Answers(g, q, TRUE) PROVE I'
      BY <3>2 DEF Answers, Accepted
    <3>3. Astray \cup Overrun \subseteq Queries
      BY DEF Astray, Overrun
    <3> QED BY <2>1, <3>1, <3>2, <3>3 DEF Answer, Panics
  <2>2. CASE Quiet
    BY <2>2 DEF Quiet
  <2>3. CASE UNCHANGED vars
    BY <2>3 DEF vars, NoReply
  <2>4. ASSUME NEW g \in Generations, TaskStep(g) PROVE Quiet \/ Answer(g) \/ Panics(g)
    BY <2>4 DEF TaskStep, SeesClosed, Peek, Pop
  <2>5. Start \/ StartShort \/ StartFails \/ Stop \/ (\E p \in Peers : Arrives(p)) => Quiet
    BY DEF Start, StartShort, StartFails, Stop, Arrives
  <2> QED BY <2>1, <2>2, <2>3, <2>4, <2>5 DEF Next
<1>3. I => RepliesAreSound
  BY ReplyIs, OverrunIs DEF RepliesAreSound
<1> QED BY <1>1, <1>2, <1>3, PTL DEF Spec
=============================================================================
