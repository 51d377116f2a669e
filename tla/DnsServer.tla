----------------------------- MODULE DnsServer -----------------------------
(***************************************************************************)
(* DnsServer of rbdns.cpp: start() and stop(), and the task that peeks at  *)
(* a query, takes it off the socket for its sender's address, and answers. *)
(* stop() neither waits for the task nor tells it anything but the closed  *)
(* socket: the task finds out at its next call on m_socket, at most 30 ms  *)
(* later.  A start() in between puts a second task on the new socket.      *)
(* The replies are those of DnsReply.                                      *)
(***************************************************************************)
EXTENDS DnsReply

CONSTANTS
    Peers,        \* who asks
    InboxCap,     \* datagrams lwIP keeps for the socket
    MaxStarts     \* bound: tasks created

ASSUME DnsServerAssumption == InboxCap \in Nat \ {0} /\ MaxStarts \in Nat

VARIABLES
    m_socket, m_task,   \* FALSE and 0 for -1 and nullptr
    bound,              \* a socket is bound to port 53
    inbox,              \* who asked the queries that wait in it
    task,               \* each task: what it does, the query it saw and whom it answers
    starts,
    short,              \* history: xTaskCreate failed once
    overlap,            \* history: a socket was opened while an older task lived
    answered            \* the query this step was answering: whose, to whom, which, and
                        \* whether a reply was sent

vars == <<m_socket, m_task, bound, inbox, task, starts, short, overlap, answered>>

Generations == 1..MaxStarts
Nobody == "nobody"
Idle(pc) == [pc |-> pc, query |-> Nobody, to |-> Nobody]
NoReply == [query |-> Nobody, to |-> Nobody]
Quiet == answered' = NoReply
Live == {g \in Generations : task[g].pc \notin {"none", "gone"}}

Init ==
    /\ m_socket = FALSE /\ m_task = 0 /\ bound = FALSE /\ inbox = <<>>
    /\ task = [g \in Generations |-> Idle("none")]
    /\ starts = 0 /\ short = FALSE /\ overlap = FALSE
    /\ answered = NoReply

-----------------------------------------------------------------------------
Start ==
    /\ m_task = 0 /\ ~bound /\ starts < MaxStarts
    /\ starts' = starts + 1 /\ m_task' = starts'
    /\ m_socket' = TRUE /\ bound' = TRUE
    /\ task' = [task EXCEPT ![starts'] = Idle("peek")]
    /\ overlap' = (overlap \/ Live # {})
    /\ UNCHANGED <<inbox, short>>
    /\ Quiet

\* nobody looks at the result of xTaskCreate: the socket stays
StartShort ==
    /\ m_task = 0 /\ ~bound
    /\ m_socket' = TRUE /\ bound' = TRUE /\ short' = TRUE
    /\ overlap' = (overlap \/ Live # {})
    /\ UNCHANGED <<m_task, inbox, task, starts>>
    /\ Quiet

\* no socket, or the port is taken
StartFails ==
    /\ m_task = 0
    /\ m_socket' = FALSE
    /\ UNCHANGED <<m_task, bound, inbox, task, starts, short, overlap>>
    /\ Quiet

\* Mutant: the socket outlives stop().
Stop_KeepsSocket ==
    /\ m_task # 0
    /\ m_socket' = FALSE /\ m_task' = 0
    /\ UNCHANGED <<bound, inbox, task, starts, short, overlap>>
    /\ Quiet

Stop ==
    /\ m_task # 0
    /\ m_socket' = FALSE /\ m_task' = 0
    /\ bound' = FALSE /\ inbox' = <<>>
    /\ UNCHANGED <<task, starts, short, overlap>>
    /\ Quiet

Arrives(p) ==
    /\ bound
    /\ inbox' = IF Len(inbox) < InboxCap THEN Append(inbox, p) ELSE inbox
    /\ UNCHANGED <<m_socket, m_task, bound, task, starts, short, overlap>>
    /\ Quiet

-----------------------------------------------------------------------------
Becomes(g, t) == task' = [task EXCEPT ![g] = t]

\* Mutant: EBADF is an error like any other.
SeesClosed_Retries(g) == FALSE

\* EBADF at any call ends the task
SeesClosed(g) ==
    /\ g \in Live /\ ~m_socket
    /\ Becomes(g, Idle("gone"))
    /\ UNCHANGED <<m_socket, m_task, bound, inbox, starts, short, overlap>>
    /\ Quiet

\* Mutant: the first call takes the datagram off the socket.
Peek_Consumes(g) ==
    /\ task[g].pc = "peek" /\ m_socket /\ inbox # <<>>
    /\ Becomes(g, [pc |-> "pop", query |-> Head(inbox), to |-> Nobody])
    /\ inbox' = Tail(inbox)
    /\ UNCHANGED <<m_socket, m_task, bound, starts, short, overlap>>
    /\ Quiet

Peek(g) ==
    /\ task[g].pc = "peek" /\ m_socket /\ inbox # <<>>
    /\ Becomes(g, [pc |-> "pop", query |-> Head(inbox), to |-> Nobody])
    /\ UNCHANGED <<m_socket, m_task, bound, inbox, starts, short, overlap>>
    /\ Quiet

\* Mutant: the second call peeks as well.
Pop_Peeks(g) ==
    /\ task[g].pc = "pop" /\ m_socket
    /\ Becomes(g, IF inbox = <<>> THEN Idle("peek")
                  ELSE [task[g] EXCEPT !.pc = "answer", !.to = Head(inbox)])
    /\ UNCHANGED <<m_socket, m_task, bound, inbox, starts, short, overlap>>
    /\ Quiet

\* the address comes with this second call, which takes nothing but the address
Pop(g) ==
    /\ task[g].pc = "pop" /\ m_socket
    /\ inbox' = IF inbox = <<>> THEN inbox ELSE Tail(inbox)
    /\ Becomes(g, IF inbox = <<>> THEN Idle("peek")
                  ELSE [task[g] EXCEPT !.pc = "answer", !.to = Head(inbox)])
    /\ UNCHANGED <<m_socket, m_task, bound, starts, short, overlap>>
    /\ Quiet

Answers(g, q, replied) ==
    answered' = [query |-> task[g].query, to |-> task[g].to, content |-> q, replied |-> replied]

\* what is in the buffer matters only now; sendto may fail whatever it is
Answer(g) ==
    /\ task[g].pc = "answer" /\ m_socket
    /\ \/ \E q \in Queries : Answers(g, q, FALSE)
       \/ \E q \in Accepted : Answers(g, q, TRUE)
    /\ Becomes(g, Idle("peek"))
    /\ UNCHANGED <<m_socket, m_task, bound, inbox, starts, short, overlap>>

\* what was written outside a buffer may end in a panic, and the chip starts anew
Panics(g) ==
    /\ task[g].pc = "answer" /\ m_socket
    /\ \E q \in Astray \cup Overrun : Answers(g, q, FALSE)
    /\ m_socket' = FALSE /\ m_task' = 0 /\ bound' = FALSE /\ inbox' = <<>>
    /\ task' = [h \in Generations |-> Idle("gone")]
    /\ UNCHANGED <<starts, short, overlap>>

TaskStep(g) == SeesClosed(g) \/ Peek(g) \/ Pop(g) \/ Answer(g) \/ Panics(g)

Next == \/ Start \/ StartShort \/ StartFails \/ Stop
        \/ \E p \in Peers : Arrives(p)
        \/ \E g \in Generations : TaskStep(g)

Spec == Init /\ [][Next]_vars

FairSpec == Spec /\ \A g \in Generations : WF_vars(TaskStep(g))

-----------------------------------------------------------------------------
TypeOK ==
    /\ m_socket \in BOOLEAN /\ m_task \in {0} \cup Generations /\ bound \in BOOLEAN
    /\ inbox \in Seq(Peers) /\ Len(inbox) <= InboxCap
    /\ task \in [Generations -> [pc : {"none", "peek", "pop", "answer", "gone"},
                                 query : Peers \cup {Nobody}, to : Peers \cup {Nobody}]]
    /\ starts \in 0..MaxStarts /\ short \in BOOLEAN /\ overlap \in BOOLEAN

\* A server with a task has its socket, and the socket is bound; without one the port is
\* free for the next start(), unless the task could not be created (rbdns.cpp 57-101).
PortFollowsTask ==
    /\ TypeOK
    /\ m_task # 0 => m_socket /\ bound
    /\ m_task = 0 => ~bound \/ short

\* A reply goes to the peer whose query it answers, although the query and its sender
\* come from two calls, unless an older task lived when the socket was opened (rbdns.cpp
\* 103-144, 265-300).
AnswersReachTheAsker == ~overlap => answered.query = answered.to

\* No answer is written behind the task's buffer, no reply is longer than the limit, and
\* a reply is the header, the questions and one answer per question of type A, in order,
\* each pointing to its question, unless the records cut out are shorter than the answers
\* that move into their place.  A name is copied past parseDnsName's buffer only if the
\* dot of a label is the first byte that does not fit.  Nothing is said of queries that
\* claim more than came, nor of the reply after such a copy (rbdns.cpp 146-262).
RepliesAreSound ==
    answered # NoReply /\ answered.content \notin Astray =>
        IF answered.content \in Overrun THEN answered.content \in DotBehind
        ELSE answered.replied =>
                /\ answered.content \in Fitting
                /\ answered.content \in LongCut => answered.content \in WellAnswered

\* Records behind the questions are dropped and nothing else is: what the comment in
\* rbdns.cpp 254 says.
ExtraDropped ==
    answered # NoReply /\ answered.replied /\ answered.content \notin Astray \cup Overrun =>
        answered.content \in WellAnswered

\* Stopped and not started again, the server has no task left in the end, wherever
\* stop() caught it (rbdns.cpp 92-101, 115-117, 279-298).
EndsForGood == m_task = 0 ~> m_task # 0 \/ Live = {} \/ short

\* The socket does not stay full: also what cannot be answered is taken off it
\* (rbdns.cpp 103-144).
Drains == Len(inbox) = InboxCap ~> Len(inbox) < InboxCap \/ short
=============================================================================
