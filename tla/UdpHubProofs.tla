----------------------------- MODULE UdpHubProofs -----------------------------
(***************************************************************************)
(* Theorems about the UDP sockets and their callbacks, for every set of    *)
(* ports, descriptors and datagrams and any number of callbacks.           *)
(***************************************************************************)
EXTENDS UdpHub, Integers, SequenceTheorems, WellFoundedInduction, TLAPS

-----------------------------------------------------------------------------
(* The iterator.                                                             *)

\* Naturals have a least element.
LEMMA LeastElement ==
    ASSUME NEW T \in SUBSET Nat, T # {}
    PROVE  \E x \in T : \A y \in T : x <= y
<1> DEFINE R == {ss \in Nat \X Nat : ss[1] < ss[2]}
<1>1. R = OpToRel(<, Nat)
  BY DEF OpToRel
<1>2. IsWellFoundedOn(R, Nat)
  BY <1>1, NatLessThanWellFounded, Zenon
<1> HIDE DEF R
<1>3. PICK x \in T : \A y \in T : ~ (<<y, x>> \in R)
  BY <1>2, WFMin
<1>4. ASSUME NEW y \in T PROVE x <= y
  <2>1. <<y, x>> \in Nat \X Nat /\ <<y, x>> \notin R
    BY <1>3
  <2>2. ~(y < x)
    BY <2>1 DEF R
  <2> QED BY <2>2
<1> QED BY <1>3, <1>4

-----------------------------------------------------------------------------
(* The sockets.                                                              *)

InRound == {"read", "pop", "bad", "reopen"}

\* Handles that were not given out yet; the round is at a port that is in the map; and
\* only a descriptor in the map can be somebody else's.
RoundInv == /\ \A h \in Handles : h > m_callback_id_counter => m_callbacks[h] = 0
            /\ pc \in InRound => m_open_sockets[port] # NotOpen
            /\ pc = "reopen" => port \in stray
            /\ \A p \in stray : m_open_sockets[p] # NotOpen

HubInv == SocketsMatchCallbacks /\ RoundInv

LEMMA Numbers == /\ \A p \in Ports : p \in Nat /\ p # 0
                 /\ \A fd \in Fds : fd \in Nat /\ fd # -1 /\ fd # NotOpen
                 /\ Free \notin Ports /\ Others \notin Ports /\ Free # Others /\ NotOpen # -1
BY UdpAssumption DEF NotOpen, Free, Others

LEMMA AdvanceRound ==
    ASSUME Advance
    PROVE  /\ port' \in Ports \cup {0} /\ pc' \in {"sleep", "read"}
           /\ port' = 0 <=> pc' = "sleep"
           /\ pc' = "read" => m_open_sockets[port'] # NotOpen
<1>1. Next_port(port) \in Ports \cup {0} /\ (Next_port(port) # 0 => Next_port(port) \in After(port))
  <2>1. CASE After(port) = {}
    BY <2>1 DEF Next_port
  <2>2. CASE After(port) # {}
    <3>1. After(port) \in SUBSET Nat /\ After(port) \subseteq Ports
      BY UdpAssumption DEF After
    <3>2. \E q \in After(port) : \A r \in After(port) : q <= r
      BY <2>2, <3>1, LeastElement
    <3>3. Next_port(port) = CHOOSE q \in After(port) : \A r \in After(port) : q <= r
      BY <2>2 DEF Next_port
    <3> QED BY <3>1, <3>2, <3>3
  <2> QED BY <2>1, <2>2
<1> QED BY <1>1 DEF Advance, After

LEMMA InitHub == Init => HubInv
<1> SUFFICES ASSUME Init PROVE HubInv
  OBVIOUS
<1>1. m_callback_id_counter \in 0..MaxHandles
  BY UdpAssumption DEF Init
<1>2. got \in [Datagrams -> Seq(Handles)] /\ inbox \in [Fds -> Seq(Datagrams)]
  BY DEF Init
<1>3. /\ m_open_sockets = [p \in Ports |-> NotOpen] /\ bound = [fd \in Fds |-> Free]
      /\ sent_to = [d \in Datagrams |-> Others] /\ stray = {} /\ leaked = {}
      /\ m_callbacks = [h \in Handles |-> 0]
  BY DEF Init
<1>4. TypeOK
  BY <1>1, <1>2, <1>3, Numbers DEF Init, TypeOK, MutexFree
<1>5. \A p \in Ports : Registered(p) = {}
  BY <1>3, Numbers DEF Registered
<1>6. RoundInv
  BY <1>3 DEF Init, RoundInv, InRound
<1> QED BY <1>3, <1>4, <1>5, <1>6, Numbers DEF HubInv, SocketsMatchCallbacks

LEMMA RegisterHub ==
    ASSUME HubInv, NEW p \in Ports, onReceive(p)
    PROVE  HubInv'
<1> USE DEF HubInv, SocketsMatchCallbacks, RoundInv
<1> DEFINE n == m_callback_id_counter + 1
<1>1. n \in Handles /\ m_callback_id_counter' = n /\ m_callbacks[n] = 0 /\ n \in 0..MaxHandles
  BY UdpAssumption DEF onReceive, TypeOK, Handles
<1> HIDE DEF n
<1>2. m_callbacks' = [m_callbacks EXCEPT ![n] = p] /\ m_callbacks \in [Handles -> Ports \cup {0}]
  BY <1>1 DEF onReceive, TypeOK
<1>3. /\ \A h \in Handles : m_callbacks'[h] = IF h = n THEN p ELSE m_callbacks[h]
      /\ m_callbacks' \in [Handles -> Ports \cup {0}]
  BY <1>1, <1>2
<1>4. /\ port = 0 /\ port' = 0 /\ pc' \in {"none", "sleep"} /\ pc \in {"none", "sleep"}
      /\ UNCHANGED <<inbox, stray, leaked, buf, todo, got, fresh, sent_to>>
  BY DEF onReceive, data, TypeOK, MutexFree
<1>5. \A q \in Ports : q # p => Registered(q)' = Registered(q)
  <2>1. ASSUME NEW q \in Ports, q # p, NEW k \in Handles
        PROVE  m_callbacks'[k] = q <=> m_callbacks[k] = q
    BY <1>1, <1>3, <2>1, Numbers
  <2> QED BY <2>1 DEF Registered
<1>6. n \in Registered(p)'
  BY <1>1, <1>3 DEF Registered
<1>7. /\ m_open_sockets' \in [Ports -> Fds \cup {-1, NotOpen}]
      /\ bound' \in [Fds -> Ports \cup {Free, Others}]
      /\ \A q \in Ports : m_open_sockets'[q] # -1
      /\ m_open_sockets'[p] # NotOpen
      /\ \A q \in Ports : q # p => m_open_sockets'[q] = m_open_sockets[q]
      /\ \A q \in Ports : (m_open_sockets'[q] # NotOpen /\ q \notin stray)
            => m_open_sockets'[q] \in Fds /\ bound'[m_open_sockets'[q]] = q
      /\ \A fd \in Fds : bound'[fd] \in Ports =>
            \/ fd \in leaked
            \/ m_open_sockets'[bound'[fd]] = fd /\ bound'[fd] \notin stray
  <2>0. /\ m_open_sockets \in [Ports -> Fds \cup {-1, NotOpen}]
        /\ bound \in [Fds -> Ports \cup {Free, Others}]
        /\ \A q \in Ports : m_open_sockets[q] # -1
    BY <1>4 DEF TypeOK
  <2>1. CASE Shared(p)
    <3>1. UNCHANGED <<m_open_sockets, bound>> /\ m_open_sockets[p] # NotOpen
      BY <2>1 DEF onReceive, Shared
    <3> QED BY <2>0, <3>1
  <2>2. CASE ~Shared(p)
    <3>1. PICK fd \in Fds : Opens(fd, p) /\ m_open_sockets' = [m_open_sockets EXCEPT ![p] = fd]
      BY <2>2 DEF onReceive
    <3>2. m_open_sockets[p] = NotOpen /\ p \notin stray
      BY <2>2 DEF Shared
    <3>3. /\ \A q \in Ports : m_open_sockets'[q] = IF q = p THEN fd ELSE m_open_sockets[q]
          /\ m_open_sockets' \in [Ports -> Fds \cup {-1, NotOpen}]
      BY <2>0, <3>1
    <3>4. /\ bound[fd] = Free /\ \A f \in Fds : bound'[f] = IF f = fd THEN p ELSE bound[f]
          /\ bound' \in [Fds -> Ports \cup {Free, Others}]
      BY <2>0, <3>1 DEF Opens
    <3>5. \A q \in Ports : (q # p /\ m_open_sockets[q] # NotOpen /\ q \notin stray)
             => m_open_sockets[q] \in Fds /\ m_open_sockets[q] # fd
      BY <3>4, Numbers
    <3>6. \A f \in Fds : f # fd /\ bound[f] = p => f \in leaked
      BY <3>2, Numbers
    <3> QED BY <2>0, <3>2, <3>3, <3>4, <3>5, <3>6, Numbers
  <2> QED BY <2>1, <2>2
<1>8. TypeOK'
  BY <1>1, <1>3, <1>4, <1>7 DEF TypeOK, MutexFree
<1>9. \A q \in Ports : m_open_sockets'[q] = NotOpen <=> Registered(q)' = {}
  BY <1>5, <1>6, <1>7
<1>10. \A h \in Handles : h > n => m_callbacks'[h] = 0
  BY <1>1, <1>3 DEF Handles, TypeOK, n
<1>11. \A q \in stray : m_open_sockets'[q] # NotOpen
  BY <1>7 DEF TypeOK
<1> QED BY <1>1, <1>4, <1>7, <1>8, <1>9, <1>10, <1>11 DEF InRound

\* The map entry is gone; whatever close() got, the rest of the map is right or stray.
LEMMA EraseHub ==
    ASSUME HubInv, MutexFree, NEW p \in Ports, m_open_sockets[p] # NotOpen, CloseErased(p)
    PROVE  /\ m_open_sockets' \in [Ports -> Fds \cup {-1, NotOpen}]
           /\ bound' \in [Fds -> Ports \cup {Free, Others}] /\ inbox' \in [Fds -> Seq(Datagrams)]
           /\ stray' \subseteq Ports /\ leaked' \subseteq Fds
           /\ m_open_sockets'[p] = NotOpen
           /\ \A q \in Ports : q # p => m_open_sockets'[q] = m_open_sockets[q]
           /\ \A q \in stray' : m_open_sockets'[q] # NotOpen
           /\ \A q \in Ports : (m_open_sockets'[q] # NotOpen /\ q \notin stray')
                 => m_open_sockets'[q] \in Fds /\ bound'[m_open_sockets'[q]] = q
           /\ \A fd \in Fds : bound'[fd] \in Ports =>
                 \/ fd \in leaked'
                 \/ m_open_sockets'[bound'[fd]] = fd /\ bound'[fd] \notin stray'
<1> USE DEF HubInv, SocketsMatchCallbacks, RoundInv
<1>0. /\ m_open_sockets \in [Ports -> Fds \cup {-1, NotOpen}]
      /\ bound \in [Fds -> Ports \cup {Free, Others}] /\ inbox \in [Fds -> Seq(Datagrams)]
      /\ stray \subseteq Ports /\ leaked \subseteq Fds
  BY DEF TypeOK
<1>1. PICK victim \in Fds \cup {-1} :
         /\ Closes(victim, IF p \in stray THEN {} ELSE {m_open_sockets[p]})
         /\ stray' = (stray \ {p}) \cup {q \in Ports \ {p} : m_open_sockets[q] = victim}
  BY DEF CloseErased
<1>2. /\ m_open_sockets' \in [Ports -> Fds \cup {-1, NotOpen}]
      /\ \A q \in Ports : m_open_sockets'[q] = IF q = p THEN NotOpen ELSE m_open_sockets[q]
  BY <1>0 DEF CloseErased
<1>3. /\ bound' = [f \in Fds |-> IF f = victim THEN Free ELSE bound[f]]
      /\ inbox' = [f \in Fds |-> IF f = victim THEN <<>> ELSE inbox[f]]
      /\ leaked' = (leaked \cup IF p \in stray THEN {} ELSE {m_open_sockets[p]}) \ {victim}
  BY <1>1 DEF Closes
<1>4. /\ bound' \in [Fds -> Ports \cup {Free, Others}] /\ inbox' \in [Fds -> Seq(Datagrams)]
      /\ \A f \in Fds : bound'[f] = IF f = victim THEN Free ELSE bound[f]
  <2>1. <<>> \in Seq(Datagrams)
    OBVIOUS
  <2> QED BY <1>0, <1>3, <2>1
<1>5. stray' \subseteq Ports /\ \A q \in stray' : m_open_sockets'[q] # NotOpen
  BY <1>0, <1>1, <1>2, Numbers
<1>6. leaked' \subseteq Fds /\ (p \notin stray => m_open_sockets[p] \in Fds)
  <2>1. p \notin stray => m_open_sockets[p] \in Fds
    OBVIOUS
  <2> QED BY <1>0, <1>3, <2>1
<1>7. ASSUME NEW q \in Ports, m_open_sockets'[q] # NotOpen, q \notin stray'
      PROVE  m_open_sockets'[q] \in Fds /\ bound'[m_open_sockets'[q]] = q
  <2>1. q # p /\ q \notin stray /\ m_open_sockets[q] # victim
          /\ m_open_sockets'[q] = m_open_sockets[q]
    BY <1>1, <1>2, <1>7
  <2> QED BY <1>4, <1>7, <2>1
<1>8. ASSUME NEW fd \in Fds, bound'[fd] \in Ports
      PROVE  fd \in leaked' \/ (m_open_sockets'[bound'[fd]] = fd /\ bound'[fd] \notin stray')
  <2>1. fd # victim /\ bound'[fd] = bound[fd] /\ bound[fd] \in Ports
    BY <1>4, <1>8, Numbers
  <2>2. CASE fd \in leaked
    BY <1>3, <2>1, <2>2
  <2>3. CASE m_open_sockets[bound[fd]] = fd /\ bound[fd] \notin stray /\ bound[fd] = p
    BY <1>3, <2>1, <2>3
  <2>4. CASE m_open_sockets[bound[fd]] = fd /\ bound[fd] \notin stray /\ bound[fd] # p
    BY <1>1, <1>2, <2>1, <2>4
  <2> QED BY <2>1, <2>2, <2>3, <2>4
<1> QED BY <1>2, <1>4, <1>5, <1>6, <1>7, <1>8

LEMMA RemoveHub ==
    ASSUME HubInv, NEW h \in Handles, removeCallback(h)
    PROVE  HubInv'
<1> USE DEF HubInv, SocketsMatchCallbacks, RoundInv
<1>0. PICK p \in Ports : p = m_callbacks[h]
  BY DEF removeCallback, TypeOK
<1>1. p = m_callbacks[h] /\ m_callbacks' = [m_callbacks EXCEPT ![h] = 0]
      /\ m_callbacks \in [Handles -> Ports \cup {0}]
  BY <1>0 DEF removeCallback, TypeOK
<1>2. /\ \A k \in Handles : m_callbacks'[k] = IF k = h THEN 0 ELSE m_callbacks[k]
      /\ m_callbacks' \in [Handles -> Ports \cup {0}]
  BY <1>1
<1>3. \A q \in Ports : q # p => Registered(q)' = Registered(q)
  <2>1. ASSUME NEW q \in Ports, q # p, NEW k \in Handles
        PROVE  m_callbacks'[k] = q <=> m_callbacks[k] = q
    BY <1>1, <1>2, <2>1, Numbers
  <2> QED BY <2>1 DEF Registered
<1>4. h \in Registered(p) /\ \A k \in Handles :
         (m_callbacks'[k] = p <=> m_callbacks[k] = p /\ k # h)
  BY <1>1, <1>2, Numbers DEF Registered
<1>5. /\ port = 0 /\ MutexFree /\ pc \in {"none", "sleep"}
      /\ UNCHANGED <<m_callback_id_counter, port, pc, buf, todo, got, fresh, sent_to>>
  BY DEF removeCallback, data, TypeOK, MutexFree
<1>6. /\ m_open_sockets' \in [Ports -> Fds \cup {-1, NotOpen}]
      /\ bound' \in [Fds -> Ports \cup {Free, Others}] /\ inbox' \in [Fds -> Seq(Datagrams)]
      /\ stray' \subseteq Ports /\ leaked' \subseteq Fds
      /\ \A q \in stray' : m_open_sockets'[q] # NotOpen
      /\ \A q \in Ports : m_open_sockets'[q] # -1
      /\ \A q \in Ports : m_open_sockets'[q] = NotOpen <=> Registered(q)' = {}
      /\ \A q \in Ports : (m_open_sockets'[q] # NotOpen /\ q \notin stray')
            => m_open_sockets'[q] \in Fds /\ bound'[m_open_sockets'[q]] = q
      /\ \A fd \in Fds : bound'[fd] \in Ports =>
            \/ fd \in leaked'
            \/ m_open_sockets'[bound'[fd]] = fd /\ bound'[fd] \notin stray'
  <2>0. \A q \in Ports : m_open_sockets[q] # -1
    BY <1>5 DEF TypeOK
  <2>1. CASE LastOf(h)
    <3>1. CloseErased(p) /\ Registered(p) = {h}
      BY <1>1, <2>1 DEF removeCallback, LastOf
    <3>0. m_open_sockets[p] # NotOpen
      BY <1>4
    <3>2. Registered(p)' = {}
      <4>1. \A k \in Handles : m_callbacks'[k] # p
        BY <1>4, <3>1 DEF Registered
      <4> QED BY <4>1 DEF Registered
    <3>3. \A q \in Ports : /\ m_open_sockets'[q] = NotOpen <=> Registered(q)' = {}
                           /\ m_open_sockets'[q] # -1
      BY <1>3, <1>5, <2>0, <3>0, <3>1, <3>2, EraseHub, Numbers
    <3> QED BY <1>5, <3>0, <3>1, <3>3, EraseHub
  <2>2. CASE ~LastOf(h)
    <3>1. UNCHANGED <<m_open_sockets, bound, inbox, stray, leaked>>
      BY <2>2 DEF removeCallback, net
    <3>2. Registered(p)' # {}
      <4>1. PICK k \in Registered(p) : k # h
        BY <1>1, <1>4, <2>2 DEF LastOf
      <4>2. k \in Registered(p)'
        BY <1>4, <4>1 DEF Registered
      <4> QED BY <4>2
    <3>3. \A q \in Ports : m_open_sockets'[q] = NotOpen <=> Registered(q)' = {}
      BY <1>3, <1>4, <3>1, <3>2
    <3>4. UNCHANGED m_open_sockets /\ UNCHANGED bound /\ UNCHANGED stray /\ UNCHANGED leaked
      BY <3>1
    <3>5. /\ m_open_sockets \in [Ports -> Fds \cup {-1, NotOpen}]
          /\ bound \in [Fds -> Ports \cup {Free, Others}] /\ inbox \in [Fds -> Seq(Datagrams)]
          /\ stray \subseteq Ports /\ leaked \subseteq Fds
      BY DEF TypeOK
    <3> QED BY <2>0, <3>1, <3>3, <3>4, <3>5
  <2> QED BY <2>1, <2>2
<1>7. TypeOK'
  BY <1>2, <1>5, <1>6 DEF TypeOK, MutexFree
<1>8. RoundInv'
  BY <1>2, <1>5, <1>6 DEF InRound, TypeOK
<1> QED BY <1>6, <1>7, <1>8

\* What is closed without the map being told is stray.
LEMMA CloseHub ==
    ASSUME HubInv, NEW fd \in Fds, Closes(fd, {}),
           stray' = stray \cup {q \in Ports : m_open_sockets[q] = fd},
           UNCHANGED <<hub, port, data, fresh, sent_to>>,
           pc' = pc \/ (pc = "bad" /\ pc' = "reopen" /\ fd = socketFd)
    PROVE  HubInv'
<1> USE DEF HubInv, SocketsMatchCallbacks, RoundInv, hub, data
<1>1. /\ bound' = [f \in Fds |-> IF f = fd THEN Free ELSE bound[f]]
      /\ inbox' = [f \in Fds |-> IF f = fd THEN <<>> ELSE inbox[f]]
      /\ leaked' = leaked \ {fd}
  BY DEF Closes
<1>2. /\ bound' \in [Fds -> Ports \cup {Free, Others}] /\ inbox' \in [Fds -> Seq(Datagrams)]
      /\ \A f \in Fds : bound'[f] = IF f = fd THEN Free ELSE bound[f]
  <2>1. <<>> \in Seq(Datagrams)
    OBVIOUS
  <2> QED BY <1>1, <2>1 DEF TypeOK
<1>3. TypeOK'
  BY <1>1, <1>2 DEF TypeOK, MutexFree
<1>4. \A q \in Ports : Registered(q)' = Registered(q)
  BY DEF Registered
<1>5. \A q \in Ports : (m_open_sockets[q] # NotOpen /\ q \notin stray')
         => m_open_sockets[q] \in Fds /\ bound'[m_open_sockets[q]] = q
  BY <1>2
<1>6. \A f \in Fds : bound'[f] \in Ports =>
         f \in leaked' \/ (m_open_sockets[bound'[f]] = f /\ bound'[f] \notin stray')
  BY <1>1, <1>2, Numbers
<1>7. RoundInv'
  <2>1. \A q \in stray' : m_open_sockets[q] # NotOpen
    BY Numbers
  <2>2. pc' = "reopen" => port \in stray'
    BY DEF socketFd, TypeOK, MutexFree
  <2> QED BY <2>1, <2>2 DEF InRound
<1> QED BY <1>3, <1>4, <1>5, <1>6, <1>7

\* One of another task's comes and goes.
LEMMA OthersHub ==
    ASSUME HubInv, NEW fd \in Fds, OthersOpen(fd) \/ OthersClose(fd)
    PROVE  HubInv'
<1>1. CASE OthersClose(fd)
  BY <1>1, CloseHub DEF OthersClose
<1>2. CASE OthersOpen(fd)
  <2> USE DEF HubInv, SocketsMatchCallbacks, RoundInv, hub, data
  <2>1. /\ UNCHANGED <<m_open_sockets, m_callbacks, m_callback_id_counter, inbox, stray, leaked,
                       port, pc, buf, todo, got, fresh, sent_to>>
        /\ bound[fd] = Free /\ bound' = [bound EXCEPT ![fd] = Others]
    BY <1>2 DEF OthersOpen, Opens
  <2>2. /\ bound' \in [Fds -> Ports \cup {Free, Others}]
        /\ \A f \in Fds : bound'[f] = IF f = fd THEN Others ELSE bound[f]
    BY <2>1 DEF TypeOK
  <2>3. TypeOK'
    BY <2>1, <2>2 DEF TypeOK, MutexFree
  <2>4. \A q \in Ports : Registered(q)' = Registered(q)
    BY <2>1 DEF Registered
  <2> QED BY <2>1, <2>2, <2>3, <2>4, Numbers DEF InRound
<1> QED BY <1>1, <1>2

\* The sockets and the map stay; the task goes on.
LEMMA StepHub ==
    ASSUME HubInv,
           \/ CallsBack \/ BeginRound \/ ReadNothing \/ Peek \/ Pop \/ SeesClosed \/ Deliver
           \/ Delivered \/ \E d \in Datagrams, fd \in Fds : Arrives(d, fd)
    PROVE  HubInv'
<1> USE DEF HubInv, SocketsMatchCallbacks, RoundInv, hub, net, data
<1>0. TypeOK /\ (port # 0 => port \in Ports)
  BY DEF TypeOK
<1>1. /\ UNCHANGED <<m_open_sockets, m_callbacks, m_callback_id_counter>>
      /\ UNCHANGED <<bound, stray, leaked>>
  BY DEF CallsBack, BeginRound, ReadNothing, Peek, Pop, SeesClosed, Deliver, Delivered, Arrives
<1>2. \A q \in Ports : Registered(q)' = Registered(q)
  BY <1>1 DEF Registered
<1>3. /\ port' \in Ports \cup {0}
      /\ pc' \in {"none", "sleep", "read", "pop", "bad", "reopen", "deliver", "stuck"}
      /\ port' = 0 <=> MutexFree'
      /\ pc' \in InRound => m_open_sockets'[port'] # NotOpen
      /\ pc' = "reopen" => pc = "reopen" /\ port' = port
      /\ pc = "reopen" => pc' = "reopen" /\ port' = port
  <2>1. CASE BeginRound \/ ReadNothing \/ Delivered
    <3>1. Advance /\ pc # "reopen"
      BY <2>1 DEF BeginRound, ReadNothing, Delivered
    <3> QED BY <1>1, <3>1, AdvanceRound DEF MutexFree, InRound
  <2>2. CASE CallsBack \/ Peek \/ Pop \/ SeesClosed \/ Deliver
    <3>1. /\ UNCHANGED port /\ pc \in {"read", "pop", "deliver"}
          /\ pc' \in {"pop", "deliver", "bad", "stuck"}
          /\ (pc' \in InRound => pc \in InRound)
      BY <2>2 DEF CallsBack, Peek, Pop, SeesClosed, Deliver, InRound
    <3> QED BY <1>0, <1>1, <3>1 DEF MutexFree, TypeOK, InRound
  <2>3. CASE \E d \in Datagrams, fd \in Fds : Arrives(d, fd)
    <3>1. UNCHANGED <<port, pc>>
      BY <2>3 DEF Arrives
    <3> QED BY <1>0, <1>1, <3>1 DEF MutexFree, TypeOK, InRound
  <2> QED BY <2>1, <2>2, <2>3
<1>4. /\ inbox' \in [Fds -> Seq(Datagrams)] /\ buf' \in Datagrams \cup {NoData}
      /\ todo' \subseteq Handles /\ got' \in [Datagrams -> Seq(Handles)]
      /\ fresh' \subseteq Datagrams /\ sent_to' \in [Datagrams -> Ports \cup {Others}]
  <2>0. /\ inbox \in [Fds -> Seq(Datagrams)] /\ buf \in Datagrams \cup {NoData}
        /\ todo \subseteq Handles /\ got \in [Datagrams -> Seq(Handles)]
        /\ fresh \subseteq Datagrams /\ sent_to \in [Datagrams -> Ports \cup {Others}]
        /\ bound \in [Fds -> Ports \cup {Free, Others}]
    BY DEF TypeOK
  <2>1. CASE CallsBack \/ BeginRound \/ ReadNothing \/ SeesClosed \/ Delivered
    BY <2>0, <2>1 DEF CallsBack, BeginRound, ReadNothing, SeesClosed, Delivered
  <2>2. CASE Peek \/ Pop
    <3>1. port \in Ports /\ socketFd \in Fds
      <4>1. port \in Ports /\ pc \in InRound /\ pc # "reopen"
        BY <1>0, <2>2 DEF Peek, Pop, TypeOK, MutexFree, InRound
      <4> QED BY <4>1 DEF socketFd, TypeOK
    <3>2. inbox[socketFd] \in Seq(Datagrams) /\ inbox[socketFd] # <<>>
      BY <2>0, <2>2, <3>1 DEF Peek, Pop
    <3>3. Head(inbox[socketFd]) \in Datagrams /\ Tail(inbox[socketFd]) \in Seq(Datagrams)
      BY <3>2, HeadTailProperties
    <3>4. CASE Peek
      <4>1. inbox' = inbox /\ buf' = Head(inbox[socketFd])
            /\ UNCHANGED todo /\ UNCHANGED got /\ UNCHANGED fresh /\ UNCHANGED sent_to
        BY <3>4 DEF Peek
      <4> QED BY <2>0, <3>3, <4>1
    <3>5. CASE Pop
      <4>1. inbox' = [inbox EXCEPT ![socketFd] = Tail(@)] /\ todo' = Registered(port)
            /\ UNCHANGED buf /\ UNCHANGED got /\ UNCHANGED fresh /\ UNCHANGED sent_to
        BY <3>5 DEF Pop
      <4>2. inbox' \in [Fds -> Seq(Datagrams)]
        BY <2>0, <3>1, <3>3, <4>1
      <4> QED BY <2>0, <4>1, <4>2 DEF Registered
    <3> QED BY <2>2, <3>4, <3>5
  <2>3. CASE Deliver
    <3>1. PICK h \in todo : got' = [got EXCEPT ![buf] = Append(@, h)] /\ todo' = todo \ {h}
      BY <2>3 DEF Deliver
    <3>2. UNCHANGED <<inbox, buf, fresh, sent_to>>
      BY <2>3 DEF Deliver
    <3>3. got' \in [Datagrams -> Seq(Handles)]
      <4>1. CASE buf \in Datagrams
        <5>1. Append(got[buf], h) \in Seq(Handles)
          BY <2>0, <4>1
        <5> QED BY <2>0, <3>1, <4>1, <5>1
      <4>2. CASE buf \notin Datagrams
        BY <2>0, <3>1, <4>2
      <4> QED BY <4>1, <4>2
    <3> QED BY <2>0, <3>1, <3>2, <3>3
  <2>4. ASSUME NEW d \in Datagrams, NEW fd \in Fds, Arrives(d, fd)
        PROVE  /\ inbox' \in [Fds -> Seq(Datagrams)] /\ buf' \in Datagrams \cup {NoData}
               /\ todo' \subseteq Handles /\ got' \in [Datagrams -> Seq(Handles)]
               /\ fresh' \subseteq Datagrams /\ sent_to' \in [Datagrams -> Ports \cup {Others}]
    <3>1. Append(inbox[fd], d) \in Seq(Datagrams)
      BY <2>0
    <3>2. inbox' \in [Fds -> Seq(Datagrams)] /\ fresh' \subseteq Datagrams
      BY <2>0, <2>4, <3>1 DEF Arrives
    <3>3. bound[fd] \in Ports \cup {Others}
      BY <2>0, <2>4 DEF Arrives
    <3>4. sent_to' \in [Datagrams -> Ports \cup {Others}]
      BY <2>0, <2>4, <3>3 DEF Arrives
    <3> QED BY <2>0, <2>4, <3>2, <3>4 DEF Arrives
  <2> QED BY <2>1, <2>2, <2>3, <2>4
<1>5. TypeOK'
  BY <1>1, <1>3, <1>4 DEF TypeOK
<1>6. RoundInv'
  <2>1. \A h \in Handles : h > m_callback_id_counter' => m_callbacks'[h] = 0
    BY <1>1
  <2>2. \A q \in stray' : m_open_sockets'[q] # NotOpen
    BY <1>1
  <2> QED BY <1>1, <1>3, <2>1, <2>2
<1> QED BY <1>1, <1>2, <1>5, <1>6

LEMMA ReopenHub ==
    ASSUME HubInv, CloseBad \/ ReopenFails \/ Reopen
    PROVE  HubInv'
<1>0. port \in Ports /\ m_open_sockets[port] # NotOpen /\ (pc = "reopen" => port \in stray)
      /\ (CloseBad => socketFd \in Fds) /\ TypeOK
  BY DEF HubInv, SocketsMatchCallbacks, RoundInv, CloseBad, ReopenFails, Reopen, TypeOK, MutexFree,
         InRound, socketFd
<1>1. CASE CloseBad
  BY <1>0, <1>1, CloseHub DEF CloseBad
<1>2. CASE ReopenFails
  <2> USE DEF HubInv, SocketsMatchCallbacks, RoundInv, net, data
  <2>1. m_open_sockets' = [m_open_sockets EXCEPT ![port] = -1] /\ pc' = "reopen" /\ pc = "reopen"
        /\ UNCHANGED <<m_callbacks, m_callback_id_counter, bound, inbox, stray, leaked, port, pc,
                       buf, todo, got, fresh, sent_to>>
    BY <1>2 DEF ReopenFails
  <2>2. /\ m_open_sockets' \in [Ports -> Fds \cup {-1, NotOpen}]
        /\ \A q \in Ports : m_open_sockets'[q] = IF q = port THEN -1 ELSE m_open_sockets[q]
    BY <1>0, <2>1 DEF TypeOK
  <2>3. TypeOK'
    BY <1>0, <2>1, <2>2 DEF TypeOK, MutexFree
  <2>4. \A q \in Ports : Registered(q)' = Registered(q)
    BY <2>1 DEF Registered
  <2>5. \A fd \in Fds : bound[fd] \in Ports =>
           fd \in leaked \/ (m_open_sockets'[bound[fd]] = fd /\ bound[fd] \notin stray)
    BY <1>0, <2>1, <2>2
  <2>6. \A q \in Ports : (m_open_sockets'[q] # NotOpen /\ q \notin stray)
           => m_open_sockets'[q] \in Fds /\ bound[m_open_sockets'[q]] = q
    BY <1>0, <2>1, <2>2
  <2>7. RoundInv'
    BY <1>0, <2>1, <2>2, Numbers
  <2> QED BY <1>0, <2>1, <2>2, <2>3, <2>4, <2>5, <2>6, <2>7, Numbers
<1>3. CASE Reopen
  <2> USE DEF HubInv, SocketsMatchCallbacks, RoundInv, data
  <2>1. PICK fd \in Fds : Opens(fd, port) /\ m_open_sockets' = [m_open_sockets EXCEPT ![port] = fd]
    BY <1>3 DEF Reopen
  <2>2. /\ UNCHANGED <<m_callbacks, m_callback_id_counter, inbox, leaked, buf, todo, got, fresh,
                       sent_to>>
        /\ stray' = stray \ {port} /\ Advance /\ pc = "reopen"
    BY <1>3 DEF Reopen
  <2>3. /\ m_open_sockets' \in [Ports -> Fds \cup {-1, NotOpen}]
        /\ \A q \in Ports : m_open_sockets'[q] = IF q = port THEN fd ELSE m_open_sockets[q]
    BY <1>0, <2>1 DEF TypeOK
  <2>4. /\ bound[fd] = Free /\ \A f \in Fds : bound'[f] = IF f = fd THEN port ELSE bound[f]
        /\ bound' \in [Fds -> Ports \cup {Free, Others}]
    BY <1>0, <2>1 DEF Opens, TypeOK
  <2>5. TypeOK'
    <3>1. \A q \in Ports : m_open_sockets'[q] # -1
      BY <1>0, <2>2, <2>3, Numbers DEF TypeOK
    <3>2. /\ port' \in Ports \cup {0} /\ pc' \in {"sleep", "read"}
          /\ port' = 0 <=> pc' = "sleep"
      BY <2>2, AdvanceRound
    <3> QED BY <2>2, <2>3, <2>4, <3>1, <3>2 DEF TypeOK, MutexFree
  <2>6. \A q \in Ports : Registered(q)' = Registered(q)
    BY <2>2 DEF Registered
  <2>7. \A q \in Ports : m_open_sockets'[q] = NotOpen <=> m_open_sockets[q] = NotOpen
    BY <1>0, <2>3, Numbers
  <2>8. ASSUME NEW q \in Ports, m_open_sockets'[q] # NotOpen, q \notin stray'
        PROVE  m_open_sockets'[q] \in Fds /\ bound'[m_open_sockets'[q]] = q
    <3>1. CASE q = port
      BY <2>3, <2>4, <3>1
    <3>2. CASE q # port
      <4>1. m_open_sockets'[q] = m_open_sockets[q] /\ bound[m_open_sockets[q]] = q
            /\ m_open_sockets[q] \in Fds
        BY <2>2, <2>3, <2>8, <3>2
      <4>2. m_open_sockets[q] # fd
        BY <2>4, <4>1, Numbers
      <4> QED BY <2>4, <4>1, <4>2
    <3> QED BY <3>1, <3>2
  <2>9. ASSUME NEW f \in Fds, bound'[f] \in Ports
        PROVE  f \in leaked' \/ (m_open_sockets'[bound'[f]] = f /\ bound'[f] \notin stray')
    <3>1. CASE f = fd
      BY <1>0, <2>2, <2>3, <2>4, <3>1
    <3>2. CASE f # fd
      <4>1. bound'[f] = bound[f]
        BY <2>4, <3>2
      <4>2. f \in leaked \/ (m_open_sockets[bound[f]] = f /\ bound[f] \notin stray)
        BY <2>9, <4>1
      <4> QED BY <1>0, <2>2, <2>3, <2>9, <4>1, <4>2
    <3> QED BY <3>1, <3>2
  <2>10. RoundInv'
    <3>1. pc' \in InRound => m_open_sockets'[port'] # NotOpen
      <4>1. pc' = "read" => m_open_sockets[port'] # NotOpen /\ port' \in Ports
        BY <2>2, AdvanceRound
      <4>2. pc' \in {"sleep", "read"}
        BY <2>2, AdvanceRound
      <4> QED BY <2>7, <4>1, <4>2 DEF InRound
    <3>2. pc' # "reopen"
      BY <2>2, AdvanceRound
    <3>3. \A q \in stray' : m_open_sockets'[q] # NotOpen
      BY <1>0, <2>2, <2>7 DEF TypeOK
    <3> QED BY <2>2, <3>1, <3>2, <3>3
  <2> QED BY <2>2, <2>5, <2>6, <2>7, <2>8, <2>9, <2>10
<1> QED BY <1>1, <1>2, <1>3

LEMMA HubInvariance == Spec => []HubInv
<1>1. HubInv /\ [Next]_vars => HubInv'
  <2> SUFFICES ASSUME HubInv, [Next]_vars PROVE HubInv'
    OBVIOUS
  <2>1. CASE ReadTask \/ ReopenFails \/ Reopen
    BY <2>1, StepHub, ReopenHub DEF ReadTask
  <2>2. CASE CallsBack \/ \E fd \in Fds, d \in Datagrams : Arrives(d, fd)
    BY <2>2, StepHub
  <2>3. CASE \E p \in Ports : onReceive(p)
    BY <2>3, RegisterHub
  <2>4. CASE \E fd \in Fds : OthersOpen(fd) \/ OthersClose(fd)
    BY <2>4, OthersHub
  <2>5. CASE \E h \in Handles : removeCallback(h)
    BY <2>5, RemoveHub
  <2>6. CASE UNCHANGED vars
    BY <2>6 DEF vars, hub, net, data, HubInv, SocketsMatchCallbacks, RoundInv, TypeOK, Registered,
                MutexFree
  <2> QED BY <2>1, <2>2, <2>3, <2>4, <2>5, <2>6 DEF Next
<1> QED BY <1>1, InitHub, PTL DEF Spec

\* A port is in the map exactly as long as it has a callback, and its descriptor is its
\* own socket unless somebody else closed it; a socket bound to a port and not in the map
\* is one that removeCallback left behind (rbudp.cpp 55-142).
THEOREM SocketPerCallback == Spec => []SocketsMatchCallbacks
<1>1. HubInv => SocketsMatchCallbacks
  BY DEF HubInv
<1> QED BY <1>1, HubInvariance, PTL

-----------------------------------------------------------------------------
(* The datagrams.                                                            *)

Given(d) == {got[d][i] : i \in DOMAIN got[d]}

\* A datagram waits in one socket, the one it was sent to, and was given to nobody before
\* it is in hand; the one that was looked at is first in its socket, or lost with it.
PlacesInv ==
    /\ \A d \in fresh : got[d] = <<>>
    /\ \A f \in Fds : \A i \in DOMAIN inbox[f] :
          /\ got[inbox[f][i]] = <<>> /\ inbox[f][i] \notin fresh /\ sent_to[inbox[f][i]] = bound[f]
          /\ \A g \in Fds : \A j \in DOMAIN inbox[g] :
                inbox[f][i] = inbox[g][j] => f = g /\ i = j
    /\ pc \in {"pop", "deliver"} =>
          /\ buf \in Datagrams \ fresh
          /\ port \notin stray => sent_to[buf] = port
    /\ pc = "pop" =>
          /\ got[buf] = <<>>
          /\ \A f \in Fds : \A i \in DOMAIN inbox[f] : inbox[f][i] = buf => f = socketFd /\ i = 1
    /\ pc = "deliver" => \A f \in Fds : \A i \in DOMAIN inbox[f] : inbox[f][i] # buf

\* those who had it come before those who wait for it
DeliveryInv ==
    pc = "deliver" => /\ Given(buf) \cup todo = Registered(port)
                      /\ \A g \in Given(buf), h \in todo : g < h

OrderInv == \A d \in Datagrams : \A i, j \in DOMAIN got[d] : i < j => got[d][i] < got[d][j]

DatagramInv == PlacesInv /\ DeliveryInv /\ OrderInv

LEMMA OnePlace ==
    ASSUME PlacesInv, NEW f \in Fds, NEW i \in DOMAIN inbox[f],
           NEW g \in Fds, NEW j \in DOMAIN inbox[g], inbox[f][i] = inbox[g][j]
    PROVE  f = g /\ i = j
BY DEF PlacesInv

LEMMA InitDatagrams == Init => DatagramInv
<1> SUFFICES ASSUME Init PROVE DatagramInv
  OBVIOUS
<1>1. /\ \A f \in Fds : inbox[f] = <<>>
      /\ fresh = Datagrams /\ pc = "none" /\ \A d \in Datagrams : got[d] = <<>>
  BY DEF Init
<1> QED BY <1>1 DEF DatagramInv, PlacesInv, DeliveryInv, OrderInv

\* Sockets lose what they have when they are closed; nothing else moves.
LEMMA ShrinkDatagrams ==
    ASSUME HubInv, DatagramInv, fresh' = fresh, got' = got, sent_to' = sent_to,
           \A f \in Fds : inbox'[f] = <<>> \/ (inbox'[f] = inbox[f] /\ bound'[f] = bound[f]),
           \/ pc' \notin {"pop", "deliver"}
           \/ /\ pc' = pc /\ buf' = buf /\ todo' = todo /\ port' = port
              /\ m_callbacks' = m_callbacks /\ m_open_sockets' = m_open_sockets
              /\ stray \subseteq stray'
    PROVE  DatagramInv'
<1> USE DEF DatagramInv
<1>1. ASSUME NEW f \in Fds, NEW i \in DOMAIN inbox'[f]
      PROVE  i \in DOMAIN inbox[f] /\ inbox'[f][i] = inbox[f][i] /\ bound'[f] = bound[f]
  <2>1. inbox'[f] # <<>>
    BY <1>1
  <2> QED BY <1>1, <2>1
<1>2. PlacesInv'
  <2>1. \A f \in Fds : \A i \in DOMAIN inbox'[f] :
          /\ got'[inbox'[f][i]] = <<>> /\ inbox'[f][i] \notin fresh'
          /\ sent_to'[inbox'[f][i]] = bound'[f]
          /\ \A g \in Fds : \A j \in DOMAIN inbox'[g] :
                inbox'[f][i] = inbox'[g][j] => f = g /\ i = j
    BY <1>1 DEF PlacesInv
  <2>2. pc' \in {"pop", "deliver"} =>
           /\ buf' \in Datagrams \ fresh'
           /\ port' \notin stray' => sent_to'[buf'] = port'
           /\ pc' = "pop" =>
                 /\ got'[buf'] = <<>>
                 /\ \A f \in Fds : \A i \in DOMAIN inbox'[f] :
                       inbox'[f][i] = buf' => f = socketFd' /\ i = 1
           /\ pc' = "deliver" => \A f \in Fds : \A i \in DOMAIN inbox'[f] : inbox'[f][i] # buf'
    BY <1>1 DEF PlacesInv, socketFd
  <2>3. \A d \in fresh' : got'[d] = <<>>
    BY DEF PlacesInv
  <2> QED BY <2>1, <2>2, <2>3 DEF PlacesInv
<1>3. DeliveryInv'
  BY DEF DeliveryInv, Given, Registered
<1>4. OrderInv'
  BY DEF OrderInv
<1> QED BY <1>2, <1>3, <1>4

\* What waits in a socket stays in it until it is closed.
LEMMA KeptOrLost ==
    ASSUME HubInv, DatagramInv,
           \/ \E fd \in Fds, p \in Ports \cup {Others} : Opens(fd, p) /\ inbox' = inbox
           \/ \E fd \in Fds \cup {-1} : \E left : Closes(fd, left)
           \/ UNCHANGED <<bound, inbox>>
    PROVE  \A f \in Fds : inbox'[f] = <<>> \/ (inbox'[f] = inbox[f] /\ bound'[f] = bound[f])
<1>0. inbox \in [Fds -> Seq(Datagrams)] /\ bound \in [Fds -> Ports \cup {Free, Others}]
      /\ sent_to \in [Datagrams -> Ports \cup {Others}]
  BY DEF HubInv, SocketsMatchCallbacks, TypeOK
<1>1. ASSUME NEW fd \in Fds, NEW p \in Ports \cup {Others}, Opens(fd, p), inbox' = inbox
      PROVE  \A f \in Fds : inbox'[f] = <<>> \/ (inbox'[f] = inbox[f] /\ bound'[f] = bound[f])
  <2>1. bound[fd] = Free /\ \A f \in Fds : f # fd => bound'[f] = bound[f]
    BY <1>0, <1>1 DEF Opens
  <2>2. inbox[fd] = <<>>
    <3>1. SUFFICES ASSUME inbox[fd] # <<>> PROVE FALSE
      OBVIOUS
    <3>2. 1 \in DOMAIN inbox[fd] /\ inbox[fd][1] \in Datagrams
      BY <1>0, <3>1
    <3>3. sent_to[inbox[fd][1]] = Free
      BY <2>1, <3>2 DEF DatagramInv, PlacesInv
    <3> QED BY <1>0, <3>2, <3>3, Numbers
  <2> QED BY <1>1, <2>1, <2>2
<1>2. ASSUME NEW fd \in Fds \cup {-1}, NEW left, Closes(fd, left)
      PROVE  \A f \in Fds : inbox'[f] = <<>> \/ (inbox'[f] = inbox[f] /\ bound'[f] = bound[f])
  BY <1>2 DEF Closes
<1> QED BY <1>1, <1>2

LEMMA QuietDatagrams ==
    ASSUME HubInv, DatagramInv,
           \/ CallsBack \/ BeginRound \/ ReadNothing \/ SeesClosed \/ CloseBad \/ ReopenFails
           \/ Reopen \/ Delivered
           \/ \E p \in Ports : onReceive(p)
           \/ \E h \in Handles : removeCallback(h)
           \/ \E fd \in Fds : OthersOpen(fd) \/ OthersClose(fd)
           \/ UNCHANGED vars
    PROVE  DatagramInv'
<1> USE DEF hub, net, data
<1>0. TypeOK
  BY DEF HubInv, SocketsMatchCallbacks
<1>1. CASE CallsBack \/ BeginRound \/ ReadNothing \/ SeesClosed \/ ReopenFails \/ Delivered
  <2>1. fresh' = fresh /\ got' = got /\ sent_to' = sent_to /\ UNCHANGED <<bound, inbox>>
    BY <1>1 DEF CallsBack, BeginRound, ReadNothing, SeesClosed, ReopenFails, Delivered
  <2>2. pc' \notin {"pop", "deliver"}
    BY <1>1 DEF CallsBack, BeginRound, ReadNothing, SeesClosed, ReopenFails, Delivered, Advance
  <2> QED BY <2>1, <2>2, ShrinkDatagrams
<1>2. CASE CloseBad
  <2>1. /\ fresh' = fresh /\ got' = got /\ sent_to' = sent_to /\ Closes(socketFd, {})
        /\ pc' = "reopen" /\ pc = "bad"
    BY <1>2 DEF CloseBad
  <2>2. socketFd \in Fds
    BY <1>0, <2>1 DEF HubInv, RoundInv, InRound, TypeOK, MutexFree, socketFd
  <2> QED BY <2>1, <2>2, KeptOrLost, ShrinkDatagrams
<1>3. CASE Reopen
  <2>1. /\ fresh' = fresh /\ got' = got /\ sent_to' = sent_to /\ inbox' = inbox
        /\ \E fd \in Fds : Opens(fd, port)
        /\ pc' \in {"sleep", "read"} /\ pc = "reopen"
    BY <1>3 DEF Reopen, Advance
  <2>2. port \in Ports
    BY <1>0, <2>1 DEF TypeOK, MutexFree
  <2> QED BY <2>1, <2>2, KeptOrLost, ShrinkDatagrams
<1>4. ASSUME NEW p \in Ports, onReceive(p) PROVE DatagramInv'
  <2>1. /\ fresh' = fresh /\ got' = got /\ sent_to' = sent_to /\ inbox' = inbox
        /\ pc' \notin {"pop", "deliver"}
    BY <1>4 DEF onReceive
  <2>2. UNCHANGED bound \/ \E fd \in Fds : Opens(fd, p)
    BY <1>4 DEF onReceive
  <2>3. \A f \in Fds : inbox'[f] = <<>> \/ (inbox'[f] = inbox[f] /\ bound'[f] = bound[f])
    BY <2>1, <2>2, KeptOrLost
  <2> QED BY <2>1, <2>3, ShrinkDatagrams
<1>5. ASSUME NEW h \in Handles, removeCallback(h) PROVE DatagramInv'
  <2>1. fresh' = fresh /\ got' = got /\ sent_to' = sent_to /\ pc' \notin {"pop", "deliver"}
    BY <1>5 DEF removeCallback, MutexFree
  <2>2. UNCHANGED <<bound, inbox>> \/ \E fd \in Fds \cup {-1} : \E left : Closes(fd, left)
    <3>1. CASE LastOf(h)
      <4>1. CloseErased(m_callbacks[h])
        BY <1>5, <3>1 DEF removeCallback
      <4> QED BY <4>1 DEF CloseErased
    <3>2. CASE ~LastOf(h)
      BY <1>5, <3>2 DEF removeCallback
    <3> QED BY <3>1, <3>2
  <2>3. \A f \in Fds : inbox'[f] = <<>> \/ (inbox'[f] = inbox[f] /\ bound'[f] = bound[f])
    BY <2>2, KeptOrLost
  <2> QED BY <2>1, <2>3, ShrinkDatagrams
<1>6. ASSUME NEW fd \in Fds, OthersOpen(fd) \/ OthersClose(fd) PROVE DatagramInv'
  <2>1. /\ fresh' = fresh /\ got' = got /\ sent_to' = sent_to
        /\ pc' = pc /\ buf' = buf /\ todo' = todo /\ port' = port
        /\ m_callbacks' = m_callbacks /\ m_open_sockets' = m_open_sockets
        /\ stray \subseteq stray'
    BY <1>6 DEF OthersOpen, OthersClose
  <2>2. (Opens(fd, Others) /\ inbox' = inbox) \/ Closes(fd, {})
    BY <1>6 DEF OthersOpen, OthersClose
  <2>3. \A f \in Fds : inbox'[f] = <<>> \/ (inbox'[f] = inbox[f] /\ bound'[f] = bound[f])
    BY <2>2, KeptOrLost
  <2> QED BY <2>1, <2>3, ShrinkDatagrams
<1>7. CASE UNCHANGED vars
  BY <1>7, KeptOrLost, ShrinkDatagrams DEF vars
<1> QED BY <1>1, <1>2, <1>3, <1>4, <1>5, <1>6, <1>7

\* the socket the round is at
LEMMA AtSocket ==
    ASSUME HubInv, Peek \/ Pop
    PROVE  /\ port \in Ports /\ socketFd \in Fds
           /\ inbox[socketFd] \in Seq(Datagrams) /\ inbox[socketFd] # <<>>
           /\ port \notin stray => bound[socketFd] = port
<1>1. TypeOK /\ pc \in {"read", "pop"} /\ inbox[socketFd] # <<>>
  BY DEF HubInv, SocketsMatchCallbacks, Peek, Pop
<1>2. port \in Ports /\ m_open_sockets[port] # NotOpen
  BY <1>1 DEF TypeOK, MutexFree, HubInv, RoundInv, InRound
<1>3. socketFd \in Fds
  BY <1>1, <1>2 DEF TypeOK, socketFd
<1> QED BY <1>1, <1>2, <1>3 DEF TypeOK, socketFd, HubInv, SocketsMatchCallbacks

LEMMA PeekDatagrams ==
    ASSUME HubInv, DatagramInv, Peek
    PROVE  DatagramInv'
<1> USE DEF DatagramInv, hub, net
<1>1. /\ UNCHANGED <<m_callbacks, m_open_sockets, bound, inbox, stray, port, todo, got, fresh,
                      sent_to>>
      /\ pc' = "pop" /\ buf' = Head(inbox[socketFd])
  BY DEF Peek
<1>2. /\ port \in Ports /\ socketFd \in Fds /\ socketFd' = socketFd
      /\ port \notin stray => bound[socketFd] = port
  BY <1>1, AtSocket DEF socketFd
<1>3. 1 \in DOMAIN inbox[socketFd] /\ buf' = inbox[socketFd][1] /\ buf' \in Datagrams
  BY <1>1, AtSocket
<1>4. got[buf'] = <<>> /\ buf' \notin fresh /\ sent_to[buf'] = bound[socketFd]
  BY <1>2, <1>3 DEF PlacesInv
<1>5. \A f \in Fds : \A i \in DOMAIN inbox[f] : inbox[f][i] = buf' => f = socketFd /\ i = 1
  BY <1>2, <1>3 DEF PlacesInv
<1>6. PlacesInv'
  BY <1>1, <1>2, <1>3, <1>4, <1>5 DEF PlacesInv
<1>7. DeliveryInv' /\ OrderInv'
  BY <1>1 DEF DeliveryInv, OrderInv
<1> QED BY <1>6, <1>7

LEMMA PopDatagrams ==
    ASSUME HubInv, DatagramInv, Pop
    PROVE  DatagramInv'
<1> USE DEF DatagramInv, hub
<1>0. TypeOK /\ port \in Ports /\ socketFd \in Fds
  BY AtSocket DEF HubInv, SocketsMatchCallbacks
<1>1. inbox[socketFd] \in Seq(Datagrams) /\ inbox[socketFd] # <<>>
  BY AtSocket
<1> DEFINE fd == socketFd
           m == Len(inbox[fd])
<1>2. m \in Nat \ {0} /\ DOMAIN inbox[fd] = 1..m
  BY <1>1
<1>3. /\ \A f \in Fds \ {fd} : inbox'[f] = inbox[f]
      /\ inbox'[fd] = Tail(inbox[fd])
  BY <1>0 DEF Pop, TypeOK
<1>4. \A i \in DOMAIN inbox'[fd] : /\ i \in Nat \ {0} /\ i + 1 \in DOMAIN inbox[fd]
                                   /\ inbox'[fd][i] = inbox[fd][i + 1]
  BY <1>1, <1>3
<1>5. /\ UNCHANGED <<m_callbacks, m_open_sockets, bound, stray, port, buf, got, fresh, sent_to>>
      /\ todo' = Registered(port) /\ pc' = "deliver" /\ pc = "pop"
  BY DEF Pop
<1> HIDE DEF m, fd
<1>6. /\ got[buf] = <<>> /\ buf \in Datagrams \ fresh /\ (port \notin stray => sent_to[buf] = port)
      /\ \A f \in Fds : \A i \in DOMAIN inbox[f] : inbox[f][i] = buf => f = fd /\ i = 1
  BY <1>5 DEF PlacesInv, fd
<1>7. ASSUME NEW f \in Fds, NEW i \in DOMAIN inbox'[f]
      PROVE  \E j \in DOMAIN inbox[f] : /\ inbox'[f][i] = inbox[f][j]
                                        /\ j = (IF f = fd THEN i + 1 ELSE i)
                                        /\ (f = fd => i \in Nat /\ j # 1)
  <2>1. CASE f = fd
    <3>1. i \in Nat /\ i + 1 \in DOMAIN inbox[f] /\ inbox'[f][i] = inbox[f][i + 1] /\ i # 0
      BY <1>4, <1>7, <2>1
    <3>2. i + 1 # 1
      BY <3>1
    <3> QED BY <2>1, <3>1, <3>2
  <2>2. CASE f # fd
    BY <1>3, <1>7, <2>2
  <2> QED BY <2>1, <2>2
<1>8. PlacesInv'
  <2>1. \A f \in Fds : \A i \in DOMAIN inbox'[f] :
           /\ got[inbox'[f][i]] = <<>> /\ inbox'[f][i] \notin fresh
           /\ sent_to[inbox'[f][i]] = bound[f]
    BY <1>7 DEF PlacesInv
  <2>2. ASSUME NEW f \in Fds, NEW i \in DOMAIN inbox'[f],
               NEW g \in Fds, NEW j \in DOMAIN inbox'[g], inbox'[f][i] = inbox'[g][j]
        PROVE  f = g /\ i = j
    <3>1. PICK i1 \in DOMAIN inbox[f] : /\ inbox'[f][i] = inbox[f][i1]
                                        /\ i1 = (IF f = fd THEN i + 1 ELSE i)
                                        /\ (f = fd => i \in Nat)
      BY <1>7
    <3>2. PICK j1 \in DOMAIN inbox[g] : /\ inbox'[g][j] = inbox[g][j1]
                                        /\ j1 = (IF g = fd THEN j + 1 ELSE j)
                                        /\ (g = fd => j \in Nat)
      BY <1>7
    <3>3. inbox[f][i1] = inbox[g][j1]
      BY <2>2, <3>1, <3>2
    <3>4. f = g /\ i1 = j1
      BY <3>3, OnePlace
    <3> QED BY <3>1, <3>2, <3>4
  <2>3. \A f \in Fds : \A i \in DOMAIN inbox'[f] : inbox'[f][i] # buf
    BY <1>6, <1>7
  <2>4. \A d \in fresh : got[d] = <<>>
    BY DEF PlacesInv
  <2> QED BY <1>5, <1>6, <2>1, <2>2, <2>3, <2>4 DEF PlacesInv
<1>9. DeliveryInv'
  <2>1. Given(buf)' = {}
    BY <1>5, <1>6 DEF Given
  <2>2. Registered(port)' = Registered(port)
    BY <1>5 DEF Registered
  <2> QED BY <1>5, <2>1, <2>2 DEF DeliveryInv
<1>10. OrderInv'
  BY <1>5 DEF OrderInv
<1> QED BY <1>8, <1>9, <1>10

LEMMA DeliverDatagrams ==
    ASSUME HubInv, DatagramInv, Deliver
    PROVE  DatagramInv'
<1> USE DEF DatagramInv
<1>0. TypeOK /\ pc = "deliver" /\ pc' = "deliver"
  BY DEF HubInv, SocketsMatchCallbacks, Deliver
<1>1. UNCHANGED <<m_callbacks, bound, inbox, stray, port, buf, fresh, sent_to>>
  BY DEF Deliver, hub, net
<1>2. PICK h \in todo : /\ \A k \in todo : h <= k
                        /\ got' = [got EXCEPT ![buf] = Append(@, h)] /\ todo' = todo \ {h}
  BY DEF Deliver
<1>3. buf \in Datagrams \ fresh
  BY <1>0 DEF PlacesInv
<1>4. h \in Handles /\ h \in Nat /\ todo \subseteq Nat
  BY <1>0 DEF TypeOK, Handles
<1> DEFINE s == got[buf]
           m == Len(s)
<1>5. s \in Seq(Handles) /\ m \in Nat /\ DOMAIN s = 1..m /\ \A i \in 1..m : s[i] \in Handles
  BY <1>0, <1>3 DEF TypeOK
<1>6. PICK t : t = Append(s, h)
  OBVIOUS
<1>7. t \in Seq(Handles) /\ DOMAIN t = 1..(m + 1) /\ t[m + 1] = h /\ \A i \in 1..m : t[i] = s[i]
  BY <1>4, <1>5, <1>6
<1>8. got'[buf] = t /\ \A d \in Datagrams \ {buf} : got'[d] = got[d]
  BY <1>0, <1>2, <1>3, <1>6 DEF TypeOK
<1>9. Given(buf) = {s[i] : i \in 1..m}
  BY <1>5 DEF Given
<1>10. Given(buf)' = Given(buf) \cup {h}
  <2>1. Given(buf)' = {t[i] : i \in 1..(m + 1)}
    BY <1>1, <1>7, <1>8 DEF Given
  <2>2. \A i \in 1..(m + 1) : i \in 1..m \/ i = m + 1
    BY <1>5
  <2>3. m + 1 \in 1..(m + 1) /\ 1..m \subseteq 1..(m + 1)
    BY <1>5
  <2> HIDE DEF s, m
  <2> QED BY <1>7, <1>9, <2>1, <2>2, <2>3
<1> HIDE DEF s, m
<1>11. DeliveryInv'
  <2>1. Registered(port)' = Registered(port)
    BY <1>1 DEF Registered
  <2>2. Given(buf) \cup todo = Registered(port) /\ \A g \in Given(buf), k \in todo : g < k
    BY <1>0 DEF DeliveryInv
  <2>3. \A k \in todo \ {h} : h < k
    BY <1>2, <1>4
  <2>4. Given(buf)' \cup todo' = Registered(port)'
    BY <1>2, <1>10, <2>1, <2>2
  <2>5. \A g \in Given(buf)', k \in todo' : g < k
    BY <1>2, <1>10, <2>2, <2>3
  <2> QED BY <2>4, <2>5 DEF DeliveryInv
<1>12. OrderInv'
  <2>1. ASSUME NEW i \in 1..(m + 1), NEW j \in 1..(m + 1), i < j PROVE t[i] < t[j]
    <3>1. i \in 1..m
      BY <1>5, <2>1
    <3>2. CASE j = m + 1
      <4>1. s[i] \in Given(buf)
        BY <1>9, <3>1
      <4>2. s[i] < h
        BY <1>0, <4>1 DEF DeliveryInv
      <4> QED BY <1>7, <3>1, <3>2, <4>2
    <3>3. CASE j \in 1..m
      <4>1. s[i] < s[j]
        BY <1>3, <1>5, <2>1, <3>1, <3>3 DEF OrderInv, s
      <4> QED BY <1>7, <3>1, <3>3, <4>1
    <3> QED BY <1>5, <3>2, <3>3
  <2>2. ASSUME NEW d \in Datagrams
        PROVE  \A i, j \in DOMAIN got'[d] : i < j => got'[d][i] < got'[d][j]
    <3>1. CASE d = buf
      BY <1>7, <1>8, <2>1, <3>1
    <3>2. CASE d # buf
      BY <1>8, <3>2 DEF OrderInv
    <3> QED BY <3>1, <3>2
  <2> QED BY <2>2 DEF OrderInv
<1>13. PlacesInv'
  <2>1. \A d \in fresh' : got'[d] = <<>>
    BY <1>0, <1>1, <1>3, <1>8 DEF PlacesInv, TypeOK
  <2>2. ASSUME NEW p \in Fds, NEW i \in DOMAIN inbox[p]
        PROVE  inbox[p][i] # buf /\ got'[inbox[p][i]] = <<>>
    <3>1. inbox[p][i] # buf /\ got[inbox[p][i]] = <<>>
      BY <1>0 DEF PlacesInv
    <3>2. inbox[p][i] \in Datagrams
      BY <1>0 DEF TypeOK
    <3> QED BY <1>8, <3>1, <3>2
  <2> QED BY <1>0, <1>1, <1>3, <2>1, <2>2 DEF PlacesInv
<1> QED BY <1>11, <1>12, <1>13

LEMMA ArrivesDatagrams ==
    ASSUME HubInv, DatagramInv, NEW p \in Fds, NEW d \in Datagrams, Arrives(d, p)
    PROVE  DatagramInv'
<1> USE DEF DatagramInv
<1>0. TypeOK
  BY DEF HubInv, SocketsMatchCallbacks
<1> DEFINE s == inbox[p]
           m == Len(s)
<1>1. s \in Seq(Datagrams) /\ m \in Nat /\ DOMAIN s = 1..m
  BY <1>0 DEF TypeOK
<1>2. PICK t : t = Append(s, d)
  OBVIOUS
<1>3. DOMAIN t = 1..(m + 1) /\ t[m + 1] = d /\ \A i \in 1..m : t[i] = s[i]
  BY <1>1, <1>2
<1>4. inbox'[p] = t /\ \A q \in Fds \ {p} : inbox'[q] = inbox[q]
  BY <1>0, <1>2 DEF Arrives, TypeOK
<1>5. d \in fresh /\ got[d] = <<>> /\ fresh' = fresh \ {d}
  BY DEF Arrives, PlacesInv
<1>6. /\ UNCHANGED <<m_callbacks, m_open_sockets, bound, stray, port, pc, buf, todo, got>>
      /\ sent_to' = [sent_to EXCEPT ![d] = bound[p]]
  BY DEF Arrives, hub, data
<1>10. sent_to'[d] = bound[p] /\ \A e \in Datagrams \ {d} : sent_to'[e] = sent_to[e]
  BY <1>0, <1>6 DEF TypeOK
<1> HIDE DEF m
<1>7. ASSUME NEW q \in Fds, NEW i \in DOMAIN inbox'[q]
      PROVE  \/ q = p /\ i = m + 1 /\ inbox'[q][i] = d
             \/ i \in DOMAIN inbox[q] /\ inbox'[q][i] = inbox[q][i] /\ inbox'[q][i] # d
  <2>1. CASE q = p
    <3>1. i \in 1..(m + 1)
      BY <1>3, <1>4, <1>7, <2>1
    <3>2. i = m + 1 \/ i \in 1..m
      BY <1>1, <3>1
    <3>3. i \in 1..m => s[i] # d
      BY <1>1, <1>5 DEF PlacesInv
    <3> QED BY <1>1, <1>3, <1>4, <2>1, <3>2, <3>3
  <2>2. CASE q # p
    BY <1>4, <1>5, <1>7, <2>2 DEF PlacesInv
  <2> QED BY <2>1, <2>2
<1>8. PlacesInv'
  <2>1. \A e \in fresh' : got'[e] = <<>>
    BY <1>5, <1>6 DEF PlacesInv
  <2>2. \A q \in Fds : \A i \in DOMAIN inbox'[q] :
           /\ got[inbox'[q][i]] = <<>> /\ inbox'[q][i] \notin fresh'
           /\ sent_to'[inbox'[q][i]] = bound[q]
    <3>1. \A q \in Fds : \A i \in DOMAIN inbox[q] : inbox[q][i] \in Datagrams
      BY <1>0 DEF TypeOK
    <3> QED BY <1>5, <1>7, <1>10, <3>1 DEF PlacesInv
  <2>3. ASSUME NEW q \in Fds, NEW i \in DOMAIN inbox'[q],
               NEW r \in Fds, NEW j \in DOMAIN inbox'[r], inbox'[q][i] = inbox'[r][j]
        PROVE  q = r /\ i = j
    <3>1. CASE inbox'[q][i] = d
      <4>1. q = p /\ i = m + 1
        BY <1>7, <3>1
      <4>2. inbox'[r][j] = d
        BY <2>3, <3>1
      <4>3. r = p /\ j = m + 1
        BY <1>7, <4>2
      <4> QED BY <4>1, <4>3
    <3>2. CASE inbox'[q][i] # d
      <4>1. i \in DOMAIN inbox[q] /\ inbox'[q][i] = inbox[q][i]
        BY <1>7, <3>2
      <4>2. j \in DOMAIN inbox[r] /\ inbox'[r][j] = inbox[r][j]
        BY <1>7, <2>3, <3>2
      <4>3. inbox[q][i] = inbox[r][j]
        BY <2>3, <4>1, <4>2
      <4> QED BY <4>1, <4>2, <4>3, OnePlace
    <3> QED BY <3>1, <3>2
  <2>4. pc \in {"pop", "deliver"} =>
           /\ buf \in Datagrams \ fresh' /\ buf # d
           /\ port \notin stray => sent_to'[buf] = port
    BY <1>5, <1>10 DEF PlacesInv
  <2>5. pc = "pop" =>
           /\ got[buf] = <<>>
           /\ \A q \in Fds : \A i \in DOMAIN inbox'[q] : inbox'[q][i] = buf => q = socketFd /\ i = 1
    BY <1>7, <2>4 DEF PlacesInv
  <2>6. pc = "deliver" => \A q \in Fds : \A i \in DOMAIN inbox'[q] : inbox'[q][i] # buf
    BY <1>7, <2>4 DEF PlacesInv
  <2>7. socketFd' = socketFd
    BY <1>6 DEF socketFd
  <2> QED BY <1>6, <2>1, <2>2, <2>3, <2>4, <2>5, <2>6, <2>7 DEF PlacesInv
<1>9. DeliveryInv' /\ OrderInv'
  BY <1>6 DEF DeliveryInv, OrderInv, Given, Registered
<1> QED BY <1>8, <1>9

LEMMA DatagramInvariance == Spec => []DatagramInv
<1>1. HubInv /\ DatagramInv /\ [Next]_vars => DatagramInv'
  <2> SUFFICES ASSUME HubInv, DatagramInv, [Next]_vars PROVE DatagramInv'
    OBVIOUS
  <2>1. CASE ReadTask \/ ReopenFails \/ Reopen
    BY <2>1, QuietDatagrams, PeekDatagrams, PopDatagrams, DeliverDatagrams DEF ReadTask
  <2>2. CASE CallsBack \/ UNCHANGED vars
    BY <2>2, QuietDatagrams
  <2>3. CASE \E p \in Ports : onReceive(p)
    BY <2>3, QuietDatagrams
  <2>4. CASE \E h \in Handles : removeCallback(h)
    BY <2>4, QuietDatagrams
  <2>5. CASE \E fd \in Fds : \/ OthersOpen(fd)
                             \/ OthersClose(fd)
                             \/ \E d \in Datagrams : Arrives(d, fd)
    BY <2>5, QuietDatagrams, ArrivesDatagrams
  <2> QED BY <2>1, <2>2, <2>3, <2>4, <2>5 DEF Next
<1> QED BY <1>1, InitDatagrams, HubInvariance, PTL DEF Spec

\* Every callback that was registered when a datagram was read is given it once,
\* in the order of registration, and nobody else is: the mutex keeps the users out
\* of the round, and the map of callbacks is in order.  It was sent to their port
\* unless the port's descriptor was closed by somebody else (rbudp.cpp 154-197).
THEOREM InOrderOnce == Spec => []GivenOnceInOrder
<1>1. DatagramInv => GivenOnceInOrder
  BY DEF DatagramInv, GivenOnceInOrder, PlacesInv, OrderInv, DeliveryInv, Given
<1> QED BY <1>1, DatagramInvariance, PTL

=============================================================================
