------------------------------ MODULE TcpProofs ------------------------------
(***************************************************************************)
(* Theorems about what serves TCP connections.  First one rb::Tcp socket,  *)
(* for every size of the buffer, every amount of data and any number of    *)
(* callbacks; then the web server and the files it serves, for every set   *)
(* of descriptors, backends and files and every chunk length.              *)
(***************************************************************************)
EXTENDS TcpLink, WebFiles, SequenceTheorems, FiniteSetTheorems, WellFoundedInduction, TLAPS

-----------------------------------------------------------------------------
(* Numbers.                                                                  *)

\* Naturals have a least element: by well-foundedness, in place of an induction.
LEMMA LeastElement ==
    ASSUME NEW T \in SUBSET Nat, T # {}
    PROVE  \E x \in T : \A y \in T : x <= y
<1> DEFINE R == {ss \in Nat \X Nat : ss[1] < ss[2]}
<1>1. R = OpToRel(<, Nat)
  BY DEF OpToRel
<1>2. IsWellFoundedOn(R, Nat)
  BY <1>1, NatLessThanWellFounded, Zenon
<1> HIDE DEF R
<1>3. PICK x \in T : \A y \in T : ~ (<<y, x>> \in R)
  BY <1>2, WFMin
<1>4. ASSUME NEW y \in T PROVE x <= y
  <2>1. <<y, x>> \in Nat \X Nat /\ <<y, x>> \notin R
    BY <1>3
  <2>2. ~(y < x)
    BY <2>1 DEF R
  <2> QED BY <2>2
<1> QED BY <1>3, <1>4

\* Powers of two, counted as the subsets of 1..n.
LEMMA TwoExp == \A n \in Nat : 2^n \in Nat /\ 2^(n + 1) = 2 * 2^n
<1> SUFFICES ASSUME NEW n \in Nat PROVE 2^n \in Nat /\ 2^(n + 1) = 2 * 2^n
  OBVIOUS
<1> DEFINE S == SUBSET (1..n)
           T == {A \cup {n + 1} : A \in S}
           U == SUBSET (1..(n + 1))
<1>1. /\ IsFiniteSet(S) /\ Cardinality(S) = 2^n /\ Cardinality(S) \in Nat
      /\ IsFiniteSet(U) /\ Cardinality(U) = 2^(n + 1)
  <2>1. IsFiniteSet(1..n) /\ Cardinality(1..n) = n
    BY FS_Interval
  <2>2. IsFiniteSet(1..(n+1)) /\ Cardinality(1..(n + 1)) = n + 1
    BY FS_Interval
  <2>3. IsFiniteSet(S) /\ Cardinality(S) = 2^Cardinality(1..n)
    BY <2>1, FS_SUBSET
  <2>4. IsFiniteSet(U) /\ Cardinality(U) = 2^Cardinality(1..(n+1))
    BY <2>2, FS_SUBSET
  <2>5. Cardinality(S) \in Nat
    BY <2>3, FS_CardinalityType
  <2> QED BY <2>1, <2>2, <2>3, <2>4, <2>5
<1>2. IsFiniteSet(T) /\ Cardinality(T) = Cardinality(S)
  <2> DEFINE f == [A \in S |-> A \cup {n + 1}]
  <2>1. f \in Bijection(S, T)
    <3>1. \A A \in S : n + 1 \notin A
      OBVIOUS
    <3>2. ASSUME NEW A \in S, NEW B \in S, A \cup {n + 1} = B \cup {n + 1}
          PROVE  A = B
      <4>1. n + 1 \notin A /\ n + 1 \notin B
        BY <3>1
      <4> QED BY <3>2, <4>1
    <3>3. f \in [S -> T]
      OBVIOUS
    <3>4. f \in Injection(S, T)
      BY <3>2, <3>3 DEF Injection, IsInjective
    <3>5. f \in Surjection(S, T)
      BY <3>3 DEF Surjection
    <3> QED BY <3>4, <3>5 DEF Bijection
  <2> QED BY <1>1, <2>1, FS_Bijection DEF ExistsBijection
<1>3. S \cap T = {} /\ S \cup T = U
  <2>1. S \cap T = {}
    OBVIOUS
  <2>2. ASSUME NEW A \in U PROVE A \in S \cup T
    <3>1. CASE n + 1 \in A
      <4>1. A \ {n + 1} \in S
        OBVIOUS
      <4>2. A = (A \ {n + 1}) \cup {n + 1}
        BY <3>1
      <4> QED BY <4>1, <4>2
    <3>2. CASE n + 1 \notin A
      BY <3>2
    <3> QED BY <3>1, <3>2
  <2>3. S \cup T \subseteq U
    <3>1. 1..n \subseteq 1..(n + 1) /\ n + 1 \in 1..(n + 1)
      OBVIOUS
    <3> QED BY <3>1
  <2> QED BY <2>1, <2>2, <2>3
<1> HIDE DEF S, T, U
<1>4. Cardinality(U) = Cardinality(S) + Cardinality(T) - Cardinality(S \cap T)
  BY <1>1, <1>2, <1>3, FS_Union
<1>5. Cardinality(S \cap T) = 0
  BY <1>3, FS_EmptySet
<1> QED BY <1>1, <1>2, <1>4, <1>5

-----------------------------------------------------------------------------
(* The destructor.                                                           *)

Ends == {"none", "fin", "reset"}
Calls == [op : {"none", "onReceive", "removeCallback"}, handle : Nat]
Buffers == [size : Nat, capacity : Nat, data : Seq(Nat)]
Peers == [sent : Nat, read : Nat, end : Ends]

\* the task has the mutex except while it sleeps; a task that ends takes it along
LockInv ==
    /\ reader \in {"never", "begin", "asleep", "reading", "calling", "reopening",
                   "deleted", "reused"}
    /\ locked <=> reader \in {"reading", "calling", "reopening", "deleted", "reused"}

\* what the task and the destructor know of each other
DestructorInv ==
    /\ m_fd \in {-1, 1, 2} /\ destructor \in {"none", "polling", "returned"}
    /\ destructor # "none" => m_fd \in {-1, 2}
    /\ m_fd = -1 /\ reader # "never" => destructor # "none"
    /\ reader \in {"deleted", "reused"} => m_fd = -1
    /\ reader = "reopening" => m_fd = -1
    /\ m_fd = 2 => destructor = "polling" /\ reader \in {"asleep", "reading", "calling"}
    /\ destructor = "returned" => reader \in {"never", "deleted", "reused"}

FdInv == LockInv /\ DestructorInv

LEMMA StepFdInv == FdInv /\ [Next]_vars => FdInv'
<1> SUFFICES ASSUME FdInv, [Next]_vars PROVE FdInv'
  OBVIOUS
<1> USE DEF FdInv, LockInv, DestructorInv
<1>1. CASE UNCHANGED <<m_fd, locked, reader, destructor>>
  BY <1>1
<1>2. CASE PeerSends \/ PeerEnds \/ Ask \/ onReceive \/ removeCallback
  BY <1>1, <1>2 DEF PeerSends, PeerEnds, Ask, onReceive, removeCallback
<1>3. CASE Begin \/ Wake \/ IdleFrees \/ RecvBad
  BY <1>3 DEF Begin, Wake, IdleFrees, RecvBad
<1>4. CASE RecvFails \/ CallbacksDone
  BY <1>4 DEF RecvFails, CallbacksDone, Sleep
<1>5. CASE Recv
  BY <1>5 DEF Recv
<1>6. CASE Callback
  BY <1>6 DEF Callback
<1>7. CASE reopenSocketLocked
  BY <1>7 DEF reopenSocketLocked, Sleep
<1>8. CASE Close
  BY <1>8 DEF Close
<1>9. CASE Poll \/ PollGarbage
  BY <1>9 DEF Poll, PollGarbage
<1>10. CASE UNCHANGED vars
  BY <1>1, <1>10 DEF vars
<1> QED BY <1>2, <1>3, <1>4, <1>5, <1>6, <1>7, <1>8, <1>9, <1>10 DEF Next, ReadTask

LEMMA FdInvariance == Spec => []FdInv
<1>1. Init => FdInv
  BY DEF Init, FdInv, LockInv, DestructorInv
<1> QED BY <1>1, StepFdInv, PTL DEF Spec

\* The object is freed after its task has ended, or when it never had one, and a socket
\* is opened again only under a destructor.
THEOREM DestructorIsLast == Spec => []DestructorWaits
<1>1. FdInv => DestructorWaits
  BY DEF FdInv, DestructorInv, DestructorWaits
<1> QED BY <1>1, FdInvariance, PTL

-----------------------------------------------------------------------------
(* The data.                                                                 *)

TypesInv ==
    /\ buf \in Buffers /\ peer \in Peers /\ peer.read <= peer.sent
    /\ at \in Nat /\ caller \in Calls
    /\ m_cbCounter \in 0..MaxHandles /\ m_callbacks \subseteq 1..m_cbCounter
    /\ caller.op = "removeCallback" => caller.handle \in 1..m_cbCounter
    /\ heard \in [Handles -> [since : Nat, bytes : Seq(Nat)]]
    /\ gaps \in Seq(SUBSET Nat)

\* the bytes handed over or lost before the ones in the buffer
Settled == peer.read - Len(buf.data)

\* the buffer holds the last bytes read
BufferInv ==
    /\ Len(buf.data) <= peer.read
    /\ \A i \in 1..Len(buf.data) : buf.data[i] = Settled + i
    /\ reader \notin {"reading", "calling", "reopening"} => buf.data = <<>>
    /\ reader = "reading" => Len(buf.data) <= buf.size

\* how far a callback has been told, in the middle of a round
ToldUpTo(h) == IF reader = "calling" /\ h <= at THEN peer.read ELSE Settled

HeardInv ==
    \A h \in m_callbacks :
       /\ heard[h].since <= Settled
       /\ \A i \in 1..Len(heard[h].bytes) : heard[h].bytes[i] <= ToldUpTo(h)
       /\ \A i, j \in 1..Len(heard[h].bytes) :
             i < j => heard[h].bytes[i] < heard[h].bytes[j]
       /\ m_fd = 1 => ToSet(heard[h].bytes) = ((heard[h].since + 1)..ToldUpTo(h)) \ Lost

LostInv == \A n \in Lost : n <= Settled

DataInv == TypesInv /\ BufferInv /\ HeardInv /\ LostInv

-----------------------------------------------------------------------------
(* The sizes of the buffer.                                                  *)

\* the buffer after n losses
Doubled(n) == FirstSize * 2^n

SizeInv ==
    /\ buf.capacity >= Doubled(Len(gaps))
    /\ reader = "reading" =>
          \/ buf.data = <<>> /\ buf.size = buf.capacity
          \/ /\ Len(buf.data) \in Doubled(Len(gaps))..(FullSize - 1)
             /\ Len(buf.data) < buf.size
             /\ buf.capacity >= 2 * Doubled(Len(gaps))

LossInv == \A i \in 1..Len(gaps) : Cardinality(gaps[i]) \in Doubled(i - 1)..(FullSize - 1)

-----------------------------------------------------------------------------
(* Lemmas about the operators of the model.                                  *)

LEMMA BufferTypes ==
    ASSUME buf \in Buffers
    PROVE  /\ buf.size \in Nat /\ buf.capacity \in Nat /\ buf.data \in Seq(Nat)
           /\ Len(buf.data) \in Nat
BY DEF Buffers

LEMMA PeerTypes ==
    ASSUME peer \in Peers
    PROVE  peer.sent \in Nat /\ peer.read \in Nat /\ peer.end \in Ends
BY DEF Peers

LEMMA HeardTypes ==
    ASSUME heard \in [Handles -> [since : Nat, bytes : Seq(Nat)]], NEW h \in Handles
    PROVE  /\ heard[h].since \in Nat /\ heard[h].bytes \in Seq(Nat)
           /\ Len(heard[h].bytes) \in Nat
OBVIOUS

\* The bytes that are read next.
LEMMA NumbersType ==
    ASSUME NEW first \in Nat, NEW n \in Nat
    PROVE  /\ Numbers(first + 1, n) \in Seq(Nat) /\ Len(Numbers(first + 1, n)) = n
           /\ \A i \in 1..n : Numbers(first + 1, n)[i] = first + i
<1>1. \A i \in 1..n : first + 1 + i - 1 \in Nat /\ first + 1 + i - 1 = first + i
  OBVIOUS
<1>2. Numbers(first + 1, n) \in [1..n -> Nat]
  BY <1>1 DEF Numbers
<1>3. Numbers(first + 1, n) \in Seq(Nat) /\ Len(Numbers(first + 1, n)) = n
  BY <1>2, SeqDef
<1> QED BY <1>1, <1>3 DEF Numbers

\* The callback that is called next is the first one behind the last.
LEMMA FirstIsLeast ==
    ASSUME NEW S \in SUBSET Nat, S # {}
    PROVE  First(S) \in S /\ \A other \in S : First(S) <= other
BY LeastElement DEF First

\* The elements of a sequence, and of two in a row.
LEMMA ToSetConcat ==
    ASSUME NEW s \in Seq(Nat), NEW t \in Seq(Nat)
    PROVE  ToSet(s \o t) = ToSet(s) \cup ToSet(t)
<1>1. /\ s \o t \in Seq(Nat) /\ Len(s \o t) = Len(s) + Len(t)
      /\ \A i \in 1..(Len(s) + Len(t)) :
            (s \o t)[i] = IF i <= Len(s) THEN s[i] ELSE t[i - Len(s)]
  BY ConcatProperties
<1>2. /\ DOMAIN (s \o t) = 1..(Len(s) + Len(t))
      /\ DOMAIN s = 1..Len(s) /\ DOMAIN t = 1..Len(t)
      /\ Len(s) \in Nat /\ Len(t) \in Nat
  BY <1>1
<1>3. ASSUME NEW x \in ToSet(s \o t) PROVE x \in ToSet(s) \cup ToSet(t)
  <2>1. PICK i \in 1..(Len(s) + Len(t)) : x = (s \o t)[i]
    BY <1>2, <1>3 DEF ToSet
  <2>2. CASE i <= Len(s)
    BY <1>1, <1>2, <2>1, <2>2 DEF ToSet
  <2>3. CASE ~(i <= Len(s))
    <3>1. i - Len(s) \in 1..Len(t)
      BY <1>2, <2>1, <2>3
    <3> QED BY <1>1, <1>2, <2>1, <2>3, <3>1 DEF ToSet
  <2> QED BY <2>2, <2>3
<1>4. ASSUME NEW x \in ToSet(s) PROVE x \in ToSet(s \o t)
  <2>1. PICK i \in 1..Len(s) : x = s[i]
    BY <1>2, <1>4 DEF ToSet
  <2>2. i \in 1..(Len(s) + Len(t)) /\ (s \o t)[i] = x
    BY <1>1, <1>2, <2>1
  <2> QED BY <1>2, <2>2 DEF ToSet
<1>5. ASSUME NEW x \in ToSet(t) PROVE x \in ToSet(s \o t)
  <2>1. PICK i \in 1..Len(t) : x = t[i]
    BY <1>2, <1>5 DEF ToSet
  <2>2. /\ Len(s) + i \in 1..(Len(s) + Len(t)) /\ ~(Len(s) + i <= Len(s))
        /\ Len(s) + i - Len(s) = i
    BY <1>2, <2>1
  <2>3. (s \o t)[Len(s) + i] = x
    BY <1>1, <2>1, <2>2
  <2> QED BY <1>2, <2>2, <2>3 DEF ToSet
<1> QED BY <1>3, <1>4, <1>5

\* Increasing numbers go on with a stretch that begins behind them.
LEMMA OrderContinues ==
    ASSUME NEW s \in Seq(Nat), NEW t \in Seq(Nat), NEW n \in Nat, NEW m \in Nat,
           n + Len(t) = m,
           \A i \in 1..Len(t) : t[i] = n + i,
           \A i \in 1..Len(s) : s[i] <= n,
           \A i, j \in 1..Len(s) : i < j => s[i] < s[j]
    PROVE  /\ \A i \in 1..Len(s \o t) : (s \o t)[i] <= m
           /\ \A i, j \in 1..Len(s \o t) : i < j => (s \o t)[i] < (s \o t)[j]
<1> DEFINE all == s \o t
<1>1. /\ all \in Seq(Nat) /\ Len(all) = Len(s) + Len(t)
      /\ \A i \in 1..(Len(s) + Len(t)) :
            all[i] = IF i <= Len(s) THEN s[i] ELSE t[i - Len(s)]
  BY ConcatProperties
<1>2. Len(s) \in Nat /\ Len(t) \in Nat
  OBVIOUS
<1> HIDE DEF all
<1>3. \A i \in 1..Len(s) : all[i] = s[i] /\ all[i] \in Nat /\ all[i] <= n
  <2> SUFFICES ASSUME NEW i \in 1..Len(s)
               PROVE  all[i] = s[i] /\ all[i] \in Nat /\ all[i] <= n
    OBVIOUS
  <2>1. i \in 1..(Len(s) + Len(t)) /\ i <= Len(s) /\ s[i] \in Nat
    BY <1>2
  <2> QED BY <1>1, <2>1
<1>4. \A i \in (Len(s) + 1)..(Len(s) + Len(t)) : all[i] = n + (i - Len(s))
  <2> SUFFICES ASSUME NEW i \in (Len(s) + 1)..(Len(s) + Len(t))
               PROVE  all[i] = n + (i - Len(s))
    OBVIOUS
  <2>1. /\ i \in 1..(Len(s) + Len(t)) /\ ~(i <= Len(s))
        /\ i - Len(s) \in 1..Len(t)
    BY <1>2
  <2> QED BY <1>1, <2>1
<1>5. ASSUME NEW i \in 1..Len(all) PROVE all[i] <= m
  <2>1. CASE i <= Len(s)
    <3>1. i \in 1..Len(s)
      BY <1>1, <1>2, <1>5, <2>1
    <3> QED BY <1>2, <1>3, <3>1
  <2>2. CASE ~(i <= Len(s))
    <3>1. i \in (Len(s) + 1)..(Len(s) + Len(t))
      BY <1>1, <1>2, <1>5, <2>2
    <3> QED BY <1>2, <1>4, <3>1
  <2> QED BY <2>1, <2>2
<1>6. ASSUME NEW i \in 1..Len(all), NEW j \in 1..Len(all), i < j
      PROVE  all[i] < all[j]
  <2>1. i \in 1..(Len(s) + Len(t)) /\ j \in 1..(Len(s) + Len(t))
    BY <1>1, <1>6
  <2>2. CASE j <= Len(s)
    <3>1. i \in 1..Len(s) /\ j \in 1..Len(s)
      BY <1>2, <1>6, <2>1, <2>2
    <3> QED BY <1>3, <1>6, <3>1
  <2>3. CASE i <= Len(s) /\ ~(j <= Len(s))
    <3>1. i \in 1..Len(s) /\ j \in (Len(s) + 1)..(Len(s) + Len(t))
      BY <1>2, <2>1, <2>3
    <3>2. all[i] \in Nat /\ all[i] <= n /\ all[j] = n + (j - Len(s))
      BY <1>3, <1>4, <3>1
    <3> QED BY <1>2, <3>1, <3>2
  <2>4. CASE ~(i <= Len(s)) /\ ~(j <= Len(s))
    <3>1. i \in (Len(s) + 1)..(Len(s) + Len(t)) /\ j \in (Len(s) + 1)..(Len(s) + Len(t))
      BY <1>2, <2>1, <2>4
    <3>2. all[i] = n + (i - Len(s)) /\ all[j] = n + (j - Len(s))
      BY <1>4, <3>1
    <3> QED BY <1>2, <1>6, <3>1, <3>2
  <2>5. i <= Len(s) \/ ~(j <= Len(s))
    BY <1>2, <1>6, <2>1
  <2> QED BY <2>2, <2>3, <2>4, <2>5
<1> QED BY <1>5, <1>6 DEF all

LEMMA StretchContinues ==
    ASSUME NEW a \in Nat, NEW n \in Nat, NEW m \in Nat, a <= n, n <= m,
           NEW L \in SUBSET (0..n)
    PROVE  (((a + 1)..n) \ L) \cup ((n + 1)..m) = ((a + 1)..m) \ L
OBVIOUS

\* What the buffer holds is the stretch of bytes that was read last.
LEMMA BufferIsStretch ==
    ASSUME TypesInv, BufferInv
    PROVE  /\ Settled \in Nat
           /\ ToSet(buf.data) = (Settled + 1)..peer.read
<1>1. /\ buf.data \in Seq(Nat) /\ Len(buf.data) \in Nat /\ peer.read \in Nat
      /\ Len(buf.data) <= peer.read /\ DOMAIN buf.data = 1..Len(buf.data)
      /\ \A i \in 1..Len(buf.data) : buf.data[i] = Settled + i
  BY BufferTypes, PeerTypes DEF TypesInv, BufferInv
<1>2. Settled \in Nat /\ Settled + Len(buf.data) = peer.read
  BY <1>1 DEF Settled
<1>3. ASSUME NEW n \in (Settled + 1)..peer.read PROVE n \in ToSet(buf.data)
  <2>1. n - Settled \in 1..Len(buf.data) /\ Settled + (n - Settled) = n
    BY <1>1, <1>2
  <2> QED BY <1>1, <2>1 DEF ToSet
<1>4. ASSUME NEW n \in ToSet(buf.data) PROVE n \in (Settled + 1)..peer.read
  <2>1. PICK i \in 1..Len(buf.data) : n = Settled + i
    BY <1>1, <1>4 DEF ToSet
  <2> QED BY <1>1, <1>2, <2>1
<1> QED BY <1>2, <1>3, <1>4

\* One more stretch is lost.
LEMMA LostGrows ==
    ASSUME gaps \in Seq(SUBSET Nat), NEW S \in SUBSET Nat, gaps' = Append(gaps, S)
    PROVE  /\ gaps' \in Seq(SUBSET Nat) /\ Len(gaps') = Len(gaps) + 1
           /\ gaps'[Len(gaps) + 1] = S
           /\ \A i \in 1..Len(gaps) : gaps'[i] = gaps[i]
           /\ Lost' = Lost \cup S
<1>1. /\ gaps' \in Seq(SUBSET Nat) /\ Len(gaps') = Len(gaps) + 1
      /\ gaps'[Len(gaps) + 1] = S
      /\ \A i \in 1..Len(gaps) : gaps'[i] = gaps[i]
  BY AppendProperties
<1>2. /\ DOMAIN gaps = 1..Len(gaps) /\ DOMAIN gaps' = 1..(Len(gaps) + 1)
      /\ Len(gaps) \in Nat
  BY <1>1
<1>3. ToSet(gaps') = ToSet(gaps) \cup {S}
  BY <1>1, <1>2 DEF ToSet
<1>4. Lost' = UNION ToSet(gaps') /\ Lost = UNION ToSet(gaps)
  BY DEF Lost
<1>5. UNION (ToSet(gaps) \cup {S}) = (UNION ToSet(gaps)) \cup S
  OBVIOUS
<1> QED BY <1>1, <1>3, <1>4, <1>5

-----------------------------------------------------------------------------
(* What the callbacks hear.                                                  *)

LEMMA InitDataInv == Init => DataInv
<1> SUFFICES ASSUME Init PROVE DataInv
  OBVIOUS
<1> USE DEF Init
<1>1. /\ buf \in Buffers /\ buf.data = <<>> /\ Len(buf.data) = 0
  BY TcpAssumption DEF Buffers
<1>2. /\ peer \in Peers /\ peer.read = 0 /\ peer.sent = 0
  BY DEF Peers, Ends
<1>3. /\ caller \in Calls /\ caller.op = "none"
  BY DEF Calls, Idle
<1>4. gaps \in Seq(SUBSET Nat) /\ Lost = {}
  BY DEF Lost, ToSet
<1>5. TypesInv
  BY <1>1, <1>2, <1>3, <1>4, TcpAssumption DEF TypesInv, Deaf
<1>6. BufferInv /\ HeardInv /\ LostInv
  BY <1>1, <1>2, <1>4 DEF BufferInv, HeardInv, LostInv
<1> QED BY <1>5, <1>6 DEF DataInv

LEMMA CallbackHandles ==
    ASSUME TypesInv
    PROVE  m_callbacks \subseteq Handles /\ m_callbacks \subseteq Nat \ {0}
BY TcpAssumption DEF TypesInv, Handles

\* What is lost was read.
LEMMA LostNumbers ==
    ASSUME TypesInv, LostInv, Settled \in Nat
    PROVE  Lost \subseteq 0..Settled
<1>1. Lost \subseteq Nat
  BY DEF Lost, ToSet, TypesInv
<1> QED BY <1>1 DEF LostInv

\* Steps that touch neither the data nor the callbacks.
LEMMA QuietStep ==
    ASSUME DataInv, UNCHANGED <<buf, heard, gaps, m_callbacks, m_cbCounter>>,
           peer' \in Peers, peer'.read = peer.read, peer'.read <= peer'.sent,
           m_fd' = 1 => m_fd = 1,
           caller' \in Calls,
           caller'.op = "removeCallback" => caller'.handle \in 1..m_cbCounter,
           \/ reader' = reader /\ at' = at
           \/ /\ reader # "calling" /\ reader' # "calling" /\ at' \in Nat
              /\ buf.data = <<>> \/ reader' \in {"reading", "reopening"}
              /\ reader' = "reading" => Len(buf.data) <= buf.size
    PROVE  DataInv'
<1>1. Settled' = Settled /\ Lost' = Lost
  BY DEF Settled, Lost
<1>2. \A h \in m_callbacks : ToldUpTo(h)' = ToldUpTo(h)
  BY <1>1 DEF ToldUpTo
<1>3. TypesInv' /\ BufferInv' /\ LostInv'
  <2>1. TypesInv' /\ LostInv'
    BY <1>1 DEF DataInv, TypesInv, LostInv
  <2>2. BufferInv'
    BY <1>1 DEF DataInv, BufferInv
  <2> QED BY <2>1, <2>2
<1>4. HeardInv'
  BY <1>1, <1>2 DEF DataInv, HeardInv
<1> QED BY <1>3, <1>4 DEF DataInv

\* A round that ends: all that was in the buffer was handed over or is lost.
LEMMA SleepStep ==
    ASSUME FdInv, DataInv, RecvFails \/ CallbacksDone
    PROVE  DataInv'
<1>1. /\ buf \in Buffers /\ peer \in Peers /\ peer' = peer
      /\ UNCHANGED <<heard, m_callbacks, m_cbCounter, caller, m_fd>>
      /\ buf' = [buf EXCEPT !.data = <<>>] /\ at' = 0 /\ reader' = "asleep"
  BY DEF DataInv, TypesInv, RecvFails, CallbacksDone, Sleep
<1>2. /\ buf' \in Buffers /\ buf'.data = <<>> /\ Len(buf'.data) = 0
  BY <1>1, EmptySeq DEF Buffers
<1>3. /\ Settled \in Nat /\ ToSet(buf.data) = (Settled + 1)..peer.read
      /\ Settled <= peer.read /\ peer.read \in Nat
  BY <1>1, BufferIsStretch, BufferTypes, PeerTypes DEF DataInv, Settled
<1>4. Settled' = peer.read
  BY <1>1, <1>2, <1>3 DEF Settled
<1>5. \A h \in m_callbacks : ToldUpTo(h)' = peer.read
  BY <1>1, <1>4 DEF ToldUpTo
<1>6. CASE RecvFails
  <2>1. /\ gaps' \in Seq(SUBSET Nat)
        /\ Lost' = Lost \cup ((Settled + 1)..peer.read)
    <3>1. CASE buf.data = <<>>
      <4>1. ToSet(buf.data) = {} /\ gaps' = gaps
        BY <1>6, <3>1 DEF RecvFails, ToSet
      <4> QED BY <1>3, <4>1 DEF DataInv, TypesInv, Lost
    <3>2. CASE buf.data # <<>>
      <4>1. gaps' = Append(gaps, ToSet(buf.data)) /\ ToSet(buf.data) \in SUBSET Nat
        BY <1>3, <1>6, <3>2 DEF RecvFails
      <4>2. gaps \in Seq(SUBSET Nat)
        BY DEF DataInv, TypesInv
      <4> QED BY <1>3, <4>1, <4>2, LostGrows
    <3> QED BY <3>1, <3>2
  <2>2. TypesInv'
    BY <1>1, <1>2, <2>1 DEF DataInv, TypesInv
  <2>3. BufferInv' /\ LostInv'
    <3>1. Lost \subseteq 0..Settled
      BY <1>3, LostNumbers DEF DataInv
    <3>2. \A n \in Lost' : n <= Settled'
      BY <1>3, <1>4, <2>1, <3>1
    <3> QED BY <1>1, <1>2, <1>3, <3>2 DEF BufferInv, LostInv
  <2>4. \A h \in m_callbacks : ToldUpTo(h) = Settled
    BY <1>6 DEF RecvFails, ToldUpTo
  <2>5. ASSUME NEW h \in m_callbacks
        PROVE  /\ heard[h].since <= peer.read
               /\ \A i \in 1..Len(heard[h].bytes) : heard[h].bytes[i] <= peer.read
               /\ m_fd = 1 => ToSet(heard[h].bytes) = ((heard[h].since + 1)..peer.read) \ Lost'
    <3>0. h \in Handles /\ h \in m_callbacks
      BY CallbackHandles DEF DataInv
    <3>1. /\ heard[h].since \in Nat /\ heard[h].bytes \in Seq(Nat)
      BY <3>0, HeardTypes DEF DataInv, TypesInv
    <3>2. /\ heard[h].since <= Settled
          /\ \A i \in 1..Len(heard[h].bytes) : heard[h].bytes[i] <= Settled
          /\ m_fd = 1 => ToSet(heard[h].bytes) = ((heard[h].since + 1)..Settled) \ Lost
      BY <2>4, <3>0 DEF DataInv, HeardInv
    <3>3. \A i \in 1..Len(heard[h].bytes) : heard[h].bytes[i] \in Nat
      BY <3>1
    <3>4. ((heard[h].since + 1)..Settled) \ Lost = ((heard[h].since + 1)..peer.read) \ Lost'
      BY <1>3, <2>1, <3>1
    <3> QED BY <1>3, <3>1, <3>2, <3>3, <3>4
  <2>6. HeardInv'
    BY <1>1, <1>4, <1>5, <2>5 DEF DataInv, HeardInv
  <2> QED BY <2>2, <2>3, <2>6 DEF DataInv
<1>7. CASE CallbacksDone
  <2>1. gaps' = gaps /\ Lost' = Lost
    BY <1>7 DEF CallbacksDone, Lost
  <2>2. TypesInv'
    BY <1>1, <1>2, <2>1 DEF DataInv, TypesInv
  <2>3. BufferInv'
    BY <1>1, <1>2, <1>3 DEF BufferInv
  <2>4. ASSUME NEW n \in Lost PROVE n <= peer.read
    <3>1. Lost \subseteq 0..Settled
      BY <1>3, LostNumbers DEF DataInv
    <3> QED BY <1>3, <3>1
  <2>5. \A h \in m_callbacks : ToldUpTo(h) = peer.read
    <3>1. ASSUME NEW h \in m_callbacks PROVE h <= at
      BY <1>7 DEF CallbacksDone, After, DataInv, TypesInv
    <3> QED BY <1>7, <3>1 DEF CallbacksDone, ToldUpTo
  <2>6. \A h \in m_callbacks : heard[h].since <= peer.read
    <3> SUFFICES ASSUME NEW h \in m_callbacks PROVE heard[h].since <= peer.read
      OBVIOUS
    <3>1. h \in Handles /\ heard[h].since <= Settled
      BY CallbackHandles DEF DataInv, HeardInv
    <3> QED BY <1>3, <3>1, HeardTypes DEF DataInv, TypesInv
  <2>7. HeardInv'
    BY <1>1, <1>4, <1>5, <2>1, <2>5, <2>6 DEF DataInv, HeardInv
  <2>8. LostInv'
    BY <1>4, <2>1, <2>4 DEF LostInv
  <2> QED BY <2>2, <2>3, <2>7, <2>8 DEF DataInv
<1> QED BY <1>6, <1>7

\* The next part of a round: the buffer goes on where it ended.
LEMMA RecvStep ==
    ASSUME FdInv, DataInv, Recv
    PROVE  DataInv'
<1> DEFINE res == Smaller(Unread, Rest)
           new == Numbers(peer.read + 1, res)
           data == Filled(new)
<1>1. /\ buf \in Buffers /\ peer \in Peers /\ peer.read <= peer.sent
      /\ UNCHANGED <<heard, m_callbacks, m_cbCounter, caller, m_fd, gaps>>
      /\ reader = "reading" /\ peer' = [peer EXCEPT !.read = @ + res]
      /\ \/ /\ buf' = [buf EXCEPT !.size = Len(data), !.data = data]
            /\ reader' = "calling" /\ at' = 0
         \/ /\ buf' = [size |-> Grown.size, capacity |-> Grown.capacity, data |-> data]
            /\ UNCHANGED <<reader, at>>
  BY DEF DataInv, TypesInv, Recv
<1>2. /\ buf.size \in Nat /\ buf.capacity \in Nat /\ buf.data \in Seq(Nat)
      /\ Len(buf.data) \in Nat /\ Len(buf.data) <= buf.size
      /\ peer.sent \in Nat /\ peer.read \in Nat /\ peer.end \in Ends
  BY <1>1, BufferTypes, PeerTypes DEF DataInv, BufferInv
<1>3. res \in Nat /\ peer.read + res <= peer.sent /\ Len(buf.data) + res <= buf.size
  BY <1>1, <1>2 DEF Smaller, Unread, Rest
<1>4. /\ new \in Seq(Nat) /\ Len(new) = res
      /\ \A i \in 1..res : new[i] = peer.read + i
  BY <1>2, <1>3, NumbersType
<1>a. data = buf.data \o new
  BY DEF Filled
<1> HIDE DEF res, new, data
<1>5. /\ data \in Seq(Nat) /\ Len(data) = Len(buf.data) + res
      /\ \A i \in 1..(Len(buf.data) + res) :
            data[i] = IF i <= Len(buf.data) THEN buf.data[i] ELSE new[i - Len(buf.data)]
  BY <1>2, <1>4, <1>a, ConcatProperties
<1>6. Grown.size \in Nat /\ Grown.size >= buf.size /\ Grown.capacity \in Nat
  BY <1>2, TcpAssumption DEF Grown, Larger
<1>7. /\ peer' \in Peers /\ peer'.read = peer.read + res /\ peer'.sent = peer.sent
  BY <1>1, <1>2, <1>3 DEF Peers
<1>8. /\ buf' \in Buffers /\ buf'.data = data
      /\ reader' = "reading" => buf'.size = Grown.size
      /\ at' \in Nat /\ reader' \in {"reading", "calling"}
      /\ reader' = "calling" => at' = 0
  <2>1. CASE /\ buf' = [buf EXCEPT !.size = Len(data), !.data = data]
             /\ reader' = "calling" /\ at' = 0
    <3>1. Len(data) \in Nat
      BY <1>2, <1>3, <1>5
    <3> QED BY <1>1, <1>5, <2>1, <3>1 DEF Buffers
  <2>2. CASE /\ buf' = [size |-> Grown.size, capacity |-> Grown.capacity, data |-> data]
             /\ UNCHANGED <<reader, at>>
    BY <1>1, <1>5, <1>6, <2>2 DEF Buffers, DataInv, TypesInv
  <2> QED BY <1>1, <2>1, <2>2
<1>9. /\ Settled' = Settled /\ Lost' = Lost /\ Settled \in Nat
      /\ Settled = peer.read - Len(buf.data)
  <2>1. Settled \in Nat /\ Lost' = Lost
    BY <1>1, BufferIsStretch DEF DataInv, Lost
  <2>2. Settled' = peer.read + res - (Len(buf.data) + res)
    <3>1. Len(buf'.data) = Len(buf.data) + res
      BY <1>5, <1>8
    <3>2. peer'.read = peer.read + res
      BY <1>7
    <3>3. Settled' = peer'.read - Len(buf'.data)
      BY DEF Settled
    <3> QED BY <1>2, <1>3, <3>1, <3>2, <3>3
  <2> QED BY <1>2, <1>3, <2>1, <2>2 DEF Settled
<1>10. TypesInv'
  BY <1>1, <1>3, <1>7, <1>8 DEF DataInv, TypesInv
<1>11. BufferInv'
  <2>1. Len(buf'.data) <= peer'.read
    BY <1>2, <1>3, <1>5, <1>7, <1>8 DEF DataInv, BufferInv
  <2>2. ASSUME NEW i \in 1..Len(data) PROVE data[i] = Settled + i
    <3>1. CASE i <= Len(buf.data)
      BY <1>2, <1>5, <2>2, <3>1 DEF DataInv, BufferInv
    <3>2. CASE ~(i <= Len(buf.data))
      <4>1. i - Len(buf.data) \in 1..res
        BY <1>2, <1>3, <1>5, <2>2, <3>2
      <4>2. data[i] = peer.read + (i - Len(buf.data))
        BY <1>4, <1>5, <2>2, <3>2, <4>1
      <4> QED BY <1>2, <1>9, <4>2
    <3> QED BY <3>1, <3>2
  <2>3. reader' = "reading" => Len(buf'.data) <= buf'.size
    BY <1>2, <1>3, <1>5, <1>6, <1>8
  <2> QED BY <1>8, <1>9, <2>1, <2>2, <2>3 DEF BufferInv
<1>12. \A h \in m_callbacks : ToldUpTo(h) = Settled /\ ToldUpTo(h)' = Settled
  <2> SUFFICES ASSUME NEW h \in m_callbacks
               PROVE  ToldUpTo(h) = Settled /\ ToldUpTo(h)' = Settled
    OBVIOUS
  <2>1. h \in Nat \ {0}
    BY CallbackHandles DEF DataInv
  <2> QED BY <1>1, <1>8, <1>9, <2>1 DEF ToldUpTo
<1>13. HeardInv'
  BY <1>1, <1>9, <1>12 DEF DataInv, HeardInv
<1>14. LostInv'
  BY <1>9 DEF DataInv, LostInv
<1> QED BY <1>10, <1>11, <1>13, <1>14 DEF DataInv

\* A callback is told the rest of what was read, after all that was settled before.
LEMMA CallbackStep ==
    ASSUME FdInv, DataInv, Callback
    PROVE  DataInv'
<1> PICK g : g = at'
  OBVIOUS
<1>1. /\ buf \in Buffers /\ peer \in Peers /\ at \in Nat
      /\ UNCHANGED <<buf, peer, m_callbacks, m_cbCounter, caller, m_fd, gaps, reader>>
      /\ reader = "calling" /\ heard' = [heard EXCEPT ![g].bytes = @ \o buf.data]
  BY DEF DataInv, TypesInv, Callback
<1>2. g \in m_callbacks /\ g > at /\ \A h \in m_callbacks : h > at => g <= h
  <2>1. After(at) \in SUBSET Nat /\ After(at) # {}
    BY CallbackHandles DEF Callback, After, DataInv
  <2>2. g \in After(at) /\ \A h \in After(at) : g <= h
    BY <2>1, FirstIsLeast DEF Callback
  <2> QED BY <2>2 DEF After
<1>3. m_callbacks \subseteq Handles /\ m_callbacks \subseteq Nat \ {0}
  BY CallbackHandles DEF DataInv
<1>4. /\ Settled \in Nat /\ ToSet(buf.data) = (Settled + 1)..peer.read
      /\ Settled + Len(buf.data) = peer.read /\ peer.read \in Nat
      /\ buf.data \in Seq(Nat) /\ Len(buf.data) \in Nat
  BY <1>1, BufferIsStretch, BufferTypes, PeerTypes DEF DataInv, Settled
<1>5. Settled' = Settled /\ Lost' = Lost
  BY <1>1 DEF Settled, Lost
<1>6. heard[g].since \in Nat /\ heard[g].bytes \in Seq(Nat) /\ Len(heard[g].bytes) \in Nat
  BY <1>2, <1>3, HeardTypes DEF DataInv, TypesInv
<1> DEFINE all == heard[g].bytes \o buf.data
<1>7. all \in Seq(Nat) /\ ToSet(all) = ToSet(heard[g].bytes) \cup ToSet(buf.data)
  <2>1. all \in Seq(Nat)
    BY <1>4, <1>6, ConcatProperties
  <2>2. ToSet(all) = ToSet(heard[g].bytes) \cup ToSet(buf.data)
    BY <1>4, <1>6, ToSetConcat
  <2> QED BY <2>1, <2>2
<1>8. heard' = [heard EXCEPT ![g] = [heard[g] EXCEPT !.bytes = all]]
  BY <1>1
<1> HIDE DEF all
<1>9. /\ heard' \in [Handles -> [since : Nat, bytes : Seq(Nat)]]
      /\ heard'[g].since = heard[g].since /\ heard'[g].bytes = all
      /\ \A h \in Handles \ {g} : heard'[h] = heard[h]
  <2>1. heard \in [Handles -> [since : Nat, bytes : Seq(Nat)]]
    BY DEF DataInv, TypesInv
  <2>2. heard[g] \in [since : Nat, bytes : Seq(Nat)] /\ g \in Handles
    BY <1>2, <1>3, <2>1
  <2> DEFINE new == [heard[g] EXCEPT !.bytes = all]
  <2>3. new \in [since : Nat, bytes : Seq(Nat)] /\ new.since = heard[g].since
        /\ new.bytes = all
    BY <1>7, <2>2
  <2> HIDE DEF new
  <2> QED BY <1>8, <2>1, <2>2, <2>3 DEF new
<1>10. TypesInv' /\ BufferInv' /\ LostInv'
  BY <1>1, <1>2, <1>3, <1>5, <1>9 DEF DataInv, TypesInv, BufferInv, LostInv
<1>11. ToldUpTo(g) = Settled /\ ToldUpTo(g)' = peer.read
  <2>1. g \in Nat /\ ~(g <= at) /\ g <= g
    BY <1>1, <1>2, <1>3
  <2>2. at' = g
    OBVIOUS
  <2> QED BY <1>1, <2>1, <2>2 DEF ToldUpTo
<1>12. /\ heard[g].since <= Settled
       /\ \A i \in 1..Len(heard[g].bytes) : heard[g].bytes[i] <= Settled
       /\ \A i, j \in 1..Len(heard[g].bytes) : i < j => heard[g].bytes[i] < heard[g].bytes[j]
       /\ m_fd = 1 => ToSet(heard[g].bytes) = ((heard[g].since + 1)..Settled) \ Lost
  BY <1>2, <1>11 DEF DataInv, HeardInv
<1>13. \A i \in 1..Len(buf.data) : buf.data[i] = Settled + i
  BY DEF DataInv, BufferInv
<1>14. /\ \A i \in 1..Len(all) : all[i] <= peer.read
       /\ \A i, j \in 1..Len(all) : i < j => all[i] < all[j]
  BY <1>4, <1>6, <1>12, <1>13, OrderContinues DEF all
<1>15. m_fd = 1 => ToSet(all) = ((heard[g].since + 1)..peer.read) \ Lost
  <2>1. Lost \subseteq 0..Settled
    BY <1>4, LostNumbers DEF DataInv
  <2>2. Settled <= peer.read
    BY <1>4
  <2>3. (((heard[g].since + 1)..Settled) \ Lost) \cup ((Settled + 1)..peer.read)
           = ((heard[g].since + 1)..peer.read) \ Lost
    BY <1>4, <1>6, <1>12, <2>1, <2>2, StretchContinues
  <2> QED BY <1>4, <1>7, <1>12, <2>3
<1>16. ASSUME NEW h \in m_callbacks \ {g}
       PROVE  ToldUpTo(h)' = ToldUpTo(h) /\ heard'[h] = heard[h]
  <2>1. h \in Handles /\ h \in Nat /\ g \in Nat
    BY <1>2, <1>3
  <2>2. h <= at <=> h <= g
    BY <1>1, <1>2, <2>1
  <2> QED BY <1>1, <1>5, <1>9, <2>1, <2>2 DEF ToldUpTo
<1>17. HeardInv'
  <2>1. ASSUME NEW h \in m_callbacks, h = g
        PROVE  /\ heard'[h].since <= Settled'
               /\ \A i \in 1..Len(heard'[h].bytes) : heard'[h].bytes[i] <= ToldUpTo(h)'
               /\ \A i, j \in 1..Len(heard'[h].bytes) :
                     i < j => heard'[h].bytes[i] < heard'[h].bytes[j]
               /\ m_fd' = 1 => ToSet(heard'[h].bytes)
                                = ((heard'[h].since + 1)..ToldUpTo(h)') \ Lost'
    <3>1. /\ heard'[g].since = heard[g].since /\ heard'[g].bytes = all
          /\ ToldUpTo(g)' = peer.read /\ Settled' = Settled /\ Lost' = Lost /\ m_fd' = m_fd
      BY <1>1, <1>5, <1>9, <1>11
    <3>2. ToldUpTo(h)' = peer.read
      BY <1>1, <1>2, <1>3, <1>5, <1>11, <2>1 DEF ToldUpTo
    <3> QED BY <1>12, <1>14, <1>15, <2>1, <3>1, <3>2
  <2>2. ASSUME NEW h \in m_callbacks, h # g
        PROVE  /\ heard'[h].since <= Settled'
               /\ \A i \in 1..Len(heard'[h].bytes) : heard'[h].bytes[i] <= ToldUpTo(h)'
               /\ \A i, j \in 1..Len(heard'[h].bytes) :
                     i < j => heard'[h].bytes[i] < heard'[h].bytes[j]
               /\ m_fd' = 1 => ToSet(heard'[h].bytes)
                                = ((heard'[h].since + 1)..ToldUpTo(h)') \ Lost'
    BY <1>1, <1>5, <1>16, <2>2 DEF DataInv, HeardInv
  <2> QED BY <1>1, <2>1, <2>2 DEF HeardInv
<1> QED BY <1>10, <1>17 DEF DataInv

\* A socket that is opened again is another one: what the first one held is skipped.
LEMMA ReopenStep ==
    ASSUME FdInv, DataInv, reopenSocketLocked
    PROVE  DataInv'
<1>1. /\ buf \in Buffers /\ peer \in Peers /\ peer.read <= peer.sent
      /\ UNCHANGED <<heard, m_callbacks, m_cbCounter, caller, gaps>>
      /\ buf' = [buf EXCEPT !.data = <<>>] /\ at' = 0 /\ reader' = "asleep" /\ m_fd' = 2
      /\ peer' = [sent |-> peer.sent, read |-> peer.sent, end |-> "none"]
  BY DEF DataInv, TypesInv, reopenSocketLocked, Sleep
<1>2. buf' \in Buffers /\ buf'.data = <<>> /\ Len(buf'.data) = 0
  BY <1>1, EmptySeq DEF Buffers
<1>3. /\ peer' \in Peers /\ peer'.read = peer.sent /\ peer'.sent = peer.sent
      /\ peer.sent \in Nat /\ peer.read \in Nat
  BY <1>1, PeerTypes DEF Peers, Ends
<1>4. Settled \in Nat /\ Settled <= peer.sent
  BY <1>1, <1>3, BufferIsStretch, BufferTypes DEF DataInv, Settled
<1>5. Settled' = peer.sent /\ Lost' = Lost
  BY <1>1, <1>2, <1>3 DEF Settled, Lost
<1>6. TypesInv'
  BY <1>1, <1>2, <1>3 DEF DataInv, TypesInv
<1>7. BufferInv'
  BY <1>1, <1>2, <1>3 DEF BufferInv
<1>8. LostInv'
  <2>1. Lost \subseteq 0..Settled
    BY <1>4, LostNumbers DEF DataInv
  <2> QED BY <1>3, <1>4, <1>5, <2>1 DEF LostInv
<1>9. HeardInv'
  <2> SUFFICES ASSUME NEW h \in m_callbacks
               PROVE  /\ heard[h].since <= peer.sent
                      /\ \A i \in 1..Len(heard[h].bytes) : heard[h].bytes[i] <= peer.sent
                      /\ \A i, j \in 1..Len(heard[h].bytes) :
                            i < j => heard[h].bytes[i] < heard[h].bytes[j]
    BY <1>1, <1>5 DEF HeardInv, ToldUpTo
  <2>1. heard[h].since \in Nat /\ heard[h].bytes \in Seq(Nat)
    BY CallbackHandles, HeardTypes DEF DataInv, TypesInv
  <2>2. ToldUpTo(h) \in Nat /\ ToldUpTo(h) <= peer.sent
    BY <1>1, <1>3, <1>4 DEF ToldUpTo
  <2>3. /\ heard[h].since <= Settled
        /\ \A i \in 1..Len(heard[h].bytes) : heard[h].bytes[i] <= ToldUpTo(h)
        /\ \A i, j \in 1..Len(heard[h].bytes) : i < j => heard[h].bytes[i] < heard[h].bytes[j]
    BY DEF DataInv, HeardInv
  <2>4. ASSUME NEW i \in 1..Len(heard[h].bytes)
        PROVE  heard[h].bytes[i] <= peer.sent
    <3>1. heard[h].bytes[i] \in Nat
      BY <2>1, ElementOfSeq
    <3> QED BY <1>3, <2>2, <2>3, <3>1
  <2> QED BY <1>3, <1>4, <2>1, <2>3, <2>4
<1> QED BY <1>6, <1>7, <1>8, <1>9 DEF DataInv

\* A callback that comes or goes does so between two rounds.
LEMMA RegisterStep ==
    ASSUME FdInv, DataInv, onReceive \/ removeCallback
    PROVE  DataInv'
<1>1. /\ UNCHANGED <<m_fd, reader, buf, at, peer, gaps>> /\ caller' = Idle /\ ~locked
      /\ heard \in [Handles -> [since : Nat, bytes : Seq(Nat)]]
      /\ buf \in Buffers /\ peer \in Peers
  BY DEF DataInv, TypesInv, onReceive, removeCallback
<1>2. reader \notin {"reading", "calling", "reopening"} /\ buf.data = <<>> /\ Len(buf.data) = 0
  BY <1>1 DEF FdInv, LockInv, DataInv, BufferInv
<1>3. Settled = peer.read /\ Settled' = Settled /\ Lost' = Lost /\ peer.read \in Nat
  BY <1>1, <1>2, PeerTypes DEF Settled, Lost
<1>4. caller' \in Calls /\ caller'.op = "none"
  BY <1>1 DEF Calls, Idle
<1>5. BufferInv' /\ LostInv'
  BY <1>1, <1>2, <1>3 DEF DataInv, BufferInv, LostInv
<1>6. \A h \in Nat : ToldUpTo(h) = Settled /\ ToldUpTo(h)' = Settled
  BY <1>1, <1>2, <1>3 DEF ToldUpTo
<1>7. m_callbacks \subseteq Handles /\ m_callbacks \subseteq Nat \ {0}
  BY CallbackHandles DEF DataInv
<1>8. CASE onReceive
  <2>1. PICK n \in 1..MaxHandles : n = m_cbCounter + 1
    BY <1>8, TcpAssumption DEF onReceive, DataInv, TypesInv
  <2>2. /\ m_cbCounter' = n /\ m_callbacks' = m_callbacks \cup {n}
        /\ heard' = [heard EXCEPT ![n] = [since |-> peer.read, bytes |-> <<>>]]
    BY <1>8, <2>1 DEF onReceive
  <2>3. /\ heard' \in [Handles -> [since : Nat, bytes : Seq(Nat)]]
        /\ heard'[n].since = peer.read /\ heard'[n].bytes = <<>>
        /\ \A h \in Handles \ {n} : heard'[h] = heard[h]
    BY <1>1, <1>3, <2>1, <2>2 DEF Handles
  <2>4. m_callbacks' \subseteq 1..m_cbCounter' /\ n \notin m_callbacks
    BY <2>1, <2>2, TcpAssumption DEF DataInv, TypesInv
  <2>5. TypesInv'
    BY <1>1, <1>4, <2>1, <2>2, <2>3, <2>4 DEF DataInv, TypesInv
  <2>6. HeardInv'
    <3>1. ASSUME NEW h \in m_callbacks
          PROVE  /\ heard'[h].since <= Settled'
                 /\ \A i \in 1..Len(heard'[h].bytes) : heard'[h].bytes[i] <= ToldUpTo(h)'
                 /\ \A i, j \in 1..Len(heard'[h].bytes) :
                       i < j => heard'[h].bytes[i] < heard'[h].bytes[j]
                 /\ m_fd' = 1 => ToSet(heard'[h].bytes)
                                  = ((heard'[h].since + 1)..ToldUpTo(h)') \ Lost'
      <4>1. heard'[h] = heard[h] /\ ToldUpTo(h)' = ToldUpTo(h)
        BY <1>6, <1>7, <2>3, <2>4, <3>1
      <4> QED BY <1>1, <1>3, <3>1, <4>1 DEF DataInv, HeardInv
    <3>2. /\ heard'[n].since <= Settled'
          /\ \A i \in 1..Len(heard'[n].bytes) : heard'[n].bytes[i] <= ToldUpTo(n)'
          /\ \A i, j \in 1..Len(heard'[n].bytes) :
                i < j => heard'[n].bytes[i] < heard'[n].bytes[j]
          /\ m_fd' = 1 => ToSet(heard'[n].bytes)
                           = ((heard'[n].since + 1)..ToldUpTo(n)') \ Lost'
      <4>1. ToldUpTo(n)' = peer.read
        BY <1>3, <1>6, <2>1
      <4>2. ToSet(heard'[n].bytes) = {} /\ (peer.read + 1)..peer.read = {}
        BY <1>3, <2>3 DEF ToSet
      <4> QED BY <1>3, <2>3, <4>1, <4>2
    <3> QED BY <2>2, <3>1, <3>2 DEF HeardInv
  <2> QED BY <1>5, <2>5, <2>6 DEF DataInv
<1>9. CASE removeCallback
  <2>1. PICK n \in Handles : n = caller.handle
    BY <1>9, TcpAssumption DEF removeCallback, DataInv, TypesInv, Handles
  <2>2. /\ m_cbCounter' = m_cbCounter /\ m_callbacks' = m_callbacks \ {n}
        /\ heard' = [heard EXCEPT ![n] = Deaf]
    BY <1>9, <2>1 DEF removeCallback
  <2>3. /\ heard' \in [Handles -> [since : Nat, bytes : Seq(Nat)]]
        /\ \A h \in Handles \ {n} : heard'[h] = heard[h]
    BY <1>1, <2>1, <2>2 DEF Deaf
  <2>4. TypesInv'
    BY <1>1, <1>4, <2>2, <2>3 DEF DataInv, TypesInv
  <2>5. ASSUME NEW h \in m_callbacks \ {n}
        PROVE  heard'[h] = heard[h] /\ ToldUpTo(h)' = ToldUpTo(h)
    BY <1>6, <1>7, <2>3
  <2>6. HeardInv'
    BY <1>1, <1>3, <2>2, <2>5 DEF DataInv, HeardInv
  <2> QED BY <1>5, <2>4, <2>6 DEF DataInv
<1> QED BY <1>8, <1>9

LEMMA StepDataInv == FdInv /\ DataInv /\ [Next]_vars => DataInv'
<1> SUFFICES ASSUME FdInv, DataInv, [Next]_vars PROVE DataInv'
  OBVIOUS
<1>0. /\ buf \in Buffers /\ peer \in Peers /\ peer.read <= peer.sent /\ caller \in Calls
      /\ caller.op = "removeCallback" => caller.handle \in 1..m_cbCounter
      /\ at \in Nat /\ peer.sent \in Nat /\ peer.read \in Nat /\ m_cbCounter \in Nat
  BY PeerTypes, TcpAssumption DEF DataInv, TypesInv
<1>1. CASE UNCHANGED vars
  BY <1>0, <1>1, QuietStep DEF vars
<1>2. CASE PeerSends \/ PeerEnds
  <2>1. /\ UNCHANGED <<buf, heard, gaps, m_callbacks, m_cbCounter, m_fd, caller, reader, at>>
        /\ \/ peer' = [peer EXCEPT !.sent = @ + 1]
           \/ \E end \in Ends : peer' = [peer EXCEPT !.end = end]
    BY <1>2 DEF PeerSends, PeerEnds, Ends
  <2>2. peer' \in Peers /\ peer'.read = peer.read /\ peer'.read <= peer'.sent
    BY <1>0, <2>1 DEF Peers
  <2> QED BY <1>0, <2>1, <2>2, QuietStep
<1>3. CASE Begin \/ IdleFrees \/ RecvBad
  <2>1. /\ UNCHANGED <<buf, heard, gaps, m_callbacks, m_cbCounter, m_fd, caller, at, peer>>
        /\ reader # "calling" /\ reader' # "calling" /\ reader' # "reading"
        /\ reader' = "reopening" \/ reader \in {"begin", "deleted"}
    BY <1>3 DEF Begin, IdleFrees, RecvBad
  <2>2. buf.data = <<>> \/ reader' \in {"reading", "reopening"}
    BY <2>1 DEF DataInv, BufferInv
  <2> QED BY <1>0, <2>1, <2>2, QuietStep
<1>4. CASE Ask
  <2>1. /\ UNCHANGED <<buf, heard, gaps, m_callbacks, m_cbCounter, m_fd, reader, at, peer>>
        /\ \/ caller' = [op |-> "onReceive", handle |-> 0]
           \/ \E h \in 1..m_cbCounter : caller' = [op |-> "removeCallback", handle |-> h]
    BY <1>4 DEF Ask
  <2>2. /\ caller' \in Calls
        /\ caller'.op = "removeCallback" => caller'.handle \in 1..m_cbCounter
    BY <1>0, <2>1 DEF Calls
  <2> QED BY <1>0, <2>1, <2>2, QuietStep
<1>5. CASE Close \/ Poll \/ PollGarbage
  BY <1>0, <1>5, QuietStep DEF Close, Poll, PollGarbage
<1>6. CASE Wake
  <2>1. buf.data = <<>>
    BY <1>6 DEF Wake, DataInv, BufferInv
  <2>2. /\ buf' \in Buffers /\ buf'.data = <<>> /\ buf'.size \in Nat /\ Len(buf'.data) = 0
    BY <1>0, <1>6, EmptySeq, BufferTypes DEF Wake, Buffers
  <2>3. Settled' = Settled /\ Lost' = Lost
    BY <1>6, <2>1, <2>2 DEF Wake, Settled, Lost
  <2>4. \A h \in m_callbacks : ToldUpTo(h) = Settled /\ ToldUpTo(h)' = Settled
    BY <1>6, <2>3 DEF Wake, ToldUpTo
  <2>5. TypesInv'
    BY <1>6, <2>2 DEF Wake, DataInv, TypesInv
  <2>6. BufferInv'
    BY <1>0, <1>6, <2>1, <2>2, <2>3 DEF Wake, BufferInv
  <2>7. HeardInv' /\ LostInv'
    BY <1>6, <2>3, <2>4 DEF Wake, DataInv, HeardInv, LostInv
  <2> QED BY <2>5, <2>6, <2>7 DEF DataInv
<1> QED BY <1>1, <1>2, <1>3, <1>4, <1>5, <1>6, SleepStep, RecvStep, CallbackStep, ReopenStep,
           RegisterStep DEF Next, ReadTask

\* In order and once, every callback hears every byte read since it came, but for the
\* stretches that were given to nobody.
THEOREM NothingElseIsLost == Spec => []NothingElseLost
<1>1. ASSUME FdInv, DataInv PROVE NothingElseLost
  <2>1. ASSUME NEW h \in m_callbacks, NEW i \in DOMAIN heard[h].bytes,
               NEW j \in DOMAIN heard[h].bytes, i < j
        PROVE  heard[h].bytes[i] < heard[h].bytes[j]
    <3>1. heard[h].bytes \in Seq(Nat)
      BY <1>1, <2>1, CallbackHandles, HeardTypes DEF DataInv, TypesInv
    <3>2. i \in 1..Len(heard[h].bytes) /\ j \in 1..Len(heard[h].bytes)
      BY <2>1, <3>1
    <3> QED BY <1>1, <2>1, <3>2 DEF DataInv, HeardInv
  <2>2. ASSUME reader = "asleep", m_fd = 1, NEW h \in m_callbacks
        PROVE  ToSet(heard[h].bytes) = ((heard[h].since + 1)..peer.read) \ Lost
    <3>1. ToldUpTo(h) = peer.read
      <4>1. Len(buf.data) = 0 /\ peer.read \in Nat
        BY <1>1, <2>2, PeerTypes DEF DataInv, BufferInv, TypesInv
      <4> QED BY <2>2, <4>1 DEF ToldUpTo, Settled
    <3> QED BY <1>1, <2>2, <3>1 DEF DataInv, HeardInv
  <2> QED BY <2>1, <2>2 DEF NothingElseLost
<1> QED BY <1>1, InitDataInv, StepDataInv, FdInvariance, PTL DEF Spec

-----------------------------------------------------------------------------
(* What is lost.                                                             *)

LEMMA DoubledType ==
    \A n \in Nat : Doubled(n) \in Nat /\ Doubled(n + 1) = 2 * Doubled(n)
<1> SUFFICES ASSUME NEW n \in Nat
             PROVE  Doubled(n) \in Nat /\ Doubled(n + 1) = 2 * Doubled(n)
  OBVIOUS
<1>1. 2^n \in Nat /\ 2^(n + 1) = 2 * 2^n
  BY TwoExp
<1> QED BY <1>1, TcpAssumption DEF Doubled

LEMMA FirstDoubled == Doubled(0) = FirstSize
<1>1. IsFiniteSet({}) /\ Cardinality({}) = 0
  BY FS_EmptySet
<1>2. Cardinality(SUBSET {}) = 2^0
  BY <1>1, FS_SUBSET
<1>3. SUBSET {} = {{}} /\ Cardinality({{}}) = 1
  BY FS_Singleton
<1> QED BY <1>2, <1>3, TcpAssumption DEF Doubled

\* Losses are counted before they happen: the buffer is full size before it grows.
LEMMA StepSizeInv ==
    FdInv /\ DataInv /\ SizeInv /\ LossInv /\ [Next]_vars => SizeInv' /\ LossInv'
<1> SUFFICES ASSUME FdInv, DataInv, SizeInv, LossInv, [Next]_vars
             PROVE  SizeInv' /\ LossInv'
  OBVIOUS
<1>0. /\ buf \in Buffers /\ gaps \in Seq(SUBSET Nat) /\ Len(gaps) \in Nat
      /\ buf.size \in Nat /\ buf.capacity \in Nat /\ buf.data \in Seq(Nat)
      /\ Len(buf.data) \in Nat
      /\ Doubled(Len(gaps)) \in Nat /\ Doubled(Len(gaps) + 1) = 2 * Doubled(Len(gaps))
  BY BufferTypes, DoubledType DEF DataInv, TypesInv
<1>1. CASE /\ UNCHANGED <<buf, gaps>> /\ (reader' = "reading" => reader = "reading")
  BY <1>1 DEF SizeInv, LossInv
<1>2. CASE Wake
  <2>1. gaps' = gaps /\ buf' = [buf EXCEPT !.size = buf.capacity, !.data = <<>>]
    BY <1>2 DEF Wake
  <2>2. buf'.capacity = buf.capacity /\ buf'.size = buf.capacity /\ buf'.data = <<>>
    BY <1>0, <2>1 DEF Buffers
  <2> QED BY <2>1, <2>2 DEF SizeInv, LossInv
<1>3. CASE CallbacksDone \/ reopenSocketLocked
  <2>1. gaps' = gaps /\ buf' = [buf EXCEPT !.data = <<>>] /\ reader' = "asleep"
    BY <1>3 DEF CallbacksDone, reopenSocketLocked, Sleep
  <2>2. buf'.capacity = buf.capacity
    BY <1>0, <2>1 DEF Buffers
  <2> QED BY <2>1, <2>2 DEF SizeInv, LossInv
<1>4. CASE RecvFails
  <2>1. buf' = [buf EXCEPT !.data = <<>>] /\ reader' = "asleep" /\ reader = "reading"
    BY <1>4 DEF RecvFails, Sleep
  <2>2. buf'.capacity = buf.capacity
    BY <1>0, <2>1 DEF Buffers
  <2>3. CASE buf.data = <<>>
    BY <1>4, <2>1, <2>2, <2>3 DEF RecvFails, SizeInv, LossInv
  <2>4. CASE buf.data # <<>>
    <3>1. /\ Settled \in Nat /\ ToSet(buf.data) = (Settled + 1)..peer.read
          /\ Settled + Len(buf.data) = peer.read /\ peer.read \in Nat
      BY <1>0, BufferIsStretch, PeerTypes DEF DataInv, TypesInv, Settled
    <3>2. Cardinality(ToSet(buf.data)) = Len(buf.data)
      <4>1. Cardinality((Settled + 1)..peer.read)
               = IF Settled + 1 > peer.read THEN 0 ELSE peer.read - (Settled + 1) + 1
        <5>1. Settled + 1 \in Int /\ peer.read \in Int
          BY <3>1
        <5> QED BY <5>1, FS_Interval
      <4> QED BY <1>0, <3>1, <4>1
    <3>3. /\ Len(buf.data) \in Doubled(Len(gaps))..(FullSize - 1)
          /\ buf.capacity >= 2 * Doubled(Len(gaps))
      BY <2>1, <2>4 DEF SizeInv
    <3>4. /\ Len(gaps') = Len(gaps) + 1 /\ gaps'[Len(gaps) + 1] = ToSet(buf.data)
          /\ \A i \in 1..Len(gaps) : gaps'[i] = gaps[i]
      <4>1. gaps' = Append(gaps, ToSet(buf.data)) /\ ToSet(buf.data) \in SUBSET Nat
        BY <1>4, <2>4, <3>1 DEF RecvFails
      <4> QED BY <1>0, <4>1, LostGrows
    <3>5. SizeInv'
      BY <1>0, <2>1, <2>2, <3>3, <3>4 DEF SizeInv
    <3>6. ASSUME NEW i \in 1..Len(gaps')
          PROVE  Cardinality(gaps'[i]) \in Doubled(i - 1)..(FullSize - 1)
      <4>1. CASE i \in 1..Len(gaps)
        BY <3>4, <4>1 DEF LossInv
      <4>2. CASE i = Len(gaps) + 1
        <5>1. i - 1 = Len(gaps)
          BY <1>0, <4>2
        <5> QED BY <3>2, <3>3, <3>4, <4>2, <5>1
      <4> QED BY <1>0, <3>4, <3>6, <4>1, <4>2
    <3> QED BY <3>5, <3>6 DEF LossInv
  <2> QED BY <2>3, <2>4
<1>5. CASE Recv
  <2> DEFINE res == Smaller(Unread, Rest)
             new == Numbers(peer.read + 1, res)
             data == Filled(new)
  <2>1. /\ reader = "reading" /\ gaps' = gaps
        /\ \/ /\ buf' = [buf EXCEPT !.size = Len(data), !.data = data]
              /\ reader' = "calling"
           \/ /\ ~(res < Rest) /\ ~(buf.size >= FullSize) /\ reader' = reader
              /\ buf' = [size |-> Grown.size, capacity |-> Grown.capacity, data |-> data]
    BY <1>5 DEF Recv
  <2>2. CASE /\ buf' = [buf EXCEPT !.size = Len(data), !.data = data]
             /\ reader' = "calling"
    <3>1. buf'.capacity = buf.capacity
      BY <1>0, <2>2 DEF Buffers
    <3> QED BY <2>1, <2>2, <3>1 DEF SizeInv, LossInv
  <2>3. CASE /\ ~(res < Rest) /\ ~(buf.size >= FullSize) /\ reader' = reader
             /\ buf' = [size |-> Grown.size, capacity |-> Grown.capacity, data |-> data]
    <3>1. peer.read \in Nat /\ peer.sent \in Nat /\ peer.read <= peer.sent
          /\ Len(buf.data) <= buf.size
      BY <2>1, PeerTypes DEF DataInv, TypesInv, BufferInv
    <3>2. res \in Nat /\ res = buf.size - Len(buf.data)
      BY <1>0, <2>3, <3>1 DEF Smaller, Unread, Rest
    <3>3. Len(data) = buf.size
      <4>1. new \in Seq(Nat) /\ Len(new) = res
        BY <3>1, <3>2, NumbersType
      <4>2. data = buf.data \o new
        BY DEF Filled
      <4> HIDE DEF res, new, data
      <4>3. Len(buf.data \o new) = Len(buf.data) + res
        BY <1>0, <4>1, ConcatProperties
      <4> QED BY <1>0, <3>2, <4>2, <4>3
    <3>4. /\ buf'.size = buf.size + Grow /\ buf'.data = data
          /\ buf'.capacity = IF buf.size + Grow <= buf.capacity THEN buf.capacity
                             ELSE buf.size + Larger(buf.size, Grow)
      BY <2>3 DEF Grown
    <3> HIDE DEF data
    <3>5. /\ buf.size >= Doubled(Len(gaps)) /\ buf.size < FullSize
          /\ buf'.capacity >= 2 * Doubled(Len(gaps))
      <4>1. CASE buf.data = <<>> /\ buf.size = buf.capacity
        BY <1>0, <2>3, <3>4, <4>1, TcpAssumption DEF SizeInv, Larger
      <4>2. CASE /\ Len(buf.data) \in Doubled(Len(gaps))..(FullSize - 1)
                 /\ Len(buf.data) < buf.size
                 /\ buf.capacity >= 2 * Doubled(Len(gaps))
        BY <1>0, <2>3, <3>4, <4>2, TcpAssumption DEF Larger
      <4> QED BY <2>1, <4>1, <4>2 DEF SizeInv
    <3>6. SizeInv'
      <4>1. /\ Len(buf'.data) \in Doubled(Len(gaps))..(FullSize - 1)
            /\ Len(buf'.data) < buf'.size
        BY <1>0, <3>3, <3>4, <3>5, TcpAssumption
      <4>2. /\ buf'.capacity >= Doubled(Len(gaps)) /\ Len(gaps') = Len(gaps)
            /\ buf'.capacity \in Nat
        BY <1>0, <2>1, <3>4, <3>5, TcpAssumption DEF Larger
      <4> QED BY <2>1, <3>5, <4>1, <4>2 DEF SizeInv
    <3> QED BY <2>1, <3>6 DEF LossInv
  <2> QED BY <2>1, <2>2, <2>3
<1>6. CASE UNCHANGED vars
  BY <1>1, <1>6 DEF vars
<1>7. CASE PeerSends \/ PeerEnds \/ Ask \/ onReceive \/ removeCallback \/ Close \/ Poll
           \/ PollGarbage
  BY <1>1, <1>7 DEF PeerSends, PeerEnds, Ask, onReceive, removeCallback, Close, Poll,
                    PollGarbage
<1>8. CASE Begin \/ RecvBad \/ Callback \/ IdleFrees
  BY <1>1, <1>8 DEF Begin, RecvBad, Callback, IdleFrees
<1> QED BY <1>2, <1>3, <1>4, <1>5, <1>6, <1>7, <1>8 DEF Next, ReadTask

\* The i-th loss takes at least FirstSize * 2^(i-1) bytes and less than FullSize, so
\* there are only so many in the life of a socket.
THEOREM LossesAreFew == Spec => []LossesDouble
<1>1. Init => SizeInv /\ LossInv
  <2> SUFFICES ASSUME Init PROVE SizeInv /\ LossInv
    OBVIOUS
  <2>1. Len(gaps) = 0 /\ Doubled(0) = FirstSize
    BY FirstDoubled DEF Init
  <2> QED BY <2>1, TcpAssumption DEF Init, SizeInv, LossInv
<1>2. DataInv /\ LossInv => LossesDouble
  BY DEF DataInv, TypesInv, LossInv, LossesDouble, Doubled
<1> QED BY <1>1, <1>2, StepSizeInv, InitDataInv, StepDataInv, FdInvariance, PTL DEF Spec

-----------------------------------------------------------------------------
(* The web server: its connections.                                          *)

\* the task works on a connection that is its own to close
HoldsInv ==
    pc \in {"headers", "spinning", "process", "close", "hand_over", "add_client"}
        => owner[connfd] = "web"

\* ws_protocol does not dangle
RegisteredInv == ws_protocol # Null => phase[ws_protocol] \in {"alive", "clearing"}

\* a destructor that is about to store finds its own registration, unless overtaken
OvertakenInv ==
    \A d \in Backends :
        phase[d] = "clearing" /\ d \notin overtaken => ws_protocol \in {d, Null}

\* a connection on its way to a backend that is gone is known to be undercut
UndercutInv ==
    pc = "add_client" =>
        passed \in Backends /\ (phase[passed] = "gone" => connfd \in undercut)

\* the upgrade headers are some of the lines
CountInv == req.upgrades <= req.lines

WebInv == /\ ConnectionsAccounted /\ HoldsInv /\ RegisteredInv /\ OvertakenInv /\ UndercutInv
          /\ CountInv

\* Serving a file changes what WebServer sees in its last step only.
LEMMA SiteStep == [SiteNext]_siteVars => Answer \/ Others \/ UNCHANGED serverVars
BY DEF SiteNext, SiteAnswer, ServeFile, OpenFile, Stat, FindInMemory, SendChunk,
       SendFromMemory, FileDone, AddFile, AddFileWrites, Answer, siteVars

Requests == [get : BOOLEAN, lines : 0..MaxHeaders, upgrades : 0..MaxHeaders,
             ws_version : Versions, local : BOOLEAN]

\* What the parser makes of a request is a request.
LEMMA ParsedRequest ==
    ASSUME NEW r \in Requests, NEW v \in Versions, NEW local \in BOOLEAN
    PROVE  LET new == [r EXCEPT !.ws_version = v, !.local = local]
           IN  new \in Requests /\ new.upgrades = r.upgrades /\ new.lines = r.lines
BY DEF Requests

LEMMA ReadRequest ==
    ASSUME NEW r \in Requests, NEW lines \in 0..MaxHeaders, NEW upgrades \in 0..MaxHeaders,
           NEW v \in Versions, NEW local \in BOOLEAN
    PROVE  LET new == [r EXCEPT !.lines = lines, !.upgrades = upgrades, !.ws_version = v,
                                !.local = local]
           IN  new \in Requests /\ new.upgrades = upgrades /\ new.lines = lines
BY DEF Requests

\* The fields of a request.
LEMMA RequestTypes ==
    ASSUME NEW r \in Requests
    PROVE  /\ r.get \in BOOLEAN /\ r.lines \in 0..MaxHeaders /\ r.upgrades \in 0..MaxHeaders
           /\ r.ws_version \in Versions /\ r.local \in BOOLEAN
BY DEF Requests

\* A new request, and what the parser leaves of one, are requests.
LEMMA RequestSteps ==
    ASSUME req \in Requests
    PROVE  /\ NoRequest \in Requests /\ NoRequest.upgrades = 0 /\ NoRequest.lines = 0
           /\ Parsed \in Requests /\ Parsed.upgrades = 0 /\ Parsed.lines = 0
<1>1. NoRequest \in Requests /\ NoRequest.upgrades = 0 /\ NoRequest.lines = 0
  BY WebAssumption DEF NoRequest, Requests, Versions
<1>2. EffectiveVersion \in Versions /\ req.local \in BOOLEAN
  BY RequestTypes DEF EffectiveVersion, Versions
<1> DEFINE new == [NoRequest EXCEPT !.ws_version = EffectiveVersion, !.local = req.local]
<1>3. new \in Requests /\ new.upgrades = NoRequest.upgrades /\ new.lines = NoRequest.lines
  BY <1>1, <1>2, ParsedRequest
<1> QED BY <1>1, <1>3 DEF Parsed

\* The task's own steps keep the connections accounted for.
LEMMA AnswerKeepsWebInv ==
    ASSUME WebInv, Answer
    PROVE  WebInv'
<1> USE WebAssumption
    DEF WebInv, ConnectionsAccounted, TypeOK, HoldsInv, RegisteredInv, OvertakenInv,
        UndercutInv, CountInv, registry
<1>0. req \in Requests
  BY DEF Requests
<1>1. CASE SwitchProtocols
  BY <1>1 DEF SwitchProtocols, IsSwitch
<1>2. CASE Reply
  BY <1>2 DEF Reply
<1>3. CASE ReplyAndClose
  BY <1>3 DEF ReplyAndClose
<1>4. CASE CloseConnection
  BY <1>0, <1>4, RequestSteps DEF CloseConnection, Finish, Requests
<1>5. CASE HandOver
  BY <1>5 DEF HandOver
<1>6. CASE AddClient
  BY <1>0, <1>6, RequestSteps DEF AddClient, Joined, Finish, Requests
<1> QED BY <1>1, <1>2, <1>3, <1>4, <1>5, <1>6 DEF Answer

\* So do the steps before an answer, and those of the other tasks.
LEMMA OthersKeepWebInv ==
    ASSUME WebInv, Others
    PROVE  WebInv'
<1> USE WebAssumption
    DEF WebInv, ConnectionsAccounted, TypeOK, HoldsInv, RegisteredInv, OvertakenInv,
        UndercutInv, CountInv, registry
<1>0. req \in Requests
  BY DEF Requests
<1>1. CASE Start
  BY <1>1 DEF Start
<1>2. CASE EndHeaders
  BY <1>0, <1>2, RequestSteps DEF EndHeaders, Requests
<1>3. ASSUME NEW h \in Headers, ReadHeader(h)
      PROVE  WebInv'
  <2>1. PICK v \in Versions, local \in BOOLEAN :
          req' = [req EXCEPT !.lines = @ + 1,
                             !.upgrades = IF h \in UpgradeHeaders THEN @ + 1 ELSE @,
                             !.ws_version = IF h = "Sec-WebSocket-Version" THEN v ELSE @,
                             !.local = IF h = "Host" THEN local ELSE @]
    BY <1>3 DEF ReadHeader
  <2> DEFINE lines == req.lines + 1
             upgrades == IF h \in UpgradeHeaders THEN req.upgrades + 1 ELSE req.upgrades
             version == IF h = "Sec-WebSocket-Version" THEN v ELSE req.ws_version
             loc == IF h = "Host" THEN local ELSE req.local
  <2>2. req' = [req EXCEPT !.lines = lines, !.upgrades = upgrades, !.ws_version = version,
                           !.local = loc]
    BY <2>1, Zenon
  <2>3. lines \in 0..MaxHeaders /\ upgrades \in 0..MaxHeaders /\ upgrades <= lines
    BY <1>0, <1>3, RequestTypes DEF ReadHeader
  <2>4. version \in Versions /\ loc \in BOOLEAN
    BY <1>0, RequestTypes, Zenon
  <2> HIDE DEF lines, upgrades, version, loc
  <2>5. req' \in Requests /\ req'.upgrades <= req'.lines
    BY <1>0, <2>2, <2>3, <2>4, RequestTypes, ReadRequest
  <2> QED BY <1>3, <2>5 DEF ReadHeader, Requests
<1>4. CASE PeerLeaves
  BY <1>0, <1>4, RequestSteps DEF PeerLeaves, Requests
<1>5. CASE SeesNotification
  BY <1>5 DEF SeesNotification
<1>6. CASE Exit
  BY <1>6 DEF Exit
<1>7. ASSUME NEW fd \in Fds, Accept(fd)
      PROVE  WebInv'
  <2>1. PICK get \in BOOLEAN, v \in Versions :
          req' = [NoRequest EXCEPT !.get = get, !.ws_version = v]
    BY <1>7 DEF Accept
  <2> DEFINE new == [NoRequest EXCEPT !.get = get, !.ws_version = v]
  <2>3. NoRequest \in Requests /\ NoRequest.upgrades = 0 /\ NoRequest.lines = 0
    BY <1>0, RequestSteps
  <2>4. new \in Requests /\ new.upgrades = NoRequest.upgrades /\ new.lines = NoRequest.lines
    BY <2>3 DEF Requests
  <2>2. req' \in Requests /\ req'.upgrades <= req'.lines
    BY <2>1, <2>3, <2>4
  <2> QED BY <1>7, <2>2 DEF Accept, Requests
<1>8. ASSUME NEW fd \in Fds, OtherSocket(fd)
      PROVE  WebInv'
  BY <1>8 DEF OtherSocket
<1>9. ASSUME NEW s \in Stoppers, StopCall(s) \/ StopReturns(s)
      PROVE  WebInv'
  BY <1>9 DEF StopCall, StopReturns
<1>10. ASSUME NEW b \in Backends, Register(b)
       PROVE  WebInv'
  BY <1>10 DEF Register
<1>11. ASSUME NEW b \in Backends, Destroy(b)
       PROVE  WebInv'
  BY <1>11 DEF Destroy, Matches
<1>12. ASSUME NEW b \in Backends, StoreNull(b)
       PROVE  WebInv'
  BY <1>12 DEF StoreNull
<1>13. ASSUME NEW b \in Backends, CloseClients(b)
       PROVE  WebInv'
  BY <1>13 DEF CloseClients
<1> QED BY <1>1, <1>2, <1>3, <1>4, <1>5, <1>6, <1>7, <1>8, <1>9, <1>10, <1>11,
       <1>12, <1>13
       DEF Others, Parse, Backend

LEMMA InitWebInv == SiteInit => WebInv
BY WebAssumption
   DEF SiteInit, ServerInit, WebInv, ConnectionsAccounted, TypeOK, HoldsInv, RegisteredInv,
       OvertakenInv, UndercutInv, CountInv, NoRequest, Versions

LEMMA StepWebInv == WebInv /\ [SiteNext]_siteVars => WebInv'
<1> SUFFICES ASSUME WebInv, [SiteNext]_siteVars PROVE WebInv'
  OBVIOUS
<1>1. CASE UNCHANGED serverVars
  BY <1>1 DEF serverVars, registry, WebInv, ConnectionsAccounted, TypeOK, HoldsInv,
              RegisteredInv, OvertakenInv, UndercutInv, CountInv
<1> QED BY <1>1, SiteStep, AnswerKeepsWebInv, OthersKeepWebInv

LEMMA WebInvariance == SiteSpec => []WebInv
BY InitWebInv, StepWebInv, PTL DEF SiteSpec

\* Every connection has one owner that will close it, whatever the order in which
\* peers, backends and other users of descriptors come and go; one is lost only if its
\* backend was freed between the hand-over and addClient.
THEOREM OneOwner == SiteSpec => []ConnectionsAccounted
<1>1. WebInv => ConnectionsAccounted
  BY DEF WebInv
<1> QED BY <1>1, WebInvariance, PTL

\* ws_protocol follows the registrations: it never dangles, and a backend that is alive
\* is replaced by a newer registration only, or by the late store of a destructor that
\* was overtaken by its registration.
THEOREM FollowsRegistrations == SiteSpec => RegistrationFollows
<1> DEFINE Follows ==
             /\ ws_protocol' # Null => phase'[ws_protocol'] \in {"alive", "clearing"}
             /\ \A b \in Backends :
                   ws_protocol = b /\ phase[b] = "alive" /\ ws_protocol' # b => ReplacedBy(b)
<1>1. ASSUME WebInv, Answer \/ Others
      PROVE  Follows
  <2> USE WebAssumption DEF WebInv, RegisteredInv, registry
  <2>1. CASE UNCHANGED registry
    BY <1>1, <2>1
  <2>2. ASSUME NEW n \in Backends, Register(n)
        PROVE  Follows
    BY <1>1, <2>2 DEF Register, ReplacedBy, ConnectionsAccounted, TypeOK
  <2>3. ASSUME NEW d \in Backends, Destroy(d)
        PROVE  Follows
    BY <1>1, <2>3 DEF Destroy, Matches, ConnectionsAccounted, TypeOK
  <2>4. ASSUME NEW d \in Backends, StoreNull(d)
        PROVE  Follows
    BY <1>1, <2>4 DEF StoreNull, ReplacedBy, OvertakenInv, ConnectionsAccounted, TypeOK
  <2>5. ASSUME NEW d \in Backends, CloseClients(d)
        PROVE  Follows
    BY <1>1, <2>5 DEF CloseClients, ConnectionsAccounted, TypeOK
  <2>6. CASE Answer
    BY <2>1, <2>6 DEF Answer, SwitchProtocols, Reply, ReplyAndClose, CloseConnection,
                      HandOver, AddClient
  <2>7. CASE Start \/ Parse \/ PeerLeaves \/ SeesNotification \/ Exit
    BY <2>1, <2>7 DEF Start, Parse, EndHeaders, ReadHeader, PeerLeaves, SeesNotification, Exit
  <2>8. ASSUME NEW fd \in Fds, Accept(fd) \/ OtherSocket(fd)
        PROVE  Follows
    BY <2>1, <2>8 DEF Accept, OtherSocket
  <2>9. ASSUME NEW s \in Stoppers, StopCall(s) \/ StopReturns(s)
        PROVE  Follows
    BY <2>1, <2>9 DEF StopCall, StopReturns
  <2> QED BY <1>1, <2>2, <2>3, <2>4, <2>5, <2>6, <2>7, <2>8, <2>9 DEF Others, Backend
<1>2. WebInv /\ [SiteNext]_siteVars => [Follows]_serverVars
  BY <1>1, SiteStep
<1> QED BY <1>2, WebInvariance, PTL DEF SiteSpec, RegistrationFollows

\* An answer closes the task's own connection only, but for the second close after a
\* reply that closed it already.
THEOREM OthersKeepTheirs == SiteSpec => ClosesItsOwn
<1> DEFINE Spares == Answer /\ pc # "close_again" =>
                         \A fd \in Fds : owner[fd] # "web" => owner'[fd] = owner[fd]
<1>1. ASSUME WebInv
      PROVE  Spares
  <2> SUFFICES ASSUME Answer, pc # "close_again", NEW fd \in Fds, owner[fd] # "web"
               PROVE  owner'[fd] = owner[fd]
    OBVIOUS
  <2>1. pc \in {"process", "close", "hand_over", "add_client"}
    BY DEF Answer, SwitchProtocols, Reply, ReplyAndClose, CloseConnection, HandOver, AddClient
  <2>2. owner[connfd] = "web"
    BY <1>1, <2>1 DEF WebInv, HoldsInv
  <2> QED BY <1>1, <2>2
       DEF Answer, SwitchProtocols, Reply, ReplyAndClose, CloseConnection, HandOver, AddClient,
           WebInv, ConnectionsAccounted, TypeOK
<1>2. WebInv /\ [SiteNext]_siteVars => [Spares]_serverVars
  BY <1>1
<1> QED BY <1>2, WebInvariance, PTL DEF SiteSpec, ClosesItsOwn

-----------------------------------------------------------------------------
(* The files.                                                                *)

Files == [version : Nat, len : Nat, left : Nat]
NoRange == [first |-> 0, last |-> 0]
Replies == [state : {"none", "opened", "sending", "done"}, range : Ranges \cup {NoRange},
            announced : Nat, pos : Nat, count : Nat, sent : Seq(Nat \X Nat), of : Files,
            faulty : BOOLEAN, closes : BOOLEAN]

\* what is sent and what is left of it never exceeds what was announced
BudgetInv == Len(reply.sent) + reply.count <= reply.announced

\* a file is served as it was when its length was taken, or as something newer
VersionInv ==
    /\ file.version >= reply.of.version
    /\ file.len + file.left < Word

\* nothing has gone wrong with a range that is there
Undisturbed ==
    /\ reply.state \in {"sending", "done"} /\ ~reply.faulty
    /\ file.version = reply.of.version
    /\ Satisfiable(reply.range, reply.of.len)

Stop(range, size) == IF range.last = 0 THEN size ELSE range.last + 1

\* then every byte so far is the right one and the rest is still there
ProgressInv ==
    Undisturbed =>
        /\ reply.announced = Stop(reply.range, reply.of.len) - reply.range.first
        /\ reply.of.len <= file.len
        /\ Len(reply.sent) + reply.count = reply.announced
        /\ reply.pos = reply.range.first + Len(reply.sent)
        /\ \A i \in 1..Len(reply.sent) :
              reply.sent[i] = <<file.version, reply.range.first + i - 1>>
        /\ reply.state = "done" => reply.count = 0

FileInv == /\ file \in Files /\ reply \in Replies
           /\ BudgetInv /\ VersionInv /\ ProgressInv

\* Numbers below Word are themselves modulo Word.
LEMMA ModWord ==
    /\ \A n \in 0..(Word - 1) : n % Word = n
    /\ \A n \in Int : n % Word \in 0..(Word - 1)
BY FilesAssumption

\* The fields of a reply.
LEMMA ReplyTypes ==
    ASSUME NEW r \in Replies
    PROVE  /\ r.state \in {"none", "opened", "sending", "done"}
           /\ r.range \in Ranges \cup {NoRange}
           /\ r.announced \in Nat /\ r.pos \in Nat /\ r.count \in Nat
           /\ r.sent \in Seq(Nat \X Nat) /\ r.of \in Files
           /\ r.faulty \in BOOLEAN /\ r.closes \in BOOLEAN
BY DEF Replies

LEMMA FileTypes ==
    ASSUME NEW f \in Files
    PROVE  f.version \in Nat /\ f.len \in Nat /\ f.left \in Nat
BY DEF Files

LEMMA RangeTypes ==
    ASSUME NEW range \in Ranges \cup {NoRange}
    PROVE  range.first \in Int /\ range.last \in 0..(Word - 1)
BY FilesAssumption DEF NoRange

\* Before a file is served.
LEMMA NothingYet ==
    /\ NoFile \in Files /\ NoFile.version = 0 /\ NoFile.len = 0 /\ NoFile.left = 0
    /\ NoReply \in Replies /\ NoReply.state = "none" /\ NoReply.of = NoFile
    /\ NoReply.announced = 0 /\ NoReply.count = 0 /\ NoReply.sent = <<>>
    /\ Len(NoReply.sent) = 0 /\ ~NoReply.faulty
<1>1. NoFile \in Files /\ NoFile.version = 0 /\ NoFile.len = 0 /\ NoFile.left = 0
  BY DEF NoFile, Files
<1> QED BY <1>1 DEF NoReply, Replies, NoRange

\* The end of a range, whether it is given or not, is a size.
LEMMA EndIsSize ==
    ASSUME NEW range \in Ranges \cup {NoRange}
    PROVE  /\ End(range) \in 0..(Word - 1)
           /\ \A n \in 0..(Word - 1) : range.last < n =>
                 End(range) = IF range.last = 0 THEN 0 ELSE range.last + 1
<1>1. range.last \in 0..(Word - 1) /\ range.last + 1 \in Int
  BY RangeTypes, FilesAssumption
<1>2. (range.last + 1) % Word \in 0..(Word - 1)
  BY <1>1, ModWord
<1>3. ASSUME NEW n \in 0..(Word - 1), range.last < n
      PROVE  (range.last + 1) % Word = range.last + 1
  <2>1. range.last + 1 \in 0..(Word - 1)
    BY <1>1, <1>3, FilesAssumption
  <2> QED BY <2>1, ModWord
<1> QED BY <1>1, <1>2, <1>3, FilesAssumption DEF End

\* What is announced is what will be sent; if the range is there, it is all of it.
LEMMA AnnouncedReply ==
    ASSUME NEW range \in Ranges \cup {NoRange}, NEW of \in Files, NEW end \in 0..(Word - 1),
           NEW pos \in Nat
    PROVE  LET a == Announced(range, of, end, pos)
           IN  /\ a \in Replies /\ a.state \in {"sending", "done"}
               /\ a.range = range /\ a.of = of /\ a.pos = pos /\ a.sent = <<>>
               /\ a.count <= a.announced
               /\ a.state = "done" => a.count = 0
               /\ range.first \in 0..end =>
                     /\ a.announced = end - range.first
                     /\ a.count = a.announced
<1> DEFINE offset == range.first % Word
           count  == IF offset < end THEN end - offset ELSE 0
           announced == (end - offset) % Word
           state == IF count = 0 THEN "done" ELSE "sending"
           a == Announced(range, of, end, pos)
<1>1. offset \in 0..(Word - 1) /\ (range.first \in 0..end => offset = range.first)
  BY RangeTypes, ModWord, FilesAssumption
<1>2. /\ count \in Nat /\ announced \in Nat /\ count <= announced
      /\ range.first \in 0..end => announced = end - range.first /\ count = announced
  BY <1>1, ModWord, FilesAssumption, RangeTypes
<1>3. state \in {"sending", "done"} /\ (state = "done" => count = 0)
  OBVIOUS
<1>4. a = [NoReply EXCEPT !.state = state, !.range = range, !.announced = announced,
                          !.pos = pos, !.count = count, !.of = of]
  BY Zenon DEF Announced
<1> HIDE DEF offset, count, announced, state, a
<1>5. /\ a \in Replies /\ a.state = state /\ a.range = range /\ a.announced = announced
      /\ a.pos = pos /\ a.count = count /\ a.of = of /\ a.sent = NoReply.sent
  BY <1>2, <1>3, <1>4, NothingYet DEF Replies
<1> QED BY <1>2, <1>3, <1>5, NothingYet DEF a

LEMMA InitFileInv == SiteInit => FileInv
BY NothingYet, FilesAssumption
   DEF SiteInit, FileInv, BudgetInv, VersionInv, ProgressInv, Undisturbed

LEMMA OpenFileStep ==
    ASSUME FileInv, OpenFile
    PROVE  FileInv'
<1>1. PICK range \in Ranges, len \in Sizes, left \in Sizes :
        /\ file' = [version |-> 1, len |-> len, left |-> left]
        /\ reply' = [NoReply EXCEPT !.state = "opened", !.range = range]
  BY DEF OpenFile
<1>2. /\ file' \in Files /\ file'.version = 1
      /\ file'.len + file'.left < Word
  BY <1>1, FilesAssumption DEF Files
<1>3. /\ reply' \in Replies /\ reply'.state = "opened"
      /\ Len(reply'.sent) = 0 /\ reply'.count = 0 /\ reply'.announced = 0
      /\ reply'.of = NoFile
  BY <1>1, NothingYet DEF Replies
<1> QED BY <1>2, <1>3, NothingYet
       DEF FileInv, BudgetInv, VersionInv, ProgressInv, Undisturbed

\* The length that is announced for a range of the file as it is now.
LEMMA StatStep ==
    ASSUME FileInv, Stat
    PROVE  FileInv'
<1> DEFINE range == reply.range
           end == IF End(range) = 0 THEN file.len ELSE End(range)
<1>0. /\ reply \in Replies /\ file \in Files /\ file' = file
      /\ file.len + file.left < Word
  BY DEF FileInv, VersionInv, Stat
<1>1. range \in Ranges \cup {NoRange} /\ range.first \in Int /\ range.last \in 0..(Word - 1)
  BY <1>0, ReplyTypes, RangeTypes
<1>2. file.len \in 0..(Word - 1)
  BY <1>0, FileTypes, FilesAssumption
<1>3. /\ end \in 0..(Word - 1)
      /\ Satisfiable(range, file.len) =>
            end = Stop(range, file.len) /\ range.first \in 0..end
  BY <1>1, <1>2, EndIsSize DEF Satisfiable, Stop
<1>4. PICK pos \in {IF range.first < 0 THEN 0 ELSE range.first}
                   \cup (IF range.first > file.len THEN {0} ELSE {}) :
        reply' = Announced(range, file, end, pos)
  BY DEF Stat
<1>5. pos \in Nat /\ (Satisfiable(range, file.len) => pos = range.first)
  BY <1>1, <1>2 DEF Satisfiable
<1> HIDE DEF range, end
<1>6. /\ reply' \in Replies /\ reply'.range = range /\ reply'.of = file
      /\ reply'.pos = pos /\ reply'.sent = <<>> /\ reply'.count <= reply'.announced
      /\ reply'.state = "done" => reply'.count = 0
      /\ range.first \in 0..end =>
            reply'.announced = end - range.first /\ reply'.count = reply'.announced
  BY <1>0, <1>1, <1>3, <1>4, <1>5, AnnouncedReply
<1>7. Len(reply'.sent) = 0 /\ reply'.count \in Nat /\ reply'.announced \in Nat
  BY <1>6, ReplyTypes
<1>8. BudgetInv' /\ VersionInv'
  BY <1>0, <1>6, <1>7, FileTypes DEF BudgetInv, VersionInv
<1>9. ASSUME Undisturbed' PROVE Satisfiable(range, file.len)
  BY <1>6, <1>9 DEF Undisturbed
<1>10. ProgressInv'
  BY <1>0, <1>1, <1>2, <1>3, <1>5, <1>6, <1>7, <1>9, FilesAssumption DEF ProgressInv, Stop
<1> QED BY <1>0, <1>6, <1>8, <1>10 DEF FileInv

LEMMA FindInMemoryStep ==
    ASSUME FileInv, FindInMemory
    PROVE  FileInv'
<1>1. PICK range \in Ranges, size \in Sizes \ {0} :
        LET of  == [NoFile EXCEPT !.len = size]
            end == IF End(range) = 0 \/ End(range) > size THEN size ELSE End(range)
        IN  /\ file' = of
            /\ reply' = Announced(range, of, end, range.first % Word)
  BY DEF FindInMemory
<1> DEFINE of == [NoFile EXCEPT !.len = size]
           end == IF End(range) = 0 \/ End(range) > size THEN size ELSE End(range)
           pos == range.first % Word
<1>2. file' = of /\ reply' = Announced(range, of, end, pos)
  BY <1>1, Zenon
<1>3. of \in Files /\ of.version = 0 /\ of.len = size /\ of.left = 0 /\ size \in 0..(Word - 1)
  BY FilesAssumption DEF NoFile, Files
<1>4. range \in Ranges \cup {NoRange} /\ range.first \in Int /\ range.last \in 0..(Word - 1)
  BY RangeTypes
<1>5. /\ end \in 0..(Word - 1)
      /\ Satisfiable(range, size) => end = Stop(range, size) /\ range.first \in 0..end
  BY <1>3, <1>4, EndIsSize DEF Satisfiable, Stop
<1>6. pos \in Nat /\ (Satisfiable(range, size) => pos = range.first)
  BY <1>3, <1>4, ModWord, FilesAssumption DEF Satisfiable
<1> HIDE DEF of, end, pos
<1>7. /\ reply' \in Replies /\ reply'.range = range /\ reply'.of = of
      /\ reply'.pos = pos /\ reply'.sent = <<>> /\ reply'.count <= reply'.announced
      /\ reply'.state = "done" => reply'.count = 0
      /\ range.first \in 0..end =>
            reply'.announced = end - range.first /\ reply'.count = reply'.announced
  BY <1>2, <1>3, <1>4, <1>5, <1>6, AnnouncedReply
<1>8. Len(reply'.sent) = 0 /\ reply'.count \in Nat /\ reply'.announced \in Nat
  BY <1>7, ReplyTypes
<1>9. BudgetInv' /\ VersionInv'
  BY <1>2, <1>3, <1>7, <1>8, FilesAssumption DEF BudgetInv, VersionInv
<1>10. ASSUME Undisturbed' PROVE Satisfiable(range, size)
  BY <1>2, <1>3, <1>7, <1>10 DEF Undisturbed
<1>11. ProgressInv'
  BY <1>2, <1>3, <1>4, <1>5, <1>6, <1>7, <1>8, <1>10, FilesAssumption DEF ProgressInv, Stop
<1> QED BY <1>2, <1>3, <1>7, <1>9, <1>11 DEF FileInv

\* A chunk is not more than what is left to send.
LEMMA ChunkBounds ==
    ASSUME reply \in Replies
    PROVE  Chunk \in Nat /\ Chunk <= reply.count
BY ReplyTypes, FilesAssumption DEF Chunk, Shorter

\* A function over 1..n is a sequence.
LEMMA FunctionIsSeq ==
    ASSUME NEW S, NEW n \in Nat, NEW f \in [1..n -> S]
    PROVE  f \in Seq(S) /\ Len(f) = n
BY SeqDef

\* The bytes that are read from a place on.
LEMMA BytesType ==
    ASSUME file \in Files, NEW pos \in Nat, NEW n \in Nat
    PROVE  /\ BytesAt(pos, n) \in Seq(Nat \X Nat) /\ Len(BytesAt(pos, n)) = n
           /\ \A i \in 1..n : BytesAt(pos, n)[i] = <<file.version, pos + i - 1>>
<1>1. ASSUME NEW i \in 1..n
      PROVE  <<file.version, pos + i - 1>> \in Nat \X Nat
  <2>1. file.version \in Nat /\ pos + i - 1 \in Nat
    BY FileTypes
  <2> QED BY <2>1
<1>2. BytesAt(pos, n) \in [1..n -> Nat \X Nat]
  BY <1>1 DEF BytesAt
<1> QED BY <1>2, FunctionIsSeq DEF BytesAt

\* What is sent is taken off what is left.
LEMMA BudgetKept ==
    ASSUME NEW sent \in Int, NEW more \in Int, NEW count \in Int, NEW chunk \in Int,
           NEW announced \in Int, sent + count <= announced, more <= chunk
    PROVE  (sent + more) + (count - chunk) <= announced
OBVIOUS

\* One turn of a loop that sends, if it tells when something is missing.
LEMMA SentStep ==
    ASSUME FileInv, reply.state = "sending", file' = file,
           NEW bytes \in Seq(Nat \X Nat), NEW moved \in Nat, NEW faulty \in BOOLEAN,
           Len(bytes) <= Chunk, Sent(bytes, moved, faulty),
           Undisturbed /\ ~faulty => moved = Chunk /\ bytes = BytesAt(reply.pos, Chunk)
    PROVE  FileInv'
<1> DEFINE rest == reply.count - Chunk
           all == reply.sent \o bytes
           pos == reply.pos + moved
           wrong == reply.faulty \/ faulty
           state == IF rest = 0 THEN "done" ELSE reply.state
<1>0. reply \in Replies /\ file \in Files
  BY DEF FileInv
<1>1. PICK closes \in BOOLEAN :
        reply' = [reply EXCEPT !.sent = @ \o bytes, !.pos = @ + moved, !.count = rest,
                               !.faulty = @ \/ faulty, !.closes = closes,
                               !.state = IF rest = 0 THEN "done" ELSE @]
  BY DEF Sent
<1>2. reply' = [reply EXCEPT !.sent = all, !.pos = pos, !.count = rest, !.faulty = wrong,
                             !.closes = closes, !.state = state]
  BY <1>1, Zenon
<1>3. rest \in Nat /\ pos \in Nat /\ Chunk \in Nat /\ rest = reply.count - Chunk
  BY <1>0, ChunkBounds, ReplyTypes
<1>4. /\ all \in Seq(Nat \X Nat) /\ Len(all) = Len(reply.sent) + Len(bytes)
      /\ \A i \in 1..Len(reply.sent) : all[i] = reply.sent[i]
      /\ \A i \in 1..Len(bytes) : all[Len(reply.sent) + i] = bytes[i]
  BY <1>0, ReplyTypes, ConcatProperties
<1>5. wrong \in BOOLEAN /\ (~wrong => ~reply.faulty /\ ~faulty)
  BY <1>0, ReplyTypes, Zenon
<1>6. state \in {"sending", "done"} /\ (state = "done" => rest = 0)
  OBVIOUS
<1> HIDE DEF rest, all, pos, wrong, state
<1>7. /\ reply' \in Replies /\ reply'.sent = all /\ reply'.pos = pos /\ reply'.count = rest
      /\ reply'.faulty = wrong /\ reply'.state = state /\ reply'.of = reply.of
      /\ reply'.range = reply.range /\ reply'.announced = reply.announced
  BY <1>0, <1>2, <1>3, <1>4, <1>5, <1>6 DEF Replies
<1>8. BudgetInv' /\ VersionInv'
  <2>1. Len(reply.sent) \in Nat /\ Len(bytes) \in Nat /\ reply.announced \in Int
        /\ reply.count \in Int
    BY <1>0, ReplyTypes
  <2>2. BudgetInv
    BY DEF FileInv
  <2>3. VersionInv
    BY DEF FileInv
  <2>4. /\ Len(reply'.sent) = Len(reply.sent) + Len(bytes)
        /\ reply'.count = reply.count - Chunk /\ reply'.announced = reply.announced
    BY <1>3, <1>4, <1>7
  <2>5. BudgetInv'
    <3>1. Len(reply.sent) + reply.count <= reply.announced
      BY <2>2 DEF BudgetInv
    <3>2. (Len(reply.sent) + Len(bytes)) + (reply.count - Chunk) <= reply.announced
      BY <1>3, <2>1, <3>1, BudgetKept
    <3>3. Len(reply'.sent) + reply'.count <= reply'.announced
      BY <2>4, <3>2, Zenon
    <3> QED BY <3>3 DEF BudgetInv
  <2>6. VersionInv'
    BY <1>7, <2>3 DEF VersionInv
  <2> QED BY <2>5, <2>6
<1>9. ASSUME Undisturbed'
      PROVE  /\ Undisturbed /\ ~faulty
             /\ moved = Chunk /\ bytes = BytesAt(reply.pos, Chunk)
  <2>1. Undisturbed /\ ~faulty
    BY <1>5, <1>7, <1>9 DEF Undisturbed
  <2> QED BY <2>1
<1>10. ASSUME Undisturbed'
       PROVE  /\ reply.announced = Stop(reply.range, reply.of.len) - reply.range.first
              /\ reply.of.len <= file.len
              /\ Len(reply.sent) + reply.count = reply.announced
              /\ reply.pos = reply.range.first + Len(reply.sent)
              /\ \A i \in 1..Len(reply.sent) :
                    reply.sent[i] = <<file.version, reply.range.first + i - 1>>
  BY <1>9, <1>10 DEF FileInv, ProgressInv
<1>11. ASSUME Undisturbed'
       PROVE  /\ Len(bytes) = Chunk
              /\ \A i \in 1..Chunk : bytes[i] = <<file.version, reply.pos + i - 1>>
  <2>1. reply.pos \in Nat /\ Chunk \in Nat
    BY <1>0, <1>3, ReplyTypes
  <2>2. bytes = BytesAt(reply.pos, Chunk)
    BY <1>9, <1>11
  <2> QED BY <1>0, <2>1, <2>2, BytesType
<1>12. ASSUME Undisturbed', NEW i \in 1..Len(all)
       PROVE  all[i] = <<file.version, reply.range.first + i - 1>>
  <2>0. Len(reply.sent) \in Nat /\ Chunk \in Nat /\ reply.range.first \in Int
    BY <1>0, <1>3, ReplyTypes, RangeTypes
  <2>1. CASE i \in 1..Len(reply.sent)
    BY <1>4, <1>10, <1>12, <2>1
  <2>2. CASE i \notin 1..Len(reply.sent)
    <3>1. i - Len(reply.sent) \in 1..Chunk
      <4>1. i \in 1..(Len(reply.sent) + Chunk)
        BY <1>4, <1>11, <1>12
      <4> QED BY <2>0, <2>2, <4>1
    <3>2. all[Len(reply.sent) + (i - Len(reply.sent))] = bytes[i - Len(reply.sent)]
      BY <1>4, <1>11, <1>12, <3>1
    <3>3. /\ Len(reply.sent) + (i - Len(reply.sent)) = i
          /\ reply.pos + (i - Len(reply.sent)) - 1 = reply.range.first + i - 1
      BY <1>10, <1>12, <2>0
    <3> QED BY <1>11, <1>12, <3>1, <3>2, <3>3
  <2> QED BY <2>1, <2>2
<1>13. ProgressInv'
  <2> SUFFICES ASSUME Undisturbed'
               PROVE  /\ reply'.announced = Stop(reply'.range, reply'.of.len) - reply'.range.first
                      /\ reply'.of.len <= file'.len
                      /\ Len(reply'.sent) + reply'.count = reply'.announced
                      /\ reply'.pos = reply'.range.first + Len(reply'.sent)
                      /\ \A i \in 1..Len(reply'.sent) :
                            reply'.sent[i] = <<file'.version, reply'.range.first + i - 1>>
                      /\ reply'.state = "done" => reply'.count = 0
    BY DEF ProgressInv, Stop
  <2>1. Len(reply.sent) \in Nat /\ reply.range.first \in Int /\ reply.count \in Nat
    BY <1>0, ReplyTypes, RangeTypes
  <2>2. Len(all) = Len(reply.sent) + Chunk /\ pos = reply.pos + Chunk
    BY <1>4, <1>9, <1>11 DEF pos
  <2>3. \A i \in 1..Len(all) : all[i] = <<file.version, reply.range.first + i - 1>>
    BY <1>12
  <2>4. Chunk \in Nat
    BY <1>3
  <2>5. /\ reply'.announced = Stop(reply'.range, reply'.of.len) - reply'.range.first
        /\ reply'.of.len <= file'.len
    BY <1>7, <1>10
  <2>6. Len(reply'.sent) + reply'.count = reply'.announced
    <3>1. Len(reply.sent) + reply.count = reply.announced
      BY <1>10
    <3>2. Len(reply'.sent) = Len(reply.sent) + Chunk /\ reply'.count = reply.count - Chunk
      BY <1>3, <1>7, <2>2
    <3> QED BY <1>7, <2>1, <2>4, <3>1, <3>2
  <2>7. reply'.pos = reply'.range.first + Len(reply'.sent)
    BY <1>7, <1>10, <2>1, <2>2, <2>4
  <2> QED BY <1>6, <1>7, <2>3, <2>5, <2>6, <2>7
<1> QED BY <1>0, <1>7, <1>8, <1>13 DEF FileInv

LEMMA SendChunkStep ==
    ASSUME FileInv, SendChunk
    PROVE  FileInv'
<1>0. reply \in Replies /\ file \in Files /\ file' = file /\ reply.state = "sending"
  BY DEF FileInv, SendChunk
<1> DEFINE there == IF file.len > reply.pos THEN file.len - reply.pos ELSE 0
           size == Shorter(Chunk, there)
<1>1. Chunk \in Nat /\ Chunk <= reply.count /\ there \in Nat /\ size \in Nat /\ size <= Chunk
  BY <1>0, ChunkBounds, ReplyTypes, FileTypes DEF Shorter
<1>2. FromDisk = BytesAt(reply.pos, size)
  BY DEF FromDisk
<1>3. FromDisk \in Seq(Nat \X Nat) /\ Len(FromDisk) = size
  BY <1>0, <1>1, <1>2, BytesType, ReplyTypes
<1>4. ASSUME Undisturbed PROVE FromDisk = BytesAt(reply.pos, Chunk)
  <2>1. reply.pos + reply.count <= file.len
    <3>1. /\ reply.announced = Stop(reply.range, reply.of.len) - reply.range.first
          /\ reply.of.len <= file.len
          /\ Len(reply.sent) + reply.count = reply.announced
          /\ reply.pos = reply.range.first + Len(reply.sent)
      BY <1>4 DEF FileInv, ProgressInv
    <3>2. /\ reply.range.first \in Int /\ reply.range.last \in Int /\ reply.of.len \in Nat
          /\ file.len \in Nat /\ reply.pos \in Nat /\ reply.count \in Nat
          /\ Len(reply.sent) \in Nat
      BY <1>0, ReplyTypes, RangeTypes, FileTypes, FilesAssumption
    <3>3. Satisfiable(reply.range, reply.of.len)
      BY <1>4 DEF Undisturbed
    <3>4. /\ Stop(reply.range, reply.of.len) <= reply.of.len
          /\ Stop(reply.range, reply.of.len) \in Int
      BY <3>2, <3>3 DEF Satisfiable, Stop
    <3> QED BY <3>1, <3>2, <3>4
  <2>2. size = Chunk
    BY <1>0, <1>1, <2>1, ReplyTypes, FileTypes DEF Shorter
  <2> QED BY <1>2, <2>2
<1> HIDE DEF there, size
<1>5. ASSUME NEW n \in 0..Len(FromDisk),
             Sent(SubSeq(FromDisk, 1, n), Len(FromDisk), n < Len(FromDisk))
      PROVE  FileInv'
  <2> DEFINE bytes == SubSeq(FromDisk, 1, n)
             faulty == n < Len(FromDisk)
  <2>1. bytes \in Seq(Nat \X Nat) /\ Len(bytes) = n
    BY <1>1, <1>3, SubSeqProperties
  <2>2. faulty \in BOOLEAN
    OBVIOUS
  <2>3. ASSUME ~faulty PROVE bytes = FromDisk
    <3>1. n = Len(FromDisk)
      BY <1>1, <1>3, <1>5, <2>3
    <3> QED BY <1>3, <3>1
  <2>4. ASSUME Undisturbed, ~faulty
        PROVE  Len(FromDisk) = Chunk /\ bytes = BytesAt(reply.pos, Chunk)
    <3>1. bytes = FromDisk /\ FromDisk = BytesAt(reply.pos, Chunk)
      BY <1>4, <2>3, <2>4
    <3>2. Len(BytesAt(reply.pos, Chunk)) = Chunk
      BY <1>0, <1>1, BytesType, ReplyTypes
    <3> QED BY <3>1, <3>2
  <2>5. Len(bytes) <= Chunk /\ Len(FromDisk) \in Nat
    BY <1>1, <1>3, <1>5, <2>1
  <2>6. Sent(bytes, Len(FromDisk), faulty)
    BY <1>5
  <2> HIDE DEF bytes, faulty
  <2> QED BY <1>0, <2>1, <2>2, <2>4, <2>5, <2>6, SentStep
<1>6. ASSUME reply' = [reply EXCEPT !.state = "done", !.faulty = TRUE]
      PROVE  FileInv'
  <2>1. /\ reply' \in Replies /\ reply'.sent = reply.sent /\ reply'.count = reply.count
        /\ reply'.announced = reply.announced /\ reply'.of = reply.of /\ reply'.faulty
    BY <1>0, <1>6 DEF Replies
  <2>2. ~Undisturbed'
    BY <2>1 DEF Undisturbed
  <2> QED BY <1>0, <2>1, <2>2 DEF FileInv, BudgetInv, VersionInv, ProgressInv
<1> QED BY <1>5, <1>6 DEF SendChunk

LEMMA SendFromMemoryStep ==
    ASSUME FileInv, SendFromMemory
    PROVE  FileInv'
<1>0. reply \in Replies /\ file \in Files /\ file' = file /\ reply.state = "sending"
  BY DEF FileInv, SendFromMemory
<1>1. PICK n \in 0..Chunk : Sent(BytesAt(reply.pos, n), Chunk, n < Chunk)
  BY DEF SendFromMemory
<1> DEFINE faulty == n < Chunk
<1>2. Chunk \in Nat /\ n \in Nat /\ n <= Chunk
  BY <1>0, <1>1, ChunkBounds
<1>3. BytesAt(reply.pos, n) \in Seq(Nat \X Nat) /\ Len(BytesAt(reply.pos, n)) = n
  BY <1>0, <1>2, BytesType, ReplyTypes
<1>6. faulty \in BOOLEAN
  OBVIOUS
<1>4. Sent(BytesAt(reply.pos, n), Chunk, faulty)
  BY <1>1, Zenon
<1>5. ~faulty => n = Chunk
  BY <1>2
<1> HIDE DEF faulty
<1> QED BY <1>0, <1>2, <1>3, <1>4, <1>5, <1>6, SentStep

\* Another task begins to write the file anew: what is served is older from now on.
LEMMA AddFileStep ==
    ASSUME FileInv, AddFile \/ AddFileWrites
    PROVE  FileInv'
<1>0. reply \in Replies /\ file \in Files /\ reply' = reply
  BY DEF FileInv, AddFile, AddFileWrites
<1>1. CASE AddFile
  <2>1. PICK len \in Sizes :
          file' = [version |-> file.version + 1, len |-> 0, left |-> len]
    BY <1>1 DEF AddFile
  <2>2. /\ file' \in Files /\ file'.version = file.version + 1
        /\ file'.len + file'.left < Word
    BY <1>0, <2>1, FileTypes, FilesAssumption DEF Files
  <2>3. /\ file'.version > reply.of.version
        /\ file'.version >= reply.of.version
    BY <1>0, <2>2, FileTypes, ReplyTypes DEF FileInv, VersionInv
  <2>4. ~Undisturbed'
    BY <1>0, <2>2, <2>3, FileTypes, ReplyTypes DEF Undisturbed
  <2> QED BY <1>0, <2>2, <2>3, <2>4 DEF FileInv, BudgetInv, VersionInv, ProgressInv
<1>2. CASE AddFileWrites
  <2>1. /\ file' \in Files /\ file'.version = file.version /\ file'.len >= file.len
        /\ file'.len + file'.left <= file.len + file.left
    <3>1. CASE file' = [file EXCEPT !.len = @ + 1, !.left = @ - 1]
      <4>1. file.len + 1 \in Nat /\ file.left - 1 \in Nat
        BY <1>0, <1>2, FileTypes DEF AddFileWrites
      <4>2. /\ file' \in Files /\ file'.version = file.version
            /\ file'.len = file.len + 1 /\ file'.left = file.left - 1
        BY <1>0, <3>1, <4>1 DEF Files
      <4> QED BY <1>0, <4>2, FileTypes
    <3>2. CASE file' = [file EXCEPT !.left = 0]
      BY <1>0, <1>2, <3>2, FileTypes DEF Files, AddFileWrites
    <3> QED BY <1>2, <3>1, <3>2 DEF AddFileWrites
  <2>2. BudgetInv' /\ VersionInv'
    BY <1>0, <2>1, FileTypes, FilesAssumption DEF FileInv, BudgetInv, VersionInv
  <2>3. ASSUME Undisturbed' PROVE Undisturbed
    BY <1>0, <2>1, <2>3 DEF Undisturbed
  <2>4. ProgressInv'
    <3>1. file.len \in Nat /\ file'.len \in Nat /\ reply.of.len \in Nat
      BY <1>0, <2>1, FileTypes, ReplyTypes
    <3> QED BY <1>0, <2>1, <2>3, <3>1 DEF FileInv, ProgressInv
  <2> QED BY <1>0, <2>1, <2>2, <2>4 DEF FileInv
<1> QED BY <1>1, <1>2

LEMMA StepFileInv == FileInv /\ [SiteNext]_siteVars => FileInv'
<1> SUFFICES ASSUME FileInv, [SiteNext]_siteVars PROVE FileInv'
  OBVIOUS
<1>1. CASE UNCHANGED <<file, reply>>
  BY <1>1 DEF FileInv, BudgetInv, VersionInv, ProgressInv, Undisturbed
<1>2. CASE file' = NoFile /\ reply' = NoReply
  BY <1>2, NothingYet, FilesAssumption
     DEF FileInv, BudgetInv, VersionInv, ProgressInv, Undisturbed
<1> QED BY <1>1, <1>2, OpenFileStep, StatStep, FindInMemoryStep, SendChunkStep,
           SendFromMemoryStep, AddFileStep
       DEF SiteNext, SiteAnswer, ServeFile, FileDone, siteVars

\* Never more than what was announced is sent, and an undisturbed reply is exactly the
\* bytes of its range, for every file, range and chunk length.
THEOREM ExactBytes == SiteSpec => []SentAsAnnounced
<1>1. ASSUME FileInv PROVE SentAsAnnounced
  <2>0. reply \in Replies /\ file \in Files
    BY <1>1 DEF FileInv
  <2>1. Len(reply.sent) <= reply.announced
    BY <1>1, <2>0, ReplyTypes DEF FileInv, BudgetInv
  <2> DEFINE wanted == Wanted(reply.range, reply.of.len)
  <2>2. ASSUME reply.state = "done", ~reply.faulty, file.version = reply.of.version,
               Satisfiable(reply.range, reply.of.len)
        PROVE  /\ reply.announced = Len(wanted)
               /\ reply.sent = [i \in DOMAIN wanted |-> <<file.version, wanted[i]>>]
    <3> DEFINE n == Stop(reply.range, reply.of.len) - reply.range.first
    <3>1. /\ reply.announced = n /\ Len(reply.sent) + reply.count = reply.announced
          /\ reply.count = 0
          /\ \A i \in 1..Len(reply.sent) :
                reply.sent[i] = <<file.version, reply.range.first + i - 1>>
      BY <1>1, <2>2 DEF FileInv, ProgressInv, Undisturbed
    <3>2. Len(reply.sent) = n /\ n \in Nat
      BY <2>0, <3>1, ReplyTypes
    <3>3. wanted = [i \in 1..n |-> reply.range.first + i - 1]
      BY DEF Wanted, Stop
    <3>4. /\ wanted \in Seq(Int) /\ Len(wanted) = n
          /\ \A i \in 1..n : wanted[i] = reply.range.first + i - 1
      <4>1. \A i \in 1..n : reply.range.first + i - 1 \in Int
        BY <2>0, <3>2, ReplyTypes, RangeTypes
      <4> QED BY <3>2, <3>3, <4>1, FunctionIsSeq
    <3> HIDE DEF n, wanted
    <3>5. DOMAIN wanted = 1..n /\ DOMAIN reply.sent = 1..n
      BY <2>0, <3>2, <3>4, ReplyTypes
    <3>6. reply.sent = [i \in 1..n |-> reply.sent[i]]
      BY <2>0, <3>2, <3>5, ReplyTypes
    <3> QED BY <3>1, <3>2, <3>4, <3>5, <3>6
  <2> QED BY <2>1, <2>2 DEF SentAsAnnounced
<1> QED BY <1>1, InitFileInv, StepFileInv, PTL DEF SiteSpec
=============================================================================
