-------------------------- MODULE ReceiveTaskProofs --------------------------
(***************************************************************************)
(* Theorems about recv_task over both backends: any number of clients, any *)
(* lengths, any chunk that is a multiple of the key.                       *)
(***************************************************************************)
EXTENDS ReceiveTask, SequenceTheorems, WellFoundedInduction, TLAPS

-----------------------------------------------------------------------------
(* Numbers and sequences.                                                    *)

\* Naturals have a least element: by well-foundedness, in place of an induction.
LEMMA LeastElement ==
    ASSUME NEW T \in SUBSET Nat, T # {}
    PROVE  \E x \in T : \A y \in T : x <= y
<1> DEFINE R == {ss \in Nat \X Nat : ss[1] < ss[2]}
<1>1. R = OpToRel(<, Nat)
  BY DEF OpToRel
<1>2. IsWellFoundedOn(R, Nat)
  BY <1>1, NatLessThanWellFounded, Zenon
<1> HIDE DEF R
<1>3. PICK x \in T : \A y \in T : ~ (<<y, x>> \in R)
  BY <1>2, WFMin
<1>4. ASSUME NEW y \in T PROVE x <= y
  <2>1. <<y, x>> \in Nat \X Nat /\ <<y, x>> \notin R
    BY <1>3
  <2>2. ~(y < x)
    BY <2>1 DEF R
  <2> QED BY <2>2
<1> QED BY <1>3, <1>4

\* A function over 1..n is a sequence.
LEMMA FunctionIsSeq ==
    ASSUME NEW S, NEW n \in Nat, NEW f \in [1..n -> S]
    PROVE  f \in Seq(S) /\ Len(f) = n
BY SeqDef

\* What is left of a sequence behind its first elements.
LEMMA Suffix ==
    ASSUME NEW S, NEW q \in Seq(S), NEW n \in Nat, n <= Len(q)
    PROVE  /\ SubSeq(q, n + 1, Len(q)) \in Seq(S) /\ Len(q) \in Nat
           /\ Len(SubSeq(q, n + 1, Len(q))) = Len(q) - n
           /\ \A i \in 1..(Len(q) - n) : SubSeq(q, n + 1, Len(q))[i] = q[n + i]
<1> DEFINE m == Len(q)
<1>1. m \in Nat /\ \A i \in 1..m : q[i] \in S
  BY ElementOfSeq, LenProperties
<1>2. n <= m
  OBVIOUS
<1> HIDE DEF m
<1>3. n + 1 \in Int /\ m \in Int /\ \A i \in (n + 1)..m : q[i] \in S
  BY <1>1
<1>4. PICK r : r = SubSeq(q, n + 1, m)
  OBVIOUS
<1>5. /\ r \in Seq(S) /\ Len(r) = (IF n + 1 <= m THEN m - (n + 1) + 1 ELSE 0)
      /\ \A i \in 1..(m - (n + 1) + 1) : r[i] = q[n + 1 + i - 1]
  BY <1>3, <1>4, SubSeqProperties
<1>6. m - (n + 1) + 1 = m - n /\ \A i \in 1..(m - n) : n + 1 + i - 1 = n + i
  BY <1>1
<1>7. Len(r) = m - n
  BY <1>1, <1>2, <1>5
<1>8. \A i \in 1..(m - n) : r[i] = q[n + i]
  BY <1>5, <1>6
<1> QED BY <1>1, <1>4, <1>5, <1>7, <1>8 DEF m

\* RemoveFirst drops one element of those it finds and keeps the order of the others.
LEMMA RemoveFirstFacts ==
    ASSUME NEW S, NEW q \in Seq(S), NEW e \in ToSet(q)
    PROVE  \E k \in 1..Len(q) :
              /\ q[k] = e /\ RemoveFirst(q, e) \in Seq(S)
              /\ Len(RemoveFirst(q, e)) = Len(q) - 1
              /\ \A i \in 1..(Len(q) - 1) :
                    RemoveFirst(q, e)[i] = IF i < k THEN q[i] ELSE q[i + 1]
<1> DEFINE I == {i \in 1..Len(q) : q[i] = e}
<1>1. Len(q) \in Nat /\ DOMAIN q = 1..Len(q) /\ \A i \in 1..Len(q) : q[i] \in S
  BY ElementOfSeq, LenProperties
<1>2. I # {} /\ I \in SUBSET Nat /\ \E i \in 1..Len(q) : q[i] = e
  BY <1>1 DEF ToSet
<1>3. PICK k : k = SelectInSeq(q, LAMBDA v : v = e)
  OBVIOUS
<1>4. k = Min(I)
  BY <1>2, <1>3 DEF SelectInSeq
<1> HIDE DEF I
<1>5. k \in I
  <2>1. \E x \in I : \A y \in I : x <= y
    BY <1>2, LeastElement
  <2> QED BY <1>4, <2>1 DEF Min
<1>6. k \in 1..Len(q) /\ q[k] = e
  BY <1>5 DEF I
<1>7. RemoveFirst(q, e) = RemoveAt(q, k)
  BY <1>2, <1>3 DEF RemoveFirst
<1> DEFINE a == SubSeq(q, 1, k - 1)
           b == SubSeq(q, k + 1, Len(q))
<1>8. /\ a \in Seq(S) /\ Len(a) = k - 1
      /\ \A i \in 1..(k - 1) : a[i] = q[i]
  BY <1>1, <1>6, SubSeqProperties
<1>9. /\ b \in Seq(S) /\ Len(b) = Len(q) - k
      /\ \A i \in 1..(Len(q) - k) : b[i] = q[k + i]
  <2>1. k \in Nat /\ k <= Len(q)
    BY <1>1, <1>6
  <2> QED BY <2>1, Suffix
<1>10. RemoveAt(q, k) = a \o b
  BY DEF RemoveAt
<1> HIDE DEF a, b
<1>11. /\ a \o b \in Seq(S)
       /\ Len(a \o b) = Len(a) + Len(b)
       /\ \A i \in 1..(Len(a) + Len(b)) :
            (a \o b)[i] = IF i <= Len(a) THEN a[i] ELSE b[i - Len(a)]
  BY <1>8, <1>9, ConcatProperties
<1>12. ASSUME NEW i \in 1..(Len(q) - 1)
       PROVE  (a \o b)[i] = IF i < k THEN q[i] ELSE q[i + 1]
  <2>1. /\ i \in 1..(Len(a) + Len(b)) /\ Len(a) = k - 1
        /\ i \in Nat /\ k \in Nat /\ Len(q) \in Nat
    BY <1>1, <1>6, <1>8, <1>9
  <2>2. CASE i < k
    BY <2>1, <2>2, <1>8, <1>11
  <2>3. CASE i >= k
    <3>1. i - (k - 1) \in 1..(Len(q) - k) /\ k + (i - (k - 1)) = i + 1
      BY <2>1, <2>3
    <3>2. (a \o b)[i] = b[i - (k - 1)]
      BY <2>1, <2>3, <1>11
    <3> QED BY <3>1, <3>2, <2>1, <2>3, <1>9
  <2> QED BY <2>1, <2>2, <2>3
<1>13. Len(a) + Len(b) = Len(q) - 1
  BY <1>1, <1>6, <1>8, <1>9
<1> QED BY <1>6, <1>7, <1>10, <1>11, <1>12, <1>13

\* The rest of a list in which everybody is once.
LEMMA RemoveFirstKeeps ==
    ASSUME NEW S, NEW q \in Seq(S), NEW e \in ToSet(q), IsInjective(q)
    PROVE  /\ RemoveFirst(q, e) \in Seq(S) /\ IsInjective(RemoveFirst(q, e))
           /\ Len(RemoveFirst(q, e)) = Len(q) - 1 /\ Len(q) \in Nat
           /\ ToSet(RemoveFirst(q, e)) = ToSet(q) \ {e}
<1>1. PICK r : r = RemoveFirst(q, e)
  OBVIOUS
<1>2. PICK k \in 1..Len(q) :
         /\ q[k] = e /\ r \in Seq(S) /\ Len(r) = Len(q) - 1
         /\ \A i \in 1..(Len(q) - 1) : r[i] = IF i < k THEN q[i] ELSE q[i + 1]
  BY <1>1, RemoveFirstFacts
<1> DEFINE m == Len(q)
<1>3. m \in Nat /\ DOMAIN q = 1..m /\ DOMAIN r = 1..(m - 1) /\ k \in 1..m
  BY <1>2, LenProperties
<1> HIDE DEF m
<1>4. ASSUME NEW i \in 1..(m - 1)
      PROVE  \E j \in 1..m : j # k /\ r[i] = q[j] /\ j = (IF i < k THEN i ELSE i + 1)
  BY <1>2, <1>3 DEF m
<1>5. ASSUME NEW j \in 1..m, j # k PROVE \E i \in 1..(m - 1) : r[i] = q[j]
  <2>1. CASE j < k
    BY <1>2, <1>3, <2>1 DEF m
  <2>2. CASE ~(j < k)
    <3>1. j - 1 \in 1..(m - 1) /\ ~(j - 1 < k) /\ (j - 1) + 1 = j
      BY <1>3, <1>5, <2>2
    <3> QED BY <1>2, <3>1 DEF m
  <2> QED BY <2>1, <2>2
<1>6. \A i, j \in 1..m : q[i] = q[j] => i = j
  BY <1>3 DEF IsInjective
<1>7. ASSUME NEW i \in 1..(m - 1), NEW j \in 1..(m - 1), r[i] = r[j] PROVE i = j
  <2>1. PICK i1 \in 1..m : r[i] = q[i1] /\ i1 = (IF i < k THEN i ELSE i + 1)
    BY <1>4
  <2>2. PICK j1 \in 1..m : r[j] = q[j1] /\ j1 = (IF j < k THEN j ELSE j + 1)
    BY <1>4
  <2>3. i1 = j1
    BY <1>6, <1>7, <2>1, <2>2
  <2> QED BY <1>3, <2>1, <2>2, <2>3
<1>8. IsInjective(r)
  BY <1>3, <1>7 DEF IsInjective
<1>9. ToSet(r) = ToSet(q) \ {e}
  <2>1. ASSUME NEW x \in ToSet(r) PROVE x \in ToSet(q) /\ x # e
    <3>1. PICK i \in 1..(m - 1) : x = r[i]
      BY <1>3 DEF ToSet
    <3>2. PICK j \in 1..m : j # k /\ r[i] = q[j]
      BY <1>4
    <3>3. q[j] # q[k]
      BY <1>3, <1>6, <3>2
    <3> QED BY <1>2, <1>3, <3>1, <3>2, <3>3 DEF ToSet
  <2>2. ASSUME NEW x \in ToSet(q), x # e PROVE x \in ToSet(r)
    <3>1. PICK j \in 1..m : x = q[j]
      BY <1>3 DEF ToSet
    <3>2. j # k
      BY <1>2, <2>2, <3>1
    <3>3. PICK i \in 1..(m - 1) : r[i] = q[j]
      BY <1>5, <3>2
    <3> QED BY <1>3, <3>1, <3>3 DEF ToSet
  <2> QED BY <2>1, <2>2
<1> QED BY <1>1, <1>2, <1>3, <1>8, <1>9 DEF m

\* A list in which everybody is once, and one more at its end.
LEMMA AppendKeeps ==
    ASSUME NEW S, NEW q \in Seq(S), NEW e \in S, e \notin ToSet(q), IsInjective(q)
    PROVE  /\ Append(q, e) \in Seq(S) /\ IsInjective(Append(q, e))
           /\ ToSet(Append(q, e)) = ToSet(q) \cup {e}
           /\ Len(Append(q, e)) = Len(q) + 1 /\ Len(q) \in Nat
<1> DEFINE m == Len(q)
<1>1. PICK r : r = Append(q, e)
  OBVIOUS
<1>2. /\ r \in Seq(S) /\ Len(r) = m + 1 /\ m \in Nat /\ DOMAIN q = 1..m
      /\ DOMAIN r = 1..(m + 1) /\ r[m + 1] = e /\ \A i \in 1..m : r[i] = q[i]
  BY <1>1, AppendProperties, LenProperties
<1> HIDE DEF m
<1>3. /\ \A i \in 1..(m + 1) : i \in 1..m \/ i = m + 1
      /\ m + 1 \in 1..(m + 1) /\ 1..m \subseteq 1..(m + 1)
  BY <1>2
<1>4. \A i \in 1..m : q[i] # e
  BY <1>2 DEF ToSet
<1>5. IsInjective(r)
  BY <1>2, <1>3, <1>4 DEF IsInjective
<1>6. ToSet(r) = ToSet(q) \cup {e}
  BY <1>2, <1>3 DEF ToSet
<1> QED BY <1>1, <1>2, <1>5, <1>6 DEF m

-----------------------------------------------------------------------------
(* The stream of one peer: its frames, each with where it ends in the        *)
(* stream and what the peer's message was after it.                          *)

Ops == {"continue", "text", "ping", "close"}
Byte8 == (BOOLEAN \X Ops) \cup (BOOLEAN \X Nat) \cup Nat \cup {"key"} \cup (Nat \X (0..3))
Frame == [fin : BOOLEAN, op : Ops, masked : BOOLEAN, n : Nat, from : Nat,
          bad : BOOLEAN,    \* the decoder refuses it
          cut : BOOLEAN,    \* only its first two bytes are sent
          end : Nat,        \* bytes of the stream up to its last
          open : BOOLEAN, length : Nat, before : Nat,
          count : Nat]      \* messages complete with it
Messages == Seq([from : Nat, to : Nat])

HeadLen(n) == IF n <= ShortLen THEN 6 ELSE 8
Size(f) == IF f.cut THEN 2 ELSE HeadLen(f.n) + f.n
Bytes(f) == IF f.cut THEN <<<<f.fin, f.op>>, <<f.masked, f.n>>>>
            ELSE FrameBytes(f.fin, f.op, f.masked, f.n, f.from)

\* The bytes of a payload, each masked with its byte of the key.
LEMMA PayloadFacts ==
    ASSUME NEW n \in Nat, NEW from \in Nat
    PROVE  /\ Payload(from, n) \in Seq(Byte8) /\ Len(Payload(from, n)) = n
           /\ \A j \in 1..n : Payload(from, n)[j] = <<from + j, (j - 1) % 4>>
<1>1. PICK q : q = Payload(from, n)
  OBVIOUS
<1>2. q = [i \in 1..n |-> <<from + i, (i - 1) % 4>>]
  BY <1>1 DEF Payload
<1>3. \A i \in 1..n : from + i \in Nat /\ (i - 1) % 4 \in 0..3
  OBVIOUS
<1>4. q \in [1..n -> Byte8]
  BY <1>2, <1>3 DEF Byte8
<1>5. q \in Seq(Byte8) /\ Len(q) = n
  BY <1>4
<1> QED BY <1>1, <1>2, <1>5

\* A frame as it is sent: how long it is, its first bytes and its payload.
LEMMA BytesFacts ==
    ASSUME NEW f \in Frame
    PROVE  /\ Bytes(f) \in Seq(Byte8) /\ Len(Bytes(f)) = Size(f)
           /\ Size(f) \in Nat /\ Size(f) >= 2
           /\ Bytes(f)[1] = <<f.fin, f.op>>
           /\ Bytes(f)[2] = <<f.masked, IF f.cut \/ f.n <= ShortLen THEN f.n ELSE ShortLen + 1>>
           /\ ~f.cut /\ f.n > ShortLen => Bytes(f)[3] = f.n
           /\ ~f.cut => \A j \in 1..f.n : Bytes(f)[HeadLen(f.n) + j] = <<f.from + j, (j - 1) % 4>>
<1>0. /\ f.fin \in BOOLEAN /\ f.op \in Ops /\ f.masked \in BOOLEAN /\ f.n \in Nat
      /\ f.from \in Nat /\ ShortLen \in Nat
  BY WsAssumption DEF Frame
<1>1. CASE f.cut
  <2>1. PICK q : q = <<<<f.fin, f.op>>, <<f.masked, f.n>>>>
    OBVIOUS
  <2>2. q \in Seq(Byte8) /\ Len(q) = 2 /\ q[1] = <<f.fin, f.op>> /\ q[2] = <<f.masked, f.n>>
    BY <1>0, <2>1 DEF Byte8
  <2> QED BY <1>1, <2>1, <2>2 DEF Bytes, Size
<1>2. CASE ~f.cut
  <2> DEFINE l == IF f.n <= ShortLen THEN f.n ELSE ShortLen + 1
  <2>1. PICK x : x = <<<<f.fin, f.op>>, <<f.masked, l>>>>
    OBVIOUS
  <2>2. x \in Seq(Byte8) /\ Len(x) = 2 /\ x[1] = <<f.fin, f.op>> /\ x[2] = <<f.masked, l>>
    <3>1. l \in Nat
      BY <1>0
    <3> HIDE DEF l
    <3> QED BY <1>0, <2>1, <3>1 DEF Byte8
  <2>3. PICK y : y = IF f.n <= ShortLen THEN <<>> ELSE <<f.n, f.n>>
    OBVIOUS
  <2>4. /\ y \in Seq(Byte8) /\ Len(y) = HeadLen(f.n) - 6
        /\ f.n > ShortLen => y[1] = f.n
    <3>1. CASE f.n <= ShortLen
      BY <2>3, <3>1, <1>0 DEF HeadLen
    <3>2. CASE ~(f.n <= ShortLen)
      <4>1. y = <<f.n, f.n>>
        BY <2>3, <3>2
      <4>2. y \in Seq(Byte8) /\ Len(y) = 2 /\ y[1] = f.n
        BY <1>0, <4>1 DEF Byte8
      <4> QED BY <3>2, <4>2 DEF HeadLen
    <3> QED BY <3>1, <3>2
  <2>5. PICK k : k = <<"key", "key", "key", "key">>
    OBVIOUS
  <2>6. k \in Seq(Byte8) /\ Len(k) = 4
    BY <2>5 DEF Byte8
  <2>7. PICK z : z = Payload(f.from, f.n)
    OBVIOUS
  <2>8. /\ z \in Seq(Byte8) /\ Len(z) = f.n
        /\ \A j \in 1..f.n : z[j] = <<f.from + j, (j - 1) % 4>>
    BY <1>0, <2>7, PayloadFacts
  <2>9. Bytes(f) = x \o y \o k \o z
    BY <1>2, <2>1, <2>3, <2>5, <2>7 DEF Bytes, FrameBytes
  <2> HIDE DEF l
  <2>10. PICK u : u = x \o y
    OBVIOUS
  <2>11. PICK v : v = u \o k
    OBVIOUS
  <2>12. HeadLen(f.n) \in {6, 8} /\ (f.n > ShortLen => HeadLen(f.n) = 8)
    BY <1>0 DEF HeadLen
  <2>13. /\ u \in Seq(Byte8) /\ Len(u) = HeadLen(f.n) - 4 /\ u[1] = x[1] /\ u[2] = x[2]
         /\ f.n > ShortLen => u[3] = f.n
    <3>1. /\ u \in Seq(Byte8) /\ Len(u) = Len(x) + Len(y)
          /\ \A i \in 1..(Len(x) + Len(y)) : u[i] = IF i <= Len(x) THEN x[i] ELSE y[i - Len(x)]
      BY <2>2, <2>4, <2>10, ConcatProperties
    <3>2. Len(u) = HeadLen(f.n) - 4 /\ u[1] = x[1] /\ u[2] = x[2]
      BY <2>2, <2>4, <2>12, <3>1
    <3>3. ASSUME f.n > ShortLen PROVE u[3] = y[1]
      BY <2>2, <2>4, <2>12, <3>1, <3>3
    <3> QED BY <2>4, <3>1, <3>2, <3>3
  <2>14. /\ v \in Seq(Byte8) /\ Len(v) = HeadLen(f.n) /\ v[1] = x[1] /\ v[2] = x[2]
         /\ f.n > ShortLen => v[3] = f.n
    <3>1. /\ v \in Seq(Byte8) /\ Len(v) = Len(u) + Len(k)
          /\ \A i \in 1..(Len(u) + Len(k)) : v[i] = IF i <= Len(u) THEN u[i] ELSE k[i - Len(u)]
      BY <2>6, <2>11, <2>13, ConcatProperties
    <3>2. Len(v) = HeadLen(f.n) /\ v[1] = u[1] /\ v[2] = u[2]
      BY <2>6, <2>12, <2>13, <3>1
    <3>3. ASSUME f.n > ShortLen PROVE v[3] = u[3]
      BY <2>6, <2>12, <2>13, <3>1, <3>3
    <3> QED BY <2>13, <3>1, <3>2, <3>3
  <2>15. PICK w : w = v \o z
    OBVIOUS
  <2>16. /\ w \in Seq(Byte8) /\ Len(w) = Len(v) + Len(z)
         /\ \A i \in 1..(Len(v) + Len(z)) : w[i] = IF i <= Len(v) THEN v[i] ELSE z[i - Len(v)]
    BY <2>8, <2>14, <2>15, ConcatProperties
  <2>17. Bytes(f) = w
    BY <2>9, <2>10, <2>11, <2>15
  <2>18. Len(w) = HeadLen(f.n) + f.n /\ w[1] = x[1] /\ w[2] = x[2]
    BY <1>0, <2>8, <2>12, <2>14, <2>16
  <2>19. ASSUME f.n > ShortLen PROVE w[3] = f.n
    BY <1>0, <2>8, <2>12, <2>14, <2>16, <2>19
  <2>20. ASSUME NEW j \in 1..f.n PROVE w[HeadLen(f.n) + j] = <<f.from + j, (j - 1) % 4>>
    <3>1. HeadLen(f.n) \in Nat /\ Len(v) = HeadLen(f.n) /\ Len(z) = f.n /\ j \in 1..f.n
      BY <2>8, <2>12, <2>14
    <3>2. PICK i \in Nat : i = HeadLen(f.n) + j
      BY <3>1, <1>0
    <3>3. i \in 1..(Len(v) + Len(z)) /\ ~(i <= Len(v)) /\ i - Len(v) = j
      BY <3>1, <3>2, <1>0
    <3>4. w[i] = z[j]
      BY <2>16, <3>3
    <3> QED BY <2>8, <3>2, <3>4
  <2>21. Size(f) = HeadLen(f.n) + f.n /\ Size(f) \in Nat /\ Size(f) >= 2
    BY <1>0, <1>2, <2>12 DEF Size
  <2> QED BY <1>2, <2>2, <2>16, <2>17, <2>18, <2>19, <2>20, <2>21 DEF l
<1> QED BY <1>1, <1>2

\* A frame of a message that the decoder takes, and the last one of it.
OfMessage(f) == f.op \in {"text", "continue"} /\ ~f.bad
Ends(f) == OfMessage(f) /\ f.fin

\* What the peer has sent of its message: the positions before+1..length since the last
\* control frame.
Sane(q) == q.before <= q.length /\ (~q.open => q.length = 0)

\* f may be sent after q.
Follows(q, f) ==
    /\ Sane(f)
    /\ f.end = q.end + Size(f)
    /\ f.count = q.count + (IF Ends(f) THEN 1 ELSE 0)
    /\ f.bad => ~f.masked \/ f.cut \/ f.n > MaxPayload
    /\ f.cut => f.n > ShortLen + 1
    /\ f.op \in {"ping", "close"} => f.fin
    /\ f.op = "ping" => f.n = 0 /\ f.before = q.length /\ f.length = q.length
    /\ OfMessage(f) => /\ f.op = "continue" <=> q.open
                       /\ f.from = q.length
                       /\ IF f.fin THEN ~f.open
                          ELSE f.length = q.length + f.n /\ f.before = q.before

\* The bytes of f that are not read yet are in w, f begins at w[off + 1].
FrameAt(w, off, f) == \A j \in 1..Size(f) : off + j >= 1 => w[off + j] = Bytes(f)[j]

\* The message that f ends, after q, is on its way.
SentAs(s, base, q, f) ==
    Ends(f) => s[f.count - base] = [from |-> q.before, to |-> q.length + f.n]

\* H[a] is the last frame that is read, H[b] the last that is sent; R bytes are read, and
\* base messages have been handed over.
Wire(w, p, s, H, a, b, R, base) ==
    /\ H \in [Nat -> Frame] /\ a \in Nat /\ b \in Nat /\ R \in Nat /\ base \in Nat
    /\ a <= b /\ H[a].end <= R /\ H[b].end = R + Len(w)
    /\ H[a].count = base /\ H[b].count = base + Len(s)
    /\ p.open = H[b].open /\ p.length = H[b].length /\ p.before = H[b].before
    /\ \A i, j \in a..b : i <= j => H[i].end <= H[j].end /\ H[i].count <= H[j].count
    /\ \A k \in a..b : Sane(H[k])
    /\ \A k \in (a + 1)..b : /\ Follows(H[k - 1], H[k])
                             /\ FrameAt(w, H[k - 1].end - R, H[k])
                             /\ SentAs(s, base, H[k - 1], H[k])

\* A payload of all that q tells and extra bytes more, filled of which are there.
Loaded(payload, q, extra, filled) ==
    /\ Len(payload) = q.length - q.before + extra
    /\ \A i \in 1..(q.length - q.before + filled) : payload[i] = q.before + i

\* ... and where f begins.
Begun(payload, q, f) ==
    /\ f.op = "continue" /\ q.open => Loaded(payload, q, 0, 0)
    /\ f.op # "continue" => payload = <<>>

\* A decoder that has read R bytes is between the frames or in H[a + 1].
InFrame(c, q, f, R) ==
    /\ c.fin = f.fin /\ c.opcode = f.op /\ f.masked /\ ~f.cut
    /\ c.state = "LEN1" => /\ R = q.end + 2 /\ f.n > ShortLen
                           /\ Begun(c.payload, q, f)
    /\ c.state = "MASK" => /\ R = q.end + HeadLen(f.n) - 4 /\ c.remaining = f.n
                           /\ Begun(c.payload, q, f)
    /\ c.state = "DATA" => /\ R = q.end + HeadLen(f.n) + (f.n - c.remaining)
                           /\ c.remaining \in 1..f.n /\ (f.n - c.remaining) % 4 = 0
                           /\ ~f.bad
                           /\ OfMessage(f) => Loaded(c.payload, q, f.n, f.n - c.remaining)

Decoding(c, H, a, b, R) ==
    /\ c.state = "INITIAL" => R = H[a].end /\ (H[a].open => Loaded(c.payload, H[a], 0, 0))
    /\ c.state # "INITIAL" => a < b /\ InFrame(c, H[a], H[a + 1], R)

View(c, w, p, s) ==
    \E H \in [Nat -> Frame], a, b, R, base \in Nat :
        Wire(w, p, s, H, a, b, R, base) /\ Decoding(c, H, a, b, R)

Peers == [open : BOOLEAN, length : Nat, before : Nat,
          left : {"no", "closed", "refused", "fin", "reset"}]

\* A decoder's own part of DecodersSound.
Decoder(c) ==
    /\ c \in Clients
    /\ Len(c.payload) <= MaxPayload
    /\ c.state = "DATA" => c.remaining \in 1..Len(c.payload)

LEMMA FrameTypes ==
    ASSUME NEW f \in Frame
    PROVE  /\ f.fin \in BOOLEAN /\ f.op \in Ops /\ f.masked \in BOOLEAN /\ f.n \in Nat
           /\ f.from \in Nat /\ f.bad \in BOOLEAN /\ f.cut \in BOOLEAN /\ f.end \in Nat
           /\ f.open \in BOOLEAN /\ f.length \in Nat /\ f.before \in Nat /\ f.count \in Nat
BY DEF Frame

LEMMA HeadLens ==
    ASSUME NEW n \in Nat
    PROVE  HeadLen(n) \in {6, 8} /\ (n > ShortLen => HeadLen(n) = 8) /\ ShortLen \in Nat
           /\ (n <= ShortLen => HeadLen(n) = 6)
BY WsAssumption DEF HeadLen

\* Nothing sent and nothing read.
LEMMA ViewFresh ==
    View(FreshClient, <<>>, IdlePeer, <<>>) /\ Decoder(FreshClient)
<1> DEFINE f == [fin |-> TRUE, op |-> "ping", masked |-> TRUE, n |-> 0, from |-> 0,
                 bad |-> FALSE, cut |-> FALSE, end |-> 0, open |-> FALSE, length |-> 0,
                 before |-> 0, count |-> 0]
           H == [k \in Nat |-> f]
<1>1. f \in Frame /\ f.end = 0 /\ f.count = 0 /\ ~f.open /\ f.length = 0 /\ f.before = 0
      /\ f.open = FALSE
  BY DEF Frame, Ops
<1>2. Sane(f)
  BY <1>1 DEF Sane
<1> HIDE DEF f
<1>3. H \in [Nat -> Frame] /\ \A k \in Nat : H[k] = f
  BY <1>1
<1>4. H[0] = f
  BY <1>3
<1> HIDE DEF H
<1>5. /\ IdlePeer.open = FALSE /\ IdlePeer.length = 0 /\ IdlePeer.before = 0
      /\ FreshClient.state = "INITIAL"
  BY DEF IdlePeer, FreshClient
<1>6. 0..0 = {0} /\ (0 + 1)..0 = {}
  OBVIOUS
<1>7. Wire(<<>>, IdlePeer, <<>>, H, 0, 0, 0, 0)
  <2>1. \A k \in 0..0 : H[k] = f
    BY <1>4, <1>6
  <2>2. \A i, j \in 0..0 : i <= j => H[i].end <= H[j].end /\ H[i].count <= H[j].count
    BY <1>1, <2>1
  <2>3. \A k \in 0..0 : Sane(H[k])
    BY <1>2, <2>1
  <2>4. \A k \in (0 + 1)..0 : FALSE
    BY <1>6
  <2>5. 0 <= 0 /\ H[0].end <= 0 /\ H[0].end = 0 + Len(<<>>) /\ H[0].count = 0
        /\ H[0].count = 0 + Len(<<>>)
    BY <1>1, <1>4
  <2>6. 0 \in Nat
    OBVIOUS
  <2> QED BY <1>1, <1>3, <1>4, <1>5, <2>2, <2>3, <2>4, <2>5, <2>6, Zenon DEF Wire
<1>8. Decoding(FreshClient, H, 0, 0, 0)
  BY <1>1, <1>4, <1>5 DEF Decoding
<1>9. View(FreshClient, <<>>, IdlePeer, <<>>)
  BY <1>3, <1>7, <1>8 DEF View
<1>10. Decoder(FreshClient)
  BY WsAssumption DEF Decoder, FreshClient, Clients
<1> QED BY <1>9, <1>10

\* What Wire says of each frame.
LEMMA WireFacts ==
    ASSUME NEW w \in Seq(Byte8), NEW p, NEW s \in Messages, NEW H, NEW a, NEW b, NEW R,
           NEW base, Wire(w, p, s, H, a, b, R, base)
    PROVE  /\ a \in Nat /\ b \in Nat /\ R \in Nat /\ base \in Nat /\ a <= b
           /\ Len(w) \in Nat /\ Len(s) \in Nat /\ a \in a..b /\ b \in a..b
           /\ \A k \in a..b : /\ k \in Nat /\ H[k] \in Frame
                              /\ H[k].end \in Nat /\ H[k].count \in Nat
                              /\ H[k].end <= R + Len(w)
                              /\ base <= H[k].count /\ H[k].count <= base + Len(s)
           /\ \A k \in (a + 1)..b :
                 /\ k \in a..b /\ k - 1 \in a..b /\ Size(H[k]) \in Nat
                 /\ H[k].end = H[k - 1].end + Size(H[k])
                 /\ Ends(H[k]) => H[k].count - base \in 1..Len(s)
                 /\ \A j \in 1..Size(H[k]) : H[k - 1].end - R + j <= Len(w)
<1>1. /\ a \in Nat /\ b \in Nat /\ R \in Nat /\ base \in Nat /\ a <= b
      /\ H \in [Nat -> Frame] /\ H[b].end = R + Len(w)
      /\ H[a].count = base /\ H[b].count = base + Len(s)
      /\ \A i, j \in a..b : i <= j => H[i].end <= H[j].end /\ H[i].count <= H[j].count
      /\ \A k \in (a + 1)..b : Follows(H[k - 1], H[k])
  BY DEF Wire
<1>2. Len(w) \in Nat /\ Len(s) \in Nat
  BY LenProperties DEF Messages
<1>3. a \in a..b /\ b \in a..b /\ \A k \in a..b : k \in Nat /\ a <= k /\ k <= b
  BY <1>1
<1>4. ASSUME NEW k \in a..b
      PROVE  /\ k \in Nat /\ H[k] \in Frame /\ H[k].end \in Nat /\ H[k].count \in Nat
             /\ H[k].end <= R + Len(w) /\ base <= H[k].count /\ H[k].count <= base + Len(s)
  <2>1. H[k] \in Frame /\ k \in Nat
    BY <1>1, <1>3
  <2>2. H[k].end <= H[b].end /\ H[a].count <= H[k].count /\ H[k].count <= H[b].count
    BY <1>1, <1>3
  <2> QED BY <1>1, <2>1, <2>2, FrameTypes
<1>5. ASSUME NEW k \in (a + 1)..b
      PROVE  /\ k \in a..b /\ k - 1 \in a..b /\ Size(H[k]) \in Nat
             /\ H[k].end = H[k - 1].end + Size(H[k])
             /\ Ends(H[k]) => H[k].count - base \in 1..Len(s)
             /\ \A j \in 1..Size(H[k]) : H[k - 1].end - R + j <= Len(w)
  <2>1. k \in a..b /\ k - 1 \in a..b
    BY <1>1
  <2>2. /\ H[k].end = H[k - 1].end + Size(H[k])
        /\ H[k].count = H[k - 1].count + (IF Ends(H[k]) THEN 1 ELSE 0)
    BY <1>1 DEF Follows
  <2>3. Size(H[k]) \in Nat
    BY <1>4, <2>1, BytesFacts
  <2>4. /\ H[k - 1].count \in Nat /\ base <= H[k - 1].count /\ H[k].count <= base + Len(s)
        /\ H[k - 1].end \in Nat /\ H[k].end <= R + Len(w)
    BY <1>4, <2>1
  <2>5. ASSUME Ends(H[k]) PROVE H[k].count - base \in 1..Len(s)
    <3>1. H[k].count = H[k - 1].count + 1
      BY <2>2, <2>5
    <3> QED BY <1>1, <1>2, <2>4, <3>1
  <2>6. ASSUME NEW j \in 1..Size(H[k]) PROVE H[k - 1].end - R + j <= Len(w)
    BY <1>1, <1>2, <2>2, <2>3, <2>4, SMTT(30)
  <2> QED BY <2>1, <2>2, <2>3, <2>5, <2>6
<1> QED BY <1>1, <1>2, <1>3, <1>4, <1>5

\* f brings the peer's message to p and the messages on their way from s to s2.
Brings(q, f, p, s, s2) ==
    /\ p.open = f.open /\ p.length = f.length /\ p.before = f.before
    /\ s2 = IF Ends(f) THEN Append(s, [from |-> q.before, to |-> q.length + f.n]) ELSE s

\* The history H with one frame more.
Longer(w, p, s, H, a, b, R, base) ==
    \E H2 \in [Nat -> Frame] :
        Wire(w, p, s, H2, a, b + 1, R, base) /\ \A k \in a..b : H2[k] = H[k]

\* The peer sends a frame.
LEMMA WireSend ==
    ASSUME NEW w \in Seq(Byte8), NEW p, NEW s \in Messages, NEW H, NEW a, NEW b, NEW R,
           NEW base, Wire(w, p, s, H, a, b, R, base),
           NEW f \in Frame, Follows(H[b], f),
           NEW p2, NEW s2, Brings(H[b], f, p2, s, s2)
    PROVE  /\ s2 \in Messages /\ w \o Bytes(f) \in Seq(Byte8)
           /\ Len(w \o Bytes(f)) = Len(w) + Size(f)
           /\ Longer(w \o Bytes(f), p2, s2, H, a, b, R, base)
<1>1. /\ a \in Nat /\ b \in Nat /\ R \in Nat /\ base \in Nat /\ a <= b
      /\ Len(w) \in Nat /\ Len(s) \in Nat /\ a \in a..b /\ b \in a..b
      /\ b + 1 \in Nat /\ a <= b + 1
  <2>1. /\ a \in Nat /\ b \in Nat /\ R \in Nat /\ base \in Nat /\ a <= b
        /\ Len(w) \in Nat /\ Len(s) \in Nat /\ a \in a..b /\ b \in a..b
    BY WireFacts
  <2> QED BY <2>1
<1>2. /\ H \in [Nat -> Frame] /\ H[b].end = R + Len(w) /\ H[a].end <= R
      /\ H[a].count = base /\ H[b].count = base + Len(s)
      /\ \A i, j \in a..b : i <= j => H[i].end <= H[j].end /\ H[i].count <= H[j].count
      /\ \A k \in a..b : Sane(H[k])
      /\ \A k \in (a + 1)..b : /\ Follows(H[k - 1], H[k])
                               /\ FrameAt(w, H[k - 1].end - R, H[k])
                               /\ SentAs(s, base, H[k - 1], H[k])
  BY DEF Wire
<1>3. /\ Sane(f) /\ f.end = H[b].end + Size(f)
      /\ f.count = H[b].count + (IF Ends(f) THEN 1 ELSE 0)
  BY DEF Follows
<1>4. PICK w2 : w2 = w \o Bytes(f)
  OBVIOUS
<1>5. Bytes(f) \in Seq(Byte8) /\ Len(Bytes(f)) = Size(f) /\ Size(f) \in Nat
  BY BytesFacts
<1>6. /\ w2 \in Seq(Byte8) /\ Len(w2) = Len(w) + Size(f)
      /\ \A i \in 1..(Len(w) + Size(f)) : w2[i] = IF i <= Len(w) THEN w[i] ELSE Bytes(f)[i - Len(w)]
  <2>1. PICK y \in Seq(Byte8) : y = Bytes(f)
    BY <1>5
  <2>2. w2 = w \o y
    BY <1>4, <2>1
  <2>3. /\ w \o y \in Seq(Byte8) /\ Len(w \o y) = Len(w) + Len(y)
        /\ \A i \in 1..(Len(w) + Len(y)) : (w \o y)[i] = IF i <= Len(w) THEN w[i] ELSE y[i - Len(w)]
    BY ConcatProperties
  <2> QED BY <1>5, <2>1, <2>2, <2>3
<1>7. /\ s2 \in Messages /\ Len(s2) = Len(s) + (IF Ends(f) THEN 1 ELSE 0)
      /\ \A i \in 1..Len(s) : s2[i] = s[i]
      /\ Ends(f) => s2[Len(s) + 1] = [from |-> H[b].before, to |-> H[b].length + f.n]
  <2>1. CASE ~Ends(f)
    BY <1>1, <2>1 DEF Brings
  <2>2. CASE Ends(f)
    <3>1. PICK m : m = [from |-> H[b].before, to |-> H[b].length + f.n]
      OBVIOUS
    <3>2. m \in [from : Nat, to : Nat]
      <4>1. H[b] \in Frame
        BY <1>1, <1>2
      <4>2. H[b].before \in Nat /\ H[b].length + f.n \in Nat
        BY <4>1, FrameTypes
      <4> QED BY <3>1, <4>2
    <3>3. s2 = Append(s, m)
      BY <2>2, <3>1 DEF Brings
    <3>4. /\ Append(s, m) \in Messages /\ Len(Append(s, m)) = Len(s) + 1
          /\ \A i \in 1..Len(s) : Append(s, m)[i] = s[i]
          /\ Append(s, m)[Len(s) + 1] = m
      BY <3>2, AppendProperties DEF Messages
    <3> QED BY <2>2, <3>1, <3>3, <3>4
  <2> QED BY <2>1, <2>2
<1>8. PICK H2 : H2 = [H EXCEPT ![b + 1] = f]
  OBVIOUS
<1>9. H2 \in [Nat -> Frame] /\ H2[b + 1] = f /\ \A k \in a..b : H2[k] = H[k]
  BY <1>1, <1>2, <1>8
<1>10. H2[b + 1].end = R + Len(w2) /\ H2[b + 1].count = base + Len(s2)
  <2>1. H[b].end \in Nat /\ H[b].count \in Nat
    BY <1>1, <1>2, WireFacts
  <2>2. f.end = R + Len(w2)
    BY <1>1, <1>2, <1>3, <1>5, <1>6, <2>1
  <2>3. f.count = base + Len(s2)
    <3>1. CASE Ends(f)
      BY <1>1, <1>2, <1>3, <1>7, <3>1
    <3>2. CASE ~Ends(f)
      BY <1>1, <1>2, <1>3, <1>7, <3>2
    <3> QED BY <3>1, <3>2
  <2> QED BY <1>9, <2>2, <2>3
<1>11. /\ \A k \in a..(b + 1) : k \in a..b \/ k = b + 1
       /\ \A k \in (a + 1)..(b + 1) : k \in (a + 1)..b \/ k = b + 1
  BY <1>1
<1>12. \A i, j \in a..(b + 1) : i <= j => H2[i].end <= H2[j].end /\ H2[i].count <= H2[j].count
  <2>1. ASSUME NEW i \in a..b PROVE H[i].end <= f.end /\ H[i].count <= f.count
    <3>1. H[i].end <= H[b].end /\ H[i].count <= H[b].count
      BY <1>1, <1>2
    <3>2. H[i].end \in Nat /\ H[i].count \in Nat /\ H[b].end \in Nat /\ H[b].count \in Nat
      BY <1>1, WireFacts
    <3>3. H[b].end <= f.end
      BY <1>3, <1>5, <3>2
    <3>4. H[b].count <= f.count /\ f.end \in Nat /\ f.count \in Nat
      BY <1>3, <3>2, FrameTypes
    <3> QED BY <3>1, <3>2, <3>3, <3>4
  <2>2. f.end <= f.end /\ f.count <= f.count
    BY FrameTypes
  <2>3. ASSUME NEW i \in a..(b + 1), NEW j \in a..(b + 1), i <= j
        PROVE  H2[i].end <= H2[j].end /\ H2[i].count <= H2[j].count
    <3>1. CASE j = b + 1
      BY <1>9, <1>11, <2>1, <2>2, <3>1
    <3>2. CASE j \in a..b
      <4>1. i \in a..b
        BY <1>1, <2>3, <3>2
      <4> QED BY <1>2, <1>9, <2>3, <3>2, <4>1
    <3> QED BY <1>11, <3>1, <3>2
  <2> QED BY <2>3
<1>13. \A k \in a..(b + 1) : Sane(H2[k])
  BY <1>2, <1>3, <1>9, <1>11
<1>14. ASSUME NEW k \in (a + 1)..(b + 1)
       PROVE  /\ Follows(H2[k - 1], H2[k])
              /\ FrameAt(w2, H2[k - 1].end - R, H2[k])
              /\ SentAs(s2, base, H2[k - 1], H2[k])
  <2>1. CASE k \in (a + 1)..b
    <3>1. k \in a..b /\ k - 1 \in a..b /\ H2[k] = H[k] /\ H2[k - 1] = H[k - 1]
      BY <1>9, <2>1, WireFacts
    <3>2. FrameAt(w2, H[k - 1].end - R, H[k])
      <4>1. SUFFICES ASSUME NEW j \in 1..Size(H[k]), H[k - 1].end - R + j >= 1
                     PROVE  w2[H[k - 1].end - R + j] = Bytes(H[k])[j]
        BY DEF FrameAt
      <4>2. H[k - 1].end \in Nat /\ Size(H[k]) \in Nat
        <5>1. \A m \in a..b : H[m].end \in Nat
          BY WireFacts
        <5>2. \A m \in (a + 1)..b : Size(H[m]) \in Nat
          BY WireFacts
        <5> QED BY <2>1, <3>1, <5>1, <5>2
      <4>3. PICK i \in Int : i = H[k - 1].end - R + j
        BY <1>1, <4>2
      <4>4. i \in 1..(Len(w) + Size(f)) /\ i <= Len(w)
        <5>1. i <= Len(w)
          BY <2>1, <4>3, WireFacts
        <5>2. i >= 1
          BY <4>1, <4>3
        <5> QED BY <1>1, <1>5, <4>3, <5>1, <5>2
      <4>5. w2[i] = w[i]
        BY <1>6, <4>4
      <4>6. w[i] = Bytes(H[k])[j]
        BY <1>2, <2>1, <4>1, <4>3 DEF FrameAt
      <4> QED BY <4>3, <4>5, <4>6
    <3>3. SentAs(s2, base, H[k - 1], H[k])
      <4>1. Ends(H[k]) => H[k].count - base \in 1..Len(s)
        BY <2>1, WireFacts
      <4> QED BY <1>2, <1>7, <2>1, <4>1 DEF SentAs
    <3> QED BY <1>2, <2>1, <3>1, <3>2, <3>3
  <2>2. CASE k = b + 1
    <3>1. H2[k] = f /\ H2[k - 1] = H[b]
      BY <1>1, <1>9, <2>2
    <3>2. FrameAt(w2, H[b].end - R, f)
      <4>1. H[b].end - R = Len(w)
        BY <1>1, <1>2
      <4>2. SUFFICES ASSUME NEW j \in 1..Size(f)
                     PROVE  w2[Len(w) + j] = Bytes(f)[j]
        BY <4>1 DEF FrameAt
      <4>3. PICK i \in Nat : i = Len(w) + j
        BY <1>1, <1>5
      <4>4. i \in 1..(Len(w) + Size(f)) /\ ~(i <= Len(w)) /\ i - Len(w) = j
        BY <1>1, <1>5, <4>3
      <4>5. w2[i] = Bytes(f)[j]
        BY <1>6, <4>4
      <4> QED BY <4>3, <4>5
    <3>3. SentAs(s2, base, H[b], f)
      <4>1. SUFFICES ASSUME Ends(f)
                     PROVE  s2[f.count - base] = [from |-> H[b].before, to |-> H[b].length + f.n]
        BY DEF SentAs
      <4>2. f.count - base = Len(s) + 1
        BY <1>1, <1>2, <1>3, <4>1
      <4> QED BY <1>7, <4>1, <4>2
    <3> QED BY <3>1, <3>2, <3>3
  <2> QED BY <1>11, <2>1, <2>2
<1>15. H2[a].end <= R /\ H2[a].count = base
  BY <1>1, <1>2, <1>9
<1>16. p2.open = H2[b + 1].open /\ p2.length = H2[b + 1].length /\ p2.before = H2[b + 1].before
  BY <1>9 DEF Brings
<1>17. Wire(w2, p2, s2, H2, a, b + 1, R, base)
  BY <1>1, <1>9, <1>10, <1>12, <1>13, <1>14, <1>15, <1>16, Zenon DEF Wire
<1>18. Longer(w2, p2, s2, H, a, b, R, base)
  BY <1>9, <1>17 DEF Longer
<1> QED BY <1>4, <1>6, <1>7, <1>18

\* What is left of the stream, and of the messages, behind what is read.
Unread(w, n) == SubSeq(w, n + 1, Len(w))
Awaiting(s, f) == IF Ends(f) THEN Tail(s) ELSE s
FirstIs(s, q, f) == Ends(f) => /\ s # <<>>
                               /\ Head(s) = [from |-> q.before, to |-> q.length + f.n]

\* The first n bytes are read.
LEMMA WireRead ==
    ASSUME NEW w \in Seq(Byte8), NEW p, NEW s \in Messages, NEW H, NEW a, NEW b, NEW R,
           NEW base, Wire(w, p, s, H, a, b, R, base),
           NEW n \in Nat, n <= Len(w), NEW w2, w2 = Unread(w, n)
    PROVE  /\ w2 \in Seq(Byte8) /\ Len(w2) = Len(w) - n
           /\ Wire(w2, p, s, H, a, b, R + n, base)
<1>1. /\ a \in Nat /\ b \in Nat /\ R \in Nat /\ base \in Nat /\ a <= b
      /\ Len(w) \in Nat /\ a \in a..b /\ b \in a..b
  BY WireFacts
<1>2. /\ H \in [Nat -> Frame] /\ H[b].end = R + Len(w) /\ H[a].end <= R
      /\ H[a].count = base /\ H[b].count = base + Len(s)
      /\ p.open = H[b].open /\ p.length = H[b].length /\ p.before = H[b].before
      /\ \A i, j \in a..b : i <= j => H[i].end <= H[j].end /\ H[i].count <= H[j].count
      /\ \A k \in a..b : Sane(H[k])
      /\ \A k \in (a + 1)..b : /\ Follows(H[k - 1], H[k])
                               /\ FrameAt(w, H[k - 1].end - R, H[k])
                               /\ SentAs(s, base, H[k - 1], H[k])
  BY DEF Wire
<1>3. /\ w2 \in Seq(Byte8) /\ Len(w2) = Len(w) - n
      /\ \A i \in 1..(Len(w) - n) : w2[i] = w[n + i]
  BY Suffix DEF Unread
<1>4. H[a].end \in Nat
  BY <1>1, WireFacts
<1>5. R + n \in Nat /\ H[a].end <= R + n /\ H[b].end = R + n + Len(w2)
  <2>1. H[a].end <= R /\ H[b].end = R + Len(w) /\ Len(w2) = Len(w) - n
    BY <1>2, <1>3
  <2> QED BY <1>1, <1>4, <2>1
<1>6. ASSUME NEW k \in (a + 1)..b PROVE FrameAt(w2, H[k - 1].end - (R + n), H[k])
  <2>1. SUFFICES ASSUME NEW j \in 1..Size(H[k]), H[k - 1].end - (R + n) + j >= 1
                 PROVE  w2[H[k - 1].end - (R + n) + j] = Bytes(H[k])[j]
    BY DEF FrameAt
  <2>2. k - 1 \in a..b
    BY WireFacts
  <2>3. H[k - 1].end \in Nat /\ Size(H[k]) \in Nat
    <3>1. \A m \in a..b : H[m].end \in Nat
      BY WireFacts
    <3>2. \A m \in (a + 1)..b : Size(H[m]) \in Nat
      BY WireFacts
    <3> QED BY <2>2, <3>1, <3>2
  <2>4. PICK i \in Int : i = H[k - 1].end - (R + n) + j
    BY <1>1, <2>3
  <2>5. n + i = H[k - 1].end - R + j
    <3>1. PICK e \in Nat : e = H[k - 1].end
      BY <2>3
    <3>2. i = e - (R + n) + j /\ j \in Nat
      BY <2>1, <2>3, <2>4, <3>1
    <3>3. n + i = e - R + j
      BY <1>1, <3>2
    <3> QED BY <3>1, <3>3
  <2>6. n + i <= Len(w)
    <3>1. H[k - 1].end - R + j <= Len(w)
      BY WireFacts
    <3> QED BY <2>5, <3>1
  <2>7. i \in 1..(Len(w) - n)
    BY <1>1, <2>1, <2>4, <2>6
  <2>8. w2[i] = w[n + i]
    BY <1>3, <2>7
  <2>9. n + i >= 1
    BY <2>7
  <2>10. w[n + i] = Bytes(H[k])[j]
    BY <1>2, <2>1, <2>5, <2>9 DEF FrameAt
  <2> QED BY <2>4, <2>8, <2>10
<1> QED BY <1>1, <1>2, <1>3, <1>5, <1>6, Zenon DEF Wire

\* A frame is read; if a message ends with it, the first one is no longer on its way.
LEMMA WireNext ==
    ASSUME NEW w \in Seq(Byte8), NEW p, NEW s \in Messages, NEW H, NEW a, NEW b, NEW R,
           NEW base, Wire(w, p, s, H, a, b, R, base), a < b, H[a + 1].end <= R,
           NEW s2, s2 = Awaiting(s, H[a + 1])
    PROVE  /\ s2 \in Messages
           /\ \E base2 \in Nat : Wire(w, p, s2, H, a + 1, b, R, base2)
           /\ FirstIs(s, H[a], H[a + 1])
<1>1. /\ a \in Nat /\ b \in Nat /\ R \in Nat /\ base \in Nat /\ a <= b
      /\ Len(w) \in Nat /\ Len(s) \in Nat /\ a \in a..b /\ b \in a..b
  BY WireFacts
<1>2. /\ H \in [Nat -> Frame] /\ H[b].end = R + Len(w) /\ H[a].end <= R
      /\ H[a].count = base /\ H[b].count = base + Len(s)
      /\ p.open = H[b].open /\ p.length = H[b].length /\ p.before = H[b].before
      /\ \A i, j \in a..b : i <= j => H[i].end <= H[j].end /\ H[i].count <= H[j].count
      /\ \A k \in a..b : Sane(H[k])
      /\ \A k \in (a + 1)..b : /\ Follows(H[k - 1], H[k])
                               /\ FrameAt(w, H[k - 1].end - R, H[k])
                               /\ SentAs(s, base, H[k - 1], H[k])
  BY DEF Wire
<1>3. /\ a + 1 \in Nat /\ a + 1 <= b /\ a + 1 \in (a + 1)..b /\ (a + 1) - 1 = a
      /\ \A k \in (a + 1)..b : k \in a..b
      /\ \A k \in ((a + 1) + 1)..b : k \in (a + 1)..b /\ k - 1 \in (a + 1)..b
  BY <1>1
<1>4. H[a + 1].count = base + (IF Ends(H[a + 1]) THEN 1 ELSE 0)
  <2>1. Follows(H[(a + 1) - 1], H[a + 1])
    BY <1>2, <1>3
  <2> QED BY <1>2, <1>3, <2>1 DEF Follows
<1>5. PICK base2 \in Nat : base2 = H[a + 1].count
  BY <1>1, <1>4
<1>6. ASSUME Ends(H[a + 1])
      PROVE  /\ s # <<>> /\ base2 = base + 1
             /\ Head(s) = [from |-> H[a].before, to |-> H[a].length + H[a + 1].n]
             /\ s2 \in Messages /\ Len(s2) = Len(s) - 1
             /\ \A i \in 1..(Len(s) - 1) : s2[i] = s[i + 1]
  <2>1. base2 = base + 1
    BY <1>4, <1>5, <1>6
  <2>2. H[a + 1].count - base \in 1..Len(s)
    BY <1>3, <1>6, WireFacts, ZenonT(60)
  <2>3. Len(s) >= 1 /\ H[a + 1].count - base = 1
    BY <1>1, <1>5, <2>1, <2>2
  <2>4. s # <<>> /\ Head(s) = s[1]
    BY <2>3 DEF Messages
  <2>5. s[1] = [from |-> H[a].before, to |-> H[a].length + H[a + 1].n]
    <3>1. SentAs(s, base, H[(a + 1) - 1], H[a + 1])
      BY <1>2, <1>3
    <3> QED BY <1>3, <1>6, <2>3, <3>1 DEF SentAs
  <2>6. /\ Tail(s) \in Messages /\ Len(Tail(s)) = Len(s) - 1
        /\ \A i \in 1..(Len(s) - 1) : Tail(s)[i] = s[i + 1]
    BY <2>4, HeadTailProperties DEF Messages
  <2>7. s2 = Tail(s)
    BY <1>6 DEF Awaiting
  <2> QED BY <2>1, <2>4, <2>5, <2>6, <2>7
<1>7. ASSUME ~Ends(H[a + 1])
      PROVE  s2 = s /\ base2 = base
  BY <1>1, <1>4, <1>5, <1>7 DEF Awaiting
<1>8. s2 \in Messages
  BY <1>6, <1>7
<1>9. H[b].count = base2 + Len(s2)
  <2>1. CASE Ends(H[a + 1])
    <3>1. base2 = base + 1 /\ Len(s2) = Len(s) - 1 /\ H[b].count = base + Len(s)
      BY <1>2, <1>6, <2>1
    <3> QED BY <1>1, <3>1
  <2>2. CASE ~Ends(H[a + 1])
    BY <1>2, <1>7, <2>2
  <2> QED BY <2>1, <2>2
<1>10. ASSUME NEW k \in ((a + 1) + 1)..b PROVE SentAs(s2, base2, H[k - 1], H[k])
  <2>0. SentAs(s, base, H[k - 1], H[k])
    BY <1>2, <1>3
  <2>1. SUFFICES ASSUME Ends(H[k])
                 PROVE  s2[H[k].count - base2] = [from |-> H[k - 1].before,
                                                  to |-> H[k - 1].length + H[k].n]
    BY DEF SentAs
  <2>2. s[H[k].count - base] = [from |-> H[k - 1].before, to |-> H[k - 1].length + H[k].n]
    BY <2>0, <2>1 DEF SentAs
  <2>3. CASE ~Ends(H[a + 1])
    BY <1>7, <2>2, <2>3
  <2>4. CASE Ends(H[a + 1])
    <3>1. H[k].count = H[k - 1].count + 1
      <4>1. Follows(H[k - 1], H[k])
        BY <1>2, <1>3
      <4> QED BY <2>1, <4>1 DEF Follows
    <3>2. base2 <= H[k - 1].count
      <4>1. a + 1 \in a..b /\ k - 1 \in a..b /\ a + 1 <= k - 1
        BY <1>1, <1>3
      <4> QED BY <1>2, <1>5, <4>1
    <3>3. H[k].count \in Nat /\ H[k - 1].count \in Nat /\ H[k].count <= base + Len(s)
      <4>1. k \in a..b /\ k - 1 \in a..b
        BY <1>3
      <4>2. \A m \in a..b : H[m].count \in Nat /\ H[m].count <= base + Len(s)
        BY WireFacts, ZenonT(60)
      <4> QED BY <4>1, <4>2
    <3>4. PICK i \in Int : i = H[k].count - base2
      BY <3>3
    <3>5. i \in 1..(Len(s) - 1) /\ i + 1 = H[k].count - base
      <4>1. base2 = base + 1
        BY <1>6, <2>4
      <4>2. PICK h \in Nat : h = H[k].count
        BY <3>3
      <4>3. base + 1 < h /\ h <= base + Len(s) /\ i = h - (base + 1)
        <5>1. PICK g \in Nat : g = H[k - 1].count
          BY <3>3
        <5>2. h = g + 1 /\ base + 1 <= g /\ h <= base + Len(s) /\ i = h - (base + 1)
          BY <3>1, <3>2, <3>3, <3>4, <4>1, <4>2, <5>1
        <5>3. base \in Nat /\ Len(s) \in Nat
          BY <1>1
        <5>4. base + 1 < h
          BY <5>1, <5>2, <5>3, SMTT(30)
        <5> QED BY <5>2, <5>4
      <4>4. i \in 1..(Len(s) - 1) /\ i + 1 = h - base
        BY <1>1, <4>3
      <4> QED BY <4>2, <4>4
    <3>6. s2[i] = s[i + 1]
      BY <1>6, <2>4, <3>5
    <3> QED BY <2>2, <3>4, <3>5, <3>6
  <2> QED BY <2>3, <2>4
<1>11. Wire(w, p, s2, H, a + 1, b, R, base2)
  <2>1. /\ \A i, j \in (a + 1)..b : i <= j => H[i].end <= H[j].end /\ H[i].count <= H[j].count
        /\ \A k \in (a + 1)..b : Sane(H[k])
    BY <1>2, <1>3
  <2>2. \A k \in ((a + 1) + 1)..b : /\ Follows(H[k - 1], H[k])
                                    /\ FrameAt(w, H[k - 1].end - R, H[k])
    BY <1>2, <1>3
  <2> QED BY <1>1, <1>2, <1>3, <1>5, <1>9, <1>10, <2>1, <2>2, Zenon DEF Wire
<1>12. FirstIs(s, H[a], H[a + 1])
  BY <1>6 DEF FirstIs
<1> QED BY <1>5, <1>8, <1>11, <1>12

-----------------------------------------------------------------------------
(* The key runs on over whole chunks, which are multiples of its length.     *)

LEMMA Division ==
    ASSUME NEW x \in Nat, NEW z \in Nat, z > 0
    PROVE  x \div z \in Int /\ (x \div z) * z <= x /\ x < (x \div z + 1) * z
OBVIOUS

LEMMA Remainder ==
    ASSUME NEW x \in Int, NEW z \in Nat, z > 0, NEW r \in 0..(z - 1), NEW d \in Int,
           x = d * z + r
    PROVE  r = x % z
OBVIOUS

LEMMA FourTimes ==
    ASSUME NEW d \in Int, NEW m \in Int
    PROVE  d * m \in Int /\ d * (4 * m) = 4 * (d * m)
OBVIOUS

LEMMA FourMore ==
    ASSUME NEW d \in Int, NEW r \in Int
    PROVE  (4 * d + r) % 4 = r % 4
OBVIOUS

LEMMA FourSums ==
    ASSUME NEW x \in Int, NEW y \in Int, x % 4 = 0
    PROVE  (x + y) % 4 = y % 4
OBVIOUS

LEMMA ChunkOfFour == \E m \in Nat : Chunk = 4 * m
BY WsAssumption

LEMMA KeyRunsOn ==
    ASSUME NEW x \in Nat
    PROVE  (x % Chunk) % 4 = x % 4
<1>1. PICK z \in Nat : z = Chunk /\ z > 0
  BY WsAssumption
<1>2. PICK m \in Nat : z = 4 * m
  BY <1>1, ChunkOfFour
<1>3. PICK d \in Int : d = x \div z /\ d * z <= x /\ x < (d + 1) * z
  BY <1>1, Division
<1>4. PICK y \in Int : y = d * z
  OBVIOUS
<1>5. (d + 1) * z = y + z
  BY <1>4
<1>6. PICK r \in 0..(z - 1) : r = x - y
  BY <1>3, <1>4, <1>5
<1>7. x = d * z + r
  BY <1>4, <1>6
<1>8. r = x % z
  BY <1>1, <1>7, Remainder
<1>9. d * z = 4 * (d * m) /\ d * m \in Int
  BY <1>2, FourTimes
<1>10. x = 4 * (d * m) + r
  BY <1>7, <1>9
<1>11. x % 4 = r % 4
  BY <1>9, <1>10, FourMore
<1> QED BY <1>1, <1>8, <1>11

LEMMA WholeChunks ==
    ASSUME NEW x \in Nat
    PROVE  /\ (x \div Chunk) * Chunk \in Int /\ (x \div Chunk) * Chunk <= x
           /\ ((x \div Chunk) * Chunk) % 4 = 0
<1>1. PICK z \in Nat : z = Chunk /\ z > 0
  BY WsAssumption
<1>2. PICK m \in Nat : z = 4 * m
  BY <1>1, ChunkOfFour
<1>3. PICK d \in Int : d = x \div z /\ d * z <= x
  BY <1>1, Division
<1>4. d * z = 4 * (d * m) /\ d * m \in Int
  BY <1>2, FourTimes
<1>5. (4 * (d * m) + 0) % 4 = 0 % 4
  BY <1>4, FourMore
<1>6. 4 * (d * m) + 0 = d * z /\ d * z \in Int /\ 0 % 4 = 0
  BY <1>4
<1> QED BY <1>1, <1>3, <1>5, <1>6

-----------------------------------------------------------------------------
(* What the decoder makes of the stream.                                     *)

LEMMA ClientTypes ==
    ASSUME NEW c \in Clients
    PROVE  /\ c.state \in {"INITIAL", "LEN1", "MASK", "DATA"} /\ c.fin \in BOOLEAN
           /\ c.opcode \in Ops /\ c.remaining \in Nat /\ c.payload \in Seq(Nat)
           /\ Len(c.payload) \in Nat
BY DEF Clients, Ops

\* The frame that is next, or being read.
LEMMA NextFrame ==
    ASSUME NEW w \in Seq(Byte8), NEW p, NEW s \in Messages, NEW H, NEW a, NEW b, NEW R,
           NEW base, Wire(w, p, s, H, a, b, R, base), a < b
    PROVE  /\ H[a] \in Frame /\ H[a + 1] \in Frame
           /\ Follows(H[a], H[a + 1]) /\ FrameAt(w, H[a].end - R, H[a + 1])
           /\ Sane(H[a]) /\ Sane(H[a + 1])
           /\ R \in Nat /\ H[a].end \in Nat /\ H[a].end <= R
           /\ H[a + 1].end = H[a].end + Size(H[a + 1]) /\ Size(H[a + 1]) \in Nat
           /\ H[a + 1].end <= R + Len(w)
<1>1. /\ a \in Nat /\ b \in Nat /\ R \in Nat /\ a \in a..b /\ Len(w) \in Nat
  BY WireFacts
<1>2. a + 1 \in (a + 1)..b /\ a + 1 \in a..b /\ (a + 1) - 1 = a
  BY <1>1
<1>3. /\ Follows(H[(a + 1) - 1], H[a + 1]) /\ FrameAt(w, H[(a + 1) - 1].end - R, H[a + 1])
      /\ Sane(H[a]) /\ Sane(H[a + 1]) /\ H[a].end <= R
  BY <1>1, <1>2 DEF Wire
<1>4. /\ H[a] \in Frame /\ H[a + 1] \in Frame /\ H[a].end \in Nat
      /\ H[a + 1].end <= R + Len(w)
  <2>1. \A k \in a..b : H[k] \in Frame /\ H[k].end \in Nat /\ H[k].end <= R + Len(w)
    BY WireFacts, ZenonT(60)
  <2> QED BY <1>1, <1>2, <2>1
<1>5. Size(H[a + 1]) \in Nat
  BY <1>4, BytesFacts
<1> QED BY <1>1, <1>2, <1>3, <1>4, <1>5 DEF Follows

\* The first two bytes.
LEMMA InitialStep ==
    ASSUME NEW c, Decoder(c), c.state = "INITIAL", NEW w \in Seq(Byte8), NEW p,
           NEW s \in Messages, View(c, w, p, s), Len(w) >= 2,
           w[2][1], w[2][2] <= ShortLen + 1,
           NEW c2, c2 = [state |-> IF w[2][2] <= ShortLen THEN "MASK" ELSE "LEN1",
                         fin |-> w[1][1], opcode |-> w[1][2],
                         remaining |-> IF w[2][2] <= ShortLen THEN w[2][2] ELSE c.remaining,
                         payload |-> IF w[1][2] = "continue" THEN c.payload ELSE <<>>]
    PROVE  Decoder(c2) /\ View(c2, Unread(w, 2), p, s)
<1>1. PICK H \in [Nat -> Frame], a, b, R, base \in Nat :
         Wire(w, p, s, H, a, b, R, base) /\ Decoding(c, H, a, b, R)
  BY DEF View
<1>2. R = H[a].end /\ (H[a].open => Loaded(c.payload, H[a], 0, 0))
  BY <1>1 DEF Decoding
<1>3. a < b
  <2>1. H[b].end = R + Len(w) /\ a <= b
    BY <1>1 DEF Wire
  <2>2. Len(w) \in Nat
    BY LenProperties
  <2>3. a # b
    BY <1>2, <2>1, <2>2
  <2> QED BY <1>1, <2>1, <2>3
<1>4. PICK q \in Frame : q = H[a]
  BY <1>1
<1>5. PICK f \in Frame : f = H[a + 1]
  BY <1>1, <1>3, NextFrame
<1>6. /\ Follows(q, f) /\ FrameAt(w, q.end - R, f) /\ R \in Nat /\ q.end = R
  BY <1>1, <1>2, <1>3, <1>4, <1>5, NextFrame
<1>7. /\ f.fin \in BOOLEAN /\ f.op \in Ops /\ f.masked \in BOOLEAN /\ f.n \in Nat
      /\ f.cut \in BOOLEAN
  BY FrameTypes
<1>8. w[1] = <<f.fin, f.op>>
      /\ w[2] = <<f.masked, IF f.cut \/ f.n <= ShortLen THEN f.n ELSE ShortLen + 1>>
  <2>1. /\ Bytes(f)[1] = <<f.fin, f.op>>
        /\ Bytes(f)[2] = <<f.masked, IF f.cut \/ f.n <= ShortLen THEN f.n ELSE ShortLen + 1>>
        /\ Size(f) \in Nat /\ Size(f) >= 2
    BY BytesFacts
  <2>2. q.end - R = 0 /\ 0 + 1 = 1 /\ 0 + 2 = 2 /\ 0 + 1 >= 1 /\ 0 + 2 >= 1
    BY <1>6
  <2>3. FrameAt(w, 0, f)
    BY <1>6, <2>2
  <2>4. w[1] = Bytes(f)[1] /\ w[2] = Bytes(f)[2]
    <3>1. 1 \in 1..Size(f) /\ 2 \in 1..Size(f)
      BY <2>1
    <3> QED BY <2>2, <2>3, <3>1 DEF FrameAt
  <2> QED BY <2>1, <2>4
<1>9. /\ w[1][1] = f.fin /\ w[1][2] = f.op /\ w[2][1] = f.masked
      /\ w[2][2] = IF f.cut \/ f.n <= ShortLen THEN f.n ELSE ShortLen + 1
  <2>1. PICK l : l = IF f.cut \/ f.n <= ShortLen THEN f.n ELSE ShortLen + 1
    OBVIOUS
  <2>2. w[1] = <<f.fin, f.op>> /\ w[2] = <<f.masked, l>>
    BY <1>8, <2>1
  <2>3. w[1][1] = f.fin /\ w[1][2] = f.op
    BY <2>2
  <2>4. w[2][1] = f.masked
    <3>1. PICK m : m = f.masked
      OBVIOUS
    <3>2. w[2] = <<m, l>>
      BY <2>2, <3>1
    <3>3. PICK t : t = w[2]
      OBVIOUS
    <3>4. t = <<m, l>>
      BY <3>2, <3>3
    <3>5. t[1] = m
      BY <3>4
    <3> QED BY <3>1, <3>3, <3>5
  <2>5. w[2][2] = l
    BY <2>2
  <2> QED BY <2>1, <2>3, <2>4, <2>5
<1>10. f.masked /\ ~f.cut
  <2>1. f.cut => f.n > ShortLen + 1
    BY <1>6 DEF Follows
  <2> QED BY <1>7, <1>9, <2>1, WsAssumption
<1>11. (w[2][2] <= ShortLen <=> f.n <= ShortLen) /\ (f.n <= ShortLen => w[2][2] = f.n)
  BY <1>7, <1>9, <1>10, WsAssumption
<1>12. c2 = [state |-> IF f.n <= ShortLen THEN "MASK" ELSE "LEN1", fin |-> f.fin,
             opcode |-> f.op, remaining |-> IF f.n <= ShortLen THEN f.n ELSE c.remaining,
             payload |-> IF f.op = "continue" THEN c.payload ELSE <<>>]
  BY <1>9, <1>11
<1>13. /\ c2.state = (IF f.n <= ShortLen THEN "MASK" ELSE "LEN1") /\ c2.fin = f.fin
       /\ c2.opcode = f.op
       /\ c2.remaining = (IF f.n <= ShortLen THEN f.n ELSE c.remaining)
       /\ c2.payload = IF f.op = "continue" THEN c.payload ELSE <<>>
  BY <1>12
<1>14. Decoder(c2)
  <2>1. c \in Clients /\ Len(c.payload) <= MaxPayload
    BY DEF Decoder
  <2>2. c.remaining \in Nat /\ c.payload \in Seq(Nat)
    BY <2>1, ClientTypes
  <2>3. c2.payload \in Seq(Nat) /\ Len(c2.payload) <= MaxPayload
    BY <1>13, <2>1, <2>2, WsAssumption
  <2>4. c2.state \in {"MASK", "LEN1"} /\ c2.remaining \in Nat
    BY <1>7, <1>13, <2>2
  <2>5. c2 \in Clients
    <3>1. c2 = [state |-> c2.state, fin |-> c2.fin, opcode |-> c2.opcode,
                remaining |-> c2.remaining, payload |-> c2.payload]
      BY <1>12
    <3> QED BY <1>7, <1>13, <2>3, <2>4, <3>1 DEF Clients, Ops
  <2> QED BY <2>3, <2>4, <2>5 DEF Decoder
<1>15. Begun(c2.payload, q, f)
  BY <1>2, <1>4, <1>13 DEF Begun
<1>16. InFrame(c2, q, f, R + 2)
  <2>1. HeadLen(f.n) = 6 => R + 2 = q.end + HeadLen(f.n) - 4
    BY <1>6
  <2>2. CASE f.n <= ShortLen
    BY <1>6, <1>7, <1>10, <1>13, <1>15, <2>1, <2>2, HeadLens DEF InFrame
  <2>3. CASE ~(f.n <= ShortLen)
    BY <1>6, <1>7, <1>10, <1>13, <1>15, <2>3, WsAssumption DEF InFrame
  <2> QED BY <2>2, <2>3
<1>17. Decoding(c2, H, a, b, R + 2)
  BY <1>3, <1>4, <1>5, <1>13, <1>16 DEF Decoding
<1>18. Wire(Unread(w, 2), p, s, H, a, b, R + 2, base)
  BY <1>1, WireRead
<1>19. R + 2 \in Nat
  BY <1>6
<1> QED BY <1>1, <1>14, <1>17, <1>18, <1>19 DEF View

\* A decoder inside the frame f.
Reading(c, w, q, f, R) ==
    /\ InFrame(c, q, f, R) /\ Follows(q, f) /\ Sane(q) /\ Sane(f)
    /\ FrameAt(w, q.end - R, f)
    /\ R \in Nat /\ q.end \in Nat /\ q.end <= R /\ f.end <= R + Len(w)
    /\ f.end = q.end + Size(f) /\ Size(f) = HeadLen(f.n) + f.n

\* A decoder that is not between frames is inside the next one.
LEMMA InsideFrame ==
    ASSUME NEW c, c.state # "INITIAL", NEW w \in Seq(Byte8), NEW p, NEW s \in Messages, NEW H,
           NEW a, NEW b, NEW R, NEW base,
           Wire(w, p, s, H, a, b, R, base), Decoding(c, H, a, b, R)
    PROVE  \E q, f \in Frame : /\ q = H[a] /\ f = H[a + 1] /\ a < b
                               /\ Reading(c, w, q, f, R)
<1>1. a < b /\ InFrame(c, H[a], H[a + 1], R)
  BY DEF Decoding
<1>2. Size(H[a + 1]) = HeadLen(H[a + 1].n) + H[a + 1].n
  BY <1>1 DEF InFrame, Size
<1>3. Reading(c, w, H[a], H[a + 1], R) /\ H[a] \in Frame /\ H[a + 1] \in Frame
  BY <1>1, <1>2, NextFrame DEF Reading
<1> QED BY <1>1, <1>3

LongerBy(c, n) == [c EXCEPT !.remaining = n, !.state = "MASK"]

\* The two bytes of a longer length.
LEMMA Len1Step ==
    ASSUME NEW c, Decoder(c), c.state = "LEN1", NEW w \in Seq(Byte8), NEW p,
           NEW s \in Messages, View(c, w, p, s), Len(w) >= 2,
           NEW c2, c2 = LongerBy(c, w[1])
    PROVE  Decoder(c2) /\ View(c2, Unread(w, 2), p, s)
<1>1. PICK H \in [Nat -> Frame], a, b, R, base \in Nat :
         Wire(w, p, s, H, a, b, R, base) /\ Decoding(c, H, a, b, R)
  BY DEF View
<1>2. PICK q, f \in Frame : q = H[a] /\ f = H[a + 1] /\ a < b /\ Reading(c, w, q, f, R)
  <2>1. c.state # "INITIAL"
    OBVIOUS
  <2> QED BY <1>1, <2>1, InsideFrame
<1>3. /\ a < b /\ FrameAt(w, q.end - R, f) /\ R \in Nat /\ q.end \in Nat
      /\ InFrame(c, q, f, R) /\ Size(f) = HeadLen(f.n) + f.n
  BY <1>2 DEF Reading
<1>4. /\ R = q.end + 2 /\ f.n > ShortLen /\ Begun(c.payload, q, f)
      /\ c.fin = f.fin /\ c.opcode = f.op /\ f.masked /\ ~f.cut
  BY <1>3 DEF InFrame
<1>5. f.n \in Nat /\ HeadLen(f.n) = 8 /\ HeadLen(f.n) \in Nat
  BY <1>4, FrameTypes, HeadLens
<1>6. w[1] = f.n
  <2>1. Bytes(f)[3] = f.n
    BY <1>4, BytesFacts
  <2>2. 3 \in 1..Size(f)
    BY <1>3, <1>5
  <2>3. q.end - R = -2 /\ (-2) + 3 = 1 /\ (-2) + 3 >= 1
    BY <1>3, <1>4
  <2>4. FrameAt(w, -2, f)
    BY <1>3, <2>3
  <2> QED BY <2>1, <2>2, <2>3, <2>4 DEF FrameAt
<1>7. c \in Clients /\ Len(c.payload) <= MaxPayload
  BY DEF Decoder
<1>8. /\ c2 \in Clients /\ c2.state = "MASK" /\ c2.remaining = f.n
      /\ c2.fin = c.fin /\ c2.opcode = c.opcode /\ c2.payload = c.payload
  BY <1>5, <1>6, <1>7 DEF Clients, LongerBy
<1>9. Decoder(c2)
  BY <1>7, <1>8 DEF Decoder
<1>10. R + 2 = q.end + HeadLen(f.n) - 4
  BY <1>3, <1>4, <1>5
<1>11. InFrame(c2, q, f, R + 2)
  BY <1>4, <1>8, <1>10 DEF InFrame
<1>12. Decoding(c2, H, a, b, R + 2)
  BY <1>2, <1>3, <1>8, <1>11 DEF Decoding
<1>13. Wire(Unread(w, 2), p, s, H, a, b, R + 2, base)
  BY <1>1, WireRead
<1>14. R + 2 \in Nat
  BY <1>3
<1> QED BY <1>1, <1>9, <1>12, <1>13, <1>14 DEF View

\* A frame that belongs to a message begins where the payload ends.
LEMMA BeginsAtEnd ==
    ASSUME NEW q \in Frame, NEW f \in Frame, Follows(q, f), OfMessage(f), Sane(q),
           NEW payload, Begun(payload, q, f)
    PROVE  Loaded(payload, q, 0, 0)
<1>1. q.before \in Nat /\ q.length \in Nat /\ q.before <= q.length /\ (~q.open => q.length = 0)
  BY FrameTypes DEF Sane
<1>2. f.op = "continue" <=> q.open
  BY DEF Follows
<1>3. CASE q.open
  BY <1>2, <1>3 DEF Begun
<1>4. CASE ~q.open
  <2>1. payload = <<>>
    BY <1>2, <1>4 DEF Begun
  <2>2. q.length = 0 /\ q.before = 0
    BY <1>1, <1>4
  <2> QED BY <2>1, <2>2 DEF Loaded
<1> QED BY <1>3, <1>4

Resized(c) == [c EXCEPT !.state = "DATA",
                        !.payload = @ \o [i \in 1..c.remaining |-> Garbage]]

\* The key, when a payload follows: the buffer is made larger by what the frame brings.
LEMMA MaskStep ==
    ASSUME NEW c, Decoder(c), c.state = "MASK", NEW w \in Seq(Byte8), NEW p,
           NEW s \in Messages, View(c, w, p, s), Len(w) >= 4,
           c.remaining > 0, ~TooLong(c),
           NEW c2, c2 = Resized(c)
    PROVE  Decoder(c2) /\ View(c2, Unread(w, 4), p, s)
<1>1. PICK H \in [Nat -> Frame], a, b, R, base \in Nat :
         Wire(w, p, s, H, a, b, R, base) /\ Decoding(c, H, a, b, R)
  BY DEF View
<1>2. PICK q, f \in Frame : q = H[a] /\ f = H[a + 1] /\ a < b /\ Reading(c, w, q, f, R)
  <2>1. c.state # "INITIAL"
    OBVIOUS
  <2> QED BY <1>1, <2>1, InsideFrame
<1>3. /\ a < b /\ Follows(q, f) /\ Sane(q) /\ R \in Nat /\ q.end \in Nat
      /\ InFrame(c, q, f, R)
  BY <1>2 DEF Reading
<1>4. /\ R = q.end + HeadLen(f.n) - 4 /\ c.remaining = f.n /\ Begun(c.payload, q, f)
      /\ c.fin = f.fin /\ c.opcode = f.op /\ f.masked /\ ~f.cut
  BY <1>3 DEF InFrame
<1>5. f.n \in Nat /\ HeadLen(f.n) \in Nat /\ f.n > 0 /\ f.bad \in BOOLEAN
  <2>1. f.n \in Nat /\ f.bad \in BOOLEAN
    BY FrameTypes
  <2>2. HeadLen(f.n) \in {6, 8}
    BY <2>1, HeadLens
  <2> QED BY <1>4, <2>1, <2>2
<1>6. c \in Clients /\ c.payload \in Seq(Nat) /\ Len(c.payload) \in Nat
  BY ClientTypes DEF Decoder
<1>7. Len(c.payload) + f.n <= MaxPayload
  BY <1>4, <1>5, <1>6, WsAssumption DEF TooLong
<1>8. ~f.bad
  <2>1. f.bad => ~f.masked \/ f.cut \/ f.n > MaxPayload
    BY <1>3 DEF Follows
  <2> QED BY <1>4, <1>5, <1>6, <1>7, <2>1, WsAssumption
<1>9. PICK z : z = [i \in 1..c.remaining |-> Garbage]
  OBVIOUS
<1>10. z \in Seq(Nat) /\ Len(z) = f.n
  <2>1. z \in [1..f.n -> Nat]
    BY <1>4, <1>9 DEF Garbage
  <2> QED BY <1>5, <2>1
<1>11. PICK pl : pl = c.payload \o z
  OBVIOUS
<1>12. /\ pl \in Seq(Nat) /\ Len(pl) = Len(c.payload) + f.n
       /\ \A i \in 1..Len(c.payload) : pl[i] = c.payload[i]
  <2>1. PICK y \in Seq(Nat) : y = c.payload
    BY <1>6
  <2>0. z \in Seq(Nat)
    BY <1>10
  <2>2. /\ y \o z \in Seq(Nat) /\ Len(y \o z) = Len(y) + Len(z)
        /\ \A i \in 1..(Len(y) + Len(z)) : (y \o z)[i] = IF i <= Len(y) THEN y[i] ELSE z[i - Len(y)]
    BY <2>0, ConcatProperties
  <2>3. pl = y \o z
    BY <1>11, <2>1
  <2>4. Len(y) \in Nat /\ Len(z) \in Nat
    BY <1>5, <1>6, <1>10, <2>1
  <2>5. \A i \in 1..Len(y) : pl[i] = y[i]
    BY <2>2, <2>3, <2>4
  <2> QED BY <1>10, <2>1, <2>2, <2>3, <2>5
<1>13. c2 = [c EXCEPT !.state = "DATA", !.payload = pl]
  BY <1>9, <1>11 DEF Resized
<1>14. /\ c2 \in Clients /\ c2.state = "DATA" /\ c2.remaining = f.n
       /\ c2.fin = c.fin /\ c2.opcode = c.opcode /\ c2.payload = pl
  BY <1>4, <1>6, <1>12, <1>13 DEF Clients
<1>15. Decoder(c2)
  BY <1>5, <1>6, <1>7, <1>12, <1>14 DEF Decoder
<1>16. R + 4 \in Nat /\ f.n - f.n = 0 /\ R + 4 = q.end + HeadLen(f.n) + (f.n - f.n)
       /\ f.n \in 1..f.n /\ 0 % 4 = 0
  BY <1>3, <1>4, <1>5
<1>17. ASSUME OfMessage(f) PROVE Loaded(pl, q, f.n, 0)
  <2>1. Loaded(c.payload, q, 0, 0)
    BY <1>3, <1>4, <1>17, BeginsAtEnd
  <2>2. q.before \in Nat /\ q.length \in Nat /\ q.before <= q.length
    BY <1>3, FrameTypes DEF Sane
  <2>3. Len(c.payload) = q.length - q.before
    BY <2>1, <2>2 DEF Loaded
  <2>4. q.length - q.before + 0 = q.length - q.before
    BY <2>2
  <2>5. \A i \in 1..(q.length - q.before) : c.payload[i] = q.before + i
    BY <2>1, <2>4 DEF Loaded
  <2>6. \A i \in 1..(q.length - q.before) : pl[i] = q.before + i
    BY <1>12, <2>3, <2>5
  <2>7. Len(pl) = q.length - q.before + f.n
    BY <1>12, <2>3
  <2> QED BY <2>4, <2>6, <2>7 DEF Loaded
<1>18. InFrame(c2, q, f, R + 4)
  BY <1>4, <1>8, <1>14, <1>16, <1>17 DEF InFrame
<1>19. Decoding(c2, H, a, b, R + 4)
  BY <1>2, <1>3, <1>14, <1>18 DEF Decoding
<1>20. Wire(Unread(w, 4), p, s, H, a, b, R + 4, base)
  BY <1>1, WireRead
<1> QED BY <1>1, <1>15, <1>16, <1>19, <1>20 DEF View

\* The messages on their way when a frame is over, as the decoder sees it.
NotYet(c, s) == IF c.fin /\ c.opcode # "ping" THEN Tail(s) ELSE s

Between(c) == [c EXCEPT !.state = "INITIAL"]

\* What is handed over, if c ends a message.
Whole(c, s) ==
    c.fin /\ c.opcode # "ping" =>
        /\ s # <<>>
        /\ c.payload = [i \in 1..(Head(s).to - Head(s).from) |-> Head(s).from + i]

\* A frame is over.
LEMMA EndStep ==
    ASSUME NEW c \in Clients, Len(c.payload) <= MaxPayload, NEW w \in Seq(Byte8), NEW p,
           NEW s \in Messages, NEW H \in [Nat -> Frame], NEW a, NEW b, NEW R, NEW base,
           Wire(w, p, s, H, a, b, R, base), a < b, H[a + 1].end = R,
           c.fin = H[a + 1].fin, c.opcode = H[a + 1].op, ~H[a + 1].bad, ~Closing(c),
           OfMessage(H[a + 1]) => Loaded(c.payload, H[a], H[a + 1].n, H[a + 1].n),
           H[a + 1].op = "ping" => c.payload = <<>>,
           NEW c2, c2 = Between(c)
    PROVE  /\ Decoder(c2) /\ NotYet(c, s) \in Messages /\ View(c2, w, p, NotYet(c, s))
           /\ Whole(c, s)
<1>1. PICK q \in Frame, f \in Frame : q = H[a] /\ f = H[a + 1]
  BY NextFrame
<1>2. Follows(q, f) /\ Sane(q) /\ Sane(f) /\ R \in Nat
  BY <1>1, NextFrame
<1>3. /\ f.op \in Ops /\ f.fin \in BOOLEAN /\ f.n \in Nat
      /\ q.before \in Nat /\ q.length \in Nat /\ f.before \in Nat /\ f.length \in Nat
  BY FrameTypes
<1>4. c.fin = f.fin /\ c.opcode = f.op /\ ~f.bad
  BY <1>1
<1>5. f.op \in {"text", "continue", "ping"}
  <2>1. f.op = "close" => f.fin
    BY <1>2 DEF Follows
  <2>2. f.op # "close"
    BY <1>4, <2>1 DEF Closing
  <2> QED BY <1>3, <2>2 DEF Ops
<1>6. Ends(f) <=> c.fin /\ c.opcode # "ping"
  BY <1>4, <1>5 DEF Ends, OfMessage
<1>7. NotYet(c, s) = Awaiting(s, f)
  BY <1>6 DEF NotYet, Awaiting
<1>8. /\ Awaiting(s, f) \in Messages
      /\ \E base2 \in Nat : Wire(w, p, Awaiting(s, f), H, a + 1, b, R, base2)
      /\ Ends(f) => s # <<>> /\ Head(s) = [from |-> q.before, to |-> q.length + f.n]
  <2>1. H[a + 1].end <= R
    BY <1>2
  <2>2. PICK s2 : s2 = Awaiting(s, H[a + 1])
    OBVIOUS
  <2>3. /\ s2 \in Messages /\ \E base2 \in Nat : Wire(w, p, s2, H, a + 1, b, R, base2)
        /\ FirstIs(s, H[a], H[a + 1])
    BY <2>1, <2>2, WireNext
  <2>4. FirstIs(s, q, f)
    BY <1>1, <2>3
  <2>5. Ends(f) => s # <<>> /\ Head(s) = [from |-> q.before, to |-> q.length + f.n]
    BY <2>4, Zenon DEF FirstIs
  <2> QED BY <1>1, <2>2, <2>3, <2>5
<1>9. c2 \in Clients /\ c2.state = "INITIAL" /\ c2.payload = c.payload
  BY DEF Clients, Between
<1>10. Decoder(c2)
  BY <1>9 DEF Decoder
<1>11. ASSUME f.open PROVE Loaded(c.payload, f, 0, 0)
  <2>1. CASE OfMessage(f)
    <3>1. f.length = q.length + f.n /\ f.before = q.before
      BY <1>2, <1>11, <2>1 DEF Follows
    <3>2. Loaded(c.payload, q, f.n, f.n)
      BY <1>1, <2>1
    <3>3. q.length - q.before + f.n = f.length - f.before + 0
      BY <1>3, <3>1
    <3> QED BY <3>1, <3>2, <3>3 DEF Loaded
  <2>2. CASE f.op = "ping"
    <3>1. c.payload = <<>> /\ f.before = q.length /\ f.length = q.length
      BY <1>1, <1>2, <2>2 DEF Follows
    <3>2. f.length - f.before + 0 = 0 /\ Len(c.payload) = 0
      BY <1>3, <3>1
    <3>3. \A i \in 1..0 : c.payload[i] = f.before + i
      OBVIOUS
    <3> QED BY <3>2, <3>3, Zenon DEF Loaded
  <2> QED BY <1>4, <1>5, <2>1, <2>2 DEF OfMessage
<1>12. PICK base2 \in Nat : Wire(w, p, Awaiting(s, f), H, a + 1, b, R, base2)
  BY <1>8
<1>13. Decoding(c2, H, a + 1, b, R)
  BY <1>1, <1>9, <1>11 DEF Decoding
<1>14. View(c2, w, p, NotYet(c, s))
  <2>1. a + 1 \in Nat /\ b \in Nat /\ R \in Nat
    BY <1>12 DEF Wire
  <2> QED BY <1>7, <1>12, <1>13, <2>1 DEF View
<1>15. Whole(c, s)
  <2>1. SUFFICES ASSUME c.fin /\ c.opcode # "ping"
                 PROVE  /\ s # <<>>
                        /\ c.payload = [i \in 1..(Head(s).to - Head(s).from) |-> Head(s).from + i]
    BY DEF Whole
  <2>2. Ends(f) /\ OfMessage(f)
    BY <1>6, <2>1 DEF Ends
  <2>3. /\ s # <<>> /\ Head(s).from = q.before /\ Head(s).to = q.length + f.n
    BY <1>8, <2>2
  <2>4. Loaded(c.payload, q, f.n, f.n)
    BY <1>1, <2>2
  <2>5. PICK pl \in Seq(Nat) : pl = c.payload
    BY ClientTypes
  <2>6. PICK l \in Nat : l = q.length - q.before + f.n /\ l = q.length + f.n - q.before
    <3>1. q.before <= q.length
      BY <1>2 DEF Sane
    <3>2. PICK x \in Nat, y \in Nat, z \in Nat : x = q.length /\ y = q.before /\ z = f.n
      BY <1>3
    <3>3. y <= x
      BY <3>1, <3>2
    <3>4. x - y + z \in Nat /\ x - y + z = x + z - y
      BY <3>3
    <3> QED BY <3>2, <3>4
  <2>7. Len(pl) = l /\ \A i \in 1..l : pl[i] = q.before + i
    BY <2>4, <2>5, <2>6 DEF Loaded
  <2>8. pl = [i \in 1..l |-> q.before + i]
    <3>1. DOMAIN pl = 1..l /\ pl = [i \in DOMAIN pl |-> pl[i]]
      BY <2>5, <2>7, LenProperties
    <3> QED BY <2>7, <3>1
  <2>9. PICK m : m = Head(s)
    OBVIOUS
  <2>10. m.to - m.from = l /\ m.from = q.before
    BY <1>3, <2>3, <2>6, <2>9
  <2>11. c.payload = [i \in 1..(m.to - m.from) |-> m.from + i]
    BY <2>5, <2>8, <2>10
  <2> QED BY <2>3, <2>9, <2>11
<1> QED BY <1>7, <1>8, <1>10, <1>14, <1>15

\* The key, when the frame has no payload.
LEMMA MaskEnd ==
    ASSUME NEW c, Decoder(c), c.state = "MASK", NEW w \in Seq(Byte8), NEW p,
           NEW s \in Messages, View(c, w, p, s), Len(w) >= 4,
           c.remaining = 0, ~Closing(c), NEW c2, c2 = Between(c)
    PROVE  /\ Decoder(c2) /\ NotYet(c, s) \in Messages
           /\ View(c2, Unread(w, 4), p, NotYet(c, s))
           /\ Whole(c, s)
<1>1. PICK H \in [Nat -> Frame], a, b, R, base \in Nat :
         Wire(w, p, s, H, a, b, R, base) /\ Decoding(c, H, a, b, R)
  BY DEF View
<1>2. PICK q, f \in Frame : q = H[a] /\ f = H[a + 1] /\ a < b /\ Reading(c, w, q, f, R)
  <2>1. c.state # "INITIAL"
    OBVIOUS
  <2> QED BY <1>1, <2>1, InsideFrame
<1>3. /\ a < b /\ Follows(q, f) /\ Sane(q) /\ R \in Nat /\ q.end \in Nat
      /\ InFrame(c, q, f, R) /\ Size(f) = HeadLen(f.n) + f.n /\ f.end = q.end + Size(f)
  BY <1>2 DEF Reading
<1>4. /\ R = q.end + HeadLen(f.n) - 4 /\ c.remaining = f.n /\ Begun(c.payload, q, f)
      /\ c.fin = f.fin /\ c.opcode = f.op /\ f.masked /\ ~f.cut
  BY <1>3 DEF InFrame
<1>5. f.n = 0 /\ HeadLen(f.n) \in Nat /\ f.bad \in BOOLEAN
  BY <1>4, FrameTypes, HeadLens
<1>6. ~f.bad
  <2>1. f.bad => ~f.masked \/ f.cut \/ f.n > MaxPayload
    BY <1>3 DEF Follows
  <2> QED BY <1>4, <1>5, <2>1, WsAssumption
<1>7. f.end = R + 4 /\ R + 4 \in Nat
  BY <1>3, <1>4, <1>5
<1>8. OfMessage(f) => Loaded(c.payload, q, f.n, f.n)
  BY <1>3, <1>4, <1>5, BeginsAtEnd
<1>9. f.op = "ping" => c.payload = <<>>
  BY <1>4 DEF Begun
<1>10. PICK w2 \in Seq(Byte8) : w2 = Unread(w, 4) /\ Wire(w2, p, s, H, a, b, R + 4, base)
  BY <1>1, WireRead
<1>11. c \in Clients /\ Len(c.payload) <= MaxPayload
  BY DEF Decoder
<1> QED BY <1>1, <1>2, <1>3, <1>4, <1>6, <1>7, <1>8, <1>9, <1>10, <1>11, EndStep

\* n bytes of a payload are read and unmasked.
Filled(c, w, n) ==
    LET start == Len(c.payload) - c.remaining
    IN  [c EXCEPT !.remaining = @ - n,
                  !.payload = [k \in DOMAIN @ |->
                      IF k \in (start + 1)..(start + n)
                      THEN Unmask(w[k - start], k, start) ELSE @[k]]]

FilledBy(c, c2, n, q, f) ==
    /\ c2 \in Clients /\ c2.state = "DATA" /\ c2.fin = c.fin /\ c2.opcode = c.opcode
    /\ c2.remaining = c.remaining - n /\ Len(c2.payload) = Len(c.payload)
    /\ OfMessage(f) => Loaded(c2.payload, q, f.n, f.n - c.remaining + n)

\* Whatever chunks the payload comes in, each byte meets its own byte of the key.
LEMMA FilledFacts ==
    ASSUME NEW c, Decoder(c), c.state = "DATA", NEW w \in Seq(Byte8), NEW p,
           NEW s \in Messages, NEW H, NEW a, NEW b, NEW R, NEW base,
           Wire(w, p, s, H, a, b, R, base), Decoding(c, H, a, b, R),
           NEW n \in Nat, n <= c.remaining, n <= Len(w),
           NEW c2, c2 = Filled(c, w, n)
    PROVE  FilledBy(c, c2, n, H[a], H[a + 1])
<1>1. PICK q, f \in Frame : q = H[a] /\ f = H[a + 1] /\ a < b /\ Reading(c, w, q, f, R)
  <2>1. c.state # "INITIAL"
    OBVIOUS
  <2> QED BY <2>1, InsideFrame
<1>2. /\ Follows(q, f) /\ Sane(q) /\ R \in Nat /\ q.end \in Nat /\ InFrame(c, q, f, R)
      /\ FrameAt(w, q.end - R, f) /\ Size(f) = HeadLen(f.n) + f.n
  BY <1>1 DEF Reading
<1>3. /\ R = q.end + HeadLen(f.n) + (f.n - c.remaining) /\ c.remaining \in 1..f.n
      /\ (f.n - c.remaining) % 4 = 0 /\ ~f.bad /\ ~f.cut
      /\ OfMessage(f) => Loaded(c.payload, q, f.n, f.n - c.remaining)
  BY <1>2 DEF InFrame
<1>4. /\ f.n \in Nat /\ f.from \in Nat /\ HeadLen(f.n) \in Nat
      /\ q.before \in Nat /\ q.length \in Nat /\ q.before <= q.length
  <2>1. f.n \in Nat /\ f.from \in Nat /\ HeadLen(f.n) \in Nat
    BY <1>1, FrameTypes, HeadLens
  <2>2. q.before \in Nat /\ q.length \in Nat
    BY FrameTypes
  <2> QED BY <1>2, <2>1, <2>2 DEF Sane
<1>5. /\ c \in Clients /\ c.remaining \in 1..Len(c.payload) /\ c.payload \in Seq(Nat)
      /\ Len(c.payload) \in Nat
  BY ClientTypes DEF Decoder
<1>6. PICK t \in Nat : t = f.n - c.remaining
  BY <1>3, <1>4
<1>7. PICK start \in Nat : start = Len(c.payload) - c.remaining
  BY <1>5
<1>8. t % 4 = 0 /\ t + n <= f.n /\ q.end - R = -(HeadLen(f.n) + t)
  <2>1. t % 4 = 0
    BY <1>3, <1>6
  <2>2. t + n <= f.n
    BY <1>3, <1>4, <1>6, SMTT(30)
  <2>3. q.end - R = -(HeadLen(f.n) + t)
    <3>1. R = q.end + HeadLen(f.n) + t
      BY <1>3, <1>6
    <3>2. q.end \in Nat /\ HeadLen(f.n) \in Nat
      BY <1>2, <1>4
    <3> QED BY <3>1, <3>2
  <2> QED BY <2>1, <2>2, <2>3
<1>9. ASSUME NEW i \in 1..n
      PROVE  w[i] = <<f.from + (t + i), (t + i - 1) % 4>>
  <2>1. t + i \in 1..f.n
    BY <1>4, <1>8
  <2>2. PICK u \in 1..f.n : u = t + i
    BY <2>1
  <2>3. Bytes(f)[HeadLen(f.n) + u] = <<f.from + u, (u - 1) % 4>>
    BY <1>3, BytesFacts
  <2>4. PICK h \in Nat : h = HeadLen(f.n)
    BY <1>4
  <2>5. h + u \in 1..(h + f.n) /\ -(h + t) + (h + u) = i /\ -(h + t) + (h + u) >= 1
    BY <1>4, <2>2
  <2>6. FrameAt(w, -(h + t), f) /\ Size(f) = h + f.n
    BY <1>2, <1>8, <2>4
  <2>7. w[-(h + t) + (h + u)] = Bytes(f)[h + u]
    BY <2>5, <2>6 DEF FrameAt
  <2> QED BY <2>2, <2>3, <2>4, <2>5, <2>7, SMTT(30)
<1>10. ASSUME NEW k \in (start + 1)..(start + n)
       PROVE  Unmask(w[k - start], k, start) = f.from + (t + (k - start))
  <2>1. PICK i \in 1..n : i = k - start
    BY <1>7
  <2>2. i - 1 \in Nat /\ k - start - 1 = i - 1
    BY <1>7, <2>1
  <2>3. ((i - 1) % Chunk) % 4 = (i - 1) % 4
    BY <2>2, KeyRunsOn
  <2>4. (t + i - 1) % 4 = (i - 1) % 4
    <3>1. PICK y \in Nat : y = i - 1
      BY <2>2
    <3>2. t % 4 = 0
      BY <1>8
    <3>3. t \in Int /\ y \in Int
      BY <1>6, <3>1
    <3>4. (t + y) % 4 = y % 4
      BY <3>2, <3>3, FourSums
    <3>5. t + y = t + i - 1
      BY <3>1
    <3> QED BY <3>1, <3>4, <3>5
  <2>5. PICK v : v = w[i]
    OBVIOUS
  <2>6. v = <<f.from + (t + i), (t + i - 1) % 4>>
    BY <1>9, <2>1, <2>5
  <2>7. v[1] = f.from + (t + i) /\ v[2] = (t + i - 1) % 4
    BY <2>6
  <2>8. ((k - start - 1) % Chunk) % 4 = (t + i - 1) % 4
    BY <2>2, <2>3, <2>4
  <2>9. Unmask(v, k, start) = v[1]
    BY <2>7, <2>8 DEF Unmask
  <2> QED BY <2>1, <2>5, <2>7, <2>9
<1>11. PICK pl : pl = [k \in DOMAIN c.payload |->
                          IF k \in (start + 1)..(start + n)
                          THEN Unmask(w[k - start], k, start) ELSE c.payload[k]]
  OBVIOUS
<1>12. c2 = [c EXCEPT !.remaining = c.remaining - n, !.payload = pl]
  BY <1>7, <1>11 DEF Filled
<1>13. DOMAIN c.payload = 1..Len(c.payload) /\ \A k \in 1..Len(c.payload) : c.payload[k] \in Nat
  BY <1>5, LenProperties, ElementOfSeq
<1>14. /\ \A k \in (start + 1)..(start + n) : k \in 1..Len(c.payload)
                                              => pl[k] = f.from + (t + (k - start))
       /\ \A k \in 1..Len(c.payload) : k \notin (start + 1)..(start + n) => pl[k] = c.payload[k]
  BY <1>10, <1>11, <1>13
<1>15. pl \in [1..Len(c.payload) -> Nat]
  <2>1. ASSUME NEW k \in (start + 1)..(start + n) PROVE f.from + (t + (k - start)) \in Nat
    BY <1>4
  <2>2. \A k \in 1..Len(c.payload) : pl[k] \in Nat
    BY <1>13, <1>14, <2>1
  <2>3. pl = [k \in 1..Len(c.payload) |-> pl[k]]
    BY <1>11, <1>13
  <2> QED BY <2>2, <2>3
<1>16. pl \in Seq(Nat) /\ Len(pl) = Len(c.payload)
  BY <1>5, <1>15, FunctionIsSeq
<1>17. c.remaining - n \in Nat
  BY <1>3, <1>4
<1>18. /\ c2 \in Clients /\ c2.state = "DATA" /\ c2.fin = c.fin /\ c2.opcode = c.opcode
       /\ c2.remaining = c.remaining - n /\ c2.payload = pl
  BY <1>5, <1>12, <1>16, <1>17 DEF Clients
<1>19. ASSUME OfMessage(f) PROVE Loaded(pl, q, f.n, t + n)
  <2>1. Loaded(c.payload, q, f.n, t)
    BY <1>3, <1>6, <1>19
  <2>2. PICK l \in Nat : l = q.length - q.before
    BY <1>4
  <2>3. f.from = q.length
    BY <1>2, <1>19 DEF Follows
  <2>4. Len(c.payload) = l + f.n /\ \A i \in 1..(l + t) : c.payload[i] = q.before + i
    BY <2>1, <2>2 DEF Loaded
  <2>5. start = l + t
    <3>1. PICK m \in Nat : m = c.remaining
      BY <1>3, <1>4
    <3>2. PICK x \in Nat : x = f.n
      BY <1>4
    <3>3. PICK v \in Nat : v = Len(c.payload)
      BY <1>5
    <3>4. start = v - m
      BY <1>7, <3>1, <3>3
    <3>5. t = x - m
      BY <1>6, <3>1, <3>2
    <3>6. v = l + x
      BY <2>4, <3>2, <3>3
    <3> QED BY <3>4, <3>5, <3>6
  <2>6. ASSUME NEW k \in 1..(l + (t + n)) PROVE pl[k] = q.before + k
    <3>1. k \in 1..Len(c.payload)
      BY <1>4, <1>8, <2>4, <2>6
    <3>2. CASE k \in (start + 1)..(start + n)
      <4>1. pl[k] = f.from + (t + (k - start))
        BY <1>14, <3>1, <3>2
      <4>2. f.from + (t + (k - start)) = q.before + k
        <5>1. q.length = l + q.before /\ q.before \in Nat /\ l \in Nat /\ t \in Nat /\ k \in Int
          BY <1>4, <1>6, <2>2, <2>6
        <5>2. (l + q.before) + (t + (k - (l + t))) = q.before + k
          BY <5>1
        <5>3. q.length + (t + (k - (l + t))) = q.before + k
          BY <5>1, <5>2
        <5> QED BY <2>3, <2>5, <5>3
      <4> QED BY <4>1, <4>2
    <3>3. CASE k \notin (start + 1)..(start + n)
      <4>1. k \in 1..(l + t)
        BY <2>5, <2>6, <3>3
      <4>2. pl[k] = c.payload[k]
        BY <1>14, <3>1, <3>3
      <4> QED BY <2>4, <4>1, <4>2
    <3> QED BY <3>2, <3>3
  <2> QED BY <1>16, <2>2, <2>4, <2>6 DEF Loaded
<1>20. f.n - c.remaining + n = t + n
  BY <1>6
<1>21. FilledBy(c, c2, n, q, f)
  BY <1>16, <1>18, <1>19, <1>20 DEF FilledBy
<1> QED BY <1>1, <1>21

\* Whole chunks of a payload.
LEMMA DataStep ==
    ASSUME NEW c, Decoder(c), c.state = "DATA", NEW w \in Seq(Byte8), NEW p,
           NEW s \in Messages, View(c, w, p, s),
           NEW n \in Nat, n < c.remaining, n <= Len(w), n % 4 = 0,
           NEW c2, c2 = Filled(c, w, n)
    PROVE  Decoder(c2) /\ View(c2, Unread(w, n), p, s)
<1>1. PICK H \in [Nat -> Frame], a, b, R, base \in Nat :
         Wire(w, p, s, H, a, b, R, base) /\ Decoding(c, H, a, b, R)
  BY DEF View
<1>2. PICK q, f \in Frame : q = H[a] /\ f = H[a + 1] /\ a < b /\ Reading(c, w, q, f, R)
  <2>1. c.state # "INITIAL"
    OBVIOUS
  <2> QED BY <1>1, <2>1, InsideFrame
<1>3. a < b /\ InFrame(c, q, f, R)
  BY <1>2 DEF Reading
<1>4. /\ R = q.end + HeadLen(f.n) + (f.n - c.remaining) /\ c.remaining \in 1..f.n
      /\ (f.n - c.remaining) % 4 = 0 /\ ~f.bad /\ ~f.cut /\ f.masked
      /\ c.fin = f.fin /\ c.opcode = f.op
  BY <1>3 DEF InFrame
<1>5. f.n \in Nat /\ HeadLen(f.n) \in Nat /\ q.end \in Nat
  BY FrameTypes, HeadLens
<1>6. c.remaining \in 1..Len(c.payload) /\ Len(c.payload) <= MaxPayload /\ Len(c.payload) \in Nat
  BY ClientTypes DEF Decoder
<1>7. n <= c.remaining
  BY <1>4, <1>5
<1>8. /\ c2 \in Clients /\ c2.state = "DATA" /\ c2.fin = c.fin /\ c2.opcode = c.opcode
      /\ c2.remaining = c.remaining - n /\ Len(c2.payload) = Len(c.payload)
      /\ OfMessage(f) => Loaded(c2.payload, q, f.n, f.n - c.remaining + n)
  <2>1. FilledBy(c, c2, n, H[a], H[a + 1])
    BY <1>1, <1>7, FilledFacts
  <2> QED BY <1>2, <2>1 DEF FilledBy
<1>9. PICK m \in Nat : m = c2.remaining /\ m \in 1..f.n /\ m \in 1..Len(c2.payload)
                       /\ m = c.remaining - n
  <2>1. PICK r \in Nat : r = c.remaining /\ r \in 1..f.n /\ r \in 1..Len(c.payload)
    BY <1>4, <1>5, <1>6
  <2>2. n < r
    BY <2>1
  <2>3. PICK m \in Nat : m = r - n
    BY <2>1, <2>2
  <2>4. m \in 1..f.n /\ m \in 1..Len(c.payload)
    BY <1>5, <1>6, <2>1, <2>2, <2>3, SMTT(30)
  <2>5. c2.remaining = m /\ Len(c2.payload) = Len(c.payload) /\ m = c.remaining - n
    BY <1>8, <2>1, <2>3
  <2> QED BY <2>4, <2>5
<1>10. Decoder(c2)
  BY <1>6, <1>8, <1>9 DEF Decoder
<1>11. PICK t \in Int : /\ t = f.n - c.remaining /\ f.n - m = t + n
                        /\ f.n - m = f.n - c.remaining + n
  <2>1. PICK r \in Nat : r = c.remaining
    BY <1>4, <1>5
  <2>2. PICK l \in Nat : l = f.n
    BY <1>5
  <2>3. l - (r - n) = l - r + n /\ l - r + n = (l - r) + n /\ l - r \in Int
    OBVIOUS
  <2> QED BY <1>9, <2>1, <2>2, <2>3
<1>12. (f.n - m) % 4 = 0
  <2>1. t % 4 = 0
    BY <1>4, <1>11
  <2>2. (t + n) % 4 = n % 4
    BY <2>1, FourSums
  <2> QED BY <1>11, <2>2
<1>13. R + n = q.end + HeadLen(f.n) + (f.n - m) /\ R + n \in Nat
  <2>1. R = q.end + HeadLen(f.n) + t
    BY <1>4, <1>11
  <2>2. R + n = q.end + HeadLen(f.n) + (t + n)
    BY <1>5, <2>1
  <2> QED BY <1>11, <2>2
<1>14. OfMessage(f) => Loaded(c2.payload, q, f.n, f.n - m)
  BY <1>8, <1>11
<1>15. InFrame(c2, q, f, R + n)
  BY <1>4, <1>8, <1>9, <1>12, <1>13, <1>14 DEF InFrame
<1>16. Decoding(c2, H, a, b, R + n)
  BY <1>2, <1>3, <1>8, <1>15 DEF Decoding
<1>17. Wire(Unread(w, n), p, s, H, a, b, R + n, base)
  BY <1>1, WireRead
<1> QED BY <1>1, <1>10, <1>13, <1>16, <1>17 DEF View

\* The rest of a payload.
LEMMA DataEnd ==
    ASSUME NEW c, Decoder(c), c.state = "DATA", NEW w \in Seq(Byte8), NEW p,
           NEW s \in Messages, View(c, w, p, s), c.remaining <= Len(w), ~Closing(c),
           NEW c2, c2 = Filled(c, w, c.remaining), NEW c3, c3 = Between(c2)
    PROVE  /\ Decoder(c3) /\ NotYet(c2, s) \in Messages
           /\ View(c3, Unread(w, c.remaining), p, NotYet(c2, s))
           /\ Whole(c2, s) /\ c2.remaining = 0 /\ c2.fin = c.fin /\ c2.opcode = c.opcode
<1>1. PICK H \in [Nat -> Frame], a, b, R, base \in Nat :
         Wire(w, p, s, H, a, b, R, base) /\ Decoding(c, H, a, b, R)
  BY DEF View
<1>2. PICK q, f \in Frame : q = H[a] /\ f = H[a + 1] /\ a < b /\ Reading(c, w, q, f, R)
  <2>1. c.state # "INITIAL"
    OBVIOUS
  <2> QED BY <1>1, <2>1, InsideFrame
<1>3. /\ a < b /\ InFrame(c, q, f, R) /\ Size(f) = HeadLen(f.n) + f.n
      /\ f.end = q.end + Size(f) /\ Follows(q, f)
  BY <1>2 DEF Reading
<1>4. /\ R = q.end + HeadLen(f.n) + (f.n - c.remaining) /\ c.remaining \in 1..f.n
      /\ ~f.bad /\ c.fin = f.fin /\ c.opcode = f.op
  BY <1>3 DEF InFrame
<1>5. f.n \in Nat /\ HeadLen(f.n) \in Nat /\ q.end \in Nat
  BY FrameTypes, HeadLens
<1>6. Len(c.payload) <= MaxPayload
  BY DEF Decoder
<1>7. PICK n \in Nat : n = c.remaining /\ n <= c.remaining /\ n <= Len(w)
  <2>1. c.remaining \in Nat /\ c.remaining <= c.remaining
    BY <1>4, <1>5
  <2> QED BY <2>1
<1>8. /\ c2 \in Clients /\ c2.state = "DATA" /\ c2.fin = c.fin /\ c2.opcode = c.opcode
      /\ c2.remaining = c.remaining - n /\ Len(c2.payload) = Len(c.payload)
      /\ OfMessage(f) => Loaded(c2.payload, q, f.n, f.n - c.remaining + n)
  <2>1. c2 = Filled(c, w, n)
    BY <1>7
  <2>2. FilledBy(c, c2, n, H[a], H[a + 1])
    BY <1>1, <1>7, <2>1, FilledFacts
  <2> QED BY <1>2, <2>2 DEF FilledBy
<1>9. c2.remaining = 0 /\ f.n - c.remaining + n = f.n /\ f.end = R + n /\ R + n \in Nat
  <2>1. PICK x \in Nat, h \in Nat, e \in Nat : x = f.n /\ h = HeadLen(f.n) /\ e = q.end
    BY <1>5
  <2>2. R = e + h + (x - n)
    BY <1>4, <1>7, <2>1
  <2>3. f.end = e + (h + x)
    BY <1>3, <2>1
  <2>4. c2.remaining = n - n
    BY <1>7, <1>8
  <2>5. e + (h + x) = R + n
    BY <2>2
  <2>6. x - n + n = x /\ n - n = 0 /\ R + n \in Nat
    OBVIOUS
  <2>7. f.n - c.remaining + n = x
    BY <1>7, <2>1, <2>6
  <2> QED BY <2>1, <2>3, <2>4, <2>5, <2>6, <2>7
<1>10. f.op # "ping"
  BY <1>3, <1>4, <1>5 DEF Follows
<1>11. ~Closing(c2)
  BY <1>8 DEF Closing
<1>12. PICK w2 \in Seq(Byte8) : w2 = Unread(w, n) /\ Wire(w2, p, s, H, a, b, R + n, base)
  BY <1>1, <1>7, WireRead
<1>13. /\ Decoder(c3) /\ NotYet(c2, s) \in Messages /\ View(c3, w2, p, NotYet(c2, s))
       /\ Whole(c2, s)
  <2>1. /\ c2.fin = H[a + 1].fin /\ c2.opcode = H[a + 1].op /\ ~H[a + 1].bad
        /\ H[a + 1].end = R + n /\ Len(c2.payload) <= MaxPayload /\ c2 \in Clients
    BY <1>2, <1>4, <1>6, <1>8, <1>9
  <2>2. OfMessage(H[a + 1]) => Loaded(c2.payload, H[a], H[a + 1].n, H[a + 1].n)
    BY <1>2, <1>8, <1>9
  <2>3. H[a + 1].op = "ping" => c2.payload = <<>>
    BY <1>2, <1>10
  <2> QED BY <1>3, <1>11, <1>12, <2>1, <2>2, <2>3, EndStep, Zenon
<1> QED BY <1>7, <1>8, <1>9, <1>12, <1>13

-----------------------------------------------------------------------------
(* All clients at once.                                                      *)

\* A decoder makes sense of what its peer has sent, or the peer's reset has taken that away.
ClientOk(c, w, n, p, s) ==
    /\ c \in Clients /\ w \in Seq(Byte8) /\ n \in 0..Len(w) /\ p \in Peers /\ s \in Messages
    /\ Decoder(c)
    /\ (p.left = "reset" /\ w = <<>>) \/ View(c, w, p, s)

ClientsInv ==
    /\ client \in [Fds -> Clients] /\ wire \in [Fds -> Seq(Byte8)] /\ arrived \in [Fds -> Nat]
    /\ peer \in [Fds -> Peers] /\ sent \in [Fds -> Messages]
    /\ \A fd \in Fds : ClientOk(client[fd], wire[fd], arrived[fd], peer[fd], sent[fd])

ListInv ==
    /\ m_clients \in Seq(Fds) /\ IsInjective(m_clients) /\ scan \in 0..Len(m_clients)
    /\ \A fd \in Fds \ ToSet(m_clients) : client[fd] = FreshClient

WsInv == ListInv /\ ClientsInv /\ MessagesIntact

LEMMA ClientOkFresh == ClientOk(FreshClient, <<>>, 0, IdlePeer, <<>>)
<1>1. FreshClient \in Clients
  BY ViewFresh DEF Decoder
<1>2. <<>> \in Seq(Byte8) /\ Len(<<>>) = 0 /\ 0 \in 0..0 /\ <<>> \in Messages
  BY DEF Messages
<1>3. IdlePeer \in Peers
  BY DEF IdlePeer, Peers
<1> QED BY <1>1, <1>2, <1>3, ViewFresh DEF ClientOk

LEMMA ReplaceOne ==
    ASSUME NEW S, NEW f \in [Fds -> S], NEW fd \in Fds, NEW v \in S,
           NEW f2, f2 = [f EXCEPT ![fd] = v]
    PROVE  f2 \in [Fds -> S] /\ f2[fd] = v /\ \A g \in Fds : g # fd => f2[g] = f[g]
OBVIOUS

LEMMA KeepOne ==
    ASSUME NEW S, NEW f \in [Fds -> S], NEW fd \in Fds, NEW f2, f2 = f
    PROVE  f2 = [f EXCEPT ![fd] = f[fd]]
OBVIOUS

\* A step of one client.
Becomes(fd, c, w, n, p, s) ==
    /\ client' = [client EXCEPT ![fd] = c] /\ wire' = [wire EXCEPT ![fd] = w]
    /\ arrived' = [arrived EXCEPT ![fd] = n] /\ peer' = [peer EXCEPT ![fd] = p]
    /\ sent' = [sent EXCEPT ![fd] = s]

\* All other clients stay as they are.
LEMMA OneClient ==
    ASSUME ClientsInv, NEW fd \in Fds, NEW c, NEW w, NEW n, NEW p, NEW s,
           ClientOk(c, w, n, p, s), Becomes(fd, c, w, n, p, s)
    PROVE  ClientsInv'
<1>1. c \in Clients /\ w \in Seq(Byte8) /\ n \in Nat /\ p \in Peers /\ s \in Messages
  <2>1. n \in 0..Len(w)
    BY DEF ClientOk
  <2> QED BY <2>1 DEF ClientOk
<1>2. /\ client' \in [Fds -> Clients] /\ client'[fd] = c
      /\ \A g \in Fds : g # fd => client'[g] = client[g]
  BY <1>1, ReplaceOne DEF ClientsInv, Becomes
<1>3. /\ wire' \in [Fds -> Seq(Byte8)] /\ wire'[fd] = w
      /\ \A g \in Fds : g # fd => wire'[g] = wire[g]
  BY <1>1, ReplaceOne DEF ClientsInv, Becomes
<1>4. /\ arrived' \in [Fds -> Nat] /\ arrived'[fd] = n
      /\ \A g \in Fds : g # fd => arrived'[g] = arrived[g]
  BY <1>1, ReplaceOne DEF ClientsInv, Becomes
<1>5. /\ peer' \in [Fds -> Peers] /\ peer'[fd] = p
      /\ \A g \in Fds : g # fd => peer'[g] = peer[g]
  BY <1>1, ReplaceOne DEF ClientsInv, Becomes
<1>6. /\ sent' \in [Fds -> Messages] /\ sent'[fd] = s
      /\ \A g \in Fds : g # fd => sent'[g] = sent[g]
  BY <1>1, ReplaceOne DEF ClientsInv, Becomes
<1>7. ASSUME NEW g \in Fds
      PROVE  ClientOk(client'[g], wire'[g], arrived'[g], peer'[g], sent'[g])
  <2>1. CASE g = fd
    BY <1>2, <1>3, <1>4, <1>5, <1>6, <2>1
  <2>2. CASE g # fd
    BY <1>2, <1>3, <1>4, <1>5, <1>6, <2>2 DEF ClientsInv
  <2> QED BY <2>1, <2>2
<1> QED BY <1>2, <1>3, <1>4, <1>5, <1>6, <1>7 DEF ClientsInv

\* Nothing of the clients changes.
LEMMA ClientsStay ==
    ASSUME ListInv, ClientsInv, m_clients' = m_clients, client' = client, wire' = wire,
           arrived' = arrived, peer' = peer, sent' = sent, scan' \in 0..Len(m_clients)
    PROVE  ListInv' /\ ClientsInv'
BY DEF ListInv, ClientsInv

\* A connection is closed.
LEMMA ForgetStep ==
    ASSUME WsInv, NEW fd \in ToSet(m_clients), Forget(fd), NEW k \in Nat, scan' = k,
           k <= Len(m_clients) - 1, handed' = handed
    PROVE  WsInv'
<1>1. m_clients \in Seq(Fds) /\ IsInjective(m_clients)
  BY DEF WsInv, ListInv
<1>2. fd \in Fds
  <2>1. DOMAIN m_clients = 1..Len(m_clients) /\ \A i \in 1..Len(m_clients) : m_clients[i] \in Fds
    BY <1>1, ElementOfSeq, LenProperties
  <2> QED BY <2>1 DEF ToSet
<1>3. m_clients' = RemoveFirst(m_clients, fd)
  BY DEF Forget
<1>4. /\ m_clients' \in Seq(Fds) /\ IsInjective(m_clients') /\ Len(m_clients') = Len(m_clients) - 1
      /\ Len(m_clients) \in Nat /\ ToSet(m_clients') = ToSet(m_clients) \ {fd}
  BY <1>1, <1>3, RemoveFirstKeeps
<1>5. ClientsInv'
  <2>1. Becomes(fd, FreshClient, <<>>, 0, IdlePeer, <<>>)
    BY DEF Forget, Becomes
  <2>2. ClientsInv
    BY DEF WsInv
  <2> QED BY <1>2, <2>1, <2>2, ClientOkFresh, OneClient
<1>6. scan' \in 0..Len(m_clients')
  BY <1>4
<1>7. ASSUME NEW g \in Fds \ ToSet(m_clients') PROVE client'[g] = FreshClient
  <2>1. client' = [client EXCEPT ![fd] = FreshClient] /\ client \in [Fds -> Clients]
    BY DEF Forget, WsInv, ClientsInv
  <2>2. CASE g = fd
    BY <1>2, <2>1, <2>2
  <2>3. CASE g # fd
    <3>1. g \notin ToSet(m_clients)
      BY <1>4, <1>7, <2>3
    <3>2. client[g] = FreshClient
      BY <1>7, <3>1 DEF WsInv, ListInv
    <3> QED BY <1>7, <2>1, <2>3, <3>2
  <2> QED BY <2>2, <2>3
<1>8. ListInv'
  BY <1>4, <1>6, <1>7 DEF ListInv
<1>9. MessagesIntact'
  BY DEF WsInv, MessagesIntact
<1> QED BY <1>5, <1>8, <1>9 DEF WsInv

\* The client recv_iter is at.
LEMMA CurrentFacts ==
    ASSUME WsInv, scan > 0
    PROVE  /\ Current \in ToSet(m_clients) /\ Current \in Fds
           /\ scan \in 1..Len(m_clients) /\ Len(m_clients) \in Nat
           /\ NextScan \in 0..Len(m_clients)
           /\ ClientOk(client[Current], wire[Current], arrived[Current], peer[Current],
                       sent[Current])
<1>1. /\ m_clients \in Seq(Fds) /\ scan \in 0..Len(m_clients)
      /\ \A fd \in Fds : ClientOk(client[fd], wire[fd], arrived[fd], peer[fd], sent[fd])
  BY DEF WsInv, ListInv, ClientsInv
<1>2. /\ DOMAIN m_clients = 1..Len(m_clients) /\ Len(m_clients) \in Nat
      /\ \A i \in 1..Len(m_clients) : m_clients[i] \in Fds
  BY <1>1, ElementOfSeq, LenProperties
<1>3. scan \in 1..Len(m_clients)
  BY <1>1, <1>2
<1>4. Current \in ToSet(m_clients) /\ Current \in Fds
  BY <1>2, <1>3 DEF Current, ToSet
<1>5. NextScan \in 0..Len(m_clients)
  BY <1>2, <1>3 DEF NextScan
<1> QED BY <1>1, <1>2, <1>3, <1>4, <1>5

\* n bytes of the client are read, and its decoder is c.
LEMMA ReadStep ==
    ASSUME WsInv, scan > 0, NEW n \in Nat, Read(n), NEW c, NEW s, Decoder(c), s \in Messages,
           View(c, Unread(wire[Current], n), peer[Current], s),
           client' = [client EXCEPT ![Current] = c], sent' = [sent EXCEPT ![Current] = s],
           peer' = peer, m_clients' = m_clients, scan' \in 0..Len(m_clients), MessagesIntact'
    PROVE  WsInv'
<1>1. PICK fd \in Fds : fd = Current /\ fd \in ToSet(m_clients)
  BY CurrentFacts
<1>2. ClientOk(client[fd], wire[fd], arrived[fd], peer[fd], sent[fd])
  BY <1>1, CurrentFacts
<1>3. /\ wire[fd] \in Seq(Byte8) /\ arrived[fd] \in 0..Len(wire[fd]) /\ peer[fd] \in Peers
      /\ Len(wire[fd]) \in Nat
  BY <1>2, LenProperties DEF ClientOk
<1>4. /\ arrived[fd] >= n
      /\ wire' = [wire EXCEPT ![fd] = SubSeq(wire[fd], n + 1, Len(wire[fd]))]
      /\ arrived' = [arrived EXCEPT ![fd] = arrived[fd] - n]
  <2>1. /\ arrived[Current] >= n
        /\ wire' = [wire EXCEPT ![Current] = SubSeq(wire[Current], n + 1, Len(wire[Current]))]
        /\ arrived' = [arrived EXCEPT ![Current] = arrived[Current] - n]
    BY Zenon DEF Read
  <2> QED BY <1>1, <2>1
<1>5. wire' = [wire EXCEPT ![fd] = Unread(wire[fd], n)]
  BY <1>4 DEF Unread
<1>6. PICK w \in Seq(Byte8) : w = Unread(wire[fd], n) /\ Len(w) = Len(wire[fd]) - n
  <2>1. PICK v \in Seq(Byte8) : v = wire[fd]
    BY <1>3
  <2>2. n <= Len(v)
    BY <1>3, <1>4, <2>1
  <2>3. Unread(v, n) \in Seq(Byte8) /\ Len(Unread(v, n)) = Len(v) - n
    BY <2>2, Suffix DEF Unread
  <2> QED BY <2>1, <2>3
<1>7. PICK m \in Nat : m = arrived[fd] - n /\ m \in 0..Len(w)
  BY <1>3, <1>4, <1>6
<1>8. ClientOk(c, w, m, peer[fd], s)
  <2>1. c \in Clients
    BY DEF Decoder
  <2>2. View(c, w, peer[fd], s)
    BY <1>1, <1>6
  <2> QED BY <1>3, <1>6, <1>7, <2>1, <2>2 DEF ClientOk
<1>9. /\ client' = [client EXCEPT ![fd] = c] /\ sent' = [sent EXCEPT ![fd] = s]
      /\ wire' = [wire EXCEPT ![fd] = w] /\ arrived' = [arrived EXCEPT ![fd] = m]
  BY <1>1, <1>4, <1>5, <1>6, <1>7
<1>10. peer' = [peer EXCEPT ![fd] = peer[fd]]
  BY KeepOne DEF WsInv, ClientsInv
<1>11. ClientsInv'
  <2>1. ClientsInv
    BY DEF WsInv
  <2>2. Becomes(fd, c, w, m, peer[fd], s)
    BY <1>9, <1>10 DEF Becomes
  <2> QED BY <1>8, <2>1, <2>2, OneClient
<1>12. ListInv'
  <2>1. client \in [Fds -> Clients] /\ c \in Clients
    BY DEF WsInv, ClientsInv, Decoder
  <2>2. ASSUME NEW g \in Fds \ ToSet(m_clients) PROVE client'[g] = FreshClient
    <3>1. g # fd /\ client[g] = FreshClient
      BY <1>1, <2>2 DEF WsInv, ListInv
    <3> QED BY <1>9, <2>1, <3>1
  <2> QED BY <2>2 DEF WsInv, ListInv
<1> QED BY <1>11, <1>12 DEF WsInv

\* ... and the message goes on,
LEMMA MoveOnStep ==
    ASSUME WsInv, scan > 0, NEW n \in Nat, Read(n), NEW c, Decoder(c), MoveOn(c),
           View(c, Unread(wire[Current], n), peer[Current], sent[Current])
    PROVE  WsInv'
<1>1. /\ client' = [client EXCEPT ![Current] = c] /\ scan' = NextScan
      /\ m_clients' = m_clients /\ peer' = peer /\ sent' = sent /\ handed' = handed
  BY DEF MoveOn
<1>2. Current \in Fds /\ NextScan \in 0..Len(m_clients)
  BY CurrentFacts
<1>3. sent[Current] \in Messages /\ sent' = [sent EXCEPT ![Current] = sent[Current]]
  BY <1>1, <1>2, KeepOne DEF WsInv, ClientsInv
<1>4. MessagesIntact'
  BY <1>1 DEF WsInv, MessagesIntact
<1> QED BY <1>1, <1>2, <1>3, <1>4, ReadStep

\* ... or the frame is over.
LEMMA EndFrameStep ==
    ASSUME WsInv, scan > 0, NEW n \in Nat, Read(n), NEW c, EndFrame(c), c.fin \in BOOLEAN,
           Decoder(Between(c)), NotYet(c, sent[Current]) \in Messages,
           View(Between(c), Unread(wire[Current], n), peer[Current], NotYet(c, sent[Current])),
           Whole(c, sent[Current])
    PROVE  WsInv'
<1>1. CASE ~c.fin
  <2>1. MoveOn(Between(c))
    BY <1>1 DEF EndFrame, Between
  <2>2. NotYet(c, sent[Current]) = sent[Current]
    BY <1>1 DEF NotYet
  <2> QED BY <2>1, <2>2, MoveOnStep
<1>2. CASE c.fin
  <2>1. /\ scan' = 0 /\ client' = [client EXCEPT ![Current] = Between(c)]
        /\ m_clients' = m_clients /\ peer' = peer
    BY <1>2 DEF EndFrame, Complete, Between
  <2>2. Current \in Fds /\ scan' \in 0..Len(m_clients)
    <3>1. Current \in Fds /\ Len(m_clients) \in Nat
      BY CurrentFacts
    <3> QED BY <2>1, <3>1
  <2>3. CASE c.opcode = "ping"
    <3>1. handed' = handed /\ sent' = sent /\ NotYet(c, sent[Current]) = sent[Current]
      BY <1>2, <2>3 DEF EndFrame, Complete, NotYet
    <3>2. sent' = [sent EXCEPT ![Current] = sent[Current]]
      BY <2>2, <3>1, KeepOne DEF WsInv, ClientsInv
    <3>3. MessagesIntact'
      BY <3>1 DEF WsInv, MessagesIntact
    <3> QED BY <2>1, <2>2, <3>1, <3>2, <3>3, ReadStep
  <2>4. CASE c.opcode # "ping"
    <3>1. /\ handed' = [payload |-> c.payload, from |-> Head(sent[Current]).from,
                        to |-> Head(sent[Current]).to, by |-> Current]
          /\ sent' = [sent EXCEPT ![Current] = Tail(sent[Current])]
      BY <1>2, <2>4 DEF EndFrame, Complete
    <3>2. NotYet(c, sent[Current]) = Tail(sent[Current])
      BY <1>2, <2>4 DEF NotYet
    <3>3. /\ handed'.payload = c.payload /\ handed'.from = Head(sent[Current]).from
          /\ handed'.to = Head(sent[Current]).to
      BY <3>1
    <3>4. c.payload = [i \in 1..(Head(sent[Current]).to - Head(sent[Current]).from) |->
                           Head(sent[Current]).from + i]
      BY <1>2, <2>4 DEF Whole
    <3>5. MessagesIntact'
      BY <3>3, <3>4, Zenon DEF MessagesIntact
    <3>6. sent' = [sent EXCEPT ![Current] = NotYet(c, sent[Current])]
      BY <3>1, <3>2
    <3> QED BY <2>1, <2>2, <3>5, <3>6, ReadStep
  <2> QED BY <2>3, <2>4
<1> QED BY <1>1, <1>2

\* process_client fails or a close frame is over: the connection is closed.
LEMMA CloseSteps ==
    ASSUME WsInv, scan > 0, CloseCurrent \/ CloseGracefully
    PROVE  WsInv'
<1>1. Current \in ToSet(m_clients) /\ scan \in 1..Len(m_clients) /\ Len(m_clients) \in Nat
  BY CurrentFacts
<1>2. Forget(Current) /\ handed' = handed
  BY DEF CloseCurrent, CloseGracefully
<1>3. scan' = 0 \/ (scan < Len(m_clients) /\ scan' = scan)
  BY DEF CloseCurrent, CloseGracefully
<1>4. PICK k \in Nat : scan' = k /\ k <= Len(m_clients) - 1
  BY <1>1, <1>3
<1> QED BY <1>1, <1>2, <1>4, ForgetStep

\* Too few bytes are there, or the connection is broken.
LEMMA TooFewStep ==
    ASSUME WsInv, scan > 0, NEW n, TooFew(n)
    PROVE  WsInv'
<1>1. CASE CloseCurrent
  BY <1>1, CloseSteps
<1>2. CASE ~CloseCurrent
  <2>1. /\ scan' = NextScan /\ m_clients' = m_clients /\ client' = client /\ wire' = wire
        /\ arrived' = arrived /\ peer' = peer /\ sent' = sent /\ handed' = handed
    BY <1>2 DEF TooFew
  <2>2. scan' \in 0..Len(m_clients)
    BY <2>1, CurrentFacts
  <2>3. MessagesIntact'
    BY <2>1 DEF WsInv, MessagesIntact
  <2> QED BY <2>1, <2>2, <2>3, ClientsStay DEF WsInv
<1> QED BY <1>1, <1>2

\* Bytes have arrived: a reset has not taken them away.
LEMMA HasArrived ==
    ASSUME NEW c, NEW w, NEW n, NEW p, NEW s, ClientOk(c, w, n, p, s), NEW m \in Nat, m > 0,
           n >= m
    PROVE  /\ Decoder(c) /\ w \in Seq(Byte8) /\ s \in Messages /\ View(c, w, p, s)
           /\ Len(w) \in Nat /\ n \in Nat /\ m <= Len(w) /\ n <= Len(w)
<1>1. /\ Decoder(c) /\ w \in Seq(Byte8) /\ s \in Messages /\ n \in 0..Len(w)
      /\ (w = <<>> \/ View(c, w, p, s))
  BY DEF ClientOk
<1>2. Len(w) \in Nat
  BY <1>1, LenProperties
<1>3. m <= Len(w) /\ n \in Nat /\ n <= Len(w)
  BY <1>1, <1>2
<1>4. w # <<>>
  <2>1. Len(<<>>) = 0
    OBVIOUS
  <2> QED BY <1>2, <1>3, <2>1
<1> QED BY <1>1, <1>2, <1>3, <1>4

\* The four states of process_client.
LEMMA ReadInitialStep ==
    ASSUME WsInv, ReadInitial
    PROVE  WsInv'
<1>1. scan > 0 /\ client[Current].state = "INITIAL"
  BY DEF ReadInitial, At
<1>2. CASE TooFew(2)
  BY <1>1, <1>2, TooFewStep
<1>3. CASE CloseCurrent
  BY <1>1, <1>3, CloseSteps
<1>4. CASE ~TooFew(2) /\ ~CloseCurrent
  <2>1. PICK c, w, p, s : /\ c = client[Current] /\ w = wire[Current] /\ p = peer[Current]
                          /\ s = sent[Current]
    OBVIOUS
  <2>2. PICK c2 : c2 = [state |-> IF w[2][2] <= ShortLen THEN "MASK" ELSE "LEN1",
                        fin |-> w[1][1], opcode |-> w[1][2],
                        remaining |-> IF w[2][2] <= ShortLen THEN w[2][2] ELSE c.remaining,
                        payload |-> IF w[1][2] = "continue" THEN c.payload ELSE <<>>]
    OBVIOUS
  <2>3. /\ Read(2) /\ w[2][1] /\ w[2][2] <= ShortLen + 1
    BY <1>4, <2>1 DEF ReadInitial, Byte
  <2>4. MoveOn(c2)
    BY <1>4, <2>1, <2>2, Zenon DEF ReadInitial, Byte
  <2>5. ClientOk(c, w, arrived[Current], p, s) /\ arrived[Current] >= 2
    BY <1>1, <2>1, <2>3, CurrentFacts DEF Read
  <2>6. /\ Decoder(c) /\ w \in Seq(Byte8) /\ s \in Messages /\ View(c, w, p, s) /\ 2 <= Len(w)
        /\ Len(w) \in Nat
    <3>1. 2 \in Nat /\ 2 > 0
      OBVIOUS
    <3> QED BY <2>5, <3>1, HasArrived
  <2>7. Decoder(c2) /\ View(c2, Unread(w, 2), p, s)
    <3>1. Len(w) >= 2 /\ c.state = "INITIAL"
      BY <1>1, <2>1, <2>6
    <3> QED BY <2>2, <2>3, <2>6, <3>1, InitialStep
  <2>8. 2 \in Nat
    OBVIOUS
  <2> QED BY <1>1, <2>1, <2>3, <2>4, <2>7, <2>8, MoveOnStep
<1> QED BY <1>2, <1>3, <1>4

\* The length that did not fit the first two bytes,
LEMMA ReadLen1Step ==
    ASSUME WsInv, ReadLen1
    PROVE  WsInv'
<1>1. scan > 0 /\ client[Current].state = "LEN1"
  BY DEF ReadLen1, At
<1>2. CASE TooFew(2)
  BY <1>1, <1>2, TooFewStep
<1>3. CASE ~TooFew(2)
  <2>1. PICK c, w, p, s : /\ c = client[Current] /\ w = wire[Current] /\ p = peer[Current]
                          /\ s = sent[Current]
    OBVIOUS
  <2>2. PICK c2 : c2 = LongerBy(c, w[1])
    OBVIOUS
  <2>3. Read(2)
    BY <1>3 DEF ReadLen1
  <2>4. MoveOn(c2)
    BY <1>3, <2>1, <2>2, Zenon DEF ReadLen1, Byte, LongerBy
  <2>5. ClientOk(c, w, arrived[Current], p, s) /\ arrived[Current] >= 2
    BY <1>1, <2>1, <2>3, CurrentFacts DEF Read
  <2>6. /\ Decoder(c) /\ w \in Seq(Byte8) /\ s \in Messages /\ View(c, w, p, s) /\ 2 <= Len(w)
        /\ Len(w) \in Nat
    <3>1. 2 \in Nat /\ 2 > 0
      OBVIOUS
    <3> QED BY <2>5, <3>1, HasArrived
  <2>7. Decoder(c2) /\ View(c2, Unread(w, 2), p, s)
    <3>1. Len(w) >= 2 /\ c.state = "LEN1"
      BY <1>1, <2>1, <2>6
    <3> QED BY <2>2, <2>6, <3>1, Len1Step
  <2>8. 2 \in Nat
    OBVIOUS
  <2> QED BY <1>1, <2>1, <2>3, <2>4, <2>7, <2>8, MoveOnStep
<1> QED BY <1>2, <1>3

\* ... the key, which ends a frame without payload,
LEMMA ReadMaskStep ==
    ASSUME WsInv, ReadMask
    PROVE  WsInv'
<1>1. scan > 0 /\ client[Current].state = "MASK"
  BY DEF ReadMask, At
<1>2. CASE TooFew(4)
  BY <1>1, <1>2, TooFewStep
<1>3. CASE CloseCurrent \/ CloseGracefully
  BY <1>1, <1>3, CloseSteps
<1>4. CASE ~TooFew(4) /\ ~(CloseCurrent \/ CloseGracefully)
  <2>1. PICK c, w, p, s : /\ c = client[Current] /\ w = wire[Current] /\ p = peer[Current]
                          /\ s = sent[Current]
    OBVIOUS
  <2>2. Read(4)
    BY <1>4 DEF ReadMask
  <2>3. \/ c.remaining > 0 /\ ~TooLong(c) /\ MoveOn(Resized(c))
        \/ c.remaining = 0 /\ ~Closing(c) /\ EndFrame(c)
    BY <1>4, <2>1, Zenon DEF ReadMask, Resized
  <2>4. ClientOk(c, w, arrived[Current], p, s) /\ arrived[Current] >= 4
    BY <1>1, <2>1, <2>2, CurrentFacts DEF Read
  <2>5. /\ Decoder(c) /\ w \in Seq(Byte8) /\ s \in Messages /\ View(c, w, p, s) /\ 4 <= Len(w)
        /\ Len(w) \in Nat
    <3>1. 4 \in Nat /\ 4 > 0
      OBVIOUS
    <3> QED BY <2>4, <3>1, HasArrived
  <2>6. Len(w) >= 4 /\ c.state = "MASK" /\ 4 \in Nat
    BY <1>1, <2>1, <2>5
  <2>7. CASE c.remaining > 0 /\ ~TooLong(c) /\ MoveOn(Resized(c))
    <3>1. PICK c2 : c2 = Resized(c)
      OBVIOUS
    <3>2. Decoder(c2) /\ View(c2, Unread(w, 4), p, s)
      BY <2>5, <2>6, <2>7, <3>1, MaskStep
    <3> QED BY <1>1, <2>1, <2>2, <2>6, <2>7, <3>1, <3>2, MoveOnStep
  <2>8. CASE c.remaining = 0 /\ ~Closing(c) /\ EndFrame(c)
    <3>1. PICK c2 : c2 = Between(c)
      OBVIOUS
    <3>2. /\ Decoder(c2) /\ NotYet(c, s) \in Messages
          /\ View(c2, Unread(w, 4), p, NotYet(c, s)) /\ Whole(c, s)
      BY <2>5, <2>6, <2>8, <3>1, MaskEnd
    <3>3. c.fin \in BOOLEAN
      BY <2>5, ClientTypes DEF Decoder
    <3> QED BY <1>1, <2>1, <2>2, <2>6, <2>8, <3>1, <3>2, <3>3, EndFrameStep
  <2> QED BY <2>3, <2>7, <2>8
<1> QED BY <1>2, <1>3, <1>4

\* ... and the payload.
LEMMA ReadDataStep ==
    ASSUME WsInv, ReadData
    PROVE  WsInv'
<1>1. scan > 0 /\ client[Current].state = "DATA"
  BY DEF ReadData, At
<1>2. CASE TooFew(client[Current].remaining)
  BY <1>1, <1>2, TooFewStep
<1>3. CASE CloseGracefully
  BY <1>1, <1>3, CloseSteps
<1>4. CASE ~TooFew(client[Current].remaining) /\ ~CloseGracefully
  <2>1. PICK c, w, p, s, x : /\ c = client[Current] /\ w = wire[Current] /\ p = peer[Current]
                             /\ s = sent[Current] /\ x = arrived[Current]
    OBVIOUS
  <2>2. PICK n : n = IF x >= c.remaining THEN c.remaining ELSE (x \div Chunk) * Chunk
    OBVIOUS
  <2>3. PICK c2 : c2 = Filled(c, w, n)
    OBVIOUS
  <2>4. /\ n > 0 /\ ~(n = c.remaining /\ Closing(c)) /\ Read(n)
        /\ IF c2.remaining = 0 THEN EndFrame(c2) ELSE MoveOn(c2)
    BY <1>4, <2>1, <2>2, <2>3, Zenon DEF ReadData, Byte, Filled
  <2>5. ClientOk(c, w, x, p, s)
    BY <1>1, <2>1, CurrentFacts
  <2>6. c.remaining \in Nat /\ x \in Nat /\ c.remaining >= 1
    <3>1. Decoder(c) /\ x \in 0..Len(w) /\ w \in Seq(Byte8)
      BY <2>5 DEF ClientOk
    <3>2. c.remaining \in 1..Len(c.payload) /\ c.remaining \in Nat
      BY <1>1, <2>1, <3>1, ClientTypes DEF Decoder
    <3> QED BY <3>1, <3>2
  <2>7. n \in Nat /\ n <= x
    <3>1. CASE x >= c.remaining
      BY <2>2, <2>6, <3>1
    <3>2. CASE ~(x >= c.remaining)
      <4>1. n = (x \div Chunk) * Chunk
        BY <2>2, <3>2
      <4>2. n \in Int /\ n <= x
        BY <2>6, <4>1, WholeChunks
      <4> QED BY <2>4, <4>2
    <3> QED BY <3>1, <3>2
  <2>8. /\ Decoder(c) /\ w \in Seq(Byte8) /\ s \in Messages /\ View(c, w, p, s)
        /\ Len(w) \in Nat /\ n <= Len(w)
    <3>1. x >= n
      BY <2>6, <2>7
    <3> QED BY <2>4, <2>5, <2>7, <3>1, HasArrived
  <2>9. c.state = "DATA"
    BY <1>1, <2>1
  <2>10. CASE n = c.remaining
    <3>1. PICK c3 : c3 = Between(c2)
      OBVIOUS
    <3>2. c.remaining <= Len(w) /\ ~Closing(c) /\ c2 = Filled(c, w, c.remaining)
      BY <2>3, <2>4, <2>8, <2>10
    <3>3. /\ Decoder(c3) /\ NotYet(c2, s) \in Messages
          /\ View(c3, Unread(w, c.remaining), p, NotYet(c2, s))
          /\ Whole(c2, s) /\ c2.remaining = 0 /\ c2.fin = c.fin
      BY <2>8, <2>9, <3>1, <3>2, DataEnd
    <3>4. EndFrame(c2)
      BY <2>4, <3>3
    <3>5. c2.fin \in BOOLEAN
      BY <2>8, <3>3, ClientTypes DEF Decoder
    <3>6. View(c3, Unread(w, n), p, NotYet(c2, s))
      BY <2>10, <3>3
    <3> QED BY <1>1, <2>1, <2>4, <2>7, <3>1, <3>3, <3>4, <3>5, <3>6, EndFrameStep
  <2>11. CASE n # c.remaining
    <3>1. ~(x >= c.remaining) /\ n = (x \div Chunk) * Chunk
      BY <2>2, <2>11
    <3>2. n < c.remaining /\ n % 4 = 0
      <4>1. ((x \div Chunk) * Chunk) % 4 = 0
        BY <2>6, WholeChunks
      <4>2. n % 4 = 0
        BY <3>1, <4>1
      <4>3. n < c.remaining
        <5>1. ~(x >= c.remaining)
          BY <3>1
        <5> QED BY <2>6, <2>7, <5>1
      <4> QED BY <4>2, <4>3
    <3>3. Decoder(c2) /\ View(c2, Unread(w, n), p, s)
      BY <2>3, <2>7, <2>8, <2>9, <3>2, DataStep
    <3>4. c2.remaining # 0
      <4>1. c2.state = "DATA"
        BY <2>3, <2>9, <2>8 DEF Filled, Decoder, Clients
      <4>2. c2.remaining \in 1..Len(c2.payload) /\ c2 \in Clients
        BY <3>3, <4>1 DEF Decoder
      <4> QED BY <4>2
    <3>5. MoveOn(c2)
      BY <2>4, <3>4
    <3> QED BY <1>1, <2>1, <2>4, <2>7, <3>3, <3>5, MoveOnStep
  <2> QED BY <2>10, <2>11
<1> QED BY <1>2, <1>3, <1>4

-----------------------------------------------------------------------------
(* What the peers do.                                                        *)

\* A frame after q, all but its place in the stream told by g.
Header == [fin : BOOLEAN, op : Ops, masked : BOOLEAN, n : Nat, from : Nat, bad : BOOLEAN,
           cut : BOOLEAN, open : BOOLEAN, length : Nat, before : Nat]
FrameFor(q, g) ==
    \E f \in Frame :
        /\ f.fin = g.fin /\ f.op = g.op /\ f.masked = g.masked /\ f.n = g.n
        /\ f.from = g.from /\ f.bad = g.bad /\ f.cut = g.cut /\ f.open = g.open
        /\ f.length = g.length /\ f.before = g.before /\ f.end = q.end + Size(f)
        /\ f.count = q.count + (IF Ends(f) THEN 1 ELSE 0)

LEMMA FrameMade ==
    ASSUME NEW q \in Frame, NEW g \in Header
    PROVE  FrameFor(q, g)
<1>1. /\ g.fin \in BOOLEAN /\ g.op \in Ops /\ g.masked \in BOOLEAN /\ g.n \in Nat
      /\ g.from \in Nat /\ g.bad \in BOOLEAN /\ g.cut \in BOOLEAN /\ g.open \in BOOLEAN
      /\ g.length \in Nat /\ g.before \in Nat
  BY DEF Header
<1>2. PICK fin \in BOOLEAN, masked \in BOOLEAN, bad \in BOOLEAN :
         fin = g.fin /\ masked = g.masked /\ bad = g.bad
  BY <1>1, Zenon
<1>3. PICK cut \in BOOLEAN, open \in BOOLEAN, op \in Ops :
         cut = g.cut /\ open = g.open /\ op = g.op
  BY <1>1, Zenon
<1>4. PICK n \in Nat, from \in Nat : n = g.n /\ from = g.from
  BY <1>1, Zenon
<1>5. PICK length \in Nat, before \in Nat : length = g.length /\ before = g.before
  BY <1>1, Zenon
<1>6. PICK x : x = IF cut THEN 2 ELSE HeadLen(n) + n
  OBVIOUS
<1>7. PICK y : y = IF op \in {"text", "continue"} /\ ~bad /\ fin THEN 1 ELSE 0
  OBVIOUS
<1>8. q.end + x \in Nat /\ q.count + y \in Nat
  <2>1. q.end \in Nat /\ q.count \in Nat
    BY FrameTypes
  <2>2. HeadLen(n) \in Nat
    BY HeadLens
  <2>3. x \in Nat
    BY <1>6, <2>2
  <2>4. y \in Nat
    BY <1>7
  <2> QED BY <2>1, <2>3, <2>4
<1>9. PICK e \in Nat, k \in Nat : e = q.end + x /\ k = q.count + y
  BY <1>8
<1>10. PICK f : f = [fin |-> fin, op |-> op, masked |-> masked, n |-> n, from |-> from,
                     bad |-> bad, cut |-> cut, end |-> e, open |-> open, length |-> length,
                     before |-> before, count |-> k]
  OBVIOUS
<1>11. f \in Frame
  BY <1>10 DEF Frame
<1>12. /\ f.fin = fin /\ f.op = op /\ f.masked = masked /\ f.n = n /\ f.from = from
       /\ f.bad = bad /\ f.cut = cut /\ f.open = open /\ f.length = length
       /\ f.before = before /\ f.end = e /\ f.count = k
  BY <1>10
<1>13. Size(f) = x
  BY <1>6, <1>12 DEF Size
<1>14. Ends(f) <=> op \in {"text", "continue"} /\ ~bad /\ fin
  BY <1>12 DEF Ends, OfMessage
<1>15. f.end = q.end + Size(f)
  BY <1>9, <1>12, <1>13
<1>16. f.count = q.count + (IF Ends(f) THEN 1 ELSE 0)
  BY <1>7, <1>9, <1>12, <1>14
<1>17. /\ f.fin = g.fin /\ f.op = g.op /\ f.masked = g.masked /\ f.n = g.n
       /\ f.from = g.from /\ f.bad = g.bad /\ f.cut = g.cut /\ f.open = g.open
       /\ f.length = g.length /\ f.before = g.before
  BY <1>2, <1>3, <1>4, <1>5, <1>12
<1> QED BY <1>11, <1>15, <1>16, <1>17, Zenon DEF FrameFor

\* g is a frame after q; with it the peer's message is p, and its messages go from s to s2.
Sendable(g, q, p, s, s2) ==
    \E f \in Frame : Follows(q, f) /\ Bytes(f) = g /\ Brings(q, f, p, s, s2)

\* The history of the stream that a peer has sent ends in what the peer is doing.
LastIs(q, p) == q \in Frame /\ Sane(q) /\ q.open = p.open /\ q.length = p.length
                /\ q.before = p.before

\* The decoder does not mind another frame at the end of the stream.
LEMMA ViewSend ==
    ASSUME NEW c, NEW w \in Seq(Byte8), NEW p, NEW s \in Messages, View(c, w, p, s),
           NEW g, NEW p2, NEW s2, \A q : LastIs(q, p) => Sendable(g, q, p2, s, s2)
    PROVE  /\ s2 \in Messages /\ w \o g \in Seq(Byte8) /\ Len(w) <= Len(w \o g)
           /\ View(c, w \o g, p2, s2)
<1>1. PICK H \in [Nat -> Frame], a, b, R, base \in Nat :
         Wire(w, p, s, H, a, b, R, base) /\ Decoding(c, H, a, b, R)
  BY DEF View
<1>2. LastIs(H[b], p)
  <2>1. b \in a..b /\ H[b] \in Frame
    BY <1>1, WireFacts
  <2> QED BY <1>1, <2>1 DEF Wire, LastIs
<1>3. PICK f \in Frame : Follows(H[b], f) /\ Bytes(f) = g /\ Brings(H[b], f, p2, s, s2)
  BY <1>2, Zenon DEF Sendable
<1>4. /\ s2 \in Messages /\ w \o g \in Seq(Byte8)
      /\ Len(w \o g) = Len(w) + Size(f)
      /\ Longer(w \o g, p2, s2, H, a, b, R, base)
  <2>1. Wire(w, p, s, H, a, b, R, base) /\ Bytes(f) = g
    BY <1>1, <1>3
  <2>2. /\ s2 \in Messages /\ w \o Bytes(f) \in Seq(Byte8)
        /\ Len(w \o Bytes(f)) = Len(w) + Size(f)
        /\ Longer(w \o Bytes(f), p2, s2, H, a, b, R, base)
    BY <1>3, <2>1, WireSend
  <2> QED BY <2>1, <2>2
<1>5. PICK H2 \in [Nat -> Frame] : /\ Wire(w \o g, p2, s2, H2, a, b + 1, R, base)
                                   /\ \A k \in a..b : H2[k] = H[k]
  BY <1>4 DEF Longer
<1>6. Len(w) <= Len(w \o g)
  <2>1. Size(f) \in Nat /\ Len(w) \in Nat
    BY BytesFacts, LenProperties
  <2>2. PICK m \in Nat : m = Len(w) + Size(f)
    BY <2>1
  <2> QED BY <1>4, <2>1, <2>2
<1>7. Decoding(c, H2, a, b + 1, R)
  <2>1. a \in a..b /\ H2[a] = H[a]
    BY <1>1, <1>5, WireFacts
  <2>2. CASE c.state = "INITIAL"
    BY <1>1, <2>1, <2>2 DEF Decoding
  <2>3. CASE c.state # "INITIAL"
    <3>1. a < b /\ InFrame(c, H[a], H[a + 1], R)
      BY <1>1, <2>3 DEF Decoding
    <3>2. a + 1 \in a..b /\ a < b + 1
      BY <3>1
    <3>3. H2[a + 1] = H[a + 1]
      BY <1>5, <3>2
    <3> QED BY <2>1, <2>3, <3>1, <3>2, <3>3 DEF Decoding
  <2> QED BY <2>2, <2>3
<1>8. b + 1 \in Nat
  OBVIOUS
<1> QED BY <1>4, <1>5, <1>6, <1>7, <1>8 DEF View

\* Only what the peer is sending counts, not how it left.
LEMMA ViewPeer ==
    ASSUME NEW c, NEW w, NEW p, NEW s, View(c, w, p, s),
           NEW p2, p2.open = p.open, p2.length = p.length, p2.before = p.before
    PROVE  View(c, w, p2, s)
<1>1. PICK H \in [Nat -> Frame], a, b, R, base \in Nat :
         Wire(w, p, s, H, a, b, R, base) /\ Decoding(c, H, a, b, R)
  BY DEF View
<1>2. Wire(w, p2, s, H, a, b, R, base)
  BY <1>1, Zenon DEF Wire
<1> QED BY <1>1, <1>2 DEF View

\* A frame is sent.
Replaced(fd, p2, s2) == peer' = [peer EXCEPT ![fd] = p2] /\ sent' = [sent EXCEPT ![fd] = s2]

LEMMA SendStep ==
    ASSUME WsInv, NEW fd \in Fds, NEW g, Sends(fd, g), NEW p2 \in Peers, NEW s2,
           Replaced(fd, p2, s2),
           \A q : LastIs(q, peer[fd]) => Sendable(g, q, p2, sent[fd], s2)
    PROVE  WsInv'
<1>1. PICK c, w, n, p, s : /\ c = client[fd] /\ w = wire[fd] /\ n = arrived[fd]
                           /\ p = peer[fd] /\ s = sent[fd]
  OBVIOUS
<1>2. ClientOk(c, w, n, p, s)
  BY <1>1 DEF WsInv, ClientsInv
<1>3. /\ p.left = "no" /\ wire' = [wire EXCEPT ![fd] = w \o g]
      /\ m_clients' = m_clients /\ client' = client /\ scan' = scan /\ arrived' = arrived
      /\ handed' = handed
  BY <1>1 DEF Sends
<1>4. /\ c \in Clients /\ w \in Seq(Byte8) /\ n \in 0..Len(w) /\ s \in Messages /\ Decoder(c)
      /\ View(c, w, p, s)
  BY <1>2, <1>3 DEF ClientOk
<1>5. /\ s2 \in Messages /\ w \o g \in Seq(Byte8) /\ Len(w) <= Len(w \o g)
      /\ View(c, w \o g, p2, s2)
  <2>1. \A q : LastIs(q, p) => Sendable(g, q, p2, s, s2)
    BY <1>1, Zenon
  <2> QED BY <1>4, <2>1, ViewSend
<1>6. PICK v \in Seq(Byte8) : v = w \o g
  BY <1>5
<1>7. n \in 0..Len(v)
  <2>1. Len(w) \in Nat /\ Len(v) \in Nat /\ Len(w) <= Len(v) /\ n \in 0..Len(w)
    BY <1>4, <1>5, <1>6, LenProperties
  <2> QED BY <2>1
<1>8. ClientOk(c, v, n, p2, s2)
  BY <1>4, <1>5, <1>6, <1>7 DEF ClientOk
<1>9. /\ client' = [client EXCEPT ![fd] = c] /\ arrived' = [arrived EXCEPT ![fd] = n]
      /\ wire' = [wire EXCEPT ![fd] = v]
  <2>1. client' = [client EXCEPT ![fd] = client[fd]]
    BY <1>3, KeepOne DEF WsInv, ClientsInv
  <2>2. arrived' = [arrived EXCEPT ![fd] = arrived[fd]]
    BY <1>3, KeepOne DEF WsInv, ClientsInv
  <2> QED BY <1>1, <1>3, <1>6, <2>1, <2>2
<1>10. ClientsInv'
  <2>1. ClientsInv
    BY DEF WsInv
  <2>2. Becomes(fd, c, v, n, p2, s2)
    BY <1>9 DEF Becomes, Replaced
  <2> QED BY <1>8, <2>1, <2>2, OneClient
<1>11. ListInv' /\ MessagesIntact'
  BY <1>3 DEF WsInv, ListInv, MessagesIntact
<1> QED BY <1>10, <1>11 DEF WsInv

LEMMA PeerTypes ==
    ASSUME NEW p \in Peers
    PROVE  /\ p.open \in BOOLEAN /\ p.length \in Nat /\ p.before \in Nat
           /\ p.left \in {"no", "closed", "refused", "fin", "reset"}
BY DEF Peers

LEMMA LastFacts ==
    ASSUME NEW q, NEW p, LastIs(q, p)
    PROVE  /\ q \in Frame /\ q.open = p.open /\ q.length = p.length /\ q.before = p.before
           /\ q.before <= q.length /\ (~q.open => q.length = 0)
           /\ q.open \in BOOLEAN /\ q.length \in Nat /\ q.before \in Nat
BY FrameTypes DEF LastIs, Sane

\* A text frame or a continuation.
LEMMA FragmentSendable ==
    ASSUME NEW q, NEW p \in Peers, LastIs(q, p), NEW fin \in BOOLEAN, NEW n \in Nat,
           NEW s, NEW p2, NEW s2, NEW total, total = p.length + n,
           p2.open = ~fin, p2.length = (IF fin THEN 0 ELSE total),
           p2.before = (IF fin THEN 0 ELSE p.before),
           s2 = IF fin THEN Append(s, [from |-> p.before, to |-> total]) ELSE s
    PROVE  Sendable(FrameBytes(fin, IF p.open THEN "continue" ELSE "text", TRUE, n, p.length),
                    q, p2, s, s2)
<1>1. /\ q \in Frame /\ q.open = p.open /\ q.length = p.length /\ q.before = p.before
      /\ q.before <= q.length /\ (~q.open => q.length = 0)
      /\ q.open \in BOOLEAN /\ q.length \in Nat /\ q.before \in Nat
  BY LastFacts
<1>2. PICK l \in Nat, b \in Nat, o \in BOOLEAN, op \in Ops :
        /\ l = (IF fin THEN 0 ELSE total) /\ b = (IF fin THEN 0 ELSE p.before) /\ o = ~fin
        /\ op = (IF p.open THEN "continue" ELSE "text")
  <2>1. (IF fin THEN 0 ELSE total) \in Nat /\ (IF fin THEN 0 ELSE p.before) \in Nat
    BY <1>1
  <2>2. (IF p.open THEN "continue" ELSE "text") \in Ops /\ (~fin) \in BOOLEAN
    BY DEF Ops
  <2> QED BY <2>1, <2>2
<1>3. PICK r \in Header : /\ r.fin = fin /\ r.op = op /\ r.masked = TRUE /\ r.n = n
                          /\ r.from = q.length /\ r.bad = FALSE /\ r.cut = FALSE
                          /\ r.open = o /\ r.length = l /\ r.before = b
  <2>1. PICK h : h = [fin |-> fin, op |-> op, masked |-> TRUE, n |-> n, from |-> q.length,
                      bad |-> FALSE, cut |-> FALSE, open |-> o, length |-> l, before |-> b]
    OBVIOUS
  <2>2. h \in Header
    <3>1. TRUE \in BOOLEAN /\ FALSE \in BOOLEAN /\ 0 \in Nat
      OBVIOUS
    <3>2. q.open \in BOOLEAN /\ q.length \in Nat
      BY <1>1
    <3> QED BY <2>1, <3>1, <3>2, Zenon DEF Header
  <2>3. /\ h.fin = fin /\ h.op = op /\ h.masked = TRUE /\ h.n = n
        /\ h.from = q.length /\ h.bad = FALSE /\ h.cut = FALSE
        /\ h.open = o /\ h.length = l /\ h.before = b
    BY <2>1, Zenon
  <2> QED BY <2>2, <2>3, Zenon
<1>4. PICK f \in Frame :
        /\ f.fin = fin /\ f.op = op /\ f.masked = TRUE /\ f.n = n /\ f.from = q.length
        /\ f.bad = FALSE /\ f.cut = FALSE /\ f.open = o /\ f.length = l
        /\ f.before = b /\ f.end = q.end + Size(f)
        /\ f.count = q.count + (IF Ends(f) THEN 1 ELSE 0)
  <2>1. FrameFor(q, r)
    BY <1>1, FrameMade
  <2> QED BY <1>3, <2>1, Zenon DEF FrameFor
<1>5. Bytes(f) = FrameBytes(fin, IF p.open THEN "continue" ELSE "text", TRUE, n, p.length)
  BY <1>1, <1>2, <1>3, <1>4 DEF Bytes
<1>6. OfMessage(f) /\ (Ends(f) <=> fin) /\ (f.op = "continue" <=> q.open)
      /\ f.op # "ping" /\ f.op # "close"
  BY <1>1, <1>2, <1>3, <1>4 DEF OfMessage, Ends
<1>7. Sane(f)
  <2>1. CASE fin
    BY <1>2, <1>4, <2>1 DEF Sane
  <2>2. CASE ~fin
    <3>1. f.before = q.before /\ f.length = q.length + n /\ f.open
      BY <1>1, <1>2, <1>4, <2>2
    <3>2. q.before <= q.length + n
      BY <1>1
    <3> QED BY <3>1, <3>2 DEF Sane
  <2> QED BY <2>1, <2>2
<1>8. IF f.fin THEN ~f.open ELSE f.length = q.length + f.n /\ f.before = q.before
  BY <1>1, <1>2, <1>3, <1>4
<1>9. Follows(q, f)
  BY <1>3, <1>4, <1>6, <1>7, <1>8 DEF Follows
<1>10. s2 = IF Ends(f) THEN Append(s, [from |-> q.before, to |-> q.length + f.n]) ELSE s
  BY <1>1, <1>4, <1>6
<1>11. p2.open = f.open /\ p2.length = f.length /\ p2.before = f.before
  BY <1>2, <1>4
<1>12. Brings(q, f, p2, s, s2)
  BY <1>10, <1>11 DEF Brings
<1> QED BY <1>5, <1>9, <1>12 DEF Sendable

\* A peer sends a text frame or a continuation,
LEMMA PeerSendsStep ==
    ASSUME WsInv, NEW fd \in Fds, NEW fin \in BOOLEAN, NEW n \in Nat, PeerSends(fd, fin, n)
    PROVE  WsInv'
<1>1. PICK p \in Peers, s \in Messages : p = peer[fd] /\ s = sent[fd]
  BY DEF WsInv, ClientsInv
<1>2. PICK total \in Nat : total = p.length + n
  BY PeerTypes
<1>3. PICK g : g = FrameBytes(fin, IF p.open THEN "continue" ELSE "text", TRUE, n, p.length)
  OBVIOUS
<1>4. /\ Sends(fd, g)
      /\ peer' = [peer EXCEPT ![fd] = IF fin THEN IdlePeer
                                      ELSE [peer[fd] EXCEPT !.open = TRUE, !.length = total]]
      /\ sent' = IF fin THEN [sent EXCEPT ![fd] = Append(sent[fd], [from |-> peer[fd].before,
                                                                  to |-> total])]
                 ELSE sent
  BY <1>1, <1>2, <1>3 DEF PeerSends
<1>5. PICK p2 : p2 = IF fin THEN IdlePeer ELSE [p EXCEPT !.open = TRUE, !.length = total]
  OBVIOUS
<1>6. PICK s2 : s2 = IF fin THEN Append(s, [from |-> p.before, to |-> total]) ELSE s
  OBVIOUS
<1>7. /\ p2 \in Peers /\ p2.open = ~fin /\ p2.length = (IF fin THEN 0 ELSE total)
      /\ p2.before = (IF fin THEN 0 ELSE p.before)
  <2>1. CASE fin
    BY <1>5, <2>1 DEF IdlePeer, Peers
  <2>2. CASE ~fin
    BY <1>5, <2>2 DEF Peers
  <2> QED BY <2>1, <2>2
<1>8. peer' = [peer EXCEPT ![fd] = p2]
  BY <1>1, <1>4, <1>5
<1>9. sent' = [sent EXCEPT ![fd] = s2]
  <2>1. CASE fin
    BY <1>1, <1>4, <1>6, <2>1
  <2>2. CASE ~fin
    <3>1. sent' = sent /\ s2 = sent[fd]
      BY <1>1, <1>4, <1>6, <2>2
    <3>2. sent' = [sent EXCEPT ![fd] = sent[fd]]
      BY <3>1, KeepOne DEF WsInv, ClientsInv
    <3> QED BY <3>1, <3>2
  <2> QED BY <2>1, <2>2
<1>10. ASSUME NEW q, LastIs(q, p) PROVE Sendable(g, q, p2, s, s2)
  BY <1>2, <1>3, <1>6, <1>7, <1>10, FragmentSendable
<1>11. \A q : LastIs(q, peer[fd]) => Sendable(g, q, p2, sent[fd], s2)
  BY <1>1, <1>10, Zenon
<1>12. Replaced(fd, p2, s2)
  BY <1>8, <1>9 DEF Replaced
<1> QED BY <1>4, <1>7, <1>11, <1>12, SendStep

\* A frame that is no part of a message leaves the messages on their way alone.
LEMMA OtherSendable ==
    ASSUME NEW q, NEW p \in Peers, LastIs(q, p), NEW op \in Ops, NEW masked \in BOOLEAN,
           NEW n \in Nat, NEW bad \in BOOLEAN, NEW cut \in BOOLEAN, NEW before \in Nat,
           NEW s, NEW p2,
           bad \/ op \in {"ping", "close"},
           bad => ~masked \/ cut \/ n > MaxPayload, cut => n > ShortLen + 1,
           IF op = "ping" THEN n = 0 /\ before = p.length ELSE before = p.before,
           p2.open = p.open, p2.length = p.length, p2.before = before
    PROVE  Sendable(IF cut THEN <<<<TRUE, op>>, <<masked, n>>>>
                    ELSE FrameBytes(TRUE, op, masked, n, 0), q, p2, s, s)
<1>1. /\ q \in Frame /\ q.open = p.open /\ q.length = p.length /\ q.before = p.before
      /\ q.before <= q.length /\ (~q.open => q.length = 0)
      /\ q.open \in BOOLEAN /\ q.length \in Nat /\ q.before \in Nat
  BY LastFacts
<1>2. PICK r \in Header : /\ r.fin = TRUE /\ r.op = op /\ r.masked = masked /\ r.n = n
                          /\ r.from = 0 /\ r.bad = bad /\ r.cut = cut
                          /\ r.open = q.open /\ r.length = q.length /\ r.before = before
  <2>1. PICK h : h = [fin |-> TRUE, op |-> op, masked |-> masked, n |-> n, from |-> 0,
                      bad |-> bad, cut |-> cut, open |-> q.open, length |-> q.length,
                      before |-> before]
    OBVIOUS
  <2>2. h \in Header
    <3>1. TRUE \in BOOLEAN /\ FALSE \in BOOLEAN /\ 0 \in Nat
      OBVIOUS
    <3>2. q.open \in BOOLEAN /\ q.length \in Nat
      BY <1>1
    <3> QED BY <2>1, <3>1, <3>2, Zenon DEF Header
  <2>3. /\ h.fin = TRUE /\ h.op = op /\ h.masked = masked /\ h.n = n
        /\ h.from = 0 /\ h.bad = bad /\ h.cut = cut
        /\ h.open = q.open /\ h.length = q.length /\ h.before = before
    BY <2>1, Zenon
  <2> QED BY <2>2, <2>3, Zenon
<1>3. PICK f \in Frame :
        /\ f.fin = TRUE /\ f.op = op /\ f.masked = masked /\ f.n = n /\ f.from = 0
        /\ f.bad = bad /\ f.cut = cut /\ f.open = q.open /\ f.length = q.length
        /\ f.before = before /\ f.end = q.end + Size(f)
        /\ f.count = q.count + (IF Ends(f) THEN 1 ELSE 0)
  <2>1. FrameFor(q, r)
    BY <1>1, FrameMade
  <2> QED BY <1>2, <2>1, Zenon DEF FrameFor
<1>4. Bytes(f) = IF cut THEN <<<<TRUE, op>>, <<masked, n>>>>
                 ELSE FrameBytes(TRUE, op, masked, n, 0)
  <2>1. f.fin = TRUE /\ f.from = 0 /\ f.cut = cut /\ f.op = op /\ f.masked = masked /\ f.n = n
    BY <1>2, <1>3
  <2> QED BY <2>1, Zenon DEF Bytes
<1>5. ~OfMessage(f) /\ ~Ends(f)
  BY <1>3 DEF OfMessage, Ends
<1>6. Sane(f)
  <2>1. before <= q.length
    BY <1>1
  <2> QED BY <1>1, <1>2, <1>3, <2>1 DEF Sane
<1>7. /\ f.bad => ~f.masked \/ f.cut \/ f.n > MaxPayload
      /\ f.cut => f.n > ShortLen + 1
      /\ f.op \in {"ping", "close"} => f.fin
      /\ f.op = "ping" => f.n = 0 /\ f.before = q.length /\ f.length = q.length
  BY <1>1, <1>2, <1>3
<1>8. Follows(q, f)
  BY <1>3, <1>5, <1>6, <1>7 DEF Follows
<1>9. p2.open = f.open /\ p2.length = f.length /\ p2.before = f.before
  BY <1>1, <1>2, <1>3
<1>10. Brings(q, f, p2, s, s)
  BY <1>5, <1>9 DEF Brings
<1> QED BY <1>4, <1>8, <1>10 DEF Sendable

\* ... a ping, maybe between the fragments of a message,
LEMMA PeerPingsStep ==
    ASSUME WsInv, NEW fd \in Fds, PeerPings(fd)
    PROVE  WsInv'
<1>1. PICK p \in Peers, s \in Messages : p = peer[fd] /\ s = sent[fd]
  BY DEF WsInv, ClientsInv
<1>2. PICK g : g = FrameBytes(TRUE, "ping", TRUE, 0, 0)
  OBVIOUS
<1>3. PICK p2 : p2 = [p EXCEPT !.before = p.length]
  OBVIOUS
<1>4. Sends(fd, g) /\ peer' = [peer EXCEPT ![fd].before = peer[fd].length] /\ sent' = sent
  BY <1>2 DEF PeerPings
<1>5. p2 \in Peers /\ p2.open = p.open /\ p2.length = p.length /\ p2.before = p.length
      /\ p.length \in Nat
  BY <1>3 DEF Peers
<1>6. peer' = [peer EXCEPT ![fd] = p2]
  BY <1>1, <1>3, <1>4
<1>7. sent' = [sent EXCEPT ![fd] = s]
  BY <1>1, <1>4, KeepOne DEF WsInv, ClientsInv
<1>8. ASSUME NEW q, LastIs(q, p) PROVE Sendable(g, q, p2, s, s)
  <2>1. PICK op \in Ops, masked \in BOOLEAN, n \in Nat, bad \in BOOLEAN, cut \in BOOLEAN :
          op = "ping" /\ masked = TRUE /\ n = 0 /\ bad = FALSE /\ cut = FALSE
    BY DEF Ops
  <2>2. PICK before \in Nat : before = p.length
    BY <1>5
  <2>3. /\ bad \/ op \in {"ping", "close"}
        /\ bad => ~masked \/ cut \/ n > MaxPayload
        /\ cut => n > ShortLen + 1
        /\ IF op = "ping" THEN n = 0 /\ before = p.length ELSE before = p.before
        /\ p2.open = p.open /\ p2.length = p.length /\ p2.before = before
    BY <1>5, <2>1, <2>2
  <2>4. Sendable(IF cut THEN <<<<TRUE, op>>, <<masked, n>>>>
                 ELSE FrameBytes(TRUE, op, masked, n, 0), q, p2, s, s)
    BY <1>8, <2>3, OtherSendable, Zenon
  <2> QED BY <1>2, <2>1, <2>4, Zenon
<1>9. \A q : LastIs(q, peer[fd]) => Sendable(g, q, p2, sent[fd], s)
  BY <1>1, <1>8, Zenon
<1>10. Replaced(fd, p2, s)
  BY <1>6, <1>7 DEF Replaced
<1> QED BY <1>4, <1>5, <1>9, <1>10, SendStep

\* ... a close frame,
LEMMA PeerClosesStep ==
    ASSUME WsInv, NEW fd \in Fds, PeerCloses(fd)
    PROVE  WsInv'
<1>1. PICK p \in Peers, s \in Messages : p = peer[fd] /\ s = sent[fd]
  BY DEF WsInv, ClientsInv
<1>2. PICK n \in {0, 2} : Sends(fd, FrameBytes(TRUE, "close", TRUE, n, 0))
  BY DEF PeerCloses
<1>3. PICK g : g = FrameBytes(TRUE, "close", TRUE, n, 0)
  OBVIOUS
<1>4. PICK p2 : p2 = [p EXCEPT !.left = "closed"]
  OBVIOUS
<1>5. Sends(fd, g) /\ peer' = [peer EXCEPT ![fd].left = "closed"] /\ sent' = sent
  BY <1>2, <1>3 DEF PeerCloses
<1>6. p2 \in Peers /\ p2.open = p.open /\ p2.length = p.length /\ p2.before = p.before
      /\ p.before \in Nat
  BY <1>4 DEF Peers
<1>7. peer' = [peer EXCEPT ![fd] = p2]
  BY <1>1, <1>4, <1>5
<1>8. sent' = [sent EXCEPT ![fd] = s]
  BY <1>1, <1>5, KeepOne DEF WsInv, ClientsInv
<1>9. ASSUME NEW q, LastIs(q, p) PROVE Sendable(g, q, p2, s, s)
  <2>1. PICK op \in Ops, masked \in BOOLEAN, m \in Nat, bad \in BOOLEAN, cut \in BOOLEAN :
          op = "close" /\ masked = TRUE /\ m = n /\ bad = FALSE /\ cut = FALSE
    BY DEF Ops
  <2>2. PICK before \in Nat : before = p.before
    BY <1>6
  <2>3. /\ bad \/ op \in {"ping", "close"}
        /\ bad => ~masked \/ cut \/ m > MaxPayload
        /\ cut => m > ShortLen + 1
        /\ IF op = "ping" THEN m = 0 /\ before = p.length ELSE before = p.before
        /\ p2.open = p.open /\ p2.length = p.length /\ p2.before = before
    BY <1>6, <2>1, <2>2
  <2>4. Sendable(IF cut THEN <<<<TRUE, op>>, <<masked, m>>>>
                 ELSE FrameBytes(TRUE, op, masked, m, 0), q, p2, s, s)
    BY <1>9, <2>3, OtherSendable, ZenonT(60)
  <2> QED BY <1>3, <2>1, <2>4, Zenon
<1>10. sent' = [sent EXCEPT ![fd] = sent[fd]]
  BY <1>1, <1>8
<1>11. \A q : LastIs(q, peer[fd]) => Sendable(g, q, p2, sent[fd], sent[fd])
  BY <1>1, <1>9, Zenon
<1>12. Replaced(fd, p2, sent[fd])
  BY <1>7, <1>10 DEF Replaced
<1> QED BY <1>5, <1>6, <1>11, <1>12, SendStep

\* ... or a frame the decoder refuses.
LEMMA PeerMisbehavesStep ==
    ASSUME WsInv, NEW fd \in Fds, PeerMisbehaves(fd)
    PROVE  WsInv'
<1>1. PICK p \in Peers, s \in Messages : p = peer[fd] /\ s = sent[fd]
  BY DEF WsInv, ClientsInv
<1>2. PICK m \in BOOLEAN, n \in {0, ShortLen + 2, MaxPayload + 1} :
        /\ ~m \/ n > 0
        /\ Sends(fd, IF n = ShortLen + 2 THEN <<<<TRUE, "text">>, <<m, ShortLen + 2>>>>
                     ELSE FrameBytes(TRUE, "text", m, n, 0))
  BY DEF PeerMisbehaves
<1>3. PICK g : g = IF n = ShortLen + 2 THEN <<<<TRUE, "text">>, <<m, ShortLen + 2>>>>
                   ELSE FrameBytes(TRUE, "text", m, n, 0)
  OBVIOUS
<1>4. PICK p2 : p2 = [p EXCEPT !.left = "refused"]
  OBVIOUS
<1>5. Sends(fd, g) /\ peer' = [peer EXCEPT ![fd].left = "refused"] /\ sent' = sent
  BY <1>2, <1>3 DEF PeerMisbehaves
<1>6. p2 \in Peers /\ p2.open = p.open /\ p2.length = p.length /\ p2.before = p.before
      /\ p.before \in Nat
  BY <1>4 DEF Peers
<1>7. peer' = [peer EXCEPT ![fd] = p2]
  BY <1>1, <1>4, <1>5
<1>8. sent' = [sent EXCEPT ![fd] = s]
  BY <1>1, <1>5, KeepOne DEF WsInv, ClientsInv
<1>9. ASSUME NEW q, LastIs(q, p) PROVE Sendable(g, q, p2, s, s)
  <2>1. ShortLen \in Nat /\ MaxPayload \in Nat
    BY WsAssumption
  <2>2. PICK op \in Ops, masked \in BOOLEAN, bad \in BOOLEAN, cut \in BOOLEAN :
          op = "text" /\ masked = m /\ bad = TRUE /\ (cut <=> n = ShortLen + 2)
    BY DEF Ops
  <2>3. PICK before \in Nat, k \in Nat : before = p.before /\ k = n
    BY <1>6, <2>1
  <2>4. /\ bad \/ op \in {"ping", "close"}
        /\ bad => ~masked \/ cut \/ k > MaxPayload
        /\ cut => k > ShortLen + 1
        /\ IF op = "ping" THEN k = 0 /\ before = p.length ELSE before = p.before
        /\ p2.open = p.open /\ p2.length = p.length /\ p2.before = before
    <3>1. ~masked \/ cut \/ k > MaxPayload
      <4>1. CASE n = 0
        BY <1>2, <2>2, <4>1
      <4>2. CASE n = ShortLen + 2
        BY <2>2, <4>2
      <4>3. CASE n = MaxPayload + 1
        BY <2>1, <2>3, <4>3
      <4> QED BY <1>2, <4>1, <4>2, <4>3
    <3>2. cut => k > ShortLen + 1
      BY <2>1, <2>2, <2>3
    <3> QED BY <1>6, <2>2, <2>3, <3>1, <3>2
  <2>5. Sendable(IF cut THEN <<<<TRUE, op>>, <<masked, k>>>>
                 ELSE FrameBytes(TRUE, op, masked, k, 0), q, p2, s, s)
    BY <1>9, <2>4, OtherSendable, ZenonT(60)
  <2>6. g = IF cut THEN <<<<TRUE, op>>, <<masked, k>>>> ELSE FrameBytes(TRUE, op, masked, k, 0)
    <3>1. CASE cut
      BY <1>3, <2>2, <2>3, <3>1
    <3>2. CASE ~cut
      BY <1>3, <2>2, <2>3, <3>2
    <3> QED BY <3>1, <3>2
  <2> QED BY <2>5, <2>6
<1>10. sent' = [sent EXCEPT ![fd] = sent[fd]]
  BY <1>1, <1>8
<1>11. \A q : LastIs(q, peer[fd]) => Sendable(g, q, p2, sent[fd], sent[fd])
  BY <1>1, <1>9, Zenon
<1>12. Replaced(fd, p2, sent[fd])
  BY <1>7, <1>10 DEF Replaced
<1> QED BY <1>5, <1>6, <1>11, <1>12, SendStep

\* A step that leaves decoder and messages of a client alone.
LEMMA PeerStep ==
    ASSUME WsInv, NEW fd \in Fds, NEW w, NEW n, NEW p,
           ClientOk(client[fd], w, n, p, sent[fd]),
           wire' = [wire EXCEPT ![fd] = w], arrived' = [arrived EXCEPT ![fd] = n],
           peer' = [peer EXCEPT ![fd] = p], m_clients' = m_clients, client' = client,
           scan' = scan, sent' = sent, handed' = handed
    PROVE  WsInv'
<1>1. client' = [client EXCEPT ![fd] = client[fd]]
  BY KeepOne DEF WsInv, ClientsInv
<1>2. sent' = [sent EXCEPT ![fd] = sent[fd]]
  BY KeepOne DEF WsInv, ClientsInv
<1>3. ClientsInv'
  <2>1. ClientsInv
    BY DEF WsInv
  <2>2. Becomes(fd, client[fd], w, n, p, sent[fd])
    BY <1>1, <1>2 DEF Becomes
  <2> QED BY <2>1, <2>2, OneClient
<1>4. ListInv' /\ MessagesIntact'
  BY DEF WsInv, ListInv, MessagesIntact
<1> QED BY <1>3, <1>4 DEF WsInv

\* A peer goes without a close frame.
LEMMA PeerLeavesStep ==
    ASSUME WsInv, NEW fd \in Fds, PeerLeaves(fd)
    PROVE  WsInv'
<1>1. PICK c, w, n, p, s : /\ c = client[fd] /\ w = wire[fd] /\ n = arrived[fd]
                           /\ p = peer[fd] /\ s = sent[fd]
  OBVIOUS
<1>2. ClientOk(c, w, n, p, s)
  BY <1>1 DEF WsInv, ClientsInv
<1>3. /\ p.left = "no" /\ m_clients' = m_clients /\ client' = client /\ scan' = scan
      /\ sent' = sent /\ handed' = handed
  BY <1>1 DEF PeerLeaves
<1>4. /\ c \in Clients /\ w \in Seq(Byte8) /\ n \in 0..Len(w) /\ s \in Messages /\ Decoder(c)
      /\ View(c, w, p, s) /\ p \in Peers
  BY <1>2, <1>3 DEF ClientOk
<1>5. PICK left \in {"fin", "reset"} :
        /\ peer' = [peer EXCEPT ![fd].left = left]
        /\ \/ wire' = wire /\ arrived' = arrived
           \/ /\ left = "reset" /\ wire' = [wire EXCEPT ![fd] = <<>>]
              /\ arrived' = [arrived EXCEPT ![fd] = 0]
  BY DEF PeerLeaves
<1>6. PICK p2 : p2 = [p EXCEPT !.left = left]
  OBVIOUS
<1>7. /\ p2 \in Peers /\ p2.left = left /\ p2.open = p.open /\ p2.length = p.length
      /\ p2.before = p.before
  BY <1>4, <1>6 DEF Peers
<1>8. peer' = [peer EXCEPT ![fd] = p2]
  BY <1>1, <1>5, <1>6
<1>9. CASE wire' = wire /\ arrived' = arrived
  <2>1. View(c, w, p2, s)
    BY <1>4, <1>7, ViewPeer
  <2>2. ClientOk(c, w, n, p2, s)
    BY <1>4, <1>7, <2>1 DEF ClientOk
  <2>3. wire' = [wire EXCEPT ![fd] = wire[fd]]
    BY <1>9, KeepOne DEF WsInv, ClientsInv
  <2>4. arrived' = [arrived EXCEPT ![fd] = arrived[fd]]
    BY <1>9, KeepOne DEF WsInv, ClientsInv
  <2> QED BY <1>1, <1>3, <1>8, <2>2, <2>3, <2>4, PeerStep
<1>10. CASE /\ left = "reset" /\ wire' = [wire EXCEPT ![fd] = <<>>]
            /\ arrived' = [arrived EXCEPT ![fd] = 0]
  <2>0. <<>> \in Seq(Byte8) /\ Len(<<>>) = 0 /\ 0 \in 0..0
    OBVIOUS
  <2>1. PICK e \in Seq(Byte8) : e = <<>> /\ 0 \in 0..Len(e)
    BY <2>0
  <2>2. ClientOk(c, e, 0, p2, s)
    BY <1>4, <1>7, <1>10, <2>1 DEF ClientOk
  <2> QED BY <1>1, <1>3, <1>8, <1>10, <2>1, <2>2, PeerStep
<1> QED BY <1>5, <1>9, <1>10

\* What was sent arrives.
LEMMA ByteArrivesStep ==
    ASSUME WsInv, NEW fd \in Fds, ByteArrives(fd)
    PROVE  WsInv'
<1>1. PICK c, w, n, p, s : /\ c = client[fd] /\ w = wire[fd] /\ n = arrived[fd]
                           /\ p = peer[fd] /\ s = sent[fd]
  OBVIOUS
<1>2. ClientOk(c, w, n, p, s)
  BY <1>1 DEF WsInv, ClientsInv
<1>3. w \in Seq(Byte8) /\ Len(w) \in Nat /\ n \in 0..Len(w)
  BY <1>2, LenProperties DEF ClientOk
<1>4. PICK m : m = IF kind[fd] = "simple" THEN Len(w) ELSE n + 1
  OBVIOUS
<1>5. n < Len(w) /\ arrived' = [arrived EXCEPT ![fd] = m]
  BY <1>1, <1>4 DEF ByteArrives
<1>6. m \in 0..Len(w)
  BY <1>3, <1>4, <1>5
<1>7. ClientOk(c, w, m, p, s)
  BY <1>2, <1>6 DEF ClientOk
<1>8. /\ m_clients' = m_clients /\ client' = client /\ scan' = scan /\ wire' = wire
      /\ peer' = peer /\ sent' = sent /\ handed' = handed
  BY DEF ByteArrives
<1>9. wire' = [wire EXCEPT ![fd] = wire[fd]]
  BY <1>8, KeepOne DEF WsInv, ClientsInv
<1>10. peer' = [peer EXCEPT ![fd] = peer[fd]]
  BY <1>8, KeepOne DEF WsInv, ClientsInv
<1> QED BY <1>1, <1>5, <1>7, <1>8, <1>9, <1>10, PeerStep

\* A new client comes, after the ones that are there.
LEMMA AddClientStep ==
    ASSUME WsInv, NEW fd \in Fds, addClient(fd)
    PROVE  WsInv'
<1>1. m_clients \in Seq(Fds) /\ IsInjective(m_clients) /\ fd \notin ToSet(m_clients)
  BY DEF WsInv, ListInv, addClient
<1>2. /\ m_clients' = Append(m_clients, fd) /\ client' = client /\ scan = 0 /\ scan' = scan
      /\ wire' = wire /\ arrived' = arrived /\ peer' = peer /\ sent' = sent /\ handed' = handed
  BY DEF addClient
<1>3. /\ m_clients' \in Seq(Fds) /\ IsInjective(m_clients')
      /\ ToSet(m_clients') = ToSet(m_clients) \cup {fd}
      /\ Len(m_clients') = Len(m_clients) + 1 /\ Len(m_clients) \in Nat
  BY <1>1, <1>2, AppendKeeps
<1>4. scan' \in 0..Len(m_clients')
  BY <1>2, <1>3
<1>5. \A g \in Fds \ ToSet(m_clients') : client'[g] = FreshClient
  BY <1>2, <1>3 DEF WsInv, ListInv
<1>6. ListInv'
  BY <1>3, <1>4, <1>5 DEF ListInv
<1>7. ClientsInv' /\ MessagesIntact'
  BY <1>2 DEF WsInv, ClientsInv, MessagesIntact
<1> QED BY <1>6, <1>7 DEF WsInv

\* A send to a client fails, and its connection is closed.
LEMMA SendFailsStep ==
    ASSUME WsInv, NEW fd \in Fds, SendFails(fd)
    PROVE  WsInv'
<1>1. /\ scan = 0 /\ scan' = 0 /\ fd \in ToSet(m_clients) /\ Forget(fd) /\ handed' = handed
  BY DEF SendFails
<1>2. 0 <= Len(m_clients) - 1
  <2>1. m_clients \in Seq(Fds)
    BY DEF WsInv, ListInv
  <2>2. Len(m_clients) \in Nat /\ DOMAIN m_clients = 1..Len(m_clients)
    BY <2>1, LenProperties
  <2>3. \E i \in 1..Len(m_clients) : m_clients[i] = fd
    BY <1>1, <2>2 DEF ToSet
  <2> QED BY <2>2, <2>3
<1>3. 0 \in Nat
  OBVIOUS
<1> QED BY <1>1, <1>2, <1>3, ForgetStep

LEMMA EnvironmentStep ==
    ASSUME WsInv, WsEnvironment
    PROVE  WsInv'
<1>1. PICK fd \in Fds :
        \/ addClient(fd) \/ SendFails(fd) \/ ByteArrives(fd)
        \/ \E fin \in BOOLEAN, n \in IF kind[fd] = "rich" THEN Lengths ELSE {0} :
              PeerSends(fd, fin, n)
        \/ PeerPings(fd) \/ PeerCloses(fd) \/ PeerMisbehaves(fd) \/ PeerLeaves(fd)
  BY DEF WsEnvironment
<1>2. CASE \E fin \in BOOLEAN, n \in IF kind[fd] = "rich" THEN Lengths ELSE {0} :
              PeerSends(fd, fin, n)
  <2>1. PICK fin \in BOOLEAN, n \in Nat : PeerSends(fd, fin, n)
    <3>1. (IF kind[fd] = "rich" THEN Lengths ELSE {0}) \subseteq Nat
      BY WsAssumption
    <3> QED BY <1>2, <3>1
  <2> QED BY <2>1, PeerSendsStep
<1>3. CASE addClient(fd) \/ SendFails(fd) \/ ByteArrives(fd)
  BY <1>3, AddClientStep, SendFailsStep, ByteArrivesStep
<1>4. CASE PeerPings(fd) \/ PeerCloses(fd) \/ PeerMisbehaves(fd) \/ PeerLeaves(fd)
  BY <1>4, PeerPingsStep, PeerClosesStep, PeerMisbehavesStep, PeerLeavesStep
<1> QED BY <1>1, <1>2, <1>3, <1>4

-----------------------------------------------------------------------------
(* recv_task.                                                                *)

TaskInv == WsInv /\ bufSize \in Nat /\ inbox \in Seq(UdpLengths)

\* The buffer a datagram is taken into is longer than the datagram.
LEMMA BufferGrows ==
    ASSUME bufSize \in Nat, NEW n \in Nat
    PROVE  Grown(n) \in Nat /\ n < Grown(n)
<1>1. PICK st \in Nat : st = Step /\ st >= 1
  BY ReceiveAssumption
<1> DEFINE K == {k \in 0..(n + 1) : n < bufSize + st * k}
<1>2. K \in SUBSET Nat /\ n + 1 \in K
  <2>1. st * (n + 1) >= n + 1
    <3>1. PICK d \in Nat : st = d + 1
      <4>1. st - 1 \in Nat /\ st = (st - 1) + 1
        BY <1>1
      <4> QED BY <4>1
    <3>2. PICK y \in Nat : y = d * (n + 1)
      OBVIOUS
    <3>3. st * (n + 1) = y + (n + 1)
      BY <3>1, <3>2
    <3> QED BY <3>2, <3>3
  <2>2. st * (n + 1) \in Nat
    OBVIOUS
  <2> QED BY <2>1, <2>2
<1>3. PICK k \in K : \A j \in K : k <= j
  BY <1>2, LeastElement
<1>4. k \in 0..(n + 1) /\ n < bufSize + st * k
  OBVIOUS
<1>5. k = 0 \/ ~(n < bufSize + st * k - st)
  <2>1. SUFFICES ASSUME k # 0, n < bufSize + st * k - st PROVE FALSE
    OBVIOUS
  <2>2. PICK j \in 0..(n + 1) : j = k - 1
    BY <1>4, <2>1
  <2>3. st * j = st * k - st
    BY <1>4, <2>2
  <2>4. bufSize + st * j = bufSize + st * k - st
    <3>1. st * k \in Nat
      BY <1>4
    <3>2. PICK z \in Nat : z = st * k
      BY <3>1
    <3> QED BY <2>3, <3>2
  <2>5. j \in K
    BY <2>1, <2>4
  <2> QED BY <1>3, <1>4, <2>2, <2>5
<1> DEFINE P(size) == Fits(n, size) /\ (size = bufSize \/ ~Fits(n, size - Step))
           S == {bufSize + Step * i : i \in 0..(n + 1)}
<1>6. \E size \in S : P(size)
  <2>1. PICK size : size = bufSize + st * k
    OBVIOUS
  <2>2. size \in S
    BY <1>1, <1>4, <2>1
  <2>3. Fits(n, size)
    BY <1>4, <2>1 DEF Fits
  <2>4. size = bufSize \/ ~Fits(n, size - Step)
    <3>1. CASE k = 0
      BY <2>1, <3>1
    <3>2. CASE ~(n < bufSize + st * k - st)
      BY <1>1, <2>1, <3>2 DEF Fits
    <3> QED BY <1>5, <3>1, <3>2
  <2> QED BY <2>2, <2>3, <2>4
<1>7. Grown(n) = CHOOSE size \in S : P(size)
  BY DEF Grown
<1>8. Grown(n) \in S /\ P(Grown(n))
  BY <1>6, <1>7, Zenon
<1>9. \A size \in S : size \in Nat
  <2>1. \A i \in 0..(n + 1) : st * i \in Nat
    OBVIOUS
  <2>2. \A i \in 0..(n + 1) : bufSize + st * i \in Nat
    BY <2>1
  <2> QED BY <1>1, <2>2
<1>10. n < Grown(n)
  BY <1>8 DEF Fits
<1> QED BY <1>8, <1>9, <1>10

\* Nothing is handed over between the turns.
LEMMA NothingIntact ==
    Nothing.payload = [i \in 1..(Nothing.to - Nothing.from) |-> Nothing.from + i]
<1>1. Nothing.payload = <<>> /\ Nothing.from = 0 /\ Nothing.to = 0
  BY DEF Nothing
<1>2. PICK f : f = [i \in 1..(0 - 0) |-> 0 + i]
  OBVIOUS
<1>3. f = <<>>
  <2>1. f \in [1..0 -> Nat]
    BY <1>2
  <2>2. f \in Seq(Nat) /\ Len(f) = 0
    <3>1. 0 \in Nat
      OBVIOUS
    <3> QED BY <2>1, <3>1, FunctionIsSeq
  <2> QED BY <2>2
<1> QED BY <1>1, <1>2, <1>3

LEMMA TaskInit ==
    ASSUME Init
    PROVE  TaskInv
<1>1. m_clients = <<>> /\ scan = 0 /\ handed = Nothing
  BY DEF Init, WsInit
<1>2. ListInv
  <2>1. /\ m_clients \in Seq(Fds) /\ Len(m_clients) = 0 /\ DOMAIN m_clients = {}
        /\ ToSet(m_clients) = {}
    BY <1>1 DEF ToSet
  <2>2. IsInjective(m_clients)
    BY <2>1 DEF IsInjective
  <2>3. client = [fd \in Fds |-> FreshClient]
    BY DEF Init, WsInit
  <2> QED BY <1>1, <2>1, <2>2, <2>3 DEF ListInv
<1>3. ClientsInv
  <2>1. /\ client = [fd \in Fds |-> FreshClient] /\ wire = [fd \in Fds |-> <<>>]
        /\ arrived = [fd \in Fds |-> 0] /\ peer = [fd \in Fds |-> IdlePeer]
        /\ sent = [fd \in Fds |-> <<>>]
    BY DEF Init, WsInit
  <2>2. /\ FreshClient \in Clients /\ <<>> \in Seq(Byte8) /\ 0 \in Nat /\ IdlePeer \in Peers
        /\ <<>> \in Messages
    BY ClientOkFresh DEF ClientOk
  <2>3. /\ client \in [Fds -> Clients] /\ wire \in [Fds -> Seq(Byte8)] /\ arrived \in [Fds -> Nat]
        /\ peer \in [Fds -> Peers] /\ sent \in [Fds -> Messages]
    BY <2>1, <2>2
  <2>4. \A fd \in Fds : ClientOk(client[fd], wire[fd], arrived[fd], peer[fd], sent[fd])
    BY <2>1, ClientOkFresh
  <2> QED BY <2>3, <2>4 DEF ClientsInv
<1>4. MessagesIntact
  BY <1>1, NothingIntact DEF MessagesIntact
<1>5. bufSize \in Nat /\ inbox \in Seq(UdpLengths)
  BY ReceiveAssumption DEF Init
<1> QED BY <1>2, <1>3, <1>4, <1>5 DEF TaskInv, WsInv

\* A datagram is handed over as a whole, or nothing is.
LEMMA UdpStep ==
    ASSUME TaskInv, UdpIter
    PROVE  TaskInv'
<1>1. /\ m_clients' = m_clients /\ client' = client /\ scan' = scan /\ wire' = wire
      /\ arrived' = arrived /\ peer' = peer /\ sent' = sent
  BY DEF UdpIter
<1>2. ListInv' /\ ClientsInv'
  <2>1. scan' \in 0..Len(m_clients)
    BY <1>1 DEF TaskInv, WsInv, ListInv
  <2> QED BY <1>1, <2>1, ClientsStay DEF TaskInv, WsInv
<1>3. CASE inbox = <<>>
  <2>1. handed' = Nothing /\ inbox' = inbox /\ bufSize' = bufSize
    BY <1>3 DEF UdpIter
  <2>2. MessagesIntact'
    BY <2>1, NothingIntact DEF MessagesIntact
  <2> QED BY <1>2, <2>1, <2>2 DEF TaskInv, WsInv
<1>4. CASE inbox # <<>>
  <2>1. PICK n : n = Head(inbox)
    OBVIOUS
  <2>2. /\ bufSize' = Grown(n) /\ inbox' = Tail(inbox)
        /\ handed' = [payload |-> [i \in 1..(IF n < bufSize' THEN n ELSE bufSize') |-> i],
                      from |-> 0, to |-> n, by |-> "udp"]
    BY <1>4, <2>1 DEF UdpIter
  <2>3. n \in Nat /\ Tail(inbox) \in Seq(UdpLengths)
    <3>1. inbox \in Seq(UdpLengths)
      BY DEF TaskInv
    <3>2. Head(inbox) \in UdpLengths /\ Tail(inbox) \in Seq(UdpLengths)
      BY <1>4, <3>1, HeadTailProperties
    <3> QED BY <2>1, <3>2, ReceiveAssumption
  <2>4. bufSize' \in Nat /\ n < bufSize'
    BY <2>2, <2>3, BufferGrows DEF TaskInv
  <2>5. /\ handed'.payload = [i \in 1..n |-> i] /\ handed'.from = 0 /\ handed'.to = n
    BY <2>2, <2>4
  <2>6. [i \in 1..n |-> i] = [i \in 1..(n - 0) |-> 0 + i]
    BY <2>3
  <2>7. MessagesIntact'
    BY <2>5, <2>6, Zenon DEF MessagesIntact
  <2> QED BY <1>2, <2>2, <2>3, <2>4, <2>7 DEF TaskInv, WsInv
<1> QED BY <1>3, <1>4

LEMMA TaskStep ==
    ASSUME TaskInv, [Next]_vars
    PROVE  TaskInv'
<1>1. CASE UdpIter
  BY <1>1, UdpStep
<1>2. CASE WsBegin
  <2>1. inbox' = inbox /\ bufSize' = bufSize
    BY <1>2 DEF WsBegin
  <2>2. /\ m_clients' = m_clients /\ client' = client /\ wire' = wire /\ arrived' = arrived
        /\ peer' = peer /\ sent' = sent /\ handed' = Nothing
    BY <1>2 DEF WsBegin, RecvIter
  <2>3. scan' \in 0..Len(m_clients)
    <3>1. m_clients \in Seq(Fds) /\ scan \in 0..Len(m_clients)
      BY DEF TaskInv, WsInv, ListInv
    <3>2. CASE m_clients = <<>>
      BY <1>2, <3>1, <3>2 DEF WsBegin
    <3>3. CASE m_clients # <<>>
      <4>1. scan' = 1
        BY <1>2, <3>3 DEF WsBegin, RecvIter
      <4>2. Len(m_clients) \in Nat /\ Len(m_clients) # 0
        BY <3>1, <3>3, LenProperties, EmptySeq
      <4> QED BY <4>1, <4>2
    <3> QED BY <3>2, <3>3
  <2>4. ListInv' /\ ClientsInv'
    BY <2>2, <2>3, ClientsStay DEF TaskInv, WsInv
  <2>5. MessagesIntact'
    BY <2>2, NothingIntact DEF MessagesIntact
  <2> QED BY <2>1, <2>4, <2>5 DEF TaskInv, WsInv
<1>3. CASE WsDecode
  <2>1. Decode /\ inbox' = inbox /\ bufSize' = bufSize
    BY <1>3 DEF WsDecode
  <2>2. WsInv'
    BY <2>1, ReadInitialStep, ReadLen1Step, ReadMaskStep, ReadDataStep DEF Decode, TaskInv
  <2> QED BY <2>1, <2>2 DEF TaskInv
<1>4. CASE DatagramArrives
  <2>1. PICK n \in UdpLengths : inbox' = Append(inbox, n)
    BY <1>4 DEF DatagramArrives
  <2>2. inbox' \in Seq(UdpLengths)
    BY <2>1, AppendProperties DEF TaskInv
  <2>3. /\ m_clients' = m_clients /\ client' = client /\ scan' = scan /\ wire' = wire
        /\ arrived' = arrived /\ peer' = peer /\ sent' = sent /\ handed' = handed
        /\ bufSize' = bufSize
    BY <1>4 DEF DatagramArrives, wsVars
  <2>4. WsInv'
    BY <2>3 DEF TaskInv, WsInv, ListInv, ClientsInv, MessagesIntact
  <2> QED BY <2>2, <2>3, <2>4 DEF TaskInv
<1>5. CASE WsEnvironment /\ Elsewhere
  <2>1. WsInv'
    BY <1>5, EnvironmentStep DEF TaskInv
  <2> QED BY <1>5, <2>1 DEF TaskInv, Elsewhere
<1>6. CASE UNCHANGED vars
  <2>1. /\ m_clients' = m_clients /\ client' = client /\ scan' = scan /\ wire' = wire
        /\ arrived' = arrived /\ peer' = peer /\ sent' = sent /\ handed' = handed
        /\ bufSize' = bufSize /\ inbox' = inbox
    BY <1>6 DEF vars, wsVars
  <2> QED BY <2>1 DEF TaskInv, WsInv, ListInv, ClientsInv, MessagesIntact
<1> QED BY <1>1, <1>2, <1>3, <1>4, <1>5, <1>6 DEF Next, RecvTask

\* The streams and their decoders agree, always.
LEMMA TaskInvariant == Spec => []TaskInv
<1>1. Init => TaskInv
  BY TaskInit
<1>2. TaskInv /\ [Next]_vars => TaskInv'
  BY TaskStep
<1> QED BY <1>1, <1>2, PTL DEF Spec

\* For any clients, lengths and limits, and any whole number of keys in a chunk: what the
\* decoder expects of a payload lies inside the buffer it resized, no buffer grows past the
\* limit, a client is listed once and a closed one has no decoder (rbprotocolws.cpp 58-78,
\* 108-124, 177-213).
THEOREM DecodersStaySound == Spec => []DecodersSound
<1>1. TaskInv => DecodersSound
  <2>1. SUFFICES ASSUME TaskInv PROVE DecodersSound
    OBVIOUS
  <2>2. /\ m_clients \in Seq(Fds) /\ IsInjective(m_clients)
        /\ client \in [Fds -> Clients]
        /\ \A fd \in Fds \ ToSet(m_clients) : client[fd] = FreshClient
        /\ \A fd \in Fds : ClientOk(client[fd], wire[fd], arrived[fd], peer[fd], sent[fd])
    BY <2>1 DEF TaskInv, WsInv, ListInv, ClientsInv
  <2>3. ToSet(m_clients) \subseteq Fds
    <3>1. DOMAIN m_clients = 1..Len(m_clients) /\ \A i \in 1..Len(m_clients) : m_clients[i] \in Fds
      BY <2>2, ElementOfSeq, LenProperties
    <3> QED BY <3>1 DEF ToSet
  <2>4. \A fd \in Fds : Decoder(client[fd])
    BY <2>2 DEF ClientOk
  <2> QED BY <2>2, <2>3, <2>4 DEF DecodersSound, Decoder
<1> QED BY <1>1, TaskInvariant, PTL

\* However the bytes of a frame arrive, whatever fragments and control frames the peers
\* send and whichever connections break meanwhile: what recv_task hands to the parser is
\* one message of its sender, whole, in order and unmasked with the right bytes of the key
\* (rbprotocolws.cpp 150-213, rbprotocoludp.cpp 83-110).
THEOREM MessagesStayIntact == Spec => []MessagesIntact
<1>1. TaskInv => MessagesIntact
  BY DEF TaskInv, WsInv
<1> QED BY <1>1, TaskInvariant, PTL

=============================================================================
