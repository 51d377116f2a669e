--------------------------- MODULE JsonObjectProofs ---------------------------
(***************************************************************************)
(* Theorems about JSON objects, for every set of keys and values, every    *)
(* length of names and every text that is parsed.                          *)
(***************************************************************************)
EXTENDS JsonObject, SequenceTheorems, FiniteSetTheorems, WellFoundedInduction, TLAPS

-----------------------------------------------------------------------------
(* Naturals and recursive functions.                                         *)

\* Naturals have a least element: by well-foundedness, in place of an induction.
LEMMA LeastElement ==
    ASSUME NEW T \in SUBSET Nat, T # {}
    PROVE  \E x \in T : \A y \in T : x <= y
<1> DEFINE R == {ss \in Nat \X Nat : ss[1] < ss[2]}
<1>1. R = OpToRel(<, Nat)
  BY DEF OpToRel
<1>2. IsWellFoundedOn(R, Nat)
  BY <1>1, NatLessThanWellFounded, Zenon
<1> HIDE DEF R
<1>3. PICK x \in T : \A y \in T : ~ (<<y, x>> \in R)
  BY <1>2, WFMin
<1>4. ASSUME NEW y \in T PROVE x <= y
  <2>1. <<y, x>> \in Nat \X Nat /\ <<y, x>> \notin R
    BY <1>3
  <2>2. ~(y < x)
    BY <2>1 DEF R
  <2> QED BY <2>2
<1> QED BY <1>3, <1>4

\* A set that has 0 and the successor of each of its elements below N has all up to N.
LEMMA UpTo ==
    ASSUME NEW N \in Nat, NEW A, 0 \in A, \A n \in 1..N : n - 1 \in A => n \in A
    PROVE  \A n \in 0..N : n \in A
<1> DEFINE T == (0..N) \ A
<1>1. SUFFICES ASSUME T # {} PROVE FALSE
  OBVIOUS
<1>2. T \in SUBSET Nat
  OBVIOUS
<1> HIDE DEF T
<1>3. PICK x \in T : \A y \in T : x <= y
  BY <1>1, <1>2, LeastElement
<1>4. x \in 1..N /\ x - 1 \in 0..N /\ x - 1 \notin T
  BY <1>3 DEF T
<1> QED BY <1>4 DEF T

\* f is the recursion over 0..N that begins with base and takes each step by F.
Solves(f, N, base, F) == f[0] = base /\ \A n \in 1..N : f[n] = F[<<n, f[n - 1]>>]

\* What holds of the base and is kept by each step holds of every solution.
LEMMA SolutionsKeep ==
    ASSUME NEW N \in Nat, NEW S, NEW base \in S[0], NEW F,
           \A n \in 1..N : \A x \in S[n - 1] : F[<<n, x>>] \in S[n],
           NEW f, Solves(f, N, base, F)
    PROVE  \A n \in 0..N : f[n] \in S[n]
<1> DEFINE A == {n \in 0..N : f[n] \in S[n]}
<1>1. 0 \in A
  BY DEF Solves
<1>2. ASSUME NEW n \in 1..N, n - 1 \in A PROVE n \in A
  <2>1. f[n - 1] \in S[n - 1] /\ f[n] = F[<<n, f[n - 1]>>] /\ n \in 0..N
    BY <1>2 DEF Solves
  <2> QED BY <2>1
<1> HIDE DEF A
<1>3. \A n \in 0..N : n \in A
  BY <1>1, <1>2, UpTo
<1> QED BY <1>3 DEF A

\* A recursion has a solution.
LEMMA Recursion ==
    ASSUME NEW N \in Nat, NEW base, NEW F
    PROVE  \E f : f = [n \in 0..N |-> f[n]] /\ Solves(f, N, base, F)
<1> DEFINE A == {m \in 0..N : \E f : f = [n \in 0..m |-> f[n]] /\ Solves(f, m, base, F)}
<1>1. 0 \in A
  <2> DEFINE g == [n \in 0..0 |-> base]
  <2>1. g = [n \in 0..0 |-> g[n]] /\ g[0] = base
    OBVIOUS
  <2> HIDE DEF g
  <2>2. Solves(g, 0, base, F)
    BY <2>1 DEF Solves
  <2> QED BY <2>1, <2>2
<1>2. ASSUME NEW m \in 1..N, m - 1 \in A PROVE m \in A
  <2>1. PICK f : Solves(f, m - 1, base, F)
    BY <1>2
  <2> DEFINE g == [n \in 0..m |-> IF n = m THEN F[<<m, f[m - 1]>>] ELSE f[n]]
  <2>2. g = [n \in 0..m |-> g[n]]
    OBVIOUS
  <2>3. \A n \in 0..(m - 1) : g[n] = f[n]
    OBVIOUS
  <2>4. g[m] = F[<<m, g[m - 1]>>]
    <3>1. m \in 0..m /\ m - 1 \in 0..(m - 1)
      OBVIOUS
    <3>2. g[m - 1] = f[m - 1]
      BY <3>1, <2>3
    <3>3. g[m] = F[<<m, f[m - 1]>>]
      BY <3>1
    <3> QED BY <3>2, <3>3
  <2> HIDE DEF g
  <2>5. Solves(g, m, base, F)
    <3>1. g[0] = base
      BY <2>1, <2>3 DEF Solves
    <3>2. ASSUME NEW n \in 1..m PROVE g[n] = F[<<n, g[n - 1]>>]
      <4>1. CASE n = m
        BY <4>1, <2>4
      <4>2. CASE n # m
        <5>1. n \in 1..(m - 1) /\ n \in 0..(m - 1) /\ n - 1 \in 0..(m - 1)
          BY <4>2
        <5> QED BY <5>1, <2>1, <2>3 DEF Solves
      <4> QED BY <4>1, <4>2
    <3> QED BY <3>1, <3>2 DEF Solves
  <2>6. m \in 0..N
    BY <1>2
  <2> QED BY <2>2, <2>5, <2>6
<1> HIDE DEF A
<1>3. N \in A
  BY <1>1, <1>2, UpTo
<1> QED BY <1>3 DEF A

\* A recursion whose steps stay in a set has a solution in it.
LEMMA RecursionIn ==
    ASSUME NEW N \in Nat, NEW P, NEW base \in P, NEW F,
           \A n \in 1..N : \A x \in P : F[<<n, x>>] \in P
    PROVE  \E f \in [0..N -> P] : Solves(f, N, base, F)
<1>1. PICK f : f = [n \in 0..N |-> f[n]] /\ Solves(f, N, base, F)
  BY Recursion
<1> DEFINE A == {n \in 0..N : f[n] \in P}
<1>2. 0 \in A
  BY <1>1 DEF Solves
<1>3. ASSUME NEW n \in 1..N, n - 1 \in A PROVE n \in A
  <2>1. f[n - 1] \in P /\ f[n] = F[<<n, f[n - 1]>>] /\ n \in 0..N
    BY <1>1, <1>3 DEF Solves
  <2> QED BY <2>1
<1> HIDE DEF A
<1>4. \A n \in 0..N : n \in A
  BY <1>2, <1>3, UpTo
<1>5. f \in [0..N -> P]
  BY <1>1, <1>4 DEF A
<1> QED BY <1>1, <1>5

-----------------------------------------------------------------------------
(* The order of names.                                                       *)

\* a and b agree up to n, and there a ends or has the smaller character
Before(a, b, n) ==
    /\ n \in Nat /\ n <= Len(a) /\ n < Len(b)
    /\ \A i \in 1..n : a[i] = b[i]
    /\ n = Len(a) \/ a[n + 1] < b[n + 1]

\* A string is the characters it has.
LEMMA StringType ==
    ASSUME NEW a \in Strings
    PROVE  Len(a) \in Nat /\ DOMAIN a = 1..Len(a) /\ \A i \in 1..Len(a) : a[i] \in Nat \ {0}
BY DEF Strings

\* Prefixes are compared character by character.
LEMMA SamePrefix ==
    ASSUME NEW a \in Strings, NEW b \in Strings, NEW n \in Nat, n <= Len(a), n <= Len(b)
    PROVE  SubSeq(a, 1, n) = SubSeq(b, 1, n) <=> \A i \in 1..n : a[i] = b[i]
<1> DEFINE p == SubSeq(a, 1, n)
           q == SubSeq(b, 1, n)
<1>1. \A i \in 1..n : a[i] \in Nat /\ b[i] \in Nat
  BY StringType
<1>2. p \in Seq(Nat) /\ Len(p) = n /\ \A i \in 1..n : p[i] = a[i]
  <2>1. 1 \in Int /\ n \in Int
    OBVIOUS
  <2>2. /\ p \in Seq(Nat) /\ Len(p) = IF 1 <= n THEN n - 1 + 1 ELSE 0
        /\ \A i \in 1..(n - 1 + 1) : p[i] = a[1 + i - 1]
    BY <1>1, <2>1, SubSeqProperties
  <2> QED BY <2>2
<1>3. q \in Seq(Nat) /\ Len(q) = n /\ \A i \in 1..n : q[i] = b[i]
  <2>1. 1 \in Int /\ n \in Int
    OBVIOUS
  <2>2. /\ q \in Seq(Nat) /\ Len(q) = IF 1 <= n THEN n - 1 + 1 ELSE 0
        /\ \A i \in 1..(n - 1 + 1) : q[i] = b[1 + i - 1]
    BY <1>1, <2>1, SubSeqProperties
  <2> QED BY <2>2
<1> HIDE DEF p, q
<1>4. (\A i \in 1..n : p[i] = q[i]) => p = q
  BY <1>2, <1>3, SeqEqual
<1>5. p = q <=> \A i \in 1..n : a[i] = b[i]
  BY <1>2, <1>3, <1>4
<1> QED BY <1>5 DEF p, q

\* strcmp finds the first character in which the two differ.
LEMMA LessIsBefore ==
    ASSUME NEW a \in Strings, NEW b \in Strings
    PROVE  Less(a, b) <=> \E n \in Nat : Before(a, b, n)
<1>1. Len(a) \in Nat /\ Len(b) \in Nat
  BY StringType
<1>2. ASSUME NEW n \in Nat, n <= Len(a), n <= Len(b)
      PROVE  SubSeq(a, 1, n) = SubSeq(b, 1, n) <=> \A i \in 1..n : a[i] = b[i]
  BY <1>2, SamePrefix
<1> QED BY <1>1, <1>2 DEF Less, Before

\* No string is less than itself (strcmp).
LEMMA NotLessThanItself ==
    ASSUME NEW a \in Strings
    PROVE  ~Less(a, a)
<1> SUFFICES ASSUME NEW n \in Nat, Before(a, a, n) PROVE FALSE
  BY LessIsBefore
<1>1. n < Len(a) /\ a[n + 1] \in Nat /\ a[n + 1] < a[n + 1]
  BY StringType DEF Before
<1> QED BY <1>1

\* The order of strcmp is transitive.
LEMMA LessIsTransitive ==
    ASSUME NEW a \in Strings, NEW b \in Strings, NEW c \in Strings, Less(a, b), Less(b, c)
    PROVE  Less(a, c)
<1>1. PICK m \in Nat : Before(a, b, m)
  BY LessIsBefore
<1>2. PICK n \in Nat : Before(b, c, n)
  BY LessIsBefore
<1>3. /\ Len(a) \in Nat /\ \A i \in 1..Len(a) : a[i] \in Nat
      /\ Len(b) \in Nat /\ \A i \in 1..Len(b) : b[i] \in Nat
      /\ Len(c) \in Nat /\ \A i \in 1..Len(c) : c[i] \in Nat
  BY StringType
<1>4. CASE m < n
  <2>1. m + 1 \in 1..n /\ b[m + 1] = c[m + 1]
    BY <1>2, <1>4 DEF Before
  <2>2. Before(a, c, m)
    BY <1>1, <1>2, <1>3, <1>4, <2>1 DEF Before
  <2> QED BY <2>2, LessIsBefore
<1>5. CASE n < m
  <2>1. n + 1 \in 1..m /\ a[n + 1] = b[n + 1] /\ n # Len(b)
    BY <1>1, <1>3, <1>5 DEF Before
  <2>2. Before(a, c, n)
    BY <1>1, <1>2, <1>3, <1>5, <2>1 DEF Before
  <2> QED BY <2>2, LessIsBefore
<1>6. CASE n = m
  <2>1. n # Len(b) /\ b[n + 1] < c[n + 1] /\ n + 1 \in 1..Len(b) /\ n + 1 \in 1..Len(c)
    BY <1>1, <1>2, <1>3, <1>6 DEF Before
  <2>2. n = Len(a) \/ (n + 1 \in 1..Len(a) /\ a[n + 1] < b[n + 1])
    BY <1>1, <1>3, <1>6 DEF Before
  <2>3. Before(a, c, n)
    BY <1>1, <1>2, <1>3, <1>6, <2>1, <2>2 DEF Before
  <2> QED BY <2>3, LessIsBefore
<1> QED BY <1>4, <1>5, <1>6

\* Two names are the same, or one of them is less: at the first place where they differ.
LEMMA LessIsTotal ==
    ASSUME NEW a \in Strings, NEW b \in Strings, a # b
    PROVE  Less(a, b) \/ Less(b, a)
<1> DEFINE Differ == {d \in Nat : \/ d = Len(a) \/ d = Len(b)
                                  \/ (d < Len(a) /\ d < Len(b) /\ a[d + 1] # b[d + 1])}
<1>1. /\ Len(a) \in Nat /\ \A i \in 1..Len(a) : a[i] \in Nat
      /\ Len(b) \in Nat /\ \A i \in 1..Len(b) : b[i] \in Nat
  BY StringType
<1>2. Differ \in SUBSET Nat /\ Differ # {}
  BY <1>1
<1>3. PICK d \in Differ : \A e \in Differ : d <= e
  <2> HIDE DEF Differ
  <2> QED BY <1>2, LeastElement
<1>4. d \in Nat /\ d <= Len(a) /\ d <= Len(b)
  BY <1>1, <1>3
<1>5. ASSUME NEW i \in 1..d PROVE a[i] = b[i]
  <2>1. i - 1 \notin Differ /\ i - 1 \in Nat /\ i - 1 < Len(a) /\ i - 1 < Len(b) /\ i - 1 + 1 = i
    BY <1>3, <1>4, <1>1
  <2> QED BY <2>1
<1>6. ~(d = Len(a) /\ d = Len(b))
  BY <1>1, <1>4, <1>5, SeqEqual DEF Strings
<1>7. CASE d = Len(a)
  BY <1>1, <1>4, <1>5, <1>6, <1>7, LessIsBefore DEF Before
<1>8. CASE d = Len(b)
  BY <1>1, <1>4, <1>5, <1>6, <1>8, LessIsBefore DEF Before
<1>9. CASE d < Len(a) /\ d < Len(b) /\ a[d + 1] # b[d + 1]
  <2>1. a[d + 1] < b[d + 1] \/ b[d + 1] < a[d + 1]
    BY <1>1, <1>4, <1>9
  <2> QED BY <1>1, <1>4, <1>5, <1>9, <2>1, LessIsBefore DEF Before
<1> QED BY <1>3, <1>7, <1>8, <1>9

\* The first characters of a string.
LEMMA FirstType ==
    ASSUME NEW a \in Strings, NEW n \in Nat
    PROVE  /\ First(a, n) \in Strings
           /\ Len(First(a, n)) = IF Len(a) < n THEN Len(a) ELSE n
           /\ \A i \in 1..Len(First(a, n)) : First(a, n)[i] = a[i]
<1> DEFINE m == IF Len(a) < n THEN Len(a) ELSE n
<1>1. m \in Nat /\ m <= Len(a) /\ \A i \in 1..m : a[i] \in Nat \ {0}
  BY StringType
<1>2. /\ SubSeq(a, 1, m) \in Seq(Nat \ {0})
      /\ Len(SubSeq(a, 1, m)) = IF 1 <= m THEN m - 1 + 1 ELSE 0
      /\ \A i \in 1..(m - 1 + 1) : SubSeq(a, 1, m)[i] = a[1 + i - 1]
  <2>1. 1 \in Int /\ m \in Int
    BY <1>1
  <2> HIDE DEF m
  <2> QED BY <1>1, <2>1, SubSeqProperties
<1>3. First(a, n) = SubSeq(a, 1, m)
  BY DEF First
<1> HIDE DEF m
<1>4. Len(SubSeq(a, 1, m)) = m /\ \A i \in 1..m : SubSeq(a, 1, m)[i] = a[i]
  BY <1>1, <1>2
<1> QED BY <1>2, <1>3, <1>4 DEF m, Strings

\* strncmp over the length of the other string says the same as strcmp.
LEMMA CutComparison ==
    ASSUME NEW a \in Strings, NEW b \in Strings
    PROVE  Less(First(a, Len(b)), b) <=> Less(a, b)
<1> DEFINE c == First(a, Len(b))
<1>1. Len(a) \in Nat /\ Len(b) \in Nat
  BY StringType
<1>2. /\ c \in Strings /\ Len(c) = (IF Len(a) < Len(b) THEN Len(a) ELSE Len(b))
      /\ \A i \in 1..Len(c) : c[i] = a[i]
  BY <1>1, FirstType
<1> HIDE DEF c
<1>3. ASSUME NEW n \in Nat PROVE Before(c, b, n) <=> Before(a, b, n)
  <2>1. CASE n < Len(b) /\ n <= Len(a)
    <3>1. n <= Len(c) /\ (n = Len(c) <=> n = Len(a)) /\ \A i \in 1..n : c[i] = a[i]
      BY <1>1, <1>2, <2>1
    <3>2. n # Len(c) => c[n + 1] = a[n + 1]
      <4> SUFFICES ASSUME n # Len(c) PROVE c[n + 1] = a[n + 1]
        OBVIOUS
      <4>1. Len(c) \in Nat
        BY <1>1, <1>2
      <4>2. n + 1 \in 1..Len(c)
        BY <3>1, <4>1
      <4> QED BY <1>2, <4>2
    <3> QED BY <2>1, <3>1, <3>2 DEF Before
  <2>2. CASE ~(n < Len(b) /\ n <= Len(a))
    BY <1>1, <1>2, <2>2 DEF Before
  <2> QED BY <2>1, <2>2
<1>4. Less(c, b) <=> Less(a, b)
  BY <1>2, <1>3, LessIsBefore
<1> QED BY <1>4 DEF c

\* The search compares names as strcmp does, cut off or not.
LEMMA KeyComparison ==
    ASSUME NEW member, member.name \in Strings, NEW key \in Strings
    PROVE  Name(key) \in Strings /\ (keyLess(member, key) <=> Less(member.name, Name(key)))
<1>1. Name(key) \in Strings
  BY FirstType, KeyLimitAssumption DEF Name
<1> QED BY <1>1, CutComparison DEF keyLess

-----------------------------------------------------------------------------
(* Sorted members.                                                           *)

Sorted(members) ==
    \A i, j \in DOMAIN members : i < j => Less(members[i].name, members[j].name)

\* the members before at are less than the key, the others are not
Splits(members, key, at) ==
    /\ at \in 1..(Len(members) + 1)
    /\ \A i \in DOMAIN members : keyLess(members[i], key) <=> i < at

\* A member is its name and its value.
LEMMA MemberType ==
    ASSUME NEW V, NEW members \in MembersOf(V)
    PROVE  /\ Len(members) \in Nat /\ DOMAIN members = 1..Len(members)
           /\ \A i \in 1..Len(members) :
                 /\ members[i] \in [name : Strings, value : V]
                 /\ members[i].name \in Strings /\ members[i].value \in V
                 /\ members[i] = [name |-> members[i].name, value |-> members[i].value]
<1>1. Len(members) \in Nat /\ DOMAIN members = 1..Len(members)
  BY DEF MembersOf
<1> DEFINE M == [name : Strings, value : V]
<1>2. ASSUME NEW i \in 1..Len(members) PROVE members[i] \in M
  <2>1. members \in Seq(M)
    BY DEF MembersOf
  <2> HIDE DEF M
  <2> QED BY <2>1, ElementOfSeq
<1> QED BY <1>1, <1>2

\* Sorted members are split somewhere by every key.
LEMMA SortedSplits ==
    ASSUME NEW V, NEW members \in MembersOf(V), Sorted(members), NEW key \in Strings
    PROVE  \E at : Splits(members, key, at)
<1> DEFINE L == Len(members)
           Rest == {i \in 1..L : ~keyLess(members[i], key)} \cup {L + 1}
<1>1. L \in Nat /\ DOMAIN members = 1..L /\ \A i \in 1..L : members[i].name \in Strings
  BY MemberType
<1>2. Rest \in SUBSET Nat /\ Rest # {}
  BY <1>1
<1>3. PICK at \in Rest : \A i \in Rest : at <= i
  <2> HIDE DEF Rest
  <2> QED BY <1>2, LeastElement
<1>4. at \in 1..(L + 1) /\ \A i \in 1..L : i < at => keyLess(members[i], key)
  BY <1>1, <1>3
<1>5. ASSUME NEW i \in 1..L, keyLess(members[i], key), at <= i PROVE FALSE
  <2>1. at \in 1..L /\ ~keyLess(members[at], key) /\ at # i
    BY <1>1, <1>3, <1>4, <1>5
  <2>2. at < i
    BY <2>1, <1>5
  <2>3. Less(members[at].name, members[i].name)
    BY <1>1, <2>1, <2>2 DEF Sorted
  <2>4. Name(key) \in Strings /\ Less(members[i].name, Name(key))
    BY <1>1, <1>5, KeyComparison
  <2>5. Less(members[at].name, Name(key))
    BY <1>1, <2>1, <2>3, <2>4, LessIsTransitive
  <2> QED BY <1>1, <2>1, <2>5, KeyComparison
<1>6. \A i \in 1..L : keyLess(members[i], key) <=> i < at
  <2>1. \A i \in 1..L : i \in Int /\ at \in Int
    BY <1>4
  <2>2. \A i \in 1..L : keyLess(members[i], key) => ~(at <= i)
    BY <1>5
  <2> QED BY <1>4, <2>1, <2>2
<1> QED BY <1>1, <1>4, <1>6 DEF Splits

\* The two halves of a range have places of their own.
LEMMA Halves ==
    ASSUME NEW L \in Nat, NEW first \in 1..(L + 1), NEW last \in 1..(L + 1), first < last
    PROVE  LET mid == first + (last - first) \div 2
           IN  /\ mid \in 1..L /\ first <= mid /\ mid < last
               /\ mid + 1 \in 1..(L + 1) /\ mid \in 1..(L + 1)
<1> DEFINE half == (last - first) \div 2
<1>1. last - first \in Nat /\ last - first >= 1
  OBVIOUS
<1>2. half \in Nat /\ half < last - first
  BY <1>1
<1> HIDE DEF half
<1>3. first + half \in 1..L /\ first <= first + half /\ first + half < last
  BY <1>2
<1> QED BY <1>3 DEF half

\* one step of the search
Halved(members, key, search, range) ==
    LET mid == range[1] + (range[2] - range[1]) \div 2
    IN  IF range[1] >= range[2] THEN range[1]
        ELSE IF keyLess(members[mid], key) THEN search[<<mid + 1, range[2]>>]
             ELSE search[<<range[1], mid>>]

\* search is what std::lower_bound computes over all ranges
Searches(members, key, search) ==
    search = [range \in (1..(Len(members) + 1)) \X (1..(Len(members) + 1)) |->
                 Halved(members, key, search, range)]

\* std::lower_bound is the recursion over ranges, begun with the whole vector.
LEMMA SearchIs ==
    ASSUME NEW members, NEW key
    PROVE  lower_bound(members, key)
               = (CHOOSE search : Searches(members, key, search))[<<1, Len(members) + 1>>]
BY DEF lower_bound, Searches, Halved

\* Where the split is inside a range, and the end of the range that is nearer otherwise.
Clamped(range, at) ==
    IF range[1] >= range[2] \/ at < range[1] THEN range[1]
    ELSE IF at > range[2] THEN range[2] ELSE at

\* The search ends at the split: that is a solution of the recursion, and the only one.
LEMMA SearchSplits ==
    ASSUME NEW V, NEW members \in MembersOf(V), Sorted(members), NEW key \in Strings
    PROVE  Splits(members, key, lower_bound(members, key))
<1> DEFINE L == Len(members)
           P == 1..(L + 1)
           Mid(r) == r[1] + (r[2] - r[1]) \div 2
<1>1. L \in Nat /\ DOMAIN members = 1..L
  BY MemberType
<1>2. PICK at : Splits(members, key, at)
  BY SortedSplits
<1>3. at \in P /\ \A i \in 1..L : keyLess(members[i], key) <=> i < at
  BY <1>1, <1>2 DEF Splits
<1>4. ASSUME NEW r \in P \X P, r[1] < r[2]
      PROVE  /\ r[1] \in P /\ r[2] \in P
             /\ Mid(r) \in 1..L /\ r[1] <= Mid(r) /\ Mid(r) < r[2]
             /\ Mid(r) + 1 \in P /\ Mid(r) \in P
  <2>1. r[1] \in P /\ r[2] \in P
    OBVIOUS
  <2> QED BY <1>1, <1>4, <2>1, Halves
<1>5. ASSUME NEW s, NEW r \in P \X P,
             \A q \in P \X P : q[2] - q[1] < r[2] - r[1] => s[q] = Clamped(q, at)
      PROVE  Halved(members, key, s, r) = Clamped(r, at)
  <2>0. r[1] \in P /\ r[2] \in P
    OBVIOUS
  <2>1. CASE r[1] >= r[2]
    BY <2>1 DEF Halved, Clamped
  <2>2. CASE r[1] < r[2]
    <3> DEFINE mid == Mid(r)
               right == <<mid + 1, r[2]>>
               left == <<r[1], mid>>
    <3>1. /\ mid \in 1..L /\ r[1] <= mid /\ mid < r[2] /\ mid + 1 \in P /\ mid \in P
      BY <1>4, <2>2
    <3>2. Halved(members, key, s, r) = IF keyLess(members[mid], key) THEN s[right] ELSE s[left]
      BY <1>1, <2>0, <2>2 DEF Halved
    <3> HIDE DEF mid
    <3>3. right \in P \X P /\ left \in P \X P
      BY <2>0, <3>1
    <3>4. right[1] = mid + 1 /\ right[2] = r[2] /\ left[1] = r[1] /\ left[2] = mid
      OBVIOUS
    <3>5. s[right] = Clamped(right, at) /\ s[left] = Clamped(left, at)
      <4>1. right[2] - right[1] < r[2] - r[1] /\ left[2] - left[1] < r[2] - r[1]
        BY <1>1, <2>0, <3>1, <3>4
      <4> QED BY <1>5, <3>3, <4>1
    <3>6. keyLess(members[mid], key) <=> mid < at
      BY <1>3, <3>1
    <3> HIDE DEF right, left
    <3>7. CASE mid < at
      <4>1. Clamped(right, at) = Clamped(r, at)
        BY <1>1, <1>3, <2>0, <2>2, <3>1, <3>4, <3>7 DEF Clamped
      <4> QED BY <3>2, <3>5, <3>6, <3>7, <4>1
    <3>8. CASE ~(mid < at)
      <4>1. Clamped(left, at) = Clamped(r, at)
        BY <1>1, <1>3, <2>0, <2>2, <3>1, <3>4, <3>8 DEF Clamped
      <4> QED BY <3>2, <3>5, <3>6, <3>8, <4>1
    <3> QED BY <3>7, <3>8
  <2> QED BY <1>1, <2>0, <2>1, <2>2
<1>6. \E s : Searches(members, key, s)
  <2> DEFINE s == [r \in P \X P |-> Clamped(r, at)]
  <2>1. \A q \in P \X P : s[q] = Clamped(q, at)
    OBVIOUS
  <2>2. s = [r \in P \X P |-> s[r]]
    OBVIOUS
  <2> HIDE DEF s
  <2>3. \A r \in P \X P : s[r] = Halved(members, key, s, r)
    BY <1>5, <2>1
  <2>4. Searches(members, key, s)
    BY <2>2, <2>3 DEF Searches
  <2> QED BY <2>4
<1>7. ASSUME NEW s, Searches(members, key, s) PROVE s[<<1, L + 1>>] = at
  <2>1. \A r \in P \X P : s[r] = Halved(members, key, s, r)
    BY <1>7 DEF Searches
  <2> DEFINE A == {n \in 0..L : \A q \in P \X P : q[2] - q[1] <= n => s[q] = Clamped(q, at)}
  <2>2. 0 \in A
    <3> SUFFICES ASSUME NEW q \in P \X P, q[2] - q[1] <= 0 PROVE s[q] = Clamped(q, at)
      BY <1>1
    <3>1. q[1] >= q[2]
      BY <1>1
    <3> QED BY <2>1, <3>1 DEF Halved, Clamped
  <2>3. \A n \in 1..L : n - 1 \in A => n \in A
    <3> SUFFICES ASSUME NEW n \in 1..L, n - 1 \in A, NEW q \in P \X P, q[2] - q[1] <= n
                 PROVE  s[q] = Clamped(q, at)
      BY <1>1
    <3>1. ASSUME NEW o \in P \X P, o[2] - o[1] < q[2] - q[1] PROVE s[o] = Clamped(o, at)
      <4>1. o[1] \in Int /\ o[2] \in Int /\ q[1] \in Int /\ q[2] \in Int
        BY <1>1
      <4>2. o[2] - o[1] <= n - 1
        BY <3>1, <4>1
      <4> QED BY <4>2
    <3>2. Halved(members, key, s, q) = Clamped(q, at)
      BY <1>5, <3>1
    <3> QED BY <2>1, <3>2
  <2> HIDE DEF A
  <2>4. L \in A
    <3>1. \A n \in 0..L : n \in A
      BY <1>1, <2>2, <2>3, UpTo
    <3> QED BY <1>1, <3>1
  <2> USE DEF A
  <2>5. <<1, L + 1>> \in P \X P /\ s[<<1, L + 1>>] = Clamped(<<1, L + 1>>, at)
    <3>1. <<1, L + 1>> \in P \X P /\ <<1, L + 1>>[2] - <<1, L + 1>>[1] <= L
      BY <1>1
    <3> QED BY <2>4, <3>1
  <2>6. Clamped(<<1, L + 1>>, at) = at
    BY <1>1, <1>3 DEF Clamped
  <2> QED BY <2>5, <2>6
<1>8. lower_bound(members, key) = at
  BY <1>6, <1>7, SearchIs
<1> QED BY <1>2, <1>8

-----------------------------------------------------------------------------
(* Finding, inserting and removing.                                          *)

\* Sorted members have different names.
LEMMA Distinct ==
    ASSUME NEW V, NEW members \in MembersOf(V), Sorted(members),
           NEW i \in DOMAIN members, NEW j \in DOMAIN members, members[i].name = members[j].name
    PROVE  i = j
<1>1. i \in Nat /\ j \in Nat /\ members[i].name \in Strings
  <2>1. /\ DOMAIN members = 1..Len(members) /\ Len(members) \in Nat
        /\ \A n \in 1..Len(members) : members[n].name \in Strings
    BY MemberType
  <2> QED BY <2>1
<1>2. ~Less(members[i].name, members[j].name) /\ ~Less(members[j].name, members[i].name)
  BY <1>1, NotLessThanItself
<1> QED BY <1>1, <1>2 DEF Sorted

\* The search finds the one member with the key's name.
LEMMA FoundIs ==
    ASSUME NEW V, NEW members \in MembersOf(V), Sorted(members), NEW key \in Strings
    PROVE  /\ lower_bound(members, key) \in 1..(Len(members) + 1)
           /\ Found(members, key)
                <=> \E i \in DOMAIN members : members[i].name = Name(key)
           /\ \A i \in DOMAIN members :
                 members[i].name = Name(key) => lower_bound(members, key) = i
<1> DEFINE at == lower_bound(members, key)
<1>1. /\ Len(members) \in Nat /\ DOMAIN members = 1..Len(members)
      /\ \A i \in 1..Len(members) : members[i].name \in Strings
  BY MemberType
<1>2. Splits(members, key, at)
  BY SearchSplits
<1> HIDE DEF at
<1>3. at \in 1..(Len(members) + 1)
  BY <1>2 DEF Splits
<1>4. ASSUME NEW i \in DOMAIN members, members[i].name = Name(key) PROVE at = i
  <2>1. ~keyLess(members[i], key) /\ i \in Nat
    BY <1>1, <1>4, KeyComparison, NotLessThanItself
  <2>2. at <= i
    BY <1>1, <1>2, <1>3, <2>1 DEF Splits
  <2>3. ASSUME at < i PROVE FALSE
    <3>1. at \in DOMAIN members /\ Less(members[at].name, members[i].name)
      BY <1>1, <1>3, <2>3 DEF Sorted
    <3>2. keyLess(members[at], key)
      BY <1>1, <1>4, <3>1, KeyComparison
    <3> QED BY <1>2, <1>3, <3>1, <3>2 DEF Splits
  <2> QED BY <1>3, <2>1, <2>2, <2>3
<1>5. Found(members, key) <=> at <= Len(members) /\ members[at].name = Name(key)
  BY DEF Found, keyEqualStr, at
<1>6. at <= Len(members) => at \in DOMAIN members
  BY <1>1, <1>3
<1>7. \A i \in DOMAIN members : i <= Len(members)
  BY <1>1
<1>8. \A i \in DOMAIN members : members[i].name = Name(key) => at = i
  BY <1>4
<1>9. Found(members, key) <=> \E i \in DOMAIN members : members[i].name = Name(key)
  BY <1>5, <1>6, <1>7, <1>8
<1> QED BY <1>3, <1>8, <1>9 DEF at

\* What emplace makes of the vector of members.
LEMMA Inserting ==
    ASSUME NEW S, NEW s \in Seq(S), NEW at \in 1..(Len(s) + 1), NEW e \in S
    PROVE  /\ InsertAt(s, at, e) \in Seq(S) /\ Len(InsertAt(s, at, e)) = Len(s) + 1
           /\ \A i \in 1..(Len(s) + 1) :
                 InsertAt(s, at, e)[i] = IF i < at THEN s[i] ELSE IF i = at THEN e ELSE s[i - 1]
<1> DEFINE front == SubSeq(s, 1, at - 1)
           back == SubSeq(s, at, Len(s))
           first == front \o <<e>>
<1>1. Len(s) \in Nat /\ \A i \in 1..Len(s) : s[i] \in S
  BY ElementOfSeq
<1>2. front \in Seq(S) /\ Len(front) = at - 1 /\ \A i \in 1..(at - 1) : front[i] = s[i]
  <2>1. 1 \in Int /\ at - 1 \in Int /\ \A i \in 1..(at - 1) : s[i] \in S
    BY <1>1
  <2>2. /\ front \in Seq(S) /\ Len(front) = IF 1 <= at - 1 THEN at - 1 - 1 + 1 ELSE 0
        /\ \A i \in 1..(at - 1 - 1 + 1) : front[i] = s[1 + i - 1]
    BY <2>1, SubSeqProperties
  <2> QED BY <1>1, <2>2
<1>3. /\ back \in Seq(S) /\ Len(back) = Len(s) - at + 1
      /\ \A i \in 1..(Len(s) - at + 1) : back[i] = s[at + i - 1]
  <2>1. at \in Int /\ Len(s) \in Int /\ \A i \in at..Len(s) : s[i] \in S
    BY <1>1
  <2>2. /\ back \in Seq(S) /\ Len(back) = IF at <= Len(s) THEN Len(s) - at + 1 ELSE 0
        /\ \A i \in 1..(Len(s) - at + 1) : back[i] = s[at + i - 1]
    BY <2>1, SubSeqProperties
  <2> QED BY <1>1, <2>2
<1> HIDE DEF front, back
<1>4. <<e>> \in Seq(S) /\ Len(<<e>>) = 1 /\ <<e>>[1] = e
  OBVIOUS
<1>5. /\ first \in Seq(S) /\ Len(first) = Len(front) + Len(<<e>>)
      /\ \A i \in 1..(Len(front) + Len(<<e>>)) :
            first[i] = IF i <= Len(front) THEN front[i] ELSE <<e>>[i - Len(front)]
  BY <1>2, <1>4, ConcatProperties
<1>6. Len(first) = at /\ \A i \in 1..at : first[i] = IF i < at THEN s[i] ELSE e
  BY <1>1, <1>2, <1>4, <1>5
<1> HIDE DEF first
<1>7. /\ first \o back \in Seq(S) /\ Len(first \o back) = Len(first) + Len(back)
      /\ \A i \in 1..(Len(first) + Len(back)) :
            (first \o back)[i] = IF i <= Len(first) THEN first[i] ELSE back[i - Len(first)]
  <2>1. first \in Seq(S) /\ back \in Seq(S)
    BY <1>3, <1>5
  <2> QED BY <2>1, ConcatProperties
<1>8. InsertAt(s, at, e) = first \o back
  BY DEF InsertAt, first, front, back
<1>9. ASSUME NEW i \in 1..(Len(s) + 1)
      PROVE  (first \o back)[i] = IF i < at THEN s[i] ELSE IF i = at THEN e ELSE s[i - 1]
  <2>1. CASE i <= at
    BY <1>1, <1>3, <1>6, <1>7, <2>1
  <2>2. CASE i > at
    <3>1. i - at \in 1..(Len(s) - at + 1) /\ at + (i - at) - 1 = i - 1
      BY <1>1, <2>2
    <3> QED BY <1>1, <1>3, <1>6, <1>7, <2>2, <3>1
  <2>3. i <= at \/ i > at
    BY <1>1
  <2> QED BY <2>1, <2>2, <2>3
<1> QED BY <1>1, <1>3, <1>6, <1>7, <1>8, <1>9

\* What erase makes of the vector of members.
LEMMA Removing ==
    ASSUME NEW S, NEW s \in Seq(S), NEW at \in 1..Len(s)
    PROVE  /\ RemoveAt(s, at) \in Seq(S) /\ Len(RemoveAt(s, at)) = Len(s) - 1
           /\ \A i \in 1..(Len(s) - 1) :
                 RemoveAt(s, at)[i] = IF i < at THEN s[i] ELSE s[i + 1]
<1> DEFINE front == SubSeq(s, 1, at - 1)
           back == SubSeq(s, at + 1, Len(s))
<1>1. Len(s) \in Nat /\ \A i \in 1..Len(s) : s[i] \in S
  BY ElementOfSeq
<1>2. front \in Seq(S) /\ Len(front) = at - 1 /\ \A i \in 1..(at - 1) : front[i] = s[i]
  <2>1. 1 \in Int /\ at - 1 \in Int /\ \A i \in 1..(at - 1) : s[i] \in S
    BY <1>1
  <2>2. /\ front \in Seq(S) /\ Len(front) = IF 1 <= at - 1 THEN at - 1 - 1 + 1 ELSE 0
        /\ \A i \in 1..(at - 1 - 1 + 1) : front[i] = s[1 + i - 1]
    BY <2>1, SubSeqProperties
  <2> QED BY <1>1, <2>2
<1>3. /\ back \in Seq(S) /\ Len(back) = Len(s) - at
      /\ \A i \in 1..(Len(s) - at) : back[i] = s[at + i]
  <2>1. at + 1 \in Int /\ Len(s) \in Int /\ \A i \in (at + 1)..Len(s) : s[i] \in S
    BY <1>1
  <2>2. /\ back \in Seq(S) /\ Len(back) = IF at + 1 <= Len(s) THEN Len(s) - (at + 1) + 1 ELSE 0
        /\ \A i \in 1..(Len(s) - (at + 1) + 1) : back[i] = s[at + 1 + i - 1]
    BY <2>1, SubSeqProperties
  <2>3. Len(s) - (at + 1) + 1 = Len(s) - at
    BY <1>1
  <2>4. ASSUME NEW i \in 1..(Len(s) - at) PROVE back[i] = s[at + i]
    <3>1. i \in 1..(Len(s) - (at + 1) + 1) /\ at + 1 + i - 1 = at + i
      BY <1>1, <2>3
    <3> QED BY <2>2, <3>1
  <2>5. Len(back) = Len(s) - at
    BY <1>1, <2>2
  <2> QED BY <2>2, <2>4, <2>5
<1> HIDE DEF front, back
<1>4. /\ front \o back \in Seq(S) /\ Len(front \o back) = Len(front) + Len(back)
      /\ \A i \in 1..(Len(front) + Len(back)) :
            (front \o back)[i] = IF i <= Len(front) THEN front[i] ELSE back[i - Len(front)]
  BY <1>2, <1>3, ConcatProperties
<1>5. RemoveAt(s, at) = front \o back
  BY DEF RemoveAt, front, back
<1>6. ASSUME NEW i \in 1..(Len(s) - 1)
      PROVE  (front \o back)[i] = IF i < at THEN s[i] ELSE s[i + 1]
  <2>1. CASE i < at
    BY <1>1, <1>2, <1>3, <1>4, <2>1
  <2>2. CASE i >= at
    <3>1. i - (at - 1) \in 1..(Len(s) - at) /\ at + (i - (at - 1)) = i + 1
      BY <1>1, <2>2
    <3> QED BY <1>1, <1>2, <1>3, <1>4, <2>2, <3>1
  <2>3. i < at \/ i >= at
    BY <1>1
  <2> QED BY <2>1, <2>2, <2>3
<1>7. Len(front \o back) = Len(s) - 1
  BY <1>1, <1>2, <1>3, <1>4
<1> QED BY <1>4, <1>5, <1>6, <1>7

\* Removing a member keeps the others in order.
LEMMA RemoveKeeps ==
    ASSUME NEW V, NEW members \in MembersOf(V), Sorted(members), NEW at \in DOMAIN members
    PROVE  /\ RemoveAt(members, at) \in MembersOf(V) /\ Sorted(RemoveAt(members, at))
           /\ \A i \in DOMAIN members : i # at =>
                 \E j \in DOMAIN RemoveAt(members, at) : RemoveAt(members, at)[j] = members[i]
           /\ \A j \in DOMAIN RemoveAt(members, at) :
                 \E i \in DOMAIN members \ {at} : RemoveAt(members, at)[j] = members[i]
<1> DEFINE M == [name : Strings, value : V]
           L == Len(members)
           rest == RemoveAt(members, at)
           Old(j) == IF j < at THEN j ELSE j + 1
<1>1. members \in Seq(M) /\ L \in Nat /\ DOMAIN members = 1..L /\ at \in 1..L
  BY MemberType DEF MembersOf
<1>2. /\ rest \in Seq(M) /\ Len(rest) = L - 1
      /\ \A i \in 1..(L - 1) : rest[i] = IF i < at THEN members[i] ELSE members[i + 1]
  <2> HIDE DEF M
  <2> QED BY <1>1, Removing
<1>3. rest \in MembersOf(V)
  BY <1>2 DEF MembersOf
<1>4. DOMAIN rest = 1..(L - 1)
  BY <1>1, <1>2
<1> HIDE DEF M, rest
<1>5. ASSUME NEW j \in DOMAIN rest
      PROVE  Old(j) \in DOMAIN members \ {at} /\ rest[j] = members[Old(j)]
  <2>1. j \in 1..(L - 1)
    BY <1>4
  <2>2. CASE j < at
    BY <1>1, <1>2, <2>1, <2>2
  <2>3. CASE j >= at
    BY <1>1, <1>2, <2>1, <2>3
  <2>4. j < at \/ j >= at
    BY <1>1, <2>1
  <2> QED BY <2>2, <2>3, <2>4
<1>6. ASSUME NEW i \in DOMAIN rest, NEW j \in DOMAIN rest, i < j PROVE Old(i) < Old(j)
  BY <1>1, <1>4, <1>6
<1>7. Sorted(rest)
  <2> SUFFICES ASSUME NEW i \in DOMAIN rest, NEW j \in DOMAIN rest, i < j
               PROVE  Less(rest[i].name, rest[j].name)
    BY DEF Sorted
  <2> DEFINE k == Old(i)
             l == Old(j)
  <2>1. k \in DOMAIN members /\ l \in DOMAIN members /\ k < l
        /\ rest[i] = members[k] /\ rest[j] = members[l]
    BY <1>5, <1>6
  <2> HIDE DEF k, l
  <2> QED BY <2>1 DEF Sorted
<1>8. ASSUME NEW i \in DOMAIN members, i # at PROVE \E j \in DOMAIN rest : rest[j] = members[i]
  <2>1. CASE i < at
    <3>1. i \in 1..(L - 1)
      BY <1>1, <2>1
    <3> QED BY <1>2, <1>4, <2>1, <3>1
  <2>2. CASE i > at
    <3>1. i - 1 \in 1..(L - 1) /\ ~(i - 1 < at) /\ i - 1 + 1 = i
      BY <1>1, <2>2
    <3> QED BY <1>2, <1>4, <3>1
  <2>3. i < at \/ i > at
    BY <1>1, <1>8
  <2> QED BY <2>1, <2>2, <2>3
<1>9. \A j \in DOMAIN rest : \E i \in DOMAIN members \ {at} : rest[j] = members[i]
  BY <1>5
<1> QED BY <1>3, <1>7, <1>8, <1>9 DEF rest

\* A new member goes where the search ended, and the others keep their order.
LEMMA InsertKeeps ==
    ASSUME NEW V, NEW members \in MembersOf(V), Sorted(members), NEW key \in Strings,
           NEW v \in V, ~Found(members, key)
    PROVE  LET new == [name |-> Name(key), value |-> v]
               more == InsertAt(members, lower_bound(members, key), new)
           IN  /\ more \in MembersOf(V) /\ Sorted(more)
               /\ \A i \in DOMAIN members : \E j \in DOMAIN more : more[j] = members[i]
               /\ \E j \in DOMAIN more : more[j] = new
               /\ \A j \in DOMAIN more :
                     more[j] = new \/ \E i \in DOMAIN members : more[j] = members[i]
<1> DEFINE M == [name : Strings, value : V]
           L == Len(members)
           new == [name |-> Name(key), value |-> v]
           at == lower_bound(members, key)
           more == InsertAt(members, at, new)
           Old(j) == IF j < at THEN j ELSE j - 1
<1>1. /\ members \in Seq(M) /\ L \in Nat /\ DOMAIN members = 1..L
      /\ \A i \in 1..L : members[i].name \in Strings
  BY MemberType DEF MembersOf
<1>2. Name(key) \in Strings /\ new \in M /\ new.name = Name(key)
  BY FirstType, KeyLimitAssumption DEF Name
<1>3. Splits(members, key, at)
  BY SearchSplits
<1>4. \A i \in 1..L : members[i].name # Name(key)
  BY <1>1, FoundIs
<1> HIDE DEF M, new, at
<1>5. at \in 1..(L + 1) /\ \A i \in 1..L : keyLess(members[i], key) <=> i < at
  BY <1>1, <1>3 DEF Splits
<1>6. /\ more \in Seq(M) /\ Len(more) = L + 1
      /\ \A i \in 1..(L + 1) : more[i] = IF i < at THEN members[i]
                                         ELSE IF i = at THEN new ELSE members[i - 1]
  <2>1. members \in Seq(M) /\ at \in 1..(Len(members) + 1) /\ new \in M
    BY <1>1, <1>2, <1>5
  <2> QED BY <2>1, Inserting
<1>7. more \in MembersOf(V)
  BY <1>6 DEF MembersOf, M
<1>8. DOMAIN more = 1..(L + 1)
  BY <1>1, <1>6
<1> HIDE DEF more
<1>9. ASSUME NEW j \in DOMAIN more, j # at
      PROVE  Old(j) \in DOMAIN members /\ more[j] = members[Old(j)]
  <2>1. j \in 1..(L + 1)
    BY <1>8
  <2>2. CASE j < at
    BY <1>1, <1>5, <1>6, <2>1, <2>2
  <2>3. CASE j > at
    <3>1. Old(j) = j - 1 /\ j - 1 \in 1..L
      BY <1>1, <1>5, <2>1, <2>3
    <3> QED BY <1>1, <1>5, <1>6, <2>1, <2>3, <3>1
  <2>4. j < at \/ j > at
    BY <1>1, <1>5, <1>9, <2>1
  <2> QED BY <2>2, <2>3, <2>4
<1>10. at \in DOMAIN more /\ more[at] = new
  BY <1>1, <1>5, <1>6, <1>8
<1>11. Sorted(more)
  <2> SUFFICES ASSUME NEW i \in DOMAIN more, NEW j \in DOMAIN more, i < j
               PROVE  Less(more[i].name, more[j].name)
    BY DEF Sorted
  <2> DEFINE k == Old(i)
             l == Old(j)
  <2>1. CASE i # at /\ j # at
    <3>1. /\ k \in DOMAIN members /\ l \in DOMAIN members
          /\ more[i] = members[k] /\ more[j] = members[l]
      BY <1>9, <2>1
    <3>2. k < l
      BY <1>1, <1>5, <1>8, <2>1
    <3> HIDE DEF k, l
    <3> QED BY <3>1, <3>2 DEF Sorted
  <2>2. CASE j = at
    <3>1. i < at /\ i \in 1..L
      BY <1>1, <1>5, <1>8, <2>2
    <3>2. more[i] = members[i] /\ keyLess(members[i], key)
      BY <1>1, <1>5, <1>6, <1>8, <3>1
    <3>3. Less(members[i].name, Name(key))
      BY <1>1, <3>1, <3>2, KeyComparison
    <3> QED BY <1>2, <1>10, <2>2, <3>2, <3>3
  <2>3. CASE i = at
    <3>1. l = j - 1 /\ l \in 1..L /\ at <= l
      BY <1>1, <1>5, <1>8, <2>3
    <3>2. more[j] = members[l]
      BY <1>1, <1>5, <1>8, <1>9, <2>3
    <3> HIDE DEF l
    <3>3. ~keyLess(members[l], key)
      BY <1>5, <3>1
    <3>4. ~Less(members[l].name, Name(key)) /\ members[l].name # Name(key)
      BY <1>1, <1>4, <3>1, <3>3, KeyComparison
    <3>5. Less(Name(key), members[l].name)
      BY <1>1, <1>2, <3>1, <3>4, LessIsTotal
    <3> QED BY <1>2, <1>10, <2>3, <3>2, <3>5
  <2> QED BY <2>1, <2>2, <2>3
<1>12. ASSUME NEW i \in DOMAIN members PROVE \E j \in DOMAIN more : more[j] = members[i]
  <2>1. CASE i < at
    <3>1. i \in 1..(L + 1)
      BY <1>1
    <3> QED BY <1>6, <1>8, <2>1, <3>1
  <2>2. CASE i >= at
    <3>1. i + 1 \in 1..(L + 1) /\ ~(i + 1 < at) /\ i + 1 # at /\ i + 1 - 1 = i
      BY <1>1, <1>5, <2>2
    <3> QED BY <1>6, <1>8, <3>1
  <2>3. i < at \/ i >= at
    BY <1>1, <1>5
  <2> QED BY <2>1, <2>2, <2>3
<1>13. \A j \in DOMAIN more : more[j] = new \/ \E i \in DOMAIN members : more[j] = members[i]
  BY <1>9, <1>10
<1> QED BY <1>7, <1>10, <1>11, <1>12, <1>13 DEF more, at, new

\* A value is replaced in place.
LEMMA ReplaceKeeps ==
    ASSUME NEW V, NEW members \in MembersOf(V), Sorted(members), NEW at \in DOMAIN members,
           NEW v \in V
    PROVE  LET other_value == [members EXCEPT ![at].value = v]
           IN  /\ other_value \in MembersOf(V) /\ Sorted(other_value)
               /\ DOMAIN other_value = DOMAIN members
               /\ \A i \in DOMAIN members :
                     other_value[i] = IF i = at THEN [name |-> members[at].name, value |-> v]
                                      ELSE members[i]
<1> DEFINE M == [name : Strings, value : V]
           new == [name |-> members[at].name, value |-> v]
           res == [members EXCEPT ![at].value = v]
<1>1. /\ members \in Seq(M) /\ Len(members) \in Nat /\ DOMAIN members = 1..Len(members)
      /\ \A i \in 1..Len(members) : members[i] \in M /\ members[i].name \in Strings
  BY MemberType DEF MembersOf
<1>2. new \in M /\ [members[at] EXCEPT !.value = v] = new
  <2>1. members[at] \in M
    BY <1>1
  <2> QED BY <2>1
<1>3. res = [members EXCEPT ![at] = new]
  BY <1>2
<1> HIDE DEF M, new
<1>4. /\ DOMAIN res = DOMAIN members /\ res \in Seq(M)
      /\ \A i \in DOMAIN members : res[i] = IF i = at THEN new ELSE members[i]
  BY <1>1, <1>2, <1>3, ExceptSeq
<1> HIDE DEF res
<1>5. \A i \in DOMAIN members : res[i].name = members[i].name
  BY <1>4 DEF new
<1>6. Sorted(res)
  BY <1>4, <1>5 DEF Sorted
<1>7. res \in MembersOf(V)
  BY <1>4 DEF MembersOf, M
<1> QED BY <1>4, <1>6, <1>7 DEF res, new

-----------------------------------------------------------------------------
(* Members as a map.                                                         *)

\* What sorted members map: each member's name to its value.
LEMMA MapIs ==
    ASSUME NEW V, NEW members \in MembersOf(V), Sorted(members)
    PROVE  /\ DOMAIN AsMap(members) = {members[i].name : i \in DOMAIN members}
           /\ \A i \in DOMAIN members : AsMap(members)[members[i].name] = members[i].value
<1> DEFINE names == {members[i].name : i \in DOMAIN members}
           Has(n) == CHOOSE m \in ToSet(members) : m.name = n
<1>1. AsMap(members) = [n \in names |-> Has(n).value]
  BY DEF AsMap
<1>2. ASSUME NEW i \in DOMAIN members PROVE Has(members[i].name) = members[i]
  <2>1. members[i] \in ToSet(members) /\ members[i].name = members[i].name
    BY DEF ToSet
  <2>2. Has(members[i].name) \in ToSet(members) /\ Has(members[i].name).name = members[i].name
    BY <2>1
  <2>3. PICK j \in DOMAIN members : members[j] = Has(members[i].name)
    BY <2>2 DEF ToSet
  <2>4. members[j].name = members[i].name
    BY <2>2, <2>3
  <2>5. i = j
    BY <2>4, Distinct
  <2> QED BY <2>3, <2>5
<1> HIDE DEF Has
<1> QED BY <1>1, <1>2

\* A lookup answers what the members map the name to.
LEMMA LookupIs ==
    ASSUME NEW V, NEW members \in MembersOf(V), Sorted(members), NEW key \in Strings
    PROVE  get(members, key) = IF Name(key) \in DOMAIN AsMap(members)
                               THEN AsMap(members)[Name(key)] ELSE NULL
<1>1. Found(members, key) <=> Name(key) \in DOMAIN AsMap(members)
  <2>1. DOMAIN AsMap(members) = {members[i].name : i \in DOMAIN members}
    BY MapIs
  <2> QED BY <2>1, FoundIs
<1>2. CASE Found(members, key)
  <2>1. PICK i \in DOMAIN members : members[i].name = Name(key)
    BY <1>2, FoundIs
  <2>2. lower_bound(members, key) = i
    BY <2>1, FoundIs
  <2>3. AsMap(members)[Name(key)] = members[i].value
    BY <2>1, MapIs
  <2> QED BY <1>1, <1>2, <2>2, <2>3 DEF get
<1>3. CASE ~Found(members, key)
  BY <1>1, <1>3 DEF get
<1> QED BY <1>2, <1>3

\* set keeps the members in order and changes what the key's name is mapped to.
LEMMA SetKeeps ==
    ASSUME NEW V, NEW members \in MembersOf(V), Sorted(members), NEW key \in Strings,
           NEW v \in V
    PROVE  LET more == WithMember(members, key, v)
           IN  /\ more \in MembersOf(V) /\ Sorted(more)
               /\ DOMAIN AsMap(more) = DOMAIN AsMap(members) \cup {Name(key)}
               /\ AsMap(more)[Name(key)] = v
               /\ \A n \in DOMAIN AsMap(members) \ {Name(key)} :
                     AsMap(more)[n] = AsMap(members)[n]
<1> DEFINE at == lower_bound(members, key)
           new == [name |-> Name(key), value |-> v]
           more == WithMember(members, key, v)
<1>1. /\ more \in MembersOf(V) /\ Sorted(more)
      /\ \E j \in DOMAIN more : more[j] = new
      /\ \A i \in DOMAIN members : members[i].name # Name(key) =>
            \E j \in DOMAIN more : more[j] = members[i]
      /\ \A j \in DOMAIN more : more[j] = new \/ \E i \in DOMAIN members : more[j] = members[i]
  <2>1. CASE ~Found(members, key)
    <3>1. more = InsertAt(members, at, new)
      BY <2>1 DEF WithMember
    <3> HIDE DEF more, at, new
    <3> QED BY <2>1, <3>1, InsertKeeps DEF at, new
  <2>2. CASE Found(members, key)
    <3>1. PICK i \in DOMAIN members : members[i].name = Name(key)
      BY <2>2, FoundIs
    <3>2. at = i
      BY <3>1, FoundIs
    <3>3. more = [members EXCEPT ![i].value = v]
      BY <2>2, <3>2 DEF WithMember
    <3> HIDE DEF more, at
    <3>4. /\ more \in MembersOf(V) /\ Sorted(more) /\ DOMAIN more = DOMAIN members
          /\ \A j \in DOMAIN members : more[j] = IF j = i THEN new ELSE members[j]
      BY <3>1, <3>3, ReplaceKeeps
    <3> HIDE DEF new
    <3> QED BY <3>1, <3>4
  <2> QED BY <2>1, <2>2
<1>2. new.name = Name(key) /\ new.value = v
  OBVIOUS
<1> HIDE DEF more, new
<1>3. /\ DOMAIN AsMap(members) = {members[i].name : i \in DOMAIN members}
      /\ \A i \in DOMAIN members : AsMap(members)[members[i].name] = members[i].value
  BY MapIs
<1>4. /\ DOMAIN AsMap(more) = {more[i].name : i \in DOMAIN more}
      /\ \A i \in DOMAIN more : AsMap(more)[more[i].name] = more[i].value
  <2>1. more \in MembersOf(V) /\ Sorted(more)
    BY <1>1
  <2> QED BY <2>1, MapIs
<1>5. AsMap(more)[Name(key)] = v
  BY <1>1, <1>2, <1>4
<1>6. ASSUME NEW n \in DOMAIN AsMap(members) \ {Name(key)}
      PROVE  n \in DOMAIN AsMap(more) /\ AsMap(more)[n] = AsMap(members)[n]
  <2>1. PICK i \in DOMAIN members : members[i].name = n
    BY <1>3
  <2>2. PICK j \in DOMAIN more : more[j] = members[i]
    BY <1>1, <2>1
  <2> QED BY <1>3, <1>4, <2>1, <2>2
<1>7. ASSUME NEW n \in DOMAIN AsMap(more) PROVE n \in DOMAIN AsMap(members) \cup {Name(key)}
  <2>1. PICK j \in DOMAIN more : more[j].name = n
    BY <1>4
  <2> QED BY <1>1, <1>2, <1>3, <2>1
<1>8. Name(key) \in DOMAIN AsMap(more)
  BY <1>1, <1>2, <1>4
<1>9. DOMAIN AsMap(more) = DOMAIN AsMap(members) \cup {Name(key)}
  BY <1>6, <1>7, <1>8
<1> QED BY <1>1, <1>5, <1>6, <1>9 DEF more

\* remove keeps the members in order and unmaps the name of the one it takes out.
LEMMA RemoveUnmaps ==
    ASSUME NEW V, NEW members \in MembersOf(V), Sorted(members), NEW key \in Strings,
           Found(members, key)
    PROVE  LET rest == RemoveAt(members, lower_bound(members, key))
           IN  /\ rest \in MembersOf(V) /\ Sorted(rest)
               /\ DOMAIN AsMap(rest) = DOMAIN AsMap(members) \ {Name(key)}
               /\ \A n \in DOMAIN AsMap(rest) : AsMap(rest)[n] = AsMap(members)[n]
<1> DEFINE rest == RemoveAt(members, lower_bound(members, key))
<1>1. PICK at \in DOMAIN members : members[at].name = Name(key)
  BY FoundIs
<1>2. rest = RemoveAt(members, at)
  BY <1>1, FoundIs
<1> HIDE DEF rest
<1>3. /\ rest \in MembersOf(V) /\ Sorted(rest)
      /\ \A i \in DOMAIN members : i # at => \E j \in DOMAIN rest : rest[j] = members[i]
      /\ \A j \in DOMAIN rest : \E i \in DOMAIN members \ {at} : rest[j] = members[i]
  BY <1>2, RemoveKeeps
<1>4. /\ DOMAIN AsMap(members) = {members[i].name : i \in DOMAIN members}
      /\ \A i \in DOMAIN members : AsMap(members)[members[i].name] = members[i].value
  BY MapIs
<1>5. /\ DOMAIN AsMap(rest) = {rest[i].name : i \in DOMAIN rest}
      /\ \A i \in DOMAIN rest : AsMap(rest)[rest[i].name] = rest[i].value
  <2>1. rest \in MembersOf(V) /\ Sorted(rest)
    BY <1>3
  <2> QED BY <2>1, MapIs
<1>6. ASSUME NEW n \in DOMAIN AsMap(rest)
      PROVE  n \in DOMAIN AsMap(members) \ {Name(key)} /\ AsMap(rest)[n] = AsMap(members)[n]
  <2>1. PICK j \in DOMAIN rest : rest[j].name = n
    BY <1>5
  <2>2. PICK i \in DOMAIN members \ {at} : rest[j] = members[i]
    BY <1>3
  <2>3. members[i].name # members[at].name
    BY <2>2, Distinct
  <2> QED BY <1>1, <1>4, <1>5, <2>1, <2>2, <2>3
<1>7. ASSUME NEW n \in DOMAIN AsMap(members) \ {Name(key)} PROVE n \in DOMAIN AsMap(rest)
  <2>1. PICK i \in DOMAIN members : members[i].name = n
    BY <1>4
  <2>2. PICK j \in DOMAIN rest : rest[j] = members[i]
    BY <1>1, <1>3, <2>1
  <2> QED BY <1>5, <2>1, <2>2
<1>8. DOMAIN AsMap(rest) = DOMAIN AsMap(members) \ {Name(key)}
  BY <1>6, <1>7
<1> QED BY <1>3, <1>6, <1>8 DEF rest

\* Sorted members that have the same names have them in the same places.
LEMMA SameNames ==
    ASSUME NEW V, NEW a \in MembersOf(V), Sorted(a), NEW b \in MembersOf(V), Sorted(b),
           {a[i].name : i \in DOMAIN a} = {b[i].name : i \in DOMAIN b}
    PROVE  \A n \in 0..Len(a) : n <= Len(b) /\ (n # 0 => a[n].name = b[n].name)
<1>1. /\ Len(a) \in Nat /\ DOMAIN a = 1..Len(a) /\ \A i \in 1..Len(a) : a[i].name \in Strings
      /\ Len(b) \in Nat /\ DOMAIN b = 1..Len(b) /\ \A i \in 1..Len(b) : b[i].name \in Strings
  BY MemberType
<1> DEFINE Same(n) == n <= Len(b) /\ (n # 0 => a[n].name = b[n].name)
           A == {n \in 0..Len(a) : \A m \in 0..n : Same(m)}
<1>2. 0 \in A
  BY <1>1
<1>3. ASSUME NEW n \in 1..Len(a), n - 1 \in A PROVE n \in A
  <2>1. \A m \in 1..(n - 1) : m \in DOMAIN a /\ m \in DOMAIN b /\ a[m].name = b[m].name
    BY <1>1, <1>3
  <2>2. PICK j \in DOMAIN b : b[j].name = a[n].name
    <3>1. a[n].name \in {a[i].name : i \in DOMAIN a}
      BY <1>1
    <3> QED BY <3>1
  <2>3. ~(j < n)
    <3> SUFFICES ASSUME j < n PROVE FALSE
      OBVIOUS
    <3>1. j \in 1..(n - 1) /\ n \in DOMAIN a
      BY <1>1
    <3>2. j \in DOMAIN a /\ a[j].name = a[n].name
      BY <2>1, <2>2, <3>1
    <3>3. j = n
      BY <3>1, <3>2, Distinct
    <3> QED BY <3>1, <3>3
  <2>4. n \in DOMAIN a /\ n \in DOMAIN b /\ j \in Nat
    BY <1>1, <2>3
  <2>5. PICK l \in DOMAIN a : a[l].name = b[n].name
    <3>1. b[n].name \in {b[i].name : i \in DOMAIN b}
      BY <2>4
    <3> QED BY <3>1
  <2>6. ~(l < n)
    <3> SUFFICES ASSUME l < n PROVE FALSE
      OBVIOUS
    <3>1. l \in 1..(n - 1)
      BY <1>1
    <3>2. l \in DOMAIN b /\ b[l].name = b[n].name
      BY <2>1, <2>5, <3>1
    <3>3. l = n
      BY <2>4, <3>2, Distinct
    <3> QED BY <3>1, <3>3
  <2>7. a[n].name = b[n].name
    <3>1. CASE j = n
      BY <2>2, <3>1
    <3>2. CASE l = n
      BY <2>5, <3>2
    <3>3. CASE n < j /\ n < l
      <4>1. Less(a[n].name, a[l].name) /\ Less(b[n].name, b[j].name)
        BY <2>4, <3>3 DEF Sorted
      <4>2. a[n].name \in Strings /\ b[n].name \in Strings
        BY <1>1, <2>4
      <4>3. Less(a[n].name, a[n].name)
        BY <2>2, <2>5, <4>1, <4>2, LessIsTransitive
      <4> QED BY <4>2, <4>3, NotLessThanItself
    <3>4. l \in Nat
      BY <1>1
    <3> QED BY <2>3, <2>4, <2>6, <3>1, <3>2, <3>3, <3>4
  <2>8. Same(n)
    BY <1>1, <2>4, <2>7
  <2>9. ASSUME NEW m \in 0..n PROVE Same(m)
    <3>1. CASE m = n
      BY <2>8, <3>1
    <3>2. CASE m # n
      <4>1. m \in 0..(n - 1)
        BY <3>2
      <4> QED BY <4>1, <1>3
    <3> QED BY <3>1, <3>2
  <2> QED BY <2>9
<1> HIDE DEF A
<1>4. \A n \in 0..Len(a) : n \in A
  BY <1>1, <1>2, <1>3, UpTo
<1>5. ASSUME NEW n \in 0..Len(a) PROVE Same(n)
  <2>1. n \in A /\ n \in 0..n
    BY <1>4
  <2> QED BY <2>1 DEF A
<1> QED BY <1>5

\* Sorted members are the same, one by one, exactly if they are the same map.
LEMMA SameMap ==
    ASSUME NEW V, NEW a \in MembersOf(V), Sorted(a), NEW b \in MembersOf(V), Sorted(b)
    PROVE  /\ Len(a) = Len(b)
           /\ \A i \in DOMAIN a : a[i].name = b[i].name /\ a[i].value = b[i].value
           <=> AsMap(a) = AsMap(b)
<1>1. /\ Len(a) \in Nat /\ DOMAIN a = 1..Len(a)
      /\ \A i \in 1..Len(a) : a[i] = [name |-> a[i].name, value |-> a[i].value]
      /\ Len(b) \in Nat /\ DOMAIN b = 1..Len(b)
      /\ \A i \in 1..Len(b) : b[i] = [name |-> b[i].name, value |-> b[i].value]
  BY MemberType
<1>2. ASSUME Len(a) = Len(b),
             \A i \in DOMAIN a : a[i].name = b[i].name /\ a[i].value = b[i].value
      PROVE  AsMap(a) = AsMap(b)
  <2>1. \A i \in 1..Len(a) : a[i] = b[i]
    BY <1>1, <1>2
  <2> DEFINE M == [name : Strings, value : V]
  <2>2. a \in Seq(M) /\ b \in Seq(M)
    BY DEF MembersOf
  <2> HIDE DEF M
  <2>3. a = b
    BY <1>2, <2>1, <2>2, SeqEqual
  <2> QED BY <2>3
<1>3. ASSUME AsMap(a) = AsMap(b)
      PROVE  /\ Len(a) = Len(b)
             /\ \A i \in DOMAIN a : a[i].name = b[i].name /\ a[i].value = b[i].value
  <2>1. /\ DOMAIN AsMap(a) = {a[i].name : i \in DOMAIN a}
        /\ \A i \in DOMAIN a : AsMap(a)[a[i].name] = a[i].value
    BY MapIs
  <2>2. /\ DOMAIN AsMap(b) = {b[i].name : i \in DOMAIN b}
        /\ \A i \in DOMAIN b : AsMap(b)[b[i].name] = b[i].value
    BY MapIs
  <2>3. {a[i].name : i \in DOMAIN a} = {b[i].name : i \in DOMAIN b}
    BY <1>3, <2>1, <2>2
  <2>4. \A n \in 0..Len(a) : n <= Len(b) /\ (n # 0 => a[n].name = b[n].name)
    BY <2>3, SameNames
  <2>5. \A n \in 0..Len(b) : n <= Len(a) /\ (n # 0 => b[n].name = a[n].name)
    BY <2>3, SameNames
  <2>6. Len(a) = Len(b) /\ \A i \in DOMAIN a : i \in DOMAIN b /\ a[i].name = b[i].name
    <3>1. Len(a) \in 0..Len(a) /\ Len(b) \in 0..Len(b)
      BY <1>1
    <3>2. Len(a) <= Len(b) /\ Len(b) <= Len(a)
      BY <2>4, <2>5, <3>1
    <3> DEFINE la == Len(a)
               lb == Len(b)
    <3>3. Len(a) = Len(b)
      <4>1. la \in Nat /\ lb \in Nat /\ la <= lb /\ lb <= la
        BY <1>1, <3>2
      <4> HIDE DEF la, lb
      <4>2. la = lb
        BY <4>1
      <4> QED BY <4>2 DEF la, lb
    <3>4. ASSUME NEW i \in DOMAIN a PROVE i \in DOMAIN b /\ a[i].name = b[i].name
      <4>1. i \in 0..Len(a) /\ i # 0
        BY <1>1
      <4>2. i \in DOMAIN b
        BY <1>1, <3>3
      <4> QED BY <2>4, <4>1, <4>2
    <3> QED BY <3>3, <3>4
  <2> QED BY <1>3, <2>1, <2>2, <2>6
<1> QED BY <1>2, <1>3

-----------------------------------------------------------------------------
(* Values.                                                                   *)

Flat == Primitives \cup [string : Strings]
Deeper(below) == Flat \cup [array : Seq(below)] \cup [object : MembersOf(below)]

\* Values is the function its recursion describes.
LEMMA ValuesAre ==
    Values = [depth \in 0..MaxTokens |-> IF depth = 0 THEN Flat ELSE Deeper(Values[depth - 1])]
<1> DEFINE Nests(f, N) ==
               f = [depth \in 0..N |-> IF depth = 0 THEN Flat ELSE Deeper(f[depth - 1])]
           A == {m \in 0..MaxTokens : \E f : Nests(f, m)}
<1>1. MaxTokens \in Nat
  BY TextAssumption
<1>2. 0 \in A
  <2> DEFINE g == [n \in 0..0 |-> Flat]
  <2>1. g = [n \in 0..0 |-> IF n = 0 THEN Flat ELSE Deeper(g[n - 1])]
    OBVIOUS
  <2> HIDE DEF g
  <2> QED BY <1>1, <2>1
<1>3. ASSUME NEW m \in 1..MaxTokens, m - 1 \in A PROVE m \in A
  <2>1. PICK f : Nests(f, m - 1)
    BY <1>3
  <2> DEFINE g == [n \in 0..m |-> IF n = m THEN Deeper(f[m - 1]) ELSE f[n]]
  <2> HIDE DEF Deeper
  <2>2. g = [n \in 0..m |-> g[n]] /\ \A n \in 0..(m - 1) : g[n] = f[n]
    OBVIOUS
  <2>3. g[m] = Deeper(g[m - 1])
    <3>1. m \in 0..m /\ m - 1 \in 0..(m - 1) /\ m - 1 \in 0..m /\ m - 1 # m
      OBVIOUS
    <3> QED BY <3>1
  <2> HIDE DEF g
  <2>4. ASSUME NEW n \in 0..m PROVE g[n] = IF n = 0 THEN Flat ELSE Deeper(g[n - 1])
    <3>1. CASE n = m
      BY <2>3, <3>1
    <3>2. CASE n # m
      <4>1. n \in 0..(m - 1) /\ (n # 0 => n - 1 \in 0..(m - 1))
        BY <3>2
      <4>2. f[n] = IF n = 0 THEN Flat ELSE Deeper(f[n - 1])
        BY <2>1, <4>1
      <4> QED BY <2>2, <4>1, <4>2
    <3> QED BY <3>1, <3>2
  <2>5. Nests(g, m)
    BY <2>2, <2>4
  <2> QED BY <2>5, <1>3
<1> HIDE DEF A
<1>4. MaxTokens \in A
  BY <1>1, <1>2, <1>3, UpTo
<1>5. \E f : Nests(f, MaxTokens)
  BY <1>4 DEF A
<1>6. Values = CHOOSE f : Nests(f, MaxTokens)
  BY DEF Values, Flat, Deeper
<1> HIDE DEF Nests
<1>7. Nests(Values, MaxTokens)
  BY <1>5, <1>6
<1> QED BY <1>7 DEF Nests

\* Sequences of fewer values are sequences of more.
LEMMA DeeperGrows ==
    ASSUME NEW X, NEW Y, X \subseteq Y
    PROVE  /\ Seq(X) \subseteq Seq(Y) /\ MembersOf(X) \subseteq MembersOf(Y)
           /\ Deeper(X) \subseteq Deeper(Y)
<1>1. \A S, T : S \subseteq T => Seq(S) \subseteq Seq(T)
  <2> SUFFICES ASSUME NEW S, NEW T, S \subseteq T, NEW s \in Seq(S) PROVE s \in Seq(T)
    OBVIOUS
  <2>1. Len(s) \in Nat /\ s = [i \in 1..Len(s) |-> s[i]] /\ \A i \in 1..Len(s) : s[i] \in S
    BY ElementOfSeq
  <2>2. \A i \in 1..Len(s) : s[i] \in T
    BY <2>1
  <2> QED BY <2>1, <2>2, IsASeq
<1>2. Seq(X) \subseteq Seq(Y)
  BY <1>1
<1>3. [name : Strings, value : X] \subseteq [name : Strings, value : Y]
  OBVIOUS
<1>4. MembersOf(X) \subseteq MembersOf(Y)
  BY <1>1, <1>3 DEF MembersOf
<1>5. [array : Seq(X)] \subseteq [array : Seq(Y)]
  BY <1>2
<1>6. [object : MembersOf(X)] \subseteq [object : MembersOf(Y)]
  BY <1>4
<1> QED BY <1>2, <1>4, <1>5, <1>6 DEF Deeper

\* Values that nest less deep are among those that may nest deeper.
LEMMA ValuesGrow ==
    ASSUME NEW e \in 0..MaxTokens, NEW d \in 0..e
    PROVE  Values[d] \subseteq Values[e]
<1>1. MaxTokens \in Nat
  BY TextAssumption
<1>2. ASSUME NEW n \in 1..MaxTokens PROVE Values[n] = Deeper(Values[n - 1])
  <2> HIDE DEF Deeper
  <2>1. n \in 0..MaxTokens /\ n # 0
    BY <1>1
  <2> QED BY <2>1, ValuesAre, Zenon
<1>3. Values[0] = Flat
  <2>1. 0 \in 0..MaxTokens
    BY <1>1
  <2> QED BY <2>1, ValuesAre, Zenon
<1> DEFINE A == {n \in 0..MaxTokens : n # 0 => Values[n - 1] \subseteq Values[n]}
<1>4. 0 \in A
  BY <1>1
<1>5. ASSUME NEW n \in 1..MaxTokens, n - 1 \in A PROVE n \in A
  <2>1. n \in 0..MaxTokens /\ (n # 1 => n - 1 \in 1..MaxTokens)
    BY <1>1
  <2>2. CASE n = 1
    BY <1>2, <1>3, <2>1, <2>2 DEF Deeper
  <2>3. CASE n # 1
    <3>1. Values[n - 1 - 1] \subseteq Values[n - 1]
      BY <1>5, <2>1, <2>3
    <3>2. Deeper(Values[n - 1 - 1]) \subseteq Deeper(Values[n - 1])
      <4> DEFINE X == Values[n - 1 - 1]
                 Y == Values[n - 1]
      <4>1. X \subseteq Y
        BY <3>1
      <4> HIDE DEF X, Y, Deeper
      <4>2. Deeper(X) \subseteq Deeper(Y)
        BY <4>1, DeeperGrows, Zenon
      <4> QED BY <4>2 DEF X, Y
    <3> QED BY <1>2, <2>1, <2>3, <3>2
  <2> QED BY <2>2, <2>3
<1> HIDE DEF A
<1>6. \A n \in 0..MaxTokens : n \in A
  BY <1>1, <1>4, <1>5, UpTo
<1> DEFINE B == {n \in 0..(e - d) : Values[d] \subseteq Values[d + n]}
<1>7. 0 \in B
  <2>1. d + 0 = d /\ 0 \in 0..(e - d)
    OBVIOUS
  <2> QED BY <2>1
<1>8. ASSUME NEW n \in 1..(e - d), n - 1 \in B PROVE n \in B
  <2>1. d + (n - 1) = d + n - 1 /\ d + n \in 0..MaxTokens /\ d + n # 0 /\ n \in 0..(e - d)
    BY <1>1
  <2>2. Values[d] \subseteq Values[d + n - 1] /\ Values[d + n - 1] \subseteq Values[d + n]
    BY <1>6, <1>8, <2>1 DEF A
  <2> QED BY <2>1, <2>2
<1> HIDE DEF B
<1>9. e - d \in Nat
  BY <1>1
<1>10. \A n \in 0..(e - d) : n \in B
  BY <1>7, <1>8, <1>9, UpTo
<1>11. e - d \in B /\ d + (e - d) = e
  BY <1>9, <1>10
<1> QED BY <1>11 DEF B

\* A value is of one kind, and what is inside it is one level less deep.
LEMMA ValueKinds ==
    ASSUME NEW depth \in 0..MaxTokens, NEW v \in Values[depth]
    PROVE  /\ Is("object", v) => depth # 0 /\ v.object \in MembersOf(Values[depth - 1])
                                 /\ v = Object(v.object)
           /\ Is("array", v) => depth # 0 /\ v.array \in Seq(Values[depth - 1])
                                /\ v = Array(v.array)
           /\ Is("string", v) => v.string \in Strings
           /\ Is("number", v) => v.number \in Int
           /\ Is("object", v) \/ Is("array", v) \/ Is("string", v) \/ v \in Primitives
           /\ v # NULL
<1> DEFINE Below == Values[depth - 1]
<1>1. Values[depth] = IF depth = 0 THEN Flat ELSE Deeper(Below)
  BY ValuesAre, Zenon
<1> HIDE DEF Below
<1>2. CASE v \in Primitives
  BY <1>2 DEF Primitives, Is, NULL
<1>3. CASE v \in [string : Strings]
  BY <1>3 DEF Is, NULL
<1>4. CASE depth # 0 /\ v \in [array : Seq(Below)]
  BY <1>4 DEF Is, NULL, Array, Below
<1>5. CASE depth # 0 /\ v \in [object : MembersOf(Below)]
  BY <1>5 DEF Is, NULL, Object, Below
<1>6. v \in Primitives \/ v \in [string : Strings]
      \/ (depth # 0 /\ (v \in [array : Seq(Below)] \/ v \in [object : MembersOf(Below)]))
  BY <1>1 DEF Flat, Deeper
<1> QED BY <1>2, <1>3, <1>4, <1>5, <1>6

\* Primitives, strings, and arrays and objects of shallower values are values.
LEMMA ValuesHave ==
    ASSUME NEW depth \in 0..MaxTokens
    PROVE  /\ Primitives \subseteq Values[depth]
           /\ \A chars \in Strings : Text(chars) \in Values[depth]
           /\ depth # 0 =>
                 /\ \A items \in Seq(Values[depth - 1]) : Array(items) \in Values[depth]
                 /\ \A members \in MembersOf(Values[depth - 1]) : Object(members) \in Values[depth]
<1> DEFINE Below == Values[depth - 1]
<1>1. Values[depth] = IF depth = 0 THEN Flat ELSE Deeper(Below)
  BY ValuesAre, Zenon
<1> HIDE DEF Below
<1>2. /\ \A chars \in Strings : Text(chars) \in [string : Strings]
      /\ \A items \in Seq(Below) : Array(items) \in [array : Seq(Below)]
      /\ \A members \in MembersOf(Below) : Object(members) \in [object : MembersOf(Below)]
  BY DEF Text, Array, Object
<1> QED BY <1>1, <1>2 DEF Flat, Deeper, Below

-----------------------------------------------------------------------------
(* Numbers, strings and texts.                                               *)

\* Neighbouring floats are apart.
LEMMA SpacingType ==
    ASSUME NEW n \in Int
    PROVE  Spacing(n) \in Nat \ {0}
<1> DEFINE Coarser(finer) == IF Abs(n) < finer * Mantissa THEN finer ELSE 2 * finer
           Grows(f) == f = [k \in 0..Doublings |-> IF k = 0 THEN Least ELSE Coarser(f[k - 1])]
           P == Nat \ {0}
           F == [p \in (1..Doublings) \X P |-> Coarser(p[2])]
           spacing == CHOOSE f : Grows(f)
<1>1. Doublings \in Nat /\ Least \in P /\ Mantissa \in P
  BY TextAssumption
<1>2. \A p \in P : Coarser(p) \in P
  BY <1>1
<1>3. Spacing(n) = spacing[Doublings]
  BY DEF Spacing
<1> HIDE DEF Coarser
<1>4. PICK g \in [0..Doublings -> P] : Solves(g, Doublings, Least, F)
  <2>1. \A k \in 1..Doublings : \A x \in P : F[<<k, x>>] = Coarser(x)
    OBVIOUS
  <2> HIDE DEF F, P
  <2>2. ASSUME NEW k \in 1..Doublings, NEW x \in P PROVE F[<<k, x>>] \in P
    <3>1. F[<<k, x>>] = Coarser(x)
      BY <2>1
    <3> QED BY <1>2, <3>1
  <2> QED BY <1>1, <2>2, RecursionIn
<1>5. g = [k \in 0..Doublings |-> g[k]] /\ \A k \in 0..Doublings : g[k] \in P
  BY <1>4
<1>6. Grows(g)
  <2>1. ASSUME NEW k \in 0..Doublings PROVE g[k] = IF k = 0 THEN Least ELSE Coarser(g[k - 1])
    <3>1. CASE k = 0
      BY <1>4, <3>1 DEF Solves
    <3>2. CASE k # 0
      <4>1. k \in 1..Doublings /\ k - 1 \in 0..Doublings
        BY <1>1, <3>2
      <4>2. g[k - 1] \in P /\ g[k] = F[<<k, g[k - 1]>>]
        BY <1>4, <1>5, <4>1 DEF Solves
      <4> QED BY <3>2, <4>1, <4>2
    <3> QED BY <3>1, <3>2
  <2> QED BY <1>5, <2>1
<1>7. Grows(spacing)
  BY <1>6
<1> HIDE DEF spacing, F
<1> DEFINE A == {k \in 0..Doublings : spacing[k] \in P}
<1>8. 0 \in A
  BY <1>1, <1>7
<1>9. \A k \in 1..Doublings : k - 1 \in A => k \in A
  BY <1>1, <1>2, <1>7
<1> HIDE DEF A
<1>10. \A k \in 0..Doublings : k \in A
  BY <1>1, <1>8, <1>9, UpTo
<1>11. Doublings \in A
  BY <1>1, <1>10
<1> QED BY <1>3, <1>11 DEF A

\* Numbers stay whole multiples of 1/Unit, as floats and in texts.
LEMMA NumberType ==
    ASSUME NEW n \in Int
    PROVE  Float(n) \in Int /\ NumberText(n) \in Int
<1>1. /\ Spacing(n) \in Nat \ {0} /\ Step \in Nat \ {0} /\ Unit \in Nat \ {0}
      /\ Abs(n) \in Nat
  BY SpacingType, TextAssumption DEF Abs
<1>2. /\ \A a \in Nat : \A b \in Nat \ {0} : a \div b \in Nat /\ a % b \in Nat
      /\ \A a, b \in Nat : a * b \in Nat /\ Signed(n, a) \in Int
  BY DEF Signed
<1>3. Float(n) \in Int
  <2> DEFINE s == Spacing(n)
             down == Abs(n) \div s
             rest == 2 * (Abs(n) % s)
             up == rest > s \/ (rest = s /\ down % 2 = 1)
             many == IF up THEN down + 1 ELSE down
  <2>1. s \in Nat /\ many \in Nat
    <3>1. down \in Nat
      BY <1>1, <1>2
    <3> HIDE DEF down, up
    <3> QED BY <1>1, <3>1
  <2>2. Float(n) = Signed(n, s * many)
    BY DEF Float
  <2> HIDE DEF s, many
  <2> QED BY <1>2, <2>1, <2>2
<1>4. Decimal(n) \in Int
  <2> DEFINE steps == Abs(n) \div Step
             digits == steps % (Unit \div Step)
             rest == 2 * (Abs(n) % Step)
             up == rest > Step \/ (rest = Step /\ (digits = 0 \/ digits % 2 = 1))
             many == IF up THEN steps + 1 ELSE steps
  <2>1. many \in Nat
    <3>1. steps \in Nat
      BY <1>1, <1>2
    <3> HIDE DEF steps, up
    <3> QED BY <3>1
  <2>2. Decimal(n) = Signed(n, Step * many)
    BY DEF Decimal
  <2> HIDE DEF many
  <2> QED BY <1>1, <1>2, <2>1, <2>2
<1>5. Signed(n, (Abs(n) \div Unit) * Unit) \in Int
  BY <1>1, <1>2
<1>6. NumberText(n) \in Int
  BY <1>4, <1>5 DEF NumberText
<1> QED BY <1>3, <1>6

\* Products and divisions by a number that is no literal.
LEMMA TimesGrows ==
    ASSUME NEW d \in Nat, NEW a \in Nat, NEW b \in Nat, a <= b
    PROVE  d * a <= d * b /\ d * (a + 1) = d * a + d /\ d * a \in Nat
OBVIOUS

\* Quotient and rest, as the prover knows them.
LEMMA Division ==
    ASSUME NEW a \in Nat, NEW d \in Nat \ {0}
    PROVE  a \div d \in Nat /\ a % d \in 0..(d - 1) /\ a = d * (a \div d) + (a % d)
OBVIOUS

\* A quotient and a rest that fit are the quotient and the rest.
LEMMA DivisionIs ==
    ASSUME NEW d \in Nat \ {0}, NEW q \in Nat, NEW r \in 0..(d - 1)
    PROVE  (d * q + r) \div d = q /\ (d * q + r) % d = r
<1>1. d * q + r \in Nat
  BY TimesGrows
<1> DEFINE a == d * q + r
           p == a \div d
           s == a % d
<1>2. a \in Nat /\ p \in Nat /\ s \in 0..(d - 1) /\ a = d * p + s
  BY <1>1, Division
<1> HIDE DEF p, s
<1>3. ASSUME p < q PROVE FALSE
  <2>1. d * (p + 1) <= d * q /\ d * (p + 1) = d * p + d
    BY <1>2, <1>3, TimesGrows
  <2> QED BY <1>2, <2>1
<1>4. ASSUME q < p PROVE FALSE
  <2>1. d * (q + 1) <= d * p /\ d * (q + 1) = d * q + d
    BY <1>2, <1>4, TimesGrows
  <2> QED BY <1>2, <2>1
<1>5. p = q
  BY <1>2, <1>3, <1>4
<1> QED BY <1>2, <1>5 DEF p, s

\* A larger number has no smaller quotient.
LEMMA DivisionGrows ==
    ASSUME NEW d \in Nat \ {0}, NEW a \in Nat, NEW b \in Nat, a <= b
    PROVE  a \div d <= b \div d
<1> DEFINE p == a \div d
           q == b \div d
           r == a % d
           s == b % d
<1>1. /\ p \in Nat /\ r \in 0..(d - 1) /\ a = d * p + r
      /\ q \in Nat /\ s \in 0..(d - 1) /\ b = d * q + s
  BY Division
<1> HIDE DEF p, q, r, s
<1>2. ASSUME q < p PROVE FALSE
  <2>1. d * (q + 1) <= d * p /\ d * (q + 1) = d * q + d
    BY <1>1, <1>2, TimesGrows
  <2> QED BY <1>1, <2>1
<1>3. p <= q
  BY <1>1, <1>2
<1> QED BY <1>3 DEF p, q

\* A sign keeps the order of magnitudes.
LEMMA SignsKeepOrder ==
    ASSUME NEW m \in Int, NEW n \in Int, m <= n, NEW a \in Nat, NEW b \in Nat,
           Abs(m) <= Abs(n) => a <= b, Abs(n) <= Abs(m) => b <= a
    PROVE  Signed(m, a) <= Signed(n, b)
BY DEF Abs, Signed

\* The text of a number: whole steps, rounded up only if some decimal is written.
RoundedUp(q, r) ==
    LET digits == q % (Unit \div Step)
    IN  digits # 0 /\ (2 * r > Step \/ (2 * r = Step /\ digits % 2 = 1))
WholeSteps(a) == LET q == a \div Step
             IN  IF RoundedUp(q, a % Step) THEN q + 1 ELSE q

\* A number is written as whole steps of the last decimal.
LEMMA NumberTextIs ==
    ASSUME NEW n \in Int
    PROVE  NumberText(n) = Signed(n, Step * WholeSteps(Abs(n))) /\ WholeSteps(Abs(n)) \in Nat
<1> DEFINE a == Abs(n)
           q == a \div Step
           r == a % Step
           D == Unit \div Step
           k == a \div Unit
           s == a % Unit
           digits == q % D
<1>1. /\ Unit \in Nat \ {0} /\ Step \in Nat \ {0} /\ Step <= Unit /\ Unit % Step = 0 /\ a \in Nat
  BY TextAssumption DEF Abs
<1>2. D \in Nat \ {0} /\ Unit = Step * D
  <2>1. D \in Nat /\ Unit = Step * D + (Unit % Step)
    BY <1>1, Division
  <2>2. Unit = Step * D
    BY <1>1, <2>1
  <2>3. D # 0
    <3> HIDE DEF D
    <3> QED BY <1>1, <2>2
  <2> QED BY <2>1, <2>2, <2>3
<1>3. /\ q \in Nat /\ r \in 0..(Step - 1) /\ a = Step * q + r
      /\ k \in Nat /\ s \in 0..(Unit - 1) /\ a = Unit * k + s
  BY <1>1, Division
<1> HIDE DEF a, D
<1>4. digits \in Nat
  <2> HIDE DEF q
  <2> QED BY <1>2, <1>3, Division
<1>5. WholeSteps(a) = (IF RoundedUp(q, r) THEN q + 1 ELSE q) /\ WholeSteps(a) \in Nat
  <2>1. WholeSteps(a) = IF RoundedUp(q, r) THEN q + 1 ELSE q
    BY DEF WholeSteps
  <2> HIDE DEF q, r
  <2> QED BY <1>3, <2>1
<1>6. CASE s < Step
  <2>1. D * k \in Nat /\ Unit * k = Step * (D * k)
    <3> HIDE DEF k, s
    <3>1. D * k \in Nat
      BY <1>2, <1>3, TimesGrows
    <3>2. Unit * k = Step * (D * k)
      BY <1>1, <1>2, <1>3
    <3> QED BY <3>1, <3>2
  <2>2. q = D * k /\ r = s
    <3> DEFINE m == D * k
    <3>1. m \in Nat /\ s \in 0..(Step - 1) /\ a = Step * m + s
      BY <1>1, <1>3, <1>6, <2>1
    <3> HIDE DEF m, s
    <3>2. q = m /\ r = s
      BY <1>1, <3>1, DivisionIs
    <3> QED BY <3>2 DEF m
  <2>3. digits = 0
    <3>1. (D * k + 0) % D = 0
      <4> HIDE DEF k
      <4> QED BY <1>2, <1>3, DivisionIs
    <3>2. D * k + 0 = D * k
      <4> HIDE DEF k
      <4> QED BY <2>1
    <3> QED BY <2>2, <3>1, <3>2
  <2>4. ~RoundedUp(q, r)
    BY <2>3 DEF RoundedUp, D
  <2>5. NumberText(n) = Signed(n, k * Unit)
    BY <1>6 DEF NumberText, a
  <2>6. k * Unit = Step * q
    <3> HIDE DEF k, q
    <3> QED BY <1>1, <1>3, <2>1, <2>2
  <2> QED BY <1>5, <2>4, <2>5, <2>6 DEF a
<1>7. CASE ~(s < Step)
  <2>1. digits # 0
    <3> SUFFICES ASSUME digits = 0 PROVE FALSE
      OBVIOUS
    <3> DEFINE f == q \div D
    <3>1. f \in Nat /\ q = D * f + digits
      BY <1>2, <1>3, Division
    <3> HIDE DEF f, q, digits
    <3>2. q = D * f
      BY <1>2, <3>1
    <3>3. Step * q = Unit * f
      BY <1>1, <1>2, <3>1, <3>2
    <3>4. a = Unit * f + r /\ r \in 0..(Unit - 1)
      <4> HIDE DEF r
      <4> QED BY <1>1, <1>3, <3>3
    <3>5. a % Unit = r
      <4> HIDE DEF r
      <4> QED BY <1>1, <3>1, <3>4, DivisionIs
    <3> QED BY <1>1, <1>3, <1>7, <3>5
  <2>2. NumberText(n) = Decimal(n)
    BY <1>7 DEF NumberText, a
  <2>3. Decimal(n) = Signed(n, Step * IF RoundedUp(q, r) THEN q + 1 ELSE q)
    BY <2>1 DEF Decimal, RoundedUp, a, D
  <2> QED BY <1>5, <2>2, <2>3 DEF a
<1> QED BY <1>6, <1>7

\* Numbers keep their order in texts, and lose less than the last decimal.
LEMMA TextsKeepOrder ==
    ASSUME NEW m \in Int, NEW n \in Int, m <= n
    PROVE  NumberText(m) <= NumberText(n)
<1>1. Step \in Nat \ {0} /\ Unit \div Step \in Nat \ {0}
  <2>1. Step \in Nat \ {0} /\ Unit \in Nat \ {0} /\ Step <= Unit /\ Unit % Step = 0
    BY TextAssumption
  <2>2. Unit \div Step \in Nat /\ Unit = Step * (Unit \div Step) + (Unit % Step)
    BY <2>1, Division
  <2> DEFINE D == Unit \div Step
  <2>3. D \in Nat /\ Unit = Step * D
    BY <2>1, <2>2
  <2> HIDE DEF D
  <2>4. D # 0
    BY <2>1, <2>3
  <2> QED BY <2>1, <2>3, <2>4 DEF D
<1>2. ASSUME NEW a \in Nat, NEW b \in Nat, a <= b PROVE WholeSteps(a) <= WholeSteps(b)
  <2> DEFINE p == a \div Step
             q == b \div Step
             r == a % Step
             s == b % Step
  <2>1. /\ p \in Nat /\ r \in 0..(Step - 1) /\ a = Step * p + r
        /\ q \in Nat /\ s \in 0..(Step - 1) /\ b = Step * q + s
    BY <1>1, Division
  <2>2. p <= q
    BY <1>1, <1>2, DivisionGrows
  <2>3. /\ WholeSteps(a) = IF RoundedUp(p, r) THEN p + 1 ELSE p
        /\ WholeSteps(b) = IF RoundedUp(q, s) THEN q + 1 ELSE q
    BY DEF WholeSteps
  <2> HIDE DEF p, q, r, s
  <2>4. CASE p < q
    BY <2>1, <2>3, <2>4
  <2>5. CASE p = q
    <3>1. r <= s
      BY <1>1, <1>2, <2>1, <2>5
    <3>2. RoundedUp(p, r) => RoundedUp(q, s)
      <4> DEFINE d == p % (Unit \div Step)
      <4>1. /\ RoundedUp(p, r) <=> d # 0 /\ (2 * r > Step \/ (2 * r = Step /\ d % 2 = 1))
            /\ RoundedUp(q, s) <=> d # 0 /\ (2 * s > Step \/ (2 * s = Step /\ d % 2 = 1))
        BY <2>5 DEF RoundedUp
      <4> HIDE DEF d
      <4>2. 2 * r > Step => 2 * s > Step
        BY <1>1, <2>1, <3>1
      <4>3. 2 * r = Step => 2 * s > Step \/ 2 * s = Step
        BY <1>1, <2>1, <3>1
      <4> QED BY <4>1, <4>2, <4>3
    <3> QED BY <2>1, <2>3, <2>5, <3>2
  <2> QED BY <2>1, <2>2, <2>4, <2>5
<1> DEFINE a == Abs(m)
           b == Abs(n)
           x == WholeSteps(a)
           y == WholeSteps(b)
<1>3. /\ NumberText(m) = Signed(m, Step * x) /\ x \in Nat /\ a \in Nat
      /\ NumberText(n) = Signed(n, Step * y) /\ y \in Nat /\ b \in Nat
  <2>1. a \in Nat /\ b \in Nat
    BY DEF Abs
  <2> QED BY <2>1, NumberTextIs
<1>4. (a <= b => x <= y) /\ (b <= a => y <= x)
  BY <1>2, <1>3
<1> HIDE DEF x, y
<1>5. /\ Step * x \in Nat /\ Step * y \in Nat
      /\ x <= y => Step * x <= Step * y
      /\ y <= x => Step * y <= Step * x
  BY <1>1, <1>3, TimesGrows
<1> QED BY <1>3, <1>4, <1>5, SignsKeepOrder

\* What is written is less than the last decimal off (rbjson.cpp 546-555).
LEMMA TextsAreClose ==
    ASSUME NEW n \in Int
    PROVE  Abs(NumberText(n) - n) < Step
<1> DEFINE a == Abs(n)
           q == a \div Step
           r == a % Step
           x == Step * q
<1>1. Step \in Nat \ {0} /\ a \in Nat
  BY TextAssumption DEF Abs
<1>2. q \in Nat /\ r \in 0..(Step - 1) /\ a = x + r
  BY <1>1, Division
<1>3. /\ NumberText(n) = Signed(n, Step * WholeSteps(a))
      /\ WholeSteps(a) = IF RoundedUp(q, r) THEN q + 1 ELSE q
      /\ RoundedUp(q, r) => 2 * r > Step \/ 2 * r = Step
  BY NumberTextIs DEF WholeSteps, RoundedUp
<1>4. x \in Nat /\ Step * (q + 1) = x + Step
  <2> HIDE DEF q
  <2> QED BY <1>1, <1>2, TimesGrows
<1> HIDE DEF x, q, r
<1>5. NumberText(n) = Signed(n, IF RoundedUp(q, r) THEN x + Step ELSE x)
  BY <1>3, <1>4 DEF x
<1>6. CASE RoundedUp(q, r)
  <2>1. NumberText(n) = Signed(n, x + Step) /\ 0 < r
    BY <1>1, <1>2, <1>3, <1>5, <1>6
  <2> QED BY <1>1, <1>2, <1>4, <2>1 DEF a, Abs, Signed
<1>7. CASE ~RoundedUp(q, r)
  <2>1. NumberText(n) = Signed(n, x)
    BY <1>5, <1>7
  <2> QED BY <1>1, <1>2, <1>4, <2>1 DEF a, Abs, Signed
<1> QED BY <1>6, <1>7

\* m is nearer to zero than n: its floats are as finely spaced, or it is below a float
\* that is a multiple of the spacing at n, and n is not.
LEMMA SpacingsGrow ==
    ASSUME NEW m \in Int, NEW n \in Int, Abs(m) <= Abs(n)
    PROVE  \/ Spacing(m) = Spacing(n)
           \/ \E h \in Nat : /\ Spacing(n) = 2 * h /\ Spacing(m) <= h
                             /\ Abs(m) < Spacing(m) * Mantissa /\ h * Mantissa <= Abs(n)
<1> DEFINE a == Abs(m)
           b == Abs(n)
           Coarser(c, finer) == IF c < finer * Mantissa THEN finer ELSE 2 * finer
           Grows(c, f) ==
               f = [k \in 0..Doublings |-> IF k = 0 THEN Least ELSE Coarser(c, f[k - 1])]
           u == CHOOSE f : Grows(a, f)
           v == CHOOSE f : Grows(b, f)
           Apart(x, y) == \E h \in Nat : /\ y = 2 * h /\ x <= h
                                         /\ a < x * Mantissa /\ h * Mantissa <= b
           A == {k \in 0..Doublings : u[k] \in Nat /\ v[k] \in Nat
                                      /\ (u[k] = v[k] \/ Apart(u[k], v[k]))}
<1>1. Doublings \in Nat /\ Least \in Nat /\ Mantissa \in Nat /\ a \in Nat /\ b \in Nat /\ a <= b
  BY TextAssumption DEF Abs
<1>2. Spacing(m) = u[Doublings] /\ Spacing(n) = v[Doublings]
  BY DEF Spacing
<1> HIDE DEF a, b
<1>3. ASSUME NEW c \in Nat PROVE \E f : Grows(c, f)
  <2> DEFINE F == [p \in (1..Doublings) \X Nat |-> Coarser(c, p[2])]
  <2>1. \A x \in Nat : Coarser(c, x) \in Nat
    BY <1>1, <1>3
  <2> HIDE DEF Coarser
  <2>2. \A k \in 1..Doublings : \A x \in Nat : F[<<k, x>>] = Coarser(c, x)
    OBVIOUS
  <2> HIDE DEF F
  <2>3. ASSUME NEW k \in 1..Doublings, NEW x \in Nat PROVE F[<<k, x>>] \in Nat
    BY <2>1, <2>2
  <2>4. PICK g \in [0..Doublings -> Nat] : Solves(g, Doublings, Least, F)
    BY <1>1, <2>3, RecursionIn
  <2>5. ASSUME NEW k \in 0..Doublings
        PROVE  g[k] = IF k = 0 THEN Least ELSE Coarser(c, g[k - 1])
    <3>1. CASE k = 0
      BY <2>4, <3>1 DEF Solves
    <3>2. CASE k # 0
      <4>1. k \in 1..Doublings /\ k - 1 \in 0..Doublings
        BY <1>1, <3>2
      <4>2. g[k - 1] \in Nat /\ g[k] = F[<<k, g[k - 1]>>]
        BY <2>4, <4>1 DEF Solves
      <4> QED BY <2>2, <3>2, <4>1, <4>2
    <3> QED BY <3>1, <3>2
  <2>6. g = [k \in 0..Doublings |-> g[k]]
    BY <2>4
  <2> QED BY <2>5, <2>6
<1>4. Grows(a, u) /\ Grows(b, v)
  <2> HIDE DEF Grows
  <2> QED BY <1>1, <1>3
<1> HIDE DEF u, v
<1>5. /\ u[0] = Least /\ v[0] = Least
      /\ \A k \in 1..Doublings : u[k] = Coarser(a, u[k - 1]) /\ v[k] = Coarser(b, v[k - 1])
  <2> HIDE DEF Coarser
  <2>1. 0 \in 0..Doublings /\ \A k \in 1..Doublings : k \in 0..Doublings /\ k # 0
    BY <1>1
  <2> QED BY <1>4, <2>1
<1>6. 0 \in A
  BY <1>1, <1>5
<1>7. ASSUME NEW k \in 1..Doublings, k - 1 \in A PROVE k \in A
  <2> DEFINE x == u[k - 1]
             y == v[k - 1]
  <2>1. x \in Nat /\ y \in Nat /\ (x = y \/ Apart(x, y)) /\ k \in 0..Doublings
    BY <1>1, <1>7
  <2>2. u[k] = Coarser(a, x) /\ v[k] = Coarser(b, y)
    BY <1>5
  <2> HIDE DEF x, y
  <2>3. Coarser(a, x) \in Nat /\ Coarser(b, y) \in Nat
    BY <2>1
  <2>4. x * Mantissa \in Nat /\ y * Mantissa \in Nat
    BY <1>1, <2>1, TimesGrows
  <2>5. Coarser(a, x) = Coarser(b, y) \/ Apart(Coarser(a, x), Coarser(b, y))
    <3>1. CASE x = y
      <4>1. CASE a < x * Mantissa /\ ~(b < x * Mantissa)
        <5>1. Coarser(a, x) = x /\ Coarser(b, y) = 2 * x /\ x * Mantissa <= b
          BY <1>1, <2>4, <3>1, <4>1
        <5> HIDE DEF Coarser
        <5> QED BY <2>1, <4>1, <5>1
      <4>2. CASE ~(a < x * Mantissa)
        BY <1>1, <2>4, <3>1, <4>2
      <4>3. CASE b < x * Mantissa
        BY <1>1, <2>4, <3>1, <4>3
      <4> QED BY <4>1, <4>2, <4>3
    <3>2. CASE Apart(x, y)
      <4>1. PICK h \in Nat : y = 2 * h /\ x <= h /\ a < x * Mantissa /\ h * Mantissa <= b
        BY <3>2
      <4>2. Coarser(a, x) = x
        BY <4>1
      <4>3. CASE b < y * Mantissa
        <5>1. Coarser(b, y) = y
          BY <4>3
        <5> HIDE DEF Coarser
        <5> QED BY <3>2, <4>2, <5>1
      <4>4. CASE ~(b < y * Mantissa)
        <5>1. Coarser(b, y) = 2 * y /\ y * Mantissa <= b /\ x <= y
          BY <1>1, <2>1, <2>4, <4>1, <4>4
        <5> HIDE DEF Coarser
        <5> QED BY <2>1, <4>1, <4>2, <5>1
      <4> QED BY <4>3, <4>4
    <3> QED BY <2>1, <3>1, <3>2
  <2> HIDE DEF Coarser, Apart
  <2> QED BY <2>1, <2>2, <2>3, <2>5
<1> HIDE DEF A
<1>8. \A k \in 0..Doublings : k \in A
  BY <1>1, <1>6, <1>7, UpTo
<1>9. Doublings \in A
  BY <1>1, <1>8
<1> QED BY <1>2, <1>9 DEF A, a, b

\* the nearest multiple of a spacing, by how many times
Multiple(a, s) ==
    LET down == a \div s
        rest == 2 * (a % s)
    IN  IF rest > s \/ (rest = s /\ down % 2 = 1) THEN down + 1 ELSE down

\* Rounding to a multiple gives the quotient or the next number.
LEMMA MultipleIs ==
    ASSUME NEW a \in Nat, NEW s \in Nat \ {0}
    PROVE  /\ Multiple(a, s) \in Nat /\ s * Multiple(a, s) \in Nat
           /\ a \div s <= Multiple(a, s) /\ Multiple(a, s) <= (a \div s) + 1
<1> DEFINE q == a \div s
           r == a % s
<1>1. q \in Nat
  BY Division
<1>2. Multiple(a, s) = q + 1 \/ Multiple(a, s) = q
  BY DEF Multiple
<1> HIDE DEF q
<1>3. Multiple(a, s) \in Nat /\ q <= Multiple(a, s) /\ Multiple(a, s) <= q + 1
  BY <1>1, <1>2
<1> QED BY <1>3, TimesGrows DEF q

\* A larger number is not rounded to a smaller multiple.
LEMMA MultiplesGrow ==
    ASSUME NEW a \in Nat, NEW b \in Nat, a <= b, NEW s \in Nat \ {0}
    PROVE  Multiple(a, s) <= Multiple(b, s)
<1> DEFINE p == a \div s
           q == b \div s
           r == a % s
           t == b % s
           Up(c, rest) == 2 * rest > s \/ (2 * rest = s /\ c % 2 = 1)
<1>1. /\ p \in Nat /\ r \in 0..(s - 1) /\ a = s * p + r
      /\ q \in Nat /\ t \in 0..(s - 1) /\ b = s * q + t
  BY Division
<1>2. p <= q
  BY DivisionGrows
<1>3. /\ Multiple(a, s) = IF Up(p, r) THEN p + 1 ELSE p
      /\ Multiple(b, s) = IF Up(q, t) THEN q + 1 ELSE q
  BY DEF Multiple
<1> HIDE DEF p, q, r, t
<1>4. CASE p < q
  <2> HIDE DEF Up
  <2> QED BY <1>1, <1>3, <1>4
<1>5. CASE p = q
  <2>1. r <= t
    BY <1>1, <1>5
  <2>2. 2 * r > s => 2 * t > s
    BY <1>1, <2>1
  <2>3. 2 * r = s => 2 * t > s \/ 2 * t = s
    BY <1>1, <2>1
  <2>4. Up(p, r) => Up(q, t)
    BY <1>5, <2>2, <2>3
  <2> HIDE DEF Up
  <2> QED BY <1>1, <1>3, <1>5, <2>4
<1> QED BY <1>1, <1>2, <1>4, <1>5

\* Rounding to floats keeps the order of numbers.
LEMMA FloatsKeepOrder ==
    ASSUME NEW m \in Int, NEW n \in Int, m <= n
    PROVE  Float(m) <= Float(n)
<1> DEFINE Magnitude(k) == Spacing(k) * Multiple(Abs(k), Spacing(k))
<1>1. ASSUME NEW k \in Int
      PROVE  /\ Float(k) = Signed(k, Magnitude(k)) /\ Magnitude(k) \in Nat
             /\ Abs(k) \in Nat /\ Spacing(k) \in Nat \ {0}
             /\ Multiple(Abs(k), Spacing(k)) \in Nat
  <2>1. Float(k) = Signed(k, Magnitude(k))
    BY DEF Float, Multiple
  <2>2. Abs(k) \in Nat /\ Spacing(k) \in Nat \ {0}
    BY SpacingType DEF Abs
  <2> QED BY <2>1, <2>2, MultipleIs
<1>2. ASSUME NEW j \in Int, NEW k \in Int, Abs(j) <= Abs(k) PROVE Magnitude(j) <= Magnitude(k)
  <2> DEFINE a == Abs(j)
             b == Abs(k)
             s == Spacing(j)
             t == Spacing(k)
  <2>1. a \in Nat /\ b \in Nat /\ s \in Nat \ {0} /\ t \in Nat \ {0} /\ a <= b
        /\ Multiple(a, s) \in Nat /\ Multiple(b, t) \in Nat /\ Multiple(a, s) <= (a \div s) + 1
        /\ b \div t <= Multiple(b, t) /\ a \div s \in Nat /\ b \div t \in Nat
    BY <1>1, <1>2, MultipleIs, Division
  <2>2. s = t \/ \E h \in Nat : t = 2 * h /\ s <= h /\ a < s * Mantissa /\ h * Mantissa <= b
    BY <1>2, SpacingsGrow
  <2> HIDE DEF a, b, s, t
  <2>3. CASE s = t
    <3>1. Multiple(a, s) <= Multiple(b, s)
      BY <2>1, MultiplesGrow
    <3>2. s * Multiple(a, s) <= s * Multiple(b, s)
      BY <2>1, <2>3, <3>1, TimesGrows
    <3> QED BY <2>3, <3>2 DEF a, b, s, t
  <2>4. ASSUME NEW h \in Nat, t = 2 * h, s <= h, a < s * Mantissa, h * Mantissa <= b
        PROVE  s * Multiple(a, s) <= t * Multiple(b, t)
    <3> DEFINE half == Mantissa \div 2
    <3>1. Mantissa \in Nat \ {0} /\ half \in Nat /\ Mantissa = 2 * half
      BY TextAssumption
    <3> HIDE DEF half
    <3>2. a \div s < Mantissa
      <4> DEFINE q == a \div s
                 r == a % s
      <4>1. q \in Nat /\ r \in 0..(s - 1) /\ a = s * q + r
        BY <2>1, Division
      <4> HIDE DEF q, r
      <4>2. ASSUME Mantissa <= q PROVE FALSE
        <5>1. s * Mantissa <= s * q /\ s * q \in Nat /\ s * Mantissa \in Nat
          BY <2>1, <3>1, <4>1, <4>2, TimesGrows
        <5> QED BY <2>1, <2>4, <4>1, <5>1
      <4>3. q < Mantissa
        BY <3>1, <4>1, <4>2
      <4> QED BY <4>3 DEF q
    <3>3. Multiple(a, s) <= Mantissa
      BY <2>1, <3>1, <3>2
    <3>4. s * Multiple(a, s) <= s * Mantissa
      BY <2>1, <3>1, <3>3, TimesGrows
    <3>5. s * Mantissa <= h * Mantissa
      <4>1. Mantissa * s <= Mantissa * h
        BY <2>1, <2>4, <3>1, TimesGrows
      <4> QED BY <2>1, <3>1, <4>1
    <3>6. h * Mantissa = t * half
      BY <2>4, <3>1
    <3>7. half <= b \div t
      <4>1. t * half \in Nat /\ t * half + 0 = t * half /\ t * half <= b
        BY <2>1, <2>4, <3>1, <3>6, TimesGrows
      <4>2. (t * half) \div t <= b \div t
        BY <2>1, <4>1, DivisionGrows
      <4>3. (t * half + 0) \div t = half
        BY <2>1, <3>1, DivisionIs
      <4> QED BY <4>1, <4>2, <4>3
    <3>8. half <= Multiple(b, t)
      BY <2>1, <3>1, <3>7
    <3>9. t * half <= t * Multiple(b, t)
      BY <2>1, <3>1, <3>8, TimesGrows
    <3>10. /\ s * Multiple(a, s) \in Nat /\ s * Mantissa \in Nat /\ h * Mantissa \in Nat
           /\ t * Multiple(b, t) \in Nat
      BY <2>1, <2>4, <3>1, TimesGrows
    <3> QED BY <3>4, <3>5, <3>6, <3>9, <3>10
  <2>5. s * Multiple(a, s) <= t * Multiple(b, t)
    BY <2>1, <2>2, <2>3, <2>4 DEF a, b, s, t
  <2> QED BY <2>5 DEF a, b, s, t
<1> DEFINE x == Magnitude(m)
           y == Magnitude(n)
<1>3. /\ Float(m) = Signed(m, x) /\ Float(n) = Signed(n, y) /\ x \in Nat /\ y \in Nat
      /\ Abs(m) <= Abs(n) => x <= y
      /\ Abs(n) <= Abs(m) => y <= x
  BY <1>1, <1>2
<1> HIDE DEF x, y
<1> QED BY <1>3, SignsKeepOrder

\* A number that is not less than another is not less either after both went through a
\* text and were parsed, and a text is less than its last decimal off (rbjson.cpp 546-555,
\* rbjson.h 189).
THEOREM NumbersKeepOrder ==
    ASSUME NEW m \in Int, NEW n \in Int, m <= n
    PROVE  /\ Float(NumberText(m)) <= Float(NumberText(n))
           /\ Abs(NumberText(n) - n) < Step
<1>1. NumberText(m) \in Int /\ NumberText(n) \in Int
  BY NumberType
<1>2. NumberText(m) <= NumberText(n)
  BY TextsKeepOrder
<1> QED BY <1>1, <1>2, FloatsKeepOrder, TextsAreClose

\* Sequences joined one after the other are a sequence.
LEMMA Flattened ==
    ASSUME NEW T, NEW N \in Nat, NEW seqs, seqs \in [1..N -> Seq(T)]
    PROVE  FlattenSeq(seqs) \in Seq(T)
<1>1. /\ Len(seqs) = N /\ <<>> \in Seq(T) /\ \A i \in 1..N : seqs[i] \in Seq(T)
  OBVIOUS
<1>2. CASE N = 0
  <2>1. seqs = <<>>
    BY <1>2
  <2> QED BY <1>1, <1>2, <2>1 DEF FlattenSeq
<1>3. CASE N # 0
  <2> DEFINE Flattens(f) == f = [i \in 1..N |-> IF i = 1 THEN seqs[i] ELSE f[i - 1] \o seqs[i]]
             flatten == CHOOSE f : Flattens(f)
             P == Seq(T)
             F == [p \in (1..N) \X P |-> IF p[1] = 1 THEN seqs[1] ELSE p[2] \o seqs[p[1]]]
  <2>1. FlattenSeq(seqs) = flatten[N]
    BY <1>1, <1>3 DEF FlattenSeq
  <2>2. \A i \in 1..N : seqs[i] \in P
    BY <1>1
  <2>3. \A i \in 1..N : \A x \in P : x \o seqs[i] \in P
    BY <2>2, ConcatProperties
  <2>4. \A i \in 1..N : \A x \in P : F[<<i, x>>] = IF i = 1 THEN seqs[i] ELSE x \o seqs[i]
    OBVIOUS
  <2> HIDE DEF flatten, F
  <2>5. PICK g \in [0..N -> P] : Solves(g, N, seqs[1], F)
    <3> HIDE DEF P
    <3>1. ASSUME NEW i \in 1..N, NEW x \in P PROVE F[<<i, x>>] \in P
      <4>1. F[<<i, x>>] = IF i = 1 THEN seqs[i] ELSE x \o seqs[i]
        BY <2>4
      <4> QED BY <2>2, <2>3, <4>1
    <3> DEFINE base == seqs[1]
    <3>2. base \in P
      BY <1>3, <2>2
    <3> HIDE DEF base
    <3>3. \E g \in [0..N -> P] : Solves(g, N, base, F)
      BY <3>1, <3>2, RecursionIn
    <3> QED BY <3>3 DEF base
  <2>6. \A i \in 0..N : g[i] \in P
    BY <2>5
  <2>7. \E f : Flattens(f)
    <3> DEFINE f == [i \in 1..N |-> g[i]]
    <3>1. ASSUME NEW i \in 1..N PROVE f[i] = IF i = 1 THEN seqs[i] ELSE f[i - 1] \o seqs[i]
      <4> HIDE DEF P
      <4>1. i - 1 \in 0..N /\ (i # 1 => f[i - 1] = g[i - 1]) /\ f[i] = g[i]
        OBVIOUS
      <4>2. g[i - 1] \in P /\ g[i] = F[<<i, g[i - 1]>>]
        BY <2>5, <2>6, <4>1 DEF Solves
      <4> HIDE DEF f
      <4> QED BY <2>4, <4>1, <4>2
    <3>2. f = [i \in 1..N |-> f[i]]
      OBVIOUS
    <3> HIDE DEF f
    <3>3. Flattens(f)
      BY <3>1, <3>2
    <3> QED BY <3>3
  <2>8. Flattens(flatten)
    <3> HIDE DEF Flattens
    <3> QED BY <2>7 DEF flatten
  <2> DEFINE A == {i \in 0..N : i # 0 => flatten[i] \in P}
  <2>9. 0 \in A
    OBVIOUS
  <2>10. ASSUME NEW i \in 1..N, i - 1 \in A PROVE i \in A
    <3>1. flatten[i] = IF i = 1 THEN seqs[i] ELSE flatten[i - 1] \o seqs[i]
      BY <2>8
    <3>2. i # 1 => flatten[i - 1] \in P
      BY <2>10
    <3> HIDE DEF P
    <3>3. flatten[i] \in P
      BY <2>2, <2>3, <3>1, <3>2
    <3> QED BY <3>3
  <2> HIDE DEF A
  <2>11. \A i \in 0..N : i \in A
    BY <2>9, <2>10, UpTo
  <2> QED BY <1>3, <2>1, <2>11 DEF A
<1> QED BY <1>2, <1>3

\* What is escaped has no zero in it either.
LEMMA EscapedType ==
    ASSUME NEW chars \in Strings
    PROVE  Escaped(chars) \in Strings
<1> DEFINE C == Nat \ {0}
           N == Len(chars)
           seqs == [i \in DOMAIN chars |-> IF chars[i] \in DOMAIN EscapeOf
                                           THEN <<Backslash, EscapeOf[chars[i]]>> ELSE <<chars[i]>>]
<1>1. N \in Nat /\ DOMAIN chars = 1..N /\ \A i \in 1..N : chars[i] \in C
  BY StringType
<1>2. \A c \in DOMAIN EscapeOf : EscapeOf[c] \in C
  BY DEF EscapeOf, Quote, Backslash
<1>3. Backslash \in C
  BY DEF Backslash
<1> HIDE DEF C
<1>4. \A a, b \in C : <<a>> \in Seq(C) /\ <<a, b>> \in Seq(C)
  OBVIOUS
<1>5. seqs \in [1..N -> Seq(C)]
  <2>1. ASSUME NEW i \in 1..N
        PROVE  (IF chars[i] \in DOMAIN EscapeOf
                THEN <<Backslash, EscapeOf[chars[i]]>> ELSE <<chars[i]>>) \in Seq(C)
    <3>1. chars[i] \in C
      BY <1>1
    <3> QED BY <1>2, <1>3, <1>4, <3>1
  <2> QED BY <1>1, <2>1
<1>6. Escaped(chars) = FlattenSeq(seqs)
  BY DEF Escaped
<1> HIDE DEF seqs
<1>7. FlattenSeq(seqs) \in Seq(C)
  BY <1>1, <1>5, Flattened
<1> QED BY <1>6, <1>7 DEF C, Strings

Marks == {"lbrace", "rbrace", "lbracket", "rbracket", "colon", "comma"}
Lexemes == [mark : Marks] \cup [quoted : Strings] \cup [primitive : Primitives \cup {Junk}]

\* Marks, strings and primitives are lexemes.
LEMMA LexemesHave ==
    /\ \A m \in Marks : Mark(m) \in Lexemes
    /\ \A chars \in Strings : Quoted(chars) \in Lexemes
    /\ \A v \in Primitives \cup {Junk} : Primitive(v) \in Lexemes
<1>1. \A m \in Marks : Mark(m) \in [mark : Marks]
  BY DEF Mark
<1>2. \A chars \in Strings : Quoted(chars) \in [quoted : Strings]
  BY EscapedType DEF Quoted
<1>3. \A v \in Primitives \cup {Junk} : Primitive(v) \in [primitive : Primitives \cup {Junk}]
  BY DEF Primitive
<1> QED BY <1>1, <1>2, <1>3 DEF Lexemes

\* Texts with commas between them and a bracket on each side are a text.
LEMMA Bracketed ==
    ASSUME NEW N \in Nat, NEW parts, parts \in [1..N -> Seq(Lexemes)],
           NEW m \in Marks, NEW n \in Marks
    PROVE  LET text == <<Mark(m)>> \o Joined(parts) \o <<Mark(n)>>
           IN  text \in Seq(Lexemes) /\ Len(text) \in Nat \ {0} /\ text[1] = Mark(m)
<1> DEFINE seqs == [i \in DOMAIN parts |->
                       IF i = 1 THEN parts[i] ELSE <<Mark("comma")>> \o parts[i]]
           L == Lexemes
<1>1. \A l \in L : <<l>> \in Seq(L) /\ Len(<<l>>) = 1 /\ <<l>>[1] = l
  OBVIOUS
<1>2. "comma" \in Marks /\ Mark("comma") \in L /\ Mark(m) \in L /\ Mark(n) \in L
  BY LexemesHave DEF Marks
<1>3. DOMAIN parts = 1..N /\ \A i \in 1..N : parts[i] \in Seq(L)
  OBVIOUS
<1> HIDE DEF L
<1>4. seqs \in [1..N -> Seq(L)]
  <2>1. ASSUME NEW i \in 1..N
        PROVE  (IF i = 1 THEN parts[i] ELSE <<Mark("comma")>> \o parts[i]) \in Seq(L)
    <3>1. parts[i] \in Seq(L) /\ <<Mark("comma")>> \in Seq(L)
      BY <1>1, <1>2, <1>3
    <3>2. <<Mark("comma")>> \o parts[i] \in Seq(L)
      BY <3>1, ConcatProperties
    <3> QED BY <3>1, <3>2
  <2> QED BY <1>3, <2>1
<1>5. Joined(parts) = FlattenSeq(seqs)
  BY DEF Joined
<1> HIDE DEF seqs
<1>6. Joined(parts) \in Seq(L)
  BY <1>4, <1>5, Flattened
<1> DEFINE front == <<Mark(m)>> \o Joined(parts)
           text == front \o <<Mark(n)>>
<1>7. /\ front \in Seq(L) /\ Len(front) = 1 + Len(Joined(parts)) /\ front[1] = Mark(m)
      /\ Len(Joined(parts)) \in Nat
  <2> DEFINE s == <<Mark(m)>>
             t == Joined(parts)
  <2>1. s \in Seq(L) /\ t \in Seq(L) /\ Len(s) = 1 /\ s[1] = Mark(m) /\ Len(t) \in Nat
    BY <1>1, <1>2, <1>6
  <2> HIDE DEF s, t
  <2>2. /\ s \o t \in Seq(L) /\ Len(s \o t) = Len(s) + Len(t)
        /\ \A i \in 1..(Len(s) + Len(t)) : (s \o t)[i] = IF i <= Len(s) THEN s[i] ELSE t[i - Len(s)]
    BY <2>1, ConcatProperties
  <2>3. 1 \in 1..(Len(s) + Len(t)) /\ 1 <= Len(s)
    BY <2>1
  <2> QED BY <2>1, <2>2, <2>3 DEF s, t
<1> HIDE DEF front
<1>8. text \in Seq(L) /\ Len(text) \in Nat \ {0} /\ text[1] = Mark(m)
  <2> DEFINE t == <<Mark(n)>>
  <2>1. t \in Seq(L) /\ Len(t) = 1
    BY <1>1, <1>2
  <2> HIDE DEF t
  <2>2. /\ front \o t \in Seq(L) /\ Len(front \o t) = Len(front) + Len(t)
        /\ \A i \in 1..(Len(front) + Len(t)) :
              (front \o t)[i] = IF i <= Len(front) THEN front[i] ELSE t[i - Len(front)]
    BY <1>7, <2>1, ConcatProperties
  <2>3. Len(front) \in Nat \ {0} /\ 1 \in 1..(Len(front) + Len(t)) /\ 1 <= Len(front)
    BY <1>7, <2>1
  <2> QED BY <1>7, <2>1, <2>2, <2>3 DEF t
<1> QED BY <1>8 DEF front, L

\* the text of a value, from the texts of what is in it
TextOf(v, text) ==
    CASE Is("object", v) -> ObjectText(v.object, text)
      [] Is("array", v) -> ArrayText(v.array, text)
      [] Is("string", v) -> <<Quoted(v.string)>>
      [] Is("number", v) -> <<Primitive(Number(NumberText(v.number)))>>
      [] OTHER -> <<Primitive(v)>>

\* A value is of one kind.
LEMMA OneKind ==
    ASSUME NEW depth \in 0..MaxTokens, NEW v \in Values[depth]
    PROVE  /\ Is("object", v) => ~Is("array", v) /\ ~Is("string", v) /\ ~Is("number", v)
           /\ Is("array", v) => ~Is("string", v) /\ ~Is("number", v)
           /\ Is("string", v) => ~Is("number", v)
           /\ depth = 0 => ~Is("object", v) /\ ~Is("array", v)
<1>1. ASSUME Is("object", v) PROVE ~Is("array", v) /\ ~Is("string", v) /\ ~Is("number", v)
  <2>1. v = [object |-> v.object]
    BY <1>1, ValueKinds DEF Object
  <2> QED BY <2>1 DEF Is
<1>2. ASSUME Is("array", v) PROVE ~Is("string", v) /\ ~Is("number", v)
  <2>1. v = [array |-> v.array]
    BY <1>2, ValueKinds DEF Array
  <2> QED BY <2>1 DEF Is
<1>3. ASSUME Is("string", v) PROVE ~Is("number", v)
  <2> DEFINE Below == Values[depth - 1]
  <2>1. Values[depth] = IF depth = 0 THEN Flat ELSE Deeper(Below)
    BY ValuesAre, Zenon
  <2> HIDE DEF Below
  <2>2. v \in Primitives \/ v \in [string : Strings]
        \/ v \in [array : Seq(Below)] \/ v \in [object : MembersOf(Below)]
    BY <2>1 DEF Flat, Deeper
  <2>3. v \notin Primitives
    BY <1>3 DEF Is, Primitives
  <2>4. v \in [string : Strings] => "number" \notin DOMAIN v
    OBVIOUS
  <2>5. v \in [array : Seq(Below)] => "number" \notin DOMAIN v
    OBVIOUS
  <2>6. v \in [object : MembersOf(Below)] => "number" \notin DOMAIN v
    OBVIOUS
  <2> QED BY <2>2, <2>3, <2>4, <2>5, <2>6 DEF Is
<1> QED BY <1>1, <1>2, <1>3, ValueKinds

\* Texts of values are made of lexemes, and those of objects begin with a brace.
LEMMA TextOfType ==
    ASSUME NEW depth \in 0..MaxTokens, NEW v \in Values[depth], NEW text,
           depth # 0 => text \in [Values[depth - 1] -> Seq(Lexemes)]
    PROVE  /\ TextOf(v, text) \in Seq(Lexemes)
           /\ Is("object", v) => /\ Len(TextOf(v, text)) \in Nat \ {0}
                                 /\ TextOf(v, text)[1] = Mark("lbrace")
<1> DEFINE Below == Values[depth - 1]
           L == Lexemes
<1>1. "lbrace" \in Marks /\ "rbrace" \in Marks /\ "lbracket" \in Marks /\ "rbracket" \in Marks
      /\ "colon" \in Marks
  BY DEF Marks
<1>2. CASE Is("object", v)
  <2> DEFINE members == v.object
             parts == [i \in DOMAIN members |->
                          <<Quoted(members[i].name), Mark("colon")>> \o text[members[i].value]]
             N == Len(members)
  <2>1. depth # 0 /\ members \in MembersOf(Below)
    BY <1>2, ValueKinds
  <2> HIDE DEF members, Below
  <2>2. N \in Nat /\ DOMAIN members = 1..N
        /\ \A i \in 1..N : members[i].name \in Strings /\ members[i].value \in Below
    BY <2>1, MemberType
  <2>3. ASSUME NEW i \in 1..N
        PROVE  <<Quoted(members[i].name), Mark("colon")>> \o text[members[i].value] \in Seq(L)
    <3> DEFINE s == <<Quoted(members[i].name), Mark("colon")>>
               t == text[members[i].value]
    <3>1. Quoted(members[i].name) \in L /\ Mark("colon") \in L
      BY <1>1, <2>2, LexemesHave
    <3>2. s \in Seq(L)
      <4> HIDE DEF L
      <4> QED BY <3>1
    <3>3. t \in Seq(L)
      BY <2>1, <2>2 DEF Below
    <3> HIDE DEF s, t, L
    <3>4. s \o t \in Seq(L)
      BY <3>2, <3>3, ConcatProperties
    <3> QED BY <3>4 DEF s, t
  <2>4. parts \in [1..N -> Seq(Lexemes)]
    BY <2>2, <2>3
  <2>5. TextOf(v, text) = <<Mark("lbrace")>> \o Joined(parts) \o <<Mark("rbrace")>>
    <3>1. ObjectText(v.object, text) = <<Mark("lbrace")>> \o Joined(parts) \o <<Mark("rbrace")>>
      BY DEF ObjectText, members
    <3> HIDE DEF parts
    <3> QED BY <1>2, <3>1, OneKind DEF TextOf
  <2> HIDE DEF parts, N
  <2>6. TextOf(v, text) \in Seq(Lexemes) /\ Len(TextOf(v, text)) \in Nat \ {0}
        /\ TextOf(v, text)[1] = Mark("lbrace")
    BY <1>1, <2>2, <2>4, <2>5, Bracketed
  <2> QED BY <2>6
<1>3. CASE Is("array", v)
  <2> DEFINE items == v.array
             parts == [i \in DOMAIN items |-> text[items[i]]]
             N == Len(items)
  <2>1. depth # 0 /\ items \in Seq(Below)
    BY <1>3, ValueKinds
  <2>2. ~Is("object", v)
    BY <1>3, OneKind
  <2>3. N \in Nat /\ DOMAIN items = 1..N /\ \A i \in 1..N : items[i] \in Below
    BY <2>1, ElementOfSeq
  <2> HIDE DEF items
  <2>4. parts \in [1..N -> Seq(Lexemes)]
    BY <2>1, <2>3
  <2>5. TextOf(v, text) = <<Mark("lbracket")>> \o Joined(parts) \o <<Mark("rbracket")>>
    <3>1. ArrayText(v.array, text) = <<Mark("lbracket")>> \o Joined(parts) \o <<Mark("rbracket")>>
      BY DEF ArrayText, items
    <3> HIDE DEF parts
    <3> QED BY <1>3, <2>2, <3>1, OneKind DEF TextOf
  <2> HIDE DEF parts, N
  <2>6. TextOf(v, text) \in Seq(Lexemes)
    BY <1>1, <2>3, <2>4, <2>5, Bracketed
  <2> QED BY <2>2, <2>6
<1>4. CASE ~Is("object", v) /\ ~Is("array", v)
  <2>1. \A l \in L : <<l>> \in Seq(L)
    OBVIOUS
  <2>2. CASE Is("string", v)
    <3>1. TextOf(v, text) = <<Quoted(v.string)>>
      BY <1>4, <2>2, OneKind DEF TextOf
    <3>2. v.string \in Strings
      BY <2>2, ValueKinds
    <3> QED BY <1>4, <2>1, <3>1, <3>2, LexemesHave
  <2>3. CASE ~Is("string", v) /\ Is("number", v)
    <3>1. TextOf(v, text) = <<Primitive(Number(NumberText(v.number)))>> /\ v.number \in Int
      BY <1>4, <2>3, ValueKinds DEF TextOf
    <3>2. Number(NumberText(v.number)) \in Primitives
      BY <3>1, NumberType DEF Number, Primitives
    <3> QED BY <1>4, <2>1, <3>1, <3>2, LexemesHave
  <2>4. CASE ~Is("string", v) /\ ~Is("number", v)
    <3>1. TextOf(v, text) = <<Primitive(v)>> /\ v \in Primitives
      BY <1>4, <2>4, ValueKinds DEF TextOf
    <3> QED BY <1>4, <2>1, <3>1, LexemesHave
  <2> QED BY <2>2, <2>3, <2>4
<1> QED BY <1>2, <1>3, <1>4

\* texts is the function its recursion describes.
LEMMA TextsAre ==
    /\ texts = [depth \in 0..MaxTokens |->
                   [v \in Values[depth] |-> TextOf(v, texts[depth - 1])]]
    /\ \A depth \in 0..MaxTokens : texts[depth] \in [Values[depth] -> Seq(Lexemes)]
<1> DEFINE Level(f, depth) == [v \in Values[depth] |-> TextOf(v, f[depth - 1])]
           Nested(f, N) == f = [depth \in 0..N |-> Level(f, depth)]
           A == {m \in 0..MaxTokens : \E f : Nested(f, m)}
<1>1. MaxTokens \in Nat /\ 0 \in 0..MaxTokens
  BY TextAssumption
<1>2. ASSUME NEW f, NEW g, NEW depth \in 0..MaxTokens, depth # 0 => f[depth - 1] = g[depth - 1]
      PROVE  Level(f, depth) = Level(g, depth)
  <2>1. CASE depth = 0
    <3>1. ASSUME NEW v \in Values[depth]
          PROVE  TextOf(v, f[depth - 1]) = TextOf(v, g[depth - 1])
      <4>1. ~Is("object", v) /\ ~Is("array", v)
        BY <2>1, OneKind
      <4> QED BY <4>1 DEF TextOf
    <3> QED BY <3>1
  <2>2. CASE depth # 0
    BY <1>2, <2>2
  <2> QED BY <2>1, <2>2
<1>3. 0 \in A
  <2> DEFINE h == [n \in 0..0 |-> <<>>]
             g == [n \in 0..0 |-> Level(h, 0)]
  <2> HIDE DEF Level
  <2>1. Level(h, 0) = Level(g, 0)
    <3> HIDE DEF h, g
    <3> QED BY <1>1, <1>2
  <2>2. g = [n \in 0..0 |-> g[n]] /\ \A n \in 0..0 : g[n] = Level(h, 0) /\ n = 0
    OBVIOUS
  <2> HIDE DEF g, h
  <2>3. \A n \in 0..0 : g[n] = Level(g, n)
    BY <2>1, <2>2
  <2>4. Nested(g, 0)
    BY <2>2, <2>3
  <2> QED BY <1>1, <2>4
<1>4. ASSUME NEW m \in 1..MaxTokens, m - 1 \in A PROVE m \in A
  <2>1. PICK f : Nested(f, m - 1)
    BY <1>4
  <2> DEFINE g == [n \in 0..m |-> IF n = m THEN Level(f, m) ELSE f[n]]
  <2> HIDE DEF Level
  <2>2. g = [n \in 0..m |-> g[n]] /\ \A n \in 0..(m - 1) : g[n] = f[n]
    OBVIOUS
  <2>3. m \in 0..m /\ m - 1 \in 0..(m - 1) /\ m \in 0..MaxTokens
    BY <1>1
  <2>4. g[m] = Level(f, m)
    BY <2>3
  <2> HIDE DEF g
  <2>5. ASSUME NEW n \in 0..m PROVE g[n] = Level(g, n)
    <3>1. CASE n = m
      <4>1. Level(f, m) = Level(g, m)
        BY <1>2, <2>2, <2>3
      <4> QED BY <2>4, <3>1, <4>1
    <3>2. CASE n # m
      <4>1. n \in 0..(m - 1) /\ (n # 0 => n - 1 \in 0..(m - 1)) /\ n \in 0..MaxTokens
        BY <1>1, <3>2
      <4>2. f[n] = Level(f, n)
        BY <2>1, <4>1
      <4>3. n # 0 => f[n - 1] = g[n - 1]
        BY <2>2, <4>1
      <4>4. Level(f, n) = Level(g, n)
        BY <1>2, <4>1, <4>3
      <4> QED BY <2>2, <4>1, <4>2, <4>4
    <3> QED BY <3>1, <3>2
  <2>6. Nested(g, m)
    BY <2>2, <2>5
  <2> QED BY <2>6, <1>4
<1> HIDE DEF A
<1>5. \A m \in 0..MaxTokens : m \in A
  BY <1>1, <1>3, <1>4, UpTo
<1>6. \E f : Nested(f, MaxTokens)
  <2>1. MaxTokens \in A
    BY <1>1, <1>5
  <2> QED BY <2>1 DEF A
<1>7. texts = CHOOSE f : Nested(f, MaxTokens)
  BY DEF texts, TextOf
<1>8. Nested(texts, MaxTokens)
  <2> HIDE DEF Nested
  <2> QED BY <1>6, <1>7
<1> DEFINE B == {d \in 0..MaxTokens : texts[d] \in [Values[d] -> Seq(Lexemes)]}
<1>9. ASSUME NEW d \in 0..MaxTokens, d # 0 => d - 1 \in B PROVE d \in B
  <2>1. texts[d] = Level(texts, d)
    <3> HIDE DEF Level
    <3> QED BY <1>8
  <2>2. ASSUME NEW v \in Values[d] PROVE TextOf(v, texts[d - 1]) \in Seq(Lexemes)
    BY <1>9, TextOfType
  <2>3. texts[d] \in [Values[d] -> Seq(Lexemes)]
    BY <2>1, <2>2
  <2> QED BY <2>3
<1>10. 0 \in B
  BY <1>1, <1>9
<1>11. \A d \in 1..MaxTokens : d - 1 \in B => d \in B
  <2>1. \A d \in 1..MaxTokens : d \in 0..MaxTokens
    BY <1>1
  <2> HIDE DEF B
  <2> QED BY <1>9, <2>1
<1> HIDE DEF B
<1>12. \A d \in 0..MaxTokens : d \in B
  BY <1>1, <1>10, <1>11, UpTo
<1>13. \A d \in 0..MaxTokens : texts[d] \in [Values[d] -> Seq(Lexemes)]
  BY <1>12 DEF B
<1> QED BY <1>8, <1>13

\* the text of an object
Braced(text) ==
    text \in Seq(Lexemes) /\ Len(text) \in Nat \ {0} /\ text[1] = Mark("lbrace")

\* The text of an object begins with a brace (rbjson.cpp 208-219).
LEMMA SerializedObject ==
    ASSUME NEW members \in MembersOf(Values[MaxTokens - 1])
    PROVE  Object(members) \in Values[MaxTokens] /\ Braced(serialize(Object(members)))
<1> DEFINE v == Object(members)
<1>1. MaxTokens \in 0..MaxTokens /\ MaxTokens # 0 /\ MaxTokens - 1 \in 0..MaxTokens
  BY TextAssumption
<1>2. v \in Values[MaxTokens]
  BY <1>1, ValuesHave
<1>3. Is("object", v)
  BY DEF Object, Is
<1> HIDE DEF v
<1>4. texts[MaxTokens] = [w \in Values[MaxTokens] |-> TextOf(w, texts[MaxTokens - 1])]
  BY <1>1, TextsAre
<1>5. serialize(v) = TextOf(v, texts[MaxTokens - 1])
  BY <1>2, <1>4 DEF serialize
<1>6. texts[MaxTokens - 1] \in [Values[MaxTokens - 1] -> Seq(Lexemes)]
  BY <1>1, TextsAre
<1>7. Braced(TextOf(v, texts[MaxTokens - 1]))
  BY <1>1, <1>2, <1>3, <1>6, TextOfType DEF Braced
<1> QED BY <1>2, <1>5, <1>7 DEF v

\* So does the text of members some of which cannot be used.
LEMMA WrittenObject ==
    ASSUME NEW text \in Texts
    PROVE  Braced(Written(text))
<1> DEFINE M == [key : Strings, value : Values[MaxTokens], good : BOOLEAN]
           L == Lexemes
           N == Len(text)
           Key(i) == IF text[i].good THEN Quoted(text[i].key) ELSE Primitive(Junk)
           Part(i) == <<Key(i), Mark("colon")>> \o serialize(text[i].value)
           parts == [i \in DOMAIN text |-> Part(i)]
<1>1. text \in Seq(M)
  BY JsonAssumption
<1>2. N \in Nat /\ DOMAIN text = 1..N /\ \A i \in 1..N : text[i] \in M
  <2> HIDE DEF M
  <2> QED BY <1>1, ElementOfSeq
<1>3. \A i \in 1..N : text[i].key \in Strings /\ text[i].value \in Values[MaxTokens]
  BY <1>2
<1>4. "lbrace" \in Marks /\ "rbrace" \in Marks /\ "colon" \in Marks
  BY DEF Marks
<1>5. ASSUME NEW i \in 1..N PROVE Part(i) \in Seq(L)
  <2>1. Key(i) \in L
    BY <1>3, LexemesHave
  <2>2. Mark("colon") \in L
    BY <1>4, LexemesHave
  <2>3. serialize(text[i].value) \in Seq(L)
    <3>1. MaxTokens \in 0..MaxTokens
      BY TextAssumption
    <3>2. texts[MaxTokens] \in [Values[MaxTokens] -> Seq(L)]
      BY <3>1, TextsAre
    <3> QED BY <1>3, <3>2 DEF serialize
  <2> HIDE DEF Key, L
  <2>4. <<Key(i), Mark("colon")>> \in Seq(L)
    BY <2>1, <2>2
  <2> QED BY <2>3, <2>4, ConcatProperties
<1>6. parts \in [1..N -> Seq(L)]
  <2> HIDE DEF Part, L
  <2> QED BY <1>2, <1>5
<1>7. Written(text) = <<Mark("lbrace")>> \o Joined(parts) \o <<Mark("rbrace")>>
  BY DEF Written
<1> HIDE DEF parts, N
<1> QED BY <1>2, <1>4, <1>6, <1>7, Bracketed DEF Braced

-----------------------------------------------------------------------------
(* Tokens.                                                                   *)

\* A set of numbers up to N has a greatest one.
LEMMA GreatestElement ==
    ASSUME NEW N \in Nat, NEW T \in SUBSET (0..N), T # {}
    PROVE  \E x \in T : \A y \in T : y <= x
<1> DEFINE R == {n \in 0..N : N - n \in T}
<1>1. R \in SUBSET Nat
  OBVIOUS
<1>2. \A y \in T : N - y \in R
  <2> TAKE y \in T
  <2>1. y \in 0..N
    OBVIOUS
  <2>2. N - y \in 0..N /\ N - (N - y) = y
    BY <2>1
  <2> QED BY <2>2
<1>3. R # {}
  BY <1>2
<1> HIDE DEF R
<1>4. PICK r \in R : \A q \in R : r <= q
  BY <1>1, <1>3, LeastElement
<1>5. r \in 0..N /\ N - r \in T
  BY <1>4 DEF R
<1>6. ASSUME NEW y \in T PROVE y <= N - r
  <2>1. r <= N - y /\ y \in 0..N
    BY <1>2, <1>4
  <2> QED BY <1>5, <2>1
<1> QED BY <1>5, <1>6

\* What each kind of token stands for.
Tokens == {t \in [type : {"object", "array", "string", "primitive"}, open : BOOLEAN,
                  size : Nat, of : Primitives \cup {Junk} \cup [string : Strings]] :
              /\ t.type = "string" => t.of \in [string : Strings]
              /\ t.type = "primitive" => t.of \in Primitives \cup {Junk}}

\* The last open token is one, and none behind it is open (jsmn.h 383-391).
LEMMA LastOpenIs ==
    ASSUME NEW tokens \in Seq(Tokens)
    PROVE  /\ LastOpen(tokens) \in 0..Len(tokens)
           /\ LastOpen(tokens) # 0 => tokens[LastOpen(tokens)].open
           /\ \A i \in 1..Len(tokens) : tokens[i].open => i <= LastOpen(tokens)
<1> DEFINE I == {i \in 1..Len(tokens) : tokens[i].open}
<1>1. LastOpen(tokens) = IF I # {} THEN Max(I) ELSE 0
  BY DEF LastOpen, SelectLastInSeq
<1>2. CASE I = {}
  BY <1>1, <1>2
<1>3. CASE I # {}
  <2>1. Len(tokens) \in Nat /\ I \in SUBSET (0..Len(tokens))
    OBVIOUS
  <2>2. \E x \in I : \A y \in I : y <= x
    <3> HIDE DEF I
    <3> QED BY <1>3, <2>1, GreatestElement
  <2>3. Max(I) \in I /\ \A y \in I : y <= Max(I)
    <3> HIDE DEF I
    <3>1. \A x, y \in I : y <= x <=> x >= y
      BY <2>1
    <3>2. \E x \in I : \A y \in I : x >= y
      BY <2>2, <3>1
    <3>3. Max(I) \in I /\ \A y \in I : Max(I) >= y
      BY <3>2 DEF Max
    <3> QED BY <3>1, <3>3
  <2> QED BY <1>1, <1>3, <2>3
<1> QED BY <1>2, <1>3

-----------------------------------------------------------------------------
(* The tree of tokens.  Token j belongs to token par[j] (0 for none), as     *)
(* its child number rank[j], from 0; S[i] children belong to token i.        *)

\* All tokens after i are in token i or in what follows it: none belongs to one before i.
Reaches(n, par, i) == \A j \in 1..n : i < j => i <= par[j]

Tree(n, S, par, rank) ==
    /\ \A j \in 1..n : /\ S[j] \in Nat /\ rank[j] \in Nat /\ par[j] \in Nat /\ par[j] < j
                       /\ par[j] # 0 => rank[j] < S[par[j]]
    /\ \A j, k \in 1..n : j < k /\ par[j] = par[k] /\ par[j] # 0 => rank[j] < rank[k]
    /\ \A i \in 1..n : \A q \in Nat : q < S[i] => \E j \in 1..n : par[j] = i /\ rank[j] = q
    /\ \A j, k \in 1..n : par[k] < j /\ j < k => par[k] <= par[j]

\* The next token belongs to super; the tokens of O are open.
Growing(n, O, super, par) ==
    /\ super \in 0..n /\ Reaches(n, par, super)
    /\ \A i \in 1..n : i \in O => i <= super /\ Reaches(n, par, i)

\* A new token is the next child of the one it belongs to.
LEMMA TreeGrows ==
    ASSUME NEW n \in Nat, NEW S, NEW T, NEW par, NEW rank, NEW super \in 0..n,
           Tree(n, S, par, rank), Reaches(n, par, super),
           \A i \in 1..n : T[i] = IF i = super THEN S[i] + 1 ELSE S[i],
           T[n + 1] = 0
    PROVE  \E newpar, newrank :
              /\ \A j \in 1..n : newpar[j] = par[j]
              /\ newpar[n + 1] = super
              /\ Tree(n + 1, T, newpar, newrank)
<1> DEFINE P == [j \in 1..(n + 1) |-> IF j = n + 1 THEN super ELSE par[j]]
           R == [j \in 1..(n + 1) |->
                    IF j # n + 1 THEN rank[j] ELSE IF super = 0 THEN 0 ELSE S[super]]
<1>1. \A j \in 1..n : P[j] = par[j] /\ R[j] = rank[j]
  OBVIOUS
<1>2. P[n + 1] = super /\ R[n + 1] = IF super = 0 THEN 0 ELSE S[super]
  OBVIOUS
<1> HIDE DEF P, R
<1>3. \A j \in 1..(n + 1) : j \in 1..n \/ j = n + 1
  OBVIOUS
<1>4. \A j \in 1..n : S[j] \in Nat /\ rank[j] \in Nat /\ par[j] \in Nat /\ par[j] < j
                      /\ (par[j] # 0 => par[j] \in 1..n /\ rank[j] < S[par[j]])
  BY DEF Tree
<1>5. ASSUME NEW j \in 1..(n + 1)
      PROVE  /\ T[j] \in Nat /\ R[j] \in Nat /\ P[j] \in Nat /\ P[j] < j
             /\ P[j] # 0 => R[j] < T[P[j]]
  <2>1. CASE j \in 1..n
    <3>1. T[j] \in Nat /\ R[j] \in Nat /\ P[j] \in Nat /\ P[j] < j
      BY <1>1, <1>4, <2>1
    <3>2. ASSUME P[j] # 0 PROVE R[j] < T[P[j]]
      <4>1. par[j] \in 1..n /\ rank[j] < S[par[j]] /\ S[par[j]] \in Nat /\ rank[j] \in Nat
        BY <1>1, <1>4, <2>1, <3>2
      <4>2. T[par[j]] = S[par[j]] \/ T[par[j]] = S[par[j]] + 1
        BY <4>1
      <4>3. rank[j] < T[par[j]]
        BY <4>1, <4>2
      <4> QED BY <1>1, <2>1, <4>3
    <3> QED BY <3>1, <3>2
  <2>2. CASE j = n + 1
    <3>1. CASE super = 0
      BY <1>2, <2>2, <3>1
    <3>2. CASE super # 0
      <4>1. super \in 1..n /\ S[super] \in Nat /\ T[super] = S[super] + 1
        BY <1>4, <3>2
      <4> QED BY <1>2, <2>2, <3>2, <4>1
    <3> QED BY <3>1, <3>2
  <2> QED BY <1>3, <2>1, <2>2
<1>6. ASSUME NEW j \in 1..(n + 1), NEW k \in 1..(n + 1), j < k, P[j] = P[k], P[j] # 0
      PROVE  R[j] < R[k]
  <2>1. j \in 1..n
    BY <1>6
  <2>2. CASE k \in 1..n
    BY <1>1, <1>6, <2>1, <2>2 DEF Tree
  <2>3. CASE k = n + 1
    <3>1. par[j] = super /\ super # 0 /\ R[k] = S[super] /\ R[j] = rank[j]
      BY <1>1, <1>2, <1>6, <2>1, <2>3
    <3> QED BY <1>4, <2>1, <3>1
  <2> QED BY <1>3, <2>2, <2>3
<1>7. ASSUME NEW i \in 1..(n + 1), NEW q \in Nat, q < T[i]
      PROVE  \E j \in 1..(n + 1) : P[j] = i /\ R[j] = q
  <2>1. i \in 1..n /\ S[i] \in Nat
    BY <1>3, <1>4, <1>7
  <2>2. CASE q < S[i]
    <3>1. PICK j \in 1..n : par[j] = i /\ rank[j] = q
      BY <2>1, <2>2 DEF Tree
    <3>2. j \in 1..(n + 1) /\ P[j] = i /\ R[j] = q
      BY <1>1, <3>1
    <3> QED BY <3>2
  <2>3. CASE ~(q < S[i])
    <3>1. i = super /\ q = S[i]
      BY <1>7, <2>1, <2>3
    <3>2. super # 0 /\ n + 1 \in 1..(n + 1)
      BY <2>1, <3>1
    <3> QED BY <1>2, <3>1, <3>2
  <2> QED BY <2>2, <2>3
<1>8. ASSUME NEW j \in 1..(n + 1), NEW k \in 1..(n + 1), P[k] < j, j < k
      PROVE  P[k] <= P[j]
  <2>1. j \in 1..n
    BY <1>8
  <2>2. CASE k \in 1..n
    BY <1>1, <1>8, <2>1, <2>2 DEF Tree
  <2>3. CASE k = n + 1
    BY <1>1, <1>2, <1>8, <2>1, <2>3 DEF Reaches
  <2> QED BY <1>3, <2>2, <2>3
<1>9. Tree(n + 1, T, P, R)
  BY <1>5, <1>6, <1>7, <1>8 DEF Tree
<1> QED BY <1>1, <1>2, <1>9

-----------------------------------------------------------------------------
(* jsmn_parse.                                                               *)

Parsers == [tokens : Seq(Tokens), toksuper : Nat, refused : BOOLEAN]
Sizes(tokens) == [i \in DOMAIN tokens |-> tokens[i].size]
Opens(tokens) == {i \in DOMAIN tokens : tokens[i].open}

\* a text that is not refused has a tree of at most MaxTokens tokens
Parsed(p) ==
    /\ p \in Parsers
    /\ ~p.refused =>
          /\ Len(p.tokens) <= MaxTokens
          /\ \E par, rank : /\ Tree(Len(p.tokens), Sizes(p.tokens), par, rank)
                            /\ Growing(Len(p.tokens), Opens(p.tokens), p.toksuper, par)

\* The fields of a token.
LEMMA TokenType ==
    ASSUME NEW t \in Tokens
    PROVE  /\ t.type \in {"object", "array", "string", "primitive"} /\ t.open \in BOOLEAN
           /\ t.size \in Nat
           /\ t.type = "string" => t.of \in [string : Strings]
           /\ t.type = "primitive" => t.of \in Primitives \cup {Junk}
           /\ \A n \in Nat : /\ [t EXCEPT !.size = n] \in Tokens
                             /\ [t EXCEPT !.size = n].size = n
                             /\ [t EXCEPT !.size = n].open = t.open
           /\ \A b \in BOOLEAN : /\ [t EXCEPT !.open = b] \in Tokens
                                 /\ [t EXCEPT !.open = b].open = b
                                 /\ [t EXCEPT !.open = b].size = t.size
BY DEF Tokens

\* The tokens of a parser.
LEMMA TokensType ==
    ASSUME NEW tokens \in Seq(Tokens)
    PROVE  /\ Len(tokens) \in Nat /\ DOMAIN tokens = 1..Len(tokens)
           /\ \A i \in 1..Len(tokens) :
                 /\ tokens[i] \in Tokens
                 /\ Sizes(tokens)[i] = tokens[i].size
                 /\ i \in Opens(tokens) <=> tokens[i].open
<1>1. Len(tokens) \in Nat /\ DOMAIN tokens = 1..Len(tokens)
      /\ \A i \in 1..Len(tokens) : tokens[i] \in Tokens
  BY ElementOfSeq
<1> QED BY <1>1 DEF Sizes, Opens

\* A token is changed in place.
LEMMA TokenChanges ==
    ASSUME NEW tokens \in Seq(Tokens), NEW at \in 1..Len(tokens), NEW token \in Tokens
    PROVE  LET changed == [tokens EXCEPT ![at] = token]
           IN  /\ changed \in Seq(Tokens) /\ Len(changed) = Len(tokens)
               /\ \A i \in 1..Len(tokens) : changed[i] = IF i = at THEN token ELSE tokens[i]
<1>1. DOMAIN tokens = 1..Len(tokens) /\ Len(tokens) \in Nat
  BY TokensType
<1> DEFINE T == Tokens
           changed == [tokens EXCEPT ![at] = token]
<1>2. at \in DOMAIN tokens
  BY <1>1
<1>3. /\ DOMAIN changed = DOMAIN tokens /\ changed \in Seq(T)
      /\ \A i \in DOMAIN tokens : changed[i] = IF i = at THEN token ELSE tokens[i]
  <2> HIDE DEF T
  <2>1. tokens \in Seq(T) /\ token \in T
    BY DEF T
  <2> QED BY <1>2, <2>1, ExceptSeq
<1> HIDE DEF changed, T
<1>4. Len(changed) = Len(tokens)
  BY <1>1, <1>3
<1> QED BY <1>1, <1>3, <1>4 DEF changed, T

\* The fields of a parser, and of one that refused its text.
LEMMA ParserType ==
    ASSUME NEW p \in Parsers
    PROVE  /\ p.tokens \in Seq(Tokens) /\ p.toksuper \in Nat /\ p.refused \in BOOLEAN
           /\ [p EXCEPT !.refused = TRUE] \in Parsers /\ [p EXCEPT !.refused = TRUE].refused
BY DEF Parsers

\* A refused text needs no tree.
LEMMA RefusedIsParsed ==
    ASSUME NEW p \in Parsers
    PROVE  Parsed([p EXCEPT !.refused = TRUE])
BY ParserType DEF Parsed

\* jsmn_alloc_token adds a token to the ones there are, and counts it.
LEMMA AllocatedIs ==
    ASSUME NEW p \in Parsers, p.toksuper \in 0..Len(p.tokens), Len(p.tokens) # MaxTokens,
           NEW token \in Tokens
    PROVE  LET q == Allocated(p, token)
               n == Len(p.tokens)
           IN  /\ q \in Parsers /\ q.toksuper = p.toksuper /\ q.refused = p.refused
               /\ Len(q.tokens) = n + 1 /\ q.tokens[n + 1] = token
               /\ \A i \in 1..n : /\ q.tokens[i].size = p.tokens[i].size
                                                        + IF i = p.toksuper THEN 1 ELSE 0
                                  /\ q.tokens[i].open = p.tokens[i].open
<1> DEFINE n == Len(p.tokens)
           s == p.toksuper
           grown == [p.tokens[s] EXCEPT !.size = p.tokens[s].size + 1]
           counted == IF s = 0 THEN p.tokens ELSE [p.tokens EXCEPT ![s] = grown]
           q == Allocated(p, token)
<1>1. /\ p.tokens \in Seq(Tokens) /\ n \in Nat /\ s \in 0..n
      /\ \A i \in 1..n : p.tokens[i] \in Tokens /\ p.tokens[i].size \in Nat
  BY ParserType, TokensType, TokenType
<1>2. /\ counted \in Seq(Tokens) /\ Len(counted) = n
      /\ \A i \in 1..n : /\ counted[i].size = p.tokens[i].size + IF i = s THEN 1 ELSE 0
                         /\ counted[i].open = p.tokens[i].open
  <2>1. CASE s = 0
    BY <1>1, <2>1
  <2>2. CASE s # 0
    <3>1. s \in 1..n
      BY <1>1, <2>2
    <3>2. /\ grown \in Tokens /\ grown.size = p.tokens[s].size + 1
          /\ grown.open = p.tokens[s].open
      <4> DEFINE t == p.tokens[s]
      <4>1. t \in Tokens /\ t.size + 1 \in Nat
        BY <1>1, <3>1
      <4> HIDE DEF t
      <4> DEFINE u == [t EXCEPT !.size = t.size + 1]
      <4>2. u \in Tokens /\ u.size = t.size + 1 /\ u.open = t.open
        BY <4>1, TokenType
      <4> QED BY <4>2 DEF t
    <3> DEFINE tokens == p.tokens
               changed == [tokens EXCEPT ![s] = grown]
    <3>3. /\ changed \in Seq(Tokens) /\ Len(changed) = n
          /\ \A i \in 1..n : changed[i] = IF i = s THEN grown ELSE tokens[i]
      <4>1. tokens \in Seq(Tokens) /\ s \in 1..Len(tokens)
        BY <1>1, <3>1
      <4> HIDE DEF tokens, grown, s
      <4>2. /\ changed \in Seq(Tokens) /\ Len(changed) = Len(tokens)
            /\ \A i \in 1..Len(tokens) : changed[i] = IF i = s THEN grown ELSE tokens[i]
        BY <3>2, <4>1, TokenChanges
      <4> QED BY <4>2 DEF tokens
    <3>4. counted = changed
      BY <2>2
    <3> HIDE DEF counted, changed, grown
    <3>5. \A i \in 1..n : /\ changed[i].size = tokens[i].size + IF i = s THEN 1 ELSE 0
                          /\ changed[i].open = tokens[i].open
      BY <1>1, <3>2, <3>3
    <3> QED BY <3>3, <3>4, <3>5
  <2> QED BY <2>1, <2>2
<1>3. q = [p EXCEPT !.tokens = Append(counted, token)]
  BY DEF Allocated, Counted
<1> HIDE DEF counted, q
<1>4. /\ Append(counted, token) \in Seq(Tokens) /\ Len(Append(counted, token)) = n + 1
      /\ Append(counted, token)[n + 1] = token
      /\ \A i \in 1..n : Append(counted, token)[i] = counted[i]
  <2> DEFINE T == Tokens
  <2> HIDE DEF T
  <2>1. counted \in Seq(T) /\ token \in T
    BY <1>2 DEF T
  <2>2. /\ Append(counted, token) \in Seq(T) /\ Len(Append(counted, token)) = Len(counted) + 1
        /\ \A i \in 1..Len(counted) : Append(counted, token)[i] = counted[i]
        /\ Append(counted, token)[Len(counted) + 1] = token
    BY <2>1, AppendProperties
  <2> QED BY <1>2, <2>2 DEF T
<1>5. /\ q \in Parsers /\ q.tokens = Append(counted, token)
      /\ q.toksuper = p.toksuper /\ q.refused = p.refused
  <2> DEFINE tokens == Append(counted, token)
             r == [p EXCEPT !.tokens = tokens]
  <2>1. tokens \in Seq(Tokens)
    BY <1>4
  <2> HIDE DEF tokens
  <2>2. r \in Parsers /\ r.tokens = tokens /\ r.toksuper = p.toksuper /\ r.refused = p.refused
    BY <2>1 DEF Parsers
  <2> QED BY <1>3, <2>2 DEF tokens
<1> QED BY <1>2, <1>4, <1>5 DEF q

\* A token that has nothing in it yet is a leaf of the tree.
LEMMA AllocatedKeeps ==
    ASSUME NEW p, Parsed(p), ~p.refused, NEW token \in Tokens, token.size = 0
    PROVE  LET q == Allocated(p, token)
               n == Len(p.tokens) + 1
           IN  /\ q \in Parsers
               /\ \/ q.refused
                  \/ /\ Len(q.tokens) = n /\ n <= MaxTokens /\ ~q.refused
                     /\ \E par, rank :
                           /\ Tree(n, Sizes(q.tokens), par, rank)
                           /\ q.toksuper \in 0..n /\ Reaches(n, par, q.toksuper)
                           /\ \A i \in 1..n : i \in Opens(q.tokens) =>
                                 \/ i = n /\ token.open
                                 \/ i <= q.toksuper /\ Reaches(n, par, i)
<1> DEFINE q == Allocated(p, token)
           m == Len(p.tokens)
           s == p.toksuper
<1>1. p \in Parsers /\ p.tokens \in Seq(Tokens) /\ m \in Nat /\ MaxTokens \in Nat
  BY ParserType, TokensType, TextAssumption DEF Parsed
<1>2. CASE m = MaxTokens
  <2>1. q = [p EXCEPT !.refused = TRUE]
    BY <1>2 DEF Allocated
  <2> QED BY <1>1, <2>1, ParserType
<1>3. CASE m # MaxTokens
  <2>1. PICK par, rank : /\ m <= MaxTokens /\ Tree(m, Sizes(p.tokens), par, rank)
                         /\ Growing(m, Opens(p.tokens), s, par)
    BY DEF Parsed
  <2>2. s \in 0..m /\ Reaches(m, par, s)
        /\ \A i \in 1..m : i \in Opens(p.tokens) => i <= s /\ Reaches(m, par, i)
    BY <2>1 DEF Growing
  <2>3. /\ q \in Parsers /\ q.toksuper = s /\ q.refused = p.refused
        /\ Len(q.tokens) = m + 1 /\ q.tokens[m + 1] = token
        /\ \A i \in 1..m : /\ q.tokens[i].size = p.tokens[i].size + IF i = s THEN 1 ELSE 0
                           /\ q.tokens[i].open = p.tokens[i].open
    BY <1>1, <1>3, <2>2, AllocatedIs
  <2> HIDE DEF q
  <2> DEFINE S == Sizes(p.tokens)
             T == Sizes(q.tokens)
  <2>4. q.tokens \in Seq(Tokens)
    BY <2>3, ParserType
  <2>5. /\ \A i \in 1..m : S[i] = p.tokens[i].size /\ (i \in Opens(p.tokens) <=> p.tokens[i].open)
                           /\ p.tokens[i] \in Tokens
        /\ \A i \in 1..(m + 1) : T[i] = q.tokens[i].size
                                 /\ (i \in Opens(q.tokens) <=> q.tokens[i].open)
    BY <1>1, <2>3, <2>4, TokensType
  <2>6. \A i \in 1..m : S[i] \in Nat
    BY <2>5, TokenType
  <2>7. m + 1 \in 1..(m + 1) /\ \A i \in 1..m : i \in 1..(m + 1)
    BY <1>1
  <2>8. T[m + 1] = 0
    BY <2>3, <2>5, <2>7
  <2>9. \A i \in 1..m : T[i] = IF i = s THEN S[i] + 1 ELSE S[i]
    <3> TAKE i \in 1..m
    <3>1. T[i] = q.tokens[i].size /\ S[i] = p.tokens[i].size /\ S[i] \in Nat
      BY <2>5, <2>6, <2>7
    <3>2. q.tokens[i].size = p.tokens[i].size + IF i = s THEN 1 ELSE 0
      BY <2>3
    <3> HIDE DEF S, T, s
    <3>3. T[i] = S[i] + IF i = s THEN 1 ELSE 0
      BY <3>1, <3>2
    <3> QED BY <3>1, <3>3
  <2> HIDE DEF S, T
  <2>10. Tree(m, S, par, rank)
    BY <2>1 DEF S
  <2>11. PICK newpar, newrank : /\ \A j \in 1..m : newpar[j] = par[j]
                                /\ newpar[m + 1] = s
                                /\ Tree(m + 1, T, newpar, newrank)
    BY <1>1, <2>2, <2>8, <2>9, <2>10, TreeGrows
  <2>12. ASSUME NEW i \in 0..s, Reaches(m, par, i) PROVE Reaches(m + 1, newpar, i)
    <3> SUFFICES ASSUME NEW j \in 1..(m + 1), i < j PROVE i <= newpar[j]
      BY DEF Reaches
    <3>1. CASE j = m + 1
      BY <2>11, <3>1
    <3>2. CASE j # m + 1
      <4>1. j \in 1..m
        BY <1>1, <3>2
      <4> QED BY <2>11, <2>12, <4>1 DEF Reaches
    <3> QED BY <3>1, <3>2
  <2>13. s \in 0..s /\ s \in 0..(m + 1)
    BY <1>1, <2>2
  <2>14. Reaches(m + 1, newpar, q.toksuper) /\ q.toksuper \in 0..(m + 1)
    BY <2>2, <2>3, <2>12, <2>13
  <2>15. ASSUME NEW i \in 1..(m + 1), i \in Opens(q.tokens)
         PROVE  \/ i = m + 1 /\ token.open
                \/ i <= q.toksuper /\ Reaches(m + 1, newpar, i)
    <3>1. CASE i = m + 1
      BY <2>3, <2>5, <2>15, <3>1
    <3>2. CASE i # m + 1
      <4>1. i \in 1..m
        BY <1>1, <3>2
      <4>2. i \in Opens(p.tokens)
        BY <2>3, <2>5, <2>15, <4>1
      <4>3. i <= s /\ Reaches(m, par, i) /\ i \in 0..s
        BY <2>2, <4>1, <4>2
      <4> QED BY <2>3, <2>12, <4>3
    <3> QED BY <3>1, <3>2
  <2>16. m + 1 <= MaxTokens
    BY <1>1, <1>3, <2>1
  <2> QED BY <2>3, <2>11, <2>14, <2>15, <2>16 DEF q, T
<1> QED BY <1>2, <1>3

\* A string or a primitive is a new leaf of the tree (jsmn.h 361-375, 395-430).
LEMMA FilledKeeps ==
    ASSUME NEW p, Parsed(p), ~p.refused, NEW token \in Tokens, token.size = 0, ~token.open
    PROVE  LET q == Allocated(p, token)
           IN  Parsed(q) /\ (q.refused \/ Len(q.tokens) > Len(p.tokens))
<1> DEFINE q == Allocated(p, token)
           n == Len(p.tokens) + 1
<1>0. Len(p.tokens) \in Nat
  BY ParserType, TokensType DEF Parsed
<1>1. /\ q \in Parsers
      /\ \/ q.refused
         \/ /\ Len(q.tokens) = n /\ n <= MaxTokens /\ ~q.refused
            /\ \E par, rank :
                  /\ Tree(n, Sizes(q.tokens), par, rank)
                  /\ q.toksuper \in 0..n /\ Reaches(n, par, q.toksuper)
                  /\ \A i \in 1..n : i \in Opens(q.tokens) =>
                        \/ i = n /\ token.open
                        \/ i <= q.toksuper /\ Reaches(n, par, i)
  BY AllocatedKeeps
<1> HIDE DEF q
<1>2. CASE q.refused
  BY <1>1, <1>2 DEF Parsed, q
<1>3. CASE ~q.refused
  <2>1. PICK par, rank :
           /\ Tree(n, Sizes(q.tokens), par, rank)
           /\ q.toksuper \in 0..n /\ Reaches(n, par, q.toksuper)
           /\ \A i \in 1..n : i \in Opens(q.tokens) =>
                 \/ i = n /\ token.open
                 \/ i <= q.toksuper /\ Reaches(n, par, i)
    BY <1>1, <1>3
  <2>2. Growing(n, Opens(q.tokens), q.toksuper, par)
    BY <2>1 DEF Growing
  <2>3. Len(q.tokens) = n /\ n <= MaxTokens
    BY <1>1, <1>3
  <2>4. Parsed(q)
    BY <1>1, <2>1, <2>2, <2>3 DEF Parsed
  <2>5. Len(q.tokens) > Len(p.tokens)
    BY <1>0, <2>3
  <2> QED BY <2>4, <2>5 DEF q
<1> QED BY <1>2, <1>3

\* A bracket that opens is a new leaf that is open (jsmn.h 281-307).
LEMMA OpenedKeeps ==
    ASSUME NEW p, Parsed(p), ~p.refused, NEW type \in Containers
    PROVE  LET q == Opened(p, type)
           IN  Parsed(q) /\ (q.refused \/ Len(q.tokens) > Len(p.tokens))
<1> DEFINE token == [type |-> type, open |-> TRUE, size |-> 0, of |-> Junk]
           r == Allocated(p, token)
           n == Len(p.tokens) + 1
           q == Opened(p, type)
<1>0. Len(p.tokens) \in Nat
  BY ParserType, TokensType DEF Parsed
<1>1. token \in Tokens /\ token.size = 0
  BY DEF Tokens, Containers
<1> HIDE DEF token
<1>2. /\ r \in Parsers
      /\ \/ r.refused
         \/ /\ Len(r.tokens) = n /\ n <= MaxTokens /\ ~r.refused
            /\ \E par, rank :
                  /\ Tree(n, Sizes(r.tokens), par, rank)
                  /\ r.toksuper \in 0..n /\ Reaches(n, par, r.toksuper)
                  /\ \A i \in 1..n : i \in Opens(r.tokens) =>
                        \/ i = n /\ token.open
                        \/ i <= r.toksuper /\ Reaches(n, par, i)
  BY <1>1, AllocatedKeeps
<1>3. q = [r EXCEPT !.toksuper = Len(r.tokens)]
  BY DEF Opened, token
<1> HIDE DEF r, q
<1>4. r.tokens \in Seq(Tokens) /\ Len(r.tokens) \in Nat
  BY <1>2, ParserType, TokensType
<1>5. q \in Parsers /\ q.tokens = r.tokens /\ q.refused = r.refused /\ q.toksuper = Len(r.tokens)
  BY <1>2, <1>3, <1>4 DEF Parsers
<1>6. CASE r.refused
  BY <1>5, <1>6 DEF Parsed, q
<1>7. CASE ~r.refused
  <2>1. Len(r.tokens) = n /\ n <= MaxTokens
    BY <1>2, <1>7
  <2>2. PICK par, rank :
           /\ Tree(n, Sizes(r.tokens), par, rank)
           /\ r.toksuper \in 0..n /\ Reaches(n, par, r.toksuper)
           /\ \A i \in 1..n : i \in Opens(r.tokens) =>
                 \/ i = n /\ token.open
                 \/ i <= r.toksuper /\ Reaches(n, par, i)
    BY <1>2, <1>7
  <2>3. Reaches(n, par, n) /\ n \in 0..n
    BY <1>0 DEF Reaches
  <2>4. \A i \in 1..n : i \in Opens(r.tokens) => i <= n /\ Reaches(n, par, i)
    BY <2>2, <2>3
  <2>5. Growing(n, Opens(r.tokens), n, par)
    BY <2>3, <2>4 DEF Growing
  <2>6. Parsed(q)
    BY <1>5, <2>1, <2>2, <2>5 DEF Parsed
  <2>7. Len(q.tokens) > Len(p.tokens)
    BY <1>0, <1>5, <2>1
  <2> QED BY <2>6, <2>7 DEF q
<1> QED BY <1>6, <1>7

\* Where the next token goes may move to any token all later ones are in.
LEMMA MovedKeeps ==
    ASSUME NEW p, Parsed(p), ~p.refused, NEW tokens \in Seq(Tokens), NEW s \in Nat,
           Len(tokens) = Len(p.tokens),
           \A i \in 1..Len(tokens) : tokens[i].size = p.tokens[i].size
                                     /\ (tokens[i].open => p.tokens[i].open /\ i <= s),
           s = 0 \/ s = Len(tokens) \/ (s <= Len(tokens) /\ p.tokens[s].open),
           NEW q \in Parsers, q.tokens = tokens, q.toksuper = s, ~q.refused
    PROVE  Parsed(q)
<1> DEFINE n == Len(tokens)
<1>1. p \in Parsers /\ p.tokens \in Seq(Tokens) /\ n \in Nat
  BY ParserType, TokensType DEF Parsed
<1>2. PICK par, rank : /\ n <= MaxTokens /\ Tree(n, Sizes(p.tokens), par, rank)
                       /\ Growing(n, Opens(p.tokens), p.toksuper, par)
  BY DEF Parsed
<1>3. \A i \in 1..n : /\ Sizes(p.tokens)[i] = p.tokens[i].size
                      /\ i \in Opens(p.tokens) <=> p.tokens[i].open
                      /\ Sizes(tokens)[i] = tokens[i].size
                      /\ i \in Opens(tokens) <=> tokens[i].open
  BY <1>1, TokensType
<1>4. \A i \in 1..n : Sizes(tokens)[i] = Sizes(p.tokens)[i]
  BY <1>3
<1>5. Tree(n, Sizes(tokens), par, rank)
  <2> DEFINE S == Sizes(p.tokens)
             T == Sizes(tokens)
  <2>1. Tree(n, S, par, rank) /\ \A i \in 1..n : T[i] = S[i]
    BY <1>2, <1>4
  <2> HIDE DEF S, T, n
  <2>2. \A j \in 1..n : par[j] \in Nat /\ par[j] < j /\ (par[j] # 0 => par[j] \in 1..n)
    <3>1. n \in Nat
      BY <1>1
    <3> QED BY <2>1, <3>1 DEF Tree
  <2>3. \A j \in 1..n : /\ T[j] \in Nat /\ rank[j] \in Nat /\ par[j] \in Nat /\ par[j] < j
                         /\ par[j] # 0 => rank[j] < T[par[j]]
    BY <2>1, <2>2 DEF Tree
  <2>4. \A i \in 1..n : \A r \in Nat : r < T[i] => \E j \in 1..n : par[j] = i /\ rank[j] = r
    BY <2>1 DEF Tree
  <2>5. Tree(n, T, par, rank)
    BY <2>1, <2>3, <2>4 DEF Tree
  <2> QED BY <2>5 DEF n, T
<1>6. \A j \in 1..n : par[j] \in Nat
  BY <1>2 DEF Tree
<1>7. s \in 0..n /\ Reaches(n, par, s)
  <2>1. CASE s = 0
    BY <1>1, <1>6, <2>1 DEF Reaches
  <2>2. CASE s = n
    BY <1>1, <2>2 DEF Reaches
  <2>3. CASE s # 0 /\ s <= n /\ p.tokens[s].open
    <3>1. s \in 1..n /\ s \in Opens(p.tokens)
      BY <1>1, <1>3, <2>3
    <3> QED BY <1>2, <3>1 DEF Growing
  <2> QED BY <2>1, <2>2, <2>3
<1>8. \A i \in 1..n : i \in Opens(tokens) => i <= s /\ Reaches(n, par, i)
  <2> TAKE i \in 1..n
  <2> HAVE i \in Opens(tokens)
  <2>1. i \in Opens(p.tokens) /\ i <= s
    BY <1>3
  <2> QED BY <1>2, <2>1 DEF Growing
<1>9. Growing(n, Opens(tokens), s, par)
  BY <1>7, <1>8 DEF Growing
<1> QED BY <1>2, <1>5, <1>9 DEF Parsed

\* A bracket that closes leaves the tree as it is (jsmn.h 308-360).
LEMMA ClosedKeeps ==
    ASSUME NEW p, Parsed(p), ~p.refused, NEW type
    PROVE  LET q == Closed(p, type)
           IN  Parsed(q) /\ (q.refused \/ Len(q.tokens) = Len(p.tokens))
<1> DEFINE i == LastOpen(p.tokens)
           tokens == [p.tokens EXCEPT ![i].open = FALSE]
           s == LastOpen(tokens)
           q == Closed(p, type)
<1>1. p \in Parsers /\ p.tokens \in Seq(Tokens) /\ Len(p.tokens) \in Nat
  BY ParserType, TokensType DEF Parsed
<1>2. i \in 0..Len(p.tokens)
  BY <1>1, LastOpenIs
<1>3. CASE i = 0 \/ p.tokens[i].type # type
  <2>1. q = [p EXCEPT !.refused = TRUE]
    BY <1>3 DEF Closed
  <2> QED BY <1>1, <2>1, RefusedIsParsed, ParserType
<1>4. CASE ~(i = 0 \/ p.tokens[i].type # type)
  <2>1. q = [p EXCEPT !.tokens = tokens, !.toksuper = s]
    BY <1>4 DEF Closed
  <2>2. i \in 1..Len(p.tokens)
    BY <1>1, <1>2, <1>4
  <2> HIDE DEF i, q
  <2>3. /\ tokens \in Seq(Tokens) /\ Len(tokens) = Len(p.tokens)
        /\ \A j \in 1..Len(p.tokens) : /\ tokens[j].size = p.tokens[j].size
                                       /\ tokens[j].open => p.tokens[j].open
    <3> DEFINE old == p.tokens
               t == old[i]
               token == [t EXCEPT !.open = FALSE]
               changed == [old EXCEPT ![i] = token]
    <3>1. old \in Seq(Tokens) /\ i \in 1..Len(old) /\ t \in Tokens
      BY <1>1, <2>2, TokensType
    <3>2. tokens = changed
      OBVIOUS
    <3> HIDE DEF tokens, t, old
    <3>3. token \in Tokens /\ token.open = FALSE /\ token.size = t.size
      BY <3>1, TokenType
    <3> HIDE DEF token
    <3>4. /\ changed \in Seq(Tokens) /\ Len(changed) = Len(old)
          /\ \A j \in 1..Len(old) : changed[j] = IF j = i THEN token ELSE old[j]
      BY <3>1, <3>3, TokenChanges
    <3> HIDE DEF changed
    <3>5. \A j \in 1..Len(old) : changed[j].size = old[j].size
                                 /\ (changed[j].open => old[j].open)
      BY <3>3, <3>4 DEF t
    <3> QED BY <3>2, <3>4, <3>5 DEF old
  <2> HIDE DEF tokens
  <2>4. /\ s \in 0..Len(tokens) /\ s \in Nat /\ (s # 0 => tokens[s].open)
        /\ \A j \in 1..Len(tokens) : tokens[j].open => j <= s
    <3>1. Len(tokens) \in Nat
      BY <1>1, <2>3
    <3> QED BY <2>3, <3>1, LastOpenIs
  <2> HIDE DEF s
  <2>5. q \in Parsers /\ q.tokens = tokens /\ q.toksuper = s /\ ~q.refused
    BY <1>1, <2>1, <2>3, <2>4 DEF Parsers
  <2>6. s = 0 \/ (s <= Len(tokens) /\ p.tokens[s].open)
    <3>1. s # 0 => s \in 1..Len(p.tokens) /\ s <= Len(tokens)
      BY <1>1, <2>3, <2>4
    <3> QED BY <2>3, <2>4, <3>1
  <2>7. Parsed(q)
    BY <2>3, <2>4, <2>5, <2>6, MovedKeeps
  <2> QED BY <2>3, <2>5, <2>7 DEF q
<1> QED BY <1>3, <1>4

\* A comma only changes where the next token goes (jsmn.h 379-394).
LEMMA AfterCommaKeeps ==
    ASSUME NEW p, Parsed(p), ~p.refused
    PROVE  LET q == AfterComma(p)
           IN  Parsed(q) /\ (q.refused \/ Len(q.tokens) = Len(p.tokens))
<1> DEFINE s == LastOpen(p.tokens)
           q == AfterComma(p)
<1>1. p \in Parsers /\ p.tokens \in Seq(Tokens) /\ Len(p.tokens) \in Nat
  BY ParserType, TokensType DEF Parsed
<1>2. CASE q = p
  BY <1>2
<1>3. CASE q = [p EXCEPT !.toksuper = s] /\ s # 0
  <2>1. /\ s \in 0..Len(p.tokens) /\ s \in Nat /\ p.tokens[s].open
        /\ \A j \in 1..Len(p.tokens) : p.tokens[j].open => j <= s
    BY <1>1, <1>3, LastOpenIs
  <2> HIDE DEF s, q
  <2>2. q \in Parsers /\ q.tokens = p.tokens /\ q.toksuper = s /\ ~q.refused
    BY <1>1, <1>3, <2>1 DEF Parsers
  <2>3. s <= Len(p.tokens)
    BY <1>1, <2>1
  <2> DEFINE tokens == p.tokens
  <2>4. /\ tokens \in Seq(Tokens) /\ Len(tokens) = Len(p.tokens) /\ q.tokens = tokens
        /\ \A j \in 1..Len(tokens) : tokens[j].size = p.tokens[j].size
                                     /\ (tokens[j].open => p.tokens[j].open /\ j <= s)
        /\ s <= Len(tokens)
    BY <1>1, <2>1, <2>2, <2>3
  <2> HIDE DEF tokens
  <2>5. Parsed(q)
    BY <2>1, <2>2, <2>4, MovedKeeps
  <2> QED BY <2>2, <2>5 DEF q
<1>4. q = p \/ (q = [p EXCEPT !.toksuper = s] /\ s # 0)
  BY DEF AfterComma
<1> QED BY <1>2, <1>3, <1>4

\* So does a colon (jsmn.h 376-378).
LEMMA ColonKeeps ==
    ASSUME NEW p, Parsed(p), ~p.refused
    PROVE  LET q == [p EXCEPT !.toksuper = Len(p.tokens)]
           IN  Parsed(q) /\ (q.refused \/ Len(q.tokens) = Len(p.tokens))
<1> DEFINE q == [p EXCEPT !.toksuper = Len(p.tokens)]
           tokens == p.tokens
           s == Len(tokens)
<1>1. p \in Parsers /\ tokens \in Seq(Tokens) /\ s \in Nat
  BY ParserType, TokensType DEF Parsed
<1>2. q \in Parsers /\ q.tokens = tokens /\ q.toksuper = s /\ ~q.refused
  BY <1>1 DEF Parsers
<1>3. \A j \in 1..s : tokens[j].size = p.tokens[j].size
                      /\ (tokens[j].open => p.tokens[j].open /\ j <= s)
  BY <1>1
<1> HIDE DEF q
<1>4. Parsed(q)
  BY <1>1, <1>2, <1>3, MovedKeeps
<1> QED BY <1>2, <1>4 DEF q

\* Each lexeme keeps what there is a tree of tokens, and a brace at the beginning is one.
LEMMA ReadKeeps ==
    ASSUME NEW p, Parsed(p), NEW lexeme \in Lexemes
    PROVE  LET q == Read(p, lexeme)
           IN  /\ Parsed(q)
               /\ q.refused \/ (~p.refused /\ Len(q.tokens) >= Len(p.tokens))
               /\ lexeme = Mark("lbrace") => q.refused \/ Len(q.tokens) > Len(p.tokens)
<1> DEFINE q == Read(p, lexeme)
<1>1. CASE p.refused
  BY <1>1 DEF Read
<1>2. CASE ~p.refused /\ lexeme \in [mark : Marks]
  <2> DEFINE m == lexeme.mark
  <2>0. Len(p.tokens) \in Nat
    BY ParserType, TokensType DEF Parsed
  <2>1. m \in Marks /\ Is("mark", lexeme) /\ ~Is("quoted", lexeme) /\ ~Is("primitive", lexeme)
    BY <1>2 DEF Is
  <2>2. lexeme = Mark("lbrace") => m = "lbrace"
    BY DEF Mark
  <2>3. q = Marked(p, m)
    BY <1>2, <2>1 DEF Read
  <2> HIDE DEF m, q
  <2>4. CASE m = "lbrace"
    <3>1. q = Opened(p, "object") /\ "object" \in Containers
      BY <2>3, <2>4 DEF Marked, Containers
    <3>2. Parsed(q) /\ (q.refused \/ Len(q.tokens) > Len(p.tokens))
      BY <1>2, <3>1, OpenedKeeps
    <3>3. q.refused \/ Len(q.tokens) \in Nat
      BY <3>2, ParserType, TokensType DEF Parsed
    <3> QED BY <1>2, <2>0, <3>2, <3>3 DEF q
  <2>5. CASE m = "lbracket"
    <3>1. q = Opened(p, "array") /\ "array" \in Containers
      BY <2>3, <2>5 DEF Marked, Containers
    <3>2. Parsed(q) /\ (q.refused \/ Len(q.tokens) > Len(p.tokens))
      BY <1>2, <3>1, OpenedKeeps
    <3>3. q.refused \/ Len(q.tokens) \in Nat
      BY <3>2, ParserType, TokensType DEF Parsed
    <3> QED BY <1>2, <2>0, <2>2, <2>5, <3>2, <3>3 DEF q
  <2>6. CASE m \in {"rbrace", "rbracket", "colon", "comma"}
    <3>1. Parsed(q) /\ (q.refused \/ Len(q.tokens) = Len(p.tokens))
      <4>1. CASE m = "rbrace"
        <5>1. q = Closed(p, "object")
          BY <2>3, <4>1 DEF Marked
        <5> QED BY <1>2, <5>1, ClosedKeeps
      <4>2. CASE m = "rbracket"
        <5>1. q = Closed(p, "array")
          BY <2>3, <4>2 DEF Marked
        <5> QED BY <1>2, <5>1, ClosedKeeps
      <4>3. CASE m = "colon"
        <5>1. q = [p EXCEPT !.toksuper = Len(p.tokens)]
          BY <2>3, <4>3 DEF Marked
        <5> QED BY <1>2, <5>1, ColonKeeps
      <4>4. CASE m = "comma"
        <5>1. q = AfterComma(p)
          BY <2>3, <4>4 DEF Marked
        <5> QED BY <1>2, <5>1, AfterCommaKeeps
      <4> QED BY <2>6, <4>1, <4>2, <4>3, <4>4
    <3> QED BY <1>2, <2>0, <2>2, <2>6, <3>1 DEF q
  <2> QED BY <2>1, <2>4, <2>5, <2>6 DEF Marks
<1>3. CASE ~p.refused /\ lexeme \notin [mark : Marks]
  <2>0. Len(p.tokens) \in Nat
    BY ParserType, TokensType DEF Parsed
  <2>1. ~Is("mark", lexeme) /\ lexeme # Mark("lbrace")
        /\ \/ /\ Is("quoted", lexeme) /\ ~Is("primitive", lexeme) /\ lexeme.quoted \in Strings
           \/ /\ Is("primitive", lexeme) /\ ~Is("quoted", lexeme)
              /\ lexeme.primitive \in Primitives \cup {Junk}
    BY <1>3 DEF Lexemes, Is, Mark
  <2>2. PICK token \in Tokens : token.size = 0 /\ ~token.open /\ q = Allocated(p, token)
    <3>1. CASE Is("quoted", lexeme)
      <4> DEFINE token == [type |-> "string", open |-> FALSE, size |-> 0,
                           of |-> Text(lexeme.quoted)]
      <4>1. token \in Tokens /\ token.size = 0 /\ ~token.open
        BY <2>1, <3>1 DEF Tokens, Text
      <4>2. q = Allocated(p, token)
        BY <1>3, <2>1, <3>1 DEF Read, FilledString, Filled
      <4> QED BY <4>1, <4>2
    <3>2. CASE Is("primitive", lexeme)
      <4> DEFINE token == [type |-> "primitive", open |-> FALSE, size |-> 0,
                           of |-> lexeme.primitive]
      <4>1. token \in Tokens /\ token.size = 0 /\ ~token.open
        BY <2>1, <3>2 DEF Tokens
      <4>2. q = Allocated(p, token)
        BY <1>3, <2>1, <3>2 DEF Read, FilledPrimitive, Filled
      <4> QED BY <4>1, <4>2
    <3> QED BY <2>1, <3>1, <3>2
  <2> HIDE DEF q
  <2>3. Parsed(q) /\ (q.refused \/ Len(q.tokens) > Len(p.tokens))
    BY <1>3, <2>2, FilledKeeps
  <2>4. q.refused \/ Len(q.tokens) \in Nat
    BY <2>3, ParserType, TokensType DEF Parsed
  <2> QED BY <1>3, <2>0, <2>1, <2>3, <2>4 DEF q
<1> QED BY <1>1, <1>2, <1>3

\* The parser of a text that begins with a brace has a tree of at least one token.
LEMMA TextIsParsed ==
    ASSUME NEW text \in Seq(Lexemes)
    PROVE  LET p == jsmn_parse(text)
           IN  p \in Parsers /\ Parsed(p) /\ (Braced(text) => p.refused \/ Len(p.tokens) >= 1)
<1> DEFINE N == Len(text)
           Base == [tokens |-> <<>>, toksuper |-> 0, refused |-> FALSE]
           Reads(f) == f = [k \in 0..N |-> IF k = 0 THEN Base ELSE Read(f[k - 1], text[k])]
           read == CHOOSE f : Reads(f)
           P == {p \in Parsers : Parsed(p)}
           F == [x \in (1..N) \X P |-> Read(x[2], text[x[1]])]
<1>1. N \in Nat /\ \A k \in 1..N : text[k] \in Lexemes
  <2> DEFINE L == Lexemes
  <2>1. text \in Seq(L) /\ Len(text) \in Nat
    OBVIOUS
  <2> HIDE DEF L
  <2>2. \A k \in 1..N : text[k] \in L
    BY <2>1, ElementOfSeq
  <2> QED BY <2>1, <2>2 DEF L
<1>2. Base \in P /\ Len(Base.tokens) = 0
  <2>1. Base \in Parsers /\ Base.tokens = <<>> /\ Base.toksuper = 0 /\ ~Base.refused
    BY DEF Parsers
  <2> HIDE DEF Base
  <2>2. Len(<<>>) = 0 /\ MaxTokens \in Nat
    BY TextAssumption
  <2> DEFINE none == [j \in 1..0 |-> 0]
  <2>3. Tree(0, Sizes(<<>>), none, none)
    BY DEF Tree
  <2>4. Growing(0, Opens(<<>>), 0, none)
    BY DEF Growing, Reaches
  <2> HIDE DEF none
  <2> QED BY <2>1, <2>2, <2>3, <2>4 DEF Parsed
<1> HIDE DEF Base
<1>3. \E f : Reads(f)
  <2>1. ASSUME NEW k \in 1..N, NEW x \in P PROVE F[<<k, x>>] = Read(x, text[k])
    <3> HIDE DEF P
    <3> QED OBVIOUS
  <2> HIDE DEF F
  <2>2. ASSUME NEW k \in 1..N, NEW x \in P PROVE F[<<k, x>>] \in P
    <3>1. Parsed(Read(x, text[k]))
      BY <1>1, ReadKeeps
    <3>2. Read(x, text[k]) \in Parsers
      BY <3>1 DEF Parsed
    <3> QED BY <2>1, <3>1, <3>2
  <2> HIDE DEF P
  <2>3. PICK f \in [0..N -> P] : Solves(f, N, Base, F)
    BY <1>1, <1>2, <2>2, RecursionIn
  <2>4. ASSUME NEW k \in 0..N PROVE f[k] = IF k = 0 THEN Base ELSE Read(f[k - 1], text[k])
    <3>1. CASE k = 0
      BY <2>3, <3>1 DEF Solves
    <3>2. CASE k # 0
      <4>1. k \in 1..N /\ k - 1 \in 0..N
        BY <1>1, <3>2
      <4>2. f[k - 1] \in P /\ f[k] = F[<<k, f[k - 1]>>]
        BY <2>3, <4>1 DEF Solves
      <4> QED BY <2>1, <3>2, <4>1, <4>2
    <3> QED BY <3>1, <3>2
  <2>5. f = [k \in 0..N |-> f[k]]
    BY <2>3
  <2>6. Reads(f)
    BY <2>4, <2>5
  <2> QED BY <2>6
<1>4. Reads(read)
  <2> HIDE DEF Reads
  <2> QED BY <1>3
<1> HIDE DEF read
<1> DEFINE A == {k \in 0..N : Parsed(read[k])
                              /\ (Braced(text) /\ k # 0
                                  => read[k].refused \/ Len(read[k].tokens) >= 1)}
<1>5. 0 \in A
  <2>1. read[0] = Base
    BY <1>1, <1>4
  <2> QED BY <1>1, <1>2, <2>1
<1>6. ASSUME NEW k \in 1..N, k - 1 \in A PROVE k \in A
  <2> DEFINE p == read[k - 1]
             q == read[k]
  <2>1. q = Read(p, text[k])
    BY <1>1, <1>4
  <2>2. Parsed(p) /\ (Braced(text) /\ k # 1 => p.refused \/ Len(p.tokens) >= 1)
    BY <1>6
  <2> HIDE DEF p, q
  <2>3. /\ Parsed(q)
        /\ q.refused \/ (~p.refused /\ Len(q.tokens) >= Len(p.tokens))
        /\ text[k] = Mark("lbrace") => q.refused \/ Len(q.tokens) > Len(p.tokens)
    BY <1>1, <2>1, <2>2, ReadKeeps
  <2>4. Len(p.tokens) \in Nat /\ Len(q.tokens) \in Nat
    BY <2>2, <2>3, ParserType, TokensType DEF Parsed
  <2>5. Braced(text) /\ k = 1 => text[k] = Mark("lbrace")
    BY DEF Braced
  <2>6. Braced(text) => q.refused \/ Len(q.tokens) >= 1
    BY <2>2, <2>3, <2>4, <2>5
  <2> QED BY <2>3, <2>6 DEF q
<1> HIDE DEF A
<1>7. \A k \in 0..N : k \in A
  BY <1>1, <1>5, <1>6, UpTo
<1> DEFINE p == read[N]
           q == [p EXCEPT !.refused = p.refused \/ LastOpen(p.tokens) # 0]
<1>8. Parsed(p) /\ (Braced(text) => p.refused \/ Len(p.tokens) >= 1)
  <2>1. N \in A
    BY <1>1, <1>7
  <2>2. Braced(text) => N # 0
    BY DEF Braced
  <2> QED BY <1>1, <2>1, <2>2 DEF A
<1>9. jsmn_parse(text) = q
  BY DEF jsmn_parse, read, Base
<1> HIDE DEF p
<1>10. q \in Parsers /\ q.tokens = p.tokens /\ q.toksuper = p.toksuper /\ (p.refused => q.refused)
  BY <1>8 DEF Parsed, Parsers
<1> HIDE DEF q
<1>11. Parsed(q) /\ (Braced(text) => q.refused \/ Len(q.tokens) >= 1)
  BY <1>8, <1>10 DEF Parsed
<1> QED BY <1>9, <1>10, <1>11

-----------------------------------------------------------------------------
(* Stepping over tokens.                                                     *)

\* E[i] is the first token that is not in token i any more, or the end.
Ends(n, par, E) ==
    \A i \in 1..n :
        /\ E[i] \in (i + 1)..(n + 1)
        /\ E[i] = n + 1 \/ par[E[i]] < i
        /\ \A m \in 1..n : i < m /\ m < E[i] => i <= par[m]

\* In a tree every token has an end, the first token behind all that is in it.
LEMMA EndsExist ==
    ASSUME NEW n \in Nat, NEW S, NEW par, NEW rank, Tree(n, S, par, rank)
    PROVE  \E E : E = [i \in 1..n |-> E[i]] /\ Ends(n, par, E)
<1> DEFINE Out(i) == {m \in (i + 1)..(n + 1) : m = n + 1 \/ par[m] < i}
           Least1(i, m) == m \in Out(i) /\ \A o \in Out(i) : m <= o
           E == [i \in 1..n |-> CHOOSE m : Least1(i, m)]
<1>1. \A j \in 1..n : par[j] \in Nat
  BY DEF Tree
<1>2. ASSUME NEW i \in 1..n PROVE \E m : Least1(i, m)
  <2>1. Out(i) \in SUBSET Nat /\ n + 1 \in Out(i)
    OBVIOUS
  <2> HIDE DEF Out
  <2> QED BY <2>1, LeastElement
<1>3. ASSUME NEW i \in 1..n PROVE Least1(i, E[i])
  <2> HIDE DEF Least1
  <2> QED BY <1>2
<1>4. E = [i \in 1..n |-> E[i]]
  OBVIOUS
<1> HIDE DEF E
<1>5. ASSUME NEW i \in 1..n, NEW m \in 1..n, i < m, m < E[i] PROVE i <= par[m]
  <2>1. E[i] \in Out(i) /\ \A o \in Out(i) : E[i] <= o
    BY <1>3
  <2>2. m \notin Out(i)
    <3>1. E[i] \in Nat
      BY <2>1
    <3> HIDE DEF Out
    <3> QED BY <1>5, <2>1, <3>1
  <2>3. ~(par[m] < i)
    BY <1>5, <2>2
  <2> QED BY <1>1, <2>3
<1>6. Ends(n, par, E)
  BY <1>3, <1>5 DEF Ends
<1> QED BY <1>4, <1>6

\* K[k] is where child k of token i is, and the end of i behind its last child.
KidsOf(K, i, n, size, E) ==
    /\ K = [k \in 0..size |-> K[k]]
    /\ K[0] = i + 1 /\ K[size] = E[i]
    /\ \A k \in 1..size : K[k - 1] \in (i + 1)..n /\ K[k] = E[K[k - 1]]

\* The children of a token begin where the one before ends, as many as its size says.
LEMMA Kids ==
    ASSUME NEW n \in Nat, NEW S, NEW par, NEW rank, Tree(n, S, par, rank),
           NEW E, Ends(n, par, E), NEW i \in 1..n
    PROVE  \E K : KidsOf(K, i, n, S[i], E)
<1> DEFINE Child(k, j) == j \in 1..n /\ par[j] = i /\ rank[j] = k
           K == [k \in 0..S[i] |-> IF k = S[i] THEN E[i] ELSE CHOOSE j : Child(k, j)]
<1>1. S[i] \in Nat /\ \A j \in 1..n : /\ par[j] \in Nat /\ par[j] < j /\ rank[j] \in Nat
                                      /\ par[j] = i => rank[j] < S[i]
  BY DEF Tree
<1>2. \A j, k \in 1..n : j < k /\ par[j] = i /\ par[k] = i => rank[j] < rank[k]
  BY DEF Tree
<1>3. \A j, k \in 1..n : par[k] < j /\ j < k => par[k] <= par[j]
  BY DEF Tree
<1>4. \A c \in 1..n : /\ E[c] \in (c + 1)..(n + 1)
                      /\ E[c] = n + 1 \/ (E[c] \in 1..n /\ par[E[c]] < c)
                      /\ \A m \in 1..n : c < m /\ m < E[c] => c <= par[m]
  BY DEF Ends
<1>5. ASSUME NEW k \in Nat, k < S[i] PROVE \E j : Child(k, j)
  BY <1>5 DEF Tree
<1>6. ASSUME NEW k \in 0..S[i], k # S[i] PROVE Child(k, K[k]) /\ i < K[k]
  <2>1. \E j : Child(k, j)
    BY <1>1, <1>5, <1>6
  <2>2. K[k] = CHOOSE j : Child(k, j)
    BY <1>6
  <2>3. Child(k, K[k])
    <3> HIDE DEF Child, K
    <3> QED BY <2>1, <2>2
  <2> HIDE DEF K
  <2> QED BY <1>1, <2>3
<1>7. K = [k \in 0..S[i] |-> K[k]] /\ K[S[i]] = E[i]
  BY <1>1
<1> HIDE DEF K
<1>8. K[0] = i + 1
  <2>1. CASE S[i] = 0
    <3> SUFFICES ASSUME E[i] # i + 1 PROVE FALSE
      BY <1>7, <2>1
    <3>1. i + 1 \in 1..n /\ i + 1 < E[i]
      BY <1>4
    <3>2. i <= par[i + 1] /\ par[i + 1] < i + 1
      BY <1>1, <1>4, <3>1
    <3>3. par[i + 1] = i
      BY <1>1, <3>1, <3>2
    <3> QED BY <1>1, <2>1, <3>1, <3>3
  <2>2. CASE S[i] # 0
    <3> DEFINE c == K[0]
    <3>1. 0 \in 0..S[i] /\ 0 # S[i]
      BY <1>1, <2>2
    <3>2. c \in 1..n /\ par[c] = i /\ rank[c] = 0 /\ i < c
      BY <1>6, <3>1
    <3> HIDE DEF c
    <3>3. ASSUME i + 1 < c PROVE FALSE
      <4>1. i + 1 \in 1..n /\ par[c] < i + 1
        BY <3>2, <3>3
      <4>2. i <= par[i + 1] /\ par[i + 1] < i + 1 /\ par[i + 1] \in Nat
        BY <1>1, <1>3, <3>2, <3>3, <4>1
      <4>3. par[i + 1] = i
        BY <4>2
      <4> QED BY <1>1, <1>2, <3>2, <3>3, <4>1, <4>3
    <3>4. c = i + 1
      BY <3>2, <3>3
    <3> QED BY <3>4 DEF c
  <2> QED BY <2>1, <2>2
\* no token right behind a child c of i belongs to one between the two
<1>9. ASSUME NEW c \in 1..n, par[c] = i, E[c] \in 1..n, i < par[E[c]] PROVE FALSE
  <2> DEFINE e == E[c]
             q == par[e]
  <2>1. e \in 1..n /\ c < e /\ q < c /\ i < q /\ q \in Nat
    BY <1>1, <1>4, <1>9
  <2> HIDE DEF e, q
  <2>2. q <= par[c]
    BY <1>3, <2>1 DEF q
  <2> QED BY <1>9, <2>1, <2>2
<1>10. ASSUME NEW k \in 1..S[i] PROVE K[k - 1] \in (i + 1)..n /\ K[k] = E[K[k - 1]]
  <2> DEFINE c == K[k - 1]
             e == E[c]
  <2>1. c \in 1..n /\ par[c] = i /\ rank[c] = k - 1 /\ i < c
    <3>1. k - 1 \in 0..S[i] /\ k - 1 # S[i]
      BY <1>1
    <3> QED BY <1>6, <3>1
  <2> HIDE DEF c
  <2>2. /\ e \in (c + 1)..(n + 1) /\ (e = n + 1 \/ (e \in 1..n /\ par[e] < c))
        /\ \A m \in 1..n : c < m /\ m < e => c <= par[m]
        /\ e \in 1..n => ~(i < par[e])
    BY <1>4, <1>9, <2>1
  <2> HIDE DEF e
  <2>3. CASE k # S[i]
    <3> DEFINE d == K[k]
    <3>1. d \in 1..n /\ par[d] = i /\ rank[d] = k
      <4>1. k \in 0..S[i]
        BY <1>1
      <4> QED BY <1>6, <2>3, <4>1
    <3> HIDE DEF d
    <3>2. c < d
      <4>1. c # d
        BY <2>1, <3>1
      <4>2. ~(d < c)
        BY <1>2, <2>1, <3>1
      <4> QED BY <2>1, <3>1, <4>1, <4>2
    <3>3. ~(d < e)
      BY <2>1, <2>2, <3>1, <3>2
    <3>4. ASSUME e < d PROVE FALSE
      <4>1. e \in 1..n /\ i < e
        BY <2>1, <2>2, <3>1, <3>4
      <4>2. i <= par[e]
        BY <1>3, <3>1, <3>4, <4>1
      <4>3. par[e] = i
        BY <1>1, <2>2, <4>1, <4>2
      <4>4. rank[c] < rank[e] /\ rank[e] < rank[d] /\ rank[e] \in Nat
        <5>1. c < e
          BY <2>1, <2>2
        <5> QED BY <1>1, <1>2, <2>1, <3>1, <3>4, <4>1, <4>3, <5>1
      <4> QED BY <2>1, <3>1, <4>4
    <3>5. d = e
      BY <2>1, <2>2, <3>1, <3>3, <3>4
    <3> QED BY <2>1, <3>5 DEF d, e, c
  <2>4. CASE k = S[i]
    <3> DEFINE g == E[i]
    <3>1. /\ g \in (i + 1)..(n + 1) /\ (g = n + 1 \/ (g \in 1..n /\ par[g] < i))
          /\ \A m \in 1..n : i < m /\ m < g => i <= par[m]
      BY <1>4
    <3> HIDE DEF g
    <3>2. c < g
      <4> SUFFICES ASSUME g <= c PROVE FALSE
        BY <2>1, <3>1
      <4>1. g \in 1..n /\ par[g] < i
        BY <2>1, <3>1
      <4>2. g # c
        BY <2>1, <4>1
      <4>3. par[c] < g /\ g < c
        BY <2>1, <3>1, <4>2
      <4>4. par[c] <= par[g] /\ par[g] \in Nat
        BY <1>1, <1>3, <2>1, <4>1, <4>3
      <4> QED BY <2>1, <4>1, <4>4
    <3>3. ASSUME g < e PROVE FALSE
      <4>1. g \in 1..n /\ par[g] < i /\ par[g] \in Nat
        BY <1>1, <2>2, <3>1, <3>3
      <4>2. c <= par[g]
        BY <2>2, <3>2, <3>3, <4>1
      <4> QED BY <2>1, <4>1, <4>2
    <3>4. ASSUME e < g PROVE FALSE
      <4>1. e \in 1..n /\ i < e /\ c < e
        BY <2>1, <2>2, <3>1, <3>4
      <4>2. i <= par[e]
        BY <3>1, <3>4, <4>1
      <4>3. par[e] = i
        BY <1>1, <2>2, <4>1, <4>2
      <4>4. rank[c] < rank[e] /\ rank[e] < S[i] /\ rank[e] \in Nat
        BY <1>1, <1>2, <2>1, <4>1, <4>3
      <4> QED BY <1>1, <2>1, <2>4, <4>4
    <3>5. e = g
      BY <2>1, <2>2, <3>1, <3>3, <3>4
    <3>6. K[k] = g
      BY <1>7, <2>4 DEF g
    <3> QED BY <2>1, <3>5, <3>6 DEF e, c
  <2> QED BY <2>3, <2>4
<1>11. KidsOf(K, i, n, S[i], E)
  BY <1>7, <1>8, <1>10 DEF KidsOf
<1> QED BY <1>11

\* E[i] is where the walk over the children of token i ends.
Steppable(tokens, E) ==
    /\ tokens \in Seq(Tokens)
    /\ \A i \in 1..Len(tokens) :
          /\ E[i] \in (i + 1)..(Len(tokens) + 1)
          /\ \E K : KidsOf(K, i, Len(tokens), tokens[i].size, E)

\* one count_tok_size, from those of the tokens inside it
NextWalk(tokens, behind, j, next) ==
    next = [k \in 0..tokens[j].size |-> IF k = 0 THEN j + 1 ELSE behind[next[k - 1]]]
NextBehind(tokens, behind, j) ==
    (CHOOSE next : NextWalk(tokens, behind, j, next))[tokens[j].size]

\* The tokens of a text that is not refused can be stepped over.
LEMMA ParsedIsSteppable ==
    ASSUME NEW p, Parsed(p), ~p.refused
    PROVE  /\ Len(p.tokens) \in 0..MaxTokens
           /\ \E E : Steppable(p.tokens, E)
<1> DEFINE tokens == p.tokens
           n == Len(tokens)
<1>1. tokens \in Seq(Tokens) /\ n \in Nat /\ n <= MaxTokens
  BY TokensType DEF Parsed, Parsers
<1>2. PICK par, rank : Tree(n, Sizes(tokens), par, rank)
  BY DEF Parsed
<1>3. \A i \in 1..n : Sizes(tokens)[i] = tokens[i].size
  BY <1>1, TokensType
<1> HIDE DEF tokens, n
<1>4. PICK E : Ends(n, par, E)
  BY <1>1, <1>2, EndsExist
<1>5. ASSUME NEW i \in 1..n
      PROVE  E[i] \in (i + 1)..(n + 1) /\ \E K : KidsOf(K, i, n, tokens[i].size, E)
  <2>1. E[i] \in (i + 1)..(n + 1)
    BY <1>4 DEF Ends
  <2>2. \E K : KidsOf(K, i, n, Sizes(tokens)[i], E)
    BY <1>1, <1>2, <1>4, Kids
  <2> QED BY <1>3, <2>1, <2>2
<1>6. Steppable(tokens, E)
  BY <1>1, <1>5 DEF Steppable, n
<1>7. MaxTokens \in Nat
  BY TextAssumption
<1> QED BY <1>1, <1>6, <1>7 DEF tokens, n

\* What is known of the tokens inside one is enough to step over it.
LEMMA NextBehindIs ==
    ASSUME NEW tokens, NEW E, Steppable(tokens, E), NEW i \in 1..Len(tokens), NEW behind,
           \A j \in (i + 1)..Len(tokens) : behind[j] = E[j]
    PROVE  NextBehind(tokens, behind, i) = E[i]
<1> DEFINE n == Len(tokens)
           size == tokens[i].size
           Nexts(next) == NextWalk(tokens, behind, i, next)
           next == CHOOSE next : Nexts(next)
<1>1. n \in Nat /\ tokens[i] \in Tokens /\ size \in Nat
  BY TokensType, TokenType DEF Steppable
<1>2. PICK K : KidsOf(K, i, n, size, E)
  BY DEF Steppable
<1>3. /\ K = [k \in 0..size |-> K[k]] /\ K[0] = i + 1 /\ K[size] = E[i]
      /\ \A k \in 1..size : K[k] = behind[K[k - 1]]
  BY <1>2 DEF KidsOf
<1> HIDE DEF n, size
<1>4. ASSUME NEW k \in 0..size PROVE K[k] = IF k = 0 THEN i + 1 ELSE behind[K[k - 1]]
  <2>1. k # 0 => k \in 1..size
    BY <1>1
  <2> QED BY <1>3, <2>1
<1>5. Nexts(K)
  BY <1>3, <1>4 DEF NextWalk, size
<1>6. Nexts(next)
  <2> HIDE DEF Nexts
  <2> QED BY <1>5
<1> HIDE DEF next
<1>7. \A k \in 0..size : next[k] = IF k = 0 THEN i + 1 ELSE behind[next[k - 1]]
  BY <1>6 DEF NextWalk, size
<1> DEFINE A == {k \in 0..size : next[k] = K[k]}
<1>8. 0 \in A
  BY <1>1, <1>3, <1>7
<1>9. ASSUME NEW k \in 1..size, k - 1 \in A PROVE k \in A
  <2>1. k \in 0..size /\ k # 0 /\ next[k - 1] = K[k - 1]
    BY <1>1, <1>9
  <2> QED BY <1>3, <1>7, <2>1
<1> HIDE DEF A
<1>10. \A k \in 0..size : k \in A
  BY <1>1, <1>8, <1>9, UpTo
<1>11. next[size] = K[size]
  BY <1>1, <1>10 DEF A
<1>12. NextBehind(tokens, behind, i) = next[size]
  BY DEF NextBehind, next, size
<1> QED BY <1>3, <1>11, <1>12

\* count_tok_size steps from a token to the first one that is not inside it.
LEMMA BehindIs ==
    ASSUME NEW tokens, NEW E, Steppable(tokens, E), NEW i \in 1..Len(tokens)
    PROVE  Behind(tokens, i) = E[i]
<1> DEFINE n == Len(tokens)
           Behinds(b) == b = [j \in DOMAIN tokens |-> NextBehind(tokens, b, j)]
           behind == CHOOSE b : Behinds(b)
           ends == [j \in 1..n |-> E[j]]
<1>1. n \in Nat /\ DOMAIN tokens = 1..n
  BY TokensType DEF Steppable
<1>2. Behinds(ends)
  <2>1. ASSUME NEW j \in 1..n PROVE NextBehind(tokens, ends, j) = E[j]
    <3>1. \A m \in (j + 1)..n : ends[m] = E[m]
      BY <1>1
    <3> HIDE DEF ends
    <3> QED BY <3>1, NextBehindIs
  <2> QED BY <1>1, <2>1
<1>3. Behinds(behind)
  <2> HIDE DEF Behinds, ends
  <2> QED BY <1>2
<1> HIDE DEF behind, ends
<1>4. \A j \in 1..n : behind[j] = NextBehind(tokens, behind, j)
  BY <1>1, <1>3
<1> HIDE DEF n
<1> DEFINE A == {m \in 0..n : \A j \in 1..n : n - m < j => behind[j] = E[j]}
<1>5. 0 \in A
  BY <1>1
<1>6. ASSUME NEW m \in 1..n, m - 1 \in A PROVE m \in A
  <2> DEFINE at == n + 1 - m
  <2>1. at \in 1..n /\ \A j \in (at + 1)..n : behind[j] = E[j]
    BY <1>1, <1>6
  <2> HIDE DEF at
  <2>2. behind[at] = E[at]
    BY <1>4, <2>1, NextBehindIs DEF n
  <2>3. ASSUME NEW j \in 1..n, n - m < j PROVE behind[j] = E[j]
    <3>1. j = at \/ j \in (at + 1)..n
      BY <1>1, <2>3 DEF at
    <3> QED BY <2>1, <2>2, <3>1
  <2>4. m \in 0..n
    BY <1>1
  <2> QED BY <2>3, <2>4
<1> HIDE DEF A
<1>7. n \in A
  BY <1>1, <1>5, <1>6, UpTo
<1>8. behind[i] = E[i]
  BY <1>1, <1>7 DEF A, n
<1>9. Behind(tokens, i) = behind[i]
  BY DEF Behind, behind, Behinds, NextBehind, NextWalk
<1> QED BY <1>8, <1>9

\* However many tokens a text is made of and whatever follows what, each child that
\* count_tok_size, parse_object or parse_array comes to is a token of the text behind its
\* container, and the walk over all of them ends where the container does (rbjson.cpp
\* 19-25, 75-113; jsmn.h 271-450).
THEOREM ChildrenAreTokens ==
    ASSUME NEW text \in Seq(Lexemes), ~jsmn_parse(text).refused
    PROVE  LET tokens == jsmn_parse(text).tokens
           IN  \A i \in 1..Len(tokens) :
                  /\ Behind(tokens, i) \in (i + 1)..(Len(tokens) + 1)
                  /\ \E child :
                        /\ child[0] = i + 1 /\ child[tokens[i].size] = Behind(tokens, i)
                        /\ \A k \in 1..tokens[i].size :
                              /\ child[k - 1] \in (i + 1)..Len(tokens)
                              /\ child[k] = Behind(tokens, child[k - 1])
<1> DEFINE p == jsmn_parse(text)
           tokens == p.tokens
           n == Len(tokens)
<1>1. Parsed(p) /\ ~p.refused
  BY TextIsParsed
<1> HIDE DEF p
<1>2. n \in Nat /\ \E E : Steppable(tokens, E)
  BY <1>1, ParsedIsSteppable
<1> HIDE DEF tokens
<1>3. PICK E : Steppable(tokens, E)
  BY <1>2
<1>4. ASSUME NEW i \in 1..n
      PROVE  /\ Behind(tokens, i) \in (i + 1)..(n + 1)
             /\ \E child : /\ child[0] = i + 1 /\ child[tokens[i].size] = Behind(tokens, i)
                           /\ \A k \in 1..tokens[i].size :
                                 /\ child[k - 1] \in (i + 1)..n
                                 /\ child[k] = Behind(tokens, child[k - 1])
  <2>1. \A j \in 1..n : Behind(tokens, j) = E[j]
    BY <1>3, BehindIs
  <2>2. E[i] \in (i + 1)..(n + 1)
    BY <1>3 DEF Steppable
  <2>3. PICK K : KidsOf(K, i, n, tokens[i].size, E)
    BY <1>3 DEF Steppable
  <2>4. /\ K[0] = i + 1 /\ K[tokens[i].size] = E[i]
        /\ \A k \in 1..tokens[i].size : K[k - 1] \in (i + 1)..n /\ K[k] = E[K[k - 1]]
    BY <2>3 DEF KidsOf
  <2>5. \A k \in 1..tokens[i].size : K[k] = Behind(tokens, K[k - 1])
    <3>1. \A j \in (i + 1)..n : j \in 1..n
      BY <1>2
    <3> QED BY <2>1, <2>4, <3>1
  <2> QED BY <2>1, <2>2, <2>4, <2>5
<1> QED BY <1>4 DEF tokens, p

-----------------------------------------------------------------------------
(* parse_value.                                                              *)

\* Steps by F lead from S[k - 1] to S[k].
Leads(N, S, F) == \A k \in 1..N : \A x \in S[k - 1] : F[x] \in S[k]

\* A walk of N steps whose state number k stays in S[k].
LEMMA Walked ==
    ASSUME NEW N \in Nat, NEW S, NEW base \in S[0], NEW F, Leads(N, S, F)
    PROVE  \E f : /\ f = [k \in 0..N |-> IF k = 0 THEN base ELSE F[f[k - 1]]]
                  /\ \A k \in 0..N : f[k] \in S[k]
<1> DEFINE U == UNION {S[k] : k \in 0..N}
           G == [x \in (1..N) \X U |-> F[x[2]]]
<1>1. \A k \in 0..N : S[k] \subseteq U
  OBVIOUS
<1> HIDE DEF U
<1>2. ASSUME NEW k \in 1..N, NEW x \in S[k - 1] PROVE G[<<k, x>>] = F[x]
  <2>1. k - 1 \in 0..N
    OBVIOUS
  <2>2. <<k, x>> \in (1..N) \X U
    BY <1>1, <2>1
  <2> QED BY <2>2
<1> HIDE DEF G
<1>3. PICK f : f = [n \in 0..N |-> f[n]] /\ Solves(f, N, base, G)
  BY Recursion
<1>4. ASSUME NEW k \in 1..N, NEW x \in S[k - 1] PROVE G[<<k, x>>] \in S[k]
  BY <1>2 DEF Leads
<1>5. \A k \in 0..N : f[k] \in S[k]
  BY <1>3, <1>4, SolutionsKeep
<1>6. ASSUME NEW k \in 0..N PROVE f[k] = IF k = 0 THEN base ELSE F[f[k - 1]]
  <2>1. CASE k = 0
    BY <1>3, <2>1 DEF Solves
  <2>2. CASE k # 0
    <3>1. k \in 1..N /\ k - 1 \in 0..N
      BY <2>2
    <3>2. f[k] = G[<<k, f[k - 1]>>] /\ f[k - 1] \in S[k - 1]
      BY <1>3, <1>5, <3>1 DEF Solves
    <3> QED BY <1>2, <2>2, <3>1, <3>2
  <2> QED BY <2>1, <2>2
<1> QED BY <1>3, <1>5, <1>6

\* f walks by F as long as it is in S.
Follows(N, S, F, f) == \A k \in 1..N : f[k - 1] \in S[k - 1] => f[k] = F[f[k - 1]]

\* What any such walk comes to.
LEMMA WalkKeeps ==
    ASSUME NEW N \in Nat, NEW S, NEW base \in S[0], NEW F, Leads(N, S, F),
           NEW f, f[0] = base, Follows(N, S, F, f)
    PROVE  \A k \in 0..N : f[k] \in S[k]
<1> DEFINE A == {k \in 0..N : f[k] \in S[k]}
<1>1. 0 \in A
  OBVIOUS
<1>2. ASSUME NEW k \in 1..N, k - 1 \in A PROVE k \in A
  <2>1. f[k - 1] \in S[k - 1] /\ k \in 0..N
    BY <1>2
  <2>2. f[k] = F[f[k - 1]]
    BY <2>1 DEF Follows
  <2> QED BY <2>1, <2>2 DEF Leads
<1> HIDE DEF A
<1>3. \A k \in 0..N : k \in A
  BY <1>1, <1>2, UpTo
<1> QED BY <1>3 DEF A

\* The values parsed behind token i are in V, or none.
ParsedInto(V, tokens, parsed, i) ==
    \A j \in (i + 1)..Len(tokens) : parsed[j] \in V \cup {NULL}

\* g is the same behind token i.
Agrees(V, tokens, g, parsed, i) ==
    ParsedInto(V, tokens, g, i) /\ \A j \in (i + 1)..Len(tokens) : g[j] = parsed[j]

\* one step of parse_object and of parse_array
ObjectStep(tokens, parsed, w) ==
    LET val == parsed[w.at + 1]
    IN  IF ~Steps(tokens, w.at) THEN w
        ELSE [at |-> Behind(tokens, w.at),
              members |-> IF val = NULL THEN w.members
                          ELSE WithMember(w.members, tokens[w.at].of.string, val)]

ArrayStep(tokens, parsed, w) ==
    LET val == parsed[w.at]
    IN  [at |-> Behind(tokens, w.at),
         items |-> IF val = NULL THEN w.items ELSE Append(w.items, val)]

ObjectWalk(tokens, parsed, i, walk) ==
    walk = [k \in 0..tokens[i].size |->
               IF k = 0 THEN [at |-> i + 1, members |-> <<>>]
               ELSE ObjectStep(tokens, parsed, walk[k - 1])]

ArrayWalk(tokens, parsed, i, walk) ==
    walk = [k \in 0..tokens[i].size |->
               IF k = 0 THEN [at |-> i + 1, items |-> <<>>]
               ELSE ArrayStep(tokens, parsed, walk[k - 1])]

\* Each member is added in order, to the members there are; where the walk is, the child is.
LEMMA ObjectStepKeeps ==
    ASSUME NEW tokens, NEW E, Steppable(tokens, E), NEW i \in 1..Len(tokens), NEW V, NEW parsed,
           ParsedInto(V, tokens, parsed, i),
           NEW at \in (i + 1)..Len(tokens), NEW w, w.at = at,
           w.members \in MembersOf(V), Sorted(w.members)
    PROVE  LET next == ObjectStep(tokens, parsed, w)
           IN  /\ next = w \/ next = [at |-> E[at], members |-> next.members]
               /\ next.members \in MembersOf(V) /\ Sorted(next.members)
               /\ \A g : Agrees(V, tokens, g, parsed, i) => ObjectStep(tokens, g, w) = next
<1> DEFINE n == Len(tokens)
           val == parsed[at + 1]
           key == tokens[at].of.string
           more == IF val = NULL THEN w.members ELSE WithMember(w.members, key, val)
<1>1. n \in Nat /\ tokens[at] \in Tokens /\ tokens[at].size \in Nat
  BY TokensType, TokenType DEF Steppable
<1>2. CASE ~Steps(tokens, at)
  BY <1>2 DEF ObjectStep
<1>3. CASE Steps(tokens, at)
  <2>1. key \in Strings /\ tokens[at].size = 1
    BY <1>1, <1>3, TokenType DEF Steps
  <2>2. at + 1 \in (i + 1)..n
    <3>1. PICK K : KidsOf(K, at, n, tokens[at].size, E)
      BY <1>1 DEF Steppable
    <3>2. 1 \in 1..tokens[at].size /\ K[0] = at + 1
      BY <2>1, <3>1 DEF KidsOf
    <3>3. K[1 - 1] \in (at + 1)..n
      BY <3>1, <3>2 DEF KidsOf
    <3> QED BY <1>1, <3>2, <3>3
  <2>3. val \in V \cup {NULL}
    BY <2>2 DEF ParsedInto
  <2>4. more \in MembersOf(V) /\ Sorted(more)
    <3> HIDE DEF key, val
    <3> QED BY <2>1, <2>3, SetKeeps
  <2>5. ObjectStep(tokens, parsed, w) = [at |-> E[at], members |-> more]
    <3>1. Behind(tokens, at) = E[at]
      BY <1>1, BehindIs
    <3> QED BY <1>3, <3>1 DEF ObjectStep
  <2>6. ASSUME NEW g, Agrees(V, tokens, g, parsed, i)
        PROVE  ObjectStep(tokens, g, w) = ObjectStep(tokens, parsed, w)
    <3>1. g[at + 1] = parsed[at + 1]
      BY <2>2, <2>6 DEF Agrees
    <3> QED BY <3>1 DEF ObjectStep
  <2> HIDE DEF more
  <2> QED BY <2>4, <2>5, <2>6
<1> QED BY <1>2, <1>3

\* the states of a walk over the children K of a token, after k of them
ObjectStates(V, K, size) ==
    [k \in 0..size |-> {w \in [at : Nat, members : MembersOf(V)] :
                           Sorted(w.members) /\ \E q \in 0..k : w.at = K[q]}]

\* A step of parse_object goes to the next child or stays, and keeps the members sorted
\* (rbjson.cpp 81-93).
LEMMA ObjectStatesKept ==
    ASSUME NEW tokens, NEW E, Steppable(tokens, E), NEW i \in 1..Len(tokens), NEW V, NEW parsed,
           ParsedInto(V, tokens, parsed, i),
           NEW K, KidsOf(K, i, Len(tokens), tokens[i].size, E),
           NEW k \in 1..tokens[i].size, NEW w \in ObjectStates(V, K, tokens[i].size)[k - 1]
    PROVE  /\ ObjectStep(tokens, parsed, w) \in ObjectStates(V, K, tokens[i].size)[k]
           /\ \A g : Agrees(V, tokens, g, parsed, i) =>
                        ObjectStep(tokens, g, w) = ObjectStep(tokens, parsed, w)
<1> DEFINE n == Len(tokens)
           size == tokens[i].size
           U == [at : Nat, members : MembersOf(V)]
           S == ObjectStates(V, K, size)
<1>1. n \in Nat /\ size \in Nat
  BY TokensType, TokenType DEF Steppable
<1>2. /\ K[0] = i + 1 /\ K[size] = E[i]
      /\ \A c \in 1..size : K[c - 1] \in (i + 1)..n /\ K[c] = E[K[c - 1]]
  BY DEF KidsOf
<1>3. \A c \in 0..size : S[c] = {x \in U : Sorted(x.members) /\ \E q \in 0..c : x.at = K[q]}
  BY DEF ObjectStates
<1> HIDE DEF S, size, n
<1>4. k - 1 \in 0..size /\ k \in 0..size /\ k \in 1..size
  BY <1>1 DEF size
<1>5. w \in U /\ Sorted(w.members) /\ \E q \in 0..(k - 1) : w.at = K[q]
  <2> HIDE DEF U
  <2>1. w \in S[k - 1]
    BY DEF S, size
  <2> QED BY <1>3, <1>4, <2>1
<1>6. PICK q \in 0..(k - 1) : w.at = K[q]
  BY <1>5
<1>7. q + 1 \in 1..size /\ q + 1 \in 0..k /\ q \in 0..k /\ q + 1 - 1 = q
  BY <1>1, <1>4
<1>8. K[q] \in (i + 1)..n /\ K[q + 1] = E[K[q]]
  BY <1>2, <1>7
<1>9. w.members \in MembersOf(V) /\ w.at \in (i + 1)..n /\ E[w.at] = K[q + 1]
  BY <1>5, <1>6, <1>8
<1> DEFINE next == ObjectStep(tokens, parsed, w)
<1>10. /\ next = w \/ next = [at |-> E[w.at], members |-> next.members]
       /\ next.members \in MembersOf(V) /\ Sorted(next.members)
       /\ \A g : Agrees(V, tokens, g, parsed, i) => ObjectStep(tokens, g, w) = next
  BY <1>5, <1>9, ObjectStepKeeps DEF n
<1>11. next \in U /\ \E r \in 0..k : next.at = K[r]
  <2> HIDE DEF next
  <2>1. CASE next = w
    BY <1>5, <1>6, <1>7, <2>1
  <2>2. CASE next = [at |-> E[w.at], members |-> next.members]
    <3>1. E[w.at] \in Nat
      <4>1. w.at \in 1..n
        BY <1>1, <1>9
      <4>2. E[w.at] \in (w.at + 1)..(n + 1)
        BY <4>1 DEF Steppable, n
      <4> QED BY <1>1, <4>1, <4>2
    <3>2. next.at = K[q + 1]
      BY <1>9, <2>2
    <3> QED BY <1>7, <1>10, <2>2, <3>1, <3>2
  <2> QED BY <1>10, <2>1, <2>2
<1> HIDE DEF U
<1>12. next \in S[k]
  BY <1>3, <1>4, <1>10, <1>11
<1> QED BY <1>10, <1>12 DEF S, size

\* parse_object makes sorted members of what was parsed behind it, and of nothing else.
LEMMA ObjectParsed ==
    ASSUME NEW tokens, NEW E, Steppable(tokens, E), NEW i \in 1..Len(tokens), NEW V, NEW parsed,
           ParsedInto(V, tokens, parsed, i)
    PROVE  /\ \E m \in MembersOf(V) : Sorted(m) /\ parse_object(tokens, parsed, i) = Object(m)
           /\ \A g : Agrees(V, tokens, g, parsed, i) =>
                    parse_object(tokens, g, i) = parse_object(tokens, parsed, i)
<1> DEFINE n == Len(tokens)
           size == tokens[i].size
           base == [at |-> i + 1, members |-> <<>>]
           U == [at : Nat, members : MembersOf(V)]
           Walk(g) == CHOOSE walk : ObjectWalk(tokens, g, i, walk)
           Good(g) == ParsedInto(V, tokens, g, i)
<1>1. n \in Nat /\ size \in Nat
  BY TokensType, TokenType DEF Steppable
<1>2. PICK K : KidsOf(K, i, n, size, E)
  BY DEF Steppable
<1> DEFINE S == ObjectStates(V, K, size)
<1>3. base \in S[0]
  <2>1. <<>> \in MembersOf(V) /\ Sorted(<<>>)
    BY DEF MembersOf, Sorted
  <2>2. base \in U /\ base.members = <<>> /\ base.at = K[0]
    BY <1>1, <1>2, <2>1 DEF KidsOf
  <2>3. 0 \in 0..size /\ 0 \in 0..0
    BY <1>1
  <2> HIDE DEF base, U
  <2> QED BY <2>1, <2>2, <2>3 DEF ObjectStates, U
<1>4. \A k \in 0..size : S[k] \subseteq U /\ \A w \in S[k] : Sorted(w.members)
  BY DEF ObjectStates
<1>5. ASSUME NEW g, Good(g), NEW k \in 1..size, NEW w \in S[k - 1]
      PROVE  /\ ObjectStep(tokens, g, w) \in S[k]
             /\ Agrees(V, tokens, g, parsed, i)
                => ObjectStep(tokens, g, w) = ObjectStep(tokens, parsed, w)
  <2>1. ObjectStep(tokens, g, w) \in S[k]
    BY <1>2, <1>5, ObjectStatesKept
  <2>2. \A h : Agrees(V, tokens, h, parsed, i) =>
                    ObjectStep(tokens, h, w) = ObjectStep(tokens, parsed, w)
    BY <1>2, ObjectStatesKept
  <2> QED BY <2>1, <2>2
<1> HIDE DEF S, base, size
<1>6. ASSUME NEW g, Good(g)
      PROVE  /\ Walk(g)[0] = base
             /\ \A k \in 1..size : Walk(g)[k] = ObjectStep(tokens, g, Walk(g)[k - 1])
             /\ \A k \in 0..size : Walk(g)[k] \in S[k]
  <2> DEFINE F == [w \in U |-> ObjectStep(tokens, g, w)]
  <2>1. ASSUME NEW k \in 1..size, NEW w \in S[k - 1]
        PROVE  F[w] = ObjectStep(tokens, g, w) /\ F[w] \in S[k]
    <3>1. k - 1 \in 0..size
      BY <1>1
    <3>2. w \in U
      BY <1>4, <3>1
    <3>3. F[w] = ObjectStep(tokens, g, w)
      BY <3>2
    <3> QED BY <1>5, <1>6, <3>3
  <2> HIDE DEF F
  <2>2. Leads(size, S, F)
    BY <2>1 DEF Leads
  <2>3. PICK f : /\ f = [k \in 0..size |-> IF k = 0 THEN base ELSE F[f[k - 1]]]
                 /\ \A k \in 0..size : f[k] \in S[k]
    BY <1>1, <1>3, <2>2, Walked
  <2>4. ASSUME NEW k \in 0..size
        PROVE  f[k] = IF k = 0 THEN base ELSE ObjectStep(tokens, g, f[k - 1])
    <3>1. CASE k = 0
      BY <2>3, <3>1
    <3>2. CASE k # 0
      <4>1. k \in 1..size /\ k - 1 \in 0..size
        BY <1>1, <3>2
      <4>2. f[k - 1] \in S[k - 1] /\ f[k] = F[f[k - 1]]
        BY <2>3, <3>2, <4>1
      <4> QED BY <2>1, <3>2, <4>1, <4>2
    <3> QED BY <3>1, <3>2
  <2>5. f = [k \in 0..size |-> f[k]]
    BY <2>3
  <2>6. ObjectWalk(tokens, g, i, f)
    BY <2>4, <2>5 DEF ObjectWalk, base, size
  <2>7. ObjectWalk(tokens, g, i, Walk(g))
    BY <2>6
  <2> DEFINE w == Walk(g)
  <2> HIDE DEF w
  <2>8. w = [k \in 0..size |-> IF k = 0 THEN base ELSE ObjectStep(tokens, g, w[k - 1])]
    BY <2>7 DEF ObjectWalk, base, size, w
  <2>9. w[0] = base /\ \A k \in 1..size : w[k] = ObjectStep(tokens, g, w[k - 1])
    <3>1. 0 \in 0..size
      BY <1>1
    <3>2. ASSUME NEW k \in 1..size PROVE w[k] = ObjectStep(tokens, g, w[k - 1])
      <4>1. k \in 0..size /\ k # 0
        BY <1>1
      <4> QED BY <2>8, <4>1
    <3> QED BY <2>8, <3>1, <3>2
  <2>10. Follows(size, S, F, w)
    BY <2>1, <2>9 DEF Follows
  <2>11. \A k \in 0..size : w[k] \in S[k]
    BY <1>1, <1>3, <2>2, <2>9, <2>10, WalkKeeps
  <2> QED BY <2>9, <2>11 DEF w
<1>7. ASSUME NEW g PROVE parse_object(tokens, g, i) = Object(Walk(g)[size].members)
  BY DEF parse_object, ObjectWalk, ObjectStep, size
<1> HIDE DEF Walk, Good
<1>8. \E m \in MembersOf(V) : Sorted(m) /\ parse_object(tokens, parsed, i) = Object(m)
  <2>1. Walk(parsed)[size] \in S[size] /\ size \in 0..size
    BY <1>1, <1>6 DEF Good
  <2>2. Walk(parsed)[size].members \in MembersOf(V) /\ Sorted(Walk(parsed)[size].members)
    BY <1>4, <2>1
  <2> QED BY <1>7, <2>2
<1>9. ASSUME NEW g, Agrees(V, tokens, g, parsed, i)
      PROVE  parse_object(tokens, g, i) = parse_object(tokens, parsed, i)
  <2> DEFINE v == Walk(g)
             w == Walk(parsed)
             A == {k \in 0..size : v[k] = w[k]}
  <2>1. /\ v[0] = base /\ \A k \in 1..size : v[k] = ObjectStep(tokens, g, v[k - 1])
    BY <1>6, <1>9 DEF Agrees, Good
  <2>2. /\ w[0] = base /\ \A k \in 1..size : w[k] = ObjectStep(tokens, parsed, w[k - 1])
        /\ \A k \in 0..size : w[k] \in S[k]
    BY <1>6 DEF Good
  <2> HIDE DEF v, w
  <2>3. 0 \in A
    BY <1>1, <2>1, <2>2
  <2>4. ASSUME NEW k \in 1..size, k - 1 \in A PROVE k \in A
    <3>1. v[k - 1] = w[k - 1] /\ w[k - 1] \in S[k - 1] /\ k \in 0..size
      BY <1>1, <2>2, <2>4
    <3>2. ObjectStep(tokens, g, w[k - 1]) = ObjectStep(tokens, parsed, w[k - 1])
      BY <1>5, <1>9, <3>1 DEF Agrees, Good
    <3> QED BY <2>1, <2>2, <3>1, <3>2
  <2> HIDE DEF A
  <2>5. \A k \in 0..size : k \in A
    BY <1>1, <2>3, <2>4, UpTo
  <2>6. v[size] = w[size]
    BY <1>1, <2>5 DEF A
  <2> QED BY <1>7, <2>6 DEF v, w
<1> QED BY <1>8, <1>9 DEF Good

\* the same for arrays: after k items the walk is at child number k
ArrayStates(V, K, size) ==
    [k \in 0..size |-> {w \in [at : Nat, items : Seq(V)] : w.at = K[k]}]

\* A step of parse_array goes to the next child (rbjson.cpp 102-110).
LEMMA ArrayStatesKept ==
    ASSUME NEW tokens, NEW E, Steppable(tokens, E), NEW i \in 1..Len(tokens), NEW V, NEW parsed,
           ParsedInto(V, tokens, parsed, i),
           NEW K, KidsOf(K, i, Len(tokens), tokens[i].size, E),
           NEW k \in 1..tokens[i].size, NEW w \in ArrayStates(V, K, tokens[i].size)[k - 1]
    PROVE  /\ ArrayStep(tokens, parsed, w) \in ArrayStates(V, K, tokens[i].size)[k]
           /\ \A g : Agrees(V, tokens, g, parsed, i) =>
                        ArrayStep(tokens, g, w) = ArrayStep(tokens, parsed, w)
<1> DEFINE n == Len(tokens)
           size == tokens[i].size
           U == [at : Nat, items : Seq(V)]
           S == ArrayStates(V, K, size)
           at == w.at
           val == parsed[at]
           more == IF val = NULL THEN w.items ELSE Append(w.items, val)
           next == ArrayStep(tokens, parsed, w)
<1>1. n \in Nat /\ size \in Nat
  BY TokensType, TokenType DEF Steppable
<1>2. k \in 1..size /\ K[k - 1] \in (i + 1)..n /\ K[k] = E[K[k - 1]]
  BY DEF KidsOf
<1>3. \A c \in 0..size : S[c] = {x \in U : x.at = K[c]}
  BY DEF ArrayStates
<1>4. w \in U /\ w.at = K[k - 1]
  <2>1. w \in S[k - 1] /\ k - 1 \in 0..size
    BY <1>1
  <2> HIDE DEF S, size, U
  <2> QED BY <1>3, <2>1
<1> HIDE DEF S, size, n
<1>5. w.items \in Seq(V) /\ at \in (i + 1)..n /\ E[at] = K[k] /\ at \in 1..n
  BY <1>1, <1>2, <1>4 DEF n
<1>6. val \in V \cup {NULL}
  BY <1>5 DEF ParsedInto, n
<1> HIDE DEF at
<1>7. more \in Seq(V)
  <2> HIDE DEF val
  <2> QED BY <1>5, <1>6, AppendProperties
<1>8. Behind(tokens, at) = E[at] /\ E[at] \in (at + 1)..(n + 1)
  BY <1>5, BehindIs DEF Steppable, n
<1>9. next = [at |-> K[k], items |-> more]
  BY <1>5, <1>8 DEF ArrayStep, at
<1>10. K[k] \in Nat
  BY <1>1, <1>5, <1>8
<1>11. next \in S[k]
  <2> HIDE DEF more, next
  <2>1. k \in 0..size
    BY <1>1, <1>2
  <2>2. next \in U /\ next.at = K[k]
    BY <1>7, <1>9, <1>10
  <2> HIDE DEF U
  <2> QED BY <1>3, <2>1, <2>2
<1>12. ASSUME NEW g, Agrees(V, tokens, g, parsed, i)
       PROVE  ArrayStep(tokens, g, w) = ArrayStep(tokens, parsed, w)
  <2>1. g[at] = parsed[at]
    BY <1>5, <1>12 DEF Agrees, n
  <2> QED BY <2>1 DEF ArrayStep, at
<1> QED BY <1>11, <1>12 DEF S, size

\* parse_array takes its items from what was parsed behind it, and from nothing else.
LEMMA ArrayParsed ==
    ASSUME NEW tokens, NEW E, Steppable(tokens, E), NEW i \in 1..Len(tokens), NEW V, NEW parsed,
           ParsedInto(V, tokens, parsed, i)
    PROVE  /\ \E items \in Seq(V) : parse_array(tokens, parsed, i) = Array(items)
           /\ \A g : Agrees(V, tokens, g, parsed, i) =>
                    parse_array(tokens, g, i) = parse_array(tokens, parsed, i)
<1> DEFINE n == Len(tokens)
           size == tokens[i].size
           base == [at |-> i + 1, items |-> <<>>]
           U == [at : Nat, items : Seq(V)]
           Walk(g) == CHOOSE walk : ArrayWalk(tokens, g, i, walk)
           Good(g) == ParsedInto(V, tokens, g, i)
<1>1. n \in Nat /\ size \in Nat
  BY TokensType, TokenType DEF Steppable
<1>2. PICK K : KidsOf(K, i, n, size, E)
  BY DEF Steppable
<1> DEFINE S == ArrayStates(V, K, size)
<1>3. base \in S[0]
  <2>1. <<>> \in Seq(V)
    OBVIOUS
  <2>2. base \in U /\ base.at = K[0]
    BY <1>1, <1>2, <2>1 DEF KidsOf
  <2>3. 0 \in 0..size /\ 0 \in 0..0
    BY <1>1
  <2> HIDE DEF base, U
  <2> QED BY <2>1, <2>2, <2>3 DEF ArrayStates, U
<1>4. \A k \in 0..size : S[k] \subseteq U
  BY DEF ArrayStates
<1>5. ASSUME NEW g, Good(g), NEW k \in 1..size, NEW w \in S[k - 1]
      PROVE  /\ ArrayStep(tokens, g, w) \in S[k]
             /\ Agrees(V, tokens, g, parsed, i)
                => ArrayStep(tokens, g, w) = ArrayStep(tokens, parsed, w)
  <2>1. ArrayStep(tokens, g, w) \in S[k]
    BY <1>2, <1>5, ArrayStatesKept
  <2>2. \A h : Agrees(V, tokens, h, parsed, i) =>
                    ArrayStep(tokens, h, w) = ArrayStep(tokens, parsed, w)
    BY <1>2, ArrayStatesKept
  <2> QED BY <2>1, <2>2
<1> HIDE DEF S, base, size
<1>6. ASSUME NEW g, Good(g)
      PROVE  /\ Walk(g)[0] = base
             /\ \A k \in 1..size : Walk(g)[k] = ArrayStep(tokens, g, Walk(g)[k - 1])
             /\ \A k \in 0..size : Walk(g)[k] \in S[k]
  <2> DEFINE F == [w \in U |-> ArrayStep(tokens, g, w)]
  <2>1. ASSUME NEW k \in 1..size, NEW w \in S[k - 1]
        PROVE  F[w] = ArrayStep(tokens, g, w) /\ F[w] \in S[k]
    <3>1. k - 1 \in 0..size
      BY <1>1
    <3>2. w \in U
      BY <1>4, <3>1
    <3>3. F[w] = ArrayStep(tokens, g, w)
      BY <3>2
    <3> QED BY <1>5, <1>6, <3>3
  <2> HIDE DEF F
  <2>2. Leads(size, S, F)
    BY <2>1 DEF Leads
  <2>3. PICK f : /\ f = [k \in 0..size |-> IF k = 0 THEN base ELSE F[f[k - 1]]]
                 /\ \A k \in 0..size : f[k] \in S[k]
    BY <1>1, <1>3, <2>2, Walked
  <2>4. ASSUME NEW k \in 0..size
        PROVE  f[k] = IF k = 0 THEN base ELSE ArrayStep(tokens, g, f[k - 1])
    <3>1. CASE k = 0
      BY <2>3, <3>1
    <3>2. CASE k # 0
      <4>1. k \in 1..size /\ k - 1 \in 0..size
        BY <1>1, <3>2
      <4>2. f[k - 1] \in S[k - 1] /\ f[k] = F[f[k - 1]]
        BY <2>3, <3>2, <4>1
      <4> QED BY <2>1, <3>2, <4>1, <4>2
    <3> QED BY <3>1, <3>2
  <2>5. f = [k \in 0..size |-> f[k]]
    BY <2>3
  <2>6. ArrayWalk(tokens, g, i, f)
    BY <2>4, <2>5 DEF ArrayWalk, base, size
  <2>7. ArrayWalk(tokens, g, i, Walk(g))
    BY <2>6
  <2> DEFINE w == Walk(g)
  <2> HIDE DEF w
  <2>8. w = [k \in 0..size |-> IF k = 0 THEN base ELSE ArrayStep(tokens, g, w[k - 1])]
    BY <2>7 DEF ArrayWalk, base, size, w
  <2>9. w[0] = base /\ \A k \in 1..size : w[k] = ArrayStep(tokens, g, w[k - 1])
    <3>1. 0 \in 0..size
      BY <1>1
    <3>2. ASSUME NEW k \in 1..size PROVE w[k] = ArrayStep(tokens, g, w[k - 1])
      <4>1. k \in 0..size /\ k # 0
        BY <1>1
      <4> QED BY <2>8, <4>1
    <3> QED BY <2>8, <3>1, <3>2
  <2>10. Follows(size, S, F, w)
    BY <2>1, <2>9 DEF Follows
  <2>11. \A k \in 0..size : w[k] \in S[k]
    BY <1>1, <1>3, <2>2, <2>9, <2>10, WalkKeeps
  <2> QED BY <2>9, <2>11 DEF w
<1>7. ASSUME NEW g PROVE parse_array(tokens, g, i) = Array(Walk(g)[size].items)
  BY DEF parse_array, ArrayWalk, ArrayStep, size
<1> HIDE DEF Walk, Good
<1>8. \E items \in Seq(V) : parse_array(tokens, parsed, i) = Array(items)
  <2>1. Walk(parsed)[size] \in S[size] /\ size \in 0..size
    BY <1>1, <1>6 DEF Good
  <2>2. Walk(parsed)[size].items \in Seq(V)
    BY <1>4, <2>1
  <2> QED BY <1>7, <2>2
<1>9. ASSUME NEW g, Agrees(V, tokens, g, parsed, i)
      PROVE  parse_array(tokens, g, i) = parse_array(tokens, parsed, i)
  <2> DEFINE v == Walk(g)
             w == Walk(parsed)
             A == {k \in 0..size : v[k] = w[k]}
  <2>1. /\ v[0] = base /\ \A k \in 1..size : v[k] = ArrayStep(tokens, g, v[k - 1])
    BY <1>6, <1>9 DEF Agrees, Good
  <2>2. /\ w[0] = base /\ \A k \in 1..size : w[k] = ArrayStep(tokens, parsed, w[k - 1])
        /\ \A k \in 0..size : w[k] \in S[k]
    BY <1>6 DEF Good
  <2> HIDE DEF v, w
  <2>3. 0 \in A
    BY <1>1, <2>1, <2>2
  <2>4. ASSUME NEW k \in 1..size, k - 1 \in A PROVE k \in A
    <3>1. v[k - 1] = w[k - 1] /\ w[k - 1] \in S[k - 1] /\ k \in 0..size
      BY <1>1, <2>2, <2>4
    <3>2. ArrayStep(tokens, g, w[k - 1]) = ArrayStep(tokens, parsed, w[k - 1])
      BY <1>5, <1>9, <3>1 DEF Agrees, Good
    <3> QED BY <2>1, <2>2, <3>1, <3>2
  <2> HIDE DEF A
  <2>5. \A k \in 0..size : k \in A
    BY <1>1, <2>3, <2>4, UpTo
  <2>6. v[size] = w[size]
    BY <1>1, <2>5 DEF A
  <2> QED BY <1>7, <2>6 DEF v, w
<1> QED BY <1>8, <1>9 DEF Good

\* what parse_value makes of token j, from what was parsed behind it
ValueOf(tokens, parsed, j) ==
    CASE tokens[j].type = "object" -> parse_object(tokens, parsed, j)
      [] tokens[j].type = "array" -> parse_array(tokens, parsed, j)
      [] tokens[j].type = "string" -> tokens[j].of
      [] OTHER -> IF Is("number", tokens[j].of) THEN Number(Float(tokens[j].of.number))
                  ELSE IF tokens[j].of = Junk THEN NULL ELSE tokens[j].of

\* A token's value nests one level deeper than those inside it.
LEMMA ValueOfKeeps ==
    ASSUME NEW tokens, NEW E, Steppable(tokens, E), NEW j \in 1..Len(tokens),
           NEW d \in 1..MaxTokens, NEW parsed, ParsedInto(Values[d - 1], tokens, parsed, j)
    PROVE  /\ ValueOf(tokens, parsed, j) \in Values[d] \cup {NULL}
           /\ \A g : Agrees(Values[d - 1], tokens, g, parsed, j) =>
                        ValueOf(tokens, g, j) = ValueOf(tokens, parsed, j)
<1> DEFINE V == Values[d - 1]
           t == tokens[j]
<1>1. t \in Tokens
  BY TokensType DEF Steppable
<1>2. d \in 0..MaxTokens /\ d # 0
  BY TextAssumption
<1>3. /\ Primitives \subseteq Values[d]
      /\ \A chars \in Strings : Text(chars) \in Values[d]
      /\ \A items \in Seq(V) : Array(items) \in Values[d]
      /\ \A members \in MembersOf(V) : Object(members) \in Values[d]
  BY <1>2, ValuesHave
<1> HIDE DEF V
<1>4. CASE t.type = "object"
  <2>1. \A g : ValueOf(tokens, g, j) = parse_object(tokens, g, j)
    BY <1>4 DEF ValueOf
  <2>2. \E m \in MembersOf(V) : Sorted(m) /\ parse_object(tokens, parsed, j) = Object(m)
    BY ObjectParsed DEF V
  <2>3. \A g : Agrees(V, tokens, g, parsed, j) =>
                  parse_object(tokens, g, j) = parse_object(tokens, parsed, j)
    BY ObjectParsed DEF V
  <2> QED BY <1>3, <2>1, <2>2, <2>3 DEF V
<1>5. CASE t.type = "array"
  <2>1. \A g : ValueOf(tokens, g, j) = parse_array(tokens, g, j)
    BY <1>5 DEF ValueOf
  <2>2. \E items \in Seq(V) : parse_array(tokens, parsed, j) = Array(items)
    BY ArrayParsed DEF V
  <2>3. \A g : Agrees(V, tokens, g, parsed, j) =>
                  parse_array(tokens, g, j) = parse_array(tokens, parsed, j)
    BY ArrayParsed DEF V
  <2> QED BY <1>3, <2>1, <2>2, <2>3 DEF V
<1>6. CASE t.type = "string"
  <2>1. \A g : ValueOf(tokens, g, j) = t.of
    BY <1>6 DEF ValueOf
  <2>2. t.of \in [string : Strings]
    BY <1>1, <1>6, TokenType
  <2>3. t.of = Text(t.of.string) /\ t.of.string \in Strings
    BY <2>2 DEF Text
  <2> QED BY <1>3, <2>1, <2>3
<1>7. CASE t.type = "primitive"
  <2>1. \A g : ValueOf(tokens, g, j) =
                  IF Is("number", t.of) THEN Number(Float(t.of.number))
                  ELSE IF t.of = Junk THEN NULL ELSE t.of
    BY <1>7 DEF ValueOf
  <2>2. t.of \in Primitives \cup {Junk}
    BY <1>1, <1>7, TokenType
  <2>3. Is("number", t.of) => Number(Float(t.of.number)) \in Primitives
    <3>1. Is("number", t.of) => t.of.number \in Int
      BY <2>2 DEF Primitives, Junk, Is
    <3>2. \A x \in Int : Number(x) \in Primitives
      BY DEF Number, Primitives
    <3> QED BY <3>1, <3>2, NumberType
  <2> QED BY <1>3, <2>1, <2>2, <2>3
<1>8. t.type \in {"object", "array", "string", "primitive"}
  BY <1>1, TokenType
<1> QED BY <1>4, <1>5, <1>6, <1>7, <1>8

\* parsed[j] is made from what is behind j, for every token behind the first m.
ParsedBehind(tokens, parsed, m) ==
    \A j \in 1..Len(tokens) : m < j =>
        /\ parsed[j] = ValueOf(tokens, parsed, j)
        /\ parsed[j] \in Values[Len(tokens) + 1 - j] \cup {NULL}

\* Values that nest as deep as the tokens behind theirs allow fit into the one at i.
LEMMA ValuesInto ==
    ASSUME NEW tokens \in Seq(Tokens), Len(tokens) <= MaxTokens, NEW i \in 1..Len(tokens),
           NEW parsed,
           \A j \in 1..Len(tokens) : i < j => parsed[j] \in Values[Len(tokens) + 1 - j] \cup {NULL}
    PROVE  ParsedInto(Values[Len(tokens) - i], tokens, parsed, i)
<1> DEFINE n == Len(tokens)
<1>1. n \in Nat /\ MaxTokens \in Nat
  BY TextAssumption
<1> SUFFICES ASSUME NEW j \in (i + 1)..n PROVE parsed[j] \in Values[n - i] \cup {NULL}
  BY DEF ParsedInto
<1>2. j \in 1..n /\ i < j /\ n - i \in 0..MaxTokens /\ n + 1 - j \in 0..(n - i)
  BY <1>1
<1>3. Values[n + 1 - j] \subseteq Values[n - i]
  BY <1>2, ValuesGrow
<1> QED BY <1>2, <1>3

\* The recursion of parse_value has a solution, and every value in it nests no deeper
\* than there are tokens behind it.
LEMMA ValuesParsed ==
    ASSUME NEW tokens, NEW E, Steppable(tokens, E), Len(tokens) <= MaxTokens
    PROVE  \E parsed : /\ parsed = [j \in DOMAIN tokens |-> ValueOf(tokens, parsed, j)]
                       /\ \A i \in 1..Len(tokens) : parse_value(tokens, i) = parsed[i]
                       /\ ParsedBehind(tokens, parsed, 0)
<1> DEFINE n == Len(tokens)
           Parses(f) == f = [j \in DOMAIN tokens |-> ValueOf(tokens, f, j)]
           parsed == CHOOSE f : Parses(f)
           A == {m \in 0..n : \E f : f = [j \in 1..n |-> f[j]] /\ ParsedBehind(tokens, f, n - m)}
           B == {m \in 0..n : ParsedBehind(tokens, parsed, n - m)}
<1>1. tokens \in Seq(Tokens) /\ n \in Nat /\ DOMAIN tokens = 1..n /\ MaxTokens \in Nat
  BY TokensType, TextAssumption DEF Steppable
\* one token further to the front
<1>2. ASSUME NEW m \in 1..n, NEW f, ParsedBehind(tokens, f, n - (m - 1)),
             NEW g, \A j \in 1..n : n + 1 - m < j => g[j] = f[j],
             g[n + 1 - m] = ValueOf(tokens, f, n + 1 - m)
      PROVE  ParsedBehind(tokens, g, n - m)
  <2> DEFINE at == n + 1 - m
  <2>1. at \in 1..n /\ m \in 1..MaxTokens /\ n - at = m - 1 /\ n + 1 - at = m /\ n - (m - 1) = at
    BY <1>1
  <2>2. \A j \in 1..n : at < j => g[j] = f[j]
    BY <1>2
  <2>3. \A j \in 1..n : at < j => /\ f[j] = ValueOf(tokens, f, j)
                                  /\ f[j] \in Values[n + 1 - j] \cup {NULL}
    BY <1>2, <2>1 DEF ParsedBehind
  <2>4. g[at] = ValueOf(tokens, f, at)
    BY <1>2
  <2> HIDE DEF at, n
  <2>5. ASSUME NEW j \in at..n
        PROVE  /\ ParsedInto(Values[n - j], tokens, f, j)
               /\ Agrees(Values[n - j], tokens, g, f, j)
               /\ n - j + 1 \in 1..MaxTokens /\ n - j + 1 - 1 = n - j /\ n - j + 1 = n + 1 - j
    <3>1. j \in 1..n
      BY <1>1, <2>1
    <3>2. \A k \in 1..n : j < k => g[k] = f[k] /\ f[k] \in Values[n + 1 - k] \cup {NULL}
      BY <1>1, <2>1, <2>2, <2>3
    <3>3. \A k \in 1..n : j < k => g[k] \in Values[n + 1 - k] \cup {NULL}
      BY <3>2
    <3>4. ParsedInto(Values[n - j], tokens, f, j) /\ ParsedInto(Values[n - j], tokens, g, j)
      BY <1>1, <3>1, <3>2, <3>3, ValuesInto DEF n
    <3>5. \A k \in (j + 1)..n : g[k] = f[k]
      BY <1>1, <3>1, <3>2
    <3>6. n - j + 1 \in 1..MaxTokens /\ n - j + 1 - 1 = n - j /\ n - j + 1 = n + 1 - j
      BY <1>1, <3>1 DEF n
    <3> QED BY <3>4, <3>5, <3>6 DEF Agrees, n
  <2>6. ASSUME NEW j \in at..n
        PROVE  /\ ValueOf(tokens, f, j) \in Values[n + 1 - j] \cup {NULL}
               /\ ValueOf(tokens, g, j) = ValueOf(tokens, f, j)
    <3> DEFINE d == n - j + 1
    <3>1. /\ ParsedInto(Values[d - 1], tokens, f, j)
          /\ Agrees(Values[d - 1], tokens, g, f, j)
          /\ d \in 1..MaxTokens /\ d = n + 1 - j /\ j \in 1..n
      BY <1>1, <2>1, <2>5
    <3> HIDE DEF d
    <3>2. ValueOf(tokens, f, j) \in Values[d] \cup {NULL}
      BY <3>1, ValueOfKeeps DEF n
    <3>3. ValueOf(tokens, g, j) = ValueOf(tokens, f, j)
      BY <3>1, ValueOfKeeps DEF n
    <3> QED BY <3>1, <3>2, <3>3
  <2>7. ASSUME NEW j \in 1..n, n - m < j
        PROVE  g[j] = ValueOf(tokens, g, j) /\ g[j] \in Values[n + 1 - j] \cup {NULL}
    <3>1. j \in at..n /\ (j = at \/ at < j)
      BY <1>1, <2>7 DEF at
    <3>2. g[j] = ValueOf(tokens, f, j)
      BY <2>2, <2>3, <2>4, <3>1
    <3> QED BY <2>6, <3>1, <3>2
  <2> QED BY <2>7 DEF ParsedBehind, n
<1>3. \E f : Parses(f)
  <2>1. 0 \in A
    <3> DEFINE f == [j \in 1..n |-> NULL]
    <3>1. f = [j \in 1..n |-> f[j]]
      OBVIOUS
    <3> HIDE DEF f
    <3>2. ParsedBehind(tokens, f, n - 0)
      BY <1>1 DEF ParsedBehind
    <3> QED BY <1>1, <3>1, <3>2
  <2>2. ASSUME NEW m \in 1..n, m - 1 \in A PROVE m \in A
    <3>1. PICK f : ParsedBehind(tokens, f, n - (m - 1))
      BY <2>2
    <3> DEFINE at == n + 1 - m
               g == [j \in 1..n |-> IF j = at THEN ValueOf(tokens, f, at) ELSE f[j]]
    <3>2. at \in 1..n
      BY <1>1
    <3>3. g = [j \in 1..n |-> g[j]] /\ g[at] = ValueOf(tokens, f, at)
          /\ \A j \in 1..n : at < j => g[j] = f[j]
      BY <3>2
    <3> HIDE DEF g
    <3>4. ParsedBehind(tokens, g, n - m)
      BY <1>2, <3>1, <3>3
    <3>5. m \in 0..n
      BY <1>1
    <3> QED BY <3>3, <3>4, <3>5
  <2> HIDE DEF A
  <2>3. \A m \in 0..n : m \in A
    BY <1>1, <2>1, <2>2, UpTo
  <2>4. n \in A
    BY <1>1, <2>3
  <2>5. PICK f : f = [j \in 1..n |-> f[j]] /\ ParsedBehind(tokens, f, n - n)
    BY <2>4 DEF A
  <2>6. \A j \in 1..n : f[j] = ValueOf(tokens, f, j)
    BY <1>1, <2>5 DEF ParsedBehind
  <2> QED BY <1>1, <2>5, <2>6
<1>4. Parses(parsed)
  <2> HIDE DEF Parses
  <2> QED BY <1>3
<1>5. \A i \in 1..n : parse_value(tokens, i) = parsed[i]
  BY DEF parse_value, parsed, Parses, ValueOf
<1> HIDE DEF parsed
<1>6. \A j \in 1..n : parsed[j] = ValueOf(tokens, parsed, j)
  BY <1>1, <1>4
<1>7. 0 \in B
  BY <1>1 DEF ParsedBehind
<1>8. ASSUME NEW m \in 1..n, m - 1 \in B PROVE m \in B
  <2>1. ParsedBehind(tokens, parsed, n - (m - 1)) /\ n + 1 - m \in 1..n /\ m \in 0..n
    BY <1>1, <1>8
  <2>2. parsed[n + 1 - m] = ValueOf(tokens, parsed, n + 1 - m)
    BY <1>6, <2>1
  <2>3. ParsedBehind(tokens, parsed, n - m)
    BY <1>2, <2>1, <2>2
  <2> QED BY <2>1, <2>3
<1> HIDE DEF B
<1>9. \A m \in 0..n : m \in B
  BY <1>1, <1>7, <1>8, UpTo
<1>10. ParsedBehind(tokens, parsed, n - n) /\ n - n = 0
  BY <1>1, <1>9 DEF B
<1> QED BY <1>4, <1>5, <1>10

\* An object that comes out of a text has sorted members without duplicates, whatever the
\* order of its keys, how often they are repeated and which of its members cannot be used,
\* and its values nest no deeper than those of an application (rbjson.cpp 75-177).
THEOREM ObjectsAreSorted ==
    ASSUME NEW text, Braced(text)
    PROVE  \/ parse(text) = NULL
           \/ \E m \in MembersOf(Values[MaxTokens - 1]) : Sorted(m) /\ parse(text) = Object(m)
<1> DEFINE p == jsmn_parse(text)
           tokens == p.tokens
           n == Len(tokens)
           V == Values[MaxTokens - 1]
<1>1. Parsed(p) /\ (p.refused \/ n >= 1)
  BY TextIsParsed DEF Braced
<1> HIDE DEF p
<1>2. parse(text) = IF p.refused \/ tokens[1].type # "object" THEN NULL ELSE parse_value(tokens, 1)
  BY DEF parse, p
<1>3. SUFFICES ASSUME ~p.refused, tokens[1].type = "object"
               PROVE  \E m \in MembersOf(V) : Sorted(m) /\ parse_value(tokens, 1) = Object(m)
  BY <1>2
<1>4. n \in 0..MaxTokens /\ \E E : Steppable(tokens, E)
  BY <1>1, <1>3, ParsedIsSteppable
<1>5. PICK E : Steppable(tokens, E)
  BY <1>4
<1> HIDE DEF tokens
<1>6. MaxTokens \in Nat /\ n \in Nat /\ n <= MaxTokens /\ 1 \in 1..n /\ tokens \in Seq(Tokens)
  BY <1>1, <1>3, <1>4, <1>5, TextAssumption DEF Steppable
<1>7. PICK parsed : /\ parsed = [j \in DOMAIN tokens |-> ValueOf(tokens, parsed, j)]
                    /\ \A i \in 1..n : parse_value(tokens, i) = parsed[i]
                    /\ ParsedBehind(tokens, parsed, 0)
  BY <1>5, <1>6, ValuesParsed
<1>8. \A j \in 1..n : /\ parsed[j] = ValueOf(tokens, parsed, j)
                      /\ parsed[j] \in Values[n + 1 - j] \cup {NULL}
  BY <1>6, <1>7 DEF ParsedBehind
<1>9. ParsedInto(V, tokens, parsed, 1)
  <2>1. ParsedInto(Values[n - 1], tokens, parsed, 1)
    BY <1>6, <1>8, ValuesInto
  <2>2. Values[n - 1] \subseteq V
    <3>1. MaxTokens - 1 \in 0..MaxTokens /\ n - 1 \in 0..(MaxTokens - 1)
      BY <1>6, TextAssumption
    <3> QED BY <3>1, ValuesGrow
  <2> HIDE DEF V
  <2> QED BY <2>1, <2>2 DEF ParsedInto
<1>10. \E m \in MembersOf(V) : Sorted(m) /\ parse_object(tokens, parsed, 1) = Object(m)
  <2> HIDE DEF V
  <2> QED BY <1>5, <1>6, <1>9, ObjectParsed
<1>11. parse_value(tokens, 1) = parse_object(tokens, parsed, 1)
  BY <1>3, <1>6, <1>7, <1>8 DEF ValueOf
<1> QED BY <1>10, <1>11

-----------------------------------------------------------------------------
(* The object of an application and the one parsed on the other side.        *)

\* the values an object has room for
Below == Values[MaxTokens - 1]

\* Both objects are sorted by name, without duplicates, whatever has been done to them.
SortedInv ==
    /\ m_members \in MembersOf(Below) /\ Sorted(m_members)
    /\ other \in MembersOf(Below) /\ Sorted(other)

\* A new object has no members.
LEMMA InitSorted == Init => SortedInv
BY DEF Init, SortedInv, MembersOf, Sorted

\* set keeps the members sorted, whether the key is there or not (rbjson.cpp 352-369).
LEMMA SetSorted ==
    ASSUME SortedInv, NEW s \in Sets, set(s.key, s.value)
    PROVE  SortedInv'
<1>1. s.key \in Strings /\ s.value \in Below
  BY JsonAssumption DEF Below
<1>2. WithMember(m_members, s.key, s.value) \in MembersOf(Below)
      /\ Sorted(WithMember(m_members, s.key, s.value))
  BY <1>1, SetKeeps DEF SortedInv
<1>3. m_members' = WithMember(m_members, s.key, s.value) /\ other' = other
  BY DEF set
<1>4. m_members' \in MembersOf(Below) /\ Sorted(m_members')
  BY <1>2, <1>3
<1> QED BY <1>3, <1>4 DEF SortedInv, Sorted

\* remove keeps the members sorted (rbjson.cpp 379-386).
LEMMA RemoveSorted ==
    ASSUME SortedInv, NEW k \in Keys, remove(k)
    PROVE  SortedInv'
<1>1. k \in Strings /\ Found(m_members, k)
  BY JsonAssumption DEF remove
<1> DEFINE rest == RemoveAt(m_members, lower_bound(m_members, k))
<1>2. rest \in MembersOf(Below) /\ Sorted(rest)
  BY <1>1, RemoveUnmaps DEF SortedInv
<1>3. m_members' = rest /\ other' = other
  BY DEF remove
<1> HIDE DEF rest
<1>4. m_members' \in MembersOf(Below) /\ Sorted(m_members')
  BY <1>2, <1>3
<1> QED BY <1>3, <1>4 DEF SortedInv, Sorted

\* An array that is edited holds values that nest less deep, before and after.
LEMMA EditArraySorted ==
    ASSUME SortedInv, NEW k \in Keys, EditArray(k)
    PROVE  SortedInv'
<1> DEFINE at == lower_bound(m_members, k)
           old == getArray(k).array
           Inner == Values[MaxTokens - 2]
           Edits == Replaced(old) \cup Removed(old)
                    \cup (IF Len(old) < MaxItems THEN Inserted(old) ELSE {})
<1>1. /\ MaxTokens - 1 \in 0..MaxTokens /\ MaxTokens - 1 # 0 /\ MaxTokens - 1 - 1 = MaxTokens - 2
      /\ k \in Strings /\ Items \subseteq Inner
  BY TextAssumption, JsonAssumption
<1>2. Is("array", get(m_members, k)) /\ getArray(k) = get(m_members, k)
  BY DEF EditArray, getArray
<1>3. Found(m_members, k)
  <2>1. ~Is("array", NULL)
    BY DEF Is, NULL
  <2> QED BY <1>2, <2>1 DEF get
<1>4. at \in DOMAIN m_members
  <2>1. at \in 1..(Len(m_members) + 1) /\ at <= Len(m_members)
    BY <1>1, <1>3, FoundIs DEF SortedInv, Found
  <2>2. Len(m_members) \in Nat /\ DOMAIN m_members = 1..Len(m_members)
    BY MemberType DEF SortedInv
  <2> HIDE DEF at
  <2> QED BY <2>1, <2>2
<1>5. old \in Seq(Inner)
  <2>1. get(m_members, k) = m_members[at].value
    BY <1>3 DEF get
  <2> HIDE DEF at
  <2>2. m_members[at].value \in Below
    BY <1>4, MemberType DEF SortedInv
  <2> DEFINE v == m_members[at].value
  <2>3. v \in Values[MaxTokens - 1] /\ Is("array", v) /\ old = v.array
    BY <1>2, <2>1, <2>2 DEF Below
  <2> HIDE DEF v, old
  <2>4. v.array \in Seq(Values[MaxTokens - 1 - 1])
    BY <1>1, <2>3, ValueKinds
  <2> QED BY <1>1, <2>3, <2>4
<1>6. PICK items \in Edits :
         m_members' = [m_members EXCEPT ![at].value = Array(items)]
  BY DEF EditArray
<1> HIDE DEF old, at, Inner
<1>7. items \in Seq(Inner)
  <2>0. Len(old) \in Nat /\ DOMAIN old = 1..Len(old)
    BY <1>5
  <2>1. ASSUME items \in Replaced(old) PROVE items \in Seq(Inner)
    <3>1. PICK i \in DOMAIN old, v \in Items : items = [old EXCEPT ![i] = v]
      BY <2>1 DEF Replaced
    <3>2. v \in Inner
      BY <1>1
    <3> QED BY <1>5, <3>1, <3>2, ExceptSeq
  <2>2. ASSUME items \in Removed(old) PROVE items \in Seq(Inner)
    <3>1. PICK i \in DOMAIN old : items = RemoveAt(old, i)
      BY <2>2 DEF Removed
    <3> QED BY <1>5, <2>0, <3>1, Removing
  <2>3. ASSUME items \in Inserted(old) PROVE items \in Seq(Inner)
    <3>1. PICK i \in 1..(Len(old) + 1), v \in Items : items = InsertAt(old, i, v)
      BY <2>3 DEF Inserted
    <3>2. v \in Inner
      BY <1>1
    <3> QED BY <1>5, <3>1, <3>2, Inserting
  <2> QED BY <1>6, <2>1, <2>2, <2>3
<1>8. Array(items) \in Below
  <2>1. Array(items) \in Values[MaxTokens - 1]
    BY <1>1, <1>7, ValuesHave DEF Inner
  <2> QED BY <2>1 DEF Below
<1>9. m_members' \in MembersOf(Below) /\ Sorted(m_members')
  <2> DEFINE v == Array(items)
             new == [m_members EXCEPT ![at].value = v]
  <2>1. v \in Below
    BY <1>8
  <2> HIDE DEF v
  <2>2. new \in MembersOf(Below) /\ Sorted(new)
    BY <1>4, <2>1, ReplaceKeeps DEF SortedInv
  <2>3. m_members' = new
    BY <1>6 DEF v
  <2> HIDE DEF new
  <2> QED BY <2>2, <2>3
<1>10. other' = other
  BY DEF EditArray
<1> QED BY <1>9, <1>10 DEF SortedInv, Sorted

\* An object that comes out of a text is sorted (rbjson.cpp 155-182).
LEMMA LoadSorted ==
    ASSUME SortedInv, NEW packet \in Packets, Load(packet)
    PROVE  SortedInv'
<1>1. PICK text \in Texts : packet = [text |-> text, parsed |-> parse(Written(text))]
  BY DEF Packets
<1>2. packet.parsed = parse(Written(text)) /\ packet.parsed # NULL
  BY <1>1 DEF Load
<1>3. PICK m \in MembersOf(Below) : Sorted(m) /\ packet.parsed = Object(m)
  BY <1>2, WrittenObject, ObjectsAreSorted DEF Below
<1>4. m_members' = m /\ other' = other
  BY <1>3 DEF Load, Object
<1>5. m_members' \in MembersOf(Below) /\ Sorted(m_members')
  BY <1>3, <1>4
<1> QED BY <1>4, <1>5 DEF SortedInv, Sorted

\* So is one that was sent as a text.
LEMMA TransmitSorted ==
    ASSUME SortedInv, Transmit
    PROVE  SortedInv'
<1> DEFINE received == parse(serialize(Object(m_members)))
<1>1. Braced(serialize(Object(m_members)))
  BY SerializedObject DEF SortedInv, Below
<1>2. \/ received = NULL
      \/ \E m \in MembersOf(Below) : Sorted(m) /\ received = Object(m)
  BY <1>1, ObjectsAreSorted DEF Below
<1>3. m_members' = m_members /\ other' = IF received = NULL THEN other ELSE received.object
  BY DEF Transmit
<1> HIDE DEF received
<1>4. other' \in MembersOf(Below) /\ Sorted(other')
  <2>1. CASE received = NULL
    BY <1>3, <2>1 DEF SortedInv
  <2>2. CASE received # NULL
    <3>1. PICK m \in MembersOf(Below) : Sorted(m) /\ received = Object(m)
      BY <1>2, <2>2
    <3>2. other' = m
      BY <1>3, <2>2, <3>1 DEF Object
    <3> QED BY <3>1, <3>2
  <2> QED BY <2>1, <2>2
<1> QED BY <1>3, <1>4 DEF SortedInv, Sorted

\* Every step keeps both objects sorted.
LEMMA NextSorted == SortedInv /\ [Next]_vars => SortedInv'
<1> SUFFICES ASSUME SortedInv, [Next]_vars PROVE SortedInv'
  OBVIOUS
<1>1. ASSUME NEW s \in Sets, set(s.key, s.value) PROVE SortedInv'
  BY <1>1, SetSorted
<1>2. ASSUME NEW k \in Keys, remove(k) PROVE SortedInv'
  BY <1>2, RemoveSorted
<1>3. ASSUME NEW k \in Keys, EditArray(k) PROVE SortedInv'
  BY <1>3, EditArraySorted
<1>4. ASSUME NEW packet \in Packets, Load(packet) PROVE SortedInv'
  BY <1>4, LoadSorted
<1>5. ASSUME copy PROVE SortedInv'
  BY <1>5 DEF copy, SortedInv, Sorted
<1>6. ASSUME swapData PROVE SortedInv'
  BY <1>6 DEF swapData, SortedInv, Sorted
<1>7. ASSUME Transmit PROVE SortedInv'
  BY <1>7, TransmitSorted
<1>8. ASSUME UNCHANGED vars PROVE SortedInv'
  BY <1>8 DEF vars, SortedInv, Sorted
<1> QED BY <1>1, <1>2, <1>3, <1>4, <1>5, <1>6, <1>7, <1>8 DEF Next

\* Both objects are sorted by name without duplicates at all times, and their values nest no
\* deeper than those an application may set (rbjson.cpp 75-96, 352-386).
THEOREM AlwaysSorted == Spec => []SortedInv
<1> QED BY InitSorted, NextSorted, PTL DEF Spec

\* A key that is set, edited, parsed or removed is found by the binary search exactly if
\* there is a member with its name.
THEOREM LookupsFind == Spec => []LookupFinds
<1>1. SortedInv => LookupFinds
  <2> SUFFICES ASSUME SortedInv, NEW k \in Keys
               PROVE  get(m_members, k) = IF Name(k) \in DOMAIN AsMap(m_members)
                                          THEN AsMap(m_members)[Name(k)] ELSE NULL
    BY DEF LookupFinds
  <2>1. k \in Strings
    BY JsonAssumption
  <2> QED BY <2>1, LookupIs DEF SortedInv
<1> QED BY <1>1, AlwaysSorted, PTL

\* Two objects are equal exactly if they are the same map, however they came to be.
THEOREM EqualMeansSame == Spec => []EqualIffSameMap
<1>1. SortedInv => EqualIffSameMap
  <2> SUFFICES ASSUME SortedInv PROVE EqualIffSameMap
    OBVIOUS
  <2>1. equals <=> AsMap(m_members) = AsMap(other)
    BY SameMap DEF SortedInv, equals
  <2> QED BY <2>1 DEF EqualIffSameMap
<1> QED BY <1>1, AlwaysSorted, PTL

\* set and remove are those of a map from names to values.
THEOREM SetsLikeMap == Spec => ActsLikeMap
<1> DEFINE Rest(k, map) == [n \in DOMAIN map \ {Name(k)} |-> map[n]]
           Acts == \A k \in Keys :
                      /\ remove(k) => AsMap(m_members') = Rest(k, AsMap(m_members))
                      /\ \A s \in Sets : s.key = k /\ set(k, s.value) =>
                            /\ Rest(k, AsMap(m_members')) = Rest(k, AsMap(m_members))
                            /\ AsMap(m_members')[Name(k)] = s.value
<1>1. ASSUME SortedInv, NEW k \in Keys, remove(k)
      PROVE  AsMap(m_members') = Rest(k, AsMap(m_members))
  <2> DEFINE rest == RemoveAt(m_members, lower_bound(m_members, k))
             old == AsMap(m_members)
             new == AsMap(rest)
  <2>1. k \in Strings /\ Found(m_members, k) /\ m_members' = rest
    BY <1>1, JsonAssumption DEF remove
  <2>2. DOMAIN new = DOMAIN old \ {Name(k)} /\ \A n \in DOMAIN new : new[n] = old[n]
    BY <1>1, <2>1, RemoveUnmaps DEF SortedInv
  <2>3. new = [n \in DOMAIN new |-> new[n]]
    BY DEF AsMap
  <2>4. AsMap(m_members') = new
    BY <2>1
  <2> HIDE DEF new, old
  <2>5. new = [n \in DOMAIN old \ {Name(k)} |-> old[n]]
    BY <2>2, <2>3
  <2> QED BY <2>4, <2>5 DEF old
<1>2. ASSUME SortedInv, NEW k \in Keys, NEW s \in Sets, s.key = k, set(k, s.value)
      PROVE  /\ Rest(k, AsMap(m_members')) = Rest(k, AsMap(m_members))
             /\ AsMap(m_members')[Name(k)] = s.value
  <2> DEFINE more == WithMember(m_members, k, s.value)
             old == AsMap(m_members)
             new == AsMap(more)
  <2>1. k \in Strings /\ s.value \in Below /\ m_members' = more
    BY <1>2, JsonAssumption DEF set, Below
  <2>2. /\ DOMAIN new = DOMAIN old \cup {Name(k)} /\ new[Name(k)] = s.value
        /\ \A n \in DOMAIN old \ {Name(k)} : new[n] = old[n]
    BY <1>2, <2>1, SetKeeps DEF SortedInv
  <2>3. AsMap(m_members') = new
    BY <2>1
  <2> HIDE DEF new, old
  <2>4. Rest(k, new) = Rest(k, old)
    BY <2>2
  <2> QED BY <2>2, <2>3, <2>4 DEF old
<1>3. SortedInv => Acts
  BY <1>1, <1>2
<1>4. ActsLikeMap <=> [][Acts]_vars
  BY DEF ActsLikeMap
<1> QED BY <1>3, <1>4, AlwaysSorted, PTL DEF Spec
=============================================================================
