----------------------------- MODULE JsonMembers -----------------------------
(***************************************************************************)
(* The members of an rbjson::Object: a vector kept sorted by name and      *)
(* searched with std::lower_bound.  A key is a sequence of characters, cut *)
(* off at KeyLimit when it becomes a name.                                 *)
(***************************************************************************)
EXTENDS Integers, Sequences, SequencesExt

CONSTANT KeyLimit      \* longest name, 254

ASSUME KeyLimitAssumption == KeyLimit \in Nat \ {0}

NULL == [null |-> 0]
Strings == Seq(Nat \ {0})
First(s, n) == SubSeq(s, 1, IF Len(s) < n THEN Len(s) ELSE n)
Name(key) == First(key, KeyLimit)

-----------------------------------------------------------------------------
(* Lookup.                                                                   *)

\* strcmp(a, b) < 0
Less(a, b) == \E n \in 0..Len(a) :
                 /\ n < Len(b)
                 /\ SubSeq(a, 1, n) = SubSeq(b, 1, n)
                 /\ n = Len(a) \/ a[n + 1] < b[n + 1]

\* Mutant: a member with the key itself is less.
keyLess_NotStrict(member, key) ==
    First(member.name, Len(Name(key))) = Name(key) \/ Less(member.name, Name(key))

\* strncmp over the length of the key, at most KeyLimit characters
keyLess(member, key) == Less(First(member.name, Len(Name(key))), Name(key))

\* Mutant: only as many characters as the key has are compared.
keyEqualStr_Prefix(member, key) == First(member.name, Len(Name(key))) = Name(key)

keyEqualStr(member, key) == member.name = Name(key)

\* std::lower_bound: the first member of a range that is not less, or the end of the range
lower_bound(members, key) ==
    LET places == 1..(Len(members) + 1)
        search[range \in places \X places] ==
            LET first == range[1]
                last  == range[2]
                mid   == first + (last - first) \div 2
            IN  IF first >= last THEN first
                ELSE IF keyLess(members[mid], key) THEN search[<<mid + 1, last>>]
                     ELSE search[<<first, mid>>]
    IN  search[<<1, Len(members) + 1>>]

Found(members, key) ==
    LET at == lower_bound(members, key)
    IN  at <= Len(members) /\ keyEqualStr(members[at], key)

get(members, key) ==
    IF Found(members, key) THEN members[lower_bound(members, key)].value ELSE NULL

\* Mutant: new members go to the end.
WithMember_Appends(members, key, value) ==
    IF Found(members, key) THEN [members EXCEPT ![lower_bound(members, key)].value = value]
    ELSE Append(members, [name |-> Name(key), value |-> value])

WithMember(members, key, value) ==
    LET at == lower_bound(members, key)
    IN  IF Found(members, key) THEN [members EXCEPT ![at].value = value]
        ELSE InsertAt(members, at, [name |-> Name(key), value |-> value])
=============================================================================
