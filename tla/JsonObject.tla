----------------------------- MODULE JsonObject -----------------------------
(***************************************************************************)
(* An rbjson::Object that an application fills, edits and sends, and the   *)
(* one that comes out of its text on the other side.                       *)
(***************************************************************************)
EXTENDS JsonText

CONSTANTS
    Keys,         \* sequences of characters, without a zero
    Sets,         \* [key, value]: what the application sets
    Items,        \* values it puts into arrays
    MaxItems,     \* bound: items of an array
    Texts         \* sequences of [key, value, good]: texts an object is parsed from

ASSUME JsonAssumption ==
    /\ Keys \subseteq Strings
    /\ Sets \subseteq [key : Keys, value : Values[MaxTokens - 1]]
    /\ Items \subseteq Values[MaxTokens - 2]
    /\ MaxItems \in Nat
    /\ Texts \subseteq Seq([key : Strings, value : Values[MaxTokens], good : BOOLEAN])

VARIABLES m_members, other

vars == <<m_members, other>>

Init == m_members = <<>> /\ other = <<>>

-----------------------------------------------------------------------------
(* Objects.                                                                  *)

set(key, value) ==
    /\ m_members' = WithMember(m_members, key, value)
    /\ UNCHANGED other

remove(key) ==
    /\ Found(m_members, key)
    /\ m_members' = RemoveAt(m_members, lower_bound(m_members, key))
    /\ UNCHANGED other

copy == other' = m_members /\ UNCHANGED m_members

swapData == m_members' = other /\ other' = m_members

equals == /\ Len(m_members) = Len(other)
          /\ \A i \in DOMAIN m_members : m_members[i].name = other[i].name
                                         /\ m_members[i].value = other[i].value

-----------------------------------------------------------------------------
(* Arrays, edited in place.  set and remove with an index out of range change *)
(* nothing, insert takes any and must be given one in range.                 *)

Inserted(items) == {InsertAt(items, i, v) : i \in 1..(Len(items) + 1), v \in Items}
Replaced(items) == {[items EXCEPT ![i] = v] : i \in DOMAIN items, v \in Items}
Removed(items) == {RemoveAt(items, i) : i \in DOMAIN items}

getArray(key) == IF Is("array", get(m_members, key)) THEN get(m_members, key) ELSE NULL

EditArray(key) ==
    /\ getArray(key) # NULL
    /\ \E items \in LET old == getArray(key).array
                    IN  Replaced(old) \cup Removed(old)
                        \cup (IF Len(old) < MaxItems THEN Inserted(old) ELSE {}) :
          m_members' = [m_members EXCEPT ![lower_bound(m_members, key)].value = Array(items)]
    /\ UNCHANGED other

-----------------------------------------------------------------------------
(* Texts.                                                                    *)

\* a member that is not good has a key without quotes
Written(text) ==
    <<Mark("lbrace")>>
    \o Joined([i \in DOMAIN text |->
                  <<IF text[i].good THEN Quoted(text[i].key) ELSE Primitive(Junk),
                    Mark("colon")>> \o serialize(text[i].value)])
    \o <<Mark("rbrace")>>

Packets == {[text |-> text, parsed |-> parse(Written(text))] : text \in Texts}

Load(packet) ==
    /\ packet.parsed # NULL
    /\ m_members' = packet.parsed.object
    /\ UNCHANGED other

\* nothing has been through a text already, so that escapes do not pile up
fresh[depth \in 0..MaxTokens] ==
    [v \in Values[depth] |->
        CASE Is("string", v) -> Backslash \notin ToSet(v.string)
          [] Is("array", v) -> \A i \in DOMAIN v.array : fresh[depth - 1][v.array[i]]
          [] Is("object", v) -> \A i \in DOMAIN v.object :
                                   /\ Backslash \notin ToSet(v.object[i].name)
                                   /\ fresh[depth - 1][v.object[i].value]
          [] OTHER -> TRUE]

\* the packet is sent as str() and parsed; one that is refused is dropped
Transmit ==
    /\ fresh[MaxTokens][Object(m_members)]      \* bound
    /\ UNCHANGED m_members
    /\ LET received == parse(serialize(Object(m_members)))
       IN  other' = IF received = NULL THEN other ELSE received.object

Next == \/ \E s \in Sets : set(s.key, s.value)
        \/ \E k \in Keys : remove(k) \/ EditArray(k)
        \/ \E packet \in Packets : Load(packet)
        \/ copy \/ swapData \/ Transmit

Spec == Init /\ [][Next]_vars

-----------------------------------------------------------------------------
AsMap(members) ==
    [n \in {members[i].name : i \in DOMAIN members} |->
        (CHOOSE m \in ToSet(members) : m.name = n).value]

\* The binary search finds every member there is and no other, whichever keys are
\* prefixes of others or cut off (rbjson.cpp 225-235, 280-298).
LookupFinds ==
    \A k \in Keys :
        get(m_members, k) = IF Name(k) \in DOMAIN AsMap(m_members)
                            THEN AsMap(m_members)[Name(k)] ELSE NULL

\* Objects are equal exactly if they map the same names to the same values, however
\* they came to be: set, edited, copied or parsed (rbjson.cpp 237-278).
EqualIffSameMap == equals <=> AsMap(m_members) = AsMap(other)

\* set and remove change what the key's own name is mapped to and nothing else, and
\* what was found is gone after remove (rbjson.cpp 229-235, 352-386).
ActsLikeMap ==
    [][\A k \in Keys :
          LET Rest(map) == [n \in DOMAIN map \ {Name(k)} |-> map[n]]
          IN  /\ remove(k) => AsMap(m_members') = Rest(AsMap(m_members))
              /\ \A s \in Sets : s.key = k /\ set(k, s.value) =>
                    /\ Rest(AsMap(m_members')) = Rest(AsMap(m_members))
                    /\ AsMap(m_members')[Name(k)] = s.value]_vars
=============================================================================
