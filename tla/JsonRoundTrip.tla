--------------------------- MODULE JsonRoundTrip ---------------------------
(***************************************************************************)
(* What is left of a JsonObject after it went through its text.            *)
(***************************************************************************)
EXTENDS JsonObject

RECURSIVE TokensIn(_), Survives(_, _)

TokensIn(v) ==
    CASE Is("array", v) -> FoldFunction(+, 1, [i \in DOMAIN v.array |-> TokensIn(v.array[i])])
      [] Is("object", v) ->
            FoldFunction(+, 1, [i \in DOMAIN v.object |-> 1 + TokensIn(v.object[i].value)])
      [] OTHER -> 1

\* What a text maps its keys to.  A key is written with escapes, which stay in: the names
\* they make may grow over the limit and meet, and then the last value written counts.
Arrives(keys, values) ==
    LET NameOf(key) == Name(Escaped(key))
    IN  [n \in {NameOf(keys[i]) : i \in DOMAIN keys} |->
            values[SelectLastInSeq(keys, LAMBDA key : NameOf(key) = n)]]

Sent(members) == Arrives([i \in DOMAIN members |-> members[i].name],
                         [i \in DOMAIN members |-> members[i].value])

\* w is what is left of v: numbers lose less than the last decimal, strings get escapes
Survives(v, w) ==
    CASE Is("number", v) -> Is("number", w) /\ Abs(v.number - w.number) < Step
      [] Is("string", v) -> w = Text(Escaped(v.string))
      [] Is("array", v) -> /\ Is("array", w) /\ Len(w.array) = Len(v.array)
                           /\ \A i \in DOMAIN v.array : Survives(v.array[i], w.array[i])
      [] Is("object", v) ->
            /\ Is("object", w) /\ DOMAIN AsMap(w.object) = DOMAIN Sent(v.object)
            /\ \A n \in DOMAIN Sent(v.object) : Survives(Sent(v.object)[n], AsMap(w.object)[n])
      [] OTHER -> w = v

\* the members from the first one without a proper key on do not count
Meant(text) ==
    LET bad == SelectInSeq(text \o <<[good |-> FALSE]>>, LAMBDA m : ~m.good)
    IN  Arrives([i \in 1..(bad - 1) |-> text[i].key], [i \in 1..(bad - 1) |-> text[i].value])

\* A text with repeated or unusable keys maps what it means.  A packet of at most
\* MaxTokens tokens comes out of its text as it was, but for less than the last decimal
\* of a number and for the escapes of strings and names, which stay in; and numbers keep
\* their order.  A larger one is refused (rbjson.cpp 19-191, 208-219, 398-407, 546-555,
\* jsmn.h 106-450).
RoundTrip ==
    [][/\ \A packet \in Packets :
             Load(packet) => LET meant == Meant(packet.text)
                                 is    == AsMap(m_members')
                             IN  /\ DOMAIN is = DOMAIN meant
                                 /\ \A n \in DOMAIN meant : Survives(meant[n], is[n])
       /\ Transmit =>
             IF TokensIn(Object(m_members)) > MaxTokens THEN UNCHANGED other
             ELSE /\ Survives(Object(m_members), Object(other'))
                  /\ LET sent == Sent(m_members)
                         is   == AsMap(other')
                         numbers == {n \in DOMAIN sent : Is("number", sent[n])}
                     IN  \A n1, n2 \in numbers :
                            sent[n1].number <= sent[n2].number
                            => is[n1].number <= is[n2].number]_vars
=============================================================================
