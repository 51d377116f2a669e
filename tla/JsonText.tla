------------------------------ MODULE JsonText ------------------------------
(***************************************************************************)
(* JSON values of rbjson.cpp and their text: Value::serialize, the         *)
(* tokenizer of jsmn.h and rbjson::parse on top of it.  A text is a        *)
(* sequence of lexemes; the characters of a string count only in its       *)
(* escapes.  A number is a whole multiple of 1/Unit: a float is less than  *)
(* Mantissa times its spacing, which is Least/Unit or that doubled so many *)
(* times, and its text has four decimals, the last worth Step/Unit.        *)
(***************************************************************************)
EXTENDS JsonMembers

CONSTANTS
    MaxTokens,    \* a text with more tokens is refused, 64
    Unit,         \* the number 1
    Step,         \* the last decimal that is written
    Least,        \* the finest spacing of floats that is modelled
    Mantissa,     \* floats of one spacing and sign, 2^24
    Doublings     \* bound: of the finest spacing

ASSUME TextAssumption ==
    /\ MaxTokens \in Nat \ {0, 1}
    /\ Mantissa \in Nat \ {0} /\ Mantissa % 2 = 0 /\ Doublings \in Nat
    /\ Unit \in Nat \ {0} /\ Step \in 1..Unit /\ Least \in 1..Unit
    /\ Unit % Step = 0 /\ Unit % Least = 0

Text(chars) == [string |-> chars]
Number(n) == [number |-> n]
Array(items) == [array |-> items]
Object(members) == [object |-> members]
Junk == [junk |-> 0]                   \* a primitive strtod makes nothing of

Is(kind, v) == kind \in DOMAIN v

Primitives == [number : Int] \cup [literal : {"true", "false", "null"}]
MembersOf(values) == Seq([name : Strings, value : values])

\* the values that nest at most depth deep; no packet has room for more than MaxTokens
Values[depth \in 0..MaxTokens] ==
    LET flat == Primitives \cup [string : Strings]
    IN  IF depth = 0 THEN flat
        ELSE LET below == Values[depth - 1]
             IN  flat \cup [array : Seq(below)] \cup [object : MembersOf(below)]

-----------------------------------------------------------------------------
(* Numbers.                                                                  *)

Abs(n) == IF n < 0 THEN -n ELSE n
Signed(n, magnitude) == IF n < 0 THEN -magnitude ELSE magnitude

\* the distance between neighbouring floats at n
Spacing(n) ==
    LET spacing[k \in 0..Doublings] ==
            IF k = 0 THEN Least
            ELSE LET finer == spacing[k - 1]
                 IN  IF Abs(n) < finer * Mantissa THEN finer ELSE 2 * finer
    IN  spacing[Doublings]

\* the nearest float, an even one if there are two
Float(n) ==
    LET s    == Spacing(n)
        down == Abs(n) \div s
        rest == 2 * (Abs(n) % s)
        up   == rest > s \/ (rest = s /\ down % 2 = 1)
    IN  Signed(n, s * IF up THEN down + 1 ELSE down)

\* _ftoa with four decimals: to the nearest one, and half a step up from none or an odd one
Decimal(n) ==
    LET steps == Abs(n) \div Step
        digits == steps % (Unit \div Step)
        rest == 2 * (Abs(n) % Step)
        up   == rest > Step \/ (rest = Step /\ (digits = 0 \/ digits % 2 = 1))
    IN  Signed(n, Step * IF up THEN steps + 1 ELSE steps)

\* Mutant: everything up to half is written without decimals.
NumberText_Coarse(n) ==
    IF 2 * (Abs(n) % Unit) < Unit THEN Signed(n, (Abs(n) \div Unit) * Unit) ELSE Decimal(n)

\* no decimals when they would begin with four zeros
NumberText(n) ==
    IF Abs(n) % Unit < Step THEN Signed(n, (Abs(n) \div Unit) * Unit) ELSE Decimal(n)

-----------------------------------------------------------------------------
(* Serializing.                                                              *)

Quote == 34
Backslash == 92
EscapeOf == [c \in {Quote, Backslash, 8, 12, 10, 13, 9} |->
                CASE c = 8 -> 98 [] c = 12 -> 102 [] c = 10 -> 110 [] c = 13 -> 114
                  [] c = 9 -> 116 [] OTHER -> c]

\* write_string_escaped, between the quotes
Escaped(chars) ==
    FlattenSeq([i \in DOMAIN chars |-> IF chars[i] \in DOMAIN EscapeOf
                                       THEN <<Backslash, EscapeOf[chars[i]]>> ELSE <<chars[i]>>])

Mark(m) == [mark |-> m]
Quoted(chars) == [quoted |-> Escaped(chars)]
Primitive(v) == [primitive |-> v]

\* texts with commas between them
Joined(texts) ==
    FlattenSeq([i \in DOMAIN texts |-> IF i = 1 THEN texts[i]
                                       ELSE <<Mark("comma")>> \o texts[i]])

\* text is that of the values inside
ObjectText(members, text) ==
    <<Mark("lbrace")>>
    \o Joined([i \in DOMAIN members |->
                  <<Quoted(members[i].name), Mark("colon")>> \o text[members[i].value]])
    \o <<Mark("rbrace")>>

ArrayText(items, text) ==
    <<Mark("lbracket")>> \o Joined([i \in DOMAIN items |-> text[items[i]]]) \o <<Mark("rbracket")>>

texts[depth \in 0..MaxTokens] ==
    [v \in Values[depth] |->
        CASE Is("object", v) -> ObjectText(v.object, texts[depth - 1])
          [] Is("array", v) -> ArrayText(v.array, texts[depth - 1])
          [] Is("string", v) -> <<Quoted(v.string)>>
          [] Is("number", v) -> <<Primitive(Number(NumberText(v.number)))>>
          [] OTHER -> <<Primitive(v)>>]

serialize(v) == texts[MaxTokens][v]

-----------------------------------------------------------------------------
(* jsmn_parse.  A parser is the tokens so far, the token that the next one   *)
(* belongs to (toksuper, 0 for none), and whether the text was refused.      *)

Containers == {"object", "array"}
LastOpen(tokens) == SelectLastInSeq(tokens, LAMBDA t : t.open)

\* the token above the next one grows by one
Counted(p) == IF p.toksuper = 0 THEN p.tokens
              ELSE [p.tokens EXCEPT ![p.toksuper].size = @ + 1]

\* jsmn_alloc_token
Allocated(p, token) ==
    IF Len(p.tokens) = MaxTokens THEN [p EXCEPT !.refused = TRUE]
    ELSE [p EXCEPT !.tokens = Append(Counted(p), token)]

Opened(p, type) ==
    LET q == Allocated(p, [type |-> type, open |-> TRUE, size |-> 0, of |-> Junk])
    IN  [q EXCEPT !.toksuper = Len(q.tokens)]

Closed(p, type) ==
    LET i == LastOpen(p.tokens)
    IN  IF i = 0 \/ p.tokens[i].type # type THEN [p EXCEPT !.refused = TRUE]
        ELSE LET tokens == [p.tokens EXCEPT ![i].open = FALSE]
             IN  [p EXCEPT !.tokens = tokens, !.toksuper = LastOpen(tokens)]

\* after a comma the next token belongs to the container again
AfterComma(p) ==
    IF /\ p.toksuper # 0 /\ p.tokens[p.toksuper].type \notin Containers
       /\ LastOpen(p.tokens) # 0
    THEN [p EXCEPT !.toksuper = LastOpen(p.tokens)] ELSE p

Marked(p, m) ==
    CASE m = "lbrace" -> Opened(p, "object") [] m = "rbrace" -> Closed(p, "object")
      [] m = "lbracket" -> Opened(p, "array") [] m = "rbracket" -> Closed(p, "array")
      [] m = "colon" -> [p EXCEPT !.toksuper = Len(p.tokens)]
      [] m = "comma" -> AfterComma(p)

Filled(p, type, of) == Allocated(p, [type |-> type, open |-> FALSE, size |-> 0, of |-> of])

\* a string is taken as it stands between its quotes
FilledString(p, chars) == Filled(p, "string", Text(chars))

FilledPrimitive(p, v) == Filled(p, "primitive", v)

Read(p, lexeme) ==
    IF p.refused THEN p
    ELSE CASE Is("mark", lexeme) -> Marked(p, lexeme.mark)
           [] Is("quoted", lexeme) -> FilledString(p, lexeme.quoted)
           [] Is("primitive", lexeme) -> FilledPrimitive(p, lexeme.primitive)

jsmn_parse(text) ==
    LET read[k \in 0..Len(text)] ==
            IF k = 0 THEN [tokens |-> <<>>, toksuper |-> 0, refused |-> FALSE]
            ELSE Read(read[k - 1], text[k])
        p == read[Len(text)]
    IN  [p EXCEPT !.refused = @ \/ LastOpen(p.tokens) # 0]

-----------------------------------------------------------------------------
(* rbjson::parse.                                                            *)

\* count_tok_size: the token behind the one at i and everything in it
Behind(tokens, i) ==
    LET behind[j \in DOMAIN tokens] ==
            LET next[k \in 0..tokens[j].size] == IF k = 0 THEN j + 1 ELSE behind[next[k - 1]]
            IN  next[tokens[j].size]
    IN  behind[i]

\* a member whose key is no string with one value is not stepped over
Steps(tokens, i) == tokens[i].type = "string" /\ tokens[i].size = 1

\* parsed is what comes of the tokens behind i
parse_object(tokens, parsed, i) ==
    LET walk[k \in 0..tokens[i].size] ==
            IF k = 0 THEN [at |-> i + 1, members |-> <<>>]
            ELSE LET w == walk[k - 1]
                     val == parsed[w.at + 1]
                 IN  IF ~Steps(tokens, w.at) THEN w
                     ELSE [at |-> Behind(tokens, w.at),
                           members |-> IF val = NULL THEN w.members
                                       ELSE WithMember(w.members, tokens[w.at].of.string, val)]
    IN  Object(walk[tokens[i].size].members)

parse_array(tokens, parsed, i) ==
    LET walk[k \in 0..tokens[i].size] ==
            IF k = 0 THEN [at |-> i + 1, items |-> <<>>]
            ELSE LET w == walk[k - 1]
                     val == parsed[w.at]
                 IN  [at |-> Behind(tokens, w.at),
                      items |-> IF val = NULL THEN w.items ELSE Append(w.items, val)]
    IN  Array(walk[tokens[i].size].items)

\* a string keeps its escapes
parse_value(tokens, i) ==
    LET parsed[j \in DOMAIN tokens] ==
            CASE tokens[j].type = "object" -> parse_object(tokens, parsed, j)
              [] tokens[j].type = "array" -> parse_array(tokens, parsed, j)
              [] tokens[j].type = "string" -> tokens[j].of
              [] OTHER -> IF Is("number", tokens[j].of) THEN Number(Float(tokens[j].of.number))
                          ELSE IF tokens[j].of = Junk THEN NULL ELSE tokens[j].of
    IN  parsed[i]

\* of a text with at least one token
parse(text) ==
    LET p == jsmn_parse(text)
    IN  IF p.refused \/ p.tokens[1].type # "object" THEN NULL ELSE parse_value(p.tokens, 1)
=============================================================================
