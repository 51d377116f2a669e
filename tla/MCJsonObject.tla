---------------------------- MODULE MCJsonObject ----------------------------
(* A small instance of JsonObject for TLC: a key that is a prefix of others, *)
(* two that are cut off to the same name, and two whose escapes grow over    *)
(* the cut, meet there and sort behind the rest; a string that needs         *)
(* escapes, floats finer and coarser than the last decimal, and an array     *)
(* that can make the packet too large.                                       *)
EXTENDS JsonRoundTrip, TLC

MCKeys == {<<Quote>>, <<Quote, 65>>, <<65>>, <<65, 66, 66>>, <<65, 66, 67>>}

Odd == Text(<<Quote, 97>>)
Fraction == Number(Float(58))
Large == Number(Float(-1060))
Nested == Object(<<[name |-> <<Quote>>, value |-> Odd]>>)

MCSets == [key : {<<Quote>>}, value : {Fraction}]
          \cup [key : {<<Quote, 65>>}, value : {Large}]
          \cup [key : {<<65>>}, value : {Number(Float(66))}]
          \cup [key : {<<65, 66, 66>>, <<65, 66, 67>>}, value : {Array(<<>>)}]
MCItems == {Nested}

MCMembers == [key : {<<Quote>>}, value : {Large}, good : {TRUE}]
             \cup [key : {<<Quote, 65>>}, value : {Array(<<Nested>>)}, good : {TRUE}]
             \cup [key : {<<65>>}, value : {Large}, good : {FALSE}]
MCTexts == [1..2 -> MCMembers]
=============================================================================
