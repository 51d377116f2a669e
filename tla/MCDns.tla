-------------------------------- MODULE MCDns --------------------------------
(* Small instances of DnsServer for TLC: the sizes of the code, names long   *)
(* and short, questions answered and not, extra records of an EDNS OPT       *)
(* record's length and longer than all answers, a query that just fits with  *)
(* its answers and one that does not; names around the 64 bytes they are     *)
(* copied to, and queries that lost their end or claim too much.             *)
EXTENDS DnsServer, TLC

Asks(kind, ends) == [kind |-> kind, ends |-> ends]
Query(questions, extra, buffer) ==
    [standard |-> TRUE, header |-> 12, count |-> Len(questions), questions |-> questions,
     extra |-> extra, buffer |-> buffer]

Short == Asks("A", <<2>>)
Long == Asks("A", <<30, 55>>)
Names == {<<>>, <<32, 64>>, <<30, 65>>, <<65, 70>>, <<30, 66>>}

MCQueries ==
    {Query(<<Short>>, extra, 64) : extra \in {0, 11, 40}}
    \cup {Query(<<Long, Asks("other", <<2>>), Short>>, extra, 256) : extra \in {0, 11, 40}}
    \cup {Query(<<Long, Long>>, extra, 256) : extra \in {92, 93}}
    \cup {Query(<<Short, Asks("A", ends)>>, 0, 112) : ends \in Names}
    \cup {[Query(<<Long, Long>>, 0, 256) EXCEPT !.standard = FALSE],
          [Query(<<Long>>, 8, 80) EXCEPT !.count = 2],
          [Query(<<>>, 0, 64) EXCEPT !.header = 5]}
=============================================================================
