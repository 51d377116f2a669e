------------------------------ MODULE DnsReply ------------------------------
(***************************************************************************)
(* DnsServer::processDnsQuestion of rbdns.cpp: the query's buffer becomes  *)
(* the reply in place.  Answers are written behind the query, question by  *)
(* question; records behind the questions are cut out at the end.  A byte  *)
(* is named by where it came from: <<"question", k, i>> is byte i of       *)
(* question k, <<"answer", p, i>> byte i of the answer that points to      *)
(* offset p.  A call works on the buffer of its task alone, so it is a     *)
(* function of the query.                                                  *)
(***************************************************************************)
EXTENDS Integers, Sequences, SequencesExt, FiniteSetsExt

CONSTANTS
    Queries,      \* what recvfrom leaves in a task's buffer, see DnsAssumption
    HeaderLen,    \* sizeof(dns_header_t), 12
    AnswerLen,    \* sizeof(dns_answer_t), 16
    SizeLimit,    \* DNS_MSG_SIZE_LIMIT, 256
    BufferLen,    \* what taskBody gives the buffer at first, 64
    NameLimit     \* sizeof(out_buf) of parseDnsName, 64

\* A question is of type A or another, and a sequence of labels: `ends' says behind which
\* byte of the name without its lengths each label's dot stands, <<>> is the root.
Question == [kind : {"A", "other"}, ends : Seq(Nat)]

Bytes(label, at, n) == [i \in 1..n |-> <<label, at, i>>]
Junk(n) == [i \in 1..Max({0, n}) |-> <<"junk">>]

\* the labels with their lengths, the zero behind them, type and class
QuestionLen(question) ==
    5 + (IF question.ends = <<>> THEN 0 ELSE question.ends[Len(question.ends)])
QuestionBytes(q) ==
    FlattenSeq([k \in DOMAIN q.questions |->
                   Bytes("question", k, QuestionLen(q.questions[k]))])
Asked(q) == Bytes("header", 0, q.header) \o QuestionBytes(q)
req_size(q) == Len(Asked(q)) + q.extra

\* `header' of the header's bytes came, it claims `count' questions, `questions' of them
\* are whole, `extra' bytes are behind these, and the buffer has `buffer' bytes.  lwIP
\* reports no more than the buffer takes, so a longer datagram is one whose end is missing.
ASSUME DnsAssumption ==
    /\ HeaderLen \in Nat /\ AnswerLen \in Nat \ {0} /\ SizeLimit \in Nat /\ BufferLen \in Nat
    /\ NameLimit \in Nat
    /\ \A q \in Queries :
          /\ q.standard \in BOOLEAN /\ q.header \in 0..HeaderLen /\ q.count \in Nat
          /\ q.questions \in Seq(Question) /\ Len(q.questions) <= q.count /\ q.extra \in Nat
          /\ q.buffer \in BufferLen..SizeLimit
          /\ \A k \in DOMAIN q.questions : \A i, j \in DOMAIN q.questions[k].ends :
                i < j => q.questions[k].ends[i] < q.questions[k].ends[j]
ASSUME QueriesFit == \A q \in Queries : req_size(q) <= q.buffer

-----------------------------------------------------------------------------
\* offset of question k
Offset(q, k) ==
    LET offset[j \in 0..Len(q.questions)] ==
            IF j = 0 THEN HeaderLen ELSE offset[j - 1] + QuestionLen(q.questions[j])
    IN  offset[k - 1]

\* parseDnsName(cur_question_ptr, req_end - cur_question_ptr, hostname)
maxlen(q, k) == Min({NameLimit, req_size(q) - Offset(q, k)})

\* The copy of label i is compared with what is left of maxlen before its dot is counted:
\* behind a label that takes just what is left, maxlen is below 0, which is no limit.
LabelPasses(q, k, i) ==
    LET ends == q.questions[k].ends
    IN  ends[i] - 1 <= maxlen(q, k) \/ \E h \in 1..(i - 1) : ends[h] = maxlen(q, k) + 1

LabelsCopied(q, k) ==
    {i \in DOMAIN q.questions[k].ends : \A h \in 1..i : LabelPasses(q, k, h)}
NameRefused(q, k) ==
    q.questions[k].ends = <<>> \/ LabelsCopied(q, k) # DOMAIN q.questions[k].ends
NameSpills(q, k) == \E i \in LabelsCopied(q, k) : q.questions[k].ends[i] > NameLimit

-----------------------------------------------------------------------------
full_reply_len(q) == q.count * AnswerLen + req_size(q)

\* not a standard query, or too long with its answers
Unread(q) == ~q.standard \/ full_reply_len(q) > SizeLimit
Refused(q) == Unread(q) \/ \E k \in DOMAIN q.questions : NameRefused(q, k)

Accepted == {q \in Queries : ~Refused(q)}

\* Claims a header or questions that did not come.  They are read from behind the query,
\* where zeros, answers and the end of the buffer are: anything may come of it.
Astray == {q \in Queries : q.header < HeaderLen \/ q.count > Len(q.questions)}

\* A name copied before the first one refused leaves parseDnsName's buffer: so may this.
Overrun == {q \in Queries :
               /\ ~Unread(q)
               /\ \E k \in DOMAIN q.questions :
                     NameSpills(q, k) /\ \A j \in 1..(k - 1) : ~NameRefused(q, j)}

\* the buffer taskBody read the query into, resized for the answers it claims
Received(q) ==
    LET query == Asked(q) \o Bytes("extra", 0, q.extra)
    IN  query \o Junk(Max({q.buffer, full_reply_len(q)}) - Len(query))

\* a buffer with some bytes copied to an offset; what lies outside it is not kept
Written(buff, bytes, at) ==
    [i \in DOMAIN buff |-> IF i \in (at + 1)..(at + Len(bytes)) THEN bytes[i - at] ELSE buff[i]]

\* one round of the loop: only a question of type A is answered
Answered(q, loop, question) ==
    LET next == [loop EXCEPT !.cur_question = @ + QuestionLen(question)]
    IN  IF question.kind = "A"
        THEN [next EXCEPT !.answer_count = @ + 1,
                          !.buff = Written(@, Bytes("answer", loop.cur_question, AnswerLen),
                                           req_size(q) + loop.answer_count * AnswerLen)]
        ELSE next

AfterQuestions(q) ==
    LET loop[n \in 0..Len(q.questions)] ==
            IF n = 0
            THEN [buff |-> Received(q), cur_question |-> HeaderLen, answer_count |-> 0]
            ELSE Answered(q, loop[n - 1], q.questions[n])
    IN  loop[Len(q.questions)]

\* Mutant: the answers stay behind what was dropped.
Moved_Nowhere(buff, to, from, n) == buff

\* memmove; what lies behind the buffer is anything
Moved(buff, to, from, n) == Written(buff, SubSeq(buff \o Junk(n), from + 1, from + n), to)

\* as many bytes as are dropped move, from behind the query to behind its questions
Reply(q) ==
    LET loop == AfterQuestions(q)
        extra_req_data_len == req_size(q) - loop.cur_question
    IN  SubSeq(Moved(loop.buff, loop.cur_question, req_size(q), extra_req_data_len),
               1, loop.answer_count * AnswerLen + req_size(q) - extra_req_data_len)

-----------------------------------------------------------------------------
AnswerCount(q) == AfterQuestions(q).answer_count

\* the reply a reader of RFC 1035 expects
Expected(q) ==
    Asked(q) \o FlattenSeq([k \in DOMAIN q.questions |->
        IF q.questions[k].kind = "A" THEN Bytes("answer", Offset(q, k), AnswerLen) ELSE <<>>])

\* queries whose answers end inside the buffer, with a reply not longer than the limit
Fitting == {q \in Accepted : /\ req_size(q) + AnswerCount(q) * AnswerLen <= Len(Received(q))
                             /\ Len(Reply(q)) <= SizeLimit}

\* queries of which as much is cut out as answers move into its place, or nothing
LongCut == {q \in Accepted : q.extra = 0 \/ q.extra >= AnswerCount(q) * AnswerLen}

WellAnswered == {q \in Accepted : Reply(q) = Expected(q)}

\* queries with a label whose dot is the first byte that no longer fits
DotBehind == {q \in Queries : \E k \in DOMAIN q.questions :
                 \E i \in DOMAIN q.questions[k].ends : q.questions[k].ends[i] = NameLimit + 1}
=============================================================================
