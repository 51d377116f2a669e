------------------------------ MODULE WebFiles ------------------------------
(***************************************************************************)
(* The files WebServer answers with: process_serve_file opens one, tells   *)
(* how much of it follows and sends that in chunks, while another task may *)
(* write the same file anew with rb_web_add_file; or it sends what the     *)
(* not-found callback has in memory.  Bytes are named by the version of    *)
(* the file and their place in it.  All this happens while the web task is *)
(* at "process".                                                           *)
(***************************************************************************)
EXTENDS WebServer, Integers, Sequences, SequencesExt

CONSTANTS
    Sizes,        \* lengths of files
    Ranges,       \* [first, last] of a Range header; first < 0 for "-n", last 0 for none
    ChunkLen,     \* bytes that are moved at a time, 256
    Word,         \* size_t counts modulo Word, 2^32
    MaxVersion    \* bound: writers of the file while it is served

ASSUME FilesAssumption ==
    /\ Word \in Nat \ {0} /\ ChunkLen \in Nat \ {0} /\ MaxVersion \in Nat
    \* the flash holds less than 2^32 bytes, also when a file is written beside its old bytes
    /\ Sizes \subseteq Nat /\ \A m, n \in Sizes : m + n < Word
    /\ \A r \in Ranges : r.first \in Int /\ r.last \in 0..(Word - 1)

VARIABLES
    file,         \* the file that is open: its version and length, and how much
                  \* rb_web_add_file has yet to write to it
    reply         \* the locals of process_serve_file and what was written to connfd

siteVars == <<serverVars, file, reply>>

NoFile == [version |-> 0, len |-> 0, left |-> 0]
NoReply == [state |-> "none", range |-> [first |-> 0, last |-> 0], announced |-> 0, pos |-> 0,
            count |-> 0, sent |-> <<>>, of |-> NoFile, faulty |-> FALSE, closes |-> FALSE]

SiteInit == ServerInit /\ file = NoFile /\ reply = NoReply

Serves == pc = "process" /\ req.local /\ req.ws_version = 0
Shorter(n, m) == IF n < m THEN n ELSE m
Chunk == Shorter(reply.count, ChunkLen)

-----------------------------------------------------------------------------
(* What follows.                                                             *)

\* Mutant: the last byte of the range is not sent.
End_AsGiven(range) == range.last

\* an end of 0 stands for none
End(range) == IF range.last = 0 THEN 0 ELSE (range.last + 1) % Word

\* serve_headers_success, and how much the loop behind it will send
Announced(range, of, end, pos) ==
    LET offset == range.first % Word
        count  == IF offset < end THEN end - offset ELSE 0
    IN  [NoReply EXCEPT !.state = IF count = 0 THEN "done" ELSE "sending",
                        !.range = range, !.announced = (end - offset) % Word,
                        !.pos = pos, !.count = count, !.of = of]

\* prepare_gzip finds the file, or a compressed one, which may be just being written
OpenFile ==
    /\ Serves /\ reply.state = "none"
    /\ \E range \in Ranges, len, left \in Sizes :
          /\ file' = [version |-> 1, len |-> len, left |-> left]
          /\ reply' = [NoReply EXCEPT !.state = "opened", !.range = range]
    /\ UNCHANGED serverVars

\* fstat, the headers and lseek, which may refuse to go behind the end
Stat ==
    /\ reply.state = "opened"
    /\ LET range == reply.range
           end   == IF End(range) = 0 THEN file.len ELSE End(range)
       IN  \E pos \in {IF range.first < 0 THEN 0 ELSE range.first}
                      \cup (IF range.first > file.len THEN {0} ELSE {}) :
              reply' = Announced(range, file, end, pos)
    /\ UNCHANGED <<serverVars, file>>

\* serve_not_found_cb, with what the callback returns
FindInMemory ==
    /\ Serves /\ reply.state = "none"
    /\ \E range \in Ranges, size \in Sizes \ {0} :
          LET of  == [NoFile EXCEPT !.len = size]
              end == IF End(range) = 0 \/ End(range) > size THEN size ELSE End(range)
          IN  /\ file' = of
              /\ reply' = Announced(range, of, end, range.first % Word)
    /\ UNCHANGED serverVars

-----------------------------------------------------------------------------
(* Sending.                                                                  *)

BytesAt(pos, n) == [i \in 1..n |-> <<file.version, pos + i - 1>>]
FromDisk ==
    BytesAt(reply.pos,
            Shorter(Chunk, IF file.len > reply.pos THEN file.len - reply.pos ELSE 0))

\* the count goes down by the chunk, whatever was written; in the end the result of
\* sendfile, which is not initialized, decides whether the connection is closed
Sent(bytes, moved, faulty) ==
    LET rest == reply.count - Chunk
    IN  \E closes \in IF rest = 0 /\ file.version # 0 THEN BOOLEAN ELSE {FALSE} :
           reply' = [reply EXCEPT !.sent = @ \o bytes, !.pos = @ + moved, !.count = rest,
                                  !.faulty = @ \/ faulty, !.closes = closes,
                                  !.state = IF rest = 0 THEN "done" ELSE @]

\* sendfile: a write takes all, a part, or fails and ends the reply
SendChunk ==
    /\ reply.state = "sending" /\ file.version # 0
    /\ \/ \E n \in 0..Len(FromDisk) :
             Sent(SubSeq(FromDisk, 1, n), Len(FromDisk), n < Len(FromDisk))
       \/ reply' = [reply EXCEPT !.state = "done", !.faulty = TRUE]
    /\ UNCHANGED <<serverVars, file>>

\* writen, which may fail after a part; the loop goes on
SendFromMemory ==
    /\ reply.state = "sending" /\ file.version = 0
    /\ \E n \in 0..Chunk : Sent(BytesAt(reply.pos, n), Chunk, n < Chunk)
    /\ UNCHANGED <<serverVars, file>>

FileDone ==
    /\ reply.state = "done"
    /\ IF reply.closes THEN ReplyAndClose ELSE Reply
    /\ file' = NoFile /\ reply' = NoReply

-----------------------------------------------------------------------------
(* rb_web_add_file in another task, while the file is open here.             *)

IsOpen == file.version # 0 /\ reply.state # "done"

\* O_TRUNC
AddFile ==
    /\ IsOpen /\ file.version < MaxVersion
    /\ \E len \in Sizes : file' = [version |-> file.version + 1, len |-> 0, left |-> len]
    /\ UNCHANGED <<serverVars, reply>>

\* writen goes on or fails
AddFileWrites ==
    /\ IsOpen /\ file.left > 0
    /\ \/ file' = [file EXCEPT !.len = @ + 1, !.left = @ - 1]
       \/ file' = [file EXCEPT !.left = 0]
    /\ UNCHANGED <<serverVars, reply>>

-----------------------------------------------------------------------------
ServeFile == OpenFile \/ Stat \/ FindInMemory \/ SendChunk \/ SendFromMemory \/ FileDone

\* the other replies and the other steps of WebServer
SiteAnswer == \/ ServeFile
              \/ reply.state = "none" /\ Answer /\ UNCHANGED <<file, reply>>

Others == \/ Start \/ Parse \/ PeerLeaves \/ SeesNotification \/ Exit
          \/ \E fd \in Fds : Accept(fd) \/ OtherSocket(fd)
          \/ \E s \in Stoppers : StopCall(s) \/ StopReturns(s)
          \/ \E b \in Backends : Backend(b)

SiteNext == \/ SiteAnswer \/ AddFile \/ AddFileWrites
            \/ Others /\ UNCHANGED <<file, reply>>

SiteSpec == SiteInit /\ [][SiteNext]_siteVars

\* The task runs; serving a file is part of the answer, and a write that makes no
\* progress fails after five seconds.  Peers may be silent.
SiteFairSpec == /\ SiteSpec /\ WF_siteVars(SiteAnswer)
                /\ WF_siteVars(SeesNotification /\ UNCHANGED <<file, reply>>)
                /\ WF_siteVars(Exit /\ UNCHANGED <<file, reply>>)
                /\ \A s \in Stoppers : WF_siteVars(StopReturns(s) /\ UNCHANGED <<file, reply>>)

-----------------------------------------------------------------------------
\* the bytes a range asks for, as far as they are there
Wanted(range, size) ==
    [i \in 1..((IF range.last = 0 THEN size ELSE range.last + 1) - range.first) |->
        range.first + i - 1]
Satisfiable(range, size) ==
    /\ range.first \in 0..size
    /\ range.last = 0 \/ range.last \in range.first..(size - 1)

\* No more is sent than was announced, whatever happens to the file and whatever range is
\* asked for; and if the range is in the file, every write succeeds and nobody begins to
\* write the file anew, exactly the bytes of the range are announced and sent, also of a
\* file that is just growing (rbwebserver.c 313-316, 387-493, 505-514, 659-676).
SentAsAnnounced ==
    /\ Len(reply.sent) <= reply.announced
    /\ LET wanted == Wanted(reply.range, reply.of.len)
       IN  /\ reply.state = "done" /\ ~reply.faulty
           /\ file.version = reply.of.version
           /\ Satisfiable(reply.range, reply.of.len)
           => /\ reply.announced = Len(wanted)
              /\ reply.sent = [i \in DOMAIN wanted |-> <<file.version, wanted[i]>>]
=============================================================================
