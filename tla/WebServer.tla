----------------------------- MODULE WebServer -----------------------------
(***************************************************************************)
(* The web server of rbwebserver.c: one task that accepts a connection,    *)
(* reads its request line by line, answers it and closes it or hands it    *)
(* over to the WebSocket backend registered in ws_protocol.  Other tasks   *)
(* register and destroy backends, open and close sockets of their own and  *)
(* stop the server.  File descriptors are reused, as lwIP does.            *)
(***************************************************************************)
EXTENDS Naturals, FiniteSets

CONSTANTS
    Fds,          \* file descriptors
    Backends,     \* instances of ProtBackendWs that register themselves
    Stoppers,     \* tasks that call rb_web_stop
    Null,
    Headers,      \* the lines parse_request tells apart
    MaxHeaders    \* bound: lines before the empty one

UpgradeHeaders == {"Upgrade: websocket", "Connection: Upgrade", "Sec-WebSocket-Key"}
Versions == {0, 8, 13}     \* no version, an old one, KNOWN_WS_VERSION

ASSUME WebAssumption ==
    /\ Headers \subseteq UpgradeHeaders \cup {"Sec-WebSocket-Version", "Host"}
    /\ MaxHeaders \in Nat /\ Null \notin Backends \cup Stoppers \cup Fds
    /\ Backends \cap {"free", "web", "other", "lost"} = {}

VARIABLES
    ws_protocol,    \* the registered backend
    phase,          \* of each backend: "gone", "alive", and in its destructor "clearing", when
                    \* it found itself registered, and "closing"
    overtaken,      \* history: backends that were "clearing" when another one registered itself
    owner,          \* who has to close each fd: "free", "web", "other", "lost" or a backend
    undercut,       \* history: connections on their way to a backend when that was destroyed
    pc,             \* where tiny_web_task is
    connfd, req,    \* its locals: the connection and the request
    passed,         \* the backend rb_web_ws_new_connection was given
    mailbox,        \* notification value of the task: who wants it to stop
    stopping_task,  \* what xTaskNotifyWait copied from there
    stop            \* what each stopper is doing

registry == <<ws_protocol, phase, overtaken>>
serverVars == <<registry, owner, undercut, pc, connfd, req, passed, mailbox, stopping_task,
                stop>>

\* lines, upgrades: how many lines were read, and how many upgrade headers among them
NoRequest == [get |-> FALSE, lines |-> 0, upgrades |-> 0, ws_version |-> 0, local |-> TRUE]

ServerInit ==
    /\ ws_protocol = Null /\ phase = [b \in Backends |-> "gone"] /\ overtaken = {}
    /\ owner = [fd \in Fds |-> "free"] /\ undercut = {}
    /\ pc = "gone" /\ connfd = Null /\ req = NoRequest /\ passed = Null
    /\ mailbox = Null /\ stopping_task = Null
    /\ stop = [s \in Stoppers |-> "idle"]

-----------------------------------------------------------------------------
(* tiny_web_task.                                                            *)

\* rb_web_start; the task may not get its listening socket and then only waits
Start ==
    /\ pc = "gone" /\ \A s \in Stoppers : stop[s] = "idle"
    /\ pc' \in {"poll", "failed"}
    /\ UNCHANGED <<registry, owner, undercut, connfd, req, passed, mailbox, stopping_task, stop>>

\* req.ws_version is not initialized
Accept(fd) ==
    /\ pc = "poll" /\ mailbox = Null
    /\ owner[fd] = "free"
    /\ owner' = [owner EXCEPT ![fd] = "web"]
    /\ connfd' = fd
    /\ \E get \in BOOLEAN, v \in Versions : req' = [NoRequest EXCEPT !.get = get, !.ws_version = v]
    /\ pc' = "headers"
    /\ UNCHANGED <<registry, undercut, passed, mailbox, stopping_task, stop>>

ReadHeader(h) ==
    /\ pc = "headers" /\ req.lines < MaxHeaders
    /\ \E v \in Versions, local \in BOOLEAN :
          req' = [req EXCEPT !.lines = @ + 1,
                             !.upgrades = IF h \in UpgradeHeaders THEN @ + 1 ELSE @,
                             !.ws_version = IF h = "Sec-WebSocket-Version" THEN v ELSE @,
                             !.local = IF h = "Host" THEN local ELSE @]
    /\ UNCHANGED <<registry, owner, undercut, pc, connfd, passed, mailbox, stopping_task, stop>>

\* the empty line; the version counts only beside the three other headers
EffectiveVersion == IF req.upgrades = 3 /\ req.get THEN req.ws_version ELSE 0

\* what process looks at
Parsed == [NoRequest EXCEPT !.ws_version = EffectiveVersion, !.local = req.local]

EndHeaders ==
    /\ pc = "headers"
    /\ req' = Parsed
    /\ pc' = "process"
    /\ UNCHANGED <<registry, owner, undercut, connfd, passed, mailbox, stopping_task, stop>>

\* rio_readlineb returns and leaves the last line in buf: the loop sees it again, for
\* ever.  Before the first line buf is uninitialized and may end the loop.
PeerLeaves ==
    /\ pc = "headers"
    /\ pc' \in IF req.lines = 0 THEN {"spinning", "process"} ELSE {"spinning"}
    /\ req' = Parsed
    /\ UNCHANGED <<registry, owner, undercut, connfd, passed, mailbox, stopping_task, stop>>

IsSwitch == req.local /\ req.ws_version # 0 /\ ws_protocol # Null

\* rb_web_handle_websocket_switch_request
SwitchProtocols ==
    /\ pc = "process" /\ IsSwitch
    /\ pc' = IF req.ws_version = 13 THEN "hand_over" ELSE "close"
    /\ UNCHANGED <<registry, owner, undercut, connfd, req, passed, mailbox, stopping_task, stop>>

\* a redirect, an error, or a file; process returns 0
Reply ==
    /\ pc = "process" /\ ~IsSwitch
    /\ pc' = "close"
    /\ UNCHANGED <<registry, owner, undercut, connfd, req, passed, mailbox, stopping_task, stop>>

\* the extra callback and serve_static close the connection themselves
ReplyAndClose ==
    /\ pc = "process" /\ req.local /\ req.ws_version = 0
    /\ owner' = [owner EXCEPT ![connfd] = "free"]
    /\ pc' = "close_again"
    /\ UNCHANGED <<registry, undercut, connfd, req, passed, mailbox, stopping_task, stop>>

\* back to the top of the loop
Finish == pc' = "poll" /\ connfd' = Null /\ req' = NoRequest /\ passed' = Null

\* whoever has the fd by now loses it
CloseConnection ==
    /\ pc \in {"close", "close_again"}
    /\ owner' = [owner EXCEPT ![connfd] = "free"]
    /\ Finish
    /\ UNCHANGED <<registry, undercut, mailbox, stopping_task, stop>>

\* the argument of rb_web_ws_new_connection: ws_protocol is read a second time
HandOver ==
    /\ pc = "hand_over"
    /\ passed' = ws_protocol
    /\ pc' = IF ws_protocol = Null THEN "close" ELSE "add_client"
    /\ UNCHANGED <<registry, owner, undercut, connfd, req, mailbox, stopping_task, stop>>

\* addClient, on an instance that may be in its destructor, or freed memory by now
Joined == IF phase[passed] = "gone" THEN "lost" ELSE passed

\* Mutant: the connection is closed after it was handed over.
AddClient_ThenCloses ==
    /\ pc = "add_client"
    /\ owner' = [owner EXCEPT ![connfd] = Joined]
    /\ undercut' = IF Joined = "lost" THEN undercut ELSE undercut \ {connfd}
    /\ pc' = "close"
    /\ UNCHANGED <<registry, connfd, req, passed, mailbox, stopping_task, stop>>

AddClient ==
    /\ pc = "add_client"
    /\ owner' = [owner EXCEPT ![connfd] = Joined]
    /\ undercut' = IF Joined = "lost" THEN undercut ELSE undercut \ {connfd}
    /\ Finish
    /\ UNCHANGED <<registry, mailbox, stopping_task, stop>>

SeesNotification ==
    /\ pc \in {"poll", "failed"} /\ mailbox # Null
    /\ stopping_task' = mailbox /\ mailbox' = Null
    /\ pc' = "exit"
    /\ UNCHANGED <<registry, owner, undercut, connfd, req, passed, stop>>

\* Mutant: the stopper is not told.
Exit_Silent ==
    /\ pc = "exit"
    /\ stopping_task' = Null /\ mailbox' = Null
    /\ pc' = "gone"
    /\ UNCHANGED <<registry, owner, undercut, connfd, req, passed, stop>>

\* a notification that came after the last look dies with the task
Exit ==
    /\ pc = "exit"
    /\ stop' = [stop EXCEPT ![stopping_task] = "woken"]
    /\ stopping_task' = Null /\ mailbox' = Null
    /\ pc' = "gone"
    /\ UNCHANGED <<registry, owner, undercut, connfd, req, passed>>

-----------------------------------------------------------------------------
(* The other tasks.                                                          *)

\* rb_web_stop: the value overwrites that of a stopper before it
StopCall(s) ==
    /\ stop[s] = "idle" /\ pc # "gone"
    /\ mailbox' = s
    /\ stop' = [stop EXCEPT ![s] = "waiting"]
    /\ UNCHANGED <<registry, owner, undercut, pc, connfd, req, passed, stopping_task>>

StopReturns(s) ==
    /\ stop[s] = "woken"
    /\ stop' = [stop EXCEPT ![s] = "idle"]
    /\ UNCHANGED <<registry, owner, undercut, pc, connfd, req, passed, mailbox, stopping_task>>

\* rb_web_set_wsprotocol, from the backend's start()
Register(b) ==
    /\ phase[b] = "gone"
    /\ phase' = [phase EXCEPT ![b] = "alive"]
    /\ ws_protocol' = b
    /\ overtaken' = overtaken \cup {d \in Backends : phase[d] = "clearing"}
    /\ UNCHANGED <<owner, undercut, pc, connfd, req, passed, mailbox, stopping_task, stop>>

\* Mutant: another instance's registration is cleared too.
Matches_Always(b) == TRUE

\* Mutant: no registration is ever cleared.
Matches_Never(b) == FALSE

Matches(b) == ws_protocol = b

\* the destructor: rb_web_clear_wsprotocol compares ...
Destroy(b) ==
    /\ phase[b] = "alive"
    /\ phase' = [phase EXCEPT ![b] = IF Matches(b) THEN "clearing" ELSE "closing"]
    /\ UNCHANGED <<ws_protocol, overtaken, owner, undercut, pc, connfd, req, passed, mailbox,
                   stopping_task, stop>>

\* ... and stores, without a lock around both
StoreNull(b) ==
    /\ phase[b] = "clearing"
    /\ phase' = [phase EXCEPT ![b] = "closing"]
    /\ ws_protocol' = Null /\ overtaken' = overtaken \ {b}
    /\ UNCHANGED <<owner, undercut, pc, connfd, req, passed, mailbox, stopping_task, stop>>

\* then it closes the clients it was given, and its memory is freed
CloseClients(b) ==
    /\ phase[b] = "closing"
    /\ phase' = [phase EXCEPT ![b] = "gone"]
    /\ owner' = [fd \in Fds |-> IF owner[fd] = b THEN "free" ELSE owner[fd]]
    /\ undercut' = IF pc = "add_client" /\ passed = b THEN undercut \cup {connfd} ELSE undercut
    /\ UNCHANGED <<ws_protocol, overtaken, pc, connfd, req, passed, mailbox, stopping_task, stop>>

Backend(b) == Register(b) \/ Destroy(b) \/ StoreNull(b) \/ CloseClients(b)

OtherSocket(fd) ==
    /\ owner[fd] \in {"free", "other"}
    /\ owner' = [owner EXCEPT ![fd] = IF @ = "free" THEN "other" ELSE "free"]
    /\ UNCHANGED <<registry, undercut, pc, connfd, req, passed, mailbox, stopping_task, stop>>

Parse == EndHeaders \/ \E h \in Headers : ReadHeader(h)
Answer == SwitchProtocols \/ Reply \/ ReplyAndClose \/ CloseConnection \/ HandOver \/ AddClient

ServerNext == \/ Start \/ Parse \/ PeerLeaves \/ Answer \/ SeesNotification \/ Exit
              \/ \E fd \in Fds : Accept(fd) \/ OtherSocket(fd)
              \/ \E s \in Stoppers : StopCall(s) \/ StopReturns(s)
              \/ \E b \in Backends : Backend(b)

ServerSpec == ServerInit /\ [][ServerNext]_serverVars

\* The task runs; a peer that stays goes on until its headers are complete, which only
\* makes it harder to find StopStops violated.
ServerFairSpec == /\ ServerSpec /\ WF_serverVars(Parse) /\ WF_serverVars(Answer)
                  /\ WF_serverVars(SeesNotification) /\ WF_serverVars(Exit)
                  /\ \A s \in Stoppers : WF_serverVars(StopReturns(s))

-----------------------------------------------------------------------------
\* Between two connections the task holds none: each was closed or handed over.
TypeOK ==
    /\ ws_protocol \in Backends \cup {Null} /\ overtaken \subseteq Backends
    /\ phase \in [Backends -> {"gone", "alive", "clearing", "closing"}]
    /\ undercut \subseteq Fds
    /\ owner \in [Fds -> Backends \cup {"free", "web", "other", "lost"}]
    /\ pc \in {"gone", "poll", "failed", "headers", "spinning", "process", "close", "close_again",
               "hand_over", "add_client", "exit"}
    /\ connfd \in Fds \cup {Null} /\ (connfd = Null <=> pc \in {"gone", "poll", "failed", "exit"})
    /\ passed \in Backends \cup {Null}
    /\ req \in [get : BOOLEAN, lines : 0..MaxHeaders, upgrades : 0..MaxHeaders,
                ws_version : Versions, local : BOOLEAN]
    /\ mailbox \in Stoppers \cup {Null} /\ stopping_task \in Stoppers \cup {Null}
    /\ stop \in [Stoppers -> {"idle", "waiting", "woken"}]

\* No connection is forgotten: the task holds at most the one it works on, and every
\* one it handed over belongs to a backend that is still there and will close it.  The
\* exception is a backend destroyed between the two: after rb_web_ws_new_connection was
\* given it, and before addClient, which then works on freed memory (rbwebserver.c
\* 581-596, rbprotocolws.cpp 19-28, 266-274).
ConnectionsAccounted ==
    /\ TypeOK
    /\ \A fd \in Fds : /\ owner[fd] = "web" => fd = connfd
                       /\ owner[fd] \in Backends => phase[owner[fd]] # "gone"
                       /\ owner[fd] = "lost" => fd \in undercut

\* b loses its place to an instance that registers itself, or, which takes no lock, to the
\* late store of a destructor that has compared before that.
ReplacedBy(b) ==
    \/ \E n \in Backends : phase[n] = "gone" /\ ws_protocol' = n
    \/ /\ ws_protocol' = Null
       /\ \E d \in overtaken \ {b} : phase[d] = "clearing" /\ phase'[d] = "closing"

\* ws_protocol never dangles, and a backend that nobody destroys stays registered, in
\* whatever order instances are started and destroyed; the exception is named above
\* (rbwebserver.c 73-86, rbprotocolws.cpp 20, 31-33).
RegistrationFollows ==
    [][/\ ws_protocol' # Null => phase'[ws_protocol'] \in {"alive", "clearing"}
       /\ \A b \in Backends :
             ws_protocol = b /\ phase[b] = "alive" /\ ws_protocol' # b
                => ReplacedBy(b)]_serverVars

\* The task closes sockets of others only after a reply that closed the connection
\* already; a connection handed over is never closed behind the backend's back
\* (rbwebserver.c 457, 551, 591-595).
ClosesItsOwn ==
    [][Answer /\ pc # "close_again" =>
          \A fd \in Fds : owner[fd] # "web" => owner'[fd] = owner[fd]]_serverVars

\* rb_web_stop returns, unless the task is busy with headers for ever: those of a peer
\* that left in the middle of them, or that stays and sends nothing, since reading has no
\* timeout.  With one stopper: a second would overwrite its notification (rbwebserver.c
\* 121-136, 579-611, 650-657).
StopGetsThrough ==
    \A s \in Stoppers :
        [](stop[s] = "waiting" => <>(stop[s] = "idle" \/ [](pc \in {"headers", "spinning"})))

\* rb_web_stop stops the server: what rbwebserver.h 23 says.
StopStops == \A s \in Stoppers : stop[s] = "waiting" ~> pc = "gone"
=============================================================================
