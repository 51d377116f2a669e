# TLA+ models and proofs for RB3201-RBProtocol-library

The library connects an ESP32 robot to a controller (a phone or a browser). It
speaks the RBProtocol (small JSON packets) over UDP and WebSocket, serves web
pages, answers DNS queries as a captive portal does, shares UDP sockets between
callbacks and brings WiFi up. All of it runs in FreeRTOS tasks that share
mutexes, queues and file descriptors. This directory models those parts in
TLA+, checks them with TLC on small instances, and proves their safety with TLAPS.

Line numbers in the modules and here are those of `src/src/` at this commit.

## 1. The system: an inventory

| Component (source) | State | Operations | Interacts with | Hard behaviour | Correct means |
|---|---|---|---|---|---|
| Protocol messages (`rbprotocol.cpp`) | possessor's address, the counters "n", "e", "f", pending must-arrive commands, `m_sendQueue`, `m_mutex`, `m_mustarrive_mutex` | `send`, `send_mustarrive`, `send_log`, `is_mustarrive_complete`, `handle_msg`, `resend_mustarrive_locked`, loops of `send_task` and `recv_task` | applications, backends, peers; `m_callback` runs inside `recv_task` and may send | two tasks and any number of applications over two mutexes and a queue; lost, repeated and late packets; possession changes at any time; waiting for the queue inside a mutex its consumer needs | an id names one command; a command is settled, and not early; the callback sees every "f" once; no call hangs |
| Protocol lifecycle (`rbprotocol.cpp`) | the two task handles, pills in `m_sendQueue`, notifications | `start`, `stop` | the tasks above | `stop` does not join; tasks of several starts share one queue | every task can be stopped, none is left in the end |
| WebSocket backend (`rbprotocolws.cpp`) | the set of clients, a frame decoder each | `addClient`, `recv_iter`, `send_from_queue` | web server (gives it connections), Protocol | bytes in arbitrary pieces, fragments, pings between them, peers that leave in every way, reuse of descriptors, one client per message | payloads arrive intact and bounded, no client starves, who is gone is closed |
| UDP backend (`rbprotocoludp.cpp`) | a socket; the receive buffer it shares with the WebSocket backend and makes larger | `recv_iter`, send | Protocol | a cut datagram looks like one that fills the buffer | datagrams arrive whole |
| File serving (`rbwebserver.c`) | range, end and offset of a request, the open file | `parse_request`, `process_serve_file`, `serve_not_found_cb`, `rb_web_add_file` | web server task, other tasks that write files | a file written anew while it is served, writes that are cut short, ranges behind the end | what is announced is what is sent |
| Web server (`rbwebserver.c`, `rbwebsockets.c`) | `ws_protocol`, the connection and request in hand, notification value | `rb_web_start`, `rb_web_stop`, register and clear a backend, the task | WebSocket backend, extra callbacks | `ws_protocol` read twice and cleared without a lock, backends destroyed while a connection is handed over, descriptors closed twice, a peer that leaves early or stays silent | every connection has one owner that closes it; stop gets through |
| DNS reply (`rbdns.cpp`) | none, works on a buffer | `processDnsQuestion` | DNS task | in-place construction, offsets, extra records, names around the 64 bytes they are copied to, queries cut at the buffer | the answer RFC 1035 expects, inside the buffer |
| DNS server (`rbdns.cpp`) | socket, task handle | `start`, `stop`, the task | lwIP | `stop` only closes the socket; peek and pop are two calls | the asker gets the answer, the port is freed, the task ends |
| UDP hub (`rbudp.cpp`) | sockets and callbacks by port, `m_mutex` | `onReceive`, `removeCallback`, `send`, the reading task | users | callbacks under the lock, sockets that break in the middle of a round, descriptors that are closed and handed out again behind the map | a socket per port with callbacks, once to each callback |
| WiFi (`rbwifi_netif.cpp`, `rbwifi_tcpip.cpp`) | `m_ip`, `gScanDoneEv` | `connect`, `startAp`, `scanAsync`, `scanSync`, event handlers | the driver's event task | events queued for a mode that is over, several callers on one semaphore, abandoned scans | `m_ip` is the device's address, a station keeps connecting |
| JSON (`rbjson.cpp`, `jsmn.h`) | sorted member vector, item vector, a float | `set`, `get`, `remove`, copy, compare, array edits, `serialize`, `parse` | Protocol | prefix keys, cut keys, keys whose escapes stay in, members that cannot be used, 64 tokens, rounding to a float and to four decimals | objects behave as maps, a packet survives its text |
| TCP sockets (`rbtcp.cpp`) | descriptor, callbacks, `m_mutex`, the reading task and its growing buffer | constructor, `onReceive`, `removeCallback`, destructor | users | data that ends with the buffer, the destructor against the reading task | callbacks hear every byte but for bounded losses; the destructor frees nothing in use |
| printf, examples | | | | | vendored or without state; of printf only the rounding of `%.4f` is modelled |

`PROJECT.json` lists the hazards of this code line by line, with the properties
that cover each, and says of those no property covers why.

## 2. The modules

**RbProtocol** is `rb::Protocol` between `start()` and `stop()`. Actors:
applications (`Apps`), `recv_task`, `send_task`, peers and time. A critical
section of `m_mutex` never blocks and is one action. `m_mustarrive_mutex` is
held over blocking calls and is the variable `mustarrive_owner`. `m_mustarrive_e++`
runs under `m_mustarrive_mutex` while `handle_msg` resets the counter under
`m_mutex`; the increment is therefore two actions, the load (`LockMustArrive`)
and the store (`AddMustArrive`), and a reset can fall between them. A caller goes
`lock -> store -> number -> enqueue`, where `enqueue` succeeds or gives up after
200 ms. `handle_msg` goes `possess -> clear -> respond -> check -> announce ->
callback`, skipping what its packet does not call for, and enters the caller's
labels when it sends; `then` is where it comes back to. `send_task` goes
`drain -> lock_resend -> resend`. A packet is its address, its command, "n", "f"
and "e"; the text around them is layout. `MustArriveSession` is the abstract
specification of what an application is promised: within a session every id is
handed out once, in increasing order, and is settled once. `RbProtocol`
implements it (`ImplementsSession`) under the refinement mapping at the end of
the module: between the reset of the counter and the clearing of the queue the
abstract session is closed, and the first id of the next one is unspecified,
because a call caught in between may have moved it.

**ProtocolLifecycle** is `start()` and `stop()` with `m_mutex` as a variable,
since `stop()` waits for room for its pill while it holds it. Tasks are numbered
by the `start()` that created them. A turn of the receiver goes `poll -> udp -> ws`:
the notification is looked at before the UDP socket only, and each read takes the mutex.
A packet is answered with the mutex (`ReceiverNumbers`), or, when it is a discovery,
without (`ReceiverDiscovers`): its answer enters the queue also while `stop()` waits.
`short` records that `xTaskCreate` failed for either task, which the code does not look
at; without a receiver `stop()` aborts when it notifies nobody (`StopEnds`).

**WsBackend** is the client list and the decoder. Bytes arrive one at a time and
a visit of `recv_iter` moves a decoder by one state. A payload byte is its
position in its message paired with the byte of the key that masks it; unmasked
with another it becomes `Garbage`. Lengths are scaled down (125 to 3, 64 to 4,
32 KiB to 6) and keep their order; `Chunk` stays a multiple of the key. A peer sends
frames, fragments and pings, and leaves by a close frame, an orderly end of the
connection, a reset, or a frame that breaks the protocol (`peer[fd].left`).
**ReceiveTask** extends it with `recv_task`: a turn takes a datagram from the UDP
socket, growing the buffer until it fits, and then goes once over the clients.
`Mixes` chooses who is there: one peer that does everything, or two that only send.

**WebServer** is `tiny_web_task`, the tasks that register and destroy backends,
and those that call `rb_web_stop`. `owner` says who must close each descriptor,
which lwIP hands out again as soon as it is closed. A destructor is three steps: it
compares `ws_protocol` with itself (`Destroy`), stores null (`StoreNull`), and closes its
clients (`CloseClients`); there is no lock around the first two, and none between the
task that hands a connection over and the last one. `overtaken` and `undercut` record
when something came in between. In `WebServer` a file is one step,
`Reply` or `ReplyAndClose`. **WebFiles** extends it with what happens in that step: a
file is opened, its length is taken and announced, and it is sent in chunks, while
`rb_web_add_file` in another task truncates and writes it. The variables `file` and
`reply` are at rest outside of it; the files there are when a request comes are
chosen then, since nobody reads them before. Whether `serve_static` closes the
connection hangs on a result `sendfile` does not initialize, a free choice here.
Names, MIME types and compression choose which bytes are sent and no property tells
them apart.

**DnsReply** gives `processDnsQuestion` as a function of the query: a call works on
a buffer no other task sees. A name is its labels' ends, and `LabelPasses` is the test of
`parseDnsName` with the wrap-around of `maxlen`. lwIP reports no more of a datagram than
the buffer takes, so a query never is longer than the buffer (`QueriesFit`); one that lost
its end or its header claims more than came (`Astray`). **DnsServer** extends it with the task and its `start`
and `stop`; `Answer` calls it. What a datagram asks is chosen there, since nothing
before depends on it, and `answered` shows the reply for that one step.

**UdpHub** is `rb::Udp`: a round of `readTask` holds `m_mutex`, so users come in
between rounds only, and a callback that calls `Udp` is stuck. `bound` is what lwIP knows:
the port of the socket behind each descriptor. Other tasks open sockets of their own, and
somebody may close a descriptor of the map (`stray`); it fails then, or names another
socket once it was handed out again. `removeCallback` closes whatever descriptor the
erased entry yields, which is any (`leaked` records the socket it left open). A datagram
is peeked and taken in two steps, and a socket that cannot be opened again is tried once
more and again inside the round (`Reopen`, `ReopenFails`).

**WiFi** is both builds in one module (`netif` is chosen in `Init`). The driver is
external: it associates, loses the link and changes the lease at any time, and
what it reports is queued and handled later, in order. Any number of tasks scan, each
with its own wait on the one semaphore; `leftover` and `overtaken` record what was still
queued when a scan began and when `startAp` stored the address.

**JsonMembers** is the sorted member vector with its binary search, as operators.
**JsonText** is values and their text: `serialize`, jsmn's tokenizer, which reads one
lexeme after the other, and `parse` on its tokens. What is recursive in the code is a
recursive function, over the depth of a value, the lexemes read so far or the tokens;
values nest at most `MaxTokens` deep, since no text of more tokens is parsed. A number is
a whole multiple of 1/`Unit`. Floats are `Least`/`Unit` apart near zero and twice as far
from each power of two of `Mantissa` on, at most `Doublings` times; `Float` rounds to the
nearest, ties to even, and `NumberText` to four decimals as `_ftoa` does, the last of
them worth `Step`/`Unit`. **JsonObject** is an object that an application sets, edits,
copies, loads from a text and sends to another. **JsonRoundTrip** adds `RoundTrip`, what
is left of an object after its text; the recursion over two values that compares them is
the only RECURSIVE operator of the project besides the count of tokens.

**TcpLink** is `rb::Tcp`: a round of the reading task with its buffer, `m_mutex`, the
callbacks, and the destructor, which sets `m_fd` to -1 and polls for the end of the
task. Bytes are numbers, so that losses and repetitions show; `gaps` records the
stretches that were read and given to nobody.

The modules `MC*` only give the constants values. Each `*.cfg` is one run. A module
`*Proofs` holds the theorems about the module it extends (section 5);
`ReceiveTaskProofs` is also that of `WsBackend`, `TcpProofs` that of the two parts that
hold TCP connections, `TcpLink` and `WebFiles` with `WebServer`, and `JsonObjectProofs`
that of `JsonText` and `JsonMembers`. The specification of `WebServer` is `ServerSpec`,
so that `WebFiles` can extend it and both can stand beside `TcpLink`.

## 3. The runs

| Run | Asks | Distinct states |
|---|---|---|
| `MCRbProtocol_sessions` | `IInv`, `UniqueIds`, `DeliveredOnce`, `GivenUpOnlyAfterBudget`, `ImplementsSession` | 2.4 million |
| `MCRbProtocol_live` | `Settles`, `CallsReturn` | 42 000 |
| `MCProtocolLifecycle_restarts` | `SendersAccounted`, `ReceiversTold`, `EndsForGood`, `StopReturns` | 22 000 |
| `MCReceiveTask_both` | `DecodersSound`, `MessagesIntact`, `NobodyStarves`, `GoneAreClosed` | 248 000 |
| `MCWebFiles_owners` | `ConnectionsAccounted`, `SentAsAnnounced`, `RegistrationFollows`, `ClosesItsOwn`, `StopGetsThrough` | 0.5 million |
| `MCWebServer_leaves` | `StopStops`, violated | |
| `MCDns_server` | `PortFollowsTask`, `AnswersReachTheAsker`, `RepliesAreSound`, `EndsForGood`, `Drains` | 24 000 |
| `MCDns_extra` | `ExtraDropped`, violated | |
| `MCUdpHub_rounds` | `SocketsMatchCallbacks`, `GivenOnceInOrder`, `RoundEnds` | 0.7 million |
| `MCWiFi_builds` | `CurrentIp`, `ScanAwaited`, `KeepsTrying` | 363 000 |
| `MCTcpLink_reads` | `NothingElseLost`, `LossesDouble`, `DestructorWaits`, `DestructorSettles`, `ArrivedIsRead` | 244 000 |
| `MCJsonObject_map` | `LookupFinds`, `EqualIffSameMap`, `ActsLikeMap`, `RoundTrip` | 35 000 |

The first invariant of a run includes the type invariant of its module, where it has
one (`TypeOK`, or the types in `DecodersSound`).

`CHECK_DEADLOCK FALSE` is set where the bounds exhaust the inputs or a component
is at rest: an idle library may stop.

### Bounds, and why they suffice

- `RbProtocol`: one application beside `recv_task`, which calls `send_mustarrive`
  too, gives two concurrent callers; a third only repeats their interplay. A queue
  of one is full as soon as anything is queued, which is where waiting inside the
  mutex matters. Two attempts tell "tried again" from "given up". `MaxId = 1` lets
  two commands be pending, and `Acks = {1}` acknowledges the second while the first
  waits, and an id that is not there. `Numbers` holds the restart marker, a packet
  and a later one; with `Window = 2` and the marker, the late and the restarting
  branch of the filter are taken. `MaxWrite = 0` merges the values of
  `m_write_counter`, on which nothing depends. The live run uses one UDP peer.
- `ProtocolLifecycle`: two generations let a new pair of tasks start while the older one
  is still ending and take its pill or leave it its own; two controllers race each other.
  A queue of two is filled by a packet and a pill, or by packets of the application and
  the receiver while `stop()` waits.
- `ReceiveTask`: lengths 0, 1 and 5 are an empty frame, one with its length in the
  header, and one with an extended length over two chunks; 6 is the limit that 1 + 5
  meets exactly and 5 + 5 exceeds. Starvation and reuse of a descriptor need two
  clients. The buffer begins at 4, so the datagram of 5 makes it grow twice. A peer has
  one frame on the way and the UDP socket one datagram (`MaxUnread`, `MaxInbox`).
- `WebFiles`: one descriptor, which the task, a backend and another task have in turn,
  two backends, four header lines (three upgrade headers and one more), one stopper; the
  theorems hold for any number of descriptors. Files of 0 and 3 bytes and a chunk of 2: a
  body of two chunks, one of them partial; ranges that are absent, inside, over the end
  and negative; one writer that begins anew (`MaxVersion`), and one that was at work
  before. `Word = 16` stands for 2^32: every sum and difference keeps its sign.
- `DnsServer`: two peers, a socket that holds two datagrams, two starts.
  Queries: with the constants of the code, up to three questions with short and
  long names, answerable, of another type, or refused; extra records of 0, 11 (an
  EDNS OPT record) and 40 bytes; a query that fits the limit with its answers and one
  that does not; names that end just before, at and behind the 64 bytes they are copied
  to, one of them past the test; a query that lost its second question, and one that is
  shorter than a header.
- `UdpHub`: two ports and two callbacks let a port lose its last callback and its socket
  between rounds, and come back; three descriptors are those two and one of another task,
  so that a closed one names the other port's socket or a foreign one. Two datagrams tell
  the order and a datagram read twice; a socket keeps one.
- `WiFi`: two leases tell a stale address from the current one. Two callers with three
  scans take each other's semaphore, give up, and come back beside the end of a scan.
- `TcpLink`: a buffer of 1 that grows by 1 up to 4 passes data that ends with the
  buffer, before it and with the full size; six bytes fill it more than once. Two
  callbacks come and go while one is being called.
- `JsonObject`: five keys, of which one is a prefix of others, two are equal after the
  cut, and two have escapes that grow over the cut, meet there and sort behind the rest;
  texts of two members, unusable ones included. Nine tokens are met exactly by some
  packets and exceeded by others. `Mantissa` is 64, six binary digits; the numbers lie
  above, below and half way between two decimals. `fresh` keeps what came out of a text
  from being sent on, or its escapes would grow without end.

### Fairness

Liveness is checked under the weakest fairness that the scheduling justifies.

- `RbProtocol`: weak fairness of every task (FreeRTOS runs a ready task), strong
  fairness of taking `m_mustarrive_mutex` (it is released again and again, and
  FreeRTOS gives a mutex to its longest waiting task of the highest priority), weak
  fairness of the timer, and the callback returns. Nothing is assumed of peers or
  packets: `Settles` holds because attempts run out.
- `ProtocolLifecycle`: strong fairness of the steps that need `m_mutex` or a packet in
  the queue and are taken at every turn (the sender's receive and transmit, the
  receiver's reads and its return from a packet), weak fairness of the receiver's end, of
  `stop()` and of whoever queues a packet (the 200 ms limit ends it). `StopReturns` asks
  for room behind all that may still enter the queue without the mutex: packets already
  numbered, and the answer to a discovery that was received before.
- `ReceiveTask`: `recv_task` runs; bytes that were sent arrive. Nothing is assumed of
  what peers send or when they leave. `WebFiles`: the task runs; no header line and no end
  of the headers is assumed to come, since reading has no timeout. (`MCWebServer_leaves`
  assumes it of peers that stay, and is violated all the same.) `DnsServer`, `WiFi`: the
  task runs.
- `UdpHub`: `readTask` runs. Opening a socket again is not assumed to succeed, and
  neither is a read that blocks to return.
- `TcpLink`: the reading task and the destructor's poll run; strong fairness of the
  callers' turns at `m_mutex`, which is free for 25 ms after every round.

## 4. What the checks found

Two runs show a bug and are expected to end in a violation.

- `MCWebServer_leaves`: when a peer leaves before the empty line,
  `rio_readlineb` returns and `buf` keeps its last line, so the loop of
  `parse_request` (`rbwebserver.c:310`) never ends. `rb_web_stop` then waits for ever.
- `MCDns_extra`: `rbdns.cpp:257` moves as many bytes as the extra records have, not
  as many as the answers have. A query with an 11 byte EDNS OPT record and one
  question is answered with a truncated answer. `RepliesAreSound` states what
  does hold.

Other places where the code and its documentation part, seen in the models; the
properties name them as exceptions:

- `m_possessed_addr` is never reset: `is_possessed()` stays true after the client is
  gone (`rbprotocol.h:83` says "somebody connected to it").
- `parse_request` counts upgrade headers, so a repeated one stands in for a missing
  one (`rbwebserver.c:335` expects all).
- The netif build stores the access point's address in `startAp` and nowhere clears it:
  after `connect()` it stays until there is a lease. And the end of a former link that is
  handled after `startAp` returned clears it while the device is an access point
  (the two cases `CurrentIp` names; `rbwifi.h:64`).
- The semaphore of a scan is never reset: a caller that begins while the end of an
  earlier scan is in it or on its way goes on before its own scan is done (`leftover` in
  `ScanAwaited`; `rbwifi.h:36`).
- `Number` keeps a float, not the double `rbjson.h:175` speaks of, and its text four
  decimals: `RoundTrip` bounds what is lost by the last of them, and order survives, so
  a packet counter never goes back.
- The parser never undoes the escapes the serializer writes: a quote in a string
  arrives with a backslash before it, and with three after another hop (`Survives`). The
  same goes for names: a key that needs escapes comes back under another name, which may
  be cut, and when two meet the value written last stays (`Arrives`).
- A packet of more than 64 tokens is refused as a whole (the premise of `RoundTrip`).
- A member whose key is no string with one value stops the walk: the members behind it
  are lost (`Meant` in `RoundTrip`).
- A client that ends its connection in order (`fin`) is kept, with its descriptor, until
  a send to it fails; the same for one whose last bytes are no whole part of a frame
  (the two cases `GoneAreClosed` leaves out).
- A control frame between the fragments of a message takes the fragments before it away
  (named in `MessagesIntact`).
- `~TcpSocketReal` returns only if the reading task has not looked at `m_fd` yet.
  Otherwise the task takes `EBADF` for a broken socket, opens it again for ever and goes
  on calling the callbacks, and the destructor polls without end (`DestructorSettles`).
- `rb::Tcp` drops what it read when the data ends exactly with the buffer, up to a few
  times in the life of a link: the buffer has grown by then (`LossesDouble`).
- The body of a file may be shorter than its Content-Length: the range ends behind the
  file, the file is truncated meanwhile, or a write takes only a part of a chunk, after
  which the rest of that chunk is skipped (the premises of `SentAsAnnounced`).
  Content-Range names one byte more than is sent, since `end` is exclusive by then
  (`rbwebserver.c:316`, `:422`); wording of headers is not modelled.
- `stop()` may wait for ever when `m_sendQueue` is full or fills up with what was on its
  way, a discovery's answer included (the premise of `StopReturns`).
- A backend that is destroyed after `rb_web_ws_new_connection` was given it and before
  `addClient` is used after its memory was freed, and the connection is nobody's
  (`undercut` in `ConnectionsAccounted`).
- `rb_web_clear_wsprotocol` compares and stores without a lock: a backend that registers
  in between loses its registration (`overtaken` in `RegistrationFollows`).
- A peer that connects and stays silent keeps the web task, and `rb_web_stop`, for as long
  as it likes (`StopGetsThrough`).
- `parseDnsName` accepts a label that takes just what is left of its 64 bytes, writes its
  dot behind them and does not limit the labels after it, since `maxlen` wraps around
  (`DotBehind` in `RepliesAreSound`). A query that claims more than came is read beyond
  its end (`Astray`).
- `removeCallback` takes the descriptor to close from the entry it has just erased: the
  port's socket may stay open, and another be closed (`leaked` and `stray` in
  `SocketsMatchCallbacks`).
- A round of `rb::Udp` keeps `m_mutex` when a callback calls `Udp`, while no socket can be
  had for one that broke, and when a descriptor was closed and handed out between the two
  calls that read a datagram, so that the second waits for one (the cases of `RoundEnds`).
- A restart of the DNS server within 30 ms leaves two tasks on one socket (`overlap` in
  `AnswersReachTheAsker`).

## 5. What is proved

The theorems hold for every value of the constants that meets the named assumptions:
any number of tasks, peers, clients and descriptors, any queue, buffer and length, and
any value of the bounds that TLC needs.

| Module | Theorem | Says |
|---|---|---|
| `RbProtocolProofs` | `Invariance`, `TypeCorrect` | `Spec => []IInv`, `Spec => []TypeOK` |
| | `IdsUnique` | `[]UniqueIds`: pending ids differ and none will be handed out again |
| | `AddressKnown` | `[]ResendAddressKnown`: the resender never uses the address it failed to read |
| | `AtMostOnce` | `[]DeliveredOnce`: the callback sees every "f" at most once, in order |
| | `GivesUpLate` | `GivenUpOnlyAfterBudget`: a command leaves the queue acknowledged, out of attempts, or because a session began |
| | `SessionImplemented` | `ImplementsSession`: `RbProtocol` implements `MustArriveSession` |
| `ProtocolLifecycleProofs` | `EverySenderEnds` | `[]SendersAccounted`: there are as many senders alive as pills and handles |
| | `EveryReceiverIsTold` | `[]ReceiversTold`: no receiver is left that nobody can stop |
| `ReceiveTaskProofs` | `DecodersStaySound` | `[]DecodersSound`: lengths, buffers and list of the WebSocket clients |
| | `MessagesStayIntact` | `[]MessagesIntact`: what is parsed is one message, whole, in order, unmasked |
| `TcpProofs` | `OneOwner` | `[]ConnectionsAccounted`: every connection has one owner that closes it, unless its backend was destroyed under `addClient` |
| | `FollowsRegistrations`, `OthersKeepTheirs` | `RegistrationFollows`, `ClosesItsOwn`: a backend is replaced by a newer one or by a destructor that compared before it; the task closes its own |
| | `ExactBytes` | `[]SentAsAnnounced`: never more bytes than announced, and the right ones |
| | `DestructorIsLast` | `[]DestructorWaits`: the object is freed after its task |
| | `NothingElseIsLost` | `[]NothingElseLost`: callbacks hear every byte but the gaps, once, in order |
| | `LossesAreFew` | `[]LossesDouble`: the i-th loss takes at least `FirstSize * 2^(i-1)` bytes |
| `UdpHubProofs` | `SocketPerCallback` | `[]SocketsMatchCallbacks`: a port is in the map while it has a callback, with its own socket unless somebody closed it, and other sockets are those `removeCallback` left |
| | `InOrderOnce` | `[]GivenOnceInOrder`: every callback gets a datagram once, in order, and one sent to its port unless the descriptor was closed |
| `DnsServerProofs` | `PortIsTheTasks` | `[]PortFollowsTask`: the port is bound while there is a task |
| | `AskersGetTheirs` | `[]AnswersReachTheAsker`: a reply goes to the peer whose query it answers |
| | `RepliesAreRight` | `[]RepliesAreSound`: replies to every query that claims no more than came stay in the buffer and the limit, and are what RFC 1035 expects but for the move of `MCDns_extra`; a name leaves its 64 bytes only by a dot |
| `WiFiProofs` | `IpIsCurrent` | `[]CurrentIp`: once the events are handled `m_ip` is the address, or what it is in the two cases of the netif build |
| | `ScanIsTheCallers` | `[]ScanAwaited`: of any number of callers each is told of its own scan, unless it began beside the end of another |
| `JsonObjectProofs` | `AlwaysSorted` | `[]SortedInv`: members are sorted by name without duplicates |
| | `LookupsFind`, `EqualMeansSame`, `SetsLikeMap` | `[]LookupFinds`, `[]EqualIffSameMap`, `ActsLikeMap`: an object is a map |
| | `ChildrenAreTokens` | the walks over the tokens of any text stay in it and end where their container does |
| | `ObjectsAreSorted` | what `parse` makes of any text that begins with a brace is nothing, or an object with sorted members |
| | `NumbersKeepOrder` | numbers keep their order through text and float, and a text is less than its last decimal off |

### Assumptions

- `RbProtocol`: the three task names are not applications (`TasksAssumption`), no
  address is both UDP and WebSocket and none is `NoAddr` (`AddrsAssumption`), sizes are
  positive (`SizesAssumption`), a packet's "f" lies below the marker `NoF`
  (`PacketsAssumption`). A packet's "f" may be any 32 bit number, and the one equal to
  the marker is the only case that is left out.
- `ProtocolLifecycle`, `DnsServer`: the queue has room for something; controllers are
  not applications.
- `WsBackend`, `ReceiveTask`: `Chunk` is a positive multiple of four, as the 64 bytes
  of `buf` are (`rbprotocolws.cpp:191`, the key is indexed from 0 in every chunk); the
  UDP buffer is at least as large as a chunk, since both backends are given the same
  one, and grows by a positive step.
- `DnsReply`: the sizes of the header, of an answer and of the buffers are naturals. A
  query is any sequence of questions, each of any labels, with any number of bytes behind,
  no longer than the buffer it was received in (`DnsAssumption`, `QueriesFit`).
- `WebServer`, `WebFiles`: the flash holds less than 2^32 bytes, and the last byte of a
  range is a number of 32 bits. The chunk is positive.
- `TcpLink`: the buffer grows by a positive step, at most its first size, and starts
  below the full size (64, 16 and 1024 in `rbtcp.cpp`).
- `UdpHub`: ports are positive, and finitely many; descriptors are naturals. `WiFi`: the
  address of the access point is no lease, and none is 0.
- `JsonText`: there is room for two tokens at least, a number 1 is whole steps of the
  last decimal and of the finest spacing, and the number of floats between two powers of
  two is even (`TextAssumption`; 64 tokens and 2^24 floats of one spacing in the code). What
  is set, put into arrays or written nests no deeper than a packet has tokens
  (`JsonAssumption`).

### Inductive invariants

None of the properties but `PortFollowsTask` is inductive alone. What is added:

- `RbProtocol`: `IInv`, checked by TLC too. `OwnerInv`, who is inside
  `m_mustarrive_mutex`: without it two tasks could be between load and store.
  `LoadedInv`, the loaded id equals the counter outside the window of a possession:
  without it the store could hand out an id again. This is where the increment and
  the reset under different mutexes meet. `PossessedInv` and `TargetInv`, nobody is at
  work on a command before somebody possesses the device: this is why the ignored
  result of `get_possessed_addr` does no harm. `PacketInv`, `handle_msg` has a packet
  with "f" where it reads one. `SeenInv`, `m_mustarrive_f` is the last "f" let through,
  also while the call of the callback is still under way. The refinement takes its
  steps from `IInv`, one lemma per action.
- `ProtocolLifecycle`: `LifeInv` adds which handles go together and that whoever is in
  `stop()` found one (`HandlesInv`), that generations not started yet have no tasks
  (`FreshInv`), and the count itself as an equation of cardinalities, pills being the
  positions of the queue that hold one (`CountInv`).
- `WsBackend`: `WsInv`. For each client there is a history of frames of which its
  peer's stream consists, of which so many were sent and so many read; the decoder is
  between two of them or at a known place inside the next, and the payload it has
  gathered is the stretch of positions the history says (`ClientOk`). That the key
  fits every byte rests on chunks of whole keys (`KeyRunsOn`, `WholeChunks`), and
  that a datagram arrives whole on the buffer outgrowing it (`BufferGrows`). `WsInv`
  quantifies over all histories, so TLC checks what follows from it, not `WsInv`.
- `WebServer`: `WebInv`, the connection in hand is the task's while it answers
  (`HoldsInv`), `ws_protocol` is null or a backend that is alive or in its destructor
  (`RegisteredInv`), a destructor about to store null finds itself there unless a newer
  backend came in between (`OvertakenInv`), a connection on its way to a backend that is
  gone is known as such (`UndercutInv`), upgrade headers are lines (`CountInv`).
  `WebFiles`: `FileInv`, what is sent and what is left do not exceed what is announced
  (`BudgetInv`), versions of a file only grow and sums of lengths do not wrap
  (`VersionInv`), and an undisturbed reply is at the place its count says
  (`ProgressInv`).
- `TcpLink`: `FdInv`, who holds the lock and which values of `m_fd` go with the
  reading task and the destructor; `DataInv`, the buffer holds the bytes behind those
  already settled, and each callback was told up to a known byte; `SizeInv` and
  `LossInv`, the capacity has doubled with every loss.
- `UdpHub`: `HubInv`, handles not given out yet have no port, the round is at a port of
  the map and opens a socket again only when it is not the port's own (`RoundInv`);
  `DatagramInv`, a datagram is in one place, in the socket it was sent to before it was
  given to anybody (`PlacesInv`), callbacks told and to be told are those registered, and
  the former come before the latter (`DeliveryInv`, `OrderInv`).
- `DnsServer`: `QueriesInv`, unless tasks overlap there is one, and the query it peeked
  is still the first one in the socket. The replies need no invariant of the server but
  one of the loop over the questions (`LoopOk`): after n of them the loop is behind them,
  the answers stand behind the query, one behind the other, and the query is as it was.
- `WiFi`: `WiFiInv`, the last queued event that sets `m_ip` will set it to the address
  (`Settles`), and in the netif build after `startAp` either that, or to 0 when an end
  of a former link was still queued, or none is queued and the stored address stays
  (`IpInv`); `ScanInv`, while a caller that began with nothing left over waits, an end
  in the semaphore or queued is of its own scan or of a later one.
- `JsonObject`: `SortedInv`, both objects are sorted by name without duplicates and their
  values nest less than `MaxTokens` deep. That the binary search splits a sorted vector in
  two is a property of its recursion over ranges (`SearchSplits`); inserting where it ends
  and removing keep the order. The two steps that parse a text need the whole way through
  the parser:
  - The tokens so far are a forest (`Tree`): each has a parent before it, a number of
    children that is its `size`, and what is in it is one stretch of tokens. jsmn keeps no
    parents, only `toksuper`, so the parents are a witness the proof carries along, with
    a rank that counts the children of one parent. `Growing` says that `toksuper` and the
    open tokens are the last token or above it, which is where a new one may go. One lemma
    per kind of lexeme shows that a text of any lexemes, in any order, keeps it (`Parsed`).
  - Each token has an end in the forest (`EndsExist`), its children meet end to start
    (`Kids`), and `Behind` computes that end (`BehindIs`). So the walks of `parse_object` and
    `parse_array` never leave the tokens of their container.
  - A walk over them collects members that are sorted (`ObjectStatesKept`), of values that
    came of tokens behind; these nest at most as deep as there are tokens left
    (`ParsedBehind`), which bounds what an object read from a text may hold.

Each step lemma of these invariants has one step per action. The prover cannot use
induction schemes, so that the well-foundedness of the naturals takes their place: a
least counterexample exists (`LeastElement`), a set with 0 and all successors has every
number (`UpTo`), and a recursive function over 0..N exists (`Recursion`), which says what
the loop of `DnsReply` and `FlattenSeq` compute. Powers of two come from counting subsets
(`TwoExp`).

### Only model-checked

- All liveness: fairness and ENABLED are out of the prover's reach.
- `RoundTrip`: it compares a value with what came of it, all the way down, by a RECURSIVE
  operator, and counts its tokens by another; the prover takes no module with one. What it
  rests on is proved for all values: numbers keep their order and lose less than a
  decimal (`NumbersKeepOrder`), what arrives is a sorted object (`ObjectsAreSorted`), and
  the parser's walks meet their tokens (`ChildrenAreTokens`). That the tokens of a
  serialized value are those of the value is the part only TLC checks.

## 6. What is left out

- The destructor of `Protocol`, which deletes the queue under tasks nobody joined.
- Ticks: the resend timer expires at some time; wrap-around of the tick counter is
  not represented. "f" is a counter below the marker `0xFFFFFFFF`.
- The order of "n" on the wire; the peer's filter is not in this repository.
- `xTaskCreate` failing in `Protocol::start` is modelled (`StartShort`), but the accounting
  properties of `ProtocolLifecycle` hold without it only: nobody looks at its result, and a
  protocol one of whose tasks is missing does not stop as it should.
- White space, malformed characters and `\u` in JSON texts; an empty text, for which
  `parse` reads a token nobody wrote; NUL characters in strings; infinities and numbers
  beyond 64 bits.
- Wording, MIME types, compression, URL decoding and path names of the web server, and
  mounting its file system; what a read returns of a file that is truncated while it is
  open is that of the bytes it has at that moment.
- A callback of `rb::Tcp` that calls `onReceive` or `removeCallback` waits for its own
  lock for ever, as in `UdpHub`; it is left out of `TcpLink`. So is a destructor of a
  socket whose task was never created, which polls an uninitialized handle.
- Two first calls of `scanAsync` at once, which may each create a semaphore.
- `Array::insert` with an index behind the end, which the code does not check.
- `ESP_ERROR_CHECK`, which aborts the program when the driver refuses a call.
- printf but for `%.4f`, the examples.

## 7. Plan

1. Proofs that are left: that the tokens of a serialized value form the tree of the value,
   the missing part of `RoundTrip`.
2. Composition of `WebFiles`, `ReceiveTask` and the possession of `RbProtocol`: the life
   of one connection over the three, with descriptors that are reused and peers that
   leave silently.
3. The order of "n" on the wire, and the destructor of `Protocol`.
