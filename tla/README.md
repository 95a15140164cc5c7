# Verification of DanmakuChicken

DanmakuChicken is a Windows program that lets danmaku (short comments) scroll
over the screen. Other programs send it danmaku over a small HTTP API; the
repository contains that program (`src/DanmakuChicken`), the HTTP library it is
built on (`src/Simple-Web-Server`, a header-only C++ library over asio) and
Python scripts that fetch danmaku elsewhere and post them (`src/python`).

This directory holds TLA+ modules that model the parts of it where several
threads, handlers, coroutines or connections meet, and the parts that take
messages apart; TLC configurations that check them on small instances; and
proofs, checked by TLAPS, for instances of every size. `PROJECT.json` lists the
components, the runs, which definition models which lines, one mutant per
checked property (a plausible bug under which the property fails), the hazards
of the code and the theorems.

    tlc -config MCScopeRunner.cfg MCScopeRunner     # one run; the others alike
    tlapm ScopeRunnerProofs.tla                     # the proofs of a module

## 1. The system

| component | code | state it keeps | operations | module |
|---|---|---|---|---|
| `DanmakuManager` | `Danmaku.h`, `Danmaku.cpp` | the list `m_danmakuSet`, its mutex, box size, speed, size, opacity, the flag and thread of its update loop | `AddDanmaku`, `UpdateDanmaku` (60 times a second), `RenderDanmakuSet`, setters | `DanmakuManager` |
| the application | `DanmakuChicken.cpp`, `DanmakuChickenDlg.*`, `OverlayDlg.*` | the dialogs, the render thread and its flag, the server and its thread | start-up, `OnHScroll`, the test button, `HandleAddDanmaku`, `OnDestroy`, destructors | `AppLifecycle` (the threads), `DanmakuManager` (what they do to the set), `DanmakuApi` (the answers) |
| `ScopeRunner` | `utility.hpp:311-355` | an atomic `long count` | `continue_lock()`, `~SharedLock()`, `stop()` | `ScopeRunner`, `ScopeGate` |
| HTTP and HTTPS server | `server_http.hpp`, `server_https.hpp` | acceptor, io_service, the set of raw `Connection` pointers and its mutex, per connection a socket, a timer and a session | `start()`, `accept()`, handshake, `read()`, `find_resource()`, `write()`, `Response::send()`, `stop()`, destructor | `HttpServer` |
| HTTP and HTTPS client, asynchronous | `client_http.hpp`, `client_https.hpp` | a pool of connections with `in_use` and `attempt_reconnect`, per connection a socket and a timer | `request()` with a callback, `get_connection()`, `connect()`, CONNECT to a proxy, handshake, `write()`, `read()`, `stop()`, destructor | `HttpClient` |
| HTTP client, synchronous | `client_http.hpp:160-189` | `concurrent_synchronous_requests`, the io_service shared by the callers | `request()` without a callback | `SyncRequest` |
| message syntax | `utility.hpp:39-310`, the writers in client and server | none | percent coding, query strings, header fields and their attributes, request and status lines | `HttpSyntax`, `HttpMessages` |
| message framing | `server_http.hpp:436-606`, `client_http.hpp:462-635` | the stream buffers between two reads | Content-Length, chunked and connection-delimited bodies | `HttpFraming` |
| Python API | `python/danmaku_chicken.py` | none | `add_danmaku` | `DanmakuApi` |
| source: polling a URL | `python/from_url.py` | the last id | ask for the last id, poll, post | `UrlPoller` |
| source: Bilibili live room | `python/from_bilibili_live.py` | websocket, the future of both coroutines | `start()`, `stop()`, message loop, heartbeat loop | `BLiveClient` |
| source: QQ groups | `python/from_coolq.py` | UDP server, keep-alive thread | `start()`, handlers, `send()`, `__del__()` | `CoolQ` |
| status codes, Base64 and hashes, drawing, examples | `status_code.hpp`, `crypto.hpp`, `OverlayDlg.cpp`, `*_examples.cpp`, `tests/` | none that matters | | not modelled (section 7) |

How they interact:

* The **window's thread** constructs everything, calls `AddDanmaku` for the test
  button, writes `m_danmakuSpeed` for the slider, and on `OnDestroy` stops and
  joins the others in an order that the destructors of the members continue.
* The **update thread** belongs to the manager, the **render thread** to
  `COverlayDlg`; both loop over "read the flag, work, sleep". They share
  `m_danmakuSet` under `m_danmakuSetLock` with whoever adds.
* The **server thread** runs `Server::start()` and with it all handlers of the
  HTTP server; the handler of `POST /danmaku` calls `AddDanmaku`.
* Inside the library every handler that may outlive its `Server` or `Client`
  first asks `handler_runner`, a `ScopeRunner`, for a lock; the destructors call
  `handler_runner->stop()` first.
* A handler and the end of the operation it belongs to are two events: between
  them a timer may expire, `stop()` may be called, the object may be destroyed.
* The **scripts** are programs of their own that share nothing with each other;
  each posts what it gets with `add_danmaku`, one blocking request at a time.

What is hard in it: lock-free counting against `stop()`; a search that gives its
lock up between scan and insertion; erasing from the list being walked; shutting
down four threads in an order that respects what each uses; completion handlers
and timer handlers that are already due when what they belong to is cancelled; a
set of raw pointers walked by one thread and shrunk by others; a pool of
connections shared by racing requests with one automatic retry; threads taking
turns to run, leave and reset one io_service, with exceptions that skip a step;
bytes that come in pieces and reads that take more than they asked for; two
coroutines that share a websocket over reconnections and cancellation; a server
that is shut down from another thread before it runs. `PROJECT.json` lists these
hazards by line with the properties that cover them.

## 2. The modules

Every component has a module with its state, one action per handler, critical
section, coroutine step or atomic operation, and its properties; an `MC` module
gives the constants small values; theorems and proofs are in a `Proofs` module.
An operator called a mutant or a likely slip is used by no specification: it is
the bug that shows that a property can fail.

`ScopeRunner` is the code's compare-exchange loops, one action per atomic
operation: `Load`, then `Acquire`, `RetryAcquire` (a failed or spuriously failed
exchange, which reloads `expected`) or `Refuse`; `Release`; `CallStop`,
`StopSucceeds`, `StopFindsStopped` (a failed attempt is the loop's stuttering).
`ScopeGate` says what it promises: a gate that scopes enter and leave and that
closes for good when it is empty. `ScopeRunner` implements it under a refinement
mapping (`Gate`, property `ImplementsGate`).

`DanmakuManager` has the list, the lock and one action per critical section of
`AddDanmaku` (a scan, clear or blocked; the `push_back`), the passes of
`UpdateDanmaku` and `RenderDanmakuSet` step by step under the lock, and the
slider. A danmaku is a rectangle; text, colour and opacity are not there. That
the scan moves the candidate below the *first* danmaku in its way and restarts,
and gives up at the first row that does not fit, is the code's.

`AppLifecycle` has a program counter for each of the four threads, the objects
that exist, both stop flags and the acceptor. It follows `InitInstance`,
`OnInitDialog`, `OnDestroy`, the members' destructors in reverse order of
declaration, and `Server::start()` call by call, with the calls that throw on a
closed acceptor or a port that is taken.

`SyncRequest` follows one thread's synchronous `request()`: post, count, `run()`,
un-count, `reset()` if it was the last, return; `run()` is modelled by what asio
promises (it returns at once when the io_service is stopped, and stops it when
the work is gone). A handler may throw (`Throws`), of whichever thread's request:
the exception leaves the `run()` it is in and skips the un-counting.

`HttpServer` has for each `Connection` what it waits for, its socket, how the
pending operation ended, its timer and whether a timer's handler is due.
`secure` chooses between `Server<HTTP>` and `Server<HTTPS>`, which puts the
handshake, with a timer of its own, between `accept()` and `read()`. `Accepted`
is one step: the handler holds the lock of `handler_runner` from its start to its
end, and nothing between its `accept()` and its `read()` can see the difference
but `stop()`, which only finds the socket in either state. `stop()` is three
steps, the destructor a fourth before them. The io_service is the user's or the
server's own, chosen in `Start` (`internal`).

`HttpClient` has for each request what its session waits for and its connection,
for each connection the two flags, the socket and the timers, and the pool.
`transport` is HTTP, HTTPS, or HTTPS through a proxy, which is first asked with a
CONNECT. `Callback` is the session's callback with its critical section: which
idle connection is kept depends on the set's order, hence `\E keep`.
`LengthThrows` is the `stoull()` that leaves the handler by an exception. `timed`
is whether `config.timeout` is set.

`HttpSyntax` is a library of operators on texts, which are sequences of character
codes: `Encode` and `Decode`, `QueryCreate` and `QueryParse`, `HeaderParse`,
`AttributesParse`, `RequestParse`, `ResponseParse`, and what client and server
write. A parser cuts its text at the places of a character (`Place`, `LastPlace`);
where the code goes on behind what it has read, so does a recursive function
(`Pieces`, `Decode`, `AttributesParse`), which the prover handles where it would
not a `RECURSIVE` operator. `HttpFraming` reads a message byte by byte: `Arrives`
brings any number of the bytes that an asio read of that kind may take (a read up
to a delimiter takes more than the delimiter), `Eof` and `TooLarge` end the
reading, `HeaderRead`, `ContentRead`, `SizeRead` and `ChunkRead` are the handlers.
The peer, external, chooses what it sends, how much of it, whether something
follows and whether it then closes. `HttpMessages` puts both together: `sample` is
a header that one end writes and the other reads, and `SamplesAssumption` says
what may be in it: the characters that no writer encodes and that delimit what is
written (a line feed, a colon in a name of the header, `&` in that of a query,
...) are the user's affair.

`DanmakuChannel` says what a source of danmaku promises the program: it hands each
danmaku over at most once, and none that was not there. `DanmakuApi` is the call
with its answers: taken (200), refused (400), or an exception that looks alike
whether the request or only its answer was lost. `UrlPoller`, `BLiveClient` and
`CoolQ` are the three scripts over it. `Sources` runs one of them (`script`,
chosen in `Init`) and implements the channel whichever it is (`ImplementsChannel`).
In `BLiveClient` a step is what a coroutine does between two `await`s; in `CoolQ`
what a thread does between two calls that another thread may see.

No module composes the server, the client and the application in one state
space; they meet at narrow interfaces: `AppLifecycle` has `HttpServer`'s
`start()` and `stop()` as the steps that matter to its threads, `HttpServer` and
`HttpClient` have `handler_runner` as a flag, which `ScopeRunner` justifies
(`StopExcludes` says that once `stop()` has returned no handler is inside, and
`ImplementsGate` that none gets in), a read of theirs is one operation whose bytes
are the subject of `HttpFraming`, and `SyncRequest` has a whole asynchronous
request as one piece of work.

## 3. The runs

| run | instance | what it shows |
|---|---|---|
| `scope_runner` | 3 handlers, 2 `stop()`; 4,790 states | the counter equals the locks out or is -1 (`CountMatches`); after `stop()` nobody is inside (`StopExcludes`); the gate is implemented; nobody spins for ever (`NobodySpins`) |
| `danmaku` | 2 adders, 3 danmaku of sizes 2x1, 1x2, 0x0, screen 3x2, 2 speeds, 1 slider move; 124,821 states | a pass leaves nothing off the screen whatever it erased (`OnScreen`); a burst piles up boundedly (`StackBounded`); each search ends (`AddReturns`); the screen empties (`Drains`) |
| `danmaku_steady` | 1 adder, 4 danmaku, 2 slider moves between passes; 602,681 states | no danmaku that fits covers another (`NoCover`) |
| `danmaku_two_adders` | 2 adders | `NoCover` is violated: both scan before either pushes |
| `app` | the whole program, closed at any moment, port free or taken; 655 states | no thread uses an object that is gone or outlives its `std::thread` (`NoUseAfterDestroy`); closed while it serves, the program ends (`ShutdownCompletes`) |
| `app_end` | the same, port free | `EndsCleanly` is violated: closed before the acceptor is set up, the program hangs or is terminated |
| `sync_request` | 3 threads, 2 calls each, 1 exception; 111,085 states | who gets into `run()` leaves with its answer (`RunGivesAnswer`); nobody resets while another runs (`ResetAlone`); requests return (`RequestReturns`) |
| `http_server` | 2 connection objects, either io_service, with or without TLS; 191,258 states | the raw pointers are to objects that exist and miss none (`RegistryExact`); one accept is pending (`AcceptsOne`); timers end handshakes, silent reads and kept Responses (`Freed`); a destroyed server drains (`DestroyedDrains`) |
| `http_client` | 3 requests, 2 connections, symmetric, HTTP or HTTPS; 1,487,788 states | connections are not shared (`Exclusive`); one idle one is kept and no path but an exception leaks one (`PoolKept`); two sends and one callback at most (`AtMostOneRetry`) |
| `http_client_live` | 2 requests, 1 connection, also through a proxy; 41,124 states | with a timeout every session ends (`CallsBack`); the destructor lets sessions go (`SessionsGo`) |
| `sources` | each script, 3 danmaku, queues of 2; 68,974 states | the channel is implemented (`ImplementsChannel`); what the URL publishes is tried (`UrlTriesAll`); heartbeats go on over reconnections and `stop()` ends both coroutines (`LiveGoesOnUntilStopped`); a forgotten bot is heard of again and handles what arrives (`BotListens`); its deletion ends (`BotCloses`) |
| `messages` | contents of up to 3 bytes in up to 3 chunks, limits 2, 6 to 9 and 40, a few hundred headers; 106,083 states | a content is delivered as it was sent or refused for a reason (`ContentAsSent`); a message that is there is not waited for (`MessageEnds`); what one side writes the other reads (`RequestRoundTrip`, `ResponseRoundTrip`) |

Each module has one type invariant (`TypeOK`). It says something where an index or
a counter could leave its range: the iterator of a pass, the counter of
`SyncRequest`, a buffer beyond its limit, a length below zero.

**Bounds.** Bounded by guards are the calls of `AddDanmaku` (`MaxAdded`), moves of
the slider (`MaxChanges`), calls and exceptions of `SyncRequest` (`MaxCalls`,
`MaxThrown`), what waits in a script's inbox (`MaxQueue`), danmaku (`Ids`) and the
bytes of a message (`MaxSent`, the longest there is); everything else is finite
by itself.

* Three danmaku are enough for one that is erased, its successor and one that is
  placed against both; a 3x2 screen for a first row, a second and none.
* Three scopes: one inside, one racing, one stale. Three threads of
  `SyncRequest`: one in `run()`, one posting, one resetting; one exception leaves
  the counter wrong for all that follow.
* Three requests over two connections: one gives a connection back while another
  uses the second and a third waits.
* Two `Connection` objects of the server are a peer's and the one waited for; two
  peers only meet in the set. That more do not matter is proved (section 5).
* Three danmaku of a source: one before it starts, one in a batch, one that comes
  while the batch is posted. Two messages in a queue can be reordered or dropped.
* The contents hold CR and LF in every place; the limits are one below, at and
  above the lengths of header, line and content, so that every buffer is full
  exactly when a part is complete, just before and just after.

`CHECK_DEADLOCK FALSE` is used where the system stops when it is done: a program
that has exited, requests that have returned, a drained server or client, a
script that is off, a message that has been read. `ScopeRunner` and
`DanmakuManager` never stop.

## 4. Fairness

* `ScopeRunner`: the threads' steps are weakly fair; a compare-exchange loop is
  fair only for its own thread's progress. That `stop()` returns is conditional
  on handlers ceasing to arrive: the code guarantees nothing else.
* `DanmakuManager`: passes and calls go on (weak fairness of their steps). The
  lock is not fair, but the update and the render thread sleep between two
  passes without it, so a waiting thread finds it free again and again and, on a
  mutex of the system, gets it: strong fairness of the adding threads' steps and
  of `UpdateBegin`. Nobody has to add or to drag.
* `AppLifecycle`: each thread is scheduled; nobody has to press or close.
* `SyncRequest`: each thread is scheduled, and each posted request is answered
  (or times out) while some thread runs the io_service. Nothing has to throw.
* `HttpServer`: due handlers are called, the clock goes on, `stop()` finishes once
  begun. Peers and the user's functions owe nothing; a handshake ends by its
  timer if by nothing else. An io_service that is stopped calls no handler, and
  the liveness properties say so.
* `HttpClient`: the same, and the system's resolver answers in the end, and the
  content of an answer is finite (strong fairness of `AnswerEnds`: each read has
  its own timeout, so a server that sends an endless content keeps a request
  for ever). The server and the proxy owe nothing.
* `Sources`: the event loop resumes a coroutine that can go on, threads are
  scheduled, a blocking call returns or raises. Strong fairness only of
  `Hello(TRUE)`: of the datagrams that are sent again and again not all are lost.
  Nobody has to publish, to connect or to stop, and connections may be lost.
* `HttpMessages`: what has been sent arrives and handlers are called (`WF_vars(Next)`);
  the peer need not send anything nor close.

## 5. The proofs

Eight modules of proofs. In each the argument is an inductive invariant `IInv`,
the type invariant strengthened as said below, one step per action.

`ScopeRunnerProofs`, for any finite set of scopes and any set of stoppers: the
strengthening is `CountMatches` (count is the cardinality of the holders, or -1
and there are none) and "a stop that has returned has closed the counter".
`CountMatches` alone is not enough for `StopExcludes`, since it does not tie a
finished `stop()` to the value -1. From it: `TypeCorrect`, `CountCorrect`,
`StopCorrect`, and `GateImplemented`, that every step of the counter is a step of
the abstract gate or leaves it alone.

`DanmakuManagerProofs`, for all screens, sizes, speeds, numbers of threads and
calls:

* `TypeCorrect`, with the iterator's range, which needs `RemoveAt` on sequences.
* `OnScreenCorrect`: strengthened to every step of a pass, where what is behind
  the iterator has been moved and tested and what is ahead has not
  (`EdgesInv`), with candidates at the right edge (`CandAtEdge`).
* `FrameCorrect`: the drawn prefix equals the list while the lock is "render"
  (`FrameConsistent`, a fact that is proved and not run).
* `StackCorrect`: the bound also holds of the candidates, and one that goes on
  scanning is in the top row or fits, so that whatever it collides with ends
  within the bound (`StackInv`).
* `NoCoverCorrect`, for one adding thread and `SteadySpec`. The invariant
  `CoverInv` compares danmaku at their *settled* positions, where each will
  be when the current pass is over, so that it holds in the middle of a pass,
  when half the list has moved; and it says that a candidate past its scan is
  free of everything in the list (`CandApart`) as one adder's list only shrinks
  or moves away from the right edge before the push.

`AppLifecycleProofs`: how far the window's thread is says which objects exist and
which threads have begun (`Lifetimes`), and the joins it has passed say which are
over (`Joined`). `NoUseAfterDestroy` speaks of the threads alone and is not
inductive. The constants are two switches, so TLC has checked all of their
values; the proof shows what the order of construction, joins and destructors
has to do with it (`LifetimesCorrect`).

`SyncRequestProofs`, for any finite set of threads, any number of calls and of
exceptions: the counter is the number of threads inside and of exceptions that
skipped the decrement (`Counted`), hence 0 only if nobody is inside
(`ResetCorrect`); a thread that waits has posted its request, under a number of
its own (`Posted`), hence `AnswerCorrect`.

`HttpServerProofs`, for any set of `Connection` objects: `Phases` (no connection
before `start()`, no lock after the destructor has begun) and `AwaitsOne`, that a
running server's acceptor is open and the one connection that is waited for has
not been aborted, so that the path of the accept handler that ends the loop is
not taken. From it `RegistryCorrect` and `AcceptsCorrect`.

`HttpClientProofs`, for any finite set of requests and any set of connections: a
session that has not begun or is over has nothing pending (`Quiet`); a connection
of the pool that a request has is marked (`Marked`), which is what `Exclusive`
rests on; how often a request has been written goes with its stage and the flag
of its connection (`Attempts`); one idle connection at most (`OneIdle`), and no
more connections leaked than sessions lost (`LeakedFew`). From it
`ExclusiveCorrect`, `AttemptsCorrect` and `PoolCorrect`.

`SourcesProofs`, for any number of danmaku and queues of any length:
`ChannelImplemented`, that initial states and steps of each script map to those of
the channel or to stuttering. What makes it so is that whatever waits in a queue
has been offered, has not been handed over and is there once (`Waiting`), and, for
the site that is polled, that nothing above the last id has been handed over
(`Numbered`), which is why records may come in any order.

`TypeCorrect` of `Sources` is that of the three scripts. It rests on the invariant
above (what waits in a queue is a sequence, what has been offered is the numbers up
to some) and on one fact more, that a room that is not watched has no websocket
(`TypeInv`).

`HttpMessagesProofs` has two parts. The first is about the bytes of a content, of
any length, in any number of chunks of up to nine bytes, for any limits of the
buffers and any cutting into pieces:

* `ContentCorrect`. The invariant says that what the reader is done with, the
  buffer and the wire are, one behind the other, the bytes of the message
  (`StreamedFrom`). For a content that is not chunked (`Reading`) the first of them
  is the header, and `need` is what the content lacks. For a chunked one
  (`ChunkReading`) the reader has `k` chunks behind it and stands before the size or
  inside of the next, so that what it has put aside is the first `k` chunks joined.
  `ContentAsSent` itself says nothing of a reader that has not finished. The lemmas
  show where a delimiter ends (`HeaderDelimited`, `SizeDelimited`: behind the header
  or the size and nowhere before) and where a chunk lies in the bytes of the message.
* `TypeCorrect`. That what has not come is an end of what was sent (`Coming`) and
  the buffers are within the limit (`Bounded`) is inductive together with the first.

The second is about what is written before the content, for texts of any length:

* `Decode` of `Encode` is the text itself, for any text without `%`, which the client
  does not encode (`Decode(Encode(v)) = v`, from how `Decode` goes on behind each
  code: `DecodeBehind`).
* The pieces of lines that are joined by a character that is in none of them are
  these lines (`PiecesJoined`), hence `QueryParse` of `QueryCreate` are the fields,
  and `HeaderParse` of the lines of a header its fields.
* A part of the first line ends at the first blank behind it (`Part`), hence method,
  path, query and version, or version and status.
* A value between names, quotes and semicolons is found again whether or not
  anything follows it (`NameFound`, `ValueReads`), hence the attributes.
* What a header says of the end of the content stays so when `Host` and a length
  are added (`EndsAre`), by what names are equal without their case.

From these `RequestReadsBack` and `ResponseReadsBack`, for each header that
`SamplesAssumption` allows, and `RequestCorrect` and `ResponseCorrect`, as the header
that is looked at stays the same.

These facts are about texts of any length and hence need inductions. The induction
theorems of the library have an operator as parameter, which the prover cannot
instantiate; that the numbers are well-founded (`NatLessThanWellFounded`, `WFMin`) has
a set in its place. From it follow `Least` and `SetInduction`, and `Down` from a
sequence's last place to its first, and that a function that is defined by its
value further on exists and is unique (`WalkExists`, `WalkShift`): it is what a
recursive function is to the prover.

The constants' assumptions used are those named in the modules: sizes and the
screen are naturals and speeds positive; at most one adder for `NoCoverCorrect`;
scopes, threads, requests and danmaku are finite sets, danmaku numbered from 1; a
queue's bound is a natural; a content is a sequence of chunks of one to nine
bytes, as a size has one digit, and there is a largest limit; what a user may give
a writer is `SamplesAssumption`. TLC evaluates them in the runs.

Every invariant, action property and refinement of the runs is the subject of a
theorem, `NoCover` for one adding thread as it is false of two. Model-checked only
is liveness, since fairness and `ENABLED` are outside what the prover handles.

## 6. Where the code departs from what it says, and other facts

Shown by a violation run, and listed as findings in `PROJECT.json`:

* Two adding threads may cover one another's danmaku (`danmaku_two_adders`).
* Closing the window before the server is up hangs or terminates the program
  (`app_end`).

Met while modelling, and behind a condition of a property or a choice of inputs
instead of in a run of their own:

Application

* The speed slider writes `m_danmakuSpeed` without the lock while a pass reads it
  once per danmaku (`Danmaku.cpp:101`): those moved before differ from those moved
  after, and two may overlap. `NoCover` therefore needs `SteadySpec`.
* A burst that needs more rows than there are puts danmaku below the bottom of
  the screen (`Danmaku.cpp:89`), where they are accepted with status 200, cross
  the width and are never seen. `StackBounded` says how far below.

Server

* A connection whose accept handler runs after `stop()` has gone through the set
  is opened, registered too late and served (`server_http.hpp:714`).
* An accept handler that is due at `stop()` restarts the loop on a closed
  acceptor, whose error is not `operation_aborted` (`server_http.hpp:703`); on the
  user's io_service, which is not stopped, it then goes round without end.

Asynchronous client

* `stop()` empties the pool, but `cancel()` does nothing to a request that is
  being resolved or whose handler is due; it is sent afterwards, and no later
  `stop()` finds its connection. Hence the premise of `SessionsGo`.
* A Content-Length that is no number makes the client's handler throw: no
  callback, and the connection stays in the pool as in use (`client_http.hpp:484`;
  the server catches the same). `PoolKept` counts these.
* A timer whose handler is due when it is cancelled cancels whatever the
  connection does next, perhaps another request. `CallsBack` shows that it calls
  back all the same.

Synchronous client

* `run()` between the end of the last work and `reset()` is refused: that thread's
  `request()` returns without having been executed, with a callback left behind
  that refers to its frame. `tests/io_test.cpp:313-315` expects an answer for each
  thread. `RunGivesAnswer` speaks of those that got in.
* After an exception the counter never comes back to 0 (`client_http.hpp:180`), the
  io_service is never reset, and every later request is refused in that way.

Messages

* Bytes of a next message that were read with this one are lost, or get into the
  content: behind it if its length is known, before it if it is chunked, where
  they may push its end out of a full buffer (`server_http.hpp:522`, `:664`).
  `ContentAsSent` allows for just that.
* Whether a message near the limit is refused with 413 depends on how its bytes
  were cut, since what was read along counts; one of exactly the limit always is.
* The trailer of a chunked message is not read. A header line without a colon ends
  the header, and what follows is taken for content.
* `Percent::encode` leaves "%" alone and encodes digits (its range runs from "/" to
  ";"); `QueryString::create` does not encode names, so that an "&" in one splits it;
  the last "=" of a field ends its name and the last "?" of a target begins the
  query. Hence the paths, names and values of `MCMessages`.
* Attributes: "%" and "+" are decoded in quoted values too, a ";" in quotes ends
  the value, an empty value that is not quoted takes the next ";" in, and one at
  the end is lost.
* Only the server's writer compares "chunked" without its case. The client takes
  "Session: close", not "Connection: close", for a body that ends with the
  connection, so that a response of `close_connection_after_response` without a
  length is delivered empty.

Scripts

* `from_url.py:29`: a danmaku whose post fails is passed over for good. The channel
  promises no more (`Try` may show it not at all).
* `from_bilibili_live.py:132`: when `send()` finds the connection closed and
  `_websocket` is still set, the heartbeat loop goes round without awaiting, and
  the message loop, which would reconnect, never runs: the "等待重连" (wait for
  the reconnection) of `:131` awaits nothing. A packet whose length is 0 does the same to the message loop (`:160`).
  `Blocked` in `KeepsAlive` stands for both.
* `from_bilibili_live.py:100`: only `ConnectionClosed` leads to a reconnection; a
  connect that fails with `OSError` ends both coroutines and the program.
* `from_coolq.py:207`: a `sendto()` that fails ends the keep-alive thread for good,
  so that a bot that CoolQ then forgets hears nothing any more. `BotListens`
  exempts it.
* `from_coolq.py:179`: `shutdown()` waits for ever if `serve_forever()` was never
  called, which is so if `start()` was not or `online` is False. And as long as
  the keep-alive thread lives, its bound method keeps the bot alive, so that
  `__del__()` is not reached by dropping the last reference.
* `danmaku_chicken.py` sets no timeout; that `add_danmaku` comes back all the same is
  due to the server's timers (`Freed`).

Simplifications: the stop flags of the loops are plain `BOOL`s, but each loop
calls functions the compiler cannot see through, so that a store is seen in the
end. The connect of a resolved range of endpoints is one operation, as is the
whole of a content that several reads bring (to `HttpClient` and `HttpServer`).
The server's timeouts are taken as nonzero, its default. The client's
`timeout_connect` is taken to be set when `timeout` is, so that one switch
(`timed`) stands for both. A `Connection` object of the client that is replaced
may be reused under the same name if no timer refers to it (`Successor`). A header
in `HttpFraming` is one byte and its end; a multimap is the sequence of its fields;
sizes of chunks have one digit.

## 7. Not modelled, and what comes next

Not modelled: status codes (a table that its test compares as a whole), Base64 and
hashes (wrappers of OpenSSL that the application does not use), certificates and
the TLS library, drawing and dialogs (calls of GDI+ and MFC without state of their
own), the JSON of a danmaku and of the packets of the live room, examples and
tests (some of whose cases are assumptions of `MCMessages`). Of modelled
components: `on_upgrade` and a second `start()` of the server, the setters of size
and opacity, a second `start()` of the live client after an exception, the sending
of messages by the bot, frames that are no group messages (they are `Other`).

What would add most:

1. `on_upgrade` in `HttpServer`: the socket goes to the user while the timer of
   the last read may still be due, whose handler then dereferences null.
2. A pool that promises exclusive connections and one callback per request, as an
   abstract specification for `HttpClient` to implement.
3. Sizes of chunks with more than one digit in `HttpFraming`, whose round trip is
   then one of `HttpSyntax`.
