----------------------------- MODULE HttpClient -----------------------------
(***************************************************************************)
(* The asynchronous request() of Client<HTTP> (client_http.hpp) and of     *)
(* Client<HTTPS> (client_https.hpp): requests of any number of threads     *)
(* share a set of persistent connections; each takes an idle one or a new  *)
(* one, resolves and connects if need be, for HTTPS asks a proxy for a     *)
(* tunnel and shakes hands, writes, reads the answer and calls back.  A    *)
(* connection that turns out to be dead is replaced once.  stop() and the  *)
(* destructor come in between.                                             *)
(*                                                                         *)
(* One step is one handler or one critical section of connections_mutex.   *)
(* That an operation is over (event) and that its handler runs are two     *)
(* steps, and so it is for a timer.  Sockets and io_service are external.  *)
(***************************************************************************)
EXTENDS Integers, FiniteSets

CONSTANTS
    Requests,        \* calls of request()
    Conns,           \* Connection objects that may exist at the same time
    NoConn,          \* the connection of a request that has none
    Transports       \* kinds of clients: "http", "https", "tunnel" (HTTPS over a proxy)

ASSUME ConnAssumption == NoConn \notin Conns
ASSUME RequestsAssumption == IsFiniteSet(Requests)
ASSUME TransportsAssumption == Transports \subseteq {"http", "https", "tunnel"}

VARIABLES
    transport,       \* what kind of client it is
    timed,           \* config.timeout is not 0
    stage,           \* what the session of each request waits for
    conn,            \* its connection
    event,           \* how its pending operation has ended, if it has
    sent,            \* how often it was written to a connection
    called,          \* how often its callback was called
    connections,     \* the pool
    inUse,           \* Connection::in_use
    attempt,         \* Connection::attempt_reconnect
    open,            \* the socket is open
    timer,           \* the timer is waiting
    expired,         \* the handler of a timer that has expired is due
    client           \* "alive", "stopping" (handler_runner is off) or "gone"

vars == <<transport, timed, stage, conn, event, sent, called, connections, inUse, attempt, open,
          timer, expired, client>>

\* "asking", "asked": the CONNECT to a proxy is written, its answer read;
\* "content" stands for all reads after that of the header; "lost" for a session
\* that went without a callback.
Stages == {"new", "resolving", "connecting", "asking", "asked", "handshake", "writing", "header", "content", "done", "lost"}

Active(r) == stage[r] \notin {"new", "done", "lost"}

\* Operations on the socket, which cancel() aborts.
OnSocket(r) == Active(r) /\ stage[r] # "resolving"

TypeOK ==
    /\ transport \in Transports
    /\ timed \in BOOLEAN
    /\ stage \in [Requests -> Stages]
    /\ conn \in [Requests -> Conns \cup {NoConn}]
    /\ \A r \in Requests : Active(r) <=> conn[r] # NoConn
    /\ event \in [Requests -> {"none", "ok", "error", "aborted"}]
    /\ sent \in [Requests -> Nat]
    /\ called \in [Requests -> Nat]
    /\ connections \subseteq Conns
    /\ inUse \in [Conns -> BOOLEAN]
    /\ attempt \in [Conns -> BOOLEAN]
    /\ open \in [Conns -> BOOLEAN]
    /\ timer \in [Conns -> BOOLEAN]
    /\ expired \in [Conns -> BOOLEAN]
    /\ client \in {"alive", "stopping", "gone"}
    /\ \A c \in Conns : timer[c] => \E r \in Requests : conn[r] = c

Init ==
    /\ transport \in Transports
    /\ timed \in BOOLEAN
    /\ stage = [r \in Requests |-> "new"]
    /\ conn = [r \in Requests |-> NoConn]
    /\ event = [r \in Requests |-> "none"]
    /\ sent = [r \in Requests |-> 0]
    /\ called = [r \in Requests |-> 0]
    /\ connections = {}
    /\ inUse = [c \in Conns |-> FALSE]
    /\ attempt = [c \in Conns |-> TRUE]
    /\ open = [c \in Conns |-> FALSE]
    /\ timer = [c \in Conns |-> FALSE]
    /\ expired = [c \in Conns |-> FALSE]
    /\ client = "alive"

\* Nothing refers to such a Connection: it does not exist.
Fresh(c) ==
    /\ c \notin connections
    /\ ~timer[c] /\ ~expired[c]
    /\ \A r \in Requests : conn[r] # c

Idle == {c \in connections : ~inUse[c]}

-----------------------------------------------------------------------------
(* request(): get_connection() and connect()                               *)

\* connect(): a socket that is open is written to, another is resolved for, by
\* a Client<HTTPS> without a timer.
Connect(r, c, isOpen) ==
    /\ stage' = [stage EXCEPT ![r] = IF isOpen THEN "writing" ELSE "resolving"]
    /\ event' = [event EXCEPT ![r] = "none"]
    /\ conn' = [conn EXCEPT ![r] = c]
    /\ sent' = [sent EXCEPT ![r] = IF isOpen THEN @ + 1 ELSE @]
    /\ timer' = [d \in Conns |->
          IF d = c THEN timed /\ (isOpen \/ transport = "http") ELSE IF d = conn[r] THEN FALSE ELSE timer[d]]

\* Mutant of TakeIdle: in_use is not set.
TakeIdleUnmarked(r) ==
    /\ client = "alive"
    /\ stage[r] = "new"
    /\ \E c \in Idle :
          /\ Connect(r, c, open[c])
          /\ attempt' = [attempt EXCEPT ![c] = TRUE]
    /\ UNCHANGED <<transport, timed, called, connections, inUse, open, expired, client>>

\* get_connection() finds a connection that no request uses.
TakeIdle(r) ==
    /\ client = "alive"
    /\ stage[r] = "new"
    /\ \E c \in Idle :
          /\ Connect(r, c, open[c])
          /\ attempt' = [attempt EXCEPT ![c] = TRUE]
          /\ inUse' = [inUse EXCEPT ![c] = TRUE]
    /\ UNCHANGED <<transport, timed, called, connections, open, expired, client>>

\* It finds none and creates one.
TakeNew(r) ==
    /\ client = "alive"
    /\ stage[r] = "new"
    /\ Idle = {}
    /\ \E c \in Conns :
          /\ Fresh(c)
          /\ Connect(r, c, FALSE)
          /\ connections' = connections \cup {c}
          /\ attempt' = [attempt EXCEPT ![c] = TRUE]
          /\ inUse' = [inUse EXCEPT ![c] = TRUE]
          /\ open' = [open EXCEPT ![c] = FALSE]
    /\ UNCHANGED <<transport, timed, called, expired, client>>

-----------------------------------------------------------------------------
(* The handlers: each cancels its timer, then asks handler_runner for a    *)
(* lock.                                                                   *)

Handles(r, where, result) ==
    /\ client = "alive"
    /\ stage[r] \in where
    /\ event[r] \in result

\* The next operation of the session, with a timer of its own.
Continue(r, to) ==
    /\ stage' = [stage EXCEPT ![r] = to]
    /\ event' = [event EXCEPT ![r] = "none"]
    /\ timer' = [timer EXCEPT ![conn[r]] = timed]

\* Mutant of Ends: cancel_timeout() is left out.
EndsTimed(r, how) ==
    /\ stage' = [stage EXCEPT ![r] = how]
    /\ event' = [event EXCEPT ![r] = "none"]
    /\ conn' = [conn EXCEPT ![r] = NoConn]
    /\ UNCHANGED timer

\* The session ends; its handler has cancelled the timer.
Ends(r, how) ==
    /\ stage' = [stage EXCEPT ![r] = how]
    /\ event' = [event EXCEPT ![r] = "none"]
    /\ conn' = [conn EXCEPT ![r] = NoConn]
    /\ timer' = [timer EXCEPT ![conn[r]] = FALSE]

\* Mutant of Callback: one idle connection too many is kept.
CallbackKeepsTwo(r, failed) ==
    /\ Ends(r, "done")
    /\ called' = [called EXCEPT ![r] = @ + 1]
    /\ inUse' = [inUse EXCEPT ![conn[r]] = FALSE]
    /\ LET rest == connections \ (IF failed THEN {conn[r]} ELSE {})
           unused == {c \in rest : ~inUse'[c]}
       IN  \E keep \in SUBSET unused :
              /\ Cardinality(keep) = (IF Cardinality(unused) > 2 THEN 2 ELSE Cardinality(unused))
              /\ connections' = {c \in rest : inUse'[c]} \cup keep
    /\ UNCHANGED <<transport, timed, sent, open, expired, client>>

\* session->callback: the connection is given back, or removed if there was an
\* error, and of those not in use one is kept, the first in the set's order.
Callback(r, failed) ==
    /\ Ends(r, "done")
    /\ called' = [called EXCEPT ![r] = @ + 1]
    /\ inUse' = [inUse EXCEPT ![conn[r]] = FALSE]
    /\ LET rest == connections \ (IF failed THEN {conn[r]} ELSE {})
           unused == {c \in rest : ~inUse'[c]}
       IN  \E keep \in SUBSET unused :
              /\ Cardinality(keep) = (IF unused = {} THEN 0 ELSE 1)
              /\ connections' = {c \in rest : inUse'[c]} \cup keep
    /\ UNCHANGED <<transport, timed, sent, open, expired, client>>

\* async_connect, on a socket that it opens.
Resolved(r) ==
    /\ Handles(r, {"resolving"}, {"ok"})
    /\ Continue(r, "connecting")
    /\ open' = [open EXCEPT ![conn[r]] = TRUE]
    /\ UNCHANGED <<transport, timed, conn, sent, called, connections, inUse, attempt, expired, client>>

\* A step of connect() that was successful leads to the next: a tunnel is asked
\* for with CONNECT, then HTTPS shakes hands, then the request is written.
AfterConnect(at) ==
    CASE at = "connecting" /\ transport = "http" -> "writing"
      [] at = "connecting" /\ transport = "https" -> "handshake"
      [] at = "connecting" /\ transport = "tunnel" -> "asking"
      [] at = "asking" -> "asked"
      [] at = "asked" -> "handshake"
      [] at = "handshake" -> "writing"

Connected(r) ==
    /\ Handles(r, {"connecting", "asking", "asked", "handshake"}, {"ok"})
    /\ Continue(r, AfterConnect(stage[r]))
    /\ sent' = [sent EXCEPT ![r] = IF stage'[r] = "writing" THEN @ + 1 ELSE @]
    /\ UNCHANGED <<transport, timed, conn, called, connections, inUse, attempt, open, expired, client>>

\* The proxy's answer is too large, cannot be parsed or is not 200.
TunnelRefused(r) ==
    /\ Handles(r, {"asked"}, {"ok"})
    /\ Callback(r, TRUE)
    /\ UNCHANGED attempt

\* read()
Written(r) ==
    /\ Handles(r, {"writing"}, {"ok"})
    /\ Continue(r, "header")
    /\ UNCHANGED <<transport, timed, conn, sent, called, connections, inUse, attempt, open, expired, client>>

\* The resolver, the connection, the tunnel, the handshake or the write fails.
FailsEarly(r) ==
    /\ Handles(r, Stages \ {"header", "content"}, {"error", "aborted"})
    /\ Callback(r, TRUE)
    /\ UNCHANGED attempt

\* Mutant of ContentFollows: the next read has no timer.
ContentUntimed(r) ==
    /\ Handles(r, {"header", "content"}, {"ok"})
    /\ stage' = [stage EXCEPT ![r] = "content"]
    /\ event' = [event EXCEPT ![r] = "none"]
    /\ timer' = [timer EXCEPT ![conn[r]] = FALSE]
    /\ attempt' = [attempt EXCEPT ![conn[r]] = TRUE]
    /\ UNCHANGED <<transport, timed, conn, sent, called, connections, inUse, open, expired, client>>

\* There is content to read after the header, or after a part of it.
ContentFollows(r) ==
    /\ Handles(r, {"header", "content"}, {"ok"})
    /\ Continue(r, "content")
    /\ attempt' = [attempt EXCEPT ![conn[r]] = TRUE]
    /\ UNCHANGED <<transport, timed, conn, sent, called, connections, inUse, open, expired, client>>

\* The answer is complete, or it cannot be parsed or is too large; only the
\* latter is found out before attempt_reconnect is set.
AnswerEnds(r) ==
    /\ Handles(r, {"header", "content"}, {"ok"})
    /\ \E failed \in BOOLEAN :
          /\ Callback(r, failed)
          /\ \/ attempt' = [attempt EXCEPT ![conn[r]] = TRUE]
             \/ failed /\ UNCHANGED attempt

\* The content ends with the connection (HTTP/1.0), or the read fails.
ContentFails(r) ==
    /\ Handles(r, {"content"}, {"error", "aborted"})
    /\ \E failed \in {TRUE, event[r] = "aborted"} : Callback(r, failed)
    /\ UNCHANGED attempt

\* stoull() of a Content-Length that is no number throws, and the exception leaves io_service::run().
LengthThrows(r) ==
    /\ Handles(r, {"header"}, {"ok"})
    /\ Ends(r, "lost")
    /\ attempt' = [attempt EXCEPT ![conn[r]] = TRUE]
    /\ UNCHANGED <<transport, timed, sent, called, connections, inUse, open, expired, client>>

\* The new Connection may be named as the one it replaces, if no timer still
\* refers to that.
Successor(r, c) == Fresh(c) \/ (c = conn[r] /\ ~expired[c])

Retries(r) == attempt[conn[r]] /\ event[r] # "aborted" /\ conn[r] \in connections

\* Mutant of Reconnect: the new connection may be replaced as well.
ReconnectAgain(r) ==
    /\ Handles(r, {"header"}, {"error", "aborted"})
    /\ Retries(r)
    /\ \E c \in Conns :
          /\ Successor(r, c)
          /\ Connect(r, c, FALSE)
          /\ connections' = (connections \ {conn[r]}) \cup {c}
          /\ attempt' = [attempt EXCEPT ![c] = TRUE]
          /\ inUse' = [inUse EXCEPT ![c] = TRUE]
          /\ open' = [open EXCEPT ![c] = FALSE]
    /\ UNCHANGED <<transport, timed, called, expired, client>>

\* No answer on a connection that may have been dead before: a new one takes
\* its place, and the request is sent again.
Reconnect(r) ==
    /\ Handles(r, {"header"}, {"error", "aborted"})
    /\ Retries(r)
    /\ \E c \in Conns :
          /\ Successor(r, c)
          /\ Connect(r, c, FALSE)
          /\ connections' = (connections \ {conn[r]}) \cup {c}
          /\ attempt' = [attempt EXCEPT ![c] = FALSE]
          /\ inUse' = [inUse EXCEPT ![c] = TRUE]
          /\ open' = [open EXCEPT ![c] = FALSE]
    /\ UNCHANGED <<transport, timed, called, expired, client>>

\* No answer, and no second attempt.
HeaderFails(r) ==
    /\ Handles(r, {"header"}, {"error", "aborted"})
    /\ ~Retries(r)
    /\ Callback(r, TRUE)
    /\ UNCHANGED attempt

\* A handler that gets no lock returns.
Refused(r) ==
    /\ client # "alive"
    /\ Active(r)
    /\ event[r] # "none"
    /\ Ends(r, "lost")
    /\ UNCHANGED <<transport, timed, sent, called, connections, inUse, attempt, open, expired, client>>

-----------------------------------------------------------------------------
(* Timers, the network, stop() and the destructor                          *)

\* socket->cancel() on each of a set of connections.
Cancel(S) ==
    event' = [r \in Requests |->
        IF conn[r] \in S /\ OnSocket(r) /\ event[r] = "none" THEN "aborted" ELSE event[r]]

Expires(c) ==
    /\ timer[c]
    /\ timer' = [timer EXCEPT ![c] = FALSE]
    /\ expired' = [expired EXCEPT ![c] = TRUE]
    /\ UNCHANGED <<transport, timed, stage, conn, event, sent, called, connections, inUse, attempt, open, client>>

\* The handler of an expired timer, cancelled in the meantime or not.
TimedOut(c) ==
    /\ expired[c]
    /\ expired' = [expired EXCEPT ![c] = FALSE]
    /\ Cancel({c})
    /\ UNCHANGED <<transport, timed, stage, conn, sent, called, connections, inUse, attempt, open, timer, client>>

Succeeds(r) ==
    /\ Active(r) /\ event[r] = "none"
    /\ event' = [event EXCEPT ![r] = "ok"]
    /\ UNCHANGED <<transport, timed, stage, conn, sent, called, connections, inUse, attempt, open, timer, expired, client>>

Fails(r) ==
    /\ Active(r) /\ event[r] = "none"
    /\ event' = [event EXCEPT ![r] = "error"]
    /\ UNCHANGED <<transport, timed, stage, conn, sent, called, connections, inUse, attempt, open, timer, expired, client>>

\* Mutant of Stop: the pool is emptied and nothing is cancelled.
StopForgets ==
    /\ client \in {"alive", "stopping"}
    /\ connections' = {}
    /\ client' = IF client = "alive" THEN "alive" ELSE "gone"
    /\ UNCHANGED <<transport, timed, stage, conn, event, sent, called, inUse, attempt, open, timer, expired>>

\* stop(), by itself or as the second half of the destructor.
Stop ==
    /\ client \in {"alive", "stopping"}
    /\ Cancel(connections)
    /\ connections' = {}
    /\ client' = IF client = "alive" THEN "alive" ELSE "gone"
    /\ UNCHANGED <<transport, timed, stage, conn, sent, called, inUse, attempt, open, timer, expired>>

\* ~ClientBase: handler_runner->stop()
Destroy ==
    /\ client = "alive"
    /\ client' = "stopping"
    /\ UNCHANGED <<transport, timed, stage, conn, event, sent, called, connections, inUse, attempt, open, timer, expired>>

-----------------------------------------------------------------------------
Handler(r) ==
    \/ Resolved(r) \/ Connected(r) \/ TunnelRefused(r) \/ Written(r) \/ FailsEarly(r)
    \/ ContentFollows(r) \/ AnswerEnds(r) \/ ContentFails(r) \/ LengthThrows(r)
    \/ Reconnect(r) \/ HeaderFails(r) \/ Refused(r)

Next ==
    \/ \E r \in Requests :
          TakeIdle(r) \/ TakeNew(r) \/ Handler(r) \/ Succeeds(r) \/ Fails(r)
    \/ \E c \in Conns : Expires(c) \/ TimedOut(c)
    \/ Stop
    \/ Destroy

Spec == Init /\ [][Next]_vars

\* The io_service calls the handlers that are due, the clock goes on, the
\* system's resolver answers, an answer's content is finite, the destructor
\* goes on.  The server owes nothing.
FairSpec ==
    /\ Spec
    /\ WF_vars(client = "stopping" /\ Stop)
    /\ \A r \in Requests :
          /\ WF_vars(Handler(r))
          /\ SF_vars(AnswerEnds(r))
          /\ WF_vars(stage[r] = "resolving" /\ (Succeeds(r) \/ Fails(r)))
    /\ \A c \in Conns : WF_vars(Expires(c)) /\ WF_vars(TimedOut(c))

-----------------------------------------------------------------------------
(* Properties                                                              *)

\* Two requests never share a connection: the answers on it would be mixed up.
Exclusive ==
    \A r \in Requests, q \in Requests :
        Active(r) /\ Active(q) /\ r # q => conn[r] # conn[q]

\* "keep one open for HTTP persistent connection": the pool never holds two idle
\* connections, however requests, failures and replacements interleave.  And a
\* connection of it that counts as in use is in use, but for one with each
\* session that an exception has ended: no other path leaks one.
PoolKept ==
    /\ Cardinality(Idle) <= 1
    /\ client = "alive" =>
          LET leaked == {c \in connections : inUse[c] /\ \A r \in Requests : conn[r] # c}
          IN  Cardinality(leaked) <= Cardinality({r \in Requests : stage[r] = "lost"})

\* Only the first connection of a request is replaced: it reaches the server at
\* most twice, and however it ends its callback is called at most once.
AtMostOneRetry == \A r \in Requests : sent[r] <= 2 /\ called[r] <= 1

\* With a timeout every session ends while the client lives, even if the server
\* never answers and whatever old timers do: the callback is called, unless the
\* answer's Content-Length is no number.
CallsBack ==
    \A r \in Requests :
        timed /\ Active(r) ~> stage[r] \in {"done", "lost"} \/ client # "alive"

\* After the destructor every session goes, with or without a timeout and with a
\* server that never answers, if its connection was still in the pool: one that
\* stop() took out of it before cannot be cancelled any more.
SessionsGo ==
    (client = "stopping" /\ \A r \in Requests : Active(r) => conn[r] \in connections)
        ~> (\A r \in Requests : ~Active(r))
=============================================================================
