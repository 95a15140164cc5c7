----------------------------- MODULE HttpServer -----------------------------
(***************************************************************************)
(* The connections of SimpleWeb::Server<HTTP> (server_http.hpp) and of     *)
(* Server<HTTPS> (server_https.hpp): accepting them, a handshake if they   *)
(* are secure, reading requests with a timeout, answering, reading the     *)
(* next one, and stop() or the destructor on another thread in between.    *)
(*                                                                         *)
(* Every connection has at most one asynchronous operation pending.  That  *)
(* the operation is over (event) and that its completion handler runs are  *)
(* two steps: whatever happens in between the handler finds out too late.  *)
(* The same holds for a timer.  One step is one handler, one of the three  *)
(* parts of stop(), or something the peer, the clock or the user's code    *)
(* does.  The sockets and the io_service are external.                     *)
(***************************************************************************)
EXTENDS Integers, FiniteSets

CONSTANTS
    Conns            \* Connection objects that may exist at the same time

VARIABLES
    secure,          \* the server is a Server<HTTPS>
    internal,        \* internal_io_service: start() has made the io_service
    stage,           \* what each Connection waits for
    socket,          \* its socket
    event,           \* how its pending operation has ended, if it has
    timer,           \* its timer is waiting
    expired,         \* the handler of a timer that has expired is due
    answer,          \* the answer to the request at hand
    connections,     \* the set stop() goes through
    acceptor,        \* the acceptor is open
    server,          \* where start(), stop() and the destructor are
    handlersOff,     \* handler_runner->stop() has returned
    ioStopped        \* the io_service is stopped

vars == <<secure, internal, stage, socket, event, timer, expired, answer, connections, acceptor,
          server, handlersOff, ioStopped>>

\* "free": no such object; "accept": async_accept; "handshake": that of TLS;
\* "header", "content": reading a request; "handling": the user's code has the
\* Response; "writing": sending it; "dropped": nothing refers to the Connection
\* but handlers of its timers.
Stages == {"free", "accept", "handshake", "header", "content", "handling", "writing", "dropped"}

Live == {c \in Conns : stage[c] # "free"}

\* The operations the kernel works at for a connection.
Pending(c) == stage[c] \in {"handshake", "header", "content", "writing"}

TypeOK ==
    /\ secure \in BOOLEAN
    /\ internal \in BOOLEAN
    /\ stage \in [Conns -> Stages]
    /\ socket \in [Conns -> {"none", "open", "closed"}]
    /\ event \in [Conns -> {"none", "ok", "error", "aborted"}]
    /\ timer \in [Conns -> BOOLEAN]
    /\ expired \in [Conns -> BOOLEAN]
    /\ answer \in [Conns -> {"none", "sent", "empty", "last"}]
    /\ connections \subseteq Conns
    /\ acceptor \in BOOLEAN
    /\ server \in {"new", "running", "destroying", "acceptor_closed", "connections_closed", "stopped"}
    /\ handlersOff \in BOOLEAN
    /\ ioStopped \in BOOLEAN
    /\ \A c \in Conns : event[c] # "none" => Pending(c) \/ stage[c] = "accept"
    /\ \A c \in Conns : timer[c] => Pending(c) \/ stage[c] = "handling"

Init ==
    /\ secure \in BOOLEAN
    /\ internal = FALSE
    /\ stage = [c \in Conns |-> "free"]
    /\ socket = [c \in Conns |-> "none"]
    /\ event = [c \in Conns |-> "none"]
    /\ timer = [c \in Conns |-> FALSE]
    /\ expired = [c \in Conns |-> FALSE]
    /\ answer = [c \in Conns |-> "none"]
    /\ connections = {}
    /\ acceptor = FALSE
    /\ server = "new"
    /\ handlersOff = FALSE
    /\ ioStopped = FALSE

control == <<secure, internal, acceptor, server, handlersOff, ioStopped>>

IoRuns == server # "new" /\ ~ioStopped

-----------------------------------------------------------------------------
(* Connection::set_timeout, cancel_timeout and close, Session, and the     *)
(* start of an operation, as they appear in the handlers below.            *)

\* A new operation with its timer.  On a closed socket it fails at once.
Begin(c, to) ==
    /\ stage' = [stage EXCEPT ![c] = to]
    /\ event' = [event EXCEPT ![c] = IF socket[c] = "open" THEN "none" ELSE "error"]
    /\ timer' = [timer EXCEPT ![c] = TRUE]
    /\ UNCHANGED <<socket, expired>>

\* Mutant of Drop: cancel_timeout is left out.
DropWithTimer(c) ==
    /\ stage' = [stage EXCEPT ![c] = "dropped"]
    /\ event' = [event EXCEPT ![c] = "none"]
    /\ UNCHANGED <<socket, timer, expired, answer, connections>>

\* The handler returns and with it the last reference of the operation; its
\* timer was cancelled, but a handler of it that is due will run.
Drop(c) ==
    /\ stage' = [stage EXCEPT ![c] = "dropped"]
    /\ event' = [event EXCEPT ![c] = "none"]
    /\ timer' = [timer EXCEPT ![c] = FALSE]
    /\ UNCHANGED <<socket, expired, answer, connections>>

\* close() on each of a set of connections: what they wait for is aborted.
CloseAll(S) ==
    /\ socket' = [c \in Conns |->
          IF c \in S /\ socket[c] = "open" THEN "closed" ELSE socket[c]]
    /\ event' = [c \in Conns |->
          IF c \in S /\ socket[c] = "open" /\ Pending(c) /\ event[c] = "none"
          THEN "aborted" ELSE event[c]]

-----------------------------------------------------------------------------
(* start() and accept()                                                    *)

\* accept(): d, registered, waits for a peer.  A closed acceptor reports
\* bad_descriptor to the handler at once.
Awaited == IF acceptor THEN "none" ELSE "error"

\* The io_service is the user's or, if there is none, a new one.
Start ==
    /\ server = "new"
    /\ \E c \in Conns :
          /\ stage' = [stage EXCEPT ![c] = "accept"]
          /\ connections' = {c}
    /\ server' = "running"
    /\ acceptor' = TRUE
    /\ internal' \in BOOLEAN
    /\ UNCHANGED <<secure, socket, event, timer, expired, answer, handlersOff, ioStopped>>

\* The handler of a successful async_accept: the socket is the connection's
\* from here on; a new connection is waited for, and the handshake or the first
\* request.
Accepted(c) ==
    /\ IoRuns
    /\ ~handlersOff
    /\ stage[c] = "accept" /\ event[c] = "ok"
    /\ \E d \in Conns \ Live :
          /\ stage' = [stage EXCEPT ![c] = IF secure THEN "handshake" ELSE "header",
                                  ![d] = "accept"]
          /\ event' = [event EXCEPT ![c] = "none", ![d] = Awaited]
          /\ connections' = connections \cup {d}
    /\ socket' = [socket EXCEPT ![c] = "open"]
    /\ timer' = [timer EXCEPT ![c] = TRUE]
    /\ answer' = [answer EXCEPT ![c] = "none"]
    /\ UNCHANGED <<expired, control>>

\* Mutant of AcceptFailed: an error ends the accept loop.
AcceptGivesUp(c) ==
    /\ IoRuns
    /\ ~handlersOff
    /\ stage[c] = "accept" /\ event[c] = "error"
    /\ Drop(c)
    /\ UNCHANGED control

\* An error other than operation_aborted: waits for another connection.
AcceptFailed(c) ==
    /\ IoRuns
    /\ ~handlersOff
    /\ stage[c] = "accept" /\ event[c] = "error"
    /\ \E d \in Conns \ Live :
          /\ stage' = [stage EXCEPT ![c] = "dropped", ![d] = "accept"]
          /\ event' = [event EXCEPT ![c] = "none", ![d] = Awaited]
          /\ connections' = connections \cup {d}
    /\ UNCHANGED <<socket, timer, expired, answer, control>>

\* operation_aborted, or no lock: nothing is waited for any more.
AcceptEnds(c) ==
    /\ IoRuns
    /\ stage[c] = "accept"
    /\ event[c] = "aborted" \/ (event[c] # "none" /\ handlersOff)
    /\ Drop(c)
    /\ UNCHANGED control

-----------------------------------------------------------------------------
(* The handshake                                                           *)

HandshakeDone(c, result) ==
    /\ IoRuns
    /\ ~handlersOff
    /\ stage[c] = "handshake"
    /\ event[c] \in result

Handshook(c) ==
    /\ HandshakeDone(c, {"ok"})
    /\ Begin(c, "header")
    /\ UNCHANGED <<answer, connections, control>>

HandshakeFailed(c) ==
    /\ HandshakeDone(c, {"error", "aborted"})
    /\ Drop(c)
    /\ UNCHANGED control

-----------------------------------------------------------------------------
(* read(), read_chunked_transfer_encoded(), find_resource() and write()    *)

\* A read has ended and its handler has got its lock: cancel_timeout().
ReadDone(c, result) ==
    /\ IoRuns
    /\ ~handlersOff
    /\ stage[c] \in {"header", "content"}
    /\ event[c] \in result

\* There is more to read: the content, or a part of a chunked content.
ReadMore(c) ==
    /\ ReadDone(c, {"ok"})
    /\ Begin(c, "content")
    /\ UNCHANGED <<answer, connections, control>>

\* The buffer is full: 413, after which the connection is not read again.
TooLarge(c) ==
    /\ ReadDone(c, {"ok"})
    /\ Begin(c, "writing")
    /\ answer' = [answer EXCEPT ![c] = "last"]
    /\ UNCHANGED <<connections, control>>

\* A read error, a request that cannot be parsed, or no resource for it.
ReadFailed(c) ==
    /\ ReadDone(c, {"ok", "error", "aborted"})
    /\ Drop(c)
    /\ UNCHANGED control

\* The request is complete and has a resource: the user's function gets it,
\* while a timer for the content runs.
Dispatch(c) ==
    /\ ReadDone(c, {"ok"})
    /\ stage' = [stage EXCEPT ![c] = "handling"]
    /\ event' = [event EXCEPT ![c] = "none"]
    /\ timer' = [timer EXCEPT ![c] = TRUE]
    /\ answer' = [answer EXCEPT ![c] = "none"]
    /\ UNCHANGED <<socket, expired, connections, control>>

\* The last reference to the Response goes, on whatever thread: send().  If the
\* function has thrown, there is nothing in it to send.
Respond(c) ==
    /\ stage[c] = "handling"
    /\ Begin(c, "writing")
    /\ \E a \in {"sent", "empty"} : answer' = [answer EXCEPT ![c] = a]
    /\ UNCHANGED <<connections, control>>

WriteDone(c, result) ==
    /\ IoRuns
    /\ ~handlersOff
    /\ stage[c] = "writing"
    /\ event[c] \in result

\* Mutant of KeepAlive: the next request is read without a timeout.
KeepAliveUntimed(c) ==
    /\ WriteDone(c, {"ok"})
    /\ answer[c] # "last"
    /\ stage' = [stage EXCEPT ![c] = "header"]
    /\ event' = [event EXCEPT ![c] = IF socket[c] = "open" THEN "none" ELSE "error"]
    /\ timer' = [timer EXCEPT ![c] = FALSE]
    /\ answer' = [answer EXCEPT ![c] = "none"]
    /\ UNCHANGED <<socket, expired, connections, control>>

\* A new Session on the same Connection.
KeepAlive(c) ==
    /\ WriteDone(c, {"ok"})
    /\ answer[c] # "last"
    /\ Begin(c, "header")
    /\ answer' = [answer EXCEPT ![c] = "none"]
    /\ UNCHANGED <<connections, control>>

\* "Connection: close", HTTP/1.0, a 413, or an error.
WriteEnds(c) ==
    /\ WriteDone(c, {"ok", "error", "aborted"})
    /\ Drop(c)
    /\ UNCHANGED control

\* Mutant of Refused: no lock is asked for, and the next request is read.
NotRefused(c) ==
    /\ IoRuns
    /\ handlersOff
    /\ Pending(c)
    /\ event[c] # "none"
    /\ Begin(c, "header")
    /\ UNCHANGED <<answer, connections, control>>

\* A handler that gets no lock returns.
Refused(c) ==
    /\ IoRuns
    /\ handlersOff
    /\ Pending(c)
    /\ event[c] # "none"
    /\ Drop(c)
    /\ UNCHANGED control

-----------------------------------------------------------------------------
(* The timers and the end of a Connection                                  *)

\* The handler of an expired timer, cancelled in the meantime or not.
TimedOut(c) ==
    /\ IoRuns
    /\ expired[c]
    /\ expired' = [expired EXCEPT ![c] = FALSE]
    /\ CloseAll({c})
    /\ UNCHANGED <<stage, timer, answer, connections, control>>

\* Mutant of Delete: the deleter forgets the set of connections.
DeleteRegistered(c) ==
    /\ stage[c] = "dropped" /\ ~expired[c]
    /\ stage' = [stage EXCEPT ![c] = "free"]
    /\ socket' = [socket EXCEPT ![c] = "none"]
    /\ UNCHANGED <<event, timer, expired, answer, connections, control>>

\* The deleter of the last shared_ptr, with connections_mutex.
Delete(c) ==
    /\ stage[c] = "dropped" /\ ~expired[c]
    /\ stage' = [stage EXCEPT ![c] = "free"]
    /\ socket' = [socket EXCEPT ![c] = "none"]
    /\ connections' = connections \ {c}
    /\ UNCHANGED <<event, timer, expired, answer, control>>

-----------------------------------------------------------------------------
(* The peers and the clock                                                 *)

Connects(c) ==
    /\ stage[c] = "accept" /\ event[c] = "none" /\ acceptor
    /\ event' = [event EXCEPT ![c] = "ok"]
    /\ UNCHANGED <<stage, socket, timer, expired, answer, connections, control>>

\* accept() fails in the kernel, for want of a descriptor for example.
ConnectFails(c) ==
    /\ stage[c] = "accept" /\ event[c] = "none" /\ acceptor
    /\ event' = [event EXCEPT ![c] = "error"]
    /\ UNCHANGED <<stage, socket, timer, expired, answer, connections, control>>

\* The peer sends what is waited for, or takes the answer; or it goes away.
Transfers(c) ==
    /\ Pending(c) /\ event[c] = "none" /\ socket[c] = "open"
    /\ \E result \in {"ok", "error"} : event' = [event EXCEPT ![c] = result]
    /\ UNCHANGED <<stage, socket, timer, expired, answer, connections, control>>

Expires(c) ==
    /\ timer[c]
    /\ timer' = [timer EXCEPT ![c] = FALSE]
    /\ expired' = [expired EXCEPT ![c] = TRUE]
    /\ UNCHANGED <<stage, socket, event, answer, connections, control>>

-----------------------------------------------------------------------------
(* stop() and ~ServerBase, on a thread of their own                        *)

\* handler_runner->stop(): no handler is running, and none will act.
Destroy ==
    /\ server \in {"running", "stopped"}
    /\ ~handlersOff
    /\ handlersOff' = TRUE
    /\ server' = "destroying"
    /\ UNCHANGED <<secure, internal, stage, socket, event, timer, expired, answer, connections, acceptor, ioStopped>>

CloseAcceptor ==
    /\ server \in {"running", "destroying"}
    /\ acceptor' = FALSE
    /\ event' = [c \in Conns |->
          IF stage[c] = "accept" /\ event[c] = "none" THEN "aborted" ELSE event[c]]
    /\ server' = "acceptor_closed"
    /\ UNCHANGED <<secure, internal, stage, socket, timer, expired, answer, connections, handlersOff, ioStopped>>

\* All of them, under connections_mutex.
CloseConnections ==
    /\ server = "acceptor_closed"
    /\ CloseAll(connections)
    /\ connections' = {}
    /\ server' = "connections_closed"
    /\ UNCHANGED <<secure, internal, stage, timer, expired, answer, acceptor, handlersOff, ioStopped>>

StopIo ==
    /\ server = "connections_closed"
    /\ ioStopped' = (ioStopped \/ internal)
    /\ server' = "stopped"
    /\ UNCHANGED <<secure, internal, stage, socket, event, timer, expired, answer, connections, acceptor, handlersOff>>

-----------------------------------------------------------------------------
Handler(c) ==
    \/ Accepted(c) \/ AcceptFailed(c) \/ AcceptEnds(c)
    \/ Handshook(c) \/ HandshakeFailed(c)
    \/ ReadMore(c) \/ TooLarge(c) \/ ReadFailed(c) \/ Dispatch(c)
    \/ KeepAlive(c) \/ WriteEnds(c) \/ Refused(c)

Stop == CloseAcceptor \/ CloseConnections \/ StopIo

Next ==
    \/ Start \/ Destroy \/ Stop
    \/ \E c \in Conns :
          \/ Handler(c) \/ Respond(c) \/ TimedOut(c) \/ Delete(c)
          \/ Connects(c) \/ ConnectFails(c) \/ Transfers(c) \/ Expires(c)

Spec == Init /\ [][Next]_vars

\* The io_service calls the handlers that are due, the clock goes on, the end
\* of stop() follows its beginning.  The peers and the user's code owe nothing.
FairSpec ==
    /\ Spec
    /\ WF_vars(CloseConnections) /\ WF_vars(StopIo)
    /\ WF_vars(server = "destroying" /\ CloseAcceptor)
    /\ \A c \in Conns : WF_vars(Handler(c)) /\ WF_vars(TimedOut(c))
                        /\ WF_vars(Delete(c)) /\ WF_vars(Expires(c))

-----------------------------------------------------------------------------
(* Properties                                                              *)

\* The set holds raw pointers: each of them is to a Connection that exists.  As
\* long as stop() has not cleared it, it also misses none.
RegistryExact ==
    /\ connections \subseteq Live
    /\ (server \in {"running", "acceptor_closed"} /\ ~handlersOff) => connections = Live

\* A server that runs waits for exactly one connection at a time: whatever
\* becomes of one of them, the accept loop neither ends nor doubles.
AcceptsOne ==
    server = "running" => Cardinality({c \in Conns : stage[c] = "accept"}) = 1

\* What a connection holds is given back by a timer: a peer that goes silent,
\* during the handshake or later, does not keep it, and a request that reached
\* the user's code is answered, or its connection closed, even if the code keeps
\* the Response for ever.
Freed ==
    \A c \in Conns :
        /\ (Pending(c) /\ event[c] = "none") ~> (ioStopped \/ event[c] # "none")
        /\ (stage[c] = "handling") ~> (ioStopped \/ answer[c] # "none" \/ socket[c] # "open")

\* After the destructor every connection goes that the user's code lets go.
DestroyedDrains ==
    (server = "stopped" /\ handlersOff) ~>
        (ioStopped \/ \A c \in Conns : stage[c] \in {"free", "handling"})
=============================================================================
