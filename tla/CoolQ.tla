-------------------------------- MODULE CoolQ --------------------------------
(***************************************************************************)
(* from_coolq.py: CQBot registers with the application CoolQ by a          *)
(* datagram every half minute (keep-alive thread) and adds what CoolQ      *)
(* sends back (server thread).  Deleting the bot stops the server thread   *)
(* and waits for it.  CoolQ and the network are external.                  *)
(***************************************************************************)
EXTENDS DanmakuApi, Integers, Sequences

CONSTANT
    MaxDatagrams     \* bound: datagrams that wait in the server's socket

VARIABLES
    program,         \* the main thread
    online,          \* CQBot.online
    server,          \* the server thread
    shutdownRequest, \* shutdown() has been called
    keepalive,       \* the keep-alive thread
    datagrams,       \* what waits in the server's socket
    registered       \* CoolQ knows the bot

threads == <<server, keepalive>>
vars == <<offered, tried, shown, program, online, threads, shutdownRequest, datagrams, registered>>

\* A message of another group; a frame that cannot be decoded.
Other == 0
Bad == -1

TypeOK ==
    /\ program \in {"off", "created", "running", "deleting"}
    /\ online \in BOOLEAN
    /\ server \in {"none", "starting", "serving", "done"}
    /\ shutdownRequest \in BOOLEAN
    /\ keepalive \in {"none", "sending", "sleeping", "dead"}
    /\ Len(datagrams) <= MaxDatagrams
    /\ registered \in BOOLEAN
    /\ shutdownRequest <=> program = "deleting"
    /\ program = "off" => server = "none" /\ keepalive = "none"

Init ==
    /\ program = "off"
    /\ online = TRUE
    /\ server = "none"
    /\ shutdownRequest = FALSE
    /\ keepalive = "none"
    /\ datagrams = <<>>
    /\ registered = FALSE

-----------------------------------------------------------------------------
(* The main thread                                                         *)

Create ==
    /\ program = "off"
    /\ program' = "created"
    /\ online' \in BOOLEAN
    /\ UNCHANGED <<offered, tried, shown, threads, shutdownRequest, datagrams, registered>>

\* start() does nothing for a bot that is not online.
Start ==
    /\ program = "created"
    /\ program' = "running"
    /\ server' = IF online THEN "starting" ELSE "none"
    /\ keepalive' = IF online THEN "sending" ELSE "none"
    /\ UNCHANGED <<offered, tried, shown, online, shutdownRequest, datagrams, registered>>

\* The process ends; its daemon threads go with it, and its sockets.
Exits ==
    /\ program' = "off"
    /\ server' = "none"
    /\ shutdownRequest' = FALSE
    /\ keepalive' = "none"
    /\ datagrams' = <<>>

\* The thread runs a bound method, which refers to the bot.
Referred == keepalive \in {"sending", "sleeping"}

\* main() returns, and the last reference to the bot is not its own.
Interrupted ==
    /\ program = "running" /\ Referred
    /\ Exits
    /\ UNCHANGED <<offered, tried, shown, online, registered>>

\* Mutant of Delete: __del__ waits for the server thread and does not stop it.
DeleteJoins ==
    /\ program \in {"created", "running"} /\ ~Referred
    /\ program' = "deleting"
    /\ UNCHANGED <<offered, tried, shown, online, threads, shutdownRequest, datagrams, registered>>

\* __del__: client.close() and the first half of server.shutdown()
Delete ==
    /\ program \in {"created", "running"} /\ ~Referred
    /\ program' = "deleting"
    /\ shutdownRequest' = TRUE
    /\ UNCHANGED <<offered, tried, shown, online, threads, datagrams, registered>>

\* shutdown() returns when serve_forever() has said that it is done.
Deleted ==
    /\ program = "deleting"
    /\ server = "done"
    /\ Exits
    /\ UNCHANGED <<offered, tried, shown, online, registered>>

-----------------------------------------------------------------------------
(* The server thread: serve_forever() and APIRequestHandler                *)

ServeForever ==
    /\ server = "starting"
    /\ server' = "serving"
    /\ UNCHANGED <<offered, tried, shown, program, online, shutdownRequest, keepalive, datagrams, registered>>

\* Mutant of Handle: a frame that cannot be decoded ends the thread.
HandleOrEnd ==
    /\ server = "serving" /\ ~shutdownRequest
    /\ datagrams # <<>>
    /\ datagrams' = Tail(datagrams)
    /\ IF Head(datagrams) \in Ids
       THEN AddDanmaku(Head(datagrams)) /\ UNCHANGED offered
       ELSE UNCHANGED apiVars
    /\ server' = IF Head(datagrams) = Bad THEN "done" ELSE server
    /\ UNCHANGED <<program, online, keepalive, shutdownRequest, registered>>

\* One datagram.  Whatever is wrong with it, the thread goes on: handle() or
\* socketserver catches it.  The listener of main() looks at the group.
Handle ==
    /\ server = "serving" /\ ~shutdownRequest
    /\ datagrams # <<>>
    /\ datagrams' = Tail(datagrams)
    /\ IF Head(datagrams) \in Ids
       THEN AddDanmaku(Head(datagrams)) /\ UNCHANGED offered
       ELSE UNCHANGED apiVars
    /\ UNCHANGED <<program, online, threads, shutdownRequest, registered>>

ServeEnds ==
    /\ server = "serving" /\ shutdownRequest
    /\ server' = "done"
    /\ UNCHANGED <<offered, tried, shown, program, online, keepalive, shutdownRequest, datagrams, registered>>

-----------------------------------------------------------------------------
(* The keep-alive thread                                                   *)

\* The datagram of ClientHello may be lost.
Hello(arrives) ==
    /\ keepalive = "sending"
    /\ keepalive' = "sleeping"
    /\ registered' = (registered \/ arrives)
    /\ UNCHANGED <<offered, tried, shown, program, online, server, shutdownRequest, datagrams>>

\* sendto() raises, which nothing catches.
HelloFails ==
    /\ keepalive = "sending"
    /\ keepalive' = "dead"
    /\ UNCHANGED <<offered, tried, shown, program, online, server, shutdownRequest, datagrams, registered>>

Wake ==
    /\ keepalive = "sleeping"
    /\ keepalive' = "sending"
    /\ UNCHANGED <<offered, tried, shown, program, online, server, shutdownRequest, datagrams, registered>>

-----------------------------------------------------------------------------
(* CoolQ                                                                   *)

\* Something is said in a group, and a registered bot is told: the datagram
\* arrives, or is lost, for want of room for example.
Tells ==
    /\ registered /\ server # "none"
    /\ \/ \E d \in Ids : Offer(d) /\ datagrams' \in {datagrams, Append(datagrams, d)}
       \/ \E m \in {Other, Bad} : datagrams' = Append(datagrams, m) /\ UNCHANGED apiVars
    /\ Len(datagrams') <= MaxDatagrams
    /\ UNCHANGED <<program, online, threads, shutdownRequest, registered>>

\* CoolQ is restarted, or has not heard of the bot for too long.
Forgets ==
    /\ registered
    /\ registered' = FALSE
    /\ UNCHANGED <<offered, tried, shown, program, online, threads, shutdownRequest, datagrams>>

Next ==
    \/ Create \/ Start \/ Interrupted \/ Delete \/ Deleted
    \/ ServeForever \/ Handle \/ ServeEnds
    \/ Hello(TRUE) \/ Hello(FALSE) \/ HelloFails \/ Wake
    \/ Tells \/ Forgets

\* The threads run, and not every ClientHello is lost.
Fairness ==
    /\ WF_vars(Deleted)
    /\ WF_vars(ServeForever \/ Handle \/ ServeEnds)
    /\ SF_vars(Hello(TRUE))
    /\ WF_vars(Wake)

-----------------------------------------------------------------------------
\* However often CoolQ forgets the bot it gets to know it again, as long as no
\* sendto() has failed; and whatever datagram has arrived is handled, whatever
\* came before it.
Listens ==
    /\ (keepalive \in {"sending", "sleeping"})
          ~> (registered \/ keepalive \notin {"sending", "sleeping"})
    /\ \A d \in Ids :
          (program = "running" /\ \E i \in DOMAIN datagrams : datagrams[i] = d)
              ~> (d \in tried \/ program # "running")

\* A bot that has been started, online, can be deleted at any time: shutdown()
\* comes back even if the server thread has not got as far as serve_forever().
Closes == (program = "deleting" /\ server # "none") ~> (program = "off")
=============================================================================
