----------------------------- MODULE BLiveClient -----------------------------
(***************************************************************************)
(* from_bilibili_live.py: BLiveClient keeps a websocket to a live room     *)
(* open and adds the danmaku that arrive on it.  Its two coroutines, the   *)
(* message loop and the heartbeat loop, share _websocket and one event     *)
(* loop; one step is what a coroutine does between two awaits.  A step     *)
(* that does not come to an await blocks the event loop (Blocked).  The    *)
(* websocket library and the room are external.                            *)
(***************************************************************************)
EXTENDS DanmakuApi, Integers, Sequences

CONSTANT
    MaxInbox         \* bound: messages that are waiting to be received

VARIABLES
    program,         \* "running" inside of run_until_complete()
    future,          \* _future is set: stop() has not been called
    messageLoop,     \* what _message_loop() waits for
    heartbeat,       \* what _heartbeat_loop() waits for
    websocket,       \* _websocket is not None
    socket,          \* the connection itself
    inbox            \* messages that have arrived on it

loops == <<messageLoop, heartbeat, websocket>>
vars == <<offered, tried, shown, program, future, loops, socket, inbox>>

\* A message without danmaku; one that makes its handler raise; one whose
\* header says that it is 0 bytes long.
Other == 0
Bad == -1
Empty == -2

TypeOK ==
    /\ program \in {"off", "running"}
    /\ future \in BOOLEAN
    /\ messageLoop \in {"connecting", "auth", "receiving", "sleeping", "stuck", "done"}
    /\ heartbeat \in {"idle", "sending", "waiting", "spinning", "done"}
    /\ websocket \in BOOLEAN
    /\ socket \in {"none", "open", "closed"}
    /\ Len(inbox) <= MaxInbox
    /\ websocket => messageLoop \in {"auth", "receiving", "stuck"} /\ socket # "none"

Init ==
    /\ program = "off"
    /\ future = FALSE
    /\ messageLoop = "done"
    /\ heartbeat = "done"
    /\ websocket = FALSE
    /\ socket = "none"
    /\ inbox = <<>>

\* A coroutine goes on without an await: nothing else will run.
Blocked == messageLoop = "stuck" \/ heartbeat = "spinning"

\* The event loop may resume a coroutine that has not been cancelled.
Resumes == program = "running" /\ future /\ ~Blocked

-----------------------------------------------------------------------------
(* start() and stop()                                                      *)

\* The room is found, which start() asks for first, and both loops begin.
Start ==
    /\ program = "off"
    /\ program' = "running"
    /\ future' = TRUE
    /\ messageLoop' = "connecting"
    /\ heartbeat' = "idle"
    /\ UNCHANGED <<offered, tried, shown, websocket, socket, inbox>>

\* stop(), from a callback: the coroutines are cancelled where they wait.
Stop ==
    /\ Resumes
    /\ future' = FALSE
    /\ UNCHANGED <<offered, tried, shown, program, loops, socket, inbox>>

\* The process ends: it is interrupted, or an exception of a coroutine leaves
\* gather() and start().
Ends ==
    /\ program' = "off"
    /\ future' = FALSE
    /\ messageLoop' = "done"
    /\ heartbeat' = "done"
    /\ websocket' = FALSE
    /\ socket' = "none"
    /\ inbox' = <<>>

Killed ==
    /\ program = "running"
    /\ Ends
    /\ UNCHANGED <<offered, tried, shown>>

\* Both coroutines have returned, and start() does.
Returns ==
    /\ program = "running"
    /\ messageLoop = "done" /\ heartbeat = "done"
    /\ Ends
    /\ UNCHANGED <<offered, tried, shown>>

-----------------------------------------------------------------------------
(* _message_loop()                                                         *)

\* A send() that waited on the old connection has failed by now.
Connects ==
    /\ Resumes
    /\ messageLoop = "connecting"
    /\ messageLoop' = "auth"
    /\ heartbeat' = IF heartbeat = "sending" THEN "idle" ELSE heartbeat
    /\ websocket' = TRUE
    /\ socket' = "open"
    /\ inbox' = <<>>
    /\ UNCHANGED <<offered, tried, shown, program, future>>

\* An OSError or a refused handshake is no ConnectionClosed: nothing catches it.
ConnectFails ==
    /\ Resumes
    /\ messageLoop = "connecting"
    /\ Ends
    /\ UNCHANGED <<offered, tried, shown>>

SendAuth ==
    /\ Resumes
    /\ messageLoop = "auth" /\ socket = "open"
    /\ messageLoop' = "receiving"
    /\ UNCHANGED <<offered, tried, shown, program, future, heartbeat, websocket, socket, inbox>>

\* The next message: a danmaku is added while everything else waits.
Receive ==
    /\ Resumes
    /\ messageLoop = "receiving"
    /\ inbox # <<>> /\ Head(inbox) \in Ids \cup {Other}
    /\ inbox' = Tail(inbox)
    /\ IF Head(inbox) \in Ids
       THEN AddDanmaku(Head(inbox)) /\ UNCHANGED offered
       ELSE UNCHANGED apiVars
    /\ UNCHANGED <<program, future, loops, socket>>

\* JSON that is none, or a command without its fields.
ReceiveBad ==
    /\ Resumes
    /\ messageLoop = "receiving"
    /\ inbox # <<>> /\ Head(inbox) = Bad
    /\ Ends
    /\ UNCHANGED <<offered, tried, shown>>

\* The offset does not advance.
ReceiveEmpty ==
    /\ Resumes
    /\ messageLoop = "receiving"
    /\ inbox # <<>> /\ Head(inbox) = Empty
    /\ messageLoop' = "stuck"
    /\ UNCHANGED <<offered, tried, shown, program, future, heartbeat, websocket, socket, inbox>>

\* Mutant of Lost: the loop breaks instead of connecting again.
LostBreaks ==
    /\ Resumes
    /\ messageLoop \in {"auth", "receiving"}
    /\ socket = "closed" /\ (messageLoop = "receiving" => inbox = <<>>)
    /\ websocket' = FALSE
    /\ messageLoop' = "done"
    /\ UNCHANGED <<offered, tried, shown, program, future, heartbeat, socket, inbox>>

\* ConnectionClosed, after the messages that had arrived; a normal closure ends
\* the iteration over messages and is followed by the next connection at once.
Lost ==
    /\ Resumes
    /\ messageLoop \in {"auth", "receiving"}
    /\ socket = "closed" /\ (messageLoop = "receiving" => inbox = <<>>)
    /\ websocket' = FALSE
    /\ \/ messageLoop' = "sleeping"
       \/ messageLoop = "receiving" /\ messageLoop' = "connecting"
    /\ UNCHANGED <<offered, tried, shown, program, future, heartbeat, socket, inbox>>

Retry ==
    /\ Resumes
    /\ messageLoop = "sleeping"
    /\ messageLoop' = "connecting"
    /\ UNCHANGED <<offered, tried, shown, program, future, heartbeat, websocket, socket, inbox>>

\* CancelledError: break, or out of the handler that sleeps; finally.
MessageLoopCancelled ==
    /\ program = "running" /\ ~future /\ ~Blocked
    /\ messageLoop # "done"
    /\ messageLoop' = "done"
    /\ websocket' = FALSE
    /\ socket' = "none"
    /\ inbox' = <<>>
    /\ UNCHANGED <<offered, tried, shown, program, future, heartbeat>>

-----------------------------------------------------------------------------
(* _heartbeat_loop()                                                       *)

\* A heartbeat is on its way; send() may have to wait for the buffer.
Beat ==
    /\ Resumes
    /\ heartbeat \in {"idle", "waiting"} /\ websocket /\ socket = "open"
    /\ heartbeat' \in {"waiting", "sending"}
    /\ UNCHANGED <<offered, tried, shown, program, future, messageLoop, websocket, socket, inbox>>

Sent ==
    /\ Resumes
    /\ heartbeat = "sending" /\ socket = "open"
    /\ heartbeat' = "waiting"
    /\ UNCHANGED <<offered, tried, shown, program, future, messageLoop, websocket, socket, inbox>>

NotConnected ==
    /\ Resumes
    /\ heartbeat = "waiting" \/ (heartbeat = "sending" /\ socket # "open")
    /\ ~websocket
    /\ heartbeat' = "idle"
    /\ UNCHANGED <<offered, tried, shown, program, future, messageLoop, websocket, socket, inbox>>

\* send() raises ConnectionClosed without waiting, and the message loop, which
\* would reset _websocket, does not get its turn.
Spin ==
    /\ Resumes
    /\ heartbeat \in {"idle", "waiting", "sending"}
    /\ websocket /\ socket = "closed"
    /\ heartbeat' = "spinning"
    /\ UNCHANGED <<offered, tried, shown, program, future, messageLoop, websocket, socket, inbox>>

HeartbeatCancelled ==
    /\ program = "running" /\ ~future /\ ~Blocked
    /\ heartbeat # "done"
    /\ heartbeat' = "done"
    /\ UNCHANGED <<offered, tried, shown, program, future, messageLoop, websocket, socket, inbox>>

-----------------------------------------------------------------------------
(* The room                                                                *)

Sends ==
    /\ socket = "open" /\ Len(inbox) < MaxInbox
    /\ \/ \E d \in Ids : Offer(d) /\ inbox' = Append(inbox, d)
       \/ \E m \in {Other, Bad, Empty} : inbox' = Append(inbox, m) /\ UNCHANGED apiVars
    /\ UNCHANGED <<program, future, loops, socket>>

Closes ==
    /\ socket = "open"
    /\ socket' = "closed"
    /\ UNCHANGED <<offered, tried, shown, program, future, loops, inbox>>

MessageLoop ==
    Connects \/ ConnectFails \/ SendAuth \/ Receive \/ ReceiveBad \/ ReceiveEmpty
    \/ Lost \/ Retry \/ MessageLoopCancelled

HeartbeatLoop == Beat \/ Sent \/ NotConnected \/ Spin \/ HeartbeatCancelled

Next == Start \/ Stop \/ Killed \/ Returns \/ MessageLoop \/ HeartbeatLoop \/ Sends \/ Closes

\* The event loop resumes what can go on, in whatever order.
Fairness ==
    /\ WF_vars(MessageLoop)
    /\ WF_vars(HeartbeatLoop)
    /\ WF_vars(Returns)

-----------------------------------------------------------------------------
\* The room drops clients that send no heartbeats.  If connections are not lost
\* for ever, heartbeats go on for ever, over all reconnections, unless the
\* program is ended or stopped or its event loop blocked.
KeepsAlive ==
    <>[][~Closes]_vars =>
        \/ []<><<Beat>>_vars
        \/ []<>(program = "off" \/ ~future \/ Blocked)

\* After stop() both coroutines end, wherever they were, and start() returns.
StopReturns == (program = "running" /\ ~future) ~> (program = "off")
=============================================================================
