------------------------------- MODULE Sources -------------------------------
(***************************************************************************)
(* The three scripts that fetch danmaku (src/python).  They are separate   *)
(* programs that share nothing but the API they post to, so that one of    *)
(* them is run at a time: script says which.                               *)
(***************************************************************************)
EXTENDS DanmakuApi, Sequences

CONSTANT
    MaxQueue         \* bound: messages or datagrams waiting to be received

ASSUME QueueAssumption == MaxQueue \in Nat

VARIABLES
    script,
    urlProgram, last, base, batch,
    liveProgram, future, messageLoop, heartbeat, websocket, socket, inbox,
    botProgram, online, server, shutdownRequest, keepalive, datagrams, registered

urlVars == <<urlProgram, last, base, batch>>
liveVars == <<liveProgram, future, messageLoop, heartbeat, websocket, socket, inbox>>
botVars == <<botProgram, online, server, shutdownRequest, keepalive, datagrams, registered>>
vars == <<script, offered, tried, shown, urlVars, liveVars, botVars>>

Url == INSTANCE UrlPoller WITH program <- urlProgram
Live == INSTANCE BLiveClient WITH program <- liveProgram, MaxInbox <- MaxQueue
Bot == INSTANCE CoolQ WITH program <- botProgram, MaxDatagrams <- MaxQueue

TypeOK == ApiTypeOK /\ Url!TypeOK /\ Live!TypeOK /\ Bot!TypeOK

Init ==
    /\ script \in {"url", "live", "bot"}
    /\ ApiInit
    /\ Url!Init /\ Live!Init /\ Bot!Init

Next ==
    /\ \/ script = "url" /\ Url!Next /\ UNCHANGED <<liveVars, botVars>>
       \/ script = "live" /\ Live!Next /\ UNCHANGED <<urlVars, botVars>>
       \/ script = "bot" /\ Bot!Next /\ UNCHANGED <<urlVars, liveVars>>
    /\ UNCHANGED script

\* A script that is not run has nothing enabled that this would ask for.
Spec ==
    /\ Init /\ [][Next]_vars
    /\ Url!Fairness /\ Live!Fairness /\ Bot!Fairness

-----------------------------------------------------------------------------
Channel == INSTANCE DanmakuChannel WITH Danmakus <- Ids

\* Each of the scripts is a channel of danmaku: none is handed over twice, not
\* even over failures, restarts and reconnections, and none is made up.
ImplementsChannel == Channel!Spec

\* from_url.py: what the site has published is posted (UrlPoller.TriesAll).
UrlTriesAll == Url!TriesAll

\* from_bilibili_live.py: heartbeats go on over reconnections, and stop() ends
\* both coroutines (BLiveClient.KeepsAlive and StopReturns).
LiveGoesOnUntilStopped == Live!KeepsAlive /\ Live!StopReturns

\* from_coolq.py: the bot gets its groups' messages (CoolQ.Listens).
BotListens == Bot!Listens

\* from_coolq.py: deleting a bot that serves ends (CoolQ.Closes).
BotCloses == Bot!Closes
=============================================================================
