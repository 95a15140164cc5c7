---------------------------- MODULE SourcesProofs ----------------------------
(***************************************************************************)
(* Each of the scripts implements the channel of danmaku, for any number   *)
(* of danmaku and queues of any length.  What makes it so is that whatever *)
(* waits in a script's queue has been offered, has not been handed over,   *)
(* and is there once (Waiting); and, for the site that is polled, that     *)
(* nothing above the last id has been handed over (Numbered).              *)
(***************************************************************************)
EXTENDS Sources, SequenceTheorems, FiniteSetTheorems, TLAPS

\* q holds danmaku of o that are not in t, each once, and other messages.
WaitingIn(q, o, t) ==
    /\ q \in Seq(Int)
    /\ \A i \in 1 .. Len(q) : q[i] \in Ids => q[i] \in o /\ q[i] \notin t
    /\ \A i, j \in 1 .. Len(q) : q[i] \in Ids /\ i # j => q[i] # q[j]

Waiting ==
    /\ WaitingIn(batch, offered, tried)
    /\ WaitingIn(inbox, offered, tried)
    /\ WaitingIn(datagrams, offered, tried)

Api ==
    /\ offered \subseteq Ids
    /\ tried \subseteq offered
    /\ shown \in [Ids -> Nat]
    /\ \A d \in Ids \ tried : shown[d] = 0

\* The scripts that are not run have nothing in their queues.
OthersEmpty ==
    /\ script \in {"url", "live", "bot"}
    /\ script # "url" => batch = <<>>
    /\ script # "live" => inbox = <<>>
    /\ script # "bot" => datagrams = <<>>

\* The site numbers its danmaku from 1 on.
Numbered ==
    script = "url" =>
        /\ last \in Nat
        /\ \E n \in Nat : offered = 1 .. n
        /\ \A d \in tried : d <= last
        /\ batch \in Seq(Ids)

IInv == Api /\ Waiting /\ OthersEmpty /\ Numbered

\* Danmaku are positive numbers; the other messages are not among them.
LEMMA IdsAreNumbers ==
    /\ \A d \in Ids : d \in Nat /\ d > 0
    /\ Cardinality(Ids) \in Nat
    /\ \A m \in {0, -1, -2} : m \in Int /\ m \notin Ids
<1>1. Cardinality(Ids) \in Nat
  BY IdsAssumption, FS_CardinalityType
<1>2. \A d \in Ids : d \in Nat /\ d > 0
  BY <1>1, IdsAssumption
<1>3. \A m \in {0, -1, -2} : m \in Int /\ m \notin Ids
  BY <1>2
<1>4. QED
  BY <1>1, <1>2, <1>3

-----------------------------------------------------------------------------
(* Queues                                                                  *)

\* An empty queue holds nothing that was handed over.
LEMMA EmptyWaits ==
    ASSUME NEW o, NEW t
    PROVE  WaitingIn(<<>>, o, t)
  BY DEF WaitingIn

\* The first one is handed over, or was no danmaku of the source.
LEMMA TailWaits ==
    ASSUME NEW q, NEW o, NEW t, WaitingIn(q, o, t), q # <<>>
    PROVE  /\ Head(q) \in Ids => Head(q) \in o /\ Head(q) \notin t
           /\ Head(q) \in Ids => WaitingIn(Tail(q), o, t \cup {Head(q)})
           /\ Head(q) \notin Ids => WaitingIn(Tail(q), o, t)
<1>1. /\ Tail(q) \in Seq(Int) /\ Len(Tail(q)) = Len(q) - 1
      /\ \A i \in 1 .. Len(Tail(q)) : Tail(q)[i] = q[i + 1]
      /\ Len(q) \in Nat /\ Len(q) > 0
  BY HeadTailProperties, EmptySeq DEF WaitingIn
<1>2. Head(q) = q[1] /\ 1 \in 1 .. Len(q)
  BY <1>1 DEF WaitingIn
<1>3. \A i \in 1 .. Len(Tail(q)) : i + 1 \in 1 .. Len(q) /\ i + 1 # 1
  BY <1>1
<1>4. \A i \in 1 .. Len(Tail(q)) :
        Tail(q)[i] \in Ids => Tail(q)[i] \in o /\ Tail(q)[i] \notin t /\ Tail(q)[i] # Head(q)
  BY <1>1, <1>2, <1>3 DEF WaitingIn
<1>5. \A i, j \in 1 .. Len(Tail(q)) : Tail(q)[i] \in Ids /\ i # j => Tail(q)[i] # Tail(q)[j]
  <2>1. ASSUME NEW i \in 1 .. Len(Tail(q)), NEW j \in 1 .. Len(Tail(q)), Tail(q)[i] \in Ids, i # j
        PROVE  Tail(q)[i] # Tail(q)[j]
    <3>1. i + 1 # j + 1
      BY <1>1, <2>1
    <3>2. QED
      BY <1>1, <1>3, <2>1, <3>1 DEF WaitingIn
  <2>2. QED
    BY <2>1
<1>6. QED
  BY <1>1, <1>2, <1>4, <1>5 DEF WaitingIn

\* Something new comes in, or a message without a danmaku.
LEMMA AppendWaits ==
    ASSUME NEW q, NEW o, NEW t, WaitingIn(q, o, t), NEW d \in Int
    PROVE  /\ d \in Ids /\ d \notin o /\ t \subseteq o =>
                 /\ WaitingIn(q, o \cup {d}, t)
                 /\ WaitingIn(Append(q, d), o \cup {d}, t)
           /\ d \notin Ids => WaitingIn(Append(q, d), o, t)
<1>1. /\ Append(q, d) \in Seq(Int) /\ Len(Append(q, d)) = Len(q) + 1
      /\ \A i \in 1 .. Len(q) : Append(q, d)[i] = q[i]
      /\ Append(q, d)[Len(q) + 1] = d
      /\ Len(q) \in Nat
  BY DEF WaitingIn
<1>2. \A i \in 1 .. Len(Append(q, d)) : i \in 1 .. Len(q) \/ i = Len(q) + 1
  BY <1>1
<1>3. QED
  BY <1>1, <1>2 DEF WaitingIn

\* The site counts as everybody does.
LEMMA SameCount == \A S : Url!Cardinality(S) = Cardinality(S)
  BY Zenon DEF Url!Cardinality, Cardinality

\* The records of an answer, in any order.
LEMMA RecordsWait ==
    ASSUME NEW o \in SUBSET Ids, NEW t, NEW S \in SUBSET o, S \cap t = {},
           NEW q \in Url!SetToSeqs(S)
    PROVE  WaitingIn(q, o, t) /\ q \in Seq(Ids)
<1>1. IsFiniteSet(S)
  BY IdsAssumption, FS_Subset
<1>2. PICK n \in Nat : n = Cardinality(S)
  BY <1>1, FS_CardinalityType
<1>3. q \in [1 .. n -> S] /\ \A i, j \in 1 .. n : i # j => q[i] # q[j]
  BY <1>2, SameCount DEF Url!SetToSeqs
<1>4. S \subseteq Int
  BY IdsAreNumbers
<1>5. q \in Seq(Int) /\ Len(q) = n
  <2>1. q \in [1 .. n -> Int]
    BY <1>3, <1>4
  <2>2. QED
    BY <2>1
<1>6. q \in Seq(Ids)
  <2>1. q \in [1 .. n -> Ids]
    BY <1>3
  <2>2. QED
    BY <2>1
<1>7. QED
  BY <1>3, <1>5, <1>6 DEF WaitingIn

-----------------------------------------------------------------------------
(* What the steps do to the channel                                        *)

\* A new danmaku of a source is one of the channel.
LEMMA OfferIsOffer ==
    ASSUME Api, NEW d \in Ids, Offer(d)
    PROVE  Channel!Offer(d) /\ Api'
  BY DEF Api, Offer, Channel!Offer

\* The call counts for the program once at most.
LEMMA AddIsTry ==
    ASSUME Api, NEW d \in Ids, d \in offered, d \notin tried, AddDanmaku(d), offered' = offered
    PROVE  Channel!Try(d) /\ Api'
<1>1. PICK reply \in Replies :
        /\ tried' = tried \cup {d}
        /\ shown' = [shown EXCEPT ![d] = IF reply.taken THEN shown[d] + 1 ELSE shown[d]]
  BY DEF AddDanmaku
<1>2. shown[d] = 0
  BY DEF Api
<1>3. \E n \in {0, 1} : shown' = [shown EXCEPT ![d] = n]
  <2>1. CASE reply.taken
    BY <1>1, <1>2, <2>1
  <2>2. CASE ~reply.taken
    BY <1>1, <1>2, <2>2
  <2>3. QED
    BY <2>1, <2>2
<1>4. Channel!Try(d)
  BY <1>1, <1>3 DEF Channel!Try
<1>5. Api'
  BY <1>1, <1>3 DEF Api
<1>6. QED
  BY <1>4, <1>5

\* What offers or tries a danmaku is a step of the channel, and what touches
\* neither is a stuttering one.
LEMMA StepsOfChannel ==
    /\ \A d \in Ids : Channel!Offer(d) \/ Channel!Try(d) => [Channel!Next]_(Channel!vars)
    /\ UNCHANGED apiVars => [Channel!Next]_(Channel!vars) /\ (Api => Api')
  BY DEF Channel!Next, Channel!vars, apiVars, Api

\* from_url.py: what is asked for is above the last id, and the last id follows
\* what is handed over.
LEMMA UrlStep ==
    ASSUME IInv, script = "url", Url!Next, UNCHANGED <<script, liveVars, botVars>>
    PROVE  [Channel!Next]_(Channel!vars) /\ IInv'
<1> DEFINE Good == /\ [Channel!Next]_(Channel!vars)
                   /\ Api' /\ WaitingIn(batch', offered', tried')
                   /\ last' \in Nat /\ (\E m \in Nat : offered' = 1 .. m)
                   /\ (\A d \in tried' : d <= last') /\ batch' \in Seq(Ids)
<1>1. /\ Api /\ WaitingIn(batch, offered, tried) /\ inbox = <<>> /\ datagrams = <<>>
      /\ last \in Nat /\ (\E n \in Nat : offered = 1 .. n) /\ (\A d \in tried : d <= last)
      /\ batch \in Seq(Ids)
  BY DEF IInv, Waiting, OthersEmpty, Numbered
<1>2. /\ WaitingIn(inbox', offered', tried') /\ WaitingIn(datagrams', offered', tried')
      /\ OthersEmpty' /\ script' = "url"
  BY <1>1, EmptyWaits DEF OthersEmpty, liveVars, botVars
<1>3. PICK n \in Nat : offered = 1 .. n
  BY <1>1
<1>4. Cardinality(offered) = n /\ Url!Cardinality(offered) = n
  <2>1. Cardinality(1 .. n) = n
    BY FS_Interval
  <2>2. QED
    BY <1>3, <2>1, SameCount
<1>5. ASSUME Url!Launch \/ Url!Sleep PROVE Good
  BY <1>1, <1>5, StepsOfChannel DEF Url!Launch, Url!Sleep, apiVars
<1>6. ASSUME Url!GetLastId PROVE Good
  <2>1. last' = n /\ UNCHANGED <<offered, tried, shown, batch>>
    BY <1>4, <1>6 DEF Url!GetLastId
  <2>2. \A d \in tried : d <= n
    BY <1>1, <1>3 DEF Api
  <2>3. QED
    BY <1>1, <2>1, <2>2, StepsOfChannel DEF apiVars
<1>7. ASSUME Url!Dies PROVE Good
  <2>1. batch' = <<>> /\ UNCHANGED <<offered, tried, shown, last>>
    BY <1>7 DEF Url!Dies
  <2>2. WaitingIn(batch', offered', tried') /\ batch' \in Seq(Ids)
    BY <2>1, EmptyWaits
  <2>3. QED
    BY <1>1, <2>1, <2>2, StepsOfChannel DEF apiVars
<1>8. ASSUME Url!Poll PROVE Good
  <2> DEFINE S == {d \in offered : d >= last + 1}
  <2>1. S \cap tried = {} /\ offered \in SUBSET Ids /\ S \in SUBSET offered
    BY <1>1, <1>3 DEF Api
  <2>2. batch' \in Url!SetToSeqs(S) /\ UNCHANGED <<offered, tried, shown, last>>
    BY <1>8 DEF Url!Poll
  <2>3. WaitingIn(batch', offered, tried) /\ batch' \in Seq(Ids)
    BY <2>1, <2>2, RecordsWait
  <2>4. QED
    BY <1>1, <2>2, <2>3, StepsOfChannel DEF apiVars
<1>9. ASSUME Url!Post PROVE Good
  <2>1. /\ batch # <<>> /\ AddDanmaku(Head(batch)) /\ offered' = offered /\ batch' = Tail(batch)
        /\ last' = IF Head(batch) > last THEN Head(batch) ELSE last
    BY <1>9 DEF Url!Post, Url!AddDanmaku, AddDanmaku, Url!Replies, Replies
  <2>2. Head(batch) \in Ids /\ batch' \in Seq(Ids)
    BY <1>1, <2>1
  <2>3. /\ Head(batch) \in offered /\ Head(batch) \notin tried
        /\ WaitingIn(batch', offered, tried \cup {Head(batch)})
    BY <1>1, <2>1, <2>2, TailWaits
  <2>4. Channel!Try(Head(batch)) /\ Api'
    BY <1>1, <2>1, <2>2, <2>3, AddIsTry
  <2>5. tried' = tried \cup {Head(batch)}
    BY <2>4 DEF Channel!Try
  <2>6. last' \in Nat /\ \A d \in tried' : d <= last'
    <3>1. Head(batch) \in Nat /\ \A d \in tried : d \in Nat
      BY <1>1, <2>2, IdsAreNumbers DEF Api
    <3>2. QED
      BY <1>1, <2>1, <2>5, <3>1
  <2>7. QED
    BY <1>1, <2>1, <2>2, <2>3, <2>4, <2>5, <2>6, StepsOfChannel
<1>10. ASSUME Url!Publish, Url!Cardinality(offered) < Url!Cardinality(Ids) PROVE Good
  <2>1. Offer(n + 1) /\ UNCHANGED <<last, batch>>
    BY <1>4, <1>10 DEF Url!Publish, Url!Offer, Offer
  <2>2. n + 1 \in Ids
    BY <1>4, <1>10, SameCount, IdsAssumption, IdsAreNumbers
  <2>3. Channel!Offer(n + 1) /\ Api'
    BY <1>1, <2>1, <2>2, OfferIsOffer
  <2>4. n + 1 \notin offered /\ offered' = offered \cup {n + 1} /\ tried' = tried
    BY <2>1 DEF Offer
  <2>5. WaitingIn(batch', offered', tried')
    <3>1. n + 1 \in Int /\ tried \subseteq offered
      BY <1>1 DEF Api
    <3>2. WaitingIn(batch, offered \cup {n + 1}, tried)
      BY <1>1, <2>2, <2>4, <3>1, AppendWaits
    <3>3. QED
      BY <2>1, <2>4, <3>2
  <2>6. offered' = 1 .. (n + 1)
    BY <1>3, <2>4
  <2>7. QED
    BY <1>1, <2>1, <2>2, <2>3, <2>4, <2>5, <2>6, StepsOfChannel
<1>11. Good
  BY <1>5, <1>6, <1>7, <1>8, <1>9, <1>10 DEF Url!Next, Url!Step
<1>12. QED
  BY <1>2, <1>11 DEF IInv, Waiting, Numbered

\* from_bilibili_live.py: a message is taken from the socket once.
LEMMA LiveStep ==
    ASSUME IInv, script = "live", Live!Next, UNCHANGED <<script, urlVars, botVars>>
    PROVE  [Channel!Next]_(Channel!vars) /\ IInv'
<1> DEFINE Good == /\ [Channel!Next]_(Channel!vars)
                   /\ Api' /\ WaitingIn(inbox', offered', tried')
<1>1. Api /\ WaitingIn(inbox, offered, tried) /\ batch = <<>> /\ datagrams = <<>>
  BY DEF IInv, Waiting, OthersEmpty
<1>2. /\ WaitingIn(batch', offered', tried') /\ WaitingIn(datagrams', offered', tried')
      /\ OthersEmpty' /\ script' = "live"
  BY <1>1, EmptyWaits DEF OthersEmpty, urlVars, botVars
<1>3. ASSUME UNCHANGED apiVars, inbox' \in {inbox, <<>>} PROVE Good
  BY <1>1, <1>3, StepsOfChannel, EmptyWaits DEF apiVars
<1>4. ASSUME Live!Receive PROVE Good
  <2>1. inbox # <<>> /\ inbox' = Tail(inbox)
    BY <1>4 DEF Live!Receive
  <2>2. CASE Head(inbox) \in Ids
    <3>1. AddDanmaku(Head(inbox)) /\ offered' = offered
      BY <1>4, <2>2 DEF Live!Receive, Live!AddDanmaku, AddDanmaku, Live!Replies, Replies
    <3>2. /\ Head(inbox) \in offered /\ Head(inbox) \notin tried
          /\ WaitingIn(inbox', offered, tried \cup {Head(inbox)})
      BY <1>1, <2>1, <2>2, TailWaits
    <3>3. Channel!Try(Head(inbox)) /\ Api'
      BY <1>1, <2>2, <3>1, <3>2, AddIsTry
    <3>4. tried' = tried \cup {Head(inbox)}
      BY <3>3 DEF Channel!Try
    <3>5. QED
      BY <2>2, <3>1, <3>2, <3>3, <3>4, StepsOfChannel
  <2>3. CASE Head(inbox) \notin Ids
    <3>1. UNCHANGED apiVars
      BY <1>4, <2>3 DEF Live!Receive, Live!apiVars, apiVars
    <3>2. WaitingIn(inbox', offered, tried)
      BY <1>1, <2>1, <2>3, TailWaits
    <3>3. QED
      BY <1>1, <3>1, <3>2, StepsOfChannel DEF apiVars
  <2>4. QED
    BY <2>2, <2>3
<1>5. ASSUME Live!Sends PROVE Good
  <2>1. CASE \E d \in Ids : Live!Offer(d) /\ inbox' = Append(inbox, d)
    <3>1. PICK d \in Ids : Offer(d) /\ inbox' = Append(inbox, d)
      BY <2>1 DEF Live!Offer, Offer
    <3>2. Channel!Offer(d) /\ Api'
      BY <1>1, <3>1, OfferIsOffer
    <3>3. d \notin offered /\ offered' = offered \cup {d} /\ tried' = tried
      BY <3>1 DEF Offer
    <3>4. WaitingIn(inbox', offered', tried')
      BY <1>1, <3>1, <3>3, AppendWaits, IdsAreNumbers DEF Api
    <3>5. QED
      BY <3>2, <3>4, StepsOfChannel
  <2>2. CASE \E m \in {Live!Other, Live!Bad, Live!Empty} : inbox' = Append(inbox, m) /\ UNCHANGED apiVars
    <3>1. PICK m \in {0, -1, -2} : inbox' = Append(inbox, m) /\ UNCHANGED apiVars
      BY <2>2 DEF Live!Other, Live!Bad, Live!Empty
    <3>2. WaitingIn(inbox', offered, tried)
      BY <1>1, <3>1, AppendWaits, IdsAreNumbers
    <3>3. QED
      BY <1>1, <3>1, <3>2, StepsOfChannel DEF apiVars
  <2>3. QED
    BY <1>5, <2>1, <2>2 DEF Live!Sends, Live!apiVars, apiVars
<1>6. Good
  BY <1>3, <1>4, <1>5
     DEF Live!Next, Live!Start, Live!Stop, Live!Killed, Live!Returns, Live!Ends, Live!MessageLoop,
         Live!Connects, Live!ConnectFails, Live!SendAuth, Live!ReceiveBad, Live!ReceiveEmpty,
         Live!Lost, Live!Retry, Live!MessageLoopCancelled, Live!HeartbeatLoop, Live!Beat, Live!Sent,
         Live!NotConnected, Live!Spin, Live!HeartbeatCancelled, Live!Closes, apiVars
<1>7. QED
  BY <1>2, <1>6 DEF IInv, Waiting, Numbered

\* from_coolq.py: a datagram is taken from the socket once.
LEMMA BotStep ==
    ASSUME IInv, script = "bot", Bot!Next, UNCHANGED <<script, urlVars, liveVars>>
    PROVE  [Channel!Next]_(Channel!vars) /\ IInv'
<1> DEFINE Good == /\ [Channel!Next]_(Channel!vars)
                   /\ Api' /\ WaitingIn(datagrams', offered', tried')
<1>1. Api /\ WaitingIn(datagrams, offered, tried) /\ batch = <<>> /\ inbox = <<>>
  BY DEF IInv, Waiting, OthersEmpty
<1>2. /\ WaitingIn(batch', offered', tried') /\ WaitingIn(inbox', offered', tried')
      /\ OthersEmpty' /\ script' = "bot"
  BY <1>1, EmptyWaits DEF OthersEmpty, urlVars, liveVars
<1>3. ASSUME UNCHANGED apiVars, datagrams' \in {datagrams, <<>>} PROVE Good
  BY <1>1, <1>3, StepsOfChannel, EmptyWaits DEF apiVars
<1>4. ASSUME Bot!Handle PROVE Good
  <2>1. datagrams # <<>> /\ datagrams' = Tail(datagrams)
    BY <1>4 DEF Bot!Handle
  <2>2. CASE Head(datagrams) \in Ids
    <3>1. AddDanmaku(Head(datagrams)) /\ offered' = offered
      BY <1>4, <2>2 DEF Bot!Handle, Bot!AddDanmaku, AddDanmaku, Bot!Replies, Replies
    <3>2. /\ Head(datagrams) \in offered /\ Head(datagrams) \notin tried
          /\ WaitingIn(datagrams', offered, tried \cup {Head(datagrams)})
      BY <1>1, <2>1, <2>2, TailWaits
    <3>3. Channel!Try(Head(datagrams)) /\ Api'
      BY <1>1, <2>2, <3>1, <3>2, AddIsTry
    <3>4. tried' = tried \cup {Head(datagrams)}
      BY <3>3 DEF Channel!Try
    <3>5. QED
      BY <2>2, <3>1, <3>2, <3>3, <3>4, StepsOfChannel
  <2>3. CASE Head(datagrams) \notin Ids
    <3>1. UNCHANGED apiVars
      BY <1>4, <2>3 DEF Bot!Handle, Bot!apiVars, apiVars
    <3>2. WaitingIn(datagrams', offered, tried)
      BY <1>1, <2>1, <2>3, TailWaits
    <3>3. QED
      BY <1>1, <3>1, <3>2, StepsOfChannel DEF apiVars
  <2>4. QED
    BY <2>2, <2>3
<1>5. ASSUME Bot!Tells PROVE Good
  <2>1. CASE \E d \in Ids : Bot!Offer(d) /\ datagrams' \in {datagrams, Append(datagrams, d)}
    <3>1. PICK d \in Ids : Offer(d) /\ datagrams' \in {datagrams, Append(datagrams, d)}
      BY <2>1 DEF Bot!Offer, Offer
    <3>2. Channel!Offer(d) /\ Api'
      BY <1>1, <3>1, OfferIsOffer
    <3>3. d \notin offered /\ offered' = offered \cup {d} /\ tried' = tried
      BY <3>1 DEF Offer
    <3>4. WaitingIn(datagrams', offered', tried')
      <4>1. d \in Int /\ tried \subseteq offered
        BY <1>1, IdsAreNumbers DEF Api
      <4>2. /\ WaitingIn(datagrams, offered \cup {d}, tried)
            /\ WaitingIn(Append(datagrams, d), offered \cup {d}, tried)
        BY <1>1, <3>3, <4>1, AppendWaits
      <4>3. QED
        BY <3>1, <3>3, <4>2
    <3>5. QED
      BY <3>2, <3>4, StepsOfChannel
  <2>2. CASE \E m \in {Bot!Other, Bot!Bad} : datagrams' = Append(datagrams, m) /\ UNCHANGED apiVars
    <3>1. PICK m \in {0, -1, -2} : datagrams' = Append(datagrams, m) /\ UNCHANGED apiVars
      BY <2>2 DEF Bot!Other, Bot!Bad
    <3>2. WaitingIn(datagrams', offered, tried)
      BY <1>1, <3>1, AppendWaits, IdsAreNumbers
    <3>3. QED
      BY <1>1, <3>1, <3>2, StepsOfChannel DEF apiVars
  <2>3. QED
    BY <1>5, <2>1, <2>2 DEF Bot!Tells, Bot!apiVars, apiVars
<1>6. Good
  BY <1>3, <1>4, <1>5
     DEF Bot!Next, Bot!Create, Bot!Start, Bot!Interrupted, Bot!Exits, Bot!Delete, Bot!Deleted,
         Bot!ServeForever, Bot!ServeEnds, Bot!Hello, Bot!HelloFails, Bot!Wake, Bot!Forgets, apiVars
<1>7. QED
  BY <1>2, <1>6 DEF IInv, Waiting, Numbered

-----------------------------------------------------------------------------

\* Each script begins with empty queues, and the channel with nothing offered.
LEMMA IInvInit == Init => IInv /\ Channel!Init
<1> SUFFICES ASSUME Init PROVE IInv /\ Channel!Init
  OBVIOUS
<1>1. /\ script \in {"url", "live", "bot"} /\ batch = <<>> /\ inbox = <<>> /\ datagrams = <<>> /\ last = 0
      /\ offered = {} /\ tried = {} /\ shown = [d \in Ids |-> 0]
  BY DEF Init, ApiInit, Url!Init, Live!Init, Bot!Init
<1>2. Waiting
  BY <1>1, EmptyWaits DEF Waiting
<1>3. offered = 1 .. 0
  BY <1>1
<1>4. QED
  BY <1>1, <1>2, <1>3 DEF IInv, Api, OthersEmpty, Numbered, Channel!Init

\* A step is one of the script that runs, which keeps the strengthening.
LEMMA IInvStep == IInv /\ [Next]_vars => [Channel!Next]_(Channel!vars) /\ IInv'
<1> SUFFICES ASSUME IInv, [Next]_vars PROVE [Channel!Next]_(Channel!vars) /\ IInv'
  OBVIOUS
<1>1. CASE Next
  BY <1>1, UrlStep, LiveStep, BotStep DEF Next
<1>2. CASE UNCHANGED vars
  <2>1. Api' /\ [Channel!Next]_(Channel!vars)
    BY <1>2, StepsOfChannel DEF vars, apiVars, IInv
  <2>2. Waiting' /\ OthersEmpty' /\ Numbered'
    BY <1>2 DEF vars, urlVars, liveVars, botVars, IInv, Waiting, OthersEmpty, Numbered
  <2>3. QED
    BY <2>1, <2>2 DEF IInv
<1>3. QED
  BY <1>1, <1>2

-----------------------------------------------------------------------------
(* Types                                                                   *)

\* What the types rest on besides: a room that is not watched has no websocket.
TypeInv == TypeOK /\ (liveProgram = "off" => ~websocket)

\* A queue is as long as its bound, and what is taken from it shortens it.
LEMMA TailIsShorter ==
    ASSUME NEW q \in Seq(Int), q # <<>>, Len(q) <= MaxQueue
    PROVE  Len(Tail(q)) <= MaxQueue
<1>1. Len(Tail(q)) = Len(q) - 1 /\ Len(q) \in Nat
  BY HeadTailProperties
<1>2. QED
  BY <1>1, QueueAssumption

\* The last id is that of a danmaku, or none: also when the program has begun
\* by asking for it.
LEMMA UrlTypes ==
    ASSUME IInv, Url!TypeOK, script = "url", Url!Next
    PROVE  Url!TypeOK'
<1>1. PICK n \in Nat : offered = 1 .. n
  BY DEF IInv, Numbered
<1>2. Url!Cardinality(offered) \in Ids \cup {0}
  <2>1. Url!Cardinality(offered) = n
    BY <1>1, FS_Interval, SameCount
  <2>2. CASE n = 0
    BY <2>1, <2>2
  <2>3. CASE n # 0
    BY <1>1, <2>1, <2>3 DEF IInv, Api
  <2>4. QED
    BY <2>2, <2>3
<1>3. ASSUME Url!Poll PROVE batch' \in Seq(Ids)
  <2> DEFINE S == {d \in offered : d >= last + 1}
  <2>1. S \cap tried = {} /\ offered \in SUBSET Ids /\ S \in SUBSET offered
    <3>1. last \in Nat /\ \A d \in tried : d <= last /\ d \in Nat
      BY IdsAreNumbers DEF IInv, Numbered, Api
    <3>2. QED
      BY <3>1 DEF IInv, Api
  <2>2. QED
    BY <1>3, <2>1, RecordsWait DEF Url!Poll
<1>4. CASE Url!Post
  <2>1. Head(batch) \in Ids /\ Tail(batch) \in Seq(Ids)
    BY <1>4 DEF Url!Post, Url!TypeOK
  <2>2. QED
    BY <1>4, <2>1 DEF Url!Post, Url!TypeOK
<1>5. CASE Url!Launch \/ Url!Sleep \/ Url!Publish
  BY <1>5 DEF Url!Launch, Url!Sleep, Url!Publish, Url!TypeOK
<1>6. CASE Url!GetLastId
  BY <1>2, <1>6 DEF Url!GetLastId, Url!TypeOK
<1>7. CASE Url!Poll
  BY <1>3, <1>7 DEF Url!Poll, Url!TypeOK
<1>8. CASE Url!Dies
  BY <1>8 DEF Url!Dies, Url!TypeOK
<1>9. QED
  BY <1>4, <1>5, <1>6, <1>7, <1>8 DEF Url!Next, Url!Step

\* There is a websocket only while the message loop has a connection, over all
\* losses, cancellations and restarts.
LEMMA LiveTypes ==
    ASSUME IInv, Live!TypeOK, liveProgram = "off" => ~websocket, Live!Next
    PROVE  Live!TypeOK' /\ (liveProgram' = "off" => ~websocket')
<1>1. inbox \in Seq(Int) /\ Len(inbox) \in Nat /\ Len(<<>>) = 0 /\ 0 <= MaxQueue
  BY QueueAssumption DEF IInv, Waiting, WaitingIn
<1>2. Len(inbox) <= MaxQueue
  BY DEF Live!TypeOK
<1>3. Len(inbox') <= MaxQueue
  <2>1. CASE inbox' \in {inbox, <<>>}
    BY <1>1, <1>2, <2>1
  <2>2. CASE Live!Receive
    BY <1>1, <1>2, <2>2, TailIsShorter DEF Live!Receive
  <2>3. CASE Live!Sends
    <3>1. Len(inbox) < MaxQueue /\ \E m \in Int : inbox' = Append(inbox, m)
      BY <2>3, IdsAreNumbers DEF Live!Sends, Live!Other, Live!Bad, Live!Empty
    <3>2. QED
      BY <1>1, <3>1, QueueAssumption
  <2>4. QED
    BY <2>1, <2>2, <2>3
       DEF Live!Next, Live!Start, Live!Stop, Live!Killed, Live!Returns, Live!Ends, Live!MessageLoop,
           Live!Connects, Live!ConnectFails, Live!SendAuth, Live!ReceiveBad, Live!ReceiveEmpty,
           Live!Lost, Live!Retry, Live!MessageLoopCancelled, Live!HeartbeatLoop, Live!Beat,
           Live!Sent, Live!NotConnected, Live!Spin, Live!HeartbeatCancelled, Live!Closes
<1> USE DEF Live!loops, Live!Resumes, Live!TypeOK
<1>4. CASE Live!Start
  BY <1>3, <1>4 DEF Live!Start
<1>5. CASE Live!Stop
  BY <1>3, <1>5 DEF Live!Stop
<1>6. CASE Live!Killed
  BY <1>3, <1>6 DEF Live!Killed, Live!Ends
<1>7. CASE Live!Returns
  BY <1>3, <1>7 DEF Live!Returns, Live!Ends
<1>8. CASE Live!Connects
  BY <1>3, <1>8 DEF Live!Connects
<1>9. CASE Live!ConnectFails
  BY <1>3, <1>9 DEF Live!ConnectFails, Live!Ends
<1>10. CASE Live!SendAuth
  BY <1>3, <1>10 DEF Live!SendAuth
<1>11. CASE Live!Receive
  BY <1>3, <1>11 DEF Live!Receive
<1>12. CASE Live!ReceiveBad
  BY <1>3, <1>12 DEF Live!ReceiveBad, Live!Ends
<1>13. CASE Live!ReceiveEmpty
  BY <1>3, <1>13 DEF Live!ReceiveEmpty
<1>14. CASE Live!Lost
  BY <1>3, <1>14 DEF Live!Lost
<1>15. CASE Live!Retry
  BY <1>3, <1>15 DEF Live!Retry
<1>16. CASE Live!MessageLoopCancelled
  BY <1>3, <1>16 DEF Live!MessageLoopCancelled
<1>17. CASE Live!Beat \/ Live!Sent \/ Live!NotConnected
  BY <1>3, <1>17 DEF Live!Beat, Live!Sent, Live!NotConnected
<1>18. CASE Live!Spin \/ Live!HeartbeatCancelled
  BY <1>3, <1>18 DEF Live!Spin, Live!HeartbeatCancelled
<1>19. CASE Live!Sends \/ Live!Closes
  BY <1>3, <1>19 DEF Live!Sends, Live!Closes
<1>20. QED
  BY <1>4, <1>5, <1>6, <1>7, <1>8, <1>9, <1>10, <1>11, <1>12, <1>13, <1>14, <1>15, <1>16, <1>17, <1>18, <1>19
     DEF Live!Next, Live!MessageLoop, Live!HeartbeatLoop

\* shutdown() has been asked for exactly while the bot is being deleted, and no
\* thread outlives the process.
LEMMA BotTypes ==
    ASSUME IInv, Bot!TypeOK, Bot!Next
    PROVE  Bot!TypeOK'
<1>1. /\ datagrams \in Seq(Int) /\ Len(datagrams) \in Nat /\ Len(<<>>) = 0 /\ 0 <= MaxQueue
      /\ Len(datagrams) <= MaxQueue
  BY QueueAssumption DEF IInv, Waiting, WaitingIn, Bot!TypeOK
<1> USE DEF Bot!threads, Bot!TypeOK
<1>2. CASE Bot!Create
  BY <1>1, <1>2 DEF Bot!Create
<1>3. CASE Bot!Start
  BY <1>1, <1>3 DEF Bot!Start
<1>4. CASE Bot!Interrupted
  BY <1>1, <1>4 DEF Bot!Interrupted, Bot!Exits
<1>5. CASE Bot!Delete
  BY <1>1, <1>5 DEF Bot!Delete
<1>6. CASE Bot!Deleted
  BY <1>1, <1>6 DEF Bot!Deleted, Bot!Exits
<1>7. CASE Bot!Handle
  <2>1. Len(datagrams') <= MaxQueue
    BY <1>1, <1>7, TailIsShorter DEF Bot!Handle
  <2>2. QED
    BY <1>7, <2>1 DEF Bot!Handle
<1>8. CASE Bot!ServeForever \/ Bot!ServeEnds
  BY <1>8 DEF Bot!ServeForever, Bot!ServeEnds
<1>9. ASSUME NEW arrives \in BOOLEAN, Bot!Hello(arrives) PROVE Bot!TypeOK'
  BY <1>9 DEF Bot!Hello
<1>10. CASE Bot!HelloFails \/ Bot!Wake
  BY <1>10 DEF Bot!HelloFails, Bot!Wake
<1>11. CASE Bot!Tells
  BY <1>11 DEF Bot!Tells
<1>12. CASE Bot!Forgets
  BY <1>12 DEF Bot!Forgets
<1>13. QED
  BY <1>2, <1>3, <1>4, <1>5, <1>6, <1>7, <1>8, <1>9, <1>10, <1>11, <1>12 DEF Bot!Next

LEMMA TypeInvInit == Init => TypeInv
<1> SUFFICES ASSUME Init PROVE TypeInv
  OBVIOUS
<1>1. Len(<<>>) = 0 /\ 0 <= MaxQueue
  BY QueueAssumption
<1>2. ApiTypeOK
  BY DEF Init, ApiInit, ApiTypeOK
<1>3. Url!TypeOK
  BY DEF Init, Url!Init, Url!TypeOK
<1>4. Live!TypeOK /\ ~websocket
  BY <1>1 DEF Init, Live!Init, Live!TypeOK
<1>5. Bot!TypeOK
  BY <1>1 DEF Init, Bot!Init, Bot!TypeOK
<1>6. QED
  BY <1>2, <1>3, <1>4, <1>5 DEF TypeInv, TypeOK

\* A step keeps the types of the script that runs, and changes nothing of the
\* others.
LEMMA TypeInvStep == IInv /\ IInv' /\ TypeInv /\ [Next]_vars => TypeInv'
<1> SUFFICES ASSUME IInv, IInv', TypeInv, [Next]_vars PROVE TypeInv'
  OBVIOUS
<1>1. ApiTypeOK'
  BY DEF IInv, Api, ApiTypeOK
<1>2. UNCHANGED urlVars => Url!TypeOK'
  BY DEF TypeInv, TypeOK, urlVars, Url!TypeOK
<1>3. UNCHANGED liveVars => Live!TypeOK' /\ (liveProgram' = "off" => ~websocket')
  BY DEF TypeInv, TypeOK, liveVars, Live!TypeOK
<1>4. UNCHANGED botVars => Bot!TypeOK'
  BY DEF TypeInv, TypeOK, botVars, Bot!TypeOK
<1>5. CASE script = "url" /\ Url!Next /\ UNCHANGED <<liveVars, botVars>>
  BY <1>1, <1>3, <1>4, <1>5, UrlTypes DEF TypeInv, TypeOK
<1>6. CASE script = "live" /\ Live!Next /\ UNCHANGED <<urlVars, botVars>>
  BY <1>1, <1>2, <1>4, <1>6, LiveTypes DEF TypeInv, TypeOK
<1>7. CASE script = "bot" /\ Bot!Next /\ UNCHANGED <<urlVars, liveVars>>
  BY <1>1, <1>2, <1>3, <1>7, BotTypes DEF TypeInv, TypeOK
<1>8. CASE UNCHANGED vars
  BY <1>1, <1>2, <1>3, <1>4, <1>8 DEF vars, TypeInv, TypeOK
<1>9. QED
  BY <1>5, <1>6, <1>7, <1>8 DEF Next

-----------------------------------------------------------------------------

\* For any number of danmaku, whatever fails, is lost, interrupted or started
\* again: a script hands each danmaku over at most once, and none that was not
\* there.
THEOREM ChannelImplemented == Spec => ImplementsChannel
  BY IInvInit, IInvStep, PTL DEF Spec, ImplementsChannel, Channel!Spec

\* The scripts' variables keep their types, and the relations between them that
\* TypeOK states: records wait only while they are being posted, there is a
\* websocket only with a connection, shutdown() has been called exactly while
\* the bot is being deleted.
THEOREM TypeCorrect == Spec => []TypeOK
<1>1. TypeInv => TypeOK
  BY DEF TypeInv
<1>2. QED
  BY IInvInit, IInvStep, TypeInvInit, TypeInvStep, <1>1, PTL DEF Spec
=============================================================================
