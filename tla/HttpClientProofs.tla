-------------------------- MODULE HttpClientProofs --------------------------
(***************************************************************************)
(* Proofs about HttpClient for any finite number of requests and any       *)
(* number of connections: connections are not shared, the pool keeps one   *)
(* idle connection and loses none, and a request is repeated at most once. *)
(***************************************************************************)
EXTENDS HttpClient, FiniteSetTheorems, TLAPS

\* A session that has not begun, or is over, has nothing pending.
Quiet == \A r \in Requests : ~Active(r) => event[r] = "none"

\* A connection of the pool that a request has is marked as in use, so that no
\* other request takes it.
Marked == \A r \in Requests : conn[r] \in connections => inUse[conn[r]]

Early == {"resolving", "connecting", "asking", "asked", "handshake"}

\* How often a request was written and called back at each of its stages: it is
\* written a second time only on a connection that is not replaced any more.
Attempts ==
    \A r \in Requests :
        /\ called[r] = IF stage[r] = "done" THEN 1 ELSE 0
        /\ stage[r] = "new" => sent[r] = 0
        /\ stage[r] \in Early => sent[r] = 0 \/ (sent[r] = 1 /\ ~attempt[conn[r]])
        /\ stage[r] \in {"writing", "header"} => sent[r] <= 1 \/ (sent[r] = 2 /\ ~attempt[conn[r]])
        /\ stage[r] \in {"content", "done", "lost"} => sent[r] <= 2

\* Of the connections that no request uses there is one at most.
OneIdle == \A c \in Idle, d \in Idle : c = d

Leaked == {c \in connections : inUse[c] /\ \A r \in Requests : conn[r] # c}
Lost == {r \in Requests : stage[r] = "lost"}

\* Every connection that was leaked goes back to a session that was lost.
LeakedFew ==
    client = "alive" => IsFiniteSet(Leaked) /\ Cardinality(Leaked) <= Cardinality(Lost)

IInv ==
    /\ TypeOK
    /\ Quiet
    /\ Marked
    /\ Exclusive
    /\ Attempts
    /\ OneIdle
    /\ LeakedFew

\* The strengthening holds before any request.
LEMMA IInvInit == Init => IInv
<1> SUFFICES ASSUME Init PROVE IInv
  OBVIOUS
<1> USE ConnAssumption
<1>1. TypeOK
  BY DEF Init, TypeOK, Stages, Active
<1>2. Quiet /\ Marked /\ Exclusive /\ Attempts /\ OneIdle
  BY DEF Init, Quiet, Marked, Exclusive, Active, Attempts, Early, OneIdle, Idle
<1>3. Leaked = {} /\ Lost = {}
  BY DEF Init, Leaked, Lost
<1>4. LeakedFew
  BY <1>3, FS_EmptySet DEF LeakedFew
<1>5. QED
  BY <1>1, <1>2, <1>4 DEF IInv

-----------------------------------------------------------------------------

\* What the steps that end with the session's callback have in common.
EndsWithCallback(r) ==
    /\ client = "alive" /\ Active(r)
    /\ \E failed \in BOOLEAN : Callback(r, failed)
    /\ attempt' \in {attempt, [attempt EXCEPT ![conn[r]] = TRUE]}

\* The five ways in which a session ends by calling back have this in common.
LEMMA CallbackCases ==
    ASSUME TypeOK, Quiet, NEW r \in Requests,
           \/ TunnelRefused(r) \/ FailsEarly(r) \/ AnswerEnds(r)
           \/ ContentFails(r) \/ HeaderFails(r)
    PROVE  EndsWithCallback(r)
<1> USE DEF TypeOK, Quiet, EndsWithCallback, Handles
<1>1. CASE TunnelRefused(r)
  BY <1>1 DEF TunnelRefused, Active
<1>2. CASE FailsEarly(r)
  BY <1>2 DEF FailsEarly
<1>3. CASE AnswerEnds(r)
  BY <1>3 DEF AnswerEnds, Active
<1>4. CASE ContentFails(r)
  BY <1>4 DEF ContentFails, Active
<1>5. CASE HeaderFails(r)
  BY <1>5 DEF HeaderFails, Active
<1>6. QED
  BY <1>1, <1>2, <1>3, <1>4, <1>5

\* A session that takes a connection keeps the types.
LEMMA ConnectTypes ==
    ASSUME TypeOK, NEW r \in Requests, NEW c \in Conns, NEW isOpen,
           Connect(r, c, isOpen), transport' = transport, timed' = timed
    PROVE  /\ stage' \in [Requests -> Stages]
           /\ conn' \in [Requests -> Conns \cup {NoConn}]
           /\ \A q \in Requests : Active(q)' <=> conn'[q] # NoConn
           /\ event' \in [Requests -> {"none", "ok", "error", "aborted"}]
           /\ sent' \in [Requests -> Nat]
           /\ timer' \in [Conns -> BOOLEAN]
           /\ \A d \in Conns : timer'[d] => \E q \in Requests : conn'[q] = d
<1> USE ConnAssumption DEF TypeOK, Connect
<1>1. stage' \in [Requests -> Stages] /\ conn' \in [Requests -> Conns \cup {NoConn}]
  BY DEF Stages
<1>2. \A q \in Requests : Active(q)' <=> conn'[q] # NoConn
  BY DEF Active
<1>3. event' \in [Requests -> {"none", "ok", "error", "aborted"}] /\ sent' \in [Requests -> Nat]
  OBVIOUS
<1>4. timer' \in [Conns -> BOOLEAN]
  OBVIOUS
<1>5. ASSUME NEW d \in Conns, timer'[d] PROVE \E q \in Requests : conn'[q] = d
  <2>1. CASE d = c
    BY <2>1
  <2>2. CASE d # c
    <3>1. timer[d] /\ d # conn[r]
      BY <1>5, <2>2
    <3>2. PICK q \in Requests : conn[q] = d
      BY <3>1
    <3>3. QED
      BY <3>1, <3>2
  <2>3. QED
    BY <2>1, <2>2
<1>6. QED
  BY <1>1, <1>2, <1>3, <1>4, <1>5

\* So does one that ends.
LEMMA EndsTypes ==
    ASSUME TypeOK, NEW r \in Requests, Active(r), NEW how \in {"done", "lost"}, Ends(r, how)
    PROVE  /\ stage' \in [Requests -> Stages]
           /\ conn' \in [Requests -> Conns \cup {NoConn}]
           /\ \A q \in Requests : Active(q)' <=> conn'[q] # NoConn
           /\ event' \in [Requests -> {"none", "ok", "error", "aborted"}]
           /\ timer' \in [Conns -> BOOLEAN]
           /\ \A d \in Conns : timer'[d] => \E q \in Requests : conn'[q] = d
<1> USE ConnAssumption DEF TypeOK, Ends
<1>1. stage' \in [Requests -> Stages] /\ conn' \in [Requests -> Conns \cup {NoConn}]
  BY DEF Stages
<1>2. \A q \in Requests : Active(q)' <=> conn'[q] # NoConn
  BY DEF Active
<1>3. \A d \in Conns : timer'[d] => timer[d] /\ d # conn[r]
  OBVIOUS
<1>4. \A d \in Conns : timer'[d] => \E q \in Requests : conn'[q] = d
  BY <1>3
<1>5. QED
  BY <1>1, <1>2, <1>4

\* Every step keeps the types; a timer that waits belongs to a session.
LEMMA TypeStep ==
    TypeOK /\ Quiet /\ [Next]_vars => TypeOK'
<1> SUFFICES ASSUME TypeOK, Quiet, [Next]_vars PROVE TypeOK'
  OBVIOUS
<1> USE ConnAssumption, TransportsAssumption DEF TypeOK, Quiet, Active, OnSocket, Stages
<1>1. ASSUME NEW r \in Requests, TakeIdle(r) PROVE TypeOK'
  <2>1. PICK c \in Conns :
          /\ Connect(r, c, open[c])
          /\ attempt' = [attempt EXCEPT ![c] = TRUE]
          /\ inUse' = [inUse EXCEPT ![c] = TRUE]
    BY <1>1 DEF TakeIdle, Idle
  <2>2. QED
    BY ONLY <1>1, <2>1, ConnectTypes, TypeOK DEF TakeIdle, TypeOK
<1>2. ASSUME NEW r \in Requests, TakeNew(r) PROVE TypeOK'
  <2>1. PICK c \in Conns :
          /\ Connect(r, c, FALSE)
          /\ connections' = connections \cup {c}
          /\ attempt' = [attempt EXCEPT ![c] = TRUE]
          /\ inUse' = [inUse EXCEPT ![c] = TRUE]
          /\ open' = [open EXCEPT ![c] = FALSE]
    BY <1>2 DEF TakeNew
  <2>2. QED
    BY ONLY <1>2, <2>1, ConnectTypes, TypeOK DEF TakeNew, TypeOK
<1>3. ASSUME NEW r \in Requests, Resolved(r) PROVE TypeOK'
  BY <1>3 DEF Resolved, Handles, Continue
<1>4. ASSUME NEW r \in Requests, Connected(r) PROVE TypeOK'
  BY <1>4 DEF Connected, Handles, Continue, AfterConnect
<1>5. ASSUME NEW r \in Requests, Written(r) PROVE TypeOK'
  BY <1>5 DEF Written, Handles, Continue
<1>6. ASSUME NEW r \in Requests, ContentFollows(r) PROVE TypeOK'
  BY <1>6 DEF ContentFollows, Handles, Continue
<1>7. ASSUME NEW r \in Requests, EndsWithCallback(r) PROVE TypeOK'
  <2>1. PICK failed \in BOOLEAN : Callback(r, failed)
    BY <1>7 DEF EndsWithCallback
  <2>2. Active(r) /\ Ends(r, "done")
    BY <1>7, <2>1 DEF EndsWithCallback, Callback
  <2>3. connections' \subseteq connections
    BY <2>1 DEF Callback
  <2>4. /\ inUse' = [inUse EXCEPT ![conn[r]] = FALSE]
        /\ called' = [called EXCEPT ![r] = called[r] + 1]
        /\ UNCHANGED <<transport, timed, sent, open, expired, client>>
    BY <2>1, Zenon DEF Callback
  <2>5. attempt' \in {attempt, [attempt EXCEPT ![conn[r]] = TRUE]}
    BY <1>7 DEF EndsWithCallback
  <2>6. inUse' \in [Conns -> BOOLEAN] /\ called' \in [Requests -> Nat]
    <3>1. called' \in [Requests -> Nat]
      BY <2>4
    <3>2. inUse' \in [Conns -> BOOLEAN]
      BY <2>4
    <3>3. QED
      BY <3>1, <3>2
  <2>7. attempt' \in [Conns -> BOOLEAN]
    <3>1. CASE attempt' = attempt
      BY ONLY <3>1, TypeOK DEF TypeOK
    <3>2. CASE attempt' = [attempt EXCEPT ![conn[r]] = TRUE]
      BY ONLY <3>2, TypeOK DEF TypeOK
    <3>3. QED
      BY ONLY <2>5, <3>1, <3>2
  <2>8. QED
    BY ONLY <2>2, <2>3, <2>4, <2>6, <2>7, EndsTypes, TypeOK DEF TypeOK
<1>8. ASSUME NEW r \in Requests, LengthThrows(r) PROVE TypeOK'
  BY <1>8 DEF LengthThrows, Handles, Ends
<1>9. ASSUME NEW r \in Requests, Reconnect(r) PROVE TypeOK'
  <2>1. PICK c \in Conns :
          /\ Connect(r, c, FALSE)
          /\ connections' = (connections \ {conn[r]}) \cup {c}
          /\ attempt' = [attempt EXCEPT ![c] = FALSE]
          /\ inUse' = [inUse EXCEPT ![c] = TRUE]
          /\ open' = [open EXCEPT ![c] = FALSE]
    BY <1>9 DEF Reconnect
  <2>2. QED
    BY ONLY <1>9, <2>1, ConnectTypes, TypeOK DEF Reconnect, TypeOK
<1>10. ASSUME NEW r \in Requests, Refused(r) PROVE TypeOK'
  BY <1>10 DEF Refused, Ends
<1>11. ASSUME NEW r \in Requests, Succeeds(r) PROVE TypeOK'
  BY <1>11 DEF Succeeds
<1>12. ASSUME NEW r \in Requests, Fails(r) PROVE TypeOK'
  BY <1>12 DEF Fails
<1>13. ASSUME NEW c \in Conns, Expires(c) PROVE TypeOK'
  BY <1>13 DEF Expires
<1>14. ASSUME NEW c \in Conns, TimedOut(c) PROVE TypeOK'
  BY <1>14 DEF TimedOut, Cancel
<1>15. CASE Stop
  BY <1>15 DEF Stop, Cancel
<1>16. CASE Destroy
  BY <1>16 DEF Destroy
<1>17. CASE UNCHANGED vars
  BY <1>17 DEF vars
<1>18. QED
  BY <1>1, <1>2, <1>3, <1>4, <1>5, <1>6, <1>7, <1>8, <1>9, <1>10, <1>11, <1>12, <1>13, <1>14, <1>15, <1>16, <1>17, CallbackCases DEF Next, Handler

\* A session that ends has nothing pending left.
LEMMA QuietStep ==
    TypeOK /\ Quiet /\ [Next]_vars => Quiet'
<1> SUFFICES ASSUME TypeOK, Quiet, [Next]_vars PROVE Quiet'
  OBVIOUS
<1> USE ConnAssumption, TransportsAssumption DEF TypeOK, Quiet, Active, OnSocket, Stages
<1>1. ASSUME NEW r \in Requests, TakeIdle(r) PROVE Quiet'
  BY <1>1 DEF TakeIdle, Connect, Idle
<1>2. ASSUME NEW r \in Requests, TakeNew(r) PROVE Quiet'
  BY <1>2 DEF TakeNew, Connect, Fresh, Idle
<1>3. ASSUME NEW r \in Requests, Resolved(r) PROVE Quiet'
  BY <1>3 DEF Resolved, Handles, Continue
<1>4. ASSUME NEW r \in Requests, Connected(r) PROVE Quiet'
  BY <1>4 DEF Connected, Handles, Continue, AfterConnect
<1>5. ASSUME NEW r \in Requests, Written(r) PROVE Quiet'
  BY <1>5 DEF Written, Handles, Continue
<1>6. ASSUME NEW r \in Requests, ContentFollows(r) PROVE Quiet'
  BY <1>6 DEF ContentFollows, Handles, Continue
<1>7. ASSUME NEW r \in Requests, EndsWithCallback(r) PROVE Quiet'
  BY <1>7 DEF EndsWithCallback, Callback, Ends
<1>8. ASSUME NEW r \in Requests, LengthThrows(r) PROVE Quiet'
  BY <1>8 DEF LengthThrows, Handles, Ends
<1>9. ASSUME NEW r \in Requests, Reconnect(r) PROVE Quiet'
  BY <1>9 DEF Reconnect, Handles, Retries, Connect, Successor, Fresh
<1>10. ASSUME NEW r \in Requests, Refused(r) PROVE Quiet'
  BY <1>10 DEF Refused, Ends
<1>11. ASSUME NEW r \in Requests, Succeeds(r) PROVE Quiet'
  BY <1>11 DEF Succeeds
<1>12. ASSUME NEW r \in Requests, Fails(r) PROVE Quiet'
  BY <1>12 DEF Fails
<1>13. ASSUME NEW c \in Conns, Expires(c) PROVE Quiet'
  BY <1>13 DEF Expires
<1>14. ASSUME NEW c \in Conns, TimedOut(c) PROVE Quiet'
  BY <1>14 DEF TimedOut, Cancel
<1>15. CASE Stop
  BY <1>15 DEF Stop, Cancel
<1>16. CASE Destroy
  BY <1>16 DEF Destroy
<1>17. CASE UNCHANGED vars
  BY <1>17 DEF vars
<1>18. QED
  BY <1>1, <1>2, <1>3, <1>4, <1>5, <1>6, <1>7, <1>8, <1>9, <1>10, <1>11, <1>12, <1>13, <1>14, <1>15, <1>16, <1>17, CallbackCases DEF Next, Handler

\* A connection changes hands only when nobody has it.
LEMMA MarkedStep ==
    TypeOK /\ Quiet /\ Marked /\ Exclusive /\ [Next]_vars => (Marked /\ Exclusive)'
<1> SUFFICES ASSUME TypeOK, Quiet, Marked, Exclusive, [Next]_vars PROVE (Marked /\ Exclusive)'
  OBVIOUS
<1> USE ConnAssumption, TransportsAssumption DEF TypeOK, Quiet, Active, OnSocket, Stages, Marked, Exclusive
<1>1. ASSUME NEW r \in Requests, TakeIdle(r) PROVE (Marked /\ Exclusive)'
  BY <1>1 DEF TakeIdle, Connect, Idle
<1>2. ASSUME NEW r \in Requests, TakeNew(r) PROVE (Marked /\ Exclusive)'
  BY <1>2 DEF TakeNew, Connect, Fresh, Idle
<1>3. ASSUME NEW r \in Requests, Resolved(r) PROVE (Marked /\ Exclusive)'
  BY <1>3 DEF Resolved, Handles, Continue
<1>4. ASSUME NEW r \in Requests, Connected(r) PROVE (Marked /\ Exclusive)'
  BY <1>4 DEF Connected, Handles, Continue, AfterConnect
<1>5. ASSUME NEW r \in Requests, Written(r) PROVE (Marked /\ Exclusive)'
  BY <1>5 DEF Written, Handles, Continue
<1>6. ASSUME NEW r \in Requests, ContentFollows(r) PROVE (Marked /\ Exclusive)'
  BY <1>6 DEF ContentFollows, Handles, Continue
<1>7. ASSUME NEW r \in Requests, EndsWithCallback(r) PROVE (Marked /\ Exclusive)'
  BY <1>7 DEF EndsWithCallback, Callback, Ends
<1>8. ASSUME NEW r \in Requests, LengthThrows(r) PROVE (Marked /\ Exclusive)'
  BY <1>8 DEF LengthThrows, Handles, Ends
<1>9. ASSUME NEW r \in Requests, Reconnect(r) PROVE (Marked /\ Exclusive)'
  BY <1>9 DEF Reconnect, Handles, Retries, Connect, Successor, Fresh
<1>10. ASSUME NEW r \in Requests, Refused(r) PROVE (Marked /\ Exclusive)'
  BY <1>10 DEF Refused, Ends
<1>11. ASSUME NEW r \in Requests, Succeeds(r) PROVE (Marked /\ Exclusive)'
  BY <1>11 DEF Succeeds
<1>12. ASSUME NEW r \in Requests, Fails(r) PROVE (Marked /\ Exclusive)'
  BY <1>12 DEF Fails
<1>13. ASSUME NEW c \in Conns, Expires(c) PROVE (Marked /\ Exclusive)'
  BY <1>13 DEF Expires
<1>14. ASSUME NEW c \in Conns, TimedOut(c) PROVE (Marked /\ Exclusive)'
  BY <1>14 DEF TimedOut, Cancel
<1>15. CASE Stop
  BY <1>15 DEF Stop, Cancel
<1>16. CASE Destroy
  BY <1>16 DEF Destroy
<1>17. CASE UNCHANGED vars
  BY <1>17 DEF vars
<1>18. QED
  BY <1>1, <1>2, <1>3, <1>4, <1>5, <1>6, <1>7, <1>8, <1>9, <1>10, <1>11, <1>12, <1>13, <1>14, <1>15, <1>16, <1>17, CallbackCases DEF Next, Handler

\* The second attempt is made with attempt_reconnect off, and nothing turns it
\* on before the header has been read.
LEMMA AttemptsStep ==
    TypeOK /\ Quiet /\ Marked /\ Exclusive /\ Attempts /\ [Next]_vars => Attempts'
<1> SUFFICES ASSUME TypeOK, Quiet, Marked, Exclusive, Attempts, [Next]_vars PROVE Attempts'
  OBVIOUS
<1> USE ConnAssumption, TransportsAssumption DEF TypeOK, Quiet, Active, OnSocket, Stages, Marked, Exclusive, Attempts, Early
<1>1. ASSUME NEW r \in Requests, TakeIdle(r) PROVE Attempts'
  BY <1>1 DEF TakeIdle, Connect, Idle
<1>2. ASSUME NEW r \in Requests, TakeNew(r) PROVE Attempts'
  BY <1>2 DEF TakeNew, Connect, Fresh, Idle
<1>3. ASSUME NEW r \in Requests, Resolved(r) PROVE Attempts'
  BY <1>3 DEF Resolved, Handles, Continue
<1>4. ASSUME NEW r \in Requests, Connected(r) PROVE Attempts'
  BY <1>4 DEF Connected, Handles, Continue, AfterConnect
<1>5. ASSUME NEW r \in Requests, Written(r) PROVE Attempts'
  BY <1>5 DEF Written, Handles, Continue
<1>6. ASSUME NEW r \in Requests, ContentFollows(r) PROVE Attempts'
  BY <1>6 DEF ContentFollows, Handles, Continue
<1>7. ASSUME NEW r \in Requests, EndsWithCallback(r) PROVE Attempts'
  BY <1>7 DEF EndsWithCallback, Callback, Ends
<1>8. ASSUME NEW r \in Requests, LengthThrows(r) PROVE Attempts'
  BY <1>8 DEF LengthThrows, Handles, Ends
<1>9. ASSUME NEW r \in Requests, Reconnect(r) PROVE Attempts'
  <2>1. PICK c \in Conns :
          /\ Successor(r, c)
          /\ Connect(r, c, FALSE)
          /\ attempt' = [attempt EXCEPT ![c] = FALSE]
    BY <1>9 DEF Reconnect
  <2>2. stage[r] = "header" /\ attempt[conn[r]] /\ called' = called
    BY <1>9 DEF Reconnect, Handles, Retries
  <2>3. sent[r] <= 1 /\ sent'[r] = sent[r] /\ stage'[r] = "resolving" /\ ~attempt'[conn'[r]]
    BY <2>1, <2>2 DEF Connect
  <2>4. ASSUME NEW q \in Requests, q # r
        PROVE  /\ stage'[q] = stage[q] /\ sent'[q] = sent[q] /\ conn'[q] = conn[q]
               /\ Active(q) => attempt'[conn[q]] = attempt[conn[q]]
    <3>1. Active(q) => conn[q] # c
      BY <2>1, <2>2, <2>4 DEF Successor, Fresh
    <3>2. Active(q) => conn[q] \in Conns
      OBVIOUS
    <3>3. Active(q) => attempt'[conn[q]] = attempt[conn[q]]
      BY <2>1, <3>1, <3>2
    <3>4. stage'[q] = stage[q] /\ sent'[q] = sent[q] /\ conn'[q] = conn[q]
      BY <2>1, <2>4 DEF Connect
    <3>5. QED
      BY <3>3, <3>4
  <2>5. QED
    BY <2>2, <2>3, <2>4
<1>10. ASSUME NEW r \in Requests, Refused(r) PROVE Attempts'
  BY <1>10 DEF Refused, Ends
<1>11. ASSUME NEW r \in Requests, Succeeds(r) PROVE Attempts'
  BY <1>11 DEF Succeeds
<1>12. ASSUME NEW r \in Requests, Fails(r) PROVE Attempts'
  BY <1>12 DEF Fails
<1>13. ASSUME NEW c \in Conns, Expires(c) PROVE Attempts'
  BY <1>13 DEF Expires
<1>14. ASSUME NEW c \in Conns, TimedOut(c) PROVE Attempts'
  BY <1>14 DEF TimedOut, Cancel
<1>15. CASE Stop
  BY <1>15 DEF Stop, Cancel
<1>16. CASE Destroy
  BY <1>16 DEF Destroy
<1>17. CASE UNCHANGED vars
  BY <1>17 DEF vars
<1>18. QED
  BY <1>1, <1>2, <1>3, <1>4, <1>5, <1>6, <1>7, <1>8, <1>9, <1>10, <1>11, <1>12, <1>13, <1>14, <1>15, <1>16, <1>17, CallbackCases DEF Next, Handler

\* A connection is given back to a pool that keeps one.
LEMMA IdleStep ==
    TypeOK /\ Quiet /\ OneIdle /\ [Next]_vars => OneIdle'
<1> SUFFICES ASSUME TypeOK, Quiet, OneIdle, [Next]_vars PROVE OneIdle'
  OBVIOUS
<1> USE ConnAssumption, TransportsAssumption DEF TypeOK, Quiet, Active, OnSocket, Stages, OneIdle, Idle
<1>1. ASSUME NEW r \in Requests, TakeIdle(r) PROVE OneIdle'
  BY <1>1 DEF TakeIdle, Connect, Idle
<1>2. ASSUME NEW r \in Requests, TakeNew(r) PROVE OneIdle'
  BY <1>2 DEF TakeNew, Connect, Fresh, Idle
<1>3. ASSUME NEW r \in Requests, Resolved(r) PROVE OneIdle'
  BY <1>3 DEF Resolved, Handles, Continue
<1>4. ASSUME NEW r \in Requests, Connected(r) PROVE OneIdle'
  BY <1>4 DEF Connected, Handles, Continue
<1>5. ASSUME NEW r \in Requests, Written(r) PROVE OneIdle'
  BY <1>5 DEF Written, Handles, Continue
<1>6. ASSUME NEW r \in Requests, ContentFollows(r) PROVE OneIdle'
  BY <1>6 DEF ContentFollows, Handles, Continue
<1>7. ASSUME NEW r \in Requests, EndsWithCallback(r) PROVE OneIdle'
  <2>1. PICK failed \in BOOLEAN : Callback(r, failed)
    BY <1>7 DEF EndsWithCallback
  <2> DEFINE rest == connections \ (IF failed THEN {conn[r]} ELSE {})
             unused == {c \in rest : ~inUse'[c]}
  <2>2. PICK keep \in SUBSET unused :
          /\ Cardinality(keep) = (IF unused = {} THEN 0 ELSE 1)
          /\ connections' = {c \in rest : inUse'[c]} \cup keep
    BY <2>1 DEF Callback
  <2>3. Idle' = keep
    BY <2>2
  <2>4. IsFiniteSet(unused)
    <3>1. PICK d : Idle \subseteq {d}
      OBVIOUS
    <3>2. unused \subseteq {d} \cup {conn[r]}
      BY <2>1, <3>1 DEF Callback
    <3>3. IsFiniteSet({d} \cup {conn[r]})
      BY FS_Singleton, FS_AddElement
    <3>4. QED
      BY <3>2, <3>3, FS_Subset
  <2>5. IsFiniteSet(keep)
    BY <2>2, <2>4, FS_Subset
  <2>6. keep = {} \/ \E d : keep = {d}
    BY <2>2, <2>5, FS_EmptySet, FS_Singleton
  <2>7. QED
    BY <2>3, <2>6
<1>8. ASSUME NEW r \in Requests, LengthThrows(r) PROVE OneIdle'
  BY <1>8 DEF LengthThrows, Handles, Ends
<1>9. ASSUME NEW r \in Requests, Reconnect(r) PROVE OneIdle'
  BY <1>9 DEF Reconnect, Handles, Retries, Connect, Successor, Fresh
<1>10. ASSUME NEW r \in Requests, Refused(r) PROVE OneIdle'
  BY <1>10 DEF Refused, Ends
<1>11. ASSUME NEW r \in Requests, Succeeds(r) PROVE OneIdle'
  BY <1>11 DEF Succeeds
<1>12. ASSUME NEW r \in Requests, Fails(r) PROVE OneIdle'
  BY <1>12 DEF Fails
<1>13. ASSUME NEW c \in Conns, Expires(c) PROVE OneIdle'
  BY <1>13 DEF Expires
<1>14. ASSUME NEW c \in Conns, TimedOut(c) PROVE OneIdle'
  BY <1>14 DEF TimedOut, Cancel
<1>15. CASE Stop
  BY <1>15 DEF Stop, Cancel
<1>16. CASE Destroy
  BY <1>16 DEF Destroy
<1>17. CASE UNCHANGED vars
  BY <1>17 DEF vars
<1>18. QED
  BY <1>1, <1>2, <1>3, <1>4, <1>5, <1>6, <1>7, <1>8, <1>9, <1>10, <1>11, <1>12, <1>13, <1>14, <1>15, <1>16, <1>17, CallbackCases DEF Next, Handler

\* What Lost gains the pool may lose: a session that goes without its callback
\* leaves one connection behind that is marked as in use; no other step does.
LEMMA LostGains ==
    ASSUME TypeOK, NEW r \in Requests, Active(r), NEW L, IsFiniteSet(L), NEW M,
           Cardinality(L) <= Cardinality(Lost), M \subseteq L \cup {conn[r]},
           stage' = [stage EXCEPT ![r] = "lost"]
    PROVE  IsFiniteSet(M) /\ Cardinality(M) <= Cardinality(Lost')
<1>1. Lost' = Lost \cup {r} /\ r \notin Lost
  BY DEF TypeOK, Lost, Active
<1>2. IsFiniteSet(Lost)
  BY RequestsAssumption, FS_Subset DEF Lost
<1>3. Cardinality(Lost') = Cardinality(Lost) + 1 /\ Cardinality(Lost) \in Nat
  BY <1>1, <1>2, FS_AddElement, FS_CardinalityType
<1>4. /\ IsFiniteSet(L \cup {conn[r]})
      /\ Cardinality(L \cup {conn[r]}) <= Cardinality(L) + 1
      /\ Cardinality(L) \in Nat
  <2>1. Cardinality(L) \in Nat
    BY FS_CardinalityType
  <2>2. /\ IsFiniteSet(L \cup {conn[r]})
        /\ Cardinality(L \cup {conn[r]}) = IF conn[r] \in L THEN Cardinality(L) ELSE Cardinality(L) + 1
    BY FS_AddElement
  <2>3. QED
    BY <2>1, <2>2
<1>5. /\ IsFiniteSet(M) /\ Cardinality(M) <= Cardinality(L \cup {conn[r]})
      /\ Cardinality(M) \in Nat /\ Cardinality(L \cup {conn[r]}) \in Nat
  BY <1>4, FS_Subset, FS_CardinalityType
<1>6. QED
  BY <1>3, <1>4, <1>5

\* A step that leaks nothing.
LEMMA LeakKept ==
    ASSUME LeakedFew, client = "alive", Leaked' \subseteq Leaked, Lost \subseteq Lost'
    PROVE  LeakedFew'
<1>1. IsFiniteSet(Lost')
  BY RequestsAssumption, FS_Subset DEF Lost
<1>2. Cardinality(Lost) <= Cardinality(Lost') /\ Cardinality(Lost) \in Nat /\ Cardinality(Lost') \in Nat
  BY <1>1, FS_Subset, FS_CardinalityType
<1>3. /\ IsFiniteSet(Leaked') /\ Cardinality(Leaked') <= Cardinality(Leaked)
      /\ Cardinality(Leaked') \in Nat /\ Cardinality(Leaked) \in Nat
  BY FS_Subset, FS_CardinalityType DEF LeakedFew
<1>4. QED
  BY <1>2, <1>3 DEF LeakedFew

\* A connection leaks only when a session is lost by an exception.
LEMMA LeakedStep ==
    TypeOK /\ Quiet /\ Marked /\ Exclusive /\ LeakedFew /\ [Next]_vars => LeakedFew'
<1> SUFFICES ASSUME TypeOK, Quiet, Marked, Exclusive, LeakedFew, [Next]_vars, client' = "alive"
             PROVE  LeakedFew'
  BY DEF LeakedFew
<1> USE ConnAssumption DEF TypeOK
<1>1. client = "alive"
  BY DEF Next, vars, Handler, TakeIdle, TakeNew, Resolved, Connected, TunnelRefused, Written,
     FailsEarly, ContentFollows, AnswerEnds, ContentFails, LengthThrows, Reconnect, HeaderFails,
     Callback, Refused, Succeeds, Fails, Expires, TimedOut, Stop, Destroy
<1>2. ASSUME NEW r \in Requests, TakeIdle(r) PROVE LeakedFew'
  <2>1. Leaked' \subseteq Leaked /\ Lost \subseteq Lost'
    BY <1>2 DEF TakeIdle, Connect, Idle, Leaked, Lost, Active
  <2>2. QED
    BY <1>1, <2>1, LeakKept
<1>3. ASSUME NEW r \in Requests, TakeNew(r) PROVE LeakedFew'
  <2>1. Leaked' \subseteq Leaked /\ Lost \subseteq Lost'
    BY <1>3 DEF TakeNew, Connect, Leaked, Lost, Active
  <2>2. QED
    BY <1>1, <2>1, LeakKept
<1>4. ASSUME NEW r \in Requests, Resolved(r) \/ Connected(r) \/ Written(r) \/ ContentFollows(r)
      PROVE  LeakedFew'
  <2>1. Leaked' \subseteq Leaked
    BY <1>4 DEF Resolved, Connected, Written, ContentFollows, Leaked
  <2>2. Lost \subseteq Lost'
    BY <1>4 DEF Resolved, Connected, Written, ContentFollows, Handles, Continue, Lost
  <2>3. QED
    BY <1>1, <2>1, <2>2, LeakKept
<1>5. ASSUME NEW r \in Requests, EndsWithCallback(r) PROVE LeakedFew'
  <2>1. Leaked' \subseteq Leaked /\ Lost \subseteq Lost'
    BY <1>5 DEF EndsWithCallback, Callback, Ends, Leaked, Lost, Active
  <2>2. QED
    BY <1>1, <2>1, LeakKept
<1>6. ASSUME NEW r \in Requests, LengthThrows(r) PROVE LeakedFew'
  <2>1. Active(r) /\ stage' = [stage EXCEPT ![r] = "lost"]
    BY <1>6 DEF LengthThrows, Handles, Ends, Active
  <2>2. Leaked' \subseteq Leaked \cup {conn[r]}
    BY <1>6 DEF LengthThrows, Ends, Leaked
  <2>3. IsFiniteSet(Leaked) /\ Cardinality(Leaked) <= Cardinality(Lost)
    BY <1>1 DEF LeakedFew
  <2>4. IsFiniteSet(Leaked') /\ Cardinality(Leaked') <= Cardinality(Lost')
    BY <2>1, <2>2, <2>3, LostGains
  <2>5. QED
    BY <2>4 DEF LeakedFew
<1>7. ASSUME NEW r \in Requests, Reconnect(r) PROVE LeakedFew'
  <2>1. Leaked' \subseteq Leaked /\ Lost \subseteq Lost'
    BY <1>7 DEF Reconnect, Handles, Connect, Leaked, Lost, Active
  <2>2. QED
    BY <1>1, <2>1, LeakKept
<1>8. ASSUME NEW r \in Requests, Succeeds(r) \/ Fails(r) PROVE LeakedFew'
  <2>1. Leaked' \subseteq Leaked /\ Lost \subseteq Lost'
    BY <1>8 DEF Succeeds, Fails, Leaked, Lost
  <2>2. QED
    BY <1>1, <2>1, LeakKept
<1>9. ASSUME NEW c \in Conns, Expires(c) \/ TimedOut(c) PROVE LeakedFew'
  <2>1. Leaked' \subseteq Leaked /\ Lost \subseteq Lost'
    BY <1>9 DEF Expires, TimedOut, Leaked, Lost
  <2>2. QED
    BY <1>1, <2>1, LeakKept
<1>10. CASE Stop \/ UNCHANGED vars
  <2>1. Leaked' \subseteq Leaked /\ Lost \subseteq Lost'
    BY <1>10 DEF Stop, vars, Leaked, Lost
  <2>2. QED
    BY <1>1, <2>1, LeakKept
<1>11. ~Destroy /\ \A r \in Requests : ~Refused(r)
  BY <1>1 DEF Destroy, Refused
<1>12. QED
  BY <1>2, <1>3, <1>4, <1>5, <1>6, <1>7, <1>8, <1>9, <1>10, <1>11, CallbackCases DEF Next, Handler

-----------------------------------------------------------------------------

\* Every step keeps the strengthening.
LEMMA IInvStep == IInv /\ [Next]_vars => IInv'
  BY TypeStep, QuietStep, MarkedStep, AttemptsStep, IdleStep, LeakedStep DEF IInv

\* The strengthening is an invariant of the client.
THEOREM Invariance == Spec => []IInv
  BY IInvInit, IInvStep, PTL DEF Spec

\* The variables of HttpClient keep their types.
THEOREM TypeCorrect == Spec => []TypeOK
<1>1. IInv => TypeOK
  BY DEF IInv
<1>2. QED
  BY <1>1, Invariance, PTL

\* For any number of requests and connections, no two requests share one.
THEOREM ExclusiveCorrect == Spec => []Exclusive
<1>1. IInv => Exclusive
  BY DEF IInv
<1>2. QED
  BY <1>1, Invariance, PTL

\* A request is written twice at most and called back once at most.
THEOREM AttemptsCorrect == Spec => []AtMostOneRetry
<1>1. TypeOK /\ Attempts => AtMostOneRetry
  BY DEF TypeOK, Stages, Attempts, Early, AtMostOneRetry
<1>2. IInv => AtMostOneRetry
  BY <1>1 DEF IInv
<1>3. QED
  BY <1>2, Invariance, PTL

\* The pool keeps one idle connection at most and leaks one only to a session
\* that an exception has ended.
THEOREM PoolCorrect == Spec => []PoolKept
<1>1. ASSUME OneIdle PROVE Cardinality(Idle) <= 1
  <2>1. Idle = {} \/ \E c : Idle = {c}
    BY <1>1 DEF OneIdle
  <2>2. CASE Idle = {}
    BY <2>2, FS_EmptySet
  <2>3. CASE \E c : Idle = {c}
    BY <2>3, FS_Singleton
  <2>4. QED
    BY <2>1, <2>2, <2>3
<1>2. IInv => PoolKept
  BY <1>1 DEF IInv, LeakedFew, Leaked, Lost, PoolKept
<1>3. QED
  BY <1>2, Invariance, PTL
=============================================================================
