-------------------------- MODULE HttpServerProofs --------------------------
(***************************************************************************)
(* Proofs about HttpServer for any number of Connection objects: the set   *)
(* of raw pointers is exact, and the accept loop neither ends nor doubles. *)
(***************************************************************************)
EXTENDS HttpServer, FiniteSetTheorems, TLAPS

\* Before start() there are no connections and nothing was destroyed; the
\* destructor turns the handlers off before it calls stop().
Phases ==
    /\ server = "new" => ~handlersOff /\ \A c \in Conns : stage[c] = "free"
    /\ server = "destroying" => handlersOff

\* While the server runs, its acceptor is open, handlers get their locks, and
\* the one connection that is waited for has not been aborted: so the handler
\* that ends the accept loop is not the one that runs.
AwaitsOne ==
    server = "running" =>
        /\ acceptor
        /\ ~handlersOff
        /\ \E c \in Conns :
              /\ stage[c] = "accept" /\ event[c] # "aborted"
              /\ \A d \in Conns : stage[d] = "accept" => d = c

IInv ==
    /\ TypeOK
    /\ Phases
    /\ RegistryExact
    /\ AwaitsOne

\* The strengthening holds before start().
LEMMA IInvInit == Init => IInv
  BY DEF Init, IInv, TypeOK, Stages, Pending, Phases, RegistryExact, Live, AwaitsOne

-----------------------------------------------------------------------------
\* Every handler and every part of stop() keeps the types.
LEMMA TypeStep == TypeOK /\ Phases /\ [Next]_vars => TypeOK'
<1> SUFFICES ASSUME TypeOK, Phases, [Next]_vars PROVE TypeOK'
  OBVIOUS
<1> USE DEF TypeOK, Stages, Pending, Phases
<1>1. CASE Start
  BY <1>1 DEF Start
<1>2. CASE Destroy
  BY <1>2 DEF Destroy
<1>3. CASE CloseAcceptor
  BY <1>3 DEF CloseAcceptor
<1>4. CASE CloseConnections
  BY <1>4 DEF CloseConnections, CloseAll
<1>5. CASE StopIo
  BY <1>5 DEF StopIo
<1>6. ASSUME NEW c \in Conns, Accepted(c) PROVE TypeOK'
  BY <1>6 DEF Accepted, Awaited, control, Live
<1>7. ASSUME NEW c \in Conns, AcceptFailed(c) PROVE TypeOK'
  BY <1>7 DEF AcceptFailed, Awaited, control, Live
<1>8. ASSUME NEW c \in Conns, AcceptEnds(c) PROVE TypeOK'
  BY <1>8 DEF AcceptEnds, Drop, control
<1>9. ASSUME NEW c \in Conns, Handshook(c) PROVE TypeOK'
  BY <1>9 DEF Handshook, HandshakeDone, Begin, control
<1>10. ASSUME NEW c \in Conns, HandshakeFailed(c) PROVE TypeOK'
  BY <1>10 DEF HandshakeFailed, HandshakeDone, Drop, control
<1>11. ASSUME NEW c \in Conns, ReadMore(c) PROVE TypeOK'
  BY <1>11 DEF ReadMore, ReadDone, Begin, control
<1>12. ASSUME NEW c \in Conns, TooLarge(c) PROVE TypeOK'
  BY <1>12 DEF TooLarge, ReadDone, Begin, control
<1>13. ASSUME NEW c \in Conns, ReadFailed(c) PROVE TypeOK'
  BY <1>13 DEF ReadFailed, ReadDone, Drop, control
<1>14. ASSUME NEW c \in Conns, Dispatch(c) PROVE TypeOK'
  BY <1>14 DEF Dispatch, ReadDone, control
<1>15. ASSUME NEW c \in Conns, KeepAlive(c) PROVE TypeOK'
  BY <1>15 DEF KeepAlive, WriteDone, Begin, control
<1>16. ASSUME NEW c \in Conns, WriteEnds(c) PROVE TypeOK'
  BY <1>16 DEF WriteEnds, WriteDone, Drop, control
<1>17. ASSUME NEW c \in Conns, Refused(c) PROVE TypeOK'
  BY <1>17 DEF Refused, Drop, control
<1>18. ASSUME NEW c \in Conns, Respond(c) PROVE TypeOK'
  BY <1>18 DEF Respond, Begin, control
<1>19. ASSUME NEW c \in Conns, TimedOut(c) PROVE TypeOK'
  BY <1>19 DEF TimedOut, CloseAll, control
<1>20. ASSUME NEW c \in Conns, Delete(c) PROVE TypeOK'
  BY <1>20 DEF Delete, control
<1>21. ASSUME NEW c \in Conns, Connects(c) PROVE TypeOK'
  BY <1>21 DEF Connects, control
<1>22. ASSUME NEW c \in Conns, ConnectFails(c) PROVE TypeOK'
  BY <1>22 DEF ConnectFails, control
<1>23. ASSUME NEW c \in Conns, Transfers(c) PROVE TypeOK'
  BY <1>23 DEF Transfers, control
<1>24. ASSUME NEW c \in Conns, Expires(c) PROVE TypeOK'
  BY <1>24 DEF Expires, control
<1>25. CASE UNCHANGED vars
  BY <1>25 DEF vars
<1>26. QED
  BY <1>1, <1>2, <1>3, <1>4, <1>5, <1>6, <1>7, <1>8, <1>9, <1>10, <1>11, <1>12, <1>13, <1>14, <1>15, <1>16, <1>17, <1>18, <1>19, <1>20, <1>21, <1>22, <1>23, <1>24, <1>25 DEF Next, Handler, Stop

\* Nothing but start() happens to a new server; the destructor turns handlers off first.
LEMMA PhasesStep == TypeOK /\ Phases /\ [Next]_vars => Phases'
<1> SUFFICES ASSUME TypeOK, Phases, [Next]_vars PROVE Phases'
  OBVIOUS
<1> USE DEF TypeOK, Stages, Pending, Phases, IoRuns
<1>1. CASE Start
  BY <1>1 DEF Start
<1>2. CASE Destroy
  BY <1>2 DEF Destroy
<1>3. CASE CloseAcceptor
  BY <1>3 DEF CloseAcceptor
<1>4. CASE CloseConnections
  BY <1>4 DEF CloseConnections, CloseAll
<1>5. CASE StopIo
  BY <1>5 DEF StopIo
<1>6. ASSUME NEW c \in Conns, Accepted(c) PROVE Phases'
  BY <1>6 DEF Accepted, Awaited, control, Live
<1>7. ASSUME NEW c \in Conns, AcceptFailed(c) PROVE Phases'
  BY <1>7 DEF AcceptFailed, Awaited, control, Live
<1>8. ASSUME NEW c \in Conns, AcceptEnds(c) PROVE Phases'
  BY <1>8 DEF AcceptEnds, Drop, control
<1>9. ASSUME NEW c \in Conns, Handshook(c) PROVE Phases'
  BY <1>9 DEF Handshook, HandshakeDone, Begin, control
<1>10. ASSUME NEW c \in Conns, HandshakeFailed(c) PROVE Phases'
  BY <1>10 DEF HandshakeFailed, HandshakeDone, Drop, control
<1>11. ASSUME NEW c \in Conns, ReadMore(c) PROVE Phases'
  BY <1>11 DEF ReadMore, ReadDone, Begin, control
<1>12. ASSUME NEW c \in Conns, TooLarge(c) PROVE Phases'
  BY <1>12 DEF TooLarge, ReadDone, Begin, control
<1>13. ASSUME NEW c \in Conns, ReadFailed(c) PROVE Phases'
  BY <1>13 DEF ReadFailed, ReadDone, Drop, control
<1>14. ASSUME NEW c \in Conns, Dispatch(c) PROVE Phases'
  BY <1>14 DEF Dispatch, ReadDone, control
<1>15. ASSUME NEW c \in Conns, KeepAlive(c) PROVE Phases'
  BY <1>15 DEF KeepAlive, WriteDone, Begin, control
<1>16. ASSUME NEW c \in Conns, WriteEnds(c) PROVE Phases'
  BY <1>16 DEF WriteEnds, WriteDone, Drop, control
<1>17. ASSUME NEW c \in Conns, Refused(c) PROVE Phases'
  BY <1>17 DEF Refused, Drop, control
<1>18. ASSUME NEW c \in Conns, Respond(c) PROVE Phases'
  BY <1>18 DEF Respond, Begin, control
<1>19. ASSUME NEW c \in Conns, TimedOut(c) PROVE Phases'
  BY <1>19 DEF TimedOut, CloseAll, control
<1>20. ASSUME NEW c \in Conns, Delete(c) PROVE Phases'
  BY <1>20 DEF Delete, control
<1>21. ASSUME NEW c \in Conns, Connects(c) PROVE Phases'
  BY <1>21 DEF Connects, control
<1>22. ASSUME NEW c \in Conns, ConnectFails(c) PROVE Phases'
  BY <1>22 DEF ConnectFails, control
<1>23. ASSUME NEW c \in Conns, Transfers(c) PROVE Phases'
  BY <1>23 DEF Transfers, control
<1>24. ASSUME NEW c \in Conns, Expires(c) PROVE Phases'
  BY <1>24 DEF Expires, control
<1>25. CASE UNCHANGED vars
  BY <1>25 DEF vars
<1>26. QED
  BY <1>1, <1>2, <1>3, <1>4, <1>5, <1>6, <1>7, <1>8, <1>9, <1>10, <1>11, <1>12, <1>13, <1>14, <1>15, <1>16, <1>17, <1>18, <1>19, <1>20, <1>21, <1>22, <1>23, <1>24, <1>25 DEF Next, Handler, Stop

\* Whatever becomes of a connection, it is in the set exactly as long as it exists.
LEMMA RegistryStep == TypeOK /\ Phases /\ RegistryExact /\ [Next]_vars => RegistryExact'
<1> SUFFICES ASSUME TypeOK, Phases, RegistryExact, [Next]_vars PROVE RegistryExact'
  OBVIOUS
<1> USE DEF TypeOK, Stages, Phases, RegistryExact, Live
<1>1. CASE Start
  BY <1>1 DEF Start
<1>2. CASE Destroy
  BY <1>2 DEF Destroy
<1>3. CASE CloseAcceptor
  BY <1>3 DEF CloseAcceptor
<1>4. CASE CloseConnections
  BY <1>4 DEF CloseConnections, CloseAll
<1>5. CASE StopIo
  BY <1>5 DEF StopIo
<1>6. ASSUME NEW c \in Conns, Accepted(c) PROVE RegistryExact'
  BY <1>6 DEF Accepted, Awaited, control, Live
<1>7. ASSUME NEW c \in Conns, AcceptFailed(c) PROVE RegistryExact'
  BY <1>7 DEF AcceptFailed, Awaited, control, Live
<1>8. ASSUME NEW c \in Conns, AcceptEnds(c) PROVE RegistryExact'
  BY <1>8 DEF AcceptEnds, Drop, control
<1>9. ASSUME NEW c \in Conns, Handshook(c) PROVE RegistryExact'
  BY <1>9 DEF Handshook, HandshakeDone, Begin, control
<1>10. ASSUME NEW c \in Conns, HandshakeFailed(c) PROVE RegistryExact'
  BY <1>10 DEF HandshakeFailed, HandshakeDone, Drop, control
<1>11. ASSUME NEW c \in Conns, ReadMore(c) PROVE RegistryExact'
  BY <1>11 DEF ReadMore, ReadDone, Begin, control
<1>12. ASSUME NEW c \in Conns, TooLarge(c) PROVE RegistryExact'
  BY <1>12 DEF TooLarge, ReadDone, Begin, control
<1>13. ASSUME NEW c \in Conns, ReadFailed(c) PROVE RegistryExact'
  BY <1>13 DEF ReadFailed, ReadDone, Drop, control
<1>14. ASSUME NEW c \in Conns, Dispatch(c) PROVE RegistryExact'
  BY <1>14 DEF Dispatch, ReadDone, control
<1>15. ASSUME NEW c \in Conns, KeepAlive(c) PROVE RegistryExact'
  BY <1>15 DEF KeepAlive, WriteDone, Begin, control
<1>16. ASSUME NEW c \in Conns, WriteEnds(c) PROVE RegistryExact'
  BY <1>16 DEF WriteEnds, WriteDone, Drop, control
<1>17. ASSUME NEW c \in Conns, Refused(c) PROVE RegistryExact'
  BY <1>17 DEF Refused, Drop, control
<1>18. ASSUME NEW c \in Conns, Respond(c) PROVE RegistryExact'
  BY <1>18 DEF Respond, Begin, control
<1>19. ASSUME NEW c \in Conns, TimedOut(c) PROVE RegistryExact'
  BY <1>19 DEF TimedOut, CloseAll, control
<1>20. ASSUME NEW c \in Conns, Delete(c) PROVE RegistryExact'
  BY <1>20 DEF Delete, control
<1>21. ASSUME NEW c \in Conns, Connects(c) PROVE RegistryExact'
  BY <1>21 DEF Connects, control
<1>22. ASSUME NEW c \in Conns, ConnectFails(c) PROVE RegistryExact'
  BY <1>22 DEF ConnectFails, control
<1>23. ASSUME NEW c \in Conns, Transfers(c) PROVE RegistryExact'
  BY <1>23 DEF Transfers, control
<1>24. ASSUME NEW c \in Conns, Expires(c) PROVE RegistryExact'
  BY <1>24 DEF Expires, control
<1>25. CASE UNCHANGED vars
  BY <1>25 DEF vars
<1>26. QED
  BY <1>1, <1>2, <1>3, <1>4, <1>5, <1>6, <1>7, <1>8, <1>9, <1>10, <1>11, <1>12, <1>13, <1>14, <1>15, <1>16, <1>17, <1>18, <1>19, <1>20, <1>21, <1>22, <1>23, <1>24, <1>25 DEF Next, Handler, Stop

\* A handler that takes the connection waited for sets another one up.
LEMMA AwaitsStep == TypeOK /\ Phases /\ AwaitsOne /\ [Next]_vars => AwaitsOne'
<1> SUFFICES ASSUME TypeOK, Phases, AwaitsOne, [Next]_vars PROVE AwaitsOne'
  OBVIOUS
<1> USE DEF TypeOK, Stages, Pending, Phases, AwaitsOne
<1>1. CASE Start
  BY <1>1 DEF Start
<1>2. CASE Destroy
  BY <1>2 DEF Destroy
<1>3. CASE CloseAcceptor
  BY <1>3 DEF CloseAcceptor
<1>4. CASE CloseConnections
  BY <1>4 DEF CloseConnections, CloseAll
<1>5. CASE StopIo
  BY <1>5 DEF StopIo
<1>6. ASSUME NEW c \in Conns, Accepted(c) PROVE AwaitsOne'
  BY <1>6 DEF Accepted, Awaited, control, Live
<1>7. ASSUME NEW c \in Conns, AcceptFailed(c) PROVE AwaitsOne'
  BY <1>7 DEF AcceptFailed, Awaited, control, Live
<1>8. ASSUME NEW c \in Conns, AcceptEnds(c) PROVE AwaitsOne'
  BY <1>8 DEF AcceptEnds, Drop, control
<1>9. ASSUME NEW c \in Conns, Handshook(c) PROVE AwaitsOne'
  BY <1>9 DEF Handshook, HandshakeDone, Begin, control
<1>10. ASSUME NEW c \in Conns, HandshakeFailed(c) PROVE AwaitsOne'
  BY <1>10 DEF HandshakeFailed, HandshakeDone, Drop, control
<1>11. ASSUME NEW c \in Conns, ReadMore(c) PROVE AwaitsOne'
  BY <1>11 DEF ReadMore, ReadDone, Begin, control
<1>12. ASSUME NEW c \in Conns, TooLarge(c) PROVE AwaitsOne'
  BY <1>12 DEF TooLarge, ReadDone, Begin, control
<1>13. ASSUME NEW c \in Conns, ReadFailed(c) PROVE AwaitsOne'
  BY <1>13 DEF ReadFailed, ReadDone, Drop, control
<1>14. ASSUME NEW c \in Conns, Dispatch(c) PROVE AwaitsOne'
  BY <1>14 DEF Dispatch, ReadDone, control
<1>15. ASSUME NEW c \in Conns, KeepAlive(c) PROVE AwaitsOne'
  BY <1>15 DEF KeepAlive, WriteDone, Begin, control
<1>16. ASSUME NEW c \in Conns, WriteEnds(c) PROVE AwaitsOne'
  BY <1>16 DEF WriteEnds, WriteDone, Drop, control
<1>17. ASSUME NEW c \in Conns, Refused(c) PROVE AwaitsOne'
  BY <1>17 DEF Refused, Drop, control
<1>18. ASSUME NEW c \in Conns, Respond(c) PROVE AwaitsOne'
  BY <1>18 DEF Respond, Begin, control
<1>19. ASSUME NEW c \in Conns, TimedOut(c) PROVE AwaitsOne'
  BY <1>19 DEF TimedOut, CloseAll, control
<1>20. ASSUME NEW c \in Conns, Delete(c) PROVE AwaitsOne'
  BY <1>20 DEF Delete, control
<1>21. ASSUME NEW c \in Conns, Connects(c) PROVE AwaitsOne'
  BY <1>21 DEF Connects, control
<1>22. ASSUME NEW c \in Conns, ConnectFails(c) PROVE AwaitsOne'
  BY <1>22 DEF ConnectFails, control
<1>23. ASSUME NEW c \in Conns, Transfers(c) PROVE AwaitsOne'
  BY <1>23 DEF Transfers, control
<1>24. ASSUME NEW c \in Conns, Expires(c) PROVE AwaitsOne'
  BY <1>24 DEF Expires, control
<1>25. CASE UNCHANGED vars
  BY <1>25 DEF vars
<1>26. QED
  BY <1>1, <1>2, <1>3, <1>4, <1>5, <1>6, <1>7, <1>8, <1>9, <1>10, <1>11, <1>12, <1>13, <1>14, <1>15, <1>16, <1>17, <1>18, <1>19, <1>20, <1>21, <1>22, <1>23, <1>24, <1>25 DEF Next, Handler, Stop

-----------------------------------------------------------------------------

\* Every step keeps the strengthening.
LEMMA IInvStep == IInv /\ [Next]_vars => IInv'
  BY TypeStep, PhasesStep, RegistryStep, AwaitsStep DEF IInv

\* The strengthening is an invariant of the server.
THEOREM Invariance == Spec => []IInv
  BY IInvInit, IInvStep, PTL DEF Spec

\* The variables of HttpServer keep their types.
THEOREM TypeCorrect == Spec => []TypeOK
<1>1. IInv => TypeOK
  BY DEF IInv
<1>2. QED
  BY <1>1, Invariance, PTL

\* For any number of connections, the raw pointers that stop() follows are to
\* connections that exist, and miss none as long as it has not been there.
THEOREM RegistryCorrect == Spec => []RegistryExact
<1>1. IInv => RegistryExact
  BY DEF IInv
<1>2. QED
  BY <1>1, Invariance, PTL

\* The accept loop of a server that runs neither ends nor doubles.
THEOREM AcceptsCorrect == Spec => []AcceptsOne
<1>1. ASSUME AwaitsOne PROVE AcceptsOne
  <2>1. SUFFICES ASSUME server = "running"
                 PROVE  Cardinality({c \in Conns : stage[c] = "accept"}) = 1
    BY DEF AcceptsOne
  <2>2. PICK c \in Conns : stage[c] = "accept" /\ \A d \in Conns : stage[d] = "accept" => d = c
    BY <1>1, <2>1 DEF AwaitsOne
  <2>3. {d \in Conns : stage[d] = "accept"} = {c}
    BY <2>2
  <2>4. QED
    BY <2>3, FS_Singleton
<1>2. IInv => AcceptsOne
  BY <1>1 DEF IInv
<1>3. QED
  BY <1>2, Invariance, PTL
=============================================================================
