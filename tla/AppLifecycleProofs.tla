------------------------- MODULE AppLifecycleProofs -------------------------
(***************************************************************************)
(* Proofs about AppLifecycle.  How far the window's thread is says which   *)
(* objects exist and which threads have begun; which threads are over      *)
(* follows from the joins it has passed (Lifetimes).                       *)
(***************************************************************************)
EXTENDS AppLifecycle, TLAPS

\* What the window's thread builds and starts, and what it joins and destroys.
ManagerGone == {"shutdown", "exited"}
ServerGone == {"destroy_manager", "join_update"} \cup ManagerGone
WindowGone == {"destroy_server"} \cup ServerGone
ServerJoined == {"destroy_overlay", "join_render"} \cup WindowGone
NoManagerYet == {"startup", "construct"}
NoWindowYet == {"create_overlay"} \cup NoManagerYet
NoThreadYet == {"start_server"} \cup NoWindowYet

\* An object exists between its construction and its destruction, and so does
\* the thread that uses it; the io_service belongs to the server's thread.
Lifetimes ==
    /\ "gdiplus" \in alive <=> ui \notin {"startup", "exited"}
    /\ "manager" \in alive <=> ui \notin NoManagerYet \cup ManagerGone
    /\ "http_server" \in alive <=> ui \notin NoManagerYet \cup ServerGone
    /\ "window" \in alive <=> ui \notin NoWindowYet \cup WindowGone
    /\ "io_service" \in alive <=> server \notin {"none", "create_io"} /\ ui \notin ServerGone
    /\ update = "none" <=> ui \in NoManagerYet
    /\ render = "none" <=> ui \in NoWindowYet
    /\ server = "none" <=> ui \in NoThreadYet

Joined ==
    /\ ui \in ManagerGone => update = "done"
    /\ ui \in WindowGone => render = "done"
    /\ ui \in ServerJoined => server = "done"
    /\ ui = "close_acceptor" => acceptor # "null"

IInv == TypeOK /\ Lifetimes /\ Joined

\* The strengthening holds before InitInstance.
LEMMA IInvInit == Init => IInv
  BY DEF Init, IInv, TypeOK, Lifetimes, Joined, Objects, UiSteps, ServerSteps, ManagerGone,
     ServerGone, WindowGone, ServerJoined, NoManagerYet, NoWindowYet, NoThreadYet

\* InitInstance and OnInitDialog build and start, and the test button changes
\* nothing that exists.
LEMMA OpenStep == IInv /\ (Open \/ PressButton \/ CloseWindow) => IInv'
<1> USE DEF IInv, TypeOK, Lifetimes, Joined, Objects, UiSteps, ServerSteps, ManagerGone,
        ServerGone, WindowGone, ServerJoined, NoManagerYet, NoWindowYet, NoThreadYet,
        Goes, workers, flags, net
<1>1. IInv /\ GdiplusStartup => IInv'
  BY DEF GdiplusStartup
<1>2. IInv /\ ConstructDialog => IInv'
  BY DEF ConstructDialog
<1>3. IInv /\ CreateOverlay => IInv'
  BY DEF CreateOverlay
<1>4. IInv /\ StartServer => IInv'
  BY DEF StartServer
<1>5. IInv /\ ButtonDone => IInv'
  BY DEF ButtonDone
<1>6. IInv /\ PressButton => IInv'
  BY DEF PressButton
<1>7. IInv /\ CloseWindow => IInv'
  BY DEF CloseWindow, Running
<1>8. QED
  BY <1>1, <1>2, <1>3, <1>4, <1>5, <1>6, <1>7 DEF Open

\* OnDestroy stops and joins the server and the render thread, and the members'
\* destructors take away the server and, after its thread, the manager.
LEMMA CloseStep == IInv /\ Close => IInv'
<1> USE DEF IInv, TypeOK, Lifetimes, Joined, Objects, UiSteps, ServerSteps, ManagerGone,
        ServerGone, WindowGone, ServerJoined, NoManagerYet, NoWindowYet, NoThreadYet,
        Goes, workers, flags, net
<1>1. IInv /\ StopWithoutAcceptor => IInv'
  BY DEF StopWithoutAcceptor
<1>2. IInv /\ StopServer => IInv'
  BY DEF StopServer
<1>3. IInv /\ CloseAcceptor => IInv'
  BY DEF CloseAcceptor
<1>4. IInv /\ CloseConnections => IInv'
  BY DEF CloseConnections
<1>5. IInv /\ StopIo => IInv'
  BY DEF StopIo
<1>6. IInv /\ JoinServer => IInv'
  BY DEF JoinServer
<1>7. IInv /\ DestroyOverlay => IInv'
  BY DEF DestroyOverlay
<1>8. IInv /\ JoinRender => IInv'
  BY DEF JoinRender
<1>9. IInv /\ DestroyServer => IInv'
  BY DEF DestroyServer
<1>10. IInv /\ DestroyManager => IInv'
  BY DEF DestroyManager
<1>11. IInv /\ JoinUpdate => IInv'
  BY DEF JoinUpdate
<1>12. IInv /\ GdiplusShutdown => IInv'
  BY DEF GdiplusShutdown
<1>13. QED
  BY <1>1, <1>2, <1>3, <1>4, <1>5, <1>6, <1>7, <1>8, <1>9, <1>10, <1>11,
     <1>12 DEF Close

\* The threads of the manager and of the overlay end only by themselves.
LEMMA LoopStep == IInv /\ (Update \/ Render) => IInv'
<1> USE DEF IInv, TypeOK, Lifetimes, Joined, Objects, UiSteps, ServerSteps, ManagerGone,
        ServerGone, WindowGone, ServerJoined, NoManagerYet, NoWindowYet, NoThreadYet,
        flags, net
<1>1. IInv /\ UpdatePass => IInv'
  BY DEF UpdatePass, UpdateStep
<1>2. IInv /\ UpdateSleep => IInv'
  BY DEF UpdateSleep, UpdateStep
<1>3. IInv /\ UpdateExit => IInv'
  BY DEF UpdateExit, UpdateStep
<1>4. IInv /\ RenderDraw => IInv'
  BY DEF RenderDraw, RenderStep
<1>5. IInv /\ RenderShow => IInv'
  BY DEF RenderShow, RenderStep
<1>6. IInv /\ RenderSleep => IInv'
  BY DEF RenderSleep, RenderStep
<1>7. IInv /\ RenderExit => IInv'
  BY DEF RenderExit, RenderStep
<1>8. QED
  BY <1>1, <1>2, <1>3, <1>4, <1>5, <1>6, <1>7 DEF Update, Render

\* The server's thread runs between its start and its join, when all it uses is
\* there.
LEMMA ServeStep == IInv /\ Serve => IInv'
<1> USE DEF IInv, TypeOK, Lifetimes, Joined, Objects, UiSteps, ServerSteps, ManagerGone,
        ServerGone, WindowGone, ServerJoined, NoManagerYet, NoWindowYet, NoThreadYet,
        ServerGoes, workers, flags, net
<1>1. IInv /\ CreateIo => IInv'
  BY DEF CreateIo
<1>2. IInv /\ CreateAcceptor => IInv'
  BY DEF CreateAcceptor
<1>3. IInv /\ OpenAcceptor => IInv'
  BY DEF OpenAcceptor
<1>4. IInv /\ SetOption => IInv'
  BY DEF SetOption
<1>5. IInv /\ Bind => IInv'
  BY DEF Bind
<1>6. IInv /\ Listen => IInv'
  BY DEF Listen
<1>7. IInv /\ FailOnClosed => IInv'
  BY DEF FailOnClosed, Throws
<1>8. IInv /\ BindRefused => IInv'
  BY DEF BindRefused, Throws
<1>9. IInv /\ Accept => IInv'
  BY DEF Accept
<1>10. IInv /\ Handle => IInv'
  BY DEF Handle
<1>11. IInv /\ Handled => IInv'
  BY DEF Handled
<1>12. IInv /\ RunReturns => IInv'
  BY DEF RunReturns
<1>13. QED
  BY <1>1, <1>2, <1>3, <1>4, <1>5, <1>6, <1>7, <1>8, <1>9, <1>10, <1>11,
     <1>12 DEF Serve

\* A step in which nothing happens.
LEMMA StutterStep == IInv /\ UNCHANGED vars => IInv'
  BY DEF IInv, TypeOK, Lifetimes, Joined, vars

\* The strengthening is an invariant of the program.
THEOREM Invariance == Spec => []IInv
<1>1. IInv /\ [Next]_vars => IInv'
  BY OpenStep, CloseStep, LoopStep, ServeStep, StutterStep DEF Next
<1>2. QED
  BY <1>1, IInvInit, PTL DEF Spec

\* The variables of AppLifecycle keep their types; there is an acceptor only
\* while there is an io_service.
THEOREM TypeCorrect == Spec => []TypeOK
<1>1. IInv => TypeOK
  BY DEF IInv
<1>2. QED
  BY <1>1, Invariance, PTL

\* However early the window is closed and whether or not the port is free, no
\* thread uses an object that is not there, and none outlives its std::thread.
THEOREM LifetimesCorrect == Spec => []NoUseAfterDestroy
<1>1. IInv /\ ui = "adding" => NoUseAfterDestroy
  BY DEF IInv, Lifetimes, Joined, NoUseAfterDestroy, ManagerGone, ServerGone, WindowGone,
     ServerJoined, NoManagerYet, NoWindowYet, NoThreadYet
<1>2. IInv /\ ui # "adding" => NoUseAfterDestroy
  BY DEF IInv, TypeOK, UiSteps, Lifetimes, Joined, NoUseAfterDestroy, ManagerGone, ServerGone,
     WindowGone, ServerJoined, NoManagerYet, NoWindowYet, NoThreadYet
<1>3. IInv => NoUseAfterDestroy
  BY <1>1, <1>2
<1>4. QED
  BY <1>3, Invariance, PTL
=============================================================================
