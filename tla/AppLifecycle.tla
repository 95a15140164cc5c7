---------------------------- MODULE AppLifecycle ----------------------------
(***************************************************************************)
(* DanmakuChicken.exe from InitInstance to exit: the window's thread, the  *)
(* update thread of DanmakuManager, the render thread of COverlayDlg and   *)
(* the server thread, which runs Server::start() (DanmakuChicken.cpp,      *)
(* DanmakuChickenDlg.cpp, OverlayDlg.cpp, Danmaku.cpp, server_http.hpp).   *)
(* What matters here is who may still use an object when it goes away,     *)
(* and whether the program ends when its window is closed.                 *)
(***************************************************************************)
EXTENDS Naturals

CONSTANTS
    EarlyClose,      \* the window may be closed before the server is running
    BindMayFail      \* the port may be refused to the server

ASSUME SwitchesAssumption == EarlyClose \in BOOLEAN /\ BindMayFail \in BOOLEAN

VARIABLES
    ui,              \* the window's thread
    update,          \* the thread of DanmakuManager
    render,          \* the thread of COverlayDlg
    server,          \* the thread that runs m_server.start()
    alive,           \* the objects that exist
    stopUpdate,      \* DanmakuManager::m_stopThreads
    stopRender,      \* COverlayDlg::m_stopThreads
    acceptor,        \* the server's acceptor
    ioStopped,       \* io_service->stop() was called
    terminated       \* an exception left a thread: std::terminate

vars == <<ui, update, render, server, alive, stopUpdate, stopRender, acceptor,
          ioStopped, terminated>>

Objects == {"gdiplus", "manager", "window", "io_service", "http_server"}

UiSteps == {"startup", "construct", "create_overlay", "start_server", "modal", "adding",
            "stop", "close_acceptor", "close_connections", "stop_io", "join_server",
            "destroy_overlay", "join_render", "destroy_server", "destroy_manager",
            "join_update", "shutdown", "exited"}

ServerSteps == {"none", "create_io", "create_acceptor", "open", "set_option", "bind",
                "listen", "accept", "run", "handling", "done"}

TypeOK ==
    /\ ui \in UiSteps
    /\ update \in {"none", "loop", "pass", "done"}
    /\ render \in {"none", "loop", "draw", "show", "done"}
    /\ server \in ServerSteps
    /\ alive \subseteq Objects
    /\ stopUpdate \in BOOLEAN
    /\ stopRender \in BOOLEAN
    /\ acceptor \in {"null", "closed", "open"}
    /\ acceptor # "null" => "io_service" \in alive
    /\ ioStopped \in BOOLEAN
    /\ terminated \in BOOLEAN

Init ==
    /\ ui = "startup"
    /\ update = "none"
    /\ render = "none"
    /\ server = "none"
    /\ alive = {}
    /\ stopUpdate = FALSE
    /\ stopRender = FALSE
    /\ acceptor = "null"
    /\ ioStopped = FALSE
    /\ terminated = FALSE

workers == <<update, render, server>>
flags == <<stopUpdate, stopRender>>
net == <<acceptor, ioStopped>>

\* The window's thread goes from one step to the next.
Goes(from, to) ==
    /\ ~terminated
    /\ ui = from
    /\ ui' = to
    /\ UNCHANGED terminated

-----------------------------------------------------------------------------
(* InitInstance, the dialogs' constructors and OnInitDialog                *)

GdiplusStartup ==
    /\ Goes("startup", "construct")
    /\ alive' = alive \cup {"gdiplus"}
    /\ UNCHANGED <<workers, flags, net>>

\* CDanmakuChickenDlg dlg: the manager starts its thread when it is built.
ConstructDialog ==
    /\ Goes("construct", "create_overlay")
    /\ alive' = alive \cup {"manager", "http_server"}
    /\ update' = "loop"
    /\ UNCHANGED <<render, server, flags, net>>

CreateOverlay ==
    /\ Goes("create_overlay", "start_server")
    /\ alive' = alive \cup {"window"}
    /\ render' = "loop"
    /\ UNCHANGED <<update, server, flags, net>>

StartServer ==
    /\ Goes("start_server", "modal")
    /\ server' = "create_io"
    /\ UNCHANGED <<update, render, alive, flags, net>>

\* The test button: AddDanmaku on the window's thread.
PressButton ==
    /\ Goes("modal", "adding")
    /\ UNCHANGED <<workers, alive, flags, net>>

ButtonDone ==
    /\ Goes("adding", "modal")
    /\ UNCHANGED <<workers, alive, flags, net>>

-----------------------------------------------------------------------------
(* CDanmakuChickenDlg::OnDestroy, with Server::stop()                      *)

Running == server \in {"run", "handling"}

CloseWindow ==
    /\ Goes("modal", "stop")
    /\ EarlyClose \/ Running
    /\ UNCHANGED <<workers, alive, flags, net>>

\* if(acceptor): a server that has none yet is not stopped at all.
StopWithoutAcceptor ==
    /\ Goes("stop", "join_server")
    /\ acceptor = "null"
    /\ UNCHANGED <<workers, alive, flags, net>>

StopServer ==
    /\ Goes("stop", "close_acceptor")
    /\ acceptor # "null"
    /\ UNCHANGED <<workers, alive, flags, net>>

CloseAcceptor ==
    /\ Goes("close_acceptor", "close_connections")
    /\ acceptor' = "closed"
    /\ UNCHANGED <<workers, alive, flags, ioStopped>>

CloseConnections ==
    /\ Goes("close_connections", "stop_io")
    /\ UNCHANGED <<workers, alive, flags, net>>

\* Mutant of StopIo: io_service->stop() is left out.
StopIoForgotten ==
    /\ Goes("stop_io", "join_server")
    /\ UNCHANGED <<workers, alive, flags, net>>

StopIo ==
    /\ Goes("stop_io", "join_server")
    /\ ioStopped' = TRUE
    /\ UNCHANGED <<workers, alive, flags, acceptor>>

\* Mutant of JoinServer: OnDestroy does not wait for the server thread.
DetachServer ==
    /\ Goes("join_server", "destroy_overlay")
    /\ UNCHANGED <<workers, alive, flags, net>>

JoinServer ==
    /\ Goes("join_server", "destroy_overlay")
    /\ server = "done"
    /\ UNCHANGED <<workers, alive, flags, net>>

\* m_overlayDlg.DestroyWindow(): COverlayDlg::OnDestroy.
DestroyOverlay ==
    /\ Goes("destroy_overlay", "join_render")
    /\ stopRender' = TRUE
    /\ UNCHANGED <<workers, alive, stopUpdate, net>>

JoinRender ==
    /\ Goes("join_render", "destroy_server")
    /\ render = "done"
    /\ alive' = alive \ {"window"}
    /\ UNCHANGED <<workers, flags, net>>

-----------------------------------------------------------------------------
(* ~CDanmakuChickenDlg: its members in the reverse order of declaration    *)

\* Mutant of DestroyServer: the acceptor outlives its io_service.
DestroyServerKeepsAcceptor ==
    /\ Goes("destroy_server", "destroy_manager")
    /\ alive' = alive \ {"http_server", "io_service"}
    /\ UNCHANGED <<workers, flags, net>>

\* ~ServerBase: handler_runner->stop() finds no handler running; stop().
DestroyServer ==
    /\ Goes("destroy_server", "destroy_manager")
    /\ alive' = alive \ {"http_server", "io_service"}
    /\ acceptor' = "null"
    /\ UNCHANGED <<workers, flags, ioStopped>>

DestroyManager ==
    /\ Goes("destroy_manager", "join_update")
    /\ stopUpdate' = TRUE
    /\ UNCHANGED <<workers, alive, stopRender, net>>

JoinUpdate ==
    /\ Goes("join_update", "shutdown")
    /\ update = "done"
    /\ alive' = alive \ {"manager"}
    /\ UNCHANGED <<workers, flags, net>>

GdiplusShutdown ==
    /\ Goes("shutdown", "exited")
    /\ alive' = alive \ {"gdiplus"}
    /\ UNCHANGED <<workers, flags, net>>

-----------------------------------------------------------------------------
(* The loops of the update and the render thread: the flag is read, then   *)
(* the body runs, then the thread sleeps.                                  *)

UpdateStep(from, to) ==
    /\ ~terminated
    /\ update = from
    /\ update' = to
    /\ UNCHANGED <<ui, render, server, alive, flags, net, terminated>>

UpdatePass == UpdateStep("loop", "pass") /\ ~stopUpdate
UpdateSleep == UpdateStep("pass", "loop")
UpdateExit == UpdateStep("loop", "done") /\ stopUpdate

RenderStep(from, to) ==
    /\ ~terminated
    /\ render = from
    /\ render' = to
    /\ UNCHANGED <<ui, update, server, alive, flags, net, terminated>>

RenderDraw == RenderStep("loop", "draw") /\ ~stopRender
RenderShow == RenderStep("draw", "show")
RenderSleep == RenderStep("show", "loop")
RenderExit == RenderStep("loop", "done") /\ stopRender

-----------------------------------------------------------------------------
(* Server::start() on the server thread                                    *)

ServerGoes(from, to) ==
    /\ ~terminated
    /\ server = from
    /\ server' = to
    /\ UNCHANGED <<ui, update, render, flags, ioStopped>>

\* An asio call that throws: nothing catches it in the thread.
Throws(from) ==
    /\ ~terminated
    /\ server = from
    /\ terminated' = TRUE
    /\ UNCHANGED <<ui, workers, alive, flags, net>>

CreateIo ==
    /\ ServerGoes("create_io", "create_acceptor")
    /\ alive' = alive \cup {"io_service"}
    /\ UNCHANGED <<acceptor, terminated>>

CreateAcceptor ==
    /\ ServerGoes("create_acceptor", "open")
    /\ acceptor' = "closed"
    /\ UNCHANGED <<alive, terminated>>

OpenAcceptor ==
    /\ ServerGoes("open", "set_option")
    /\ acceptor' = "open"
    /\ UNCHANGED <<alive, terminated>>

\* set_option, bind and listen each throw on a closed acceptor.
SetOption == ServerGoes("set_option", "bind") /\ acceptor = "open" /\ UNCHANGED <<alive, acceptor, terminated>>
Bind == ServerGoes("bind", "listen") /\ acceptor = "open" /\ UNCHANGED <<alive, acceptor, terminated>>
Listen == ServerGoes("listen", "accept") /\ acceptor = "open" /\ UNCHANGED <<alive, acceptor, terminated>>

FailOnClosed ==
    /\ acceptor = "closed"
    /\ \E step \in {"set_option", "bind", "listen"} : Throws(step)

BindRefused == BindMayFail /\ Throws("bind")

\* accept() reports a closed acceptor to its handler and does not throw.
Accept == ServerGoes("accept", "run") /\ UNCHANGED <<alive, acceptor, terminated>>

\* io_service->run() calls a handler: HandleAddDanmaku and AddDanmaku.
Handle == ServerGoes("run", "handling") /\ ~ioStopped /\ UNCHANGED <<alive, acceptor, terminated>>
Handled == ServerGoes("handling", "run") /\ UNCHANGED <<alive, acceptor, terminated>>

\* run() returns once the io_service is stopped.
RunReturns == ServerGoes("run", "done") /\ ioStopped /\ UNCHANGED <<alive, acceptor, terminated>>

-----------------------------------------------------------------------------
Open == GdiplusStartup \/ ConstructDialog \/ CreateOverlay \/ StartServer \/ ButtonDone
Close == \/ StopWithoutAcceptor \/ StopServer \/ CloseAcceptor \/ CloseConnections
         \/ StopIo \/ JoinServer \/ DestroyOverlay \/ JoinRender \/ DestroyServer
         \/ DestroyManager \/ JoinUpdate \/ GdiplusShutdown
Update == UpdatePass \/ UpdateSleep \/ UpdateExit
Render == RenderDraw \/ RenderShow \/ RenderSleep \/ RenderExit
Serve == \/ CreateIo \/ CreateAcceptor \/ OpenAcceptor \/ SetOption \/ Bind \/ Listen
         \/ FailOnClosed \/ BindRefused \/ Accept \/ Handle \/ Handled \/ RunReturns

Next == Open \/ PressButton \/ CloseWindow \/ Close \/ Update \/ Render \/ Serve

Spec == Init /\ [][Next]_vars

\* The threads run; nobody has to press the button or close the window.
FairSpec ==
    /\ Spec
    /\ WF_vars(Open) /\ WF_vars(Close)
    /\ WF_vars(Update) /\ WF_vars(Render) /\ WF_vars(Serve)

-----------------------------------------------------------------------------
(* Properties                                                              *)

\* Nobody uses an object that is not there yet or not any more, and no thread
\* outlives the object that holds its std::thread: the order of OnDestroy and of
\* the destructors stops and joins each thread before what it uses goes.
NoUseAfterDestroy ==
    ~terminated =>
        /\ update = "pass" => {"manager", "gdiplus"} \subseteq alive
        /\ render = "draw" => {"manager", "window", "gdiplus"} \subseteq alive
        /\ render = "show" => "window" \in alive
        /\ server = "handling" => {"manager", "gdiplus", "http_server", "io_service"} \subseteq alive
        /\ ui = "adding" => {"manager", "gdiplus"} \subseteq alive
        /\ server \notin {"none", "create_io", "done"} => "io_service" \in alive
        /\ server \notin {"none", "done"} => "http_server" \in alive
        /\ render \notin {"none", "done"} => "window" \in alive
        /\ update \notin {"none", "done"} => "manager" \in alive

\* When the window is closed while the server runs, the program ends: no join
\* waits for a thread that was not told to stop.
ShutdownCompletes == ui = "stop" /\ Running ~> ui = "exited"

\* The same whenever the window is closed. The code does not keep this: stop()
\* ahead of start() does nothing and the server is then joined for ever, and
\* stop() in the middle of start() makes it throw.
EndsCleanly == ui = "stop" ~> ui = "exited"
=============================================================================
