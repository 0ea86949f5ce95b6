---------------------------- MODULE DesktopShell -----------------------------
(***************************************************************************)
(* The desktop application (electron/main.js): it starts the gateway as a  *)
(* child process, polls its port until something answers, opens a window   *)
(* and a tray icon, reports a failed start and a crash in dialogs, and     *)
(* stops the child before it exits.  The child is the gateway's own main   *)
(* loop (main.go), which drains running requests when it is asked to stop. *)
(* Every event handler of the shell is one step: Node runs it to its end.  *)
(***************************************************************************)
EXTENDS Integers

CONSTANTS MaxRetries,   \* maxRetries of checkServerAvailability, 30 in the code
          MaxWindows    \* bound: windows that are ever created

ASSUME DesktopAssumption ==
    /\ MaxRetries \in Nat \ {0}
    /\ MaxWindows \in Nat \ {0}

VARIABLES
    isDev,          \* NODE_ENV is development: the servers are started by hand
    darwin,         \* the platform is macOS
    portTaken,      \* another program listens on the port
    ready,          \* app.whenReady() has run
    startup,        \* the promise of startServer
    probe,          \* the closures of checkServerAvailability
    server,         \* the child process as the operating system sees it
    exitCode,       \* how it ended
    serving,        \* a request is running in it
    serverProcess,  \* the variable of that name is set
    window,         \* every window ever created
    mainWindow,     \* the variable of that name
    dock,           \* the macOS dock icon is shown
    tray,           \* the tray icon exists
    isQuitting,     \* app.isQuitting
    crashDialog, failDialog,
    killTimer,      \* a timer of before-quit is pending
    closeListener,  \* before-quit listens for the end of the child
    exited          \* app.exit() was called, or the application has quit

envVars == <<isDev, darwin, portTaken>>
childVars == <<server, exitCode, serving>>
windowVars == <<window, mainWindow, dock>>
quitVars == <<isQuitting, killTimer, closeListener, exited>>
dialogVars == <<crashDialog, failDialog>>
startVars == <<ready, startup, tray>>
vars == <<envVars, childVars, windowVars, quitVars, dialogVars, startVars,
          probe, serverProcess>>

Undefined == -1
Null == 0
Windows == 1..MaxWindows
Alive == {"booting", "listening", "draining"}
Dialog == {"closed", "open", "log"}

\* currentAttempt, the requests under way, those destroyed by a timeout whose
\* error event is still to come, and the retries that wait for their delay.
Probe == [attempt : Nat, inflight : Nat, destroyed : Nat, timers : Nat]

TypeOK ==
    /\ isDev \in BOOLEAN /\ darwin \in BOOLEAN /\ portTaken \in BOOLEAN
    /\ ready \in BOOLEAN
    /\ startup \in {"pending", "resolved", "rejected"}
    /\ probe \in Probe
    /\ server \in Alive \cup {"none", "unspawned", "dead", "closed"}
    /\ exitCode \in {"none", "zero", "signal", "failure"}
    /\ serving \in BOOLEAN
    /\ serverProcess \in BOOLEAN
    /\ window \in [Windows -> {"absent", "visible", "hidden", "destroyed"}]
    /\ mainWindow \in Windows \cup {Undefined, Null}
    /\ dock \in BOOLEAN /\ tray \in BOOLEAN /\ isQuitting \in BOOLEAN
    /\ crashDialog \in Dialog /\ failDialog \in Dialog
    /\ killTimer \in BOOLEAN /\ closeListener \in BOOLEAN
    /\ exited \in BOOLEAN

Init ==
    /\ isDev \in BOOLEAN
    /\ darwin \in BOOLEAN
    /\ portTaken \in BOOLEAN
    /\ ready = FALSE
    /\ startup = "pending"
    /\ probe = [attempt |-> 0, inflight |-> 0, destroyed |-> 0, timers |-> 0]
    /\ server = "none"
    /\ exitCode = "none"
    /\ serving = FALSE
    /\ serverProcess = FALSE
    /\ window = [w \in Windows |-> "absent"]
    /\ mainWindow = Undefined
    /\ dock = TRUE
    /\ tray = FALSE
    /\ isQuitting = FALSE
    /\ crashDialog = "closed"
    /\ failDialog = "closed"
    /\ killTimer = FALSE
    /\ closeListener = FALSE
    /\ exited = FALSE
-----------------------------------------------------------------------------
(* Windows. *)

Live == {w \in Windows : window[w] \in {"visible", "hidden"}}

\* createWindow: the new window is shown and becomes the main one.
CreateWindow ==
    \E w \in Windows :
        /\ window[w] = "absent"
        /\ \A v \in Windows : v < w => window[v] # "absent"
        /\ window' = [window EXCEPT ![w] = "visible"]
        /\ mainWindow' = w
        /\ UNCHANGED dock

\* Faulty variant: no handler of the closed event.
CloseWindowKeepsRef(w) ==
    \/ /\ ~isQuitting
       /\ window' = [window EXCEPT ![mainWindow] = "hidden"]
       /\ dock' = (dock /\ ~darwin)
       /\ UNCHANGED mainWindow
    \/ /\ isQuitting
       /\ window' = [window EXCEPT ![w] = "destroyed"]
       /\ UNCHANGED <<mainWindow, dock>>

\* The close event of a window: it hides the main window, whichever window
\* is being closed, unless the application is quitting; the closed event of any
\* window forgets the main one.
CloseWindow(w) ==
    \/ /\ ~isQuitting
       /\ window' = [window EXCEPT ![mainWindow] = "hidden"]
       /\ dock' = (dock /\ ~darwin)
       /\ UNCHANGED mainWindow
    \/ /\ isQuitting
       /\ window' = [window EXCEPT ![w] = "destroyed"]
       /\ mainWindow' = Null
       /\ UNCHANGED dock

UserClosesWindow(w) ==
    /\ ~exited
    /\ window[w] = "visible"
    /\ CloseWindow(w)
    /\ UNCHANGED <<envVars, childVars, quitVars, dialogVars, startVars, probe,
                   serverProcess>>

ShowMainWindow ==
    /\ window' = [window EXCEPT ![mainWindow] = "visible"]
    /\ dock' = (dock \/ darwin)
    /\ UNCHANGED mainWindow

\* "Show New API" of the tray menu; with a mainWindow that was never set the
\* handler throws.
TrayShow ==
    /\ tray /\ ~exited
    /\ \/ mainWindow = Null /\ CreateWindow
       \/ mainWindow \in Windows /\ ShowMainWindow
    /\ UNCHANGED <<envVars, childVars, quitVars, dialogVars, startVars, probe,
                   serverProcess>>

\* A click on the tray icon toggles the window; hiding it leaves the dock icon.
TrayClick ==
    /\ tray /\ ~exited
    /\ \/ mainWindow = Null /\ CreateWindow
       \/ /\ mainWindow \in Windows
          /\ window[mainWindow] = "visible"
          /\ window' = [window EXCEPT ![mainWindow] = "hidden"]
          /\ UNCHANGED <<mainWindow, dock>>
       \/ /\ mainWindow \in Windows
          /\ window[mainWindow] # "visible"
          /\ ShowMainWindow
    /\ UNCHANGED <<envVars, childVars, quitVars, dialogVars, startVars, probe,
                   serverProcess>>

\* The activate event of macOS: a window is created when there is none, also
\* while the server is still being waited for.
Activate ==
    /\ darwin /\ ready /\ ~exited
    /\ Live = {}
    /\ CreateWindow
    /\ UNCHANGED <<envVars, childVars, quitVars, dialogVars, startVars, probe,
                   serverProcess>>
-----------------------------------------------------------------------------
(* Starting the server and waiting for its port. *)

\* startServer settles once; the code after its await runs at once.  An
\* exception of createTray, or of createWindow after it, is a failed start.
Resolve ==
    IF startup = "pending"
    THEN /\ startup' = "resolved"
         /\ \/ tray' = TRUE /\ CreateWindow /\ UNCHANGED failDialog
            \/ tray' \in BOOLEAN /\ failDialog' = "open" /\ UNCHANGED windowVars
         /\ UNCHANGED ready
    ELSE UNCHANGED <<startVars, windowVars, failDialog>>

Reject ==
    /\ IF startup = "pending"
       THEN startup' = "rejected" /\ failDialog' = "open"
       ELSE UNCHANGED <<startup, failDialog>>
    /\ UNCHANGED <<ready, tray, windowVars>>

\* startServer: the child is spawned, which may fail, and the first request
\* is sent to the port; in development there is only the request.
StartServer ==
    /\ ~ready /\ ~exited
    /\ ready' = TRUE
    /\ serverProcess' = ~isDev
    /\ server' \in IF isDev THEN {"none"} ELSE {"booting", "unspawned"}
    /\ probe' = [probe EXCEPT !.attempt = 1, !.inflight = 1]
    /\ UNCHANGED <<envVars, exitCode, serving, windowVars, quitVars, dialogVars,
                   startup, tray>>

\* The error event of a child that could not be spawned; its close event may
\* follow.
SpawnError ==
    /\ server = "unspawned" /\ ~exited
    /\ Reject
    /\ \/ server' = "dead" /\ exitCode' = "failure"
       \/ server' = "closed" /\ UNCHANGED exitCode
    /\ UNCHANGED <<envVars, serving, quitVars, crashDialog, probe, serverProcess>>

\* Something accepts connections on the polled port.
PortAnswers == isDev \/ portTaken \/ server = "listening"

\* The response callback of one request.
ProbeResponse ==
    /\ probe.inflight > 0 /\ ~exited
    /\ PortAnswers
    /\ probe' = [probe EXCEPT !.inflight = @ - 1]
    /\ Resolve
    /\ UNCHANGED <<envVars, childVars, quitVars, crashDialog, serverProcess>>

\* Faulty variants: one attempt too many; giving up without saying so.
RetryOnceMore(p) ==
    IF p.attempt > MaxRetries
    THEN probe' = p /\ Reject
    ELSE /\ probe' = [p EXCEPT !.timers = @ + 1]
         /\ UNCHANGED <<startVars, failDialog, windowVars>>

RetryOrForget(p) ==
    /\ probe' = IF p.attempt >= MaxRetries THEN p ELSE [p EXCEPT !.timers = @ + 1]
    /\ UNCHANGED <<startVars, failDialog, windowVars>>

\* What the error handler and the timeout handler do alike: give up or wait
\* for retryDelay, by the number of attempts made by any chain of retries.
RetryOrReject(p) ==
    IF p.attempt >= MaxRetries
    THEN probe' = p /\ Reject
    ELSE /\ probe' = [p EXCEPT !.timers = @ + 1]
         /\ UNCHANGED <<startVars, failDialog, windowVars>>

ProbeError ==
    /\ probe.inflight > 0 /\ ~exited
    /\ RetryOrReject([probe EXCEPT !.inflight = @ - 1])
    /\ UNCHANGED <<envVars, childVars, quitVars, crashDialog, serverProcess>>

\* The timeout handler destroys the request and retries; the destroyed
\* request raises its own error event later, which retries again.
ProbeTimeout ==
    /\ probe.inflight > 0 /\ ~exited
    /\ PortAnswers
    /\ RetryOrReject([probe EXCEPT !.inflight = @ - 1, !.destroyed = @ + 1])
    /\ UNCHANGED <<envVars, childVars, quitVars, crashDialog, serverProcess>>

ProbeHangUp ==
    /\ probe.destroyed > 0 /\ ~exited
    /\ RetryOrReject([probe EXCEPT !.destroyed = @ - 1])
    /\ UNCHANGED <<envVars, childVars, quitVars, crashDialog, serverProcess>>

TryConnect ==
    /\ probe.timers > 0 /\ ~exited
    /\ probe' = [probe EXCEPT !.timers = @ - 1, !.attempt = @ + 1,
                              !.inflight = @ + 1]
    /\ UNCHANGED <<envVars, childVars, windowVars, quitVars, dialogVars, startVars,
                   serverProcess>>
-----------------------------------------------------------------------------
(* The child process (main.go), and what the shell does when it has ended. *)

ServerListens ==
    /\ server = "booting" /\ ~portTaken /\ ~exited
    /\ server' = "listening"
    /\ UNCHANGED <<envVars, exitCode, serving, windowVars, quitVars, dialogVars,
                   startVars, probe, serverProcess>>

\* A request begins, or ends.
Request ==
    /\ \/ server = "listening"
       \/ server = "draining" /\ serving
    /\ ~exited
    /\ serving' = ~serving
    /\ UNCHANGED <<envVars, server, exitCode, windowVars, quitVars, dialogVars,
                   startVars, probe, serverProcess>>

\* The child ends: it crashes or cannot bind its port, somebody kills it, or
\* it has drained its requests (code zero) or has given up draining them.
ServerExits(code) ==
    /\ server \in Alive /\ ~exited
    /\ code = "zero" => server = "draining" /\ ~serving
    /\ server' = "dead"
    /\ exitCode' = code
    /\ serving' = FALSE
    /\ UNCHANGED <<envVars, windowVars, quitVars, dialogVars, startVars, probe,
                   serverProcess>>

\* SIGTERM: serveHTTPUntilShutdown begins to drain; before it runs, the signal
\* ends the process.
Terminated ==
    CASE server = "listening" -> server' = "draining" /\ UNCHANGED <<exitCode, serving>>
      [] server = "booting"   -> /\ server' = "dead"
                                 /\ exitCode' = "signal"
                                 /\ UNCHANGED serving
      [] OTHER                -> UNCHANGED childVars

\* Somebody else, as the operating system at its own shutdown, sends SIGTERM.
TerminateServer ==
    /\ server \in {"booting", "listening"} /\ ~exited
    /\ Terminated
    /\ UNCHANGED <<envVars, windowVars, quitVars, dialogVars, startVars, probe,
                   serverProcess>>

\* Faulty variant: without a window a crash is not reported.
ServerCloseQuietly ==
    /\ server = "dead" /\ ~exited
    /\ server' = "closed"
    /\ IF exitCode = "failure" /\ mainWindow \in Live
       THEN crashDialog' = "open" /\ UNCHANGED windowVars
       ELSE /\ UNCHANGED crashDialog
            /\ IF mainWindow \in Live THEN CloseWindow(mainWindow)
                                      ELSE UNCHANGED windowVars
    /\ serverProcess' = (serverProcess /\ ~closeListener)
    /\ exited' = closeListener
    /\ UNCHANGED <<envVars, exitCode, serving, isQuitting, killTimer, closeListener,
                   failDialog, startVars, probe>>

\* The close event of the child: the handler of startServer, then the one that
\* before-quit has added, if it was added in time.
ServerClose ==
    /\ server = "dead" /\ ~exited
    /\ server' = "closed"
    /\ IF exitCode = "failure"
       THEN crashDialog' = "open" /\ UNCHANGED windowVars
       ELSE /\ UNCHANGED crashDialog
            /\ IF mainWindow \in Live THEN CloseWindow(mainWindow)
                                      ELSE UNCHANGED windowVars
    /\ serverProcess' = (serverProcess /\ ~closeListener)
    /\ exited' = closeListener
    /\ UNCHANGED <<envVars, exitCode, serving, isQuitting, killTimer, closeListener,
                   failDialog, startVars, probe>>
-----------------------------------------------------------------------------
(* Quitting. *)

\* Faulty variant: only the close event ends the wait.
BeforeQuitWithoutTimer ==
    /\ serverProcess
    /\ closeListener' = (closeListener \/ server # "closed")
    /\ Terminated
    /\ UNCHANGED <<windowVars, exited, killTimer>>

\* before-quit while serverProcess is set: the quit is put off, the child is
\* asked to stop and five seconds later killed.
BeforeQuit ==
    /\ serverProcess
    /\ killTimer' = TRUE
    /\ closeListener' = (closeListener \/ server # "closed")
    /\ Terminated
    /\ UNCHANGED <<windowVars, exited>>

\* Without a child the windows are closed; one that refuses stops the quit.
CloseAllWindows(quitting) ==
    /\ ~serverProcess
    /\ IF quitting \/ Live = {}
       THEN /\ window' = [w \in Windows |->
                            IF w \in Live THEN "destroyed" ELSE window[w]]
            /\ mainWindow' = IF Live = {} THEN mainWindow ELSE Null
            /\ exited' = TRUE
            /\ UNCHANGED dock
       ELSE /\ window' = [window EXCEPT ![mainWindow] = "hidden"]
            /\ dock' = (dock /\ ~darwin)
            /\ UNCHANGED <<mainWindow, exited>>
    /\ UNCHANGED <<childVars, killTimer, closeListener>>

\* app.quit()
Quit(quitting) ==
    /\ isQuitting' = quitting
    /\ BeforeQuit \/ CloseAllWindows(quitting)
    /\ UNCHANGED <<envVars, startVars, probe, serverProcess>>

TrayQuit ==
    /\ tray /\ ~exited
    /\ Quit(TRUE)
    /\ UNCHANGED dialogVars

\* Quit of the application menu or of the system: isQuitting is not set.
MenuQuit ==
    /\ ready /\ ~exited
    /\ Quit(isQuitting)
    /\ UNCHANGED dialogVars

\* The buttons of the crash dialog: see the log first, or quit.
CrashDialogLog ==
    /\ crashDialog = "open" /\ ~exited
    /\ crashDialog' = "log"
    /\ UNCHANGED <<envVars, childVars, windowVars, quitVars, failDialog, startVars,
                   probe, serverProcess>>

CrashDialogQuit ==
    /\ crashDialog # "closed" /\ ~exited
    /\ crashDialog' = "closed"
    /\ Quit(TRUE)
    /\ UNCHANGED failDialog

\* The dialog of a failed start quits without setting isQuitting.
FailDialogLog ==
    /\ failDialog = "open" /\ ~exited
    /\ failDialog' = "log"
    /\ UNCHANGED <<envVars, childVars, windowVars, quitVars, crashDialog, startVars,
                   probe, serverProcess>>

FailDialogQuit ==
    /\ failDialog # "closed" /\ ~exited
    /\ failDialog' = "closed"
    /\ Quit(isQuitting)
    /\ UNCHANGED crashDialog

\* Faulty variant: the shell exits without killing the child.
KillTimerOnlyExits ==
    /\ killTimer /\ ~exited
    /\ exited' = TRUE
    /\ UNCHANGED <<envVars, childVars, windowVars, isQuitting, killTimer, closeListener,
                   dialogVars, startVars, probe, serverProcess>>

\* Five seconds after before-quit.
KillTimer ==
    /\ killTimer /\ ~exited
    /\ IF serverProcess /\ server \in Alive
       THEN server' = "dead" /\ exitCode' = "signal" /\ serving' = FALSE
       ELSE UNCHANGED childVars
    /\ exited' = TRUE
    /\ UNCHANGED <<envVars, windowVars, isQuitting, killTimer, closeListener,
                   dialogVars, startVars, probe, serverProcess>>

Next ==
    \/ StartServer \/ SpawnError
    \/ ProbeResponse \/ ProbeError \/ ProbeTimeout \/ ProbeHangUp \/ TryConnect
    \/ ServerListens \/ Request \/ TerminateServer \/ ServerClose
    \/ \E code \in {"zero", "signal", "failure"} : ServerExits(code)
    \/ \E w \in Windows : UserClosesWindow(w)
    \/ TrayShow \/ TrayClick \/ Activate
    \/ TrayQuit \/ MenuQuit
    \/ CrashDialogLog \/ CrashDialogQuit \/ FailDialogLog \/ FailDialogQuit
    \/ KillTimer

Spec == Init /\ [][Next]_vars

\* Node delivers its events and timers, a request to the port ends in one of
\* the three ways, and the user answers a dialog.
FairSpec ==
    /\ Spec
    /\ WF_vars(StartServer) /\ WF_vars(SpawnError) /\ WF_vars(ServerClose)
    /\ WF_vars(ProbeResponse \/ ProbeError \/ ProbeTimeout)
    /\ WF_vars(ProbeHangUp) /\ WF_vars(TryConnect)
    /\ WF_vars(KillTimer)
    /\ WF_vars(CrashDialogQuit) /\ WF_vars(FailDialogQuit)
-----------------------------------------------------------------------------
\* The gateway never outlives the application: whichever way the shell ends
\* (the close event of the child, the timer of before-quit, the quit of a
\* shell that has no child), the child it spawned has ended.
NoOrphanServer == exited => server \notin Alive

\* mainWindow is used without a question by the close event of every window,
\* while the application is not quitting, and by the tray.  However many windows
\* there are and in whatever order they go, it is a window that still exists.
MainWindowExists ==
    /\ mainWindow \in Windows => mainWindow \in Live
    /\ Live # {} /\ ~isQuitting => mainWindow \in Live

\* A request that times out is retried twice, by its timeout handler and by
\* the error event of its destruction, so more than maxRetries requests may be
\* made; the counter the chains of retries share keeps them below twice that.
ProbesAreBounded == probe.attempt <= 2 * MaxRetries - 1

\* A shell that was told to quit does exit: also when the child ignores the
\* signal, drains for long or had crashed before, and its close event is past.
QuitEnds == isQuitting ~> exited

\* The wait for the server ends: the window opens, or the failure is shown.
StartupSettles == ready ~> (startup # "pending" \/ exited)

\* A crash of the child is never silent, and it ends the application.
CrashEnds == (server = "dead" /\ exitCode = "failure") ~> exited
=============================================================================
