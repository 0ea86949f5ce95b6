-------------------------- MODULE DesktopShellProofs --------------------------
(***************************************************************************)
(* Theorems about DesktopShell, for any number of retries and windows.     *)
(***************************************************************************)
EXTENDS DesktopShell, TLAPS

USE DesktopAssumption

\* A child that runs is one the shell knows of: the variable serverProcess is
\* only cleared by the close event.
ChildKnown == server \in Alive => serverProcess

\* Every request leads to at most two retries.  On the left the requests that
\* were started and those that are still owed, twice for one under way and once
\* for one whose error event is to come; on the right two for each request
\* made, and the first.  No retry is planned once maxRetries is reached.
Owed ==
    /\ ~ready => probe = [attempt |-> 0, inflight |-> 0, destroyed |-> 0, timers |-> 0]
    /\ probe.attempt + probe.timers + 2 * probe.inflight + probe.destroyed
          <= 2 * probe.attempt + 1
    /\ probe.attempt + probe.timers <= 2 * MaxRetries - 1

Inv == TypeOK /\ ChildKnown /\ Owed

-----------------------------------------------------------------------------
(* The handlers that the actions share. *)

\* What the operations on windows do to the three variables of windows.
WindowsOK == /\ window' \in [Windows -> {"absent", "visible", "hidden", "destroyed"}]
             /\ mainWindow' \in Windows \cup {Undefined, Null}
             /\ dock' \in BOOLEAN

\* The operations on windows keep the types of their variables.
LEMMA WindowSteps ==
    ASSUME TypeOK, NEW w,
           CreateWindow \/ CloseWindow(w) \/ ShowMainWindow \/ UNCHANGED windowVars
    PROVE  WindowsOK
<1>1. CASE CreateWindow
  BY <1>1 DEF CreateWindow, TypeOK, WindowsOK
<1>2. CASE CloseWindow(w)
  BY <1>2 DEF CloseWindow, TypeOK, WindowsOK
<1>3. CASE ShowMainWindow
  BY <1>3 DEF ShowMainWindow, TypeOK, WindowsOK
<1>4. CASE UNCHANGED windowVars
  BY <1>4 DEF windowVars, TypeOK, WindowsOK
<1> QED
  BY <1>1, <1>2, <1>3, <1>4

\* A promise that is settled, or was before, leaves the types alone.
LEMMA SettleSteps ==
    ASSUME TypeOK, Resolve \/ Reject
    PROVE  /\ WindowsOK
           /\ startup' \in {"pending", "resolved", "rejected"}
           /\ tray' \in BOOLEAN /\ failDialog' \in Dialog /\ ready' = ready
<1>1. CASE Resolve
  <2>1. WindowsOK
    BY <1>1, WindowSteps DEF Resolve, startVars
  <2> QED
    BY <1>1, <2>1 DEF Resolve, startVars, TypeOK, Dialog
<1>2. CASE Reject
  <2>1. WindowsOK
    BY <1>2, WindowSteps DEF Reject
  <2> QED
    BY <1>2, <2>1 DEF Reject, TypeOK, Dialog
<1> QED
  BY <1>1, <1>2

\* Counting one request off pays for the retry that is planned for it.
LEMMA RetrySteps ==
    ASSUME Inv, NEW p \in Probe, RetryOrReject(p), ready,
           p.attempt = probe.attempt, p.timers = probe.timers,
           2 * p.inflight + p.destroyed + 1 <= 2 * probe.inflight + probe.destroyed
    PROVE  /\ probe' \in Probe /\ Owed'
           /\ WindowsOK
           /\ startup' \in {"pending", "resolved", "rejected"}
           /\ tray' \in BOOLEAN /\ failDialog' \in Dialog /\ ready' = ready
<1>1. CASE p.attempt >= MaxRetries
  <2>1. probe' = p /\ Reject
    BY <1>1 DEF RetryOrReject
  <2>2. ready' = ready
    BY <2>1 DEF Reject
  <2>3. Owed'
    BY <2>1, <2>2 DEF Inv, Owed, TypeOK, Probe
  <2> QED
    BY <2>1, <2>3, SettleSteps DEF Inv
<1>2. CASE ~(p.attempt >= MaxRetries)
  <2>1. probe' = [p EXCEPT !.timers = @ + 1] /\ UNCHANGED <<startVars, failDialog, windowVars>>
    BY <1>2 DEF RetryOrReject
  <2>2. probe' \in Probe
    BY <2>1 DEF Probe
  <2>3. Owed'
    BY <1>2, <2>1 DEF Inv, Owed, TypeOK, Probe, startVars
  <2>4. WindowsOK
    BY <2>1, WindowSteps DEF Inv
  <2> QED
    BY <2>1, <2>2, <2>3, <2>4 DEF startVars, Inv, TypeOK
<1> QED
  BY <1>1, <1>2

\* SIGTERM never makes a child.
LEMMA TerminatedSteps ==
    ASSUME TypeOK, Terminated
    PROVE  /\ server' \in Alive \cup {"none", "unspawned", "dead", "closed"}
           /\ exitCode' \in {"none", "zero", "signal", "failure"}
           /\ serving' \in BOOLEAN
           /\ server' \in Alive => server \in Alive
  BY DEF Terminated, TypeOK, Alive, childVars

-----------------------------------------------------------------------------
\* A shell that has just started satisfies the invariant.
LEMMA InitInv == Init => Inv
<1> SUFFICES ASSUME Init PROVE Inv
  OBVIOUS
<1>1. TypeOK
  BY DEF Init, TypeOK, Probe, Dialog
<1>2. ChildKnown
  BY DEF Init, ChildKnown, Alive
<1>3. Owed
  BY DEF Init, Owed
<1> QED
  BY <1>1, <1>2, <1>3 DEF Inv

-----------------------------------------------------------------------------
(* The steps, by what they are about. *)

\* What no step of windows and dialogs touches.
LEMMA QuietSteps ==
    ASSUME Inv, UNCHANGED <<envVars, childVars, probe, serverProcess, quitVars>>,
           WindowsOK, ready' = ready,
           startup' \in {"pending", "resolved", "rejected"}, tray' \in BOOLEAN,
           crashDialog' \in Dialog, failDialog' \in Dialog
    PROVE  Inv'
<1>1. TypeOK'
  BY DEF Inv, TypeOK, WindowsOK, envVars, childVars, quitVars
<1>2. ChildKnown' /\ Owed'
  BY DEF Inv, ChildKnown, Owed, childVars
<1> QED
  BY <1>1, <1>2 DEF Inv

\* Windows, tray and log files do not concern the child or its probes.
LEMMA WindowActions ==
    ASSUME Inv,
           \/ \E w \in Windows : UserClosesWindow(w)
           \/ TrayShow \/ TrayClick \/ Activate
           \/ CrashDialogLog \/ FailDialogLog
    PROVE  Inv'
<1> USE DEF dialogVars, startVars, Dialog
<1>0. TypeOK
  BY DEF Inv
<1>1. ASSUME NEW w \in Windows, UserClosesWindow(w) PROVE Inv'
  <2>1. WindowsOK
    BY <1>0, <1>1, WindowSteps DEF UserClosesWindow
  <2> QED
    BY <1>0, <1>1, <2>1, QuietSteps DEF UserClosesWindow, TypeOK
<1>2. CASE TrayShow
  <2>1. WindowsOK
    BY <1>0, <1>2, WindowSteps DEF TrayShow
  <2> QED
    BY <1>0, <1>2, <2>1, QuietSteps DEF TrayShow, TypeOK
<1>3. CASE TrayClick
  <2>1. WindowsOK
    <3>1. CASE CreateWindow \/ ShowMainWindow
      BY <1>0, <3>1, WindowSteps
    <3>2. CASE window' = [window EXCEPT ![mainWindow] = "hidden"] /\ UNCHANGED <<mainWindow, dock>>
      BY <1>0, <3>2 DEF TypeOK, WindowsOK
    <3> QED
      BY <1>3, <3>1, <3>2 DEF TrayClick
  <2> QED
    BY <1>0, <1>3, <2>1, QuietSteps DEF TrayClick, TypeOK
<1>4. CASE Activate
  <2>1. WindowsOK
    BY <1>0, <1>4, WindowSteps DEF Activate
  <2> QED
    BY <1>0, <1>4, <2>1, QuietSteps DEF Activate, TypeOK
<1>5. CASE CrashDialogLog
  <2>1. WindowsOK
    BY <1>0, <1>5, WindowSteps DEF CrashDialogLog
  <2> QED
    BY <1>0, <1>5, <2>1, QuietSteps DEF CrashDialogLog, TypeOK
<1>6. CASE FailDialogLog
  <2>1. WindowsOK
    BY <1>0, <1>6, WindowSteps DEF FailDialogLog
  <2> QED
    BY <1>0, <1>6, <2>1, QuietSteps DEF FailDialogLog, TypeOK
<1> QED
  BY <1>1, <1>2, <1>3, <1>4, <1>5, <1>6

\* The wait for the port.  A request under way was sent after the start.
LEMMA ProbeActions ==
    ASSUME Inv, ProbeResponse \/ ProbeError \/ ProbeTimeout \/ ProbeHangUp \/ TryConnect
    PROVE  Inv'
<1>0. TypeOK /\ ChildKnown /\ Owed
  BY DEF Inv
<1>1. ASSUME probe' \in Probe, Owed', WindowsOK, ready' = ready,
             startup' \in {"pending", "resolved", "rejected"}, tray' \in BOOLEAN,
             failDialog' \in Dialog,
             UNCHANGED <<envVars, childVars, quitVars, crashDialog, serverProcess>>
      PROVE  Inv'
  <2>1. TypeOK'
    BY <1>0, <1>1 DEF TypeOK, WindowsOK, envVars, childVars, quitVars
  <2>2. ChildKnown'
    BY <1>0, <1>1 DEF ChildKnown, childVars
  <2> QED
    BY <1>1, <2>1, <2>2 DEF Inv
<1>2. CASE ProbeResponse
  <2>1. probe' = [probe EXCEPT !.inflight = @ - 1] /\ probe.inflight > 0 /\ Resolve
    BY <1>2 DEF ProbeResponse
  <2>2. probe' \in Probe
    BY <1>0, <2>1 DEF TypeOK, Probe
  <2>3. ready' = ready
    BY <1>0, <2>1, SettleSteps
  <2>4. Owed'
    BY <1>0, <2>1, <2>3 DEF TypeOK, Owed, Probe
  <2> QED
    BY <1>0, <1>1, <1>2, <2>1, <2>2, <2>4, SettleSteps DEF ProbeResponse
<1>3. CASE ProbeError
  <2> DEFINE p == [probe EXCEPT !.inflight = @ - 1]
  <2>1. probe.inflight > 0 /\ RetryOrReject(p)
    BY <1>3 DEF ProbeError
  <2>2. p \in Probe /\ p.attempt = probe.attempt /\ p.timers = probe.timers
        /\ 2 * p.inflight + p.destroyed + 1 <= 2 * probe.inflight + probe.destroyed
    BY <1>0, <2>1 DEF TypeOK, Probe
  <2>3. ready
    BY <1>0, <2>1 DEF TypeOK, Owed
  <2> HIDE DEF p
  <2> QED
    BY <1>1, <1>3, <2>1, <2>2, <2>3, RetrySteps DEF ProbeError
<1>4. CASE ProbeTimeout
  <2> DEFINE p == [probe EXCEPT !.inflight = @ - 1, !.destroyed = @ + 1]
  <2>1. probe.inflight > 0 /\ RetryOrReject(p)
    BY <1>4 DEF ProbeTimeout
  <2>2. p \in Probe /\ p.attempt = probe.attempt /\ p.timers = probe.timers
        /\ 2 * p.inflight + p.destroyed + 1 <= 2 * probe.inflight + probe.destroyed
    <3>1. probe \in Probe
      BY <1>0 DEF TypeOK
    <3>2. /\ p.attempt = probe.attempt /\ p.inflight = probe.inflight - 1
          /\ p.destroyed = probe.destroyed + 1 /\ p.timers = probe.timers
      BY <3>1 DEF Probe
    <3>3. probe.inflight - 1 \in Nat /\ probe.destroyed + 1 \in Nat
      BY <2>1, <3>1 DEF Probe
    <3>4. p \in Probe
      BY <3>1, <3>3, Zenon DEF Probe
    <3> QED
      BY <2>1, <3>1, <3>2, <3>4 DEF Probe
  <2>3. ready
    BY <1>0, <2>1 DEF TypeOK, Owed
  <2> HIDE DEF p
  <2> QED
    BY <1>1, <1>4, <2>1, <2>2, <2>3, RetrySteps DEF ProbeTimeout
<1>5. CASE ProbeHangUp
  <2> DEFINE p == [probe EXCEPT !.destroyed = @ - 1]
  <2>1. probe.destroyed > 0 /\ RetryOrReject(p)
    BY <1>5 DEF ProbeHangUp
  <2>2. p \in Probe /\ p.attempt = probe.attempt /\ p.timers = probe.timers
        /\ 2 * p.inflight + p.destroyed + 1 <= 2 * probe.inflight + probe.destroyed
    BY <1>0, <2>1 DEF TypeOK, Probe
  <2>3. ready
    BY <1>0, <2>1 DEF TypeOK, Owed
  <2> HIDE DEF p
  <2> QED
    BY <1>1, <1>5, <2>1, <2>2, <2>3, RetrySteps DEF ProbeHangUp
<1>6. CASE TryConnect
  <2>1. /\ probe.timers > 0
        /\ probe' = [probe EXCEPT !.timers = @ - 1, !.attempt = @ + 1, !.inflight = @ + 1]
        /\ ready' = ready
    BY <1>6 DEF TryConnect, startVars
  <2>2. probe' \in Probe
    <3>1. probe \in Probe
      BY <1>0 DEF TypeOK
    <3>2. probe' = [attempt |-> probe.attempt + 1, inflight |-> probe.inflight + 1,
                    destroyed |-> probe.destroyed, timers |-> probe.timers - 1]
      BY <2>1, <3>1 DEF Probe
    <3> QED
      BY <2>1, <3>1, <3>2 DEF Probe
  <2>3. Owed'
    BY <1>0, <2>1 DEF TypeOK, Owed, Probe
  <2>4. WindowsOK
    BY <1>0, <1>6, WindowSteps DEF TryConnect
  <2> QED
    BY <1>0, <1>1, <1>6, <2>2, <2>3, <2>4 DEF TryConnect, TypeOK, dialogVars, startVars
<1> QED
  BY <1>2, <1>3, <1>4, <1>5, <1>6

\* The start, the child and the quit.
LEMMA ChildActions ==
    ASSUME Inv,
           \/ StartServer \/ SpawnError
           \/ ServerListens \/ Request \/ TerminateServer \/ ServerClose
           \/ \E code \in {"zero", "signal", "failure"} : ServerExits(code)
    PROVE  Inv'
<1> USE DEF envVars, quitVars
<1>0. TypeOK /\ ChildKnown /\ Owed
  BY DEF Inv
<1>1. CASE StartServer
  <2>1. probe' = [attempt |-> 1, inflight |-> 1, destroyed |-> 0, timers |-> 0]
    <3>1. probe = [attempt |-> 0, inflight |-> 0, destroyed |-> 0, timers |-> 0]
      BY <1>0, <1>1 DEF StartServer, Owed
    <3>2. probe' = [probe EXCEPT !.attempt = 1, !.inflight = 1]
      BY <1>1 DEF StartServer
    <3> QED
      BY <3>1, <3>2, Zenon
  <2>2. TypeOK'
    <3>1. WindowsOK
      BY <1>0, <1>1, WindowSteps DEF StartServer
    <3>2. server' \in Alive \cup {"none", "unspawned", "dead", "closed"} /\ serverProcess' \in BOOLEAN
      BY <1>0, <1>1 DEF StartServer, Alive, TypeOK
    <3>3. probe' \in Probe
      BY <2>1 DEF Probe
    <3> QED
      BY <1>0, <1>1, <3>1, <3>2, <3>3 DEF StartServer, TypeOK, WindowsOK, dialogVars
  <2>3. ChildKnown'
    BY <1>0, <1>1 DEF StartServer, ChildKnown, Alive, TypeOK
  <2>4. Owed'
    <3>1. ready'
      BY <1>1 DEF StartServer
    <3>2. /\ probe'.attempt = 1 /\ probe'.inflight = 1
          /\ probe'.destroyed = 0 /\ probe'.timers = 0
      BY <2>1
    <3> QED
      BY <3>1, <3>2 DEF Owed
  <2> QED
    BY <2>2, <2>3, <2>4 DEF Inv
<1>2. CASE SpawnError
  <2>1. /\ WindowsOK
        /\ startup' \in {"pending", "resolved", "rejected"}
        /\ tray' \in BOOLEAN /\ failDialog' \in Dialog /\ ready' = ready
    BY <1>0, <1>2, SettleSteps DEF SpawnError
  <2>2. TypeOK'
    BY <1>0, <1>2, <2>1 DEF SpawnError, TypeOK, WindowsOK
  <2>3. ChildKnown' /\ Owed'
    BY <1>0, <1>2, <2>1 DEF SpawnError, ChildKnown, Owed, Alive
  <2> QED
    BY <2>2, <2>3 DEF Inv
<1>3. ASSUME server' \in Alive \cup {"none", "unspawned", "dead", "closed"},
             exitCode' \in {"none", "zero", "signal", "failure"},
             serving' \in BOOLEAN,
             server' \in Alive => server \in Alive,
             UNCHANGED <<envVars, windowVars, quitVars, dialogVars, startVars, probe,
                         serverProcess>>
      PROVE  Inv'
  <2>1. TypeOK'
    BY <1>0, <1>3 DEF TypeOK, windowVars, dialogVars, startVars
  <2>2. ChildKnown' /\ Owed'
    BY <1>0, <1>3 DEF ChildKnown, Owed, startVars
  <2> QED
    BY <2>1, <2>2 DEF Inv
<1>4. CASE ServerListens
  BY <1>0, <1>3, <1>4 DEF ServerListens, Alive, TypeOK
<1>5. CASE Request
  BY <1>0, <1>3, <1>5 DEF Request, TypeOK
<1>6. CASE TerminateServer
  BY <1>0, <1>3, <1>6, TerminatedSteps DEF TerminateServer
<1>7. ASSUME NEW code \in {"zero", "signal", "failure"}, ServerExits(code) PROVE Inv'
  BY <1>0, <1>3, <1>7 DEF ServerExits, Alive
<1>8. CASE ServerClose
  <2>1. WindowsOK
    <3>1. CloseWindow(mainWindow) \/ UNCHANGED windowVars
      BY <1>8 DEF ServerClose
    <3> QED
      BY <1>0, <3>1, WindowSteps
  <2>2. TypeOK'
    BY <1>0, <1>8, <2>1 DEF ServerClose, TypeOK, WindowsOK, Dialog, startVars
  <2>3. ChildKnown' /\ Owed'
    BY <1>0, <1>8 DEF ServerClose, ChildKnown, Owed, Alive, startVars
  <2> QED
    BY <2>2, <2>3 DEF Inv
<1> QED
  BY <1>1, <1>2, <1>4, <1>5, <1>6, <1>7, <1>8

\* The ways to quit: the shell exits only without a running child.
LEMMA QuitActions ==
    ASSUME Inv, TrayQuit \/ MenuQuit \/ CrashDialogQuit \/ FailDialogQuit \/ KillTimer
    PROVE  Inv'
<1>0. TypeOK /\ ChildKnown /\ Owed
  BY DEF Inv
<1>1. ASSUME NEW quitting \in BOOLEAN, Quit(quitting),
             crashDialog' \in Dialog, failDialog' \in Dialog
      PROVE  Inv'
  <2>1. CASE BeforeQuit
    <3>1. /\ server' \in Alive \cup {"none", "unspawned", "dead", "closed"}
          /\ exitCode' \in {"none", "zero", "signal", "failure"}
          /\ serving' \in BOOLEAN
          /\ server' \in Alive => server \in Alive
      BY <1>0, <2>1, TerminatedSteps DEF BeforeQuit
    <3>2. TypeOK'
      BY <1>0, <1>1, <2>1, <3>1
      DEF BeforeQuit, Quit, TypeOK, envVars, windowVars, startVars
    <3>3. ChildKnown' /\ Owed'
      BY <1>0, <1>1, <3>1 DEF Quit, ChildKnown, Owed, startVars
    <3> QED
      BY <3>2, <3>3 DEF Inv
  <2>2. CASE CloseAllWindows(quitting)
    <3>1. WindowsOK
      BY <1>0, <2>2 DEF CloseAllWindows, TypeOK, WindowsOK
    <3>2. TypeOK'
      <4>1. exited' \in BOOLEAN /\ isQuitting' \in BOOLEAN
        BY <1>0, <1>1, <2>2 DEF CloseAllWindows, Quit, TypeOK
      <4>2. UNCHANGED <<envVars, childVars, startVars, probe, serverProcess, killTimer, closeListener>>
        BY <1>1, <2>2 DEF CloseAllWindows, Quit
      <4> QED
        BY <1>0, <1>1, <3>1, <4>1, <4>2 DEF TypeOK, WindowsOK, envVars, childVars, startVars
    <3>3. ChildKnown' /\ Owed'
      BY <1>0, <1>1, <2>2 DEF CloseAllWindows, Quit, ChildKnown, Owed, childVars, startVars
    <3> QED
      BY <3>2, <3>3 DEF Inv
  <2> QED
    BY <1>1, <2>1, <2>2 DEF Quit
<1>2. CASE TrayQuit
  BY <1>0, <1>1, <1>2 DEF TrayQuit, TypeOK, dialogVars
<1>3. CASE MenuQuit
  BY <1>0, <1>1, <1>3 DEF MenuQuit, TypeOK, dialogVars
<1>4. CASE CrashDialogQuit
  BY <1>0, <1>1, <1>4 DEF CrashDialogQuit, TypeOK, Dialog
<1>5. CASE FailDialogQuit
  BY <1>0, <1>1, <1>5 DEF FailDialogQuit, TypeOK, Dialog
<1>6. CASE KillTimer
  <2>1. TypeOK'
    <3>1. /\ server' \in Alive \cup {"none", "unspawned", "dead", "closed"}
          /\ exitCode' \in {"none", "zero", "signal", "failure"}
          /\ serving' \in BOOLEAN
      BY <1>0, <1>6 DEF KillTimer, TypeOK, childVars
    <3>2. exited' \in BOOLEAN
      BY <1>6 DEF KillTimer
    <3>3. UNCHANGED <<envVars, windowVars, isQuitting, killTimer, closeListener,
                      dialogVars, startVars, probe, serverProcess>>
      BY <1>6 DEF KillTimer
    <3> QED
      BY <1>0, <3>1, <3>2, <3>3 DEF TypeOK, envVars, windowVars, dialogVars, startVars
  <2>2. ChildKnown' /\ Owed'
    BY <1>0, <1>6 DEF KillTimer, ChildKnown, Owed, Alive, childVars, startVars
  <2> QED
    BY <2>1, <2>2 DEF Inv
<1> QED
  BY <1>2, <1>3, <1>4, <1>5, <1>6

\* Every event keeps the invariant.
LEMMA StepInv == Inv /\ [Next]_vars => Inv'
<1> SUFFICES ASSUME Inv, [Next]_vars PROVE Inv'
  OBVIOUS
<1>1. CASE Next
  BY <1>1, WindowActions, ProbeActions, ChildActions, QuitActions DEF Next
<1>2. CASE UNCHANGED vars
  <2>1. WindowsOK
    BY <1>2, WindowSteps DEF vars, Inv
  <2> QED
    BY <1>2, <2>1, QuietSteps DEF vars, Inv, TypeOK, dialogVars, startVars
<1> QED
  BY <1>1, <1>2

\* The invariant always holds.
LEMMA Invariance == Spec => []Inv
  BY InitInv, StepInv, PTL DEF Spec

-----------------------------------------------------------------------------
\* Every variable of the shell keeps its type: no request and no retry is ever
\* counted off that was not there.
THEOREM TypeCorrect == Spec => []TypeOK
<1>1. Inv => TypeOK
  BY DEF Inv
<1> QED
  BY <1>1, Invariance, PTL

\* However many requests time out, and however the error events of destroyed
\* requests and the timers interleave, fewer than twice maxRetries are made.
THEOREM RetriesBounded == Spec => []ProbesAreBounded
<1>1. Inv => ProbesAreBounded
  BY DEF Inv, TypeOK, Probe, Owed, ProbesAreBounded
<1> QED
  BY <1>1, Invariance, PTL

\* The shell exits in three ways, by the close event, by the kill timer and by a
\* quit without a child; none leaves the gateway running.
THEOREM NoOrphan == Spec => []NoOrphanServer
<1>1. Init => NoOrphanServer
  BY DEF Init, NoOrphanServer
<1>2. Inv /\ NoOrphanServer /\ [Next]_vars => NoOrphanServer'
  <2> SUFFICES ASSUME Inv, NoOrphanServer, [Next]_vars PROVE NoOrphanServer'
    OBVIOUS
  <2> USE DEF NoOrphanServer, quitVars, childVars
  <2>0. TypeOK /\ ChildKnown
    BY DEF Inv
  <2>1. CASE UNCHANGED vars
    BY <2>1 DEF vars
  <2>2. CASE StartServer \/ SpawnError \/ ServerListens \/ Request \/ TerminateServer
             \/ \E code \in {"zero", "signal", "failure"} : ServerExits(code)
    BY <2>0, <2>2
    DEF StartServer, SpawnError, ServerListens, Request, TerminateServer, ServerExits, TypeOK
  <2>3. CASE ProbeResponse \/ ProbeError \/ ProbeTimeout \/ ProbeHangUp \/ TryConnect
    BY <2>3 DEF ProbeResponse, ProbeError, ProbeTimeout, ProbeHangUp, TryConnect
  <2>4. CASE \/ \E w \in Windows : UserClosesWindow(w)
             \/ TrayShow \/ TrayClick \/ Activate \/ CrashDialogLog \/ FailDialogLog
    BY <2>4
    DEF UserClosesWindow, TrayShow, TrayClick, Activate, CrashDialogLog, FailDialogLog
  <2>5. CASE ServerClose
    BY <2>5 DEF ServerClose, Alive
  <2>6. CASE KillTimer
    BY <2>0, <2>6 DEF KillTimer, ChildKnown, Alive
  <2>7. ASSUME NEW quitting, ~exited, Quit(quitting) PROVE NoOrphanServer'
    BY <2>0, <2>7 DEF Quit, BeforeQuit, CloseAllWindows, ChildKnown
  <2>8. CASE TrayQuit \/ MenuQuit \/ CrashDialogQuit \/ FailDialogQuit
    BY <2>7, <2>8 DEF TrayQuit, MenuQuit, CrashDialogQuit, FailDialogQuit
  <2> QED
    BY <2>1, <2>2, <2>3, <2>4, <2>5, <2>6, <2>8 DEF Next
<1> QED
  BY <1>1, <1>2, Invariance, PTL DEF Spec

\* What the operations on windows do to the main one; whoever destroys a window
\* has set isQuitting before.
LEMMA MainWindowSteps ==
    ASSUME TypeOK, MainWindowExists, isQuitting => isQuitting',
           \/ CreateWindow \/ ShowMainWindow \/ UNCHANGED windowVars
           \/ window' = [window EXCEPT ![mainWindow] = "hidden"] /\ mainWindow' = mainWindow
           \/ \E w \in Windows : CloseWindow(w)
    PROVE  MainWindowExists'
<1>0. Null \notin Windows /\ Undefined \notin Windows
  BY DEF Null, Undefined, Windows
<1>1. ASSUME NEW w \in Windows, NEW state \in {"visible", "hidden"},
             window' = [window EXCEPT ![w] = state], mainWindow' = w
      PROVE  MainWindowExists'
  BY <1>1 DEF MainWindowExists, Live, TypeOK
<1>2. ASSUME NEW state \in {"visible", "hidden"},
             window' = [window EXCEPT ![mainWindow] = state], mainWindow' = mainWindow
      PROVE  MainWindowExists'
  <2>1. CASE mainWindow \in Windows
    BY <1>1, <1>2, <2>1
  <2>2. CASE mainWindow \notin Windows
    BY <1>2, <2>2 DEF MainWindowExists, Live, TypeOK
  <2> QED
    BY <2>1, <2>2
<1>3. CASE CreateWindow
  BY <1>1, <1>3 DEF CreateWindow
<1>4. CASE ShowMainWindow
  BY <1>2, <1>4 DEF ShowMainWindow
<1>5. CASE UNCHANGED windowVars
  BY <1>5 DEF MainWindowExists, Live, windowVars, TypeOK
<1>6. ASSUME NEW w \in Windows, CloseWindow(w) PROVE MainWindowExists'
  <2>1. CASE ~isQuitting
    BY <1>2, <1>6, <2>1 DEF CloseWindow
  <2>2. CASE isQuitting
    BY <1>0, <1>6, <2>2 DEF CloseWindow, MainWindowExists
  <2> QED
    BY <2>1, <2>2
<1> QED
  BY <1>2, <1>3, <1>4, <1>5, <1>6

\* However many windows the tray and the activate event make, and in whatever
\* order they are closed: the handlers that use mainWindow find a window.
THEOREM MainWindowIsThere == Spec => []MainWindowExists
<1>1. Init => MainWindowExists
  BY DEF Init, MainWindowExists, Live, Undefined, Windows
<1>2. TypeOK /\ MainWindowExists /\ [Next]_vars => MainWindowExists'
  <2> SUFFICES ASSUME TypeOK, MainWindowExists, [Next]_vars PROVE MainWindowExists'
    OBVIOUS
  <2> USE DEF quitVars
  <2>1. CASE UNCHANGED vars
    BY <2>1, MainWindowSteps DEF vars
  <2>2. CASE Resolve /\ UNCHANGED quitVars
    BY <2>2, MainWindowSteps DEF Resolve
  <2>3. CASE Reject /\ UNCHANGED quitVars
    BY <2>3, MainWindowSteps DEF Reject
  <2>4. CASE StartServer \/ SpawnError \/ ServerListens \/ Request \/ TerminateServer
             \/ \E code \in {"zero", "signal", "failure"} : ServerExits(code)
    BY <2>3, <2>4, MainWindowSteps
    DEF StartServer, SpawnError, ServerListens, Request, TerminateServer, ServerExits
  <2>5. CASE ProbeResponse \/ ProbeError \/ ProbeTimeout \/ ProbeHangUp \/ TryConnect
    BY <2>2, <2>3, <2>5, MainWindowSteps
    DEF ProbeResponse, ProbeError, ProbeTimeout, ProbeHangUp, TryConnect, RetryOrReject
  <2>6. CASE \/ \E w \in Windows : UserClosesWindow(w)
             \/ TrayShow \/ TrayClick \/ Activate \/ CrashDialogLog \/ FailDialogLog
    BY <2>6, MainWindowSteps
    DEF UserClosesWindow, TrayShow, TrayClick, Activate, CrashDialogLog, FailDialogLog
  <2>7. CASE ServerClose
    <3>1. UNCHANGED windowVars \/ \E w \in Windows : CloseWindow(w)
      BY <2>7 DEF ServerClose, Live
    <3> QED
      BY <2>7, <3>1, MainWindowSteps DEF ServerClose
  <2>8. CASE KillTimer
    BY <2>8, MainWindowSteps DEF KillTimer
  <2>9. ASSUME NEW quitting \in BOOLEAN, isQuitting => quitting, Quit(quitting)
        PROVE  MainWindowExists'
    <3>1. isQuitting' = quitting
      BY <2>9 DEF Quit
    <3>2. CASE BeforeQuit
      BY <2>9, <3>1, <3>2, MainWindowSteps DEF BeforeQuit
    <3>3. CASE CloseAllWindows(quitting) /\ (quitting \/ Live = {})
      <4>1. /\ window' = [w \in Windows |-> IF w \in Live THEN "destroyed" ELSE window[w]]
            /\ mainWindow' = IF Live = {} THEN mainWindow ELSE Null
        BY <3>3 DEF CloseAllWindows
      <4>2. Live' = {}
        BY <4>1 DEF Live
      <4>3. mainWindow' \notin Windows
        BY <4>1 DEF MainWindowExists, Null, Windows
      <4> QED
        BY <4>2, <4>3 DEF MainWindowExists
    <3>4. CASE CloseAllWindows(quitting) /\ ~(quitting \/ Live = {})
      BY <2>9, <3>1, <3>4, MainWindowSteps DEF CloseAllWindows
    <3> QED
      BY <2>9, <3>2, <3>3, <3>4 DEF Quit
  <2>10. CASE TrayQuit \/ MenuQuit \/ CrashDialogQuit \/ FailDialogQuit
    BY <2>9, <2>10 DEF TrayQuit, MenuQuit, CrashDialogQuit, FailDialogQuit, TypeOK
  <2> QED
    BY <2>1, <2>4, <2>5, <2>6, <2>7, <2>8, <2>10 DEF Next
<1> QED
  BY <1>1, <1>2, TypeCorrect, PTL DEF Spec
=============================================================================
