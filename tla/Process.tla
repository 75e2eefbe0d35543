------------------------------- MODULE Process -------------------------------
(***************************************************************************)
(* The life of the program with a window: runMain() with its settings, its  *)
(* connection monitor, its window and the message loop, over any number of  *)
(* starts.  It composes Config, ConnectionMonitor and Window; the calls of  *)
(* the page that matter here are setInterfaceMode and getConnectionStatus.  *)
(*                                                                         *)
(* The other handlers are in NetworkClient and Messaging; here they are the *)
(* time for which they block the UI thread.  Both pages are installed.      *)
(* setEndpoint() is the reconfiguration NetworkClient.h promises a settings *)
(* screen; nothing calls it yet.                                            *)
(***************************************************************************)
EXTENDS Config, ConnectionMonitor, Window

CONSTANTS
  Faults   \* which of ProcessFaults the environment may inject

ProcessFaults == {"open", "write", "kill", "edit"}

ASSUME ProcessAssumption == Faults \subseteq ProcessFaults

VARIABLES
  main,       \* where the UI thread is
  host,       \* host_ and port_, which the probe reads
  flag,       \* the mode given with --interface, until the first page is shown
  page,       \* the interface whose page is loaded
  indicator   \* the page shows "online"

ui == <<main, host, flag, page, indicator>>
vars == <<config, monitor, windowVars, ui>>

\* "blocked" is a handler in a request that outlasts the page's ten seconds.
Steps == {"off", "create", "loop", "blocked", "save", "restart", "stop", "join"}

TypeOK ==
  /\ ConfigTypeOK /\ MonitorTypeOK /\ WindowTypeOK
  /\ main \in Steps
  /\ host \in Servers
  /\ flag \in Modes \union {None}
  /\ page \in Modes \union {None}
  /\ indicator \in BOOLEAN

Init ==
  /\ ConfigInit /\ MonitorInit /\ WindowInit
  /\ main = "off"
  /\ host = DefaultServer
  /\ flag = None
  /\ page = None
  /\ indicator = TRUE
-----------------------------------------------------------------------------
(* Start and end: runMain() *)

\* Up to the window: the settings, the two flags, and the monitor.
Launch(server, mode) ==
  /\ main = "off"
  /\ Load(server)
  /\ host' = mem'.server
  /\ flag' = mode
  /\ StartMonitor
  /\ main' = "create"
  /\ UNCHANGED <<windowVars, page, indicator>>

CreateAndShow ==
  /\ main = "create"
  /\ \/ Create /\ main' = "loop"
     \/ CreateFails /\ main' = "stop"
  /\ UNCHANGED <<config, monitor, host, flag, page, indicator>>

\* GetMessage() finds WM_QUIT.
LoopEnds ==
  /\ main = "loop" /\ window = "gone"
  /\ main' = "stop"
  /\ UNCHANGED <<config, monitor, windowVars, host, flag, page, indicator>>

StopMonitor ==
  /\ main = "stop"
  /\ BeginStop
  /\ main' = "join"
  /\ UNCHANGED <<config, windowVars, host, flag, page, indicator>>

Reset ==
  /\ window' = "none" /\ icon' = FALSE /\ menu' = FALSE /\ view' = "none"
  /\ source' = FALSE /\ mem' = Defaults
  /\ page' = None /\ indicator' = TRUE /\ flag' = None /\ host' = DefaultServer
  /\ reachable' = FALSE

\* runMain() returns, and with it the NetworkClient and its thread object go.
Ends ==
  /\ main = "join" /\ CanJoin
  /\ main' = "off"
  /\ Reset
  /\ aborted' = (aborted \/ thread \notin {"none", "ended"})
  /\ thread' = "none"
  /\ UNCHANGED <<file, chosen, picked, running, up>>

Killed ==
  /\ "kill" \in Faults
  /\ main # "off"
  /\ main' = "off"
  /\ Reset
  /\ running' = FALSE /\ thread' = "none"
  /\ UNCHANGED <<file, chosen, picked, up, aborted>>
-----------------------------------------------------------------------------
(* Messages of the loop *)

Navigate(mode) == page' = mode /\ indicator' = TRUE

WindowStep ==
  /\ main = "loop"
  /\ \/ Close \/ TrayRestore \/ TrayMenu \/ MenuDismiss \/ MenuOpen \/ MenuExit
     \/ EnvironmentCompletes \/ ControllerFails
  /\ UNCHANGED <<config, monitor, ui>>

FirstPage ==
  /\ main = "loop"
  /\ ControllerCompletes
  /\ Navigate(IF flag = None THEN mem.mode ELSE flag)
  /\ flag' = None
  /\ UNCHANGED <<config, monitor, main, host>>

\* The toggle of the login and settings screens: save, then show the page.  The
\* window may be hidden, or the menu open, by the time the message is handled.
SwitchMode(mode) ==
  /\ main = "loop" /\ view = "ready" /\ window # "gone"
  /\ \/ /\ BeginSave(mode)
        /\ main' = "save"
        /\ UNCHANGED <<page, indicator>>
     \/ /\ ~source \/ "open" \in Faults
        /\ SkipSave(mode)
        /\ Navigate(mode)
        /\ UNCHANGED main
  /\ UNCHANGED <<monitor, windowVars, host, flag>>

SwitchSaved ==
  /\ main = "save"
  /\ \/ FinishSave
     \/ "write" \in Faults /\ UNCHANGED config
  /\ Navigate(mem.mode)
  /\ main' = "loop"
  /\ UNCHANGED <<monitor, windowVars, host, flag>>

\* The recv() of a request has no time-out, so it may never return.
Block ==
  /\ main = "loop" /\ view = "ready" /\ window # "gone"
  /\ main' = "blocked"
  /\ UNCHANGED <<config, monitor, windowVars, host, flag, page, indicator>>

Unblock ==
  /\ main = "blocked"
  /\ main' = "loop"
  /\ UNCHANGED <<config, monitor, windowVars, host, flag, page, indicator>>

\* connection-indicator.js, every four seconds: a poll that nobody answers in
\* its ten seconds returns an error, which shows as offline.
PollAnswered == main = "loop" /\ indicator' = reachable
PollTimesOut == main = "blocked" /\ indicator' = FALSE

PollStatus ==
  /\ page # None /\ window # "gone"
  /\ PollAnswered \/ PollTimesOut
  /\ UNCHANGED <<config, monitor, windowVars, main, host, flag, page>>

SetEndpoint ==
  /\ main = "loop" /\ window # "gone"
  /\ running
  /\ BeginStop
  /\ main' = "restart"
  /\ UNCHANGED <<config, windowVars, host, flag, page, indicator>>

\* The join() is behind it: the address changes and the monitor starts again.
EndpointSet(server) ==
  /\ main = "restart" /\ CanJoin
  /\ host' = server
  /\ running' = TRUE /\ thread' = "test"
  /\ aborted' = (aborted \/ thread \notin {"none", "ended"})
  /\ main' = "loop"
  /\ UNCHANGED <<config, windowVars, flag, page, indicator, reachable, up>>
-----------------------------------------------------------------------------
(* The rest of the world *)

MonitorRuns == MonitorStep /\ UNCHANGED <<config, windowVars, ui>>

Elsewhere ==
  \/ MonitorRuns
  \/ ServerChanges /\ UNCHANGED <<config, windowVars, ui>>
  \/ main = "loop" /\ IconForgotten /\ UNCHANGED <<config, monitor, ui>>

EditFile(content) ==
  /\ "edit" \in Faults
  /\ main # "save"
  /\ UserEdits(content)
  /\ UNCHANGED <<monitor, windowVars, ui>>

UiStep == CreateAndShow \/ LoopEnds \/ StopMonitor \/ Ends \/ SwitchSaved

Next ==
  \/ \E s \in Servers \union {None}, m \in Modes \union {None} : Launch(s, m)
  \/ UiStep
  \/ Killed
  \/ WindowStep \/ FirstPage
  \/ \E m \in Modes : SwitchMode(m)
  \/ Block \/ Unblock
  \/ PollStatus
  \/ SetEndpoint \/ \E s \in Servers : EndpointSet(s)
  \/ Elsewhere
  \/ \E c \in Settings \union {Broken, IllTyped} : EditFile(c)

Spec == Init /\ [][Next]_vars

\* What the UI thread does by itself and the probe run on, because connect() is
\* bounded; nothing is assumed of a blocked handler.  The timer of the page fires
\* again, and each of its polls is answered or times out.
FairSpec ==
  /\ Spec
  /\ WF_vars(UiStep) /\ WF_vars(\E s \in Servers : EndpointSet(s))
  /\ WF_vars(MonitorRuns)
  /\ WF_vars(PollStatus)
-----------------------------------------------------------------------------
(* Properties *)

\* There is one monitor thread at most, it belongs to a process that runs, and
\* it is not told to stop before the UI thread is about to wait for it.
MonitorOfProcess ==
  /\ main = "off" => thread = "none" /\ ~running
  /\ main \in {"create", "loop", "blocked", "save", "stop"} => running /\ thread \notin {"none", "ended"}
  /\ main \in {"restart", "join"} => ~running /\ thread # "none"

\* No thread object is overwritten or destroyed while its thread runs, which
\* would end the program with std::terminate.
NeverAborted == ~aborted

\* host_ is a plain string that the probe copies: it is never written while the
\* monitor thread may read it.
HostIsStable ==
  [][host' # host /\ main' # "off" => thread \in {"none", "ended"}]_vars

\* The parts of the window that hang together.
WindowOfProcess ==
  /\ main \in {"off", "create"} => window = "none"
  /\ window \in {"none", "gone"} => ~icon /\ ~menu
  /\ page # None <=> view = "ready"
  /\ window = "none" => view = "none"
  /\ main \in {"save", "blocked"} => window \in {"shown", "hidden"} /\ page # None
  /\ main = "save" => source

\* A process that may save does not hold the default address by accident.
AddressIsMeant == source /\ mem.server = DefaultServer => chosen

\* A saved switch is in the file, and a process that runs has it in memory.
SwitchOnDisk ==
  picked # None =>
    /\ Parses /\ file.mode = picked
    /\ main # "off" => mem.mode = picked

IInv ==
  /\ TypeOK
  /\ MonitorOfProcess /\ NeverAborted /\ WindowOfProcess
  /\ DefaultsNeverSaved /\ AddressIsMeant /\ SwitchOnDisk

\* A switch that was saved outlives the process: however the process that saved
\* it ended, the next one opens with the interface that was picked last, unless
\* its command line says otherwise.
SwitchIsKept ==
  [][ FirstPage /\ flag = None /\ picked # None => page' = picked ]_vars

\* The exit in the tray menu ends the process, whatever the probe, the page and
\* the creation of the control are doing.
ExitEnds == window = "gone" ~> main = "off"

Watching == main \in {"loop", "blocked"} /\ page # None /\ window # "gone"

\* The indicator follows the server: once that stays reachable or unreachable
\* while the page is watched, the page comes to show it.  A native side that
\* hangs shows as offline, whatever the server does.
IndicatorFollows ==
  /\ <>[](Watching /\ up /\ main # "blocked") => <>[]indicator
  /\ <>[](Watching /\ ~up) => []<>~indicator
  /\ <>[](main = "blocked") => <>[]~indicator
=============================================================================
