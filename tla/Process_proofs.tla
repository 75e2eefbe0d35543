--------------------------- MODULE Process_proofs ---------------------------
(***************************************************************************)
(* What holds of the program for any settings, faults and number of starts: *)
(* the monitor thread is never given up running (IInv), the address it      *)
(* reads does not change under it (HostIsStable), the built-in defaults     *)
(* never reach the file (DefaultsNeverSaved), and a saved switch of the     *)
(* interface is the one the next start shows (SwitchIsKept).                *)
(***************************************************************************)
EXTENDS Process, TLAPS

USE DEF config, monitor, windowVars, ui

LEMMA Loaded ==
  ASSUME IInv, NEW s \in Servers \union {None}, Load(s)
  PROVE  ConfigTypeOK' /\ DefaultsNeverSaved' /\ AddressIsMeant'
         /\ file' = file /\ picked' = picked /\ (Parses => mem'.mode = file.mode)
<1> DEFINE loaded == IF Parses THEN file ELSE Defaults
<1>1. loaded \in Settings /\ Defaults \in Settings /\ (Parses <=> file \in Settings)
  BY ConfigAssumption DEF Parses, Defaults, Settings
<1>2. /\ mem'.mode = loaded.mode /\ mem'.mode \in Modes /\ mem' \in Settings
      /\ mem'.server = IF s = None THEN loaded.server ELSE s
  BY <1>1, ConfigAssumption DEF Load, Settings
<1>3. /\ file' = file /\ picked' = picked /\ source' = Parses
      /\ chosen' = (chosen \/ s = DefaultServer)
  BY DEF Load, SourceAfterParse
<1>4. ConfigTypeOK'
  BY <1>1, <1>2, <1>3 DEF IInv, TypeOK, ConfigTypeOK, Parses
<1>5. DefaultsNeverSaved' /\ AddressIsMeant'
  BY <1>2, <1>3, ConfigAssumption DEF IInv, DefaultsNeverSaved, AddressIsMeant, Parses
<1> QED BY <1>2, <1>3, <1>4, <1>5

LEMMA InitIInv == Init => IInv
<1> SUFFICES ASSUME Init PROVE IInv
  OBVIOUS
<1>1. file \in Settings /\ mem \in Settings /\ chosen = (file.server = DefaultServer)
  BY ConfigAssumption DEF Init, ConfigInit, Defaults, Settings
<1>2. TypeOK
  BY <1>1, ConfigAssumption DEF Init, ConfigInit, MonitorInit, WindowInit, TypeOK, ConfigTypeOK,
     MonitorTypeOK, WindowTypeOK, ThreadSteps, Steps
<1>3. MonitorOfProcess /\ NeverAborted /\ WindowOfProcess
  BY DEF Init, MonitorInit, WindowInit, MonitorOfProcess, NeverAborted, WindowOfProcess
<1>4. DefaultsNeverSaved /\ AddressIsMeant /\ SwitchOnDisk
  BY <1>1 DEF Init, ConfigInit, DefaultsNeverSaved, AddressIsMeant, SwitchOnDisk
<1> QED BY <1>2, <1>3, <1>4 DEF IInv

\* A step that leaves the settings alone, and does not start the program.
LEMMA ConfigKept ==
  ASSUME IInv, UNCHANGED config, main # "off" \/ main' = "off"
  PROVE  ConfigTypeOK' /\ DefaultsNeverSaved' /\ AddressIsMeant' /\ SwitchOnDisk'
BY DEF IInv, TypeOK, ConfigTypeOK, DefaultsNeverSaved, AddressIsMeant, SwitchOnDisk, Parses

\* The end of the process, expected or not: what Reset leaves of the settings.
LEMMA ConfigReset ==
  ASSUME IInv, source' = FALSE, mem' = Defaults, main' = "off", UNCHANGED <<file, chosen, picked>>
  PROVE  ConfigTypeOK' /\ DefaultsNeverSaved' /\ AddressIsMeant' /\ SwitchOnDisk'
BY ConfigAssumption DEF IInv, TypeOK, ConfigTypeOK, DefaultsNeverSaved, AddressIsMeant, SwitchOnDisk,
   Parses, Defaults, Settings
-----------------------------------------------------------------------------
(* The inductive invariant, action by action *)

LEMMA LaunchKeepsIInv ==
  ASSUME IInv, NEW s \in Servers \union {None}, NEW m \in Modes \union {None}, Launch(s, m)
  PROVE  IInv'
<1>1. ConfigTypeOK' /\ DefaultsNeverSaved' /\ AddressIsMeant' /\ SwitchOnDisk'
  BY Loaded DEF IInv, Launch, SwitchOnDisk, Parses
<1>2. main = "off" /\ main' = "create" /\ UNCHANGED <<windowVars, page, indicator>>
      /\ host' \in Servers /\ flag' = m
  BY <1>1 DEF Launch, ConfigTypeOK, Settings
<1>3. running' /\ thread' = "test" /\ aborted' = aborted /\ UNCHANGED <<reachable, up>>
  BY <1>2 DEF Launch, StartMonitor, IInv, TypeOK, MonitorTypeOK, MonitorOfProcess
<1>4. TypeOK'
  BY <1>1, <1>2, <1>3 DEF IInv, TypeOK, MonitorTypeOK, WindowTypeOK, ThreadSteps, Steps
<1>5. MonitorOfProcess' /\ NeverAborted' /\ WindowOfProcess'
  BY <1>2, <1>3 DEF IInv, TypeOK, MonitorTypeOK, MonitorOfProcess, NeverAborted, WindowOfProcess
<1> QED BY <1>1, <1>4, <1>5 DEF IInv

LEMMA CreateAndShowKeepsIInv ==
  ASSUME IInv, CreateAndShow
  PROVE  IInv'
<1>1. ConfigTypeOK' /\ DefaultsNeverSaved' /\ AddressIsMeant' /\ SwitchOnDisk'
  BY ConfigKept DEF CreateAndShow
<1>2. /\ main = "create" /\ main' \in {"loop", "stop"}
      /\ UNCHANGED <<monitor, host, flag, page, indicator>>
      /\ WindowTypeOK' /\ menu' = menu /\ view' # "ready"
      /\ window' \in {"none", "gone"} => UNCHANGED windowVars
  BY DEF CreateAndShow, Create, CreateFails, TrayCreate, IInv, TypeOK, WindowTypeOK, WindowOfProcess
<1>3. TypeOK'
  BY <1>1, <1>2 DEF IInv, TypeOK, MonitorTypeOK, Steps
<1>4. MonitorOfProcess' /\ NeverAborted'
  BY <1>2 DEF IInv, MonitorOfProcess, NeverAborted
<1>5. WindowOfProcess'
  BY <1>2 DEF IInv, WindowOfProcess
<1> QED BY <1>1, <1>3, <1>4, <1>5 DEF IInv

\* The end of the loop and the two halves of the end of runMain().
LEMMA EndKeepsIInv ==
  ASSUME IInv, LoopEnds \/ StopMonitor
  PROVE  IInv'
<1>1. ConfigTypeOK' /\ DefaultsNeverSaved' /\ AddressIsMeant' /\ SwitchOnDisk'
  BY ConfigKept DEF LoopEnds, StopMonitor
<1>2. TypeOK'
  <2>1. MonitorTypeOK'
    BY DEF LoopEnds, StopMonitor, BeginStop, IInv, TypeOK, MonitorTypeOK
  <2>2. WindowTypeOK'
    BY DEF LoopEnds, StopMonitor, IInv, TypeOK, WindowTypeOK
  <2> QED BY <1>1, <2>1, <2>2 DEF LoopEnds, StopMonitor, IInv, TypeOK, Steps
<1>3. MonitorOfProcess' /\ NeverAborted'
  BY DEF LoopEnds, StopMonitor, BeginStop, IInv, MonitorOfProcess, NeverAborted
<1>4. WindowOfProcess'
  BY DEF LoopEnds, StopMonitor, BeginStop, IInv, WindowOfProcess
<1> QED BY <1>1, <1>2, <1>3, <1>4 DEF IInv

LEMMA OffKeepsIInv ==
  ASSUME IInv, Ends \/ Killed
  PROVE  IInv'
<1>1. /\ ConfigTypeOK' /\ DefaultsNeverSaved' /\ AddressIsMeant' /\ SwitchOnDisk'
      /\ main' = "off" /\ Reset /\ up' = up
  BY ConfigReset DEF Ends, Killed, Reset
<1>2. running' = FALSE /\ thread' = "none" /\ aborted' = aborted
  BY DEF Ends, Killed, CanJoin, IInv, TypeOK, MonitorTypeOK, MonitorOfProcess
<1>3. TypeOK'
  <2>1. MonitorTypeOK'
    <3>1. running' \in BOOLEAN /\ up' \in BOOLEAN /\ aborted' \in BOOLEAN
      BY <1>1, <1>2, Zenon DEF IInv, TypeOK, MonitorTypeOK
    <3> QED BY <1>1, <1>2, <3>1 DEF Reset, MonitorTypeOK, ThreadSteps
  <2>2. WindowTypeOK'
    BY <1>1 DEF Reset, WindowTypeOK
  <2> QED BY <1>1, <2>1, <2>2, ConfigAssumption DEF Reset, TypeOK, Steps
<1>4. MonitorOfProcess' /\ NeverAborted' /\ WindowOfProcess'
  BY <1>1, <1>2 DEF Reset, IInv, MonitorOfProcess, NeverAborted, WindowOfProcess
<1> QED BY <1>1, <1>3, <1>4 DEF IInv

LEMMA WindowKeepsIInv ==
  ASSUME IInv, WindowStep
  PROVE  IInv'
<1>1. ConfigTypeOK' /\ DefaultsNeverSaved' /\ AddressIsMeant' /\ SwitchOnDisk'
  BY ConfigKept DEF WindowStep
<1>2. WindowTypeOK'
  BY DEF WindowStep, Close, TrayRestore, TrayMenu, MenuDismiss, MenuOpen, MenuExit,
     EnvironmentCompletes, ControllerFails, IInv, TypeOK, WindowTypeOK
<1>3. TypeOK'
  BY <1>1, <1>2 DEF WindowStep, IInv, TypeOK, MonitorTypeOK
<1>4. MonitorOfProcess' /\ NeverAborted'
  BY DEF WindowStep, IInv, MonitorOfProcess, NeverAborted
<1>5. WindowOfProcess'
  BY DEF WindowStep, Close, TrayRestore, TrayMenu, MenuDismiss, MenuOpen, MenuExit,
     EnvironmentCompletes, ControllerFails, IInv, TypeOK, WindowTypeOK, WindowOfProcess
<1> QED BY <1>1, <1>3, <1>4, <1>5 DEF IInv

LEMMA FirstPageKeepsIInv ==
  ASSUME IInv, FirstPage
  PROVE  IInv'
<1>1. ConfigTypeOK' /\ DefaultsNeverSaved' /\ AddressIsMeant' /\ SwitchOnDisk'
  BY ConfigKept DEF FirstPage
<1>2. /\ main = "loop" /\ UNCHANGED <<monitor, main, host, window, icon, menu>>
      /\ view' = "ready" /\ window \notin {"none", "gone"}
      /\ page' \in Modes /\ flag' = None /\ indicator' = TRUE
  BY DEF FirstPage, ControllerCompletes, Navigate, IInv, TypeOK, ConfigTypeOK, Settings,
     WindowOfProcess
<1>3. TypeOK'
  BY <1>1, <1>2 DEF IInv, TypeOK, MonitorTypeOK, WindowTypeOK
<1>4. MonitorOfProcess' /\ NeverAborted' /\ WindowOfProcess'
  BY <1>2, ConfigAssumption DEF IInv, MonitorOfProcess, NeverAborted, WindowOfProcess
<1> QED BY <1>1, <1>3, <1>4 DEF IInv

LEMMA SwitchKeepsIInv ==
  ASSUME IInv, NEW m \in Modes, SwitchMode(m)
  PROVE  IInv'
<1>1. /\ main = "loop" /\ main' \in {"loop", "save"} /\ UNCHANGED <<monitor, windowVars, host, flag>>
      /\ mem' = [mem EXCEPT !.mode = m] /\ picked' = None /\ UNCHANGED <<source, chosen>>
      /\ file' \in {file, Broken} /\ (main' = "save" => source)
      /\ (page' = page /\ indicator' = indicator) \/ (page' = m /\ indicator' = TRUE)
      /\ view = "ready" /\ window \in {"shown", "hidden"}
  BY DEF SwitchMode, BeginSave, SkipSave, Navigate, IInv, TypeOK, WindowTypeOK, WindowOfProcess
<1>2. mem' \in Settings /\ mem'.server = mem.server
  BY <1>1 DEF IInv, TypeOK, ConfigTypeOK, Settings
<1>3. TypeOK'
  <2>1. ConfigTypeOK'
    BY <1>1, <1>2 DEF IInv, TypeOK, ConfigTypeOK
  <2>2. MonitorTypeOK' /\ WindowTypeOK'
    BY <1>1 DEF IInv, TypeOK, MonitorTypeOK, WindowTypeOK
  <2> QED BY <1>1, <2>1, <2>2 DEF IInv, TypeOK, Steps
<1>4. MonitorOfProcess' /\ NeverAborted' /\ WindowOfProcess'
  BY <1>1, ConfigAssumption DEF IInv, MonitorOfProcess, NeverAborted, WindowOfProcess
<1>5. DefaultsNeverSaved' /\ AddressIsMeant' /\ SwitchOnDisk'
  BY <1>1, <1>2, ConfigAssumption
     DEF IInv, DefaultsNeverSaved, AddressIsMeant, SwitchOnDisk, Parses
<1> QED BY <1>3, <1>4, <1>5 DEF IInv

LEMMA SavedKeepsIInv ==
  ASSUME IInv, SwitchSaved
  PROVE  IInv'
<1>1. /\ main = "save" /\ main' = "loop" /\ UNCHANGED <<monitor, windowVars, host, flag>>
      /\ page' = mem.mode /\ indicator' = TRUE /\ UNCHANGED <<mem, source, chosen>>
      /\ (file' = mem /\ picked' = mem.mode) \/ UNCHANGED <<file, picked>>
  BY DEF SwitchSaved, FinishSave, SavedSettings, Navigate
<1>2. mem \in Settings /\ mem.mode \in Modes /\ source
  BY <1>1 DEF IInv, TypeOK, ConfigTypeOK, Settings, WindowOfProcess
<1>3. TypeOK'
  BY <1>1, <1>2 DEF IInv, TypeOK, ConfigTypeOK, MonitorTypeOK, WindowTypeOK, Steps
<1>4. MonitorOfProcess' /\ NeverAborted' /\ WindowOfProcess'
  BY <1>1, <1>2, ConfigAssumption DEF IInv, MonitorOfProcess, NeverAborted, WindowOfProcess
<1>5. DefaultsNeverSaved' /\ AddressIsMeant' /\ SwitchOnDisk'
  BY <1>1, <1>2 DEF IInv, DefaultsNeverSaved, AddressIsMeant, SwitchOnDisk, Parses
<1> QED BY <1>3, <1>4, <1>5 DEF IInv

\* A handler that blocks the UI thread, and what the page shows meanwhile.
LEMMA BlockKeepsIInv ==
  ASSUME IInv, Block \/ Unblock \/ PollStatus
  PROVE  IInv'
<1>1. ConfigTypeOK' /\ DefaultsNeverSaved' /\ AddressIsMeant' /\ SwitchOnDisk'
  BY ConfigKept DEF Block, Unblock, PollStatus, PollAnswered, PollTimesOut
<1>2. /\ main \in {"loop", "blocked"} /\ main' \in {"loop", "blocked"}
      /\ UNCHANGED <<monitor, windowVars, host, flag, page>>
      /\ main' = "blocked" => window \in {"shown", "hidden"} /\ page # None
      /\ indicator' \in BOOLEAN
  BY DEF Block, Unblock, PollStatus, PollAnswered, PollTimesOut, IInv, TypeOK, MonitorTypeOK,
     WindowTypeOK, WindowOfProcess
<1>3. TypeOK'
  BY <1>1, <1>2 DEF IInv, TypeOK, MonitorTypeOK, WindowTypeOK, Steps
<1>4. MonitorOfProcess' /\ NeverAborted' /\ WindowOfProcess'
  BY <1>2 DEF IInv, MonitorOfProcess, NeverAborted, WindowOfProcess
<1> QED BY <1>1, <1>3, <1>4 DEF IInv

\* setEndpoint(), with the restart of the monitor.
LEMMA EndpointKeepsIInv ==
  ASSUME IInv, SetEndpoint \/ (\E s \in Servers : EndpointSet(s))
  PROVE  IInv'
<1>1. /\ ConfigTypeOK' /\ DefaultsNeverSaved' /\ AddressIsMeant' /\ SwitchOnDisk'
  BY ConfigKept DEF SetEndpoint, EndpointSet
<1>2. TypeOK'
  <2>1. MonitorTypeOK'
    BY DEF SetEndpoint, EndpointSet, BeginStop, CanJoin, IInv, TypeOK, MonitorTypeOK,
       MonitorOfProcess, ThreadSteps
  <2>2. WindowTypeOK'
    BY DEF SetEndpoint, EndpointSet, IInv, TypeOK, WindowTypeOK
  <2>3. indicator' \in BOOLEAN
    BY DEF SetEndpoint, EndpointSet, IInv, TypeOK, MonitorTypeOK
  <2> QED BY <1>1, <2>1, <2>2, <2>3 DEF SetEndpoint, EndpointSet, IInv, TypeOK, Steps
<1>3. MonitorOfProcess'
  BY DEF SetEndpoint, EndpointSet, BeginStop, CanJoin, IInv, MonitorOfProcess
<1>4. NeverAborted'
  BY DEF SetEndpoint, EndpointSet, BeginStop, CanJoin, IInv, NeverAborted
<1>5. WindowOfProcess'
  BY DEF SetEndpoint, EndpointSet, BeginStop, IInv, WindowOfProcess
<1> QED BY <1>1, <1>2, <1>3, <1>4, <1>5 DEF IInv

LEMMA ElsewhereKeepsIInv ==
  ASSUME IInv, Elsewhere
  PROVE  IInv'
<1>1. /\ ConfigTypeOK' /\ DefaultsNeverSaved' /\ AddressIsMeant' /\ SwitchOnDisk'
      /\ UNCHANGED ui
  BY DEF Elsewhere, MonitorRuns, IInv, TypeOK, ConfigTypeOK, DefaultsNeverSaved, AddressIsMeant,
     SwitchOnDisk, Parses
<1>2. TypeOK'
  <2>1. MonitorTypeOK'
    BY <1>1 DEF Elsewhere, MonitorRuns, MonitorStep, Test, Probe, Report, Nap, ServerChanges,
       IconForgotten, IInv, TypeOK, MonitorTypeOK, ThreadSteps
  <2>2. WindowTypeOK'
    BY <1>1 DEF Elsewhere, MonitorRuns, IconForgotten, IInv, TypeOK, WindowTypeOK
  <2> QED BY <1>1, <2>1, <2>2 DEF IInv, TypeOK
<1>3. MonitorOfProcess' /\ NeverAborted'
  BY <1>1 DEF Elsewhere, MonitorRuns, MonitorStep, Test, Probe, Nap, ServerChanges,
     IconForgotten, IInv, MonitorOfProcess, NeverAborted
<1>4. WindowOfProcess'
  BY <1>1 DEF Elsewhere, MonitorRuns, IconForgotten, IInv, TypeOK, WindowTypeOK, WindowOfProcess
<1> QED BY <1>1, <1>2, <1>3, <1>4 DEF IInv

LEMMA EditKeepsIInv ==
  ASSUME IInv, NEW c \in Settings \union {Broken, IllTyped}, EditFile(c)
  PROVE  IInv'
<1>1. /\ file' = c /\ picked' = None /\ UNCHANGED <<mem, source, monitor, windowVars, ui>>
      /\ chosen' = (chosen \/ c \in {s \in Settings : s.server = DefaultServer})
  BY DEF EditFile, UserEdits
<1>2. TypeOK'
  BY <1>1 DEF IInv, TypeOK, ConfigTypeOK, MonitorTypeOK, WindowTypeOK
<1>3. MonitorOfProcess' /\ NeverAborted' /\ WindowOfProcess'
  BY <1>1 DEF IInv, MonitorOfProcess, NeverAborted, WindowOfProcess
<1>4. DefaultsNeverSaved' /\ AddressIsMeant' /\ SwitchOnDisk'
  BY <1>1 DEF IInv, DefaultsNeverSaved, AddressIsMeant, SwitchOnDisk, Parses
<1> QED BY <1>2, <1>3, <1>4 DEF IInv

LEMMA StutterKeepsIInv ==
  ASSUME IInv, UNCHANGED vars
  PROVE  IInv'
BY DEF vars, IInv, TypeOK, ConfigTypeOK, MonitorTypeOK, WindowTypeOK, MonitorOfProcess, NeverAborted,
   WindowOfProcess, DefaultsNeverSaved, AddressIsMeant, SwitchOnDisk, Parses

\* The parts of the program agree: one monitor thread per process, never given up
\* while it runs (NetworkClient.cpp 51-71), a window with its icon and its page,
\* and settings in memory that a save may write over the file.
THEOREM Invariance == Spec => []IInv
<1>1. IInv /\ [Next]_vars => IInv'
  BY LaunchKeepsIInv, CreateAndShowKeepsIInv, EndKeepsIInv, OffKeepsIInv, WindowKeepsIInv,
     FirstPageKeepsIInv, SwitchKeepsIInv, SavedKeepsIInv, BlockKeepsIInv, EndpointKeepsIInv, ElsewhereKeepsIInv,
     EditKeepsIInv, StutterKeepsIInv DEF Next, UiStep
<1> QED BY InitIInv, <1>1, PTL DEF Spec
-----------------------------------------------------------------------------
(* The properties *)

\* The default address reaches the file (Config::save) only when a user chose it.
THEOREM DefaultsStayOut == Spec => []DefaultsNeverSaved
<1>1. IInv => DefaultsNeverSaved
  BY DEF IInv
<1> QED BY Invariance, <1>1, PTL

\* setEndpoint() (NetworkClient.cpp 42-49) and runMain() write host_ only while no
\* monitor thread runs that reads it.
THEOREM HostNotRaced == Spec => HostIsStable
<1>1. ASSUME IInv, Next, host' # host, main' # "off"
      PROVE  thread \in {"none", "ended"}
  <2>1. (\E s \in Servers \union {None}, m \in Modes \union {None} : Launch(s, m))
          \/ \E s \in Servers : EndpointSet(s)
    BY <1>1 DEF Next, UiStep, CreateAndShow, LoopEnds, StopMonitor, Ends, SwitchSaved, Killed,
       WindowStep, FirstPage, SwitchMode, Block, Unblock, PollStatus, SetEndpoint, Elsewhere, MonitorRuns, EditFile
  <2> QED BY <1>1, <2>1 DEF Launch, EndpointSet, CanJoin, IInv, MonitorOfProcess
<1>2. IInv /\ [Next]_vars =>
        [host' # host /\ main' # "off" => thread \in {"none", "ended"}]_vars
  BY <1>1
<1> QED BY Invariance, <1>2, PTL DEF Spec, HostIsStable

\* The page createAndShow() loads first is that of the switch saved last.
THEOREM SwitchesAreKept == Spec => SwitchIsKept
<1>1. IInv /\ FirstPage /\ flag = None /\ picked # None => page' = picked
  BY DEF IInv, SwitchOnDisk, FirstPage, Navigate
<1>2. IInv /\ [Next]_vars =>
        [FirstPage /\ flag = None /\ picked # None => page' = picked]_vars
  BY <1>1
<1> QED BY Invariance, <1>2, PTL DEF Spec, SwitchIsKept
=============================================================================
