------------------------------- MODULE Window -------------------------------
(***************************************************************************)
(* The native window: WebViewHost with its WndProc, the WebView2 control    *)
(* that is created in the background, and class TrayIcon.                   *)
(*                                                                         *)
(* All of it runs on the UI thread.  The menu of the icon runs a message    *)
(* loop of its own, so every other message may come while it is open.       *)
(***************************************************************************)

CONSTANT
  WindowFaults   \* which of WindowFaultKinds the environment may inject

WindowFaultKinds == {"window", "runtime", "icon"}

ASSUME WindowAssumption == WindowFaults \subseteq WindowFaultKinds

VARIABLES
  window,   \* impl_->hwnd
  icon,     \* the icon of TrayIcon is in the notification area
  menu,     \* its menu is open
  view      \* impl_->webview, or how far its creation has come

windowVars == <<window, icon, menu, view>>

WindowTypeOK ==
  /\ window \in {"none", "shown", "hidden", "gone"}
  /\ icon \in BOOLEAN
  /\ menu \in BOOLEAN
  /\ view \in {"none", "environment", "controller", "ready", "failed"}

WindowInit == window = "none" /\ icon = FALSE /\ menu = FALSE /\ view = "none"

\* NIM_ADD: nobody looks at its result, so the icon may not be there.
TrayCreate == icon' \in {TRUE} \union (IF "icon" \in WindowFaults THEN {FALSE} ELSE {})

\* createAndShow(): the environment is asked for, and its answer comes later.
Create ==
  /\ window' = "shown"
  /\ TrayCreate
  /\ view' = "environment"
  /\ UNCHANGED menu

\* No window, or a window with an icon and no runtime to ask.
CreateFails ==
  \/ "window" \in WindowFaults /\ UNCHANGED windowVars
  \/ /\ "runtime" \in WindowFaults
     /\ window' = "shown"
     /\ TrayCreate
     /\ view' = "failed"
     /\ UNCHANGED menu

\* The two completion handlers; a failure leaves the blank window, and after
\* DestroyWindow() there is no window to create a controller for.
EnvironmentCompletes ==
  /\ view = "environment"
  /\ \/ window # "gone" /\ view' = "controller"
     \/ (window = "gone" \/ "runtime" \in WindowFaults) /\ view' = "failed"
  /\ UNCHANGED <<window, icon, menu>>

ControllerFails ==
  /\ view = "controller"
  /\ window = "gone" \/ "runtime" \in WindowFaults
  /\ view' = "failed"
  /\ UNCHANGED <<window, icon, menu>>

ControllerCompletes ==
  /\ view = "controller"
  /\ window # "gone"
  /\ view' = "ready"
  /\ UNCHANGED <<window, icon, menu>>

\* WM_CLOSE: into the tray instead of out of the program.
Close ==
  /\ window = "shown"
  /\ window' = "hidden"
  /\ UNCHANGED <<icon, menu, view>>

\* A double click on the icon, and its menu.
TrayRestore ==
  /\ icon /\ window # "gone"
  /\ window' = "shown"
  /\ UNCHANGED <<icon, menu, view>>

TrayMenu ==
  /\ icon /\ window # "gone" /\ ~menu
  /\ menu' = TRUE
  /\ UNCHANGED <<window, icon, view>>

MenuDismiss == menu /\ menu' = FALSE /\ UNCHANGED <<window, icon, view>>

MenuOpen ==
  /\ menu
  /\ menu' = FALSE
  /\ window' = "shown"
  /\ UNCHANGED <<icon, view>>

\* DestroyWindow(), and in it WM_DESTROY, which asks the loop to quit.
MenuExit ==
  /\ menu
  /\ menu' = FALSE
  /\ window' = "gone"
  /\ icon' = FALSE
  /\ UNCHANGED view

\* Explorer restarts and forgets the icons of all programs.
IconForgotten ==
  /\ "icon" \in WindowFaults
  /\ icon
  /\ icon' = FALSE
  /\ UNCHANGED <<window, menu, view>>
=============================================================================
