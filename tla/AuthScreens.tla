---------------------------- MODULE AuthScreens ----------------------------
(***************************************************************************)
(* The page around the chat shell: renderScreen() with its captcha widgets, *)
(* the login and the registration of both interfaces, the command panel of  *)
(* the Pro interface, the logout of the settings screen, and reloads; and   *)
(* the session handlers of Bridge, which all of that ends in.               *)
(*                                                                         *)
(* The page is single threaded: a piece of script between two awaits is one *)
(* action.  Its calls form a queue, as in ChatShell: BridgeJs shows why, and *)
(* what an answer to an earlier document may do, which is left out here.    *)
(* The chat shell itself is in ChatShell, and what the server says to a     *)
(* captcha, a login or a registration is open.                              *)
(***************************************************************************)
EXTENDS Naturals, Sequences, FiniteSets

CONSTANTS
  Users,
  MaxCalls,  \* bounds the calls under way when another is started
  MaxPanel,  \* bounds the commands given to the panel of one document
  None       \* no argument, no widget, no session, no page to come

ASSUME AuthScreensAssumption ==
  /\ MaxCalls \in Nat /\ MaxPanel \in Nat
  /\ None \notin Users \union {TRUE, FALSE}
  /\ None \notin {"first", "second", "gone", "panel", "standard", "pro"}
  /\ Users \intersect {"login", "register", "blank", "error"} = {}

VARIABLES
  mode,     \* the interface whose page is loaded
  leaving,  \* the interface whose page is about to replace it, or None
  screen,   \* what #app shows
  captcha,  \* the captcha widgets of the screen
  post,     \* postCaptchaPanel is shown
  pending,  \* calls that have not returned to the page
  overdue,  \* calls nobody waits for any more and whose handler has not run
  session,  \* AppState: whose session there is
  late,     \* history: a login or logout of this document timed out
  commands  \* history: commands of the panel that change the session

page == <<mode, leaving, screen, captcha, post>>
calls == <<pending, overdue>>
vars == <<page, calls, session, late, commands>>

Modes == {"standard", "pro"}
Forms == {"login", "register"}

\* "error" is the text of a layout that did not come.
Screens == Forms \union {"blank", "error"} \union Users

Slots == {"first", "second"}
SlotsOf(form) == IF form = "login" THEN <<"first">> ELSE <<"first", "second">>

\* A captcha is fetched for a widget, which is "gone" once its screen is replaced.
\* The calls of the panel have the slot "panel".
Calls == [call : {"getLayout", "getCaptcha", "login", "register", "logout", "setInterfaceMode"},
          arg : {None} \union Forms \union Modes \union Users,
          slot : {None, "gone", "panel"} \union Slots,
          ok : {None, TRUE, FALSE}]

TypeOK ==
  /\ mode \in Modes /\ leaving \in Modes \union {None}
  /\ screen \in Screens
  /\ captcha \in [Slots -> {"none", "loading", "failed", "ready"}]
  /\ post \in BOOLEAN
  /\ pending \in Seq(Calls) /\ overdue \in Seq(Calls)
  /\ session \in Users \union {None}
  /\ late \in BOOLEAN
  /\ commands \in 0..MaxPanel

NoCaptcha == [s \in Slots |-> "none"]

Call(name, arg) == [call |-> name, arg |-> arg, slot |-> None, ok |-> None]
Captcha(slot) == [Call("getCaptcha", None) EXCEPT !.slot = slot]
PanelCall(name, arg) == [Call(name, arg) EXCEPT !.slot = "panel"]

Init ==
  /\ mode \in Modes /\ leaving = None
  /\ screen = "blank" /\ captcha = NoCaptcha /\ post = FALSE
  /\ pending = <<Call("getLayout", "login")>> /\ overdue = <<>>
  /\ session = None
  /\ late = FALSE /\ commands = 0
-----------------------------------------------------------------------------
(* What the user does *)

MayCall == Len(pending) + Len(overdue) < MaxCalls

CallNative(call) ==
  /\ MayCall
  /\ pending' = Append(pending, call)
  /\ UNCHANGED <<overdue, session, late>>

\* The links between the two screens.
NavigateForm(form) ==
  /\ screen \in Forms \ {form}
  /\ CallNative(Call("getLayout", form))
  /\ UNCHANGED <<page, commands>>

SubmitLogin(u) ==
  /\ screen = "login" /\ captcha["first"] = "ready"
  /\ CallNative(Call("login", u))
  /\ UNCHANGED <<page, commands>>

SubmitRegister(u) ==
  /\ screen = "register" /\ captcha["first"] = "ready"
  /\ CallNative(Call("register", u))
  /\ UNCHANGED <<page, commands>>

FinishRegister ==
  /\ screen = "register" /\ post /\ captcha["second"] = "ready"
  /\ CallNative(Call("getLayout", "login"))
  /\ UNCHANGED <<page, commands>>

RetryCaptcha(s) ==
  /\ captcha[s] = "failed"
  /\ CallNative(Captcha(s))
  /\ captcha' = [captcha EXCEPT ![s] = "loading"]
  /\ UNCHANGED <<mode, leaving, screen, post, commands>>

\* The toggle of the login screen and the buttons of the settings screen.
SwitchInterface(m) ==
  /\ screen \in {"login"} \union Users
  /\ CallNative(Call("setInterfaceMode", m))
  /\ UNCHANGED <<page, commands>>

Logout ==
  /\ screen \in Users
  /\ CallNative(Call("logout", None))
  /\ UNCHANGED <<page, commands>>

\* login and logout in the command panel, beside whatever #app shows.
Command(call) ==
  /\ mode = "pro" /\ commands < MaxPanel
  /\ CallNative(call)
  /\ commands' = commands + 1
  /\ UNCHANGED page

PanelCommand ==
  \/ \E u \in Users : Command(PanelCall("login", u))
  \/ Command(PanelCall("logout", None))

Reload ==
  /\ leaving = None /\ MayCall
  /\ leaving' = mode
  /\ UNCHANGED <<mode, screen, captcha, post, calls, session, late, commands>>

\* The next document replaces this one; its calls are still handled.  They are
\* answered in their order, so those without an answer are the last ones.
Unanswered(c) == c.ok = None
Answered == {i \in DOMAIN pending : ~Unanswered(pending[i])}
NotAnswered == SubSeq(pending, Cardinality(Answered) + 1, Len(pending))

Commit ==
  /\ leaving # None
  /\ mode' = leaving /\ leaving' = None
  /\ screen' = "blank" /\ captcha' = NoCaptcha /\ post' = FALSE
  /\ overdue' = overdue \o NotAnswered
  /\ pending' = <<Call("getLayout", "login")>>
  /\ late' = FALSE /\ commands' = 0
  /\ UNCHANGED session
-----------------------------------------------------------------------------
(* What a result does in the page *)

\* The widgets of a screen that is replaced are written to in vain.
LeftAlone(waiting) == waiting
Orphaned(waiting) ==
  [i \in DOMAIN waiting |->
     IF waiting[i].slot \in Slots THEN [waiting[i] EXCEPT !.slot = "gone"] ELSE waiting[i]]

Show(s, slots) ==
  /\ screen' = s /\ post' = FALSE
  /\ captcha' = [w \in Slots |-> IF \E k \in DOMAIN slots : slots[k] = w THEN "loading" ELSE "none"]
  /\ pending' = Orphaned(Tail(pending)) \o [k \in DOMAIN slots |-> Captcha(slots[k])]

Layout(c, ok) ==
  /\ c.call = "getLayout"
  /\ IF ok THEN Show(c.arg, SlotsOf(c.arg)) ELSE Show("error", <<>>)
  /\ UNCHANGED <<mode, leaving>>

CaptchaLoaded(c, ok) ==
  /\ c.call = "getCaptcha"
  /\ captcha' = IF c.slot = "gone" THEN captcha
                ELSE [captcha EXCEPT ![c.slot] = IF ok THEN "ready" ELSE "failed"]
  /\ pending' = Tail(pending)
  /\ UNCHANGED <<mode, leaving, screen, post>>

\* The chat shell takes the place of whatever is on the screen by then.
LoggedIn(c, ok) ==
  /\ c.call = "login" /\ c.slot = None /\ ok
  /\ Show(c.arg, <<>>)
  /\ UNCHANGED <<mode, leaving>>

\* getElementById() finds the panel on any registration screen, and throws when
\* there is none.
Registered(c, ok) ==
  /\ c.call = "register" /\ ok
  /\ post' = (post \/ screen = "register")
  /\ pending' = Tail(pending)
  /\ UNCHANGED <<mode, leaving, screen, captcha>>

\* After the logout of the settings the page reloads, whatever the result.
LoggedOut(c) ==
  /\ c.call = "logout" /\ c.slot = None
  /\ leaving' = IF leaving = None THEN mode ELSE leaving
  /\ pending' = Tail(pending)
  /\ UNCHANGED <<mode, screen, captcha, post>>

Printed(c, ok) ==
  /\ \/ c.slot = "panel"
     \/ c.call = "setInterfaceMode"
     \/ c.call \in {"login", "register"} /\ ~ok
  /\ pending' = Tail(pending)
  /\ UNCHANGED page

Resume(c, ok) ==
  Layout(c, ok) \/ CaptchaLoaded(c, ok) \/ LoggedIn(c, ok) \/ Registered(c, ok)
    \/ LoggedOut(c) \/ Printed(c, ok)

Return ==
  /\ pending # <<>> /\ Head(pending).ok # None
  /\ Resume(Head(pending), Head(pending).ok)
  /\ UNCHANGED <<overdue, session, late, commands>>

OnlyLogin(c) == c.call = "login"
HasTimer(c) == TRUE

TimeOut ==
  /\ pending # <<>> /\ HasTimer(Head(pending))
  /\ LET c == Head(pending) IN
       /\ Resume(c, FALSE)
       /\ overdue' = IF Unanswered(c) THEN Append(overdue, c) ELSE overdue
       /\ late' = (late \/ c.call \in {"login", "logout"})
  /\ UNCHANGED <<session, commands>>
-----------------------------------------------------------------------------
(* The native side: Bridge::dispatch() with the oldest message *)

SessionForced(ok, u) == u
SessionAfter(ok, u) == IF ok THEN u ELSE session

\* A layout is refused to a call that names none, which a screen never makes but
\* is allowed for here; the layout files are installed and intact.
Handle(c, ok) ==
  /\ c.call \in {"logout", "setInterfaceMode"} => ok
  /\ session' = CASE c.call = "login" -> SessionAfter(ok, c.arg)
                  [] c.call = "logout" -> None
                  [] OTHER -> session
  /\ leaving' = IF c.call = "setInterfaceMode" THEN c.arg ELSE leaving

Dispatch ==
  /\ \E ok \in BOOLEAN :
       IF overdue # <<>>
       THEN Handle(Head(overdue), ok) /\ overdue' = Tail(overdue) /\ UNCHANGED pending
       ELSE \E i \in DOMAIN pending :
              /\ Unanswered(pending[i]) /\ \A j \in 1..(i - 1) : ~Unanswered(pending[j])
              /\ Handle(pending[i], ok)
              /\ pending' = [pending EXCEPT ![i].ok = ok]
              /\ UNCHANGED overdue
  /\ UNCHANGED <<mode, screen, captcha, post, late, commands>>

Next ==
  \/ \E form \in Forms : NavigateForm(form)
  \/ \E u \in Users : SubmitLogin(u) \/ SubmitRegister(u)
  \/ FinishRegister
  \/ \E s \in Slots : RetryCaptcha(s)
  \/ \E m \in Modes : SwitchInterface(m)
  \/ Logout \/ PanelCommand \/ Reload \/ Commit
  \/ Return \/ TimeOut \/ Dispatch

Spec == Init /\ [][Next]_vars

\* The event loop of the page runs on; the native side need not, because a
\* handler may wait for the server without end.
FairSpec == Spec /\ WF_vars(Return) /\ WF_vars(TimeOut)
-----------------------------------------------------------------------------
(* Properties *)

\* A widget is loading as long as its captcha is under way and no longer, and a
\* screen has the widgets of its layout.
Loading(s) == \E i \in DOMAIN pending : pending[i].slot = s
WidgetsOfScreen ==
  /\ \A s \in Slots : captcha[s] = "loading" <=> Loading(s)
  /\ captcha["first"] # "none" <=> screen \in Forms
  /\ captcha["second"] # "none" <=> screen = "register"
  /\ post => screen = "register"

\* What a call asks for, and who waits for it.
WellFormed(c) ==
  /\ c.call = "getLayout" => c.arg \in Forms
  /\ c.call = "login" => c.arg \in Users
  /\ c.call = "setInterfaceMode" => c.arg \in Modes
  /\ c.call = "getCaptcha" <=> c.slot \in Slots \union {"gone"}
CallsWellFormed ==
  /\ \A i \in DOMAIN pending : WellFormed(pending[i])
  /\ \A i \in DOMAIN overdue : WellFormed(overdue[i])

\* A widget waits for one captcha at a time.
OneCallPerWidget ==
  \A i, j \in DOMAIN pending :
    pending[i].slot \in Slots /\ pending[i].slot = pending[j].slot => i = j

\* The native side answers the calls in their order.
AnsweredFirst ==
  \A i, j \in DOMAIN pending : i < j /\ ~Unanswered(pending[j]) => ~Unanswered(pending[i])

\* Calls that may change the session, and answered ones that have.
OfSession(c) == c.call \in {"login", "logout"}
Changed(c) == (c.call = "login" /\ c.ok = TRUE) \/ (c.call = "logout" /\ c.ok # None)
SessionBy(c) == IF c.call = "login" THEN c.arg ELSE None

NoPanelCalls == commands = 0 => \A i \in DOMAIN pending : pending[i].slot # "panel"

\* The native side has done with the calls of earlier documents before it comes
\* to one of this document.
EarlierAreOver ==
  ~late /\ (screen \in Users \/ \E i \in DOMAIN pending : ~Unanswered(pending[i]))
    => \A i \in DOMAIN overdue : ~OfSession(overdue[i])

\* The session is what the last answer that has not returned yet made it, and
\* that of the shell on the screen when there is none.
SessionKnown ==
  ~late /\ commands = 0 =>
    /\ \A i \in DOMAIN pending :
         Changed(pending[i]) /\ (\A j \in DOMAIN pending : i < j => ~Changed(pending[j]))
           => session = SessionBy(pending[i])
    /\ screen \in Users /\ leaving = None /\ (\A i \in DOMAIN pending : ~Changed(pending[i]))
         => session = screen

IInv ==
  /\ TypeOK /\ WidgetsOfScreen
  /\ CallsWellFormed /\ OneCallPerWidget /\ AnsweredFirst
  /\ NoPanelCalls /\ EarlierAreOver /\ SessionKnown

\* While a chat shell is shown and no login or logout of it is under way, the
\* session of the native side is that of the account the shell was made for,
\* however logins, reloads, time-outs of earlier documents and switches of the
\* interface followed each other; not so after a login or logout of this
\* document that timed out, and not after a command of the panel.
Quiet ==
  /\ ~late /\ commands = 0 /\ leaving = None
  /\ \A i \in DOMAIN pending : ~OfSession(pending[i])
ShellIsSession == screen \in Users /\ Quiet => session = screen

\* A page does not stay blank, as bridge.js promises: whatever the native side
\* does, the login screen or an error takes the place of the empty page.
ShowsSomething == screen = "blank" ~> screen # "blank"
=============================================================================
