------------------------------ MODULE ChatShell ------------------------------
(***************************************************************************)
(* The chat screen of the page: renderChatShell() with its chat list, its  *)
(* message pane and its sync timer, the way to the settings screen and     *)
(* back, and the calls it makes through callNative().                      *)
(*                                                                         *)
(* The page is single threaded: a piece of code between two awaits is one  *)
(* action.  The native side handles the calls one after another in the     *)
(* order they were posted, and every call times out after the same ten     *)
(* seconds, so calls also return to the page in that order: `pending` is a *)
(* queue, and each call in it carries what the page goes on with.          *)
(* A shell that has been torn down keeps its closures and its timer may go *)
(* on; what it writes to its own elements nobody sees any more.            *)
(***************************************************************************)
EXTENDS Naturals, Sequences, FiniteSets

CONSTANTS
  Chats,
  OldChats,    \* those the account has when the page is loaded
  Messages,    \* each is typed here once or sent by another account; one that
               \* was lost on its way may come again as another
  Shells,      \* the renders of the chat shell; bounds how often it is rendered
  NewChats,    \* bounds what the user asks createChat for
  MaxPending,  \* bounds the calls under way when the user or a timer starts another
  MaxOverdue,  \* bounds the calls that nobody waits for and that await their handler
  MaxTimeouts, \* bounds the calls that time out
  None         \* no pane, no reply yet, not typed yet

\* el is the message element a refresh will write to: "gone" once another pane
\* or another screen has replaced it.
Calls == [op : {"list", "messages", "send", "sync", "create"},
          shell : Shells,
          chat : Chats \union {None},
          msg : Messages \union {None},
          el : {"pane", "gone"},
          then : {"start", "idle", "open", "messages", "list", "listen"},
          reply : {None} \union [ok : BOOLEAN, data : SUBSET (Chats \union Messages)]]

\* The listener of a pane is the chat that the first submit listener of its form
\* sends to.  The first one takes the text and clears the input; the others then
\* find nothing to send.  A pane is alone if no other was waiting when it opened.
Panes == [chat : Chats, alone : BOOLEAN, listener : Chats \union {None}, shown : SUBSET Messages]

ASSUME ConstantsAssumption ==
  /\ {MaxPending, MaxOverdue, MaxTimeouts} \subseteq Nat
  /\ None \notin Chats \union Messages \union Panes
  /\ None \notin [ok : BOOLEAN, data : SUBSET (Chats \union Messages)]
  /\ None \notin [chat : Chats, alone : BOOLEAN]
  /\ Shells \intersect {"off", "null", "settings", "login"} = {}
  /\ OldChats \union NewChats \subseteq Chats

VARIABLES
  screen,     \* what #app shows: a shell, "settings" or "login"
  made,       \* the shells rendered so far
  timer,      \* shell -> the root its sync timer tracks; "off" without a timer
  active,     \* shell -> its activeChatId
  listed,     \* the chats in the list on the screen
  pane,       \* the message pane on the screen, or None
  pending,    \* calls that have not returned to the page
  overdue,    \* calls that timed out before their handler ran
  exists,     \* chats in the store
  store,      \* chat -> its messages
  arriving,   \* chat -> messages on the server
  typed,      \* history: message -> the pane it was typed in
  timeouts    \* history: the number of calls that timed out

page == <<screen, made, timer, active, listed, pane>>
native == <<exists, store, arriving>>
past == <<typed, timeouts>>
vars == <<page, pending, overdue, native, past>>

TypeOK ==
  /\ screen \in Shells \union {"settings", "login"}
  /\ made \subseteq Shells
  /\ timer \in [Shells -> Shells \union {"off", "null"}]
  /\ active \in [Shells -> Chats \union {None}]
  /\ listed \subseteq Chats
  /\ pane \in Panes \union {None}
  /\ pending \in Seq(Calls) /\ overdue \in Seq(Calls)
  /\ exists \subseteq Chats
  /\ store \in [Chats -> SUBSET Messages]
  /\ arriving \in [Chats -> SUBSET Messages]
  /\ typed \in [Messages -> [chat : Chats, alone : BOOLEAN] \union {None}]
  /\ timeouts \in 0..MaxTimeouts

Init ==
  /\ screen = "login"
  /\ made = {}
  /\ timer = [k \in Shells |-> "off"]
  /\ active = [k \in Shells |-> None]
  /\ listed = {}
  /\ pane = None
  /\ pending = <<>> /\ overdue = <<>>
  /\ exists = OldChats
  /\ store = [c \in Chats |-> {}]
  /\ arriving = [c \in Chats |-> {}]
  /\ typed = [m \in Messages |-> None]
  /\ timeouts = 0
-----------------------------------------------------------------------------
(* callNative() *)

Call(op, k, chat, msg, then) ==
  [op |-> op, shell |-> k, chat |-> chat, msg |-> msg, el |-> "pane", then |-> then,
   reply |-> None]
ListChats(k, chat, then) == Call("list", k, chat, None, then)
GetMessages(k, chat, then) == Call("messages", k, chat, None, then)

Post(call) == pending' = Append(pending, call)
Return == pending' = Tail(pending)
ReturnAndPost(call) == pending' = Append(Tail(pending), call)

MayPost == Len(pending) < MaxPending
Waiting == {i \in DOMAIN pending : pending[i].reply = None}
Replied == DOMAIN pending \ Waiting
\* Calls are answered in their order, so those without a reply are the last ones.
NotReplied == SubSeq(pending, Cardinality(Replied) + 1, Len(pending))
Returns(op) == pending # <<>> /\ Head(pending).op = op /\ Head(pending).reply # None
-----------------------------------------------------------------------------
(* The page: what the user and the timer start *)

OnScreen(k) == screen = k

\* The MutationObservers: a change of the document stops the timers whose root
\* is not part of it any more.  Nodes outside of the document do not count.
TimersAfter(s) == [k \in Shells |-> IF timer[k] = s THEN timer[k] ELSE "off"]
Mutated(k) == IF OnScreen(k) THEN TimersAfter(screen) ELSE timer

\* container.querySelector(".chat-shell")
NoRoot == "null"
Root == IF screen \in Shells THEN screen ELSE "null"

\* The message elements of a shell are no longer on the screen.
Detached(k, calls) ==
  [i \in DOMAIN calls |-> IF calls[i].shell = k THEN [calls[i] EXCEPT !.el = "gone"]
                                               ELSE calls[i]]

\* After a login, or back from the settings; after a second login that was under
\* way, or one in the command panel, over the shell on the screen.
RenderChatShell(k) ==
  /\ k \notin made
  /\ MayPost
  /\ made' = made \union {k}
  /\ screen' = k
  /\ timer' = TimersAfter(k)
  /\ listed' = {} /\ pane' = None
  /\ pending' = Append(Detached(screen, pending), ListChats(k, None, "start"))
  /\ UNCHANGED <<active, overdue, native, past>>

RenderSettings(k) ==
  /\ OnScreen(k)
  /\ screen' = "settings"
  /\ timer' = TimersAfter("settings")
  /\ listed' = {} /\ pane' = None
  /\ pending' = Detached(k, pending)
  /\ UNCHANGED <<made, active, overdue, native, past>>

Opening(k) == \E i \in DOMAIN pending : pending[i].shell = k /\ pending[i].then = "listen"

SameForm == IF pane = None THEN None ELSE pane.listener
NewForm == None

\* openChat(): a new pane, whose listener is attached when its messages are
\* there.  The form is looked up then, so it may be a later pane's form.
OpenPane(k, c, calls) ==
  /\ active' = [active EXCEPT ![k] = c]
  /\ timer' = Mutated(k)
  /\ IF OnScreen(k)
     THEN /\ pane' = [chat |-> c, alone |-> ~Opening(k), listener |-> NewForm, shown |-> {}]
          /\ pending' = Append(Detached(k, calls), GetMessages(k, c, "listen"))
     ELSE /\ pending' = Append(calls, [GetMessages(k, c, "listen") EXCEPT !.el = "gone"])
          /\ UNCHANGED pane

OpenChat(k, c) ==
  /\ OnScreen(k) /\ MayPost
  /\ c \in listed
  /\ OpenPane(k, c, pending)
  /\ UNCHANGED <<screen, made, listed, overdue, native, past>>

\* createChat answers with the new chat, or with the dm that is there already.
NewChat(k, c) ==
  /\ OnScreen(k) /\ MayPost
  /\ Post(Call("create", k, c, None, "idle"))
  /\ UNCHANGED <<page, overdue, native, past>>

Fresh(m) == typed[m] = None /\ \A c \in Chats : m \notin store[c] \union arriving[c]

Submit(k, m) ==
  /\ OnScreen(k) /\ MayPost
  /\ Fresh(m)
  /\ pane # None /\ pane.listener # None
  /\ typed' = [typed EXCEPT ![m] = [chat |-> pane.chat, alone |-> pane.alone]]
  /\ Post(Call("send", k, pane.listener, m, "idle"))
  /\ UNCHANGED <<page, overdue, native, timeouts>>

\* Without a listener nothing prevents the browser from submitting the form,
\* which loads the page again: the login screen, and every closure is gone.
SubmitReloads(k) ==
  /\ OnScreen(k)
  /\ pane # None /\ pane.listener = None
  /\ Len(overdue) + Cardinality(Waiting) <= MaxOverdue
  /\ screen' = "login"
  /\ timer' = [j \in Shells |-> "off"]
  /\ active' = [j \in Shells |-> None]
  /\ listed' = {} /\ pane' = None
  /\ pending' = <<>>
  /\ overdue' = overdue \o NotReplied
  /\ UNCHANGED <<made, native, past>>

\* The timer does not wait for its last call.
TimerFires(k) ==
  /\ timer[k] # "off"
  /\ MayPost
  /\ Post(Call("sync", k, None, None, "idle"))
  /\ UNCHANGED <<page, overdue, native, past>>
-----------------------------------------------------------------------------
(* The page: what goes on when a call has returned *)

Refresh(k, then) ==
  [GetMessages(k, active[k], then) EXCEPT !.el = IF OnScreen(k) THEN "pane" ELSE "gone"]

\* refreshChatList() and what its callers do next.
ListLoaded ==
  LET call == Head(pending)
      k == call.shell
  IN
  /\ Returns("list")
  /\ listed' = IF ~OnScreen(k) THEN listed ELSE IF call.reply.ok THEN call.reply.data ELSE {}
  /\ \/ /\ call.then = "start"
        /\ timer' = [Mutated(k) EXCEPT ![k] = Root]
        /\ Return
        /\ UNCHANGED <<active, pane>>
     \/ /\ call.then = "idle"
        /\ timer' = Mutated(k)
        /\ Return
        /\ UNCHANGED <<active, pane>>
     \/ /\ call.then = "messages"
        /\ timer' = Mutated(k)
        /\ IF active[k] = None THEN Return ELSE ReturnAndPost(Refresh(k, "idle"))
        /\ UNCHANGED <<active, pane>>
     \/ /\ call.then = "open"
        /\ OpenPane(k, call.chat, Tail(pending))
  /\ UNCHANGED <<screen, made, overdue, native, past>>

\* refreshMessages() looks its element up before it waits, as it does the chat.
ElementNow(call) == OnScreen(call.shell)
ElementThen(call) == OnScreen(call.shell) /\ call.el = "pane"

\* refreshMessages() and what its callers do next.
MessagesLoaded ==
  LET call == Head(pending)
      k == call.shell
  IN
  /\ Returns("messages")
  /\ IF OnScreen(k)
     THEN pane' = [pane EXCEPT
            !.shown = IF ~ElementThen(call) THEN @ ELSE IF call.reply.ok THEN call.reply.data ELSE {},
            !.listener = IF call.then = "listen" /\ @ = None THEN call.chat ELSE @]
     ELSE UNCHANGED pane
  /\ timer' = IF ElementThen(call) THEN Mutated(k) ELSE timer
  /\ IF call.then = "list" THEN ReturnAndPost(ListChats(k, None, "idle")) ELSE Return
  /\ UNCHANGED <<screen, made, active, listed, overdue, native, past>>

Sent ==
  LET call == Head(pending) IN
  /\ Returns("send")
  /\ IF call.reply.ok
     THEN ReturnAndPost(Refresh(call.shell, "list"))
     ELSE Return
  /\ UNCHANGED <<page, overdue, native, past>>

AfterSyncListOnly == "idle"
AfterSync == "messages"

Synced ==
  LET call == Head(pending) IN
  /\ Returns("sync")
  /\ IF call.reply.ok /\ call.reply.data # {}
     THEN ReturnAndPost(ListChats(call.shell, None, AfterSync))
     ELSE Return
  /\ UNCHANGED <<page, overdue, native, past>>

Created ==
  LET call == Head(pending) IN
  /\ Returns("create")
  /\ IF call.reply.ok THEN ReturnAndPost(ListChats(call.shell, call.chat, "open"))
                      ELSE Return
  /\ UNCHANGED <<page, overdue, native, past>>

PageGoesOn == ListLoaded \/ MessagesLoaded \/ Sent \/ Synced \/ Created

\* Ten seconds without an answer: the call returns an error, and its handler
\* runs later all the same.
NativeTimeout ==
  /\ pending # <<>>
  /\ timeouts < MaxTimeouts
  /\ timeouts' = timeouts + 1
  /\ pending' = [pending EXCEPT ![1].reply = [ok |-> FALSE, data |-> {}]]
  /\ IF Head(pending).reply # None THEN UNCHANGED overdue
     ELSE /\ Len(overdue) < MaxOverdue
          /\ overdue' = Append(overdue, Head(pending))
  /\ UNCHANGED <<page, native, typed>>
-----------------------------------------------------------------------------
(* The native side, as far as the page can tell *)

Data(call) ==
  CASE call.op = "list" -> exists
    [] call.op = "messages" -> store[call.chat]
    [] call.op = "sync" -> UNION {arriving[c] : c \in Chats}
    [] OTHER -> {}

Good(data) == [ok |-> TRUE, data |-> data]
Error == [ok |-> FALSE, data |-> {}]

HandleChatCall(call, reply) ==
  /\ call.op # "sync"
  /\ exists' = IF call.op = "create" THEN exists \union {call.chat} ELSE exists
  /\ store' = IF call.op = "send" THEN [store EXCEPT ![call.chat] = @ \union {call.msg}]
                                 ELSE store
  /\ reply = Good(Data(call))
  /\ UNCHANGED arriving

\* The poll reaches the server, which forgets what it hands out: that is merged,
\* or lost with the answer.
Pull(call, reply) ==
  /\ call.op = "sync"
  /\ arriving' = [c \in Chats |-> {}]
  /\ \/ /\ reply = Good(Data(call))
        /\ exists' = exists \union {c \in Chats : arriving[c] # {}}
        /\ store' = [c \in Chats |-> store[c] \union arriving[c]]
     \/ /\ reply = Error
        /\ UNCHANGED <<exists, store>>

\* There is no session, or the poll does not reach the server.
NoPull(call, reply) ==
  /\ call.op = "sync"
  /\ reply = Error
  /\ UNCHANGED native

Handle(call, reply) ==
  HandleChatCall(call, reply) \/ Pull(call, reply) \/ NoPull(call, reply)

PossibleReplies(call) == {Good(Data(call)), Error}

\* Nobody waits for the answer to an overdue call.
HandleOverdue ==
  /\ overdue # <<>>
  /\ \E reply \in PossibleReplies(Head(overdue)) : Handle(Head(overdue), reply)
  /\ overdue' = Tail(overdue)
  /\ UNCHANGED <<page, pending, past>>

NextWaiting == {i \in Waiting : \A j \in Waiting : i <= j}
AnswerWith(i, reply) == pending' = [pending EXCEPT ![i].reply = reply]

HandlePending ==
  /\ overdue = <<>>
  /\ \E i \in NextWaiting : \E reply \in PossibleReplies(pending[i]) :
       Handle(pending[i], reply) /\ AnswerWith(i, reply)
  /\ UNCHANGED <<page, overdue, past>>

\* Somebody writes to this account (external).
Arrive(m, c) ==
  /\ Fresh(m)
  /\ arriving' = [arriving EXCEPT ![c] = @ \union {m}]
  /\ UNCHANGED <<page, pending, overdue, exists, store, past>>

Next ==
  \/ \E k \in Shells :
       \/ RenderChatShell(k)
       \/ RenderSettings(k)
       \/ \E c \in Chats : OpenChat(k, c)
       \/ \E c \in NewChats : NewChat(k, c)
       \/ \E m \in Messages : Submit(k, m)
       \/ SubmitReloads(k)
       \/ TimerFires(k)
  \/ PageGoesOn
  \/ NativeTimeout
  \/ HandleOverdue \/ HandlePending
  \/ \E m \in Messages, c \in Chats : Arrive(m, c)

Spec == Init /\ [][Next]_vars

SyncPulls ==
  /\ overdue = <<>>
  /\ \E i \in NextWaiting : \E reply \in PossibleReplies(pending[i]) :
       Pull(pending[i], reply) /\ AnswerWith(i, reply)
  /\ UNCHANGED <<page, overdue, past>>

\* The page goes on as soon as it has an answer, and the native side comes to
\* every call: request() returns.  The timers fire every four seconds, strongly
\* because MaxPending may hold one up.  Of the network it is assumed that a poll
\* reaches the server now and then.
FairSpec ==
  /\ Spec
  /\ WF_vars(PageGoesOn)
  /\ WF_vars(HandleOverdue \/ HandlePending)
  /\ SF_vars(SyncPulls)
  /\ SF_vars(\E k \in Shells : TimerFires(k))
-----------------------------------------------------------------------------
(* Properties *)

\* However openChat, sends, syncs, new chats and time-outs interleave, the pane
\* never shows a message of another chat than the one in its header.
PaneShowsItsChat == pane # None => pane.shown \subseteq store[pane.chat]

\* The reason: a refresh that will still be shown asks for the pane's own chat.
RefreshIsForPane ==
  \A i \in DOMAIN pending : LET call == pending[i] IN
    call.op = "messages" =>
      /\ call.chat \in Chats
      /\ call.reply # None => call.reply.data \subseteq store[call.chat]
      /\ OnScreen(call.shell) => pane # None
      /\ OnScreen(call.shell) /\ call.el = "pane" => call.chat = pane.chat

\* activeChatId is the chat of the pane on the screen.
ActiveIsShown ==
  /\ pane # None => screen \in Shells
  /\ screen \in Shells => active[screen] = (IF pane = None THEN None ELSE pane.chat)

SentFromPane ==
  \A i \in DOMAIN pending : pending[i].op = "send" => active[pending[i].shell] # None

\* A message typed under a chat's header goes to that chat and to no other, if
\* the pane was opened while no other openChat() of the shell was under way.
\* Without that condition it may go to the chat that was opened before.
ReachesShownChat ==
  \A m \in Messages, c \in Chats :
    m \in store[c] /\ typed[m] # None /\ typed[m].alone => c = typed[m].chat

\* A call of this shell that will bring what the store holds into its pane.
Brings(call, m) ==
  \/ call.op = "messages" /\ call.el = "pane" /\ (call.reply = None \/ m \in call.reply.data)
  \/ call.op = "list" /\ call.then = "messages"
  \/ call.op = "sync" /\ call.reply # None /\ call.reply.data # {}
  \/ call.op = "send"

\* "Re-rendered whenever a message is sent", and whenever one has arrived: what
\* the store has and the open chat does not show is on its way to it.  This
\* needs that no call timed out and that no timer of an earlier shell is left.
Undisturbed ==
  /\ pane # None
  /\ timeouts = 0
  /\ \A k \in Shells \ {screen} : timer[k] = "off"
MissingIsComing ==
  Undisturbed =>
    \A m \in store[pane.chat] \ pane.shown :
      \E i \in DOMAIN pending : pending[i].shell = screen /\ Brings(pending[i], m)

\* What a call carries, and what its reply can be.
WellFormed(call) ==
  /\ call.op \in {"messages", "send", "create"} => call.chat \in Chats
  /\ call.op = "list" /\ call.then = "open" => call.chat \in Chats
  /\ call.op = "list" /\ call.reply # None => call.reply.data \subseteq Chats
  /\ call.op = "send" => call.msg \in Messages
  /\ call.then = "listen" => call.op = "messages"
  /\ call.reply # None /\ ~call.reply.ok => call.reply.data = {}
CallsWellFormed ==
  /\ \A i \in DOMAIN pending : WellFormed(pending[i])
  /\ \A i \in DOMAIN overdue : WellFormed(overdue[i])

\* Only a shell that was rendered calls, has a timer or opened a chat, and the
\* timers that go on are those of the root on the screen.
OfRenderedShells ==
  /\ screen \in Shells => screen \in made
  /\ \A k \in Shells \ made : active[k] = None
  /\ \A i \in DOMAIN pending : pending[i].shell \in made
  /\ \A k \in Shells : timer[k] # "off" => k \in made /\ timer[k] = Root

AnsweredFirst ==
  \A i, j \in DOMAIN pending : i < j /\ pending[j].reply # None => pending[i].reply # None

\* A text goes to the chat it was typed in, and arrives from nowhere else: the
\* form of a pane that was opened alone has no listener of an earlier pane.
GoesWhereTyped(call) ==
  call.op = "send" =>
    typed[call.msg] # None /\ (typed[call.msg].alone => call.chat = typed[call.msg].chat)
TypedIsSent ==
  /\ \A m \in Messages : typed[m] # None => \A c \in Chats : m \notin arriving[c]
  /\ \A i \in DOMAIN pending : GoesWhereTyped(pending[i])
  /\ \A i \in DOMAIN overdue : GoesWhereTyped(overdue[i])
  /\ pane # None /\ pane.alone =>
       /\ pane.listener \in {None, pane.chat}
       /\ \A i \in DOMAIN pending :
            pending[i].shell = screen /\ pending[i].then = "listen" => pending[i].chat = pane.chat

\* Without time-outs every reply but a sync's is good, and what a reload left
\* behind is handled before anything of the new document.
WithoutTimeouts ==
  timeouts = 0 =>
    /\ \A i \in DOMAIN pending :
         pending[i].op # "sync" /\ pending[i].reply # None => pending[i].reply.ok
    /\ overdue # <<>> => pane = None /\ listed = {}
                        /\ \A i \in DOMAIN pending : pending[i].reply = None

\* A change of the store that the shell on the screen did not ask for, and a
\* refresh that is answered, are followed by a call that brings what they miss.
Refreshes(call) == call.op = "messages" /\ call.shell = screen /\ call.el = "pane"
Follows(i, m) ==
  \E j \in DOMAIN pending : i < j /\ pending[j].shell = screen /\ Brings(pending[j], m)
NothingMissed ==
  Undisturbed =>
    \A i \in DOMAIN pending :
      /\ /\ pending[i].op \in {"send", "sync"} /\ pending[i].shell # screen
         /\ pending[i].reply = None
         => \E j \in DOMAIN pending : i < j /\ Refreshes(pending[j])
      /\ Refreshes(pending[i]) /\ pending[i].reply # None
           => \A m \in store[pane.chat] \ pending[i].reply.data : Follows(i, m)

IInv ==
  /\ TypeOK /\ PaneShowsItsChat /\ RefreshIsForPane /\ ActiveIsShown /\ SentFromPane
  /\ CallsWellFormed /\ OfRenderedShells /\ AnsweredFirst
  /\ TypedIsSent /\ ReachesShownChat
  /\ WithoutTimeouts /\ NothingMissed /\ MissingIsComing

\* While a chat shell is on the screen it polls: no order of settings visits,
\* observers, failed polls, time-outs and reloads leaves it without a running
\* timer, so what the server holds is asked for until a poll gets through.
ShellPolls ==
  \A m \in Messages :
    (\E c \in Chats : m \in arriving[c])
      ~> ((\A c \in Chats : m \notin arriving[c]) \/ screen \notin Shells)
-----------------------------------------------------------------------------
(* What a comment of the code promises, checked against the code *)

\* "Stop the timer once this specific chat-shell DOM is torn down": the shell on
\* the screen is polled by its own timer alone.
TimerEndsWithShell ==
  screen \in Shells => \A k \in Shells : timer[k] # "off" => k = screen
=============================================================================
