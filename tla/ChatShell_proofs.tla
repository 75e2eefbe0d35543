--------------------------- MODULE ChatShell_proofs ---------------------------
(***************************************************************************)
(* For any chats, messages, shells and number of calls under way: the pane  *)
(* shows its own chat (IInv), a text goes to the chat it was typed in       *)
(* (ReachesShownChat), and what the open chat lacks is on its way           *)
(* (MissingIsComing).                                                       *)
(*                                                                         *)
(* The steps of the page do one of a few things to the queue of calls and   *)
(* to the pane; there is one lemma for each of these, and the actions are   *)
(* cases of them.                                                           *)
(***************************************************************************)
EXTENDS ChatShell, QueueFacts, TLAPS

(* Calls and queues *)

Ops == {"list", "messages", "send", "sync", "create"}
Thens == {"start", "idle", "open", "messages", "list", "listen"}
Replies == [ok : BOOLEAN, data : SUBSET (Chats \union Messages)]

LEMMA CallFields ==
  ASSUME NEW c \in Calls
  PROVE  /\ c.op \in Ops /\ c.shell \in Shells /\ c.chat \in Chats \union {None}
         /\ c.msg \in Messages \union {None} /\ c.el \in {"pane", "gone"} /\ c.then \in Thens
         /\ c.reply \in {None} \union Replies
BY DEF Calls, Ops, Thens, Replies

LEMMA NewCall ==
  ASSUME NEW op \in Ops, NEW k \in Shells, NEW chat \in Chats \union {None},
         NEW msg \in Messages \union {None}, NEW then \in Thens
  PROVE  LET c == Call(op, k, chat, msg, then) IN
         /\ c \in Calls
         /\ c.op = op /\ c.shell = k /\ c.chat = chat /\ c.msg = msg /\ c.el = "pane"
         /\ c.then = then /\ c.reply = None
BY DEF Call, Calls, Ops, Thens

LEMMA DetachedCall ==
  ASSUME NEW c \in Calls, NEW d, d = [c EXCEPT !.el = "gone"]
  PROVE  /\ d \in Calls /\ d.op = c.op /\ d.shell = c.shell /\ d.chat = c.chat /\ d.msg = c.msg
         /\ d.el = "gone" /\ d.then = c.then /\ d.reply = c.reply
BY DEF Calls

LEMMA RepliedCall ==
  ASSUME NEW c \in Calls, NEW r \in Replies, NEW d, d = [c EXCEPT !.reply = r]
  PROVE  /\ d \in Calls /\ d.op = c.op /\ d.shell = c.shell /\ d.chat = c.chat /\ d.msg = c.msg
         /\ d.el = c.el /\ d.then = c.then /\ d.reply = r /\ d.reply # None
BY ConstantsAssumption DEF Calls, Replies

LEMMA Types ==
  ASSUME TypeOK
  PROVE  /\ pending \in Seq(Calls) /\ overdue \in Seq(Calls) /\ Len(pending) \in Nat
         /\ \A i \in DOMAIN pending : pending[i] \in Calls /\ i \in Nat \ {0} /\ i <= Len(pending)
         /\ \A i \in DOMAIN overdue : overdue[i] \in Calls
BY DEF TypeOK

\* The first n calls are gone, and those of a set come after the others.
Moved(n, new) ==
  /\ pending' \in Seq(Calls)
  /\ \A i \in DOMAIN pending' :
       /\ i \in Nat \ {0}
       /\ \/ i + n \in DOMAIN pending /\ pending'[i] = pending[i + n]
          \/ i + n > Len(pending) /\ pending'[i] \in new
  /\ \A i \in DOMAIN pending : i > n => i - n \in DOMAIN pending' /\ pending'[i - n] = pending[i]
  /\ \A c \in new : \E i \in DOMAIN pending' : i + n > Len(pending) /\ pending'[i] = c

\* The same, but that the elements of calls may be gone by now.
Alike(c, d) ==
  /\ c.op = d.op /\ c.shell = d.shell /\ c.chat = d.chat /\ c.msg = d.msg
  /\ c.then = d.then /\ c.reply = d.reply
  /\ c.el \in {d.el, "gone"}

Shifted(n, new) ==
  /\ pending' \in Seq(Calls)
  /\ \A i \in DOMAIN pending' :
       /\ i \in Nat \ {0}
       /\ \/ i + n \in DOMAIN pending /\ Alike(pending'[i], pending[i + n])
          \/ i + n > Len(pending) /\ pending'[i] \in new

LEMMA MovedIsShifted == ASSUME NEW n, NEW new, Moved(n, new) PROVE Shifted(n, new)
<1>1. \A c : Alike(c, c)
  BY DEF Alike
<1> QED BY <1>1 DEF Moved, Shifted

LEMMA PostMoves ==
  ASSUME TypeOK, NEW c \in Calls, Post(c)
  PROVE  Moved(0, {c})
<1>1. /\ pending' = Append(pending, c) /\ pending' \in Seq(Calls)
      /\ \A i \in DOMAIN pending' : i \in Nat \ {0}
      /\ \A i \in DOMAIN pending' :
           (i \in DOMAIN pending /\ pending'[i] = pending[i]) \/ (i = Len(pending) + 1 /\ pending'[i] = c)
      /\ \A i \in DOMAIN pending : i \in DOMAIN pending' /\ pending'[i] = pending[i]
      /\ Len(pending) + 1 \in DOMAIN pending' /\ pending'[Len(pending) + 1] = c
  BY Appended, Indices DEF TypeOK, Post
<1> QED BY <1>1, Types DEF Moved

LEMMA ReturnMoves ==
  ASSUME TypeOK, pending # <<>>, Return
  PROVE  Moved(1, {})
<1>1. /\ pending' = Tail(pending) /\ pending' \in Seq(Calls)
      /\ \A i \in DOMAIN pending' : i \in Nat \ {0}
      /\ \A i \in DOMAIN pending' : i + 1 \in DOMAIN pending /\ pending'[i] = pending[i + 1]
      /\ \A i \in DOMAIN pending : i # 1 => i - 1 \in DOMAIN pending' /\ pending'[i - 1] = pending[i]
  BY HeadAndTail, Indices DEF TypeOK, Return
<1> QED BY <1>1, Types DEF Moved

LEMMA ReturnAndPostMoves ==
  ASSUME TypeOK, pending # <<>>, NEW c \in Calls, ReturnAndPost(c)
  PROVE  Moved(1, {c})
<1> DEFINE q == Tail(pending)
<1>1. /\ q \in Seq(Calls) /\ Len(q) = Len(pending) - 1
      /\ \A i \in DOMAIN q : i + 1 \in DOMAIN pending /\ q[i] = pending[i + 1]
      /\ \A i \in DOMAIN pending : i # 1 => i - 1 \in DOMAIN q /\ q[i - 1] = pending[i]
  BY HeadAndTail DEF TypeOK
<1> HIDE DEF q
<1>2. /\ pending' = Append(q, c) /\ pending' \in Seq(Calls)
      /\ \A i \in DOMAIN pending' : i \in Nat \ {0}
      /\ \A i \in DOMAIN pending' :
           (i \in DOMAIN q /\ pending'[i] = q[i]) \/ (i = Len(q) + 1 /\ pending'[i] = c)
      /\ \A i \in DOMAIN q : i \in DOMAIN pending' /\ pending'[i] = q[i]
      /\ Len(q) + 1 \in DOMAIN pending' /\ pending'[Len(q) + 1] = c
  BY <1>1, Appended, Indices DEF q, ReturnAndPost
<1> QED BY <1>1, <1>2, Types DEF Moved
-----------------------------------------------------------------------------
(* What any such step keeps *)

\* A timer that goes on is that of the root on the screen, so the observers of
\* that shell stop none.
LEMMA ObserversStopNone ==
  ASSUME TypeOK, OfRenderedShells, NEW k \in Shells
  PROVE  Mutated(k) = timer
<1>1. timer = [j \in Shells |-> timer[j]]
  BY DEF TypeOK
<1>2. OnScreen(k) => TimersAfter(screen) = [j \in Shells |-> timer[j]]
  BY DEF OfRenderedShells, TimersAfter, Root, OnScreen
<1> QED BY <1>1, <1>2 DEF Mutated

\* Before a call is answered none of those after it is.
LEMMA AnsweredFirstStays ==
  ASSUME TypeOK, AnsweredFirst, NEW n \in {0, 1}, NEW new, Shifted(n, new),
         \A c \in new : c.reply = None
  PROVE  AnsweredFirst'
<1> SUFFICES ASSUME NEW i \in DOMAIN pending', NEW j \in DOMAIN pending', i < j,
                    pending'[j].reply # None
             PROVE  pending'[i].reply # None
  BY DEF AnsweredFirst
<1>1. j + n \in DOMAIN pending /\ pending'[j].reply = pending[j + n].reply
  BY DEF Shifted, Alike
<1>2. i + n \in DOMAIN pending /\ pending'[i].reply = pending[i + n].reply
  BY <1>1, Types DEF Shifted, Alike
<1>3. i + n < j + n
  BY DEF Shifted
<1> QED BY <1>1, <1>2, <1>3 DEF AnsweredFirst

LEMMA CallsStayWellFormed ==
  ASSUME CallsWellFormed, NEW n \in {0, 1}, NEW new, Shifted(n, new),
         \A c \in new : WellFormed(c), overdue' = overdue
  PROVE  CallsWellFormed'
<1>1. \A c, d : Alike(c, d) /\ WellFormed(d) => WellFormed(c)
  BY DEF Alike, WellFormed
<1>2. \A i \in DOMAIN pending' : WellFormed(pending'[i])
  BY <1>1 DEF CallsWellFormed, Shifted
<1>3. \A i \in DOMAIN overdue' : WellFormed(overdue'[i])
  BY DEF CallsWellFormed
<1> QED BY <1>2, <1>3 DEF CallsWellFormed, WellFormed

LEMMA CallersStayRendered ==
  ASSUME OfRenderedShells, NEW n \in {0, 1}, NEW new, Shifted(n, new),
         \A c \in new : c.shell \in made', made \subseteq made'
  PROVE  \A i \in DOMAIN pending' : pending'[i].shell \in made'
BY DEF OfRenderedShells, Shifted, Alike

\* A call that a step of the page may start.
GoesAs(t, c) == c.op = "send" => t[c.msg] # None /\ (t[c.msg].alone => c.chat = t[c.msg].chat)
Fits(c) ==
  /\ c \in Calls /\ c.reply = None /\ WellFormed(c) /\ c.shell \in made
  /\ c.then = "listen" => c.shell # screen
  /\ c.op = "messages" /\ OnScreen(c.shell) => pane # None
  /\ c.op = "messages" /\ OnScreen(c.shell) /\ c.el = "pane" => c.chat = pane.chat
  /\ c.op = "send" => active[c.shell] # None
  /\ c.op \in {"send", "sync"} => c.shell = screen \/ timer[c.shell] # "off"

\* The pane may show other messages of its chat, and have its listener.
SamePane ==
  \/ pane' = pane
  \/ /\ pane \in Panes /\ pane' \in Panes
     /\ pane'.chat = pane.chat /\ pane'.alone = pane.alone
     /\ pane'.shown \subseteq store[pane.chat]
     /\ pane.alone => pane'.listener \in {None, pane.chat}
\* A message that the pane may have waited for, or shows no more.
Lost(m) ==
  \/ m \notin pane'.shown /\ m \in pane.shown
  \/ Head(pending).shell = screen /\ Brings(Head(pending), m)

\* A page step that keeps the pane and leaves the native side alone: it may end
\* the first call, whatever that was, and start another that goes on for it.
LEMMA PaneKeptKeepsIInv ==
  ASSUME IInv, NEW n \in {0, 1}, NEW new, Moved(n, new), SamePane,
         UNCHANGED <<screen, made, overdue, native, timeouts>>,
         n = 1 => pending # <<>> /\ Head(pending).reply # None,
         n = 0 => pane' = pane,
         \A c \in new : Fits(c) /\ GoesAs(typed', c),
         listed' \subseteq Chats, listed' = listed \/ n = 1,
         timer' \in [Shells -> Shells \union {"off", "null"}],
         \A k \in Shells : timer'[k] = timer[k] \/ (k \in made /\ timer'[k] = Root),
         active' \in [Shells -> Chats \union {None}],
         \A k \in Shells : active'[k] = active[k]
                             \/ (k \in made /\ k # screen /\ active'[k] \in Chats),
         typed' \in [Messages -> [chat : Chats, alone : BOOLEAN] \union {None}],
         \A m \in Messages : typed'[m] = typed[m] \/ Fresh(m),
         n = 1 /\ Undisturbed =>
           \A m \in store[pane.chat] \ pane'.shown : Lost(m) =>
             \/ \E c \in new : c.shell = screen /\ Brings(c, m)
             \/ Follows(1, m)
  PROVE  IInv'
<1> DEFINE h == Head(pending)
<1>1. /\ TypeOK /\ PaneShowsItsChat /\ RefreshIsForPane /\ ActiveIsShown /\ SentFromPane
      /\ CallsWellFormed /\ OfRenderedShells /\ AnsweredFirst
      /\ TypedIsSent /\ ReachesShownChat
      /\ WithoutTimeouts /\ NothingMissed /\ MissingIsComing
  BY DEF IInv
<1>2. /\ \A i \in DOMAIN pending' :
           /\ i \in Nat \ {0}
           /\ \/ i + n \in DOMAIN pending /\ pending'[i] = pending[i + n]
              \/ i + n > Len(pending) /\ pending'[i] \in new
      /\ \A i \in DOMAIN pending :
           i > n => i - n \in DOMAIN pending' /\ pending'[i - n] = pending[i]
      /\ \A c \in new : \E i \in DOMAIN pending' : i + n > Len(pending) /\ pending'[i] = c
      /\ \A i \in DOMAIN pending : i \in Nat \ {0} /\ i <= Len(pending)
      /\ Len(pending) \in Nat
      /\ n = 1 => h = pending[1] /\ 1 \in DOMAIN pending /\ h.reply # None
  BY <1>1, Types, HeadAndTail DEF Moved, TypeOK
<1>3. /\ pane' \in Panes \union {None}
      /\ pane' = None <=> pane = None
      /\ pane # None =>
           /\ pane'.chat = pane.chat /\ pane'.alone = pane.alone
           /\ pane'.shown \subseteq store[pane.chat]
           /\ pane.alone => pane'.listener \in {None, pane.chat}
  <2>1. pane \in Panes \union {None} /\ None \notin Panes
    BY <1>1, ConstantsAssumption DEF TypeOK
  <2>2. CASE pane' = pane
    BY <1>1, <2>1, <2>2 DEF PaneShowsItsChat, TypedIsSent
  <2>3. CASE pane' # pane
    BY <2>1, <2>3 DEF SamePane
  <2> QED BY <2>2, <2>3
<1>4. TypeOK'
  <2>1. pending' \in Seq(Calls)
    BY DEF Moved
  <2> QED BY <1>1, <1>3, <2>1 DEF TypeOK, native
<1>5. PaneShowsItsChat'
  BY <1>3 DEF PaneShowsItsChat, native
<1>6. ActiveIsShown'
  BY <1>1, <1>3 DEF ActiveIsShown
<1>7. RefreshIsForPane'
  <2> SUFFICES ASSUME NEW i \in DOMAIN pending', pending'[i].op = "messages"
               PROVE  /\ pending'[i].chat \in Chats
                      /\ pending'[i].reply # None => pending'[i].reply.data \subseteq store[pending'[i].chat]
                      /\ screen = pending'[i].shell => pane # None
                      /\ screen = pending'[i].shell /\ pending'[i].el = "pane" => pending'[i].chat = pane.chat
    BY <1>3 DEF RefreshIsForPane, OnScreen, native
  <2>1. CASE i + n \in DOMAIN pending /\ pending'[i] = pending[i + n]
    BY <1>1, <2>1 DEF RefreshIsForPane, OnScreen
  <2>2. CASE pending'[i] \in new
    BY <2>2 DEF Fits, OnScreen, WellFormed
  <2> QED BY <1>2, <2>1, <2>2
<1>8. SentFromPane'
  <2>1. \A k \in Shells : active[k] # None => active'[k] # None
    BY ConstantsAssumption
  <2> SUFFICES ASSUME NEW i \in DOMAIN pending', pending'[i].op = "send"
               PROVE  active'[pending'[i].shell] # None
    BY DEF SentFromPane
  <2>2. CASE i + n \in DOMAIN pending /\ pending'[i] = pending[i + n]
    BY <1>1, <2>1, <2>2, Types, CallFields DEF SentFromPane
  <2>3. CASE pending'[i] \in new
    BY <2>1, <2>3, CallFields DEF Fits
  <2> QED BY <1>2, <2>2, <2>3
<1>9. CallsWellFormed' /\ AnsweredFirst'
  BY <1>1, MovedIsShifted, CallsStayWellFormed, AnsweredFirstStays DEF Fits
<1>10. OfRenderedShells'
  <2>1. \A i \in DOMAIN pending' : pending'[i].shell \in made'
    BY <1>1, MovedIsShifted, CallersStayRendered DEF Fits
  <2> QED BY <1>1, <2>1 DEF OfRenderedShells, Root
<1>11. TypedIsSent'
  <2>1. \A m \in Messages : typed[m] # None => typed'[m] = typed[m]
    BY DEF Fresh
  <2>2. ASSUME NEW c, GoesWhereTyped(c), WellFormed(c)
        PROVE  GoesAs(typed', c)
    BY <2>1, <2>2 DEF GoesWhereTyped, GoesAs, WellFormed
  <2>3. ASSUME NEW i \in DOMAIN pending' PROVE GoesAs(typed', pending'[i])
    <3>1. CASE i + n \in DOMAIN pending /\ pending'[i] = pending[i + n]
      BY <1>1, <2>2, <3>1 DEF TypedIsSent, CallsWellFormed
    <3>2. CASE pending'[i] \in new
      BY <3>2
    <3> QED BY <1>2, <3>1, <3>2
  <2>4. ASSUME NEW i \in DOMAIN overdue PROVE GoesAs(typed', overdue[i])
    BY <1>1, <2>2 DEF TypedIsSent, CallsWellFormed
  <2>5. \A m \in Messages : typed'[m] # None => \A c \in Chats : m \notin arriving[c]
    BY <1>1 DEF TypedIsSent, Fresh
  <2>6. ASSUME pane # None, pane.alone
        PROVE  \A i \in DOMAIN pending' :
                 pending'[i].shell = screen /\ pending'[i].then = "listen"
                   => pending'[i].chat = pane.chat
    BY <1>1, <1>2, <2>6 DEF TypedIsSent, Fits
  <2>7. pane' # None /\ pane'.alone =>
          /\ pane'.listener \in {None, pane'.chat}
          /\ \A i \in DOMAIN pending' :
               pending'[i].shell = screen /\ pending'[i].then = "listen"
                 => pending'[i].chat = pane'.chat
    BY <1>3, <2>6
  <2> QED BY <2>3, <2>4, <2>5, <2>7 DEF TypedIsSent, GoesWhereTyped, GoesAs, native
<1>12. ReachesShownChat'
  BY <1>1 DEF ReachesShownChat, Fresh, native
<1>13. WithoutTimeouts'
  <2> SUFFICES ASSUME timeouts = 0
               PROVE  /\ \A i \in DOMAIN pending' :
                           pending'[i].op # "sync" /\ pending'[i].reply # None => pending'[i].reply.ok
                      /\ overdue # <<>> =>
                           /\ pane = None /\ listed' = {}
                           /\ \A i \in DOMAIN pending' : pending'[i].reply = None
    BY <1>3 DEF WithoutTimeouts
  <2>1. \A i \in DOMAIN pending' :
          pending'[i].op # "sync" /\ pending'[i].reply # None => pending'[i].reply.ok
    BY <1>1, <1>2 DEF WithoutTimeouts, Fits
  <2>2. ASSUME overdue # <<>>
        PROVE  /\ pane = None /\ listed' = {}
               /\ \A i \in DOMAIN pending' : pending'[i].reply = None
    BY <1>1, <1>2, <2>2 DEF WithoutTimeouts, Fits
  <2> QED BY <2>1, <2>2
<1>14. Undisturbed' => Undisturbed
  BY <1>1, <1>3, ConstantsAssumption DEF Undisturbed, ActiveIsShown, Root, TypeOK
<1>15. \A j \in DOMAIN pending : n < j => j - n \in DOMAIN pending' /\ pending'[j - n] = pending[j]
  BY <1>2
<1>16. NothingMissed'
  <2> SUFFICES ASSUME Undisturbed, NEW i \in DOMAIN pending'
               PROVE  /\ /\ pending'[i].op \in {"send", "sync"} /\ pending'[i].shell # screen
                         /\ pending'[i].reply = None
                         => \E j \in DOMAIN pending' : i < j /\ Refreshes(pending'[j])
                      /\ Refreshes(pending'[i]) /\ pending'[i].reply # None =>
                           \A m \in store[pane.chat] \ pending'[i].reply.data :
                             \E j \in DOMAIN pending' :
                               i < j /\ pending'[j].shell = screen /\ Brings(pending'[j], m)
    BY <1>3, <1>14 DEF NothingMissed, Refreshes, Follows, Brings, native, Undisturbed
  <2>1. CASE pending'[i] \in new
    <3>1. pending'[i].op \in {"send", "sync"} => pending'[i].shell = screen
      BY <2>1, <1>1, CallFields DEF Fits, Undisturbed
    <3> QED BY <2>1, <3>1 DEF Fits
  <2>2. CASE i + n \in DOMAIN pending /\ pending'[i] = pending[i + n]
    <3>1. \A j \in DOMAIN pending : i + n < j => /\ j - n \in DOMAIN pending' /\ i < j - n
                                               /\ pending'[j - n] = pending[j]
      BY <1>2
    <3>2. ASSUME pending'[i].op \in {"send", "sync"}, pending'[i].shell # screen,
                 pending'[i].reply = None
          PROVE  \E j \in DOMAIN pending' : i < j /\ Refreshes(pending'[j])
      <4>1. PICK j \in DOMAIN pending : i + n < j /\ Refreshes(pending[j])
        BY <1>1, <2>2, <3>2 DEF NothingMissed
      <4> QED BY <3>1, <4>1
    <3>3. ASSUME Refreshes(pending'[i]), pending'[i].reply # None,
                 NEW m \in store[pane.chat] \ pending'[i].reply.data
          PROVE  \E j \in DOMAIN pending' :
                   i < j /\ pending'[j].shell = screen /\ Brings(pending'[j], m)
      <4>1. PICK j \in DOMAIN pending : i + n < j /\ pending[j].shell = screen /\ Brings(pending[j], m)
        BY <1>1, <2>2, <3>3 DEF NothingMissed, Follows
      <4> QED BY <3>1, <4>1
    <3> QED BY <3>2, <3>3
  <2> QED BY <1>2, <2>1, <2>2
<1>17. MissingIsComing'
  <2> SUFFICES ASSUME Undisturbed, NEW m \in store[pane.chat] \ pane'.shown
               PROVE  \E i \in DOMAIN pending' : pending'[i].shell = screen /\ Brings(pending'[i], m)
    BY <1>3, <1>14 DEF MissingIsComing, Brings, native, Undisturbed
  <2>1. CASE \E i \in DOMAIN pending : i > n /\ pending[i].shell = screen /\ Brings(pending[i], m)
    BY <1>15, <2>1
  <2>2. CASE ~\E i \in DOMAIN pending : i > n /\ pending[i].shell = screen /\ Brings(pending[i], m)
    <3>1. n = 1 /\ Lost(m)
      <4>1. CASE m \notin pane.shown
        <5>1. PICK i \in DOMAIN pending : pending[i].shell = screen /\ Brings(pending[i], m)
          BY <1>1, <4>1 DEF MissingIsComing
        <5> QED BY <1>2, <2>2, <5>1 DEF Lost
      <4>2. CASE m \in pane.shown
        BY <4>2 DEF Lost
      <4> QED BY <4>1, <4>2
    <3>2. ~Follows(1, m)
      BY <2>2, <3>1 DEF Follows
    <3>3. PICK c \in new : c.shell = screen /\ Brings(c, m)
      BY <3>1, <3>2
    <3> QED BY <1>2, <3>3
  <2> QED BY <2>1, <2>2
<1> QED BY <1>4, <1>5, <1>6, <1>7, <1>8, <1>9, <1>10, <1>11, <1>12, <1>13, <1>16, <1>17 DEF IInv

\* A step of that kind that leaves the pane as it is.
LEMMA PaneAloneKeepsIInv ==
  ASSUME IInv, NEW n \in {0, 1}, NEW new, Moved(n, new),
         UNCHANGED <<screen, made, active, pane, overdue, native, timeouts>>,
         n = 1 => pending # <<>> /\ Head(pending).reply # None,
         \A c \in new : Fits(c) /\ GoesAs(typed', c),
         listed' \subseteq Chats, listed' = listed \/ n = 1,
         timer' \in [Shells -> Shells \union {"off", "null"}],
         \A k \in Shells : timer'[k] = timer[k] \/ (k \in made /\ timer'[k] = Root),
         typed' \in [Messages -> [chat : Chats, alone : BOOLEAN] \union {None}],
         \A m \in Messages : typed'[m] = typed[m] \/ Fresh(m),
         n = 1 /\ Undisturbed /\ Head(pending).shell = screen =>
           \A m : Brings(Head(pending), m) => \E c \in new : c.shell = screen /\ Brings(c, m)
  PROVE  IInv'
<1>1. SamePane /\ UNCHANGED <<screen, made, overdue, native, timeouts>>
  BY DEF SamePane
<1>2. /\ active' \in [Shells -> Chats \union {None}]
      /\ \A k \in Shells : active'[k] = active[k]
                             \/ (k \in made /\ k # screen /\ active'[k] \in Chats)
  BY DEF IInv, TypeOK
<1>3. n = 1 /\ Undisturbed =>
        \A m \in store[pane.chat] \ pane'.shown : Lost(m) =>
          \/ \E c \in new : c.shell = screen /\ Brings(c, m)
          \/ Follows(1, m)
  BY DEF Lost
<1> QED BY <1>1, <1>2, <1>3, PaneKeptKeepsIInv

(* The steps of that kind *)

LEMMA RefreshCall ==
  ASSUME TypeOK, NEW k \in Shells, active[k] # None, NEW then \in Thens
  PROVE  LET c == Refresh(k, then) IN
         /\ c \in Calls
         /\ c.op = "messages" /\ c.shell = k /\ c.chat = active[k] /\ c.chat \in Chats
         /\ c.el = (IF OnScreen(k) THEN "pane" ELSE "gone")
         /\ c.then = then /\ c.reply = None
<1> DEFINE b == GetMessages(k, active[k], then)
<1>1. active[k] \in Chats
  BY DEF TypeOK
<1>2. /\ b \in Calls /\ b.op = "messages" /\ b.shell = k /\ b.chat = active[k] /\ b.then = then
      /\ b.reply = None
  BY <1>1, NewCall DEF GetMessages, Ops
<1>3. Refresh(k, then) = [b EXCEPT !.el = IF OnScreen(k) THEN "pane" ELSE "gone"]
  BY DEF Refresh
<1> HIDE DEF b
<1>4. Refresh(k, then) \in Calls
  BY <1>2, <1>3 DEF Calls
<1> QED BY <1>1, <1>2, <1>3, <1>4 DEF Calls

\* What the first call of the queue is when it returns.
LEMMA Returned ==
  ASSUME IInv, pending # <<>>
  PROVE  LET h == Head(pending) IN
         /\ h = pending[1] /\ 1 \in DOMAIN pending /\ h \in Calls /\ WellFormed(h)
         /\ h.shell \in Shells /\ h.shell \in made /\ h.chat \in Chats \union {None}
         /\ h.reply # None => h.reply \in Replies
         /\ timeouts = 0 /\ h.op # "sync" /\ h.reply # None => h.reply.ok
         /\ h.op = "send" => active[h.shell] # None
         /\ TypeOK /\ Mutated(h.shell) = timer
<1> DEFINE h == Head(pending)
<1>1. TypeOK /\ h = pending[1] /\ 1 \in DOMAIN pending /\ h \in Calls
  BY HeadAndTail DEF IInv, TypeOK
<1>2. h.shell \in Shells /\ h.chat \in Chats \union {None} /\ (h.reply # None => h.reply \in Replies)
  BY <1>1, CallFields
<1>3. Mutated(h.shell) = timer
  BY <1>1, <1>2, ObserversStopNone DEF IInv
<1> QED BY <1>1, <1>2, <1>3 DEF IInv, CallsWellFormed, OfRenderedShells, WithoutTimeouts, SentFromPane

LEMMA NewChatKeepsIInv ==
  ASSUME IInv, NEW k \in Shells, NEW c \in Chats, NewChat(k, c)
  PROVE  IInv'
<1> DEFINE d == Call("create", k, c, None, "idle")
<1>1. /\ d \in Calls /\ d.op = "create" /\ d.shell = k /\ d.chat = c /\ d.then = "idle" /\ d.reply = None
  BY NewCall DEF Ops, Thens
<1>2. k \in made
  BY DEF NewChat, IInv, OfRenderedShells, OnScreen
<1>3. Fits(d) /\ GoesAs(typed', d)
  BY <1>1, <1>2 DEF Fits, GoesAs, WellFormed
<1> HIDE DEF d
<1>4. Moved(0, {d})
  BY <1>1, PostMoves DEF NewChat, IInv, d
<1>5. /\ UNCHANGED <<screen, made, active, pane, overdue, native, timeouts, listed, timer, typed>>
      /\ listed \subseteq Chats /\ timer \in [Shells -> Shells \union {"off", "null"}]
      /\ typed \in [Messages -> [chat : Chats, alone : BOOLEAN] \union {None}]
  BY DEF NewChat, page, past, IInv, TypeOK
<1> QED BY <1>3, <1>4, <1>5, PaneAloneKeepsIInv

LEMMA SubmitKeepsIInv ==
  ASSUME IInv, NEW k \in Shells, NEW m \in Messages, Submit(k, m)
  PROVE  IInv'
<1> DEFINE d == Call("send", k, pane.listener, m, "idle")
<1>1. /\ TypeOK /\ OnScreen(k) /\ Fresh(m) /\ pane \in Panes /\ pane.listener \in Chats /\ pane # None
      /\ typed' = [typed EXCEPT ![m] = [chat |-> pane.chat, alone |-> pane.alone]] /\ Post(d)
      /\ UNCHANGED <<screen, made, active, pane, overdue, native, timeouts, listed, timer>>
  BY DEF Submit, page, IInv, TypeOK, Panes
<1>2. /\ d \in Calls /\ d.op = "send" /\ d.shell = k /\ d.chat = pane.listener /\ d.msg = m
      /\ d.then = "idle" /\ d.reply = None
  BY <1>1, NewCall DEF Ops, Thens
<1>3. k \in made /\ screen = k
  BY <1>1 DEF IInv, OfRenderedShells, OnScreen
<1>4. active[k] # None
  BY <1>1, <1>3, ConstantsAssumption DEF IInv, ActiveIsShown, Panes
<1>5. Fits(d)
  BY <1>1, <1>2, <1>3, <1>4 DEF Fits, WellFormed
<1>6. pane.alone => pane.listener = pane.chat
  BY <1>1, ConstantsAssumption DEF IInv, TypedIsSent
<1>7. /\ typed' \in [Messages -> [chat : Chats, alone : BOOLEAN] \union {None}]
      /\ typed'[m] = [chat |-> pane.chat, alone |-> pane.alone]
      /\ typed'[m] # None
      /\ \A n \in Messages : typed'[n] = typed[n] \/ Fresh(n)
  <2>1. [chat |-> pane.chat, alone |-> pane.alone] \in [chat : Chats, alone : BOOLEAN]
    BY <1>1 DEF Panes
  <2> DEFINE t == [chat |-> pane.chat, alone |-> pane.alone]
  <2>2. t # None
    BY <2>1, ConstantsAssumption
  <2> HIDE DEF t
  <2> QED BY <1>1, <2>1, <2>2 DEF TypeOK, t
<1>8. GoesAs(typed', d)
  BY <1>2, <1>6, <1>7 DEF GoesAs
<1> HIDE DEF d
<1>9. Moved(0, {d})
  BY <1>1, <1>2, PostMoves
<1>10. listed \subseteq Chats /\ timer \in [Shells -> Shells \union {"off", "null"}]
  BY <1>1 DEF TypeOK
<1>11. /\ UNCHANGED <<screen, made, active, pane, overdue, native, timeouts, listed, timer>>
       /\ \A c \in {d} : Fits(c) /\ GoesAs(typed', c)
       /\ typed' \in [Messages -> [chat : Chats, alone : BOOLEAN] \union {None}]
       /\ \A n \in Messages : typed'[n] = typed[n] \/ Fresh(n)
  BY <1>1, <1>5, <1>7, <1>8
<1> QED BY <1>9, <1>10, <1>11, PaneAloneKeepsIInv

LEMMA TimerFiresKeepsIInv ==
  ASSUME IInv, NEW k \in Shells, TimerFires(k)
  PROVE  IInv'
<1> DEFINE d == Call("sync", k, None, None, "idle")
<1>1. d \in Calls /\ d.op = "sync" /\ d.shell = k /\ d.then = "idle" /\ d.reply = None
  BY NewCall DEF Ops, Thens
<1>2. k \in made /\ timer[k] # "off"
  BY DEF TimerFires, IInv, OfRenderedShells
<1>3. Fits(d) /\ GoesAs(typed', d)
  BY <1>1, <1>2 DEF Fits, GoesAs, WellFormed
<1> HIDE DEF d
<1>4. Moved(0, {d})
  BY <1>1, PostMoves DEF TimerFires, IInv, d
<1>5. /\ UNCHANGED <<screen, made, active, pane, overdue, native, timeouts, listed, timer, typed>>
      /\ listed \subseteq Chats /\ timer \in [Shells -> Shells \union {"off", "null"}]
      /\ typed \in [Messages -> [chat : Chats, alone : BOOLEAN] \union {None}]
  BY DEF TimerFires, page, past, IInv, TypeOK
<1> QED BY <1>3, <1>4, <1>5, PaneAloneKeepsIInv

LEMMA SentKeepsIInv ==
  ASSUME IInv, Sent
  PROVE  IInv'
<1> DEFINE h == Head(pending)
           d == Refresh(h.shell, "list")
<1>1. /\ pending # <<>> /\ h.op = "send" /\ h.reply # None
      /\ IF h.reply.ok THEN ReturnAndPost(d) ELSE Return
      /\ UNCHANGED <<screen, made, active, pane, overdue, native, timeouts, listed, timer, typed>>
  BY DEF Sent, Returns, page, past
<1>2. /\ h.shell \in Shells /\ h.shell \in made /\ active[h.shell] # None /\ TypeOK
      /\ timeouts = 0 => h.reply.ok
  BY <1>1, Returned
<1>3. /\ listed \subseteq Chats /\ timer \in [Shells -> Shells \union {"off", "null"}]
      /\ typed \in [Messages -> [chat : Chats, alone : BOOLEAN] \union {None}]
  BY <1>2 DEF TypeOK
<1>4. CASE h.reply.ok
  <2>1. /\ d \in Calls /\ d.op = "messages" /\ d.shell = h.shell /\ d.chat = active[h.shell]
        /\ d.el = (IF OnScreen(h.shell) THEN "pane" ELSE "gone") /\ d.chat \in Chats
        /\ d.then = "list" /\ d.reply = None
    BY <1>2, RefreshCall DEF Thens
  <2>2. OnScreen(h.shell) => pane # None /\ active[h.shell] = pane.chat
    BY <1>2 DEF IInv, ActiveIsShown, OnScreen
  <2>3. Fits(d) /\ GoesAs(typed', d)
    BY <1>2, <2>1, <2>2 DEF Fits, GoesAs, WellFormed
  <2>4. h.shell = screen => \A m : Brings(d, m)
    BY <2>1 DEF Brings, OnScreen
  <2> HIDE DEF d
  <2>5. Moved(1, {d})
    BY <1>1, <1>2, <1>4, <2>1, ReturnAndPostMoves
  <2> QED BY <1>1, <1>3, <2>1, <2>3, <2>4, <2>5, PaneAloneKeepsIInv
<1>5. CASE ~h.reply.ok
  <2>1. Moved(1, {})
    BY <1>1, <1>2, <1>5, ReturnMoves
  <2>2. ~Undisturbed
    BY <1>2, <1>5 DEF Undisturbed
  <2> QED BY <1>1, <1>3, <2>1, <2>2, PaneAloneKeepsIInv
<1> QED BY <1>4, <1>5

LEMMA SyncedKeepsIInv ==
  ASSUME IInv, Synced
  PROVE  IInv'
<1> DEFINE h == Head(pending)
           d == ListChats(h.shell, None, AfterSync)
<1>1. /\ pending # <<>> /\ h.op = "sync" /\ h.reply # None
      /\ IF h.reply.ok /\ h.reply.data # {} THEN ReturnAndPost(d) ELSE Return
      /\ UNCHANGED <<screen, made, active, pane, overdue, native, timeouts, listed, timer, typed>>
  BY DEF Synced, Returns, page, past
<1>2. /\ h.shell \in Shells /\ h.shell \in made /\ TypeOK
      /\ ~h.reply.ok => h.reply.data = {}
  BY <1>1, Returned DEF WellFormed
<1>3. /\ listed \subseteq Chats /\ timer \in [Shells -> Shells \union {"off", "null"}]
      /\ typed \in [Messages -> [chat : Chats, alone : BOOLEAN] \union {None}]
  BY <1>2 DEF TypeOK
<1>4. CASE h.reply.ok /\ h.reply.data # {}
  <2>1. /\ d \in Calls /\ d.op = "list" /\ d.shell = h.shell /\ d.then = "messages" /\ d.reply = None
    BY <1>2, NewCall DEF ListChats, AfterSync, Ops, Thens
  <2>2. Fits(d) /\ GoesAs(typed', d) /\ \A m : Brings(d, m)
    BY <1>2, <2>1 DEF Fits, GoesAs, WellFormed, Brings
  <2> HIDE DEF d
  <2>3. Moved(1, {d})
    BY <1>1, <1>2, <1>4, <2>1, ReturnAndPostMoves
  <2> QED BY <1>1, <1>3, <2>1, <2>2, <2>3, PaneAloneKeepsIInv
<1>5. CASE ~(h.reply.ok /\ h.reply.data # {})
  <2>1. Moved(1, {})
    BY <1>1, <1>2, <1>5, ReturnMoves
  <2>2. \A m : ~Brings(h, m)
    BY <1>1, <1>2, <1>5 DEF Brings
  <2> QED BY <1>1, <1>3, <2>1, <2>2, PaneAloneKeepsIInv
<1> QED BY <1>4, <1>5

LEMMA CreatedKeepsIInv ==
  ASSUME IInv, Created
  PROVE  IInv'
<1> DEFINE h == Head(pending)
           d == ListChats(h.shell, h.chat, "open")
<1>1. /\ pending # <<>> /\ h.op = "create" /\ h.reply # None
      /\ IF h.reply.ok THEN ReturnAndPost(d) ELSE Return
      /\ UNCHANGED <<screen, made, active, pane, overdue, native, timeouts, listed, timer, typed>>
  BY DEF Created, Returns, page, past
<1>2. h.shell \in Shells /\ h.shell \in made /\ h.chat \in Chats /\ TypeOK
  BY <1>1, Returned DEF WellFormed
<1>3. /\ listed \subseteq Chats /\ timer \in [Shells -> Shells \union {"off", "null"}]
      /\ typed \in [Messages -> [chat : Chats, alone : BOOLEAN] \union {None}]
  BY <1>2 DEF TypeOK
<1>4. \A m : ~Brings(h, m)
  BY <1>1 DEF Brings
<1>5. CASE h.reply.ok
  <2>1. /\ d \in Calls /\ d.op = "list" /\ d.shell = h.shell /\ d.chat = h.chat /\ d.then = "open"
        /\ d.reply = None
    BY <1>2, NewCall DEF ListChats, Ops, Thens
  <2>2. Fits(d) /\ GoesAs(typed', d)
    BY <1>2, <2>1 DEF Fits, GoesAs, WellFormed
  <2> HIDE DEF d
  <2>3. Moved(1, {d})
    BY <1>1, <1>2, <1>5, <2>1, ReturnAndPostMoves
  <2> QED BY <1>1, <1>3, <1>4, <2>2, <2>3, PaneAloneKeepsIInv
<1>6. CASE ~h.reply.ok
  BY <1>1, <1>2, <1>3, <1>4, <1>6, ReturnMoves, PaneAloneKeepsIInv
<1> QED BY <1>5, <1>6

LEMMA ListLoadedKeepsIInv ==
  ASSUME IInv, ListLoaded, Head(pending).then # "open"
  PROVE  IInv'
<1> DEFINE h == Head(pending)
           k == h.shell
           d == Refresh(k, "idle")
<1>1. /\ pending # <<>> /\ h.op = "list" /\ h.reply # None
      /\ listed' = IF ~OnScreen(k) THEN listed ELSE IF h.reply.ok THEN h.reply.data ELSE {}
      /\ \/ timer' = [Mutated(k) EXCEPT ![k] = Root]
         \/ timer' = Mutated(k)
      /\ \/ h.then # "messages" /\ Return
         \/ h.then = "messages" /\ active[k] = None /\ Return
         \/ active[k] # None /\ ReturnAndPost(d)
      /\ UNCHANGED <<screen, made, active, pane, overdue, native, timeouts, typed>>
  BY DEF ListLoaded, Returns, past
<1>2. /\ k \in Shells /\ k \in made /\ TypeOK /\ Mutated(k) = timer
      /\ h.reply.data \subseteq Chats
  BY <1>1, Returned DEF WellFormed
<1>3. listed' \subseteq Chats
  BY <1>1, <1>2 DEF TypeOK
<1>4. /\ timer' \in [Shells -> Shells \union {"off", "null"}]
      /\ \A j \in Shells : timer'[j] = timer[j] \/ (j \in made /\ timer'[j] = Root)
  <2>1. Root \in Shells \union {"off", "null"}
    BY DEF Root
  <2> QED BY <1>1, <1>2, <2>1 DEF TypeOK
<1>5. typed \in [Messages -> [chat : Chats, alone : BOOLEAN] \union {None}]
  BY <1>2 DEF TypeOK
<1>6. OnScreen(k) /\ active[k] # None => pane # None /\ active[k] = pane.chat
  BY <1>2 DEF IInv, ActiveIsShown, OnScreen
<1>7. CASE h.then # "messages" /\ Return
  <2>1. \A m : ~Brings(h, m)
    BY <1>1, <1>7 DEF Brings
  <2>2. Moved(1, {})
    BY <1>1, <1>2, <1>7, ReturnMoves
  <2> QED BY <1>1, <1>3, <1>4, <1>5, <2>1, <2>2, PaneAloneKeepsIInv
<1>8. CASE h.then = "messages" /\ active[k] = None /\ Return
  <2>1. ~(Undisturbed /\ k = screen)
    BY <1>2, <1>8, ConstantsAssumption DEF IInv, ActiveIsShown, Undisturbed, TypeOK, Panes
  <2>2. Moved(1, {})
    BY <1>1, <1>2, <1>8, ReturnMoves
  <2> QED BY <1>1, <1>3, <1>4, <1>5, <2>1, <2>2, PaneAloneKeepsIInv
<1>9. CASE active[k] # None /\ ReturnAndPost(d)
  <2>1. /\ d \in Calls /\ d.op = "messages" /\ d.shell = k /\ d.chat = active[k]
        /\ d.el = (IF OnScreen(k) THEN "pane" ELSE "gone") /\ d.chat \in Chats
        /\ d.then = "idle" /\ d.reply = None
    BY <1>2, <1>9, RefreshCall DEF Thens
  <2>2. Fits(d) /\ GoesAs(typed', d)
    BY <1>2, <1>6, <1>9, <2>1 DEF Fits, GoesAs, WellFormed
  <2>3. k = screen => \A m : Brings(d, m)
    BY <2>1 DEF Brings, OnScreen
  <2> HIDE DEF d
  <2>4. Moved(1, {d})
    BY <1>1, <1>2, <1>9, <2>1, ReturnAndPostMoves
  <2> QED BY <1>1, <1>3, <1>4, <1>5, <2>1, <2>2, <2>3, <2>4, PaneAloneKeepsIInv
<1> QED BY <1>1, <1>7, <1>8, <1>9

LEMMA MessagesLoadedKeepsIInv ==
  ASSUME IInv, MessagesLoaded
  PROVE  IInv'
<1> DEFINE h == Head(pending)
           k == h.shell
           d == ListChats(k, None, "idle")
           new == IF h.then = "list" THEN {d} ELSE {}
<1>1. /\ pending # <<>> /\ h.op = "messages" /\ h.reply # None
      /\ IF OnScreen(k)
         THEN pane' = [pane EXCEPT
                !.shown = IF ~ElementThen(h) THEN @ ELSE IF h.reply.ok THEN h.reply.data ELSE {},
                !.listener = IF h.then = "listen" /\ @ = None THEN h.chat ELSE @]
         ELSE pane' = pane
      /\ timer' = Mutated(k) \/ timer' = timer
      /\ IF h.then = "list" THEN ReturnAndPost(d) ELSE Return
      /\ UNCHANGED <<screen, made, active, listed, overdue, native, timeouts, typed>>
  BY DEF MessagesLoaded, Returns, past
<1>2. /\ k \in Shells /\ k \in made /\ TypeOK /\ Mutated(k) = timer
      /\ h = pending[1] /\ 1 \in DOMAIN pending /\ h.reply \in Replies
      /\ timeouts = 0 => h.reply.ok
  BY <1>1, Returned
<1>3. /\ h.chat \in Chats /\ h.reply.data \subseteq store[h.chat]
      /\ OnScreen(k) => pane # None
      /\ OnScreen(k) /\ h.el = "pane" => h.chat = pane.chat
  BY <1>1, <1>2 DEF IInv, RefreshIsForPane
<1>4. OnScreen(k) /\ pane.alone /\ h.then = "listen" => h.chat = pane.chat
  BY <1>2, <1>3 DEF IInv, TypedIsSent, OnScreen
<1>5. /\ d \in Calls /\ d.op = "list" /\ d.shell = k /\ d.then = "idle" /\ d.reply = None
  BY <1>2, NewCall DEF ListChats, Ops, Thens
<1>6. \A c \in new : Fits(c) /\ GoesAs(typed', c)
  BY <1>2, <1>5 DEF Fits, GoesAs, WellFormed
<1>7. Moved(1, new)
  <2> HIDE DEF d
  <2> QED BY <1>1, <1>2, <1>5, ReturnMoves, ReturnAndPostMoves
<1>8. ASSUME OnScreen(k)
      PROVE  /\ pane \in Panes /\ pane' \in Panes
             /\ pane'.chat = pane.chat /\ pane'.alone = pane.alone
             /\ ElementThen(h) => pane'.shown = IF h.reply.ok THEN h.reply.data ELSE {}
             /\ ~ElementThen(h) => pane'.shown = pane.shown
             /\ \/ pane'.listener = pane.listener
                \/ h.then = "listen" /\ pane'.listener = h.chat
  <2>1. pane \in Panes
    BY <1>2, <1>3, <1>8 DEF TypeOK
  <2>2. h.reply.data \subseteq Messages
    BY <1>2, <1>3 DEF TypeOK
  <2> DEFINE shown == IF ~ElementThen(h) THEN pane.shown ELSE IF h.reply.ok THEN h.reply.data ELSE {}
             listener == IF h.then = "listen" /\ pane.listener = None THEN h.chat ELSE pane.listener
  <2>3. /\ shown \in SUBSET Messages /\ listener \in Chats \union {None}
        /\ pane' = [pane EXCEPT !.shown = shown, !.listener = listener]
        /\ ElementThen(h) => shown = IF h.reply.ok THEN h.reply.data ELSE {}
        /\ ~ElementThen(h) => shown = pane.shown
        /\ listener = pane.listener \/ (h.then = "listen" /\ listener = h.chat)
    BY <1>1, <1>3, <1>8, <2>1, <2>2 DEF Panes
  <2> HIDE DEF shown, listener
  <2>4. pane' \in Panes /\ pane'.chat = pane.chat /\ pane'.alone = pane.alone
        /\ pane'.shown = shown /\ pane'.listener = listener
    BY <2>1, <2>3 DEF Panes
  <2> QED BY <2>1, <2>3, <2>4
<1>9. SamePane
  <2>1. CASE OnScreen(k)
    <3>1. pane'.shown \subseteq store[pane.chat]
      BY <1>3, <1>8, <2>1 DEF IInv, PaneShowsItsChat, ElementThen
    <3>2. pane.alone => pane'.listener \in {None, pane.chat}
      BY <1>3, <1>4, <1>8, <2>1 DEF IInv, TypedIsSent
    <3> QED BY <1>8, <2>1, <3>1, <3>2 DEF SamePane
  <2>2. CASE ~OnScreen(k)
    BY <1>1, <2>2 DEF SamePane
  <2> QED BY <2>1, <2>2
<1>10. ASSUME Undisturbed, NEW m \in store[pane.chat] \ pane'.shown, Lost(m)
       PROVE  Follows(1, m)
  <2>1. k = screen /\ ElementThen(h)
    BY <1>1, <1>8, <1>10 DEF Lost, Brings, OnScreen, ElementThen
  <2>2. m \notin h.reply.data
    BY <1>2, <1>8, <1>10, <2>1 DEF OnScreen, Undisturbed
  <2> QED BY <1>1, <1>2, <1>10, <2>1, <2>2 DEF IInv, NothingMissed, Refreshes, ElementThen
<1>11. /\ timer' \in [Shells -> Shells \union {"off", "null"}]
       /\ \A j \in Shells : timer'[j] = timer[j]
       /\ listed' \subseteq Chats /\ listed' = listed
       /\ typed' \in [Messages -> [chat : Chats, alone : BOOLEAN] \union {None}]
       /\ \A m \in Messages : typed'[m] = typed[m]
       /\ active' \in [Shells -> Chats \union {None}]
       /\ \A j \in Shells : active'[j] = active[j]
       /\ UNCHANGED <<screen, made, overdue, native, timeouts>>
  BY <1>1, <1>2 DEF TypeOK
<1> HIDE DEF new
<1> QED BY <1>1, <1>6, <1>7, <1>9, <1>10, <1>11, PaneKeptKeepsIInv
-----------------------------------------------------------------------------
(* Opening a pane, and leaving it *)

\* When a shell renders its pane anew, the elements that its calls hold are gone.
LEMMA DetachedCalls ==
  ASSUME NEW calls \in Seq(Calls), NEW k
  PROVE  LET q == Detached(k, calls) IN
         /\ q \in Seq(Calls) /\ Len(q) = Len(calls) /\ DOMAIN q = DOMAIN calls
         /\ \A i \in DOMAIN calls :
              /\ Alike(q[i], calls[i])
              /\ calls[i].shell = k => q[i].el = "gone"
              /\ calls[i].shell # k => q[i] = calls[i]
<1> DEFINE q == Detached(k, calls)
<1>1. ASSUME NEW c \in Calls, NEW d, d = [c EXCEPT !.el = "gone"]
      PROVE  d \in Calls /\ Alike(d, c) /\ d.el = "gone"
  BY <1>1, DetachedCall DEF Alike
<1>2. \A i \in DOMAIN calls :
        q[i] = IF calls[i].shell = k THEN [calls[i] EXCEPT !.el = "gone"] ELSE calls[i]
  BY DEF Detached
<1>3. \A i \in DOMAIN calls : calls[i] \in Calls
  OBVIOUS
<1>4. ASSUME NEW i \in DOMAIN calls
      PROVE  /\ q[i] \in Calls /\ Alike(q[i], calls[i])
             /\ calls[i].shell = k => q[i].el = "gone"
             /\ calls[i].shell # k => q[i] = calls[i]
  <2> DEFINE c == calls[i]
             e == q[i]
  <2>1. c \in Calls /\ e = IF c.shell = k THEN [c EXCEPT !.el = "gone"] ELSE c
    BY <1>2, <1>3
  <2>2. Alike(c, c)
    BY DEF Alike
  <2> HIDE DEF c, e
  <2>3. e \in Calls /\ Alike(e, c) /\ (c.shell = k => e.el = "gone") /\ (c.shell # k => e = c)
    BY <1>1, <2>1, <2>2
  <2> QED BY <2>3 DEF c, e
<1>5. q = [i \in DOMAIN calls |-> q[i]]
  BY DEF Detached
<1> HIDE DEF q
<1>6. q \in [DOMAIN calls -> Calls]
  BY <1>4, <1>5
<1>7. q \in Seq(Calls) /\ Len(q) = Len(calls) /\ DOMAIN q = DOMAIN calls
  BY <1>6, Mapped
<1> QED BY <1>4, <1>7 DEF q

\* What the page does to its pane when a chat is opened on the screen.
PaneOpened(n, k, c, d) ==
  /\ active' = [active EXCEPT ![k] = c]
  /\ pane' = [chat |-> c, alone |-> ~Opening(k), listener |-> NewForm, shown |-> {}]
  /\ Shifted(n, {d})
  /\ \A i \in DOMAIN pending' :
       i + n \in DOMAIN pending /\ pending'[i].shell = k => pending'[i].el = "gone"
  /\ \E i \in DOMAIN pending' : i + n > Len(pending) /\ pending'[i] = d

LEMMA NewPane ==
  ASSUME NEW c \in Chats, NEW b \in BOOLEAN, NEW p,
         p = [chat |-> c, alone |-> b, listener |-> NewForm, shown |-> {}]
  PROVE  p \in Panes /\ p # None /\ p.chat = c /\ p.listener = None /\ p.shown = {}
<1>1. p \in Panes /\ p.chat = c /\ p.listener = None /\ p.shown = {}
  BY DEF Panes, NewForm
<1> QED BY <1>1, ConstantsAssumption

LEMMA PaneOpenedKeepsIInv ==
  ASSUME IInv, NEW n \in {0, 1}, NEW k \in Shells, NEW c \in Chats, NEW d, OnScreen(k),
         d = GetMessages(k, c, "listen"), PaneOpened(n, k, c, d),
         UNCHANGED <<screen, made, timer, overdue, native, typed, timeouts>>,
         listed' \subseteq Chats,
         timeouts = 0 => overdue = <<>>
  PROVE  IInv'
<1>1. /\ TypeOK /\ PaneShowsItsChat /\ RefreshIsForPane /\ ActiveIsShown /\ SentFromPane
      /\ CallsWellFormed /\ OfRenderedShells /\ AnsweredFirst
      /\ TypedIsSent /\ ReachesShownChat /\ WithoutTimeouts
  BY DEF IInv
<1>2. /\ d \in Calls /\ d.op = "messages" /\ d.shell = k /\ d.chat = c /\ d.el = "pane"
      /\ d.then = "listen" /\ d.reply = None
  BY NewCall DEF GetMessages, Ops, Thens
<1>3. screen = k /\ k \in made
  BY <1>1 DEF OnScreen, OfRenderedShells
<1>4. /\ pane' \in Panes /\ pane' # None /\ pane'.chat = c /\ pane'.listener = None
      /\ pane'.shown = {}
  <2> DEFINE b == ~Opening(k)
  <2>1. b \in BOOLEAN
    BY DEF Opening
  <2>2. pane' = [chat |-> c, alone |-> b, listener |-> NewForm, shown |-> {}]
    BY DEF PaneOpened
  <2> HIDE DEF b
  <2> QED BY <2>1, <2>2, NewPane
<1>5. pane'.alone = ~Opening(k)
  BY DEF PaneOpened
<1>6. /\ active' \in [Shells -> Chats \union {None}] /\ active'[k] = c /\ c # None
      /\ \A j \in Shells : active'[j] = active[j] \/ j = k
  BY <1>1, ConstantsAssumption DEF PaneOpened, TypeOK
<1>7. /\ Shifted(n, {d})
      /\ \A i \in DOMAIN pending' :
           /\ i \in Nat \ {0}
           /\ \/ i + n \in DOMAIN pending /\ Alike(pending'[i], pending[i + n])
                 /\ (pending'[i].shell = k => pending'[i].el = "gone")
              \/ i + n > Len(pending) /\ pending'[i] = d
      /\ \E i \in DOMAIN pending' : i + n > Len(pending) /\ pending'[i] = d
      /\ \A i \in DOMAIN pending : pending[i] \in Calls /\ i \in Nat \ {0} /\ i <= Len(pending)
      /\ Len(pending) \in Nat
  BY <1>1, Types DEF PaneOpened, Shifted
<1>8. TypeOK'
  <2>1. pending' \in Seq(Calls)
    BY <1>7 DEF Shifted
  <2> QED BY <1>1, <1>4, <1>6, <2>1 DEF TypeOK, native
<1>9. PaneShowsItsChat' /\ ActiveIsShown'
  BY <1>3, <1>4, <1>6 DEF PaneShowsItsChat, ActiveIsShown
<1>10. RefreshIsForPane'
  <2> SUFFICES ASSUME NEW i \in DOMAIN pending', pending'[i].op = "messages"
               PROVE  /\ pending'[i].chat \in Chats
                      /\ pending'[i].reply # None => pending'[i].reply.data \subseteq store[pending'[i].chat]
                      /\ screen = pending'[i].shell /\ pending'[i].el = "pane" => pending'[i].chat = c
    BY <1>4 DEF RefreshIsForPane, OnScreen, native
  <2>1. CASE i + n \in DOMAIN pending /\ Alike(pending'[i], pending[i + n])
             /\ (pending'[i].shell = k => pending'[i].el = "gone")
    BY <1>1, <1>3, <2>1 DEF RefreshIsForPane, Alike
  <2>2. CASE pending'[i] = d
    BY <1>2, <2>2
  <2> QED BY <1>7, <2>1, <2>2
<1>11. SentFromPane'
  <2> SUFFICES ASSUME NEW i \in DOMAIN pending', pending'[i].op = "send"
               PROVE  active'[pending'[i].shell] # None
    BY DEF SentFromPane
  <2>1. i + n \in DOMAIN pending /\ Alike(pending'[i], pending[i + n])
    BY <1>2, <1>7
  <2>2. pending[i + n].shell \in Shells
    BY <1>7, <2>1, CallFields
  <2> QED BY <1>1, <1>6, <2>1, <2>2 DEF SentFromPane, Alike
<1>12. WellFormed(d) /\ d.shell \in made
  BY <1>2, <1>3 DEF WellFormed
<1>13. CallsWellFormed' /\ AnsweredFirst'
  BY <1>1, <1>2, <1>7, <1>12, CallsStayWellFormed, AnsweredFirstStays
<1>14. OfRenderedShells'
  <2>1. \A i \in DOMAIN pending' : pending'[i].shell \in made'
    BY <1>1, <1>7, <1>12, CallersStayRendered
  <2> QED BY <1>1, <1>3, <1>6, <2>1 DEF OfRenderedShells, Root
<1>15. TypedIsSent'
  <2>1. \A i \in DOMAIN pending' : GoesWhereTyped(pending'[i])
    BY <1>1, <1>2, <1>7 DEF TypedIsSent, GoesWhereTyped, Alike
  <2>2. ASSUME pane'.alone
        PROVE  \A i \in DOMAIN pending' :
                 pending'[i].shell = screen /\ pending'[i].then = "listen" => pending'[i].chat = c
    <3>1. ~Opening(k)
      BY <1>5, <2>2, Zenon
    <3> QED BY <1>2, <1>3, <1>7, <3>1 DEF Opening, Alike
  <2> QED BY <1>1, <1>4, <2>1, <2>2 DEF TypedIsSent, GoesWhereTyped, native
<1>16. ReachesShownChat'
  BY <1>1 DEF ReachesShownChat, native
<1>17. WithoutTimeouts'
  <2>1. timeouts = 0 =>
          \A i \in DOMAIN pending' :
            pending'[i].op # "sync" /\ pending'[i].reply # None => pending'[i].reply.ok
    BY <1>1, <1>2, <1>7 DEF WithoutTimeouts, Alike
  <2> QED BY <2>1 DEF WithoutTimeouts
<1>18. PICK last \in DOMAIN pending' : last + n > Len(pending) /\ pending'[last] = d
  BY <1>7
<1>19. NothingMissed'
  <2> SUFFICES ASSUME NEW i \in DOMAIN pending'
               PROVE  /\ pending'[i].op \in {"send", "sync"} =>
                           \E j \in DOMAIN pending' : i < j /\ Refreshes(pending'[j])
                      /\ ~(Refreshes(pending'[i]) /\ pending'[i].reply # None)
    BY DEF NothingMissed, Refreshes, Follows, Brings
  <2>1. CASE i + n \in DOMAIN pending /\ Alike(pending'[i], pending[i + n])
             /\ (pending'[i].shell = k => pending'[i].el = "gone")
    <3>1. i < last
      BY <1>7, <1>18, <2>1
    <3> QED BY <1>2, <1>3, <1>18, <2>1, <3>1 DEF Refreshes
  <2>2. CASE pending'[i] = d
    BY <1>2, <2>2
  <2> QED BY <1>7, <2>1, <2>2
<1>20. MissingIsComing'
  BY <1>2, <1>3, <1>18 DEF MissingIsComing, Brings
<1> QED BY <1>8, <1>9, <1>10, <1>11, <1>13, <1>14, <1>15, <1>16, <1>17, <1>19, <1>20 DEF IInv

LEMMA OpenPaneOpens ==
  ASSUME TypeOK, NEW n \in {0, 1}, NEW k \in Shells, NEW c \in Chats, NEW calls \in Seq(Calls),
         \A i \in DOMAIN calls : i + n \in DOMAIN pending /\ calls[i] = pending[i + n],
         Len(calls) + n = Len(pending),
         OnScreen(k), OpenPane(k, c, calls)
  PROVE  PaneOpened(n, k, c, GetMessages(k, c, "listen"))
<1> DEFINE q == Detached(k, calls)
           d == GetMessages(k, c, "listen")
<1>1. d \in Calls
  BY NewCall DEF GetMessages, Ops, Thens
<1>2. /\ active' = [active EXCEPT ![k] = c]
      /\ pane' = [chat |-> c, alone |-> ~Opening(k), listener |-> NewForm, shown |-> {}]
      /\ pending' = Append(q, d)
  BY DEF OpenPane
<1>3. /\ q \in Seq(Calls) /\ Len(q) = Len(calls) /\ DOMAIN q = DOMAIN calls
      /\ \A i \in DOMAIN calls :
           /\ Alike(q[i], calls[i])
           /\ calls[i].shell = k => q[i].el = "gone"
           /\ calls[i].shell # k => q[i] = calls[i]
  BY DetachedCalls
<1> HIDE DEF q, d
<1>4. /\ pending' \in Seq(Calls)
      /\ \A i \in DOMAIN pending' : i \in Nat \ {0}
      /\ \A i \in DOMAIN pending' :
           (i \in DOMAIN q /\ pending'[i] = q[i]) \/ (i = Len(q) + 1 /\ pending'[i] = d)
      /\ Len(q) + 1 \in DOMAIN pending' /\ pending'[Len(q) + 1] = d
      /\ Len(q) + 1 \in Nat \ {0}
  BY <1>1, <1>2, <1>3, Appended, Indices
<1>5. Len(q) + 1 + n > Len(pending) /\ \A i \in DOMAIN pending : i <= Len(pending)
  BY <1>3, <1>4, Types
<1>6. ASSUME NEW i \in DOMAIN pending'
      PROVE  \/ i + n \in DOMAIN pending /\ Alike(pending'[i], pending[i + n])
                /\ (pending'[i].shell = k => pending'[i].el = "gone")
             \/ i = Len(q) + 1 /\ pending'[i] = d
  BY <1>3, <1>4 DEF Alike
<1>7. Shifted(n, {d})
  BY <1>4, <1>5, <1>6 DEF Shifted
<1>8. \A i \in DOMAIN pending' :
        i + n \in DOMAIN pending /\ pending'[i].shell = k => pending'[i].el = "gone"
  <2> SUFFICES ASSUME NEW i \in DOMAIN pending', i + n \in DOMAIN pending, pending'[i].shell = k
               PROVE  pending'[i].el = "gone"
    OBVIOUS
  <2>1. i # Len(q) + 1
    BY <1>5, Types
  <2> QED BY <1>6, <2>1
<1> QED BY <1>2, <1>4, <1>5, <1>7, <1>8 DEF PaneOpened, d

LEMMA OpenChatKeepsIInv ==
  ASSUME IInv, NEW k \in Shells, NEW c \in Chats, OpenChat(k, c)
  PROVE  IInv'
<1>1. /\ TypeOK /\ OnScreen(k) /\ c \in listed /\ OpenPane(k, c, pending)
      /\ UNCHANGED <<screen, made, listed, overdue, native, typed, timeouts>>
  BY DEF OpenChat, past, IInv
<1>2. timer' = timer
  BY <1>1, ObserversStopNone DEF IInv, OpenPane
<1>3. pending \in Seq(Calls) /\ Len(pending) \in Nat /\ \A i \in DOMAIN pending : i + 0 = i
  BY <1>1, Types
<1>4. PaneOpened(0, k, c, GetMessages(k, c, "listen"))
  BY <1>1, <1>3, OpenPaneOpens
<1>5. listed' \subseteq Chats /\ (timeouts = 0 => overdue = <<>>)
  BY <1>1 DEF IInv, TypeOK, WithoutTimeouts
<1> QED BY <1>1, <1>2, <1>4, <1>5, PaneOpenedKeepsIInv

LEMMA ChatCreatedOpensKeepsIInv ==
  ASSUME IInv, ListLoaded, Head(pending).then = "open"
  PROVE  IInv'
<1> DEFINE h == Head(pending)
           k == h.shell
           c == h.chat
           b == GetMessages(k, c, "listen")
           d == [b EXCEPT !.el = "gone"]
<1>1. /\ pending # <<>> /\ h.op = "list" /\ h.reply # None
      /\ listed' = IF ~OnScreen(k) THEN listed ELSE IF h.reply.ok THEN h.reply.data ELSE {}
      /\ OpenPane(k, c, Tail(pending))
      /\ UNCHANGED <<screen, made, overdue, native, typed, timeouts>>
  BY DEF ListLoaded, Returns, past
<1>2. /\ k \in Shells /\ k \in made /\ c \in Chats /\ TypeOK /\ Mutated(k) = timer
      /\ h.reply.data \subseteq Chats /\ h = pending[1] /\ 1 \in DOMAIN pending
  BY <1>1, Returned DEF WellFormed
<1>3. listed' \subseteq Chats
  BY <1>1, <1>2 DEF TypeOK
<1>4. timer' = timer
  BY <1>1, <1>2 DEF OpenPane
<1>5. CASE OnScreen(k)
  <2>1. /\ Tail(pending) \in Seq(Calls) /\ Len(Tail(pending)) + 1 = Len(pending)
        /\ \A i \in DOMAIN Tail(pending) : i + 1 \in DOMAIN pending /\ Tail(pending)[i] = pending[i + 1]
    BY <1>1, <1>2, HeadAndTail DEF TypeOK
  <2>2. PaneOpened(1, k, c, b)
    BY <1>1, <1>2, <1>5, <2>1, OpenPaneOpens
  <2>3. timeouts = 0 => overdue = <<>>
    BY <1>1, <1>2 DEF IInv, WithoutTimeouts
  <2> HIDE DEF h
  <2> QED BY <1>1, <1>2, <1>3, <1>4, <1>5, <2>2, <2>3, PaneOpenedKeepsIInv
<1>6. CASE ~OnScreen(k)
  <2>1. /\ active' = [active EXCEPT ![k] = c]
        /\ pending' = Append(Tail(pending), d) /\ pane' = pane
    BY <1>1, <1>6 DEF OpenPane
  <2>2. b \in Calls /\ b.op = "messages" /\ b.shell = k /\ b.chat = c /\ b.reply = None
    BY <1>2, NewCall DEF GetMessages, Ops, Thens
  <2> HIDE DEF b
  <2>3. d \in Calls /\ d.op = "messages" /\ d.shell = k /\ d.chat = c /\ d.reply = None
    BY <2>2, DetachedCall
  <2>4. Fits(d) /\ GoesAs(typed', d)
    BY <1>2, <1>6, <2>3 DEF Fits, GoesAs, WellFormed, OnScreen
  <2> HIDE DEF d
  <2>5. Moved(1, {d})
    BY <1>1, <1>2, <2>1, <2>3, ReturnAndPostMoves DEF ReturnAndPost
  <2>6. /\ active' \in [Shells -> Chats \union {None}]
        /\ \A j \in Shells : active'[j] = active[j] \/ (j \in made /\ j # screen /\ active'[j] \in Chats)
    BY <1>2, <1>6, <2>1 DEF TypeOK, OnScreen
  <2>7. SamePane /\ \A m \in store[pane.chat] \ pane'.shown : ~Lost(m)
    BY <1>6, <2>1 DEF SamePane, Lost, OnScreen
  <2>8. /\ timer' \in [Shells -> Shells \union {"off", "null"}]
        /\ \A j \in Shells : timer'[j] = timer[j]
        /\ typed' \in [Messages -> [chat : Chats, alone : BOOLEAN] \union {None}]
        /\ \A m \in Messages : typed'[m] = typed[m]
    BY <1>1, <1>2, <1>4 DEF TypeOK
  <2> HIDE DEF h
  <2> QED BY <1>1, <1>3, <2>4, <2>5, <2>6, <2>7, <2>8, PaneKeptKeepsIInv DEF h
<1> QED BY <1>5, <1>6

\* A shell starts on an empty screen: nothing that is under way is its own.
LEMMA RenderChatShellKeepsIInv ==
  ASSUME IInv, NEW k \in Shells, RenderChatShell(k)
  PROVE  IInv'
<1> DEFINE d == ListChats(k, None, "start")
           q == Detached(screen, pending)
<1>1. /\ TypeOK /\ PaneShowsItsChat /\ RefreshIsForPane /\ ActiveIsShown /\ SentFromPane
      /\ CallsWellFormed /\ OfRenderedShells /\ AnsweredFirst
      /\ TypedIsSent /\ ReachesShownChat /\ WithoutTimeouts
  BY DEF IInv
<1>2. /\ k \notin made /\ made' = made \union {k} /\ screen' = k
      /\ timer' = TimersAfter(k) /\ pending' = Append(q, d)
      /\ listed' = {} /\ pane' = None
      /\ UNCHANGED <<active, overdue, native, typed, timeouts>>
  BY DEF RenderChatShell, past
<1>3. /\ d \in Calls /\ d.op = "list" /\ d.shell = k /\ d.then = "start" /\ d.reply = None
  BY NewCall DEF ListChats, Ops, Thens
<1>4. /\ q \in Seq(Calls) /\ Len(q) = Len(pending) /\ DOMAIN q = DOMAIN pending
      /\ \A i \in DOMAIN pending : Alike(q[i], pending[i]) /\ pending[i] \in Calls
  BY <1>1, DetachedCalls, Types
<1> HIDE DEF d, q
<1>5. /\ pending' \in Seq(Calls)
      /\ \A i \in DOMAIN pending' : i \in Nat \ {0}
      /\ \A i \in DOMAIN pending' :
           (i \in DOMAIN q /\ pending'[i] = q[i]) \/ (i = Len(q) + 1 /\ pending'[i] = d)
  BY <1>2, <1>3, <1>4, Appended, Indices
<1>6. ASSUME NEW i \in DOMAIN pending'
      PROVE  (i \in DOMAIN pending /\ Alike(pending'[i], pending[i])) \/ pending'[i] = d
  BY <1>4, <1>5
<1>7. Shifted(0, {d})
  BY <1>1, <1>4, <1>5, Types DEF Shifted
<1>8. \A i \in DOMAIN pending : pending[i].shell # k
  BY <1>1, <1>2 DEF OfRenderedShells
<1>9. active[k] = None
  BY <1>1, <1>2 DEF OfRenderedShells
<1>10. timer' = [j \in Shells |-> "off"]
  <2>1. \A j \in Shells : timer[j] = "off" \/ timer[j] # k
    BY <1>1, <1>2, ConstantsAssumption DEF OfRenderedShells, Root
  <2> QED BY <1>2, <2>1 DEF TimersAfter
<1>11. TypeOK'
  BY <1>1, <1>2, <1>5, <1>10 DEF TypeOK, native
<1>12. PaneShowsItsChat' /\ ActiveIsShown' /\ ReachesShownChat'
  BY <1>1, <1>2, <1>9 DEF PaneShowsItsChat, ActiveIsShown, ReachesShownChat, native
<1>13. TypedIsSent'
  <2>1. \A i \in DOMAIN pending' : GoesWhereTyped(pending'[i])
    BY <1>1, <1>3, <1>6 DEF TypedIsSent, GoesWhereTyped, Alike
  <2> QED BY <1>1, <1>2, <2>1 DEF TypedIsSent, GoesWhereTyped, native
<1>14. RefreshIsForPane'
  <2> SUFFICES ASSUME NEW i \in DOMAIN pending', pending'[i].op = "messages"
               PROVE  /\ pending'[i].chat \in Chats
                      /\ pending'[i].reply # None => pending'[i].reply.data \subseteq store[pending'[i].chat]
                      /\ pending'[i].shell # k
    BY <1>2 DEF RefreshIsForPane, OnScreen, native
  <2> QED BY <1>1, <1>3, <1>6, <1>8 DEF RefreshIsForPane, Alike
<1>15. SentFromPane'
  BY <1>1, <1>2, <1>3, <1>6 DEF SentFromPane, Alike
<1>16. CallsWellFormed' /\ AnsweredFirst'
  <2>1. WellFormed(d)
    BY <1>3 DEF WellFormed
  <2> QED BY <1>1, <1>2, <1>3, <1>7, <2>1, CallsStayWellFormed, AnsweredFirstStays
<1>17. OfRenderedShells'
  <2>1. \A i \in DOMAIN pending' : pending'[i].shell \in made'
    BY <1>1, <1>2, <1>3, <1>7, CallersStayRendered
  <2> QED BY <1>1, <1>2, <1>10, <2>1 DEF OfRenderedShells
<1>18. WithoutTimeouts'
  BY <1>1, <1>2, <1>3, <1>6 DEF WithoutTimeouts, Alike
<1>19. NothingMissed' /\ MissingIsComing'
  BY <1>2 DEF NothingMissed, MissingIsComing, Undisturbed
<1> QED BY <1>11, <1>12, <1>13, <1>14, <1>15, <1>16, <1>17, <1>18, <1>19 DEF IInv

LEMMA RenderSettingsKeepsIInv ==
  ASSUME IInv, NEW k \in Shells, RenderSettings(k)
  PROVE  IInv'
<1>1. /\ TypeOK /\ PaneShowsItsChat /\ RefreshIsForPane /\ ActiveIsShown /\ SentFromPane
      /\ CallsWellFormed /\ OfRenderedShells /\ AnsweredFirst
      /\ TypedIsSent /\ ReachesShownChat /\ WithoutTimeouts
  BY DEF IInv
<1>2. /\ screen = k /\ screen' = "settings" /\ timer' = TimersAfter("settings")
      /\ listed' = {} /\ pane' = None
      /\ pending' = Detached(k, pending)
      /\ UNCHANGED <<made, active, overdue, native, typed, timeouts>>
  BY DEF RenderSettings, OnScreen, past
<1>3. /\ pending' \in Seq(Calls) /\ DOMAIN pending' = DOMAIN pending
      /\ \A i \in DOMAIN pending : Alike(pending'[i], pending[i]) /\ pending[i] \in Calls
  BY <1>1, <1>2, DetachedCalls, Types
<1>4. Shifted(0, {})
  BY <1>1, <1>3, Types DEF Shifted
<1>5. timer' = [j \in Shells |-> "off"]
  BY <1>1, <1>2, ConstantsAssumption DEF TimersAfter, TypeOK
<1>6. screen' \notin Shells
  BY <1>2, ConstantsAssumption
<1>7. TypeOK'
  BY <1>1, <1>2, <1>3, <1>5 DEF TypeOK, native
<1>8. PaneShowsItsChat' /\ ActiveIsShown' /\ ReachesShownChat'
  BY <1>1, <1>2, <1>6 DEF PaneShowsItsChat, ActiveIsShown, ReachesShownChat, native
<1>9. TypedIsSent'
  <2>1. \A i \in DOMAIN pending' : GoesWhereTyped(pending'[i])
    BY <1>1, <1>3 DEF TypedIsSent, GoesWhereTyped, Alike
  <2> QED BY <1>1, <1>2, <2>1 DEF TypedIsSent, GoesWhereTyped, native
<1>10. RefreshIsForPane'
  <2> SUFFICES ASSUME NEW i \in DOMAIN pending', pending'[i].op = "messages"
               PROVE  /\ pending'[i].chat \in Chats
                      /\ pending'[i].reply # None => pending'[i].reply.data \subseteq store[pending'[i].chat]
                      /\ pending'[i].shell # screen'
    BY DEF RefreshIsForPane, OnScreen, native, RenderSettings
  <2> QED BY <1>1, <1>3, <1>6, CallFields DEF RefreshIsForPane, Alike
<1>11. SentFromPane'
  BY <1>1, <1>2, <1>3 DEF SentFromPane, Alike
<1>12. CallsWellFormed' /\ AnsweredFirst'
  BY <1>1, <1>2, <1>4, CallsStayWellFormed, AnsweredFirstStays
<1>13. OfRenderedShells'
  <2>1. \A i \in DOMAIN pending' : pending'[i].shell \in made'
    BY <1>1, <1>2, <1>4, CallersStayRendered
  <2> QED BY <1>1, <1>2, <1>5, <1>6, <2>1 DEF OfRenderedShells
<1>14. WithoutTimeouts'
  BY <1>1, <1>2, <1>3 DEF WithoutTimeouts, Alike
<1>15. NothingMissed' /\ MissingIsComing'
  BY <1>2 DEF NothingMissed, MissingIsComing, Undisturbed
<1> QED BY <1>7, <1>8, <1>9, <1>10, <1>11, <1>12, <1>13, <1>14, <1>15 DEF IInv

\* The calls that the reload leaves behind are overdue.
LEMMA SubmitReloadsKeepsIInv ==
  ASSUME IInv, NEW k \in Shells, SubmitReloads(k)
  PROVE  IInv'
<1>1. /\ TypeOK /\ PaneShowsItsChat /\ CallsWellFormed /\ OfRenderedShells
      /\ TypedIsSent /\ ReachesShownChat
  BY DEF IInv
<1>2. /\ screen' = "login" /\ pending' = <<>> /\ pane' = None /\ listed' = {}
      /\ timer' = [j \in Shells |-> "off"] /\ active' = [j \in Shells |-> None]
      /\ overdue' = overdue \o NotReplied
      /\ UNCHANGED <<made, native, typed, timeouts>>
  BY DEF SubmitReloads, past
<1>3. screen' \notin Shells
  BY <1>2, ConstantsAssumption
<1>4. NotReplied \in Seq(Calls) /\ \A i \in DOMAIN NotReplied : \E j \in DOMAIN pending : NotReplied[i] = pending[j]
  <2>1. Replied \in SUBSET DOMAIN pending
    BY DEF Replied
  <2> QED BY <1>1, <2>1, Rest DEF NotReplied, TypeOK
<1> DEFINE rest == NotReplied
<1> HIDE DEF rest
<1>5. /\ overdue' \in Seq(Calls)
      /\ \A i \in DOMAIN overdue' :
           \/ i \in DOMAIN overdue /\ overdue'[i] = overdue[i]
           \/ \E j \in DOMAIN pending : overdue'[i] = pending[j]
  <2>1. rest \in Seq(Calls) /\ overdue' = overdue \o rest
    BY <1>2, <1>4 DEF rest
  <2>2. \A i \in DOMAIN rest : \E j \in DOMAIN pending : rest[i] = pending[j]
    BY <1>4 DEF rest
  <2>3. overdue \in Seq(Calls)
    BY <1>1 DEF TypeOK
  <2> QED BY <2>1, <2>2, <2>3, Joined
<1>6. TypeOK'
  BY <1>1, <1>2, <1>5 DEF TypeOK, native
<1>7. PaneShowsItsChat' /\ ActiveIsShown' /\ ReachesShownChat'
  BY <1>1, <1>2, <1>3 DEF PaneShowsItsChat, ActiveIsShown, ReachesShownChat, native
<1>8. RefreshIsForPane' /\ SentFromPane' /\ AnsweredFirst'
  BY <1>2 DEF RefreshIsForPane, SentFromPane, AnsweredFirst
<1>9. CallsWellFormed'
  BY <1>1, <1>2, <1>5 DEF CallsWellFormed, WellFormed
<1>10. OfRenderedShells'
  BY <1>1, <1>2, <1>3 DEF OfRenderedShells
<1>11. TypedIsSent'
  <2>1. \A i \in DOMAIN overdue' : GoesWhereTyped(overdue'[i])
    BY <1>1, <1>5 DEF TypedIsSent
  <2> QED BY <1>1, <1>2, <2>1 DEF TypedIsSent, GoesWhereTyped, native
<1>12. WithoutTimeouts'
  BY <1>2 DEF WithoutTimeouts
<1>13. NothingMissed' /\ MissingIsComing'
  BY <1>2 DEF NothingMissed, MissingIsComing, Undisturbed
<1> QED BY <1>6, <1>7, <1>8, <1>9, <1>10, <1>11, <1>12, <1>13 DEF IInv
-----------------------------------------------------------------------------
(* The native side *)

\* A call that times out returns an error, and its handler still runs later.
LEMMA NativeTimeoutKeepsIInv ==
  ASSUME IInv, NativeTimeout
  PROVE  IInv'
<1> DEFINE r == [ok |-> FALSE, data |-> {}]
           h == Head(pending)
           d == [h EXCEPT !.reply = r]
<1>1. /\ TypeOK /\ PaneShowsItsChat /\ RefreshIsForPane /\ ActiveIsShown /\ SentFromPane
      /\ CallsWellFormed /\ OfRenderedShells /\ AnsweredFirst
      /\ TypedIsSent /\ ReachesShownChat
  BY DEF IInv
<1>2. /\ pending # <<>> /\ timeouts < MaxTimeouts /\ timeouts' = timeouts + 1
      /\ pending' = [pending EXCEPT ![1].reply = r]
      /\ overdue' = overdue \/ overdue' = Append(overdue, h)
      /\ UNCHANGED <<screen, made, timer, active, listed, pane, native, typed>>
  BY DEF NativeTimeout, page
<1>3. h = pending[1] /\ 1 \in DOMAIN pending /\ h \in Calls
  BY <1>1, <1>2, Returned DEF IInv
<1>4. r \in Replies /\ r.data = {}
  BY DEF Replies
<1>5. timeouts' \in 0..MaxTimeouts /\ timeouts' # 0
  BY <1>1, <1>2, ConstantsAssumption DEF TypeOK
<1>6. pending' = [pending EXCEPT ![1] = d]
  BY <1>2, <1>3, <1>1 DEF TypeOK
<1> HIDE DEF r
<1>7. /\ d \in Calls /\ d.op = h.op /\ d.shell = h.shell /\ d.chat = h.chat /\ d.msg = h.msg
      /\ d.el = h.el /\ d.then = h.then /\ d.reply = r /\ d.reply # None
  BY <1>3, <1>4, RepliedCall
<1> HIDE DEF h, d
<1>8. /\ pending' \in Seq(Calls) /\ DOMAIN pending' = DOMAIN pending
      /\ \A i \in DOMAIN pending : pending'[i] = IF i = 1 THEN d ELSE pending[i]
  BY <1>1, <1>3, <1>6, <1>7 DEF TypeOK
<1>9. /\ overdue' \in Seq(Calls)
      /\ \A i \in DOMAIN overdue' : (i \in DOMAIN overdue /\ overdue'[i] = overdue[i]) \/ overdue'[i] = h
  <2>1. overdue \in Seq(Calls)
    BY <1>1 DEF TypeOK
  <2>2. CASE overdue' = overdue
    BY <2>1, <2>2
  <2>3. CASE overdue' = Append(overdue, h)
    BY <1>3, <2>1, <2>3, Appended
  <2> QED BY <1>2, <2>2, <2>3
<1>10. TypeOK'
  BY <1>1, <1>2, <1>5, <1>8, <1>9 DEF TypeOK, native
<1>11. PaneShowsItsChat' /\ ActiveIsShown' /\ ReachesShownChat'
  BY <1>1, <1>2 DEF PaneShowsItsChat, ActiveIsShown, ReachesShownChat, native
<1>12. RefreshIsForPane'
  <2> SUFFICES ASSUME NEW i \in DOMAIN pending', pending'[i].op = "messages"
               PROVE  /\ pending'[i].chat \in Chats
                      /\ pending'[i].reply # None => pending'[i].reply.data \subseteq store[pending'[i].chat]
                      /\ screen = pending'[i].shell => pane # None
                      /\ screen = pending'[i].shell /\ pending'[i].el = "pane" => pending'[i].chat = pane.chat
    BY <1>2 DEF RefreshIsForPane, OnScreen, native
  <2> QED BY <1>1, <1>3, <1>4, <1>7, <1>8 DEF RefreshIsForPane, OnScreen
<1>13. SentFromPane'
  BY <1>1, <1>2, <1>3, <1>7, <1>8 DEF SentFromPane
<1>14. CallsWellFormed'
  <2>1. WellFormed(h) /\ WellFormed(d)
    BY <1>1, <1>3, <1>4, <1>7 DEF CallsWellFormed, WellFormed
  <2> QED BY <1>1, <1>8, <1>9, <2>1 DEF CallsWellFormed, WellFormed
<1>15. OfRenderedShells'
  BY <1>1, <1>2, <1>3, <1>7, <1>8 DEF OfRenderedShells, Root
<1>16. AnsweredFirst'
  <2> SUFFICES ASSUME NEW i \in DOMAIN pending, NEW j \in DOMAIN pending, i < j,
                      pending'[j].reply # None
               PROVE  pending'[i].reply # None
    BY <1>8 DEF AnsweredFirst
  <2>1. j # 1
    BY <1>1, Types
  <2> QED BY <1>1, <1>7, <1>8, <2>1 DEF AnsweredFirst
<1>17. TypedIsSent'
  <2>1. GoesWhereTyped(h) /\ GoesWhereTyped(d)
    BY <1>1, <1>3, <1>7 DEF TypedIsSent, GoesWhereTyped
  <2>2. /\ \A i \in DOMAIN pending' : GoesWhereTyped(pending'[i])
        /\ \A i \in DOMAIN overdue' : GoesWhereTyped(overdue'[i])
    BY <1>1, <1>8, <1>9, <2>1 DEF TypedIsSent
  <2>3. pane # None /\ pane.alone =>
          /\ pane.listener \in {None, pane.chat}
          /\ \A i \in DOMAIN pending' :
               pending'[i].shell = screen /\ pending'[i].then = "listen" => pending'[i].chat = pane.chat
    BY <1>1, <1>3, <1>7, <1>8 DEF TypedIsSent
  <2> QED BY <1>1, <1>2, <2>2, <2>3 DEF TypedIsSent, GoesWhereTyped, native
<1>18. WithoutTimeouts' /\ NothingMissed' /\ MissingIsComing'
  BY <1>5 DEF WithoutTimeouts, NothingMissed, MissingIsComing, Undisturbed
<1> QED BY <1>10, <1>11, <1>12, <1>13, <1>14, <1>15, <1>16, <1>17, <1>18 DEF IInv

\* What a handler does to the store, whether or not anybody waits for its reply.
LEMMA HandlerStores ==
  ASSUME IInv, NEW call \in Calls, WellFormed(call), GoesWhereTyped(call), NEW reply,
         Handle(call, reply), UNCHANGED <<pane, typed>>
  PROVE  /\ exists' \subseteq Chats
         /\ store' \in [Chats -> SUBSET Messages] /\ arriving' \in [Chats -> SUBSET Messages]
         /\ \A c \in Chats : store[c] \subseteq store'[c] /\ arriving'[c] \subseteq arriving[c]
         /\ call.op \notin {"send", "sync"} => store' = store
         /\ \A c \in Chats : call.op = "sync" => store'[c] \subseteq store[c] \union arriving[c]
         /\ PaneShowsItsChat' /\ ReachesShownChat'
<1>1. /\ TypeOK /\ PaneShowsItsChat /\ ReachesShownChat /\ TypedIsSent
      /\ exists \subseteq Chats /\ store \in [Chats -> SUBSET Messages]
      /\ arriving \in [Chats -> SUBSET Messages]
  BY DEF IInv, TypeOK
<1>2. /\ exists' \subseteq Chats
      /\ store' \in [Chats -> SUBSET Messages] /\ arriving' \in [Chats -> SUBSET Messages]
      /\ \A c \in Chats : store[c] \subseteq store'[c] /\ arriving'[c] \subseteq arriving[c]
      /\ call.op \notin {"send", "sync"} => store' = store
      /\ \A c \in Chats : call.op = "sync" => store'[c] \subseteq store[c] \union arriving[c]
      /\ call.op = "send" =>
           \A c \in Chats : store'[c] = IF c = call.chat THEN store[c] \union {call.msg} ELSE store[c]
  <2>1. CASE HandleChatCall(call, reply)
    <3>1. CASE call.op = "send"
      BY <1>1, <2>1, <3>1 DEF HandleChatCall, WellFormed
    <3>2. CASE call.op = "create"
      BY <1>1, <2>1, <3>2 DEF HandleChatCall, WellFormed
    <3>3. CASE call.op \notin {"send", "create"}
      BY <1>1, <2>1, <3>3 DEF HandleChatCall
    <3> QED BY <3>1, <3>2, <3>3
  <2>2. CASE Pull(call, reply)
    <3>1. CASE UNCHANGED <<exists, store>>
      BY <1>1, <2>2, <3>1 DEF Pull
    <3>2. CASE /\ exists' = exists \union {c \in Chats : arriving[c] # {}}
               /\ store' = [c \in Chats |-> store[c] \union arriving[c]]
      BY <1>1, <2>2, <3>2 DEF Pull
    <3> QED BY <2>2, <3>1, <3>2 DEF Pull
  <2>3. CASE NoPull(call, reply)
    BY <1>1, <2>3 DEF NoPull, native
  <2> QED BY <2>1, <2>2, <2>3 DEF Handle
<1>3. PaneShowsItsChat'
  <2>1. pane # None => pane.chat \in Chats
    BY <1>1 DEF TypeOK, Panes
  <2> QED BY <1>1, <1>2, <2>1 DEF PaneShowsItsChat
<1>4. ReachesShownChat'
  <2> SUFFICES ASSUME NEW m \in Messages, NEW c \in Chats, m \in store'[c], typed[m] # None,
                      typed[m].alone
               PROVE  c = typed[m].chat
    BY DEF ReachesShownChat
  <2>1. CASE m \in store[c]
    BY <1>1, <2>1 DEF ReachesShownChat
  <2>2. CASE m \notin store[c]
    <3>1. call.op \in {"send", "sync"}
      BY <1>2, <2>2
    <3>2. call.op # "sync"
      BY <1>1, <1>2, <2>2 DEF TypedIsSent
    <3>3. call.op = "send" /\ c = call.chat /\ m = call.msg
      BY <1>2, <2>2, <3>1, <3>2
    <3> QED BY <3>3 DEF GoesWhereTyped
  <2> QED BY <2>1, <2>2
<1> QED BY <1>2, <1>3, <1>4

LEMMA HandleOverdueKeepsIInv ==
  ASSUME IInv, HandleOverdue
  PROVE  IInv'
<1> DEFINE h == Head(overdue)
<1>1. /\ TypeOK /\ RefreshIsForPane /\ ActiveIsShown /\ SentFromPane
      /\ CallsWellFormed /\ OfRenderedShells /\ AnsweredFirst
      /\ TypedIsSent /\ WithoutTimeouts
  BY DEF IInv
<1>2. /\ overdue # <<>> /\ overdue' = Tail(overdue)
      /\ \E reply \in PossibleReplies(h) : Handle(h, reply)
      /\ UNCHANGED <<screen, made, timer, active, listed, pane, pending, typed, timeouts>>
  BY DEF HandleOverdue, page, past
<1>3. /\ h = overdue[1] /\ 1 \in DOMAIN overdue /\ h \in Calls
      /\ overdue' \in Seq(Calls)
      /\ \A i \in DOMAIN overdue' : i + 1 \in DOMAIN overdue /\ overdue'[i] = overdue[i + 1]
  BY <1>1, <1>2, HeadAndTail DEF TypeOK
<1>4. WellFormed(h) /\ GoesWhereTyped(h)
  BY <1>1, <1>3 DEF CallsWellFormed, TypedIsSent
<1> HIDE DEF h
<1>5. /\ exists' \subseteq Chats
      /\ store' \in [Chats -> SUBSET Messages] /\ arriving' \in [Chats -> SUBSET Messages]
      /\ \A c \in Chats : store[c] \subseteq store'[c] /\ arriving'[c] \subseteq arriving[c]
      /\ PaneShowsItsChat' /\ ReachesShownChat'
  BY <1>2, <1>3, <1>4, HandlerStores
<1>6. TypeOK'
  BY <1>1, <1>2, <1>3, <1>5 DEF TypeOK
<1>7. RefreshIsForPane'
  <2> SUFFICES ASSUME NEW i \in DOMAIN pending, pending[i].op = "messages"
               PROVE  /\ pending[i].chat \in Chats
                      /\ pending[i].reply # None => pending[i].reply.data \subseteq store'[pending[i].chat]
                      /\ screen = pending[i].shell => pane # None
                      /\ screen = pending[i].shell /\ pending[i].el = "pane" => pending[i].chat = pane.chat
    BY <1>2 DEF RefreshIsForPane, OnScreen
  <2> QED BY <1>1, <1>5 DEF RefreshIsForPane, OnScreen
<1>8. ActiveIsShown' /\ SentFromPane' /\ OfRenderedShells' /\ AnsweredFirst'
  BY <1>1, <1>2 DEF ActiveIsShown, SentFromPane, OfRenderedShells, AnsweredFirst, Root
<1>9. CallsWellFormed'
  BY <1>1, <1>2, <1>3 DEF CallsWellFormed, WellFormed
<1>10. TypedIsSent'
  BY <1>1, <1>2, <1>3, <1>5 DEF TypedIsSent, GoesWhereTyped
<1>11. WithoutTimeouts' /\ ~Undisturbed'
  BY <1>1, <1>2 DEF WithoutTimeouts, Undisturbed
<1> QED BY <1>5, <1>6, <1>7, <1>8, <1>9, <1>10, <1>11 DEF IInv, NothingMissed, MissingIsComing

\* A call that is about to bring a message into the pane still is when the
\* handler has answered it, and what a handler adds to the open chat comes too.
LEMMA HandlePendingKeepsIInv ==
  ASSUME IInv, HandlePending
  PROVE  IInv'
<1>1. /\ TypeOK /\ RefreshIsForPane /\ ActiveIsShown /\ SentFromPane
      /\ CallsWellFormed /\ OfRenderedShells /\ AnsweredFirst
      /\ TypedIsSent /\ WithoutTimeouts /\ NothingMissed /\ MissingIsComing
  BY DEF IInv
<1>26. PICK i \in NextWaiting :
         \E reply \in PossibleReplies(pending[i]) : Handle(pending[i], reply) /\ AnswerWith(i, reply)
  BY DEF HandlePending
<1>2. PICK r \in PossibleReplies(pending[i]) : Handle(pending[i], r) /\ AnswerWith(i, r)
  BY <1>26
<1>3. /\ overdue = <<>>
      /\ UNCHANGED <<screen, made, timer, active, listed, pane, overdue, typed, timeouts>>
  BY DEF HandlePending, page, past
<1> DEFINE h == pending[i]
           d == [h EXCEPT !.reply = r]
<1>4. /\ i \in DOMAIN pending /\ h \in Calls /\ h.reply = None /\ WellFormed(h) /\ GoesWhereTyped(h)
      /\ \A j \in DOMAIN pending : j \in Nat \ {0} /\ pending[j] \in Calls
      /\ Handle(h, r) /\ r \in PossibleReplies(h)
      /\ i \in Waiting /\ \A j \in Waiting : i <= j
  BY <1>1, <1>2, Types DEF NextWaiting, Waiting, CallsWellFormed, TypedIsSent
<1>5. /\ \A j \in DOMAIN pending : j < i => pending[j].reply # None
      /\ \A j \in DOMAIN pending : i <= j => pending[j].reply = None
  <2>1. \A j \in DOMAIN pending : j < i => pending[j].reply # None
    BY <1>4 DEF Waiting
  <2>2. \A j \in DOMAIN pending : i <= j => pending[j].reply = None
    BY <1>1, <1>4 DEF AnsweredFirst
  <2> QED BY <2>1, <2>2
<1>6. Data(h) \subseteq Chats \union Messages
  <2>1. UNION {arriving[c] : c \in Chats} \subseteq Messages
    BY <1>1 DEF TypeOK
  <2> QED BY <1>1, <1>4, <2>1 DEF Data, TypeOK, WellFormed
<1>7. /\ r \in Replies
      /\ h.op # "sync" => r.ok /\ r.data = Data(h)
      /\ ~r.ok => r.data = {}
      /\ h.op = "sync" /\ store' # store => r.data = Data(h)
  <2>1. Good(Data(h)) \in Replies /\ Error \in Replies
    BY <1>6 DEF Good, Error, Replies
  <2>2. r \in Replies /\ (~r.ok => r.data = {})
    <3>1. r = Good(Data(h)) \/ r = Error
      BY <1>4 DEF PossibleReplies
    <3>2. Good(Data(h)).ok /\ Error.data = {}
      BY DEF Good, Error
    <3> QED BY <2>1, <3>1, <3>2
  <2>3. CASE HandleChatCall(h, r)
    <3>1. h.op # "sync" /\ r = Good(Data(h))
      BY <2>3 DEF HandleChatCall
    <3>2. r.ok /\ r.data = Data(h)
      BY <3>1 DEF Good
    <3> QED BY <2>2, <3>1, <3>2
  <2>4. CASE Pull(h, r)
    <3>1. r = Good(Data(h)) \/ store' = store
      BY <2>4 DEF Pull
    <3> QED BY <2>2, <2>4, <3>1 DEF Pull, Good
  <2>5. CASE NoPull(h, r)
    BY <2>2, <2>5 DEF NoPull, native
  <2> QED BY <1>4, <2>3, <2>4, <2>5 DEF Handle
<1>8. pending' = [pending EXCEPT ![i] = d]
  BY <1>1, <1>2, <1>4 DEF TypeOK, AnswerWith
<1>9. /\ d \in Calls /\ d.op = h.op /\ d.shell = h.shell /\ d.chat = h.chat /\ d.msg = h.msg
      /\ d.el = h.el /\ d.then = h.then /\ d.reply = r /\ d.reply # None
  BY <1>4, <1>7, RepliedCall
<1> HIDE DEF d
<1>10. /\ pending' \in Seq(Calls) /\ DOMAIN pending' = DOMAIN pending
       /\ pending'[i] = d
       /\ \A j \in DOMAIN pending : j # i => pending'[j] = pending[j]
  BY <1>1, <1>4, <1>8, <1>9 DEF TypeOK
<1> HIDE DEF h
<1>11. /\ exists' \subseteq Chats
       /\ store' \in [Chats -> SUBSET Messages] /\ arriving' \in [Chats -> SUBSET Messages]
       /\ \A c \in Chats : store[c] \subseteq store'[c] /\ arriving'[c] \subseteq arriving[c]
       /\ h.op \notin {"send", "sync"} => store' = store
       /\ \A c \in Chats : h.op = "sync" => store'[c] \subseteq store[c] \union arriving[c]
       /\ PaneShowsItsChat' /\ ReachesShownChat'
  BY <1>3, <1>4, HandlerStores
<1>12. /\ h.op = "messages" => h.chat \in Chats /\ r.data = store[h.chat]
       /\ h.op = "list" => r.data \subseteq Chats
       /\ h.op = "sync" /\ store' # store => \A c \in Chats : arriving[c] \subseteq r.data
  BY <1>1, <1>4, <1>7 DEF Data, WellFormed, TypeOK
<1>13. TypeOK'
  BY <1>1, <1>3, <1>10, <1>11 DEF TypeOK
<1>14. RefreshIsForPane'
  <2> SUFFICES ASSUME NEW j \in DOMAIN pending, pending'[j].op = "messages"
               PROVE  /\ pending'[j].chat \in Chats
                      /\ pending'[j].reply # None => pending'[j].reply.data \subseteq store'[pending'[j].chat]
                      /\ screen = pending'[j].shell => pane # None
                      /\ screen = pending'[j].shell /\ pending'[j].el = "pane" => pending'[j].chat = pane.chat
    BY <1>3, <1>10 DEF RefreshIsForPane, OnScreen
  <2>1. CASE j = i
    BY <1>1, <1>4, <1>9, <1>10, <1>11, <1>12, <2>1 DEF RefreshIsForPane, OnScreen, h
  <2>2. CASE j # i
    BY <1>1, <1>10, <1>11, <2>2 DEF RefreshIsForPane, OnScreen
  <2> QED BY <2>1, <2>2
<1>15. ActiveIsShown' /\ SentFromPane'
  BY <1>1, <1>3, <1>9, <1>10 DEF ActiveIsShown, SentFromPane, h
<1>16. OfRenderedShells'
  BY <1>1, <1>3, <1>9, <1>10 DEF OfRenderedShells, Root, h
<1>17. CallsWellFormed'
  <2>1. WellFormed(d)
    BY <1>4, <1>7, <1>9, <1>12 DEF WellFormed
  <2>2. \A j \in DOMAIN pending' : WellFormed(pending'[j])
    BY <1>1, <1>10, <2>1 DEF CallsWellFormed
  <2> QED BY <1>1, <1>3, <2>2 DEF CallsWellFormed, WellFormed
<1>18. AnsweredFirst'
  <2> SUFFICES ASSUME NEW j \in DOMAIN pending, NEW l \in DOMAIN pending, j < l,
                      pending'[l].reply # None
               PROVE  pending'[j].reply # None
    BY <1>10 DEF AnsweredFirst
  <2>1. l <= i
    BY <1>4, <1>5, <1>10
  <2>2. j < i
    BY <1>4, <2>1
  <2> QED BY <1>5, <1>10, <2>2
<1>19. TypedIsSent'
  <2>1. GoesWhereTyped(d)
    BY <1>4, <1>9 DEF GoesWhereTyped
  <2>2. \A j \in DOMAIN pending' : GoesWhereTyped(pending'[j])
    BY <1>1, <1>10, <2>1 DEF TypedIsSent
  <2>3. pane # None /\ pane.alone =>
          /\ pane.listener \in {None, pane.chat}
          /\ \A j \in DOMAIN pending' :
               pending'[j].shell = screen /\ pending'[j].then = "listen" => pending'[j].chat = pane.chat
    BY <1>1, <1>9, <1>10 DEF TypedIsSent, h
  <2>4. \A m \in Messages : typed[m] # None => \A c \in Chats : m \notin arriving'[c]
    BY <1>1, <1>11 DEF TypedIsSent
  <2> QED BY <1>1, <1>3, <2>2, <2>3, <2>4 DEF TypedIsSent, GoesWhereTyped
<1>20. WithoutTimeouts'
  BY <1>1, <1>3, <1>7, <1>9, <1>10 DEF WithoutTimeouts
<1>21. ASSUME Undisturbed
       PROVE  pane # None /\ pane.chat \in Chats
  BY <1>1, <1>21 DEF Undisturbed, TypeOK, Panes
<1>22. ASSUME Undisturbed, NEW j \in DOMAIN pending, pending[j].shell = screen,
              NEW m \in store'[pane.chat], m \in store[pane.chat], Brings(pending[j], m)
       PROVE  pending'[j].shell = screen /\ Brings(pending'[j], m)
  <2>1. CASE j = i
    <3>1. d.shell = screen /\ h = pending[j]
      BY <1>9, <1>22, <2>1 DEF h
    <3>2. h.op = "messages" /\ h.el = "pane" => m \in r.data
      BY <1>1, <1>12, <1>22, <3>1 DEF RefreshIsForPane, OnScreen
    <3>3. Brings(d, m)
      BY <1>4, <1>9, <1>22, <3>1, <3>2 DEF Brings
    <3> QED BY <1>10, <2>1, <3>1, <3>3
  <2>2. CASE j # i
    BY <1>10, <1>22, <2>2
  <2> QED BY <2>1, <2>2
<1>23. ASSUME Undisturbed, NEW m \in store'[pane.chat], m \notin store[pane.chat]
       PROVE  \E j \in DOMAIN pending : /\ i <= j /\ pending'[j].shell = screen
                                        /\ Brings(pending'[j], m)
  <2>4. store' # store
    BY <1>23
  <2>1. h.op \in {"send", "sync"}
    BY <1>11, <1>23
  <2>2. CASE h.shell = screen
    <3>1. h.op = "sync" => m \in r.data
      BY <1>11, <1>12, <1>21, <1>23, <2>4
    <3>2. Brings(d, m)
      BY <1>9, <2>1, <3>1 DEF Brings
    <3> QED BY <1>4, <1>9, <1>10, <2>2, <3>2
  <2>3. CASE h.shell # screen
    <3>1. PICK j \in DOMAIN pending : i < j /\ Refreshes(pending[j])
      BY <1>1, <1>4, <1>23, <2>1, <2>3 DEF NothingMissed, h
    <3>2. j # i /\ i <= j /\ pending'[j] = pending[j] /\ pending[j].reply = None
      BY <1>4, <1>5, <1>10, <3>1
    <3> QED BY <3>1, <3>2 DEF Refreshes, Brings
  <2> QED BY <2>2, <2>3
<1>24. NothingMissed'
  <2> SUFFICES ASSUME Undisturbed, NEW x \in DOMAIN pending
               PROVE  /\ /\ pending'[x].op \in {"send", "sync"} /\ pending'[x].shell # screen
                         /\ pending'[x].reply = None
                         => \E j \in DOMAIN pending : x < j /\ Refreshes(pending'[j])
                      /\ Refreshes(pending'[x]) /\ pending'[x].reply # None =>
                           \A m \in store'[pane.chat] \ pending'[x].reply.data :
                             \E j \in DOMAIN pending :
                               x < j /\ pending'[j].shell = screen /\ Brings(pending'[j], m)
    BY <1>3, <1>10 DEF NothingMissed, Undisturbed, Refreshes, Follows, Brings
  <2>1. ASSUME pending'[x].op \in {"send", "sync"}, pending'[x].shell # screen,
               pending'[x].reply = None
        PROVE  \E j \in DOMAIN pending : x < j /\ Refreshes(pending'[j])
    <3>1. x # i /\ pending'[x] = pending[x]
      BY <1>9, <1>10, <2>1
    <3>2. PICK j \in DOMAIN pending : x < j /\ Refreshes(pending[j])
      BY <1>1, <2>1, <3>1 DEF NothingMissed
    <3>3. Refreshes(pending'[j])
      BY <1>9, <1>10, <3>2 DEF Refreshes, h
    <3> QED BY <3>2, <3>3
  <2>2. ASSUME Refreshes(pending'[x]), pending'[x].reply # None,
               NEW m \in store'[pane.chat] \ pending'[x].reply.data
        PROVE  \E j \in DOMAIN pending : x < j /\ pending'[j].shell = screen /\ Brings(pending'[j], m)
    <3>1. x # i
      <4> SUFFICES ASSUME x = i PROVE FALSE
        OBVIOUS
      <4>1. h.op = "messages" /\ h.shell = screen /\ h.el = "pane" /\ m \notin r.data
        BY <1>9, <1>10, <2>2 DEF Refreshes
      <4>2. h.chat = pane.chat
        BY <1>1, <1>4, <4>1 DEF RefreshIsForPane, OnScreen, h
      <4> QED BY <1>11, <1>12, <2>2, <4>1, <4>2
    <3>2. x < i /\ pending'[x] = pending[x]
      BY <1>4, <1>5, <1>10, <2>2, <3>1
    <3>3. CASE m \in store[pane.chat]
      <4>1. PICK j \in DOMAIN pending : x < j /\ pending[j].shell = screen /\ Brings(pending[j], m)
        BY <1>1, <2>2, <3>2, <3>3 DEF NothingMissed, Follows
      <4> QED BY <1>22, <2>2, <3>3, <4>1
    <3>4. CASE m \notin store[pane.chat]
      <4>1. PICK j \in DOMAIN pending : i <= j /\ pending'[j].shell = screen /\ Brings(pending'[j], m)
        BY <1>23, <2>2, <3>4
      <4>2. x < j
        BY <1>4, <3>2, <4>1
      <4> QED BY <4>1, <4>2
    <3> QED BY <3>3, <3>4
  <2> QED BY <2>1, <2>2
<1>25. MissingIsComing'
  <2> SUFFICES ASSUME Undisturbed, NEW m \in store'[pane.chat] \ pane.shown
               PROVE  \E j \in DOMAIN pending : pending'[j].shell = screen /\ Brings(pending'[j], m)
    BY <1>3, <1>10 DEF MissingIsComing, Undisturbed, Brings
  <2>1. CASE m \in store[pane.chat]
    BY <1>1, <1>22, <2>1 DEF MissingIsComing
  <2>2. CASE m \notin store[pane.chat]
    BY <1>23, <2>2
  <2> QED BY <2>1, <2>2
<1> QED BY <1>11, <1>13, <1>14, <1>15, <1>16, <1>17, <1>18, <1>19, <1>20, <1>24, <1>25 DEF IInv

LEMMA ArriveKeepsIInv ==
  ASSUME IInv, NEW m \in Messages, NEW c \in Chats, Arrive(m, c)
  PROVE  IInv'
<1>1. /\ TypeOK /\ RefreshIsForPane /\ ActiveIsShown /\ SentFromPane
      /\ CallsWellFormed /\ OfRenderedShells /\ AnsweredFirst
      /\ TypedIsSent /\ WithoutTimeouts /\ NothingMissed /\ MissingIsComing
      /\ PaneShowsItsChat /\ ReachesShownChat
  BY DEF IInv
<1>2. /\ typed[m] = None /\ arriving' = [arriving EXCEPT ![c] = @ \union {m}]
      /\ UNCHANGED <<screen, made, timer, active, listed, pane, pending, overdue, exists, store,
                     typed, timeouts>>
  BY DEF Arrive, Fresh, page, past
<1>3. arriving' \in [Chats -> SUBSET Messages] /\ arriving \in [Chats -> SUBSET Messages]
  BY <1>1, <1>2 DEF TypeOK
<1>4. TypeOK'
  BY <1>1, <1>2, <1>3 DEF TypeOK
<1>5. TypedIsSent'
  <2>1. \A n \in Messages : typed[n] # None => \A e \in Chats : n \notin arriving'[e]
    BY <1>1, <1>2, <1>3 DEF TypedIsSent
  <2> QED BY <1>1, <1>2, <2>1 DEF TypedIsSent, GoesWhereTyped
<1>6. PaneShowsItsChat' /\ RefreshIsForPane' /\ ActiveIsShown' /\ SentFromPane' /\ AnsweredFirst'
  BY <1>1, <1>2 DEF PaneShowsItsChat, RefreshIsForPane, ActiveIsShown, SentFromPane, AnsweredFirst, OnScreen
<1>7. CallsWellFormed' /\ OfRenderedShells' /\ ReachesShownChat' /\ WithoutTimeouts'
  BY <1>1, <1>2 DEF CallsWellFormed, WellFormed, OfRenderedShells, Root, ReachesShownChat, WithoutTimeouts
<1>8. NothingMissed' /\ MissingIsComing'
  BY <1>1, <1>2 DEF NothingMissed, MissingIsComing, Undisturbed, Refreshes, Follows, Brings
<1> QED BY <1>4, <1>5, <1>6, <1>7, <1>8 DEF IInv
-----------------------------------------------------------------------------
(* The results *)

LEMMA InitIInv == ASSUME Init PROVE IInv
<1>1. TypeOK
  BY ConstantsAssumption DEF Init, TypeOK
<1>2. screen \notin Shells
  BY ConstantsAssumption DEF Init
<1>3. pane = None /\ pending = <<>> /\ overdue = <<>>
  BY DEF Init
<1>4. PaneShowsItsChat /\ RefreshIsForPane /\ ActiveIsShown /\ SentFromPane
  BY <1>2, <1>3 DEF PaneShowsItsChat, RefreshIsForPane, ActiveIsShown, SentFromPane
<1>5. CallsWellFormed /\ OfRenderedShells /\ AnsweredFirst
  BY <1>2, <1>3 DEF Init, CallsWellFormed, OfRenderedShells, AnsweredFirst
<1>6. TypedIsSent /\ ReachesShownChat
  BY <1>3 DEF Init, TypedIsSent, ReachesShownChat
<1>7. WithoutTimeouts /\ NothingMissed /\ MissingIsComing
  BY <1>3 DEF WithoutTimeouts, NothingMissed, MissingIsComing, Undisturbed
<1> QED BY <1>1, <1>4, <1>5, <1>6, <1>7 DEF IInv

LEMMA NextKeepsIInv == IInv /\ [Next]_vars => IInv'
<1> SUFFICES ASSUME IInv, [Next]_vars PROVE IInv'
  OBVIOUS
<1>1. ASSUME NEW k \in Shells, RenderChatShell(k) PROVE IInv'
  BY <1>1, RenderChatShellKeepsIInv
<1>2. ASSUME NEW k \in Shells, RenderSettings(k) PROVE IInv'
  BY <1>2, RenderSettingsKeepsIInv
<1>3. ASSUME NEW k \in Shells, NEW c \in Chats, OpenChat(k, c) PROVE IInv'
  BY <1>3, OpenChatKeepsIInv
<1>4. ASSUME NEW k \in Shells, NEW c \in NewChats, NewChat(k, c) PROVE IInv'
  BY <1>4, NewChatKeepsIInv, ConstantsAssumption
<1>5. ASSUME NEW k \in Shells, NEW m \in Messages, Submit(k, m) PROVE IInv'
  BY <1>5, SubmitKeepsIInv
<1>6. ASSUME NEW k \in Shells, SubmitReloads(k) PROVE IInv'
  BY <1>6, SubmitReloadsKeepsIInv
<1>7. ASSUME NEW k \in Shells, TimerFires(k) PROVE IInv'
  BY <1>7, TimerFiresKeepsIInv
<1>8. ASSUME ListLoaded PROVE IInv'
  BY <1>8, ListLoadedKeepsIInv, ChatCreatedOpensKeepsIInv
<1>9. ASSUME PageGoesOn PROVE IInv'
  BY <1>8, <1>9, MessagesLoadedKeepsIInv, SentKeepsIInv, SyncedKeepsIInv, CreatedKeepsIInv
     DEF PageGoesOn
<1>10. ASSUME NativeTimeout \/ HandleOverdue \/ HandlePending PROVE IInv'
  BY <1>10, NativeTimeoutKeepsIInv, HandleOverdueKeepsIInv, HandlePendingKeepsIInv
<1>11. ASSUME NEW m \in Messages, NEW c \in Chats, Arrive(m, c) PROVE IInv'
  BY <1>11, ArriveKeepsIInv
<1>12. CASE UNCHANGED vars
  <2>1. /\ UNCHANGED <<screen, made, timer, active, listed, pane, pending, overdue>>
        /\ UNCHANGED <<exists, store, arriving, typed, timeouts>>
    BY <1>12 DEF vars, page, native, past
  <2>2. TypeOK' /\ PaneShowsItsChat' /\ ActiveIsShown' /\ SentFromPane' /\ RefreshIsForPane'
    BY <2>1 DEF IInv, TypeOK, PaneShowsItsChat, ActiveIsShown, SentFromPane, RefreshIsForPane, OnScreen
  <2>3. CallsWellFormed' /\ OfRenderedShells' /\ AnsweredFirst' /\ ReachesShownChat'
    BY <2>1 DEF IInv, CallsWellFormed, WellFormed, OfRenderedShells, Root, AnsweredFirst,
       ReachesShownChat
  <2>4. TypedIsSent' /\ WithoutTimeouts'
    BY <2>1 DEF IInv, TypedIsSent, GoesWhereTyped, WithoutTimeouts
  <2>5. NothingMissed' /\ MissingIsComing'
    BY <2>1 DEF IInv, NothingMissed, Undisturbed, Refreshes, Follows, MissingIsComing, Brings
  <2> QED BY <2>2, <2>3, <2>4, <2>5 DEF IInv
<1> QED BY <1>1, <1>2, <1>3, <1>4, <1>5, <1>6, <1>7, <1>9, <1>10, <1>11, <1>12 DEF Next

\* The invariant holds for any chats, messages and renders of the shell, and for
\* any number of calls under way, overdue or timed out: the pane shows messages
\* of its own chat only, and activeChatId is the chat in its header.
THEOREM Invariance == Spec => []IInv
<1>1. Init => IInv
  BY InitIInv
<1>2. IInv /\ [Next]_vars => IInv'
  BY NextKeepsIInv
<1> QED BY <1>1, <1>2, PTL DEF Spec

\* The submit handler of a pane that was opened while no other openChat() was
\* under way sends what is typed to the chat in the header, whatever else goes on.
THEOREM TextReachesItsChat == Spec => []ReachesShownChat
<1>1. IInv => ReachesShownChat
  BY DEF IInv
<1> QED BY <1>1, Invariance, PTL

\* What the store holds and the open pane does not show is on its way to it: a
\* send, a sync or a refresh of this shell is under way, unless a call timed out
\* or a timer of an earlier shell is left.
THEOREM NothingIsForgotten == Spec => []MissingIsComing
<1>1. IInv => MissingIsComing
  BY DEF IInv
<1> QED BY <1>1, Invariance, PTL
=============================================================================
