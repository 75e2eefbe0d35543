-------------------------- MODULE AuthScreens_proofs --------------------------
(***************************************************************************)
(* For any users, any number of calls under way and of panel commands: what *)
(* waits for what on the screens around the chat shell (IInv), and that the *)
(* session is the one the shell on the screen was made for                  *)
(* (ShellIsSession).                                                        *)
(***************************************************************************)
EXTENDS AuthScreens, QueueFacts, TLAPS

(* Types *)

LEMMA Types ==
  ASSUME TypeOK
  PROVE  /\ pending \in Seq(Calls) /\ overdue \in Seq(Calls)
         /\ \A i \in DOMAIN pending : pending[i] \in Calls
         /\ \A i \in DOMAIN overdue : overdue[i] \in Calls
BY DEF TypeOK

\* A call that nobody has answered yet, of a screen or of the panel.
LEMMA NewCalls ==
  /\ \A form \in Forms : Call("getLayout", form) \in Calls /\ WellFormed(Call("getLayout", form))
  /\ \A name \in {"login", "register"}, u \in Users :
       Call(name, u) \in Calls /\ WellFormed(Call(name, u))
  /\ \A m \in Modes :
       Call("setInterfaceMode", m) \in Calls /\ WellFormed(Call("setInterfaceMode", m))
  /\ Call("logout", None) \in Calls /\ WellFormed(Call("logout", None))
  /\ \A s \in Slots : Captcha(s) \in Calls /\ WellFormed(Captcha(s)) /\ Captcha(s).slot = s
                      /\ Captcha(s).ok = None /\ Captcha(s).call = "getCaptcha"
  /\ \A u \in Users : PanelCall("login", u) \in Calls /\ WellFormed(PanelCall("login", u))
  /\ PanelCall("logout", None) \in Calls /\ WellFormed(PanelCall("logout", None))
  /\ \A name, arg : /\ Call(name, arg).ok = None /\ Call(name, arg).slot = None
                    /\ PanelCall(name, arg).ok = None /\ PanelCall(name, arg).slot = "panel"
BY AuthScreensAssumption DEF Call, Captcha, PanelCall, Calls, WellFormed, Forms, Modes, Slots

LEMMA NoneIsNoSlot == None \notin Slots \union {"gone", "panel"} /\ "panel" \notin Slots
                      /\ "gone" \notin Slots
BY AuthScreensAssumption DEF Slots

LEMMA PanelBound == MaxPanel \in Nat
BY AuthScreensAssumption

LEMMA InitIInv == Init => IInv
<1> SUFFICES ASSUME Init PROVE IInv
  OBVIOUS
<1> DEFINE c == Call("getLayout", "login")
<1>1. c \in Calls /\ WellFormed(c) /\ c.ok = None /\ c.slot = None
  BY NewCalls DEF Forms
<1>2. DOMAIN pending = {1} /\ pending[1] = c /\ pending \in Seq(Calls)
  BY <1>1 DEF Init
<1>3. TypeOK
  <2>1. post \in BOOLEAN /\ late \in BOOLEAN
    BY DEF Init
  <2>2. overdue \in Seq(Calls)
    BY DEF Init
  <2>3. captcha \in [Slots -> {"none", "loading", "failed", "ready"}]
    BY DEF Init, NoCaptcha
  <2>4. commands \in 0..MaxPanel
    BY PanelBound DEF Init
  <2> QED BY <1>2, <2>1, <2>2, <2>3, <2>4 DEF Init, TypeOK, Screens
<1>4. WidgetsOfScreen
  BY <1>1, <1>2, NoneIsNoSlot DEF Init, WidgetsOfScreen, Loading, NoCaptcha, Slots, Forms
<1>5. screen \notin Users
  BY AuthScreensAssumption DEF Init
<1>6. CallsWellFormed
  BY <1>1, <1>2 DEF Init, CallsWellFormed
<1>7. OneCallPerWidget /\ AnsweredFirst /\ NoPanelCalls
  BY <1>1, <1>2, NoneIsNoSlot DEF OneCallPerWidget, AnsweredFirst, NoPanelCalls, Unanswered
<1>8. EarlierAreOver
  BY DEF Init, EarlierAreOver
<1>9. \A i \in DOMAIN pending : ~Changed(pending[i])
  BY <1>2, NoneIsNoSlot DEF Changed, Call
<1>10. SessionKnown
  BY <1>5, <1>9 DEF SessionKnown
<1> QED BY <1>3, <1>4, <1>6, <1>7, <1>8, <1>10 DEF IInv
-----------------------------------------------------------------------------
(* The steps that start a call *)

\* A call of the page is put at the end of the queue, unanswered; a widget may
\* wait for it if it waits for nothing else.
LEMMA CallKeepsIInv ==
  ASSUME IInv, NEW c \in Calls, WellFormed(c), c.ok = None, CallNative(c),
         UNCHANGED <<mode, leaving, screen, post>>,
         commands' \in 0..MaxPanel, commands' = commands \/ commands' # 0,
         c.slot = "panel" => commands' # 0,
         \/ c.slot \notin Slots /\ captcha' = captcha
         \/ /\ c.slot \in Slots /\ captcha[c.slot] = "failed"
            /\ captcha' = [captcha EXCEPT ![c.slot] = "loading"]
  PROVE  IInv'
<1>1. /\ TypeOK /\ pending' = Append(pending, c) /\ UNCHANGED <<overdue, session, late>>
      /\ pending \in Seq(Calls)
  BY DEF IInv, TypeOK, CallNative
<1>2. /\ \A i \in DOMAIN pending' : \/ i \in DOMAIN pending /\ pending'[i] = pending[i]
                                    \/ i = Len(pending) + 1 /\ pending'[i] = c
      /\ \A i \in DOMAIN pending : i \in DOMAIN pending' /\ pending'[i] = pending[i]
      /\ Len(pending) + 1 \in DOMAIN pending' /\ pending'[Len(pending) + 1] = c
      /\ \A i \in DOMAIN pending : i < Len(pending) + 1 /\ i \in Nat
      /\ Len(pending) \in Nat
  BY <1>1, Appended, Indices
<1>3. TypeOK'
  <2>1. captcha' \in [Slots -> {"none", "loading", "failed", "ready"}]
    BY <1>1 DEF TypeOK
  <2>2. pending' \in Seq(Calls)
    BY <1>1, Appended
  <2> QED BY <1>1, <2>1, <2>2 DEF TypeOK
<1>4. WidgetsOfScreen'
  <2>1. ASSUME NEW s \in Slots PROVE Loading(s)' <=> Loading(s) \/ c.slot = s
    BY <1>2 DEF Loading
  <2>2. ASSUME NEW s \in Slots PROVE captcha'[s] = "loading" <=> captcha[s] = "loading" \/ c.slot = s
    BY <1>1 DEF TypeOK
  <2>3. ASSUME NEW s \in Slots PROVE captcha'[s] = "none" <=> captcha[s] = "none"
    BY <1>1 DEF TypeOK
  <2> QED BY <2>1, <2>2, <2>3 DEF IInv, WidgetsOfScreen, Slots
<1>5. CallsWellFormed'
  BY <1>1, <1>2 DEF IInv, CallsWellFormed, WellFormed
<1>6. OneCallPerWidget'
  <2>1. ASSUME NEW i \in DOMAIN pending, c.slot \in Slots PROVE pending[i].slot # c.slot
    <3>1. ~Loading(c.slot)
      BY <2>1 DEF IInv, WidgetsOfScreen
    <3> QED BY <3>1, <2>1 DEF Loading
  <2> QED BY <1>2, <2>1 DEF IInv, OneCallPerWidget
<1>7. AnsweredFirst'
  <2> SUFFICES ASSUME NEW i \in DOMAIN pending', NEW j \in DOMAIN pending', i < j,
                      pending'[j].ok # None
               PROVE  pending'[i].ok # None
    BY DEF AnsweredFirst, Unanswered
  <2>1. j \in DOMAIN pending /\ pending'[j] = pending[j]
    BY <1>2
  <2>2. i \in DOMAIN pending /\ pending'[i] = pending[i]
    BY <1>2, <2>1
  <2> QED BY <2>1, <2>2 DEF IInv, AnsweredFirst, Unanswered
<1>8. NoPanelCalls'
  BY <1>2 DEF IInv, NoPanelCalls
<1>9. EarlierAreOver'
  BY <1>1, <1>2 DEF IInv, EarlierAreOver, Unanswered, OfSession
<1>10. ~Changed(c)
  BY NoneIsNoSlot, AuthScreensAssumption DEF Changed
<1>11. SessionKnown'
  <2> SUFFICES ASSUME ~late, commands = 0 PROVE SessionKnown'
    BY <1>1 DEF SessionKnown
  <2>1. ASSUME NEW i \in DOMAIN pending', Changed(pending'[i]),
               \A j \in DOMAIN pending' : i < j => ~Changed(pending'[j])
        PROVE  session = SessionBy(pending'[i])
    <3>1. i \in DOMAIN pending /\ pending'[i] = pending[i]
      BY <1>2, <1>10, <2>1
    <3>2. \A j \in DOMAIN pending : i < j => ~Changed(pending[j])
      BY <1>2, <2>1
    <3> QED BY <2>1, <3>1, <3>2 DEF IInv, SessionKnown
  <2>2. ASSUME screen \in Users, leaving = None, \A i \in DOMAIN pending' : ~Changed(pending'[i])
        PROVE  session = screen
    BY <1>2, <2>2 DEF IInv, SessionKnown
  <2> QED BY <1>1, <2>1, <2>2 DEF SessionKnown, Changed, SessionBy
<1> QED BY <1>3, <1>4, <1>5, <1>6, <1>7, <1>8, <1>9, <1>11 DEF IInv
-----------------------------------------------------------------------------
(* The steps that end a call *)

\* What every result does to the queue: its first call goes, the others lose at
\* most their widget, and fetches of captchas may be added.
Same(c, d) == c.call = d.call /\ c.arg = d.arg /\ c.ok = d.ok
Kept(c, d) == Same(c, d) /\ WellFormed(c) /\ (c.slot = "panel" => d.slot = "panel")
Fetch(c) == c.call = "getCaptcha" /\ c.ok = None /\ c.slot \in Slots

Popped ==
  /\ pending' \in Seq(Calls)
  /\ \A i \in DOMAIN pending' :
       \/ i + 1 \in DOMAIN pending /\ Kept(pending'[i], pending[i + 1])
       \/ i >= Len(pending) /\ Fetch(pending'[i])
  /\ \A i \in DOMAIN pending :
       i # 1 => i - 1 \in DOMAIN pending' /\ Kept(pending'[i - 1], pending[i])

LEMMA PopOnly ==
  ASSUME IInv, pending # <<>>, pending' = Tail(pending)
  PROVE  /\ Popped
         /\ \A i \in DOMAIN pending' : i + 1 \in DOMAIN pending /\ pending'[i] = pending[i + 1]
         /\ \A i \in DOMAIN pending : i # 1 => i - 1 \in DOMAIN pending' /\ pending'[i - 1] = pending[i]
<1>1. /\ pending' \in Seq(Calls)
      /\ \A i \in DOMAIN pending' : i + 1 \in DOMAIN pending /\ pending'[i] = pending[i + 1]
      /\ \A i \in DOMAIN pending : i # 1 => i - 1 \in DOMAIN pending' /\ pending'[i - 1] = pending[i]
  BY HeadAndTail DEF IInv, TypeOK
<1>2. \A i \in DOMAIN pending : Kept(pending[i], pending[i])
  BY DEF IInv, CallsWellFormed, Kept, Same
<1> QED BY <1>1, <1>2 DEF Popped

\* The calls of a screen that is replaced, and those of the next one.
LEMMA ShowQueue ==
  ASSUME IInv, pending # <<>>, NEW s, NEW slots \in Seq(Slots), Show(s, slots)
  PROVE  /\ Popped
         /\ \A i \in DOMAIN pending' :
              \/ i < Len(pending) /\ pending'[i].slot \notin Slots
              \/ i - (Len(pending) - 1) \in DOMAIN slots /\ i >= Len(pending)
                 /\ pending'[i].slot = slots[i - (Len(pending) - 1)]
         /\ \A k \in DOMAIN slots : k + (Len(pending) - 1) \in DOMAIN pending'
                                   /\ pending'[k + (Len(pending) - 1)].slot = slots[k]
<1> DEFINE q == Tail(pending)
           o == Orphaned(q)
           r == [k \in DOMAIN slots |-> Captcha(slots[k])]
<1>1. /\ pending \in Seq(Calls) /\ q \in Seq(Calls) /\ Len(q) = Len(pending) - 1 /\ Len(pending) \in Nat
      /\ \A i \in DOMAIN q : i + 1 \in DOMAIN pending /\ q[i] = pending[i + 1] /\ q[i] \in Calls
      /\ \A i \in DOMAIN pending : i # 1 => i - 1 \in DOMAIN q /\ q[i - 1] = pending[i]
  BY HeadAndTail, Indices DEF IInv, TypeOK
<1>2. /\ DOMAIN o = DOMAIN q
      /\ \A i \in DOMAIN q : /\ o[i] \in Calls /\ o[i].slot \notin Slots /\ Same(o[i], q[i])
                             /\ o[i].slot = "panel" => q[i].slot = "panel"
                             /\ WellFormed(q[i]) => WellFormed(o[i])
  <2> SUFFICES ASSUME NEW i \in DOMAIN q
               PROVE  /\ o[i] \in Calls /\ o[i].slot \notin Slots /\ Same(o[i], q[i])
                      /\ o[i].slot = "panel" => q[i].slot = "panel"
                      /\ WellFormed(q[i]) => WellFormed(o[i])
    BY DEF Orphaned
  <2>1. q[i] \in Calls
    BY <1>1
  <2>2. CASE q[i].slot \notin Slots
    BY <2>1, <2>2 DEF Orphaned, Same
  <2>3. CASE q[i].slot \in Slots
    <3>1. o[i] = [q[i] EXCEPT !.slot = "gone"]
      BY <2>3 DEF Orphaned
    <3> HIDE DEF q, o
    <3>2. o[i] \in Calls /\ o[i].slot = "gone" /\ Same(o[i], q[i])
      BY <2>1, <3>1 DEF Calls, Same
    <3> QED BY <2>1, <2>3, <3>2, NoneIsNoSlot DEF WellFormed, Same
  <2> QED BY <2>2, <2>3
<1>3. o \in [DOMAIN q -> Calls]
  <2>1. o = [i \in DOMAIN q |-> o[i]]
    BY Zenon DEF Orphaned
  <2> HIDE DEF o, q
  <2> QED BY <1>2, <2>1
<1>4. o \in Seq(Calls) /\ Len(o) = Len(pending) - 1
  BY <1>1, <1>3, Mapped
<1>5. /\ \A k \in DOMAIN slots : slots[k] \in Slots /\ r[k] = Captcha(slots[k])
      /\ r \in [DOMAIN slots -> Calls]
  BY NewCalls, Indices
<1>6. r \in Seq(Calls) /\ DOMAIN r = DOMAIN slots
  BY <1>5, Mapped
<1>7. /\ pending' = o \o r
      /\ pending' \in Seq(Calls)
      /\ \A i \in DOMAIN pending' :
              \/ i \in DOMAIN o /\ pending'[i] = o[i]
              \/ i - Len(o) \in DOMAIN r /\ pending'[i] = r[i - Len(o)] /\ i > Len(o)
      /\ \A i \in DOMAIN o : i \in DOMAIN pending' /\ pending'[i] = o[i]
      /\ \A i \in DOMAIN r : i + Len(o) \in DOMAIN pending' /\ pending'[i + Len(o)] = r[i]
  <2>1. pending' = o \o r
    BY DEF Show
  <2> HIDE DEF o, r
  <2> QED BY <2>1, <1>4, <1>6, Joined
<1> HIDE DEF o, r, q
<1>8. \A i \in DOMAIN o : i < Len(pending) /\ i + 1 \in DOMAIN pending /\ Kept(o[i], pending[i + 1])
  <2> SUFFICES ASSUME NEW i \in DOMAIN q
               PROVE  i < Len(pending) /\ i + 1 \in DOMAIN pending /\ Kept(o[i], pending[i + 1])
    BY <1>2
  <2>1. i + 1 \in DOMAIN pending /\ q[i] = pending[i + 1]
    BY <1>1
  <2>2. i + 1 <= Len(pending) /\ i \in Nat
    BY <1>1, <2>1, Indices
  <2>3. WellFormed(pending[i + 1])
    BY <2>1 DEF IInv, CallsWellFormed
  <2>4. Kept(o[i], pending[i + 1])
    BY <1>2, <2>1, <2>3, Zenon DEF Kept
  <2> QED BY <1>1, <2>1, <2>2, <2>4
<1>9. \A k \in DOMAIN r : Fetch(r[k]) /\ r[k].slot = slots[k]
  BY <1>5, <1>6, NewCalls DEF Fetch
<1>10. \A i \in DOMAIN pending' : i \in Nat
  BY <1>7, Indices
<1>11. Popped
  BY <1>1, <1>2, <1>4, <1>7, <1>8, <1>9, <1>10 DEF Popped
<1>12. ASSUME NEW i \in DOMAIN pending'
       PROVE  \/ i < Len(pending) /\ pending'[i].slot \notin Slots
              \/ i - (Len(pending) - 1) \in DOMAIN slots /\ i >= Len(pending)
                 /\ pending'[i].slot = slots[i - (Len(pending) - 1)]
  BY <1>1, <1>2, <1>4, <1>6, <1>7, <1>8, <1>9, <1>10
<1>13. \A k \in DOMAIN slots : k + (Len(pending) - 1) \in DOMAIN pending'
                             /\ pending'[k + (Len(pending) - 1)].slot = slots[k]
  BY <1>4, <1>6, <1>7, <1>9
<1> QED BY <1>11, <1>12, <1>13

\* The widgets of each screen.
HasSlots(s, slots) ==
  \/ s \in Forms /\ slots = SlotsOf(s)
  \/ s \in {"error"} \union Users /\ slots = <<>>

LEMMA SlotsOfScreens ==
  ASSUME NEW s, NEW slots, HasSlots(s, slots)
  PROVE  /\ slots \in Seq(Slots)
         /\ \A k, l \in DOMAIN slots : slots[k] = slots[l] => k = l
         /\ (\E k \in DOMAIN slots : slots[k] = "first") <=> s \in Forms
         /\ (\E k \in DOMAIN slots : slots[k] = "second") <=> s = "register"
<1>1. CASE s = "login" /\ slots = <<"first">>
  <2>1. DOMAIN slots = {1} /\ slots[1] = "first" /\ slots \in Seq(Slots)
    BY <1>1 DEF Slots
  <2> QED BY <1>1, <2>1 DEF Forms
<1>2. CASE s = "register" /\ slots = <<"first", "second">>
  <2>1. DOMAIN slots = {1, 2} /\ slots[1] = "first" /\ slots[2] = "second" /\ slots \in Seq(Slots)
    BY <1>2 DEF Slots
  <2> QED BY <1>2, <2>1 DEF Forms
<1>3. CASE s \in {"error"} \union Users /\ slots = <<>>
  <2>1. s \notin Forms /\ s # "register"
    BY <1>3, AuthScreensAssumption DEF Forms
  <2>2. DOMAIN slots = {} /\ slots \in Seq(Slots)
    BY <1>3
  <2> QED BY <2>1, <2>2
<1> QED BY <1>1, <1>2, <1>3 DEF HasSlots, SlotsOf, Forms

LEMMA ShowScreen ==
  ASSUME IInv, pending # <<>>, NEW s, NEW slots, HasSlots(s, slots), Show(s, slots)
  PROVE  /\ Popped /\ screen' = s /\ s \in Screens /\ post' = FALSE
         /\ captcha' \in [Slots -> {"none", "loading", "failed", "ready"}]
         /\ WidgetsOfScreen' /\ OneCallPerWidget'
<1>1. /\ slots \in Seq(Slots)
      /\ \A k, l \in DOMAIN slots : slots[k] = slots[l] => k = l
      /\ (\E k \in DOMAIN slots : slots[k] = "first") <=> s \in Forms
      /\ (\E k \in DOMAIN slots : slots[k] = "second") <=> s = "register"
  BY SlotsOfScreens
<1> DEFINE n == Len(pending) - 1
<1>2. /\ Popped
      /\ \A i \in DOMAIN pending' :
           \/ i < Len(pending) /\ pending'[i].slot \notin Slots
           \/ i - n \in DOMAIN slots /\ i >= Len(pending) /\ pending'[i].slot = slots[i - n]
      /\ \A k \in DOMAIN slots : k + n \in DOMAIN pending' /\ pending'[k + n].slot = slots[k]
  BY <1>1, ShowQueue
<1>3. /\ screen' = s /\ post' = FALSE
      /\ captcha' = [w \in Slots |-> IF \E k \in DOMAIN slots : slots[k] = w THEN "loading" ELSE "none"]
  BY DEF Show
<1>4. s \in Screens
  BY DEF HasSlots, Screens
<1>5. captcha' \in [Slots -> {"none", "loading", "failed", "ready"}]
  BY <1>3
<1>6. \A w \in Slots : Loading(w)' <=> \E k \in DOMAIN slots : slots[k] = w
  BY <1>2 DEF Loading
<1>7. \A w \in Slots : /\ captcha'[w] = "loading" <=> \E k \in DOMAIN slots : slots[k] = w
                       /\ captcha'[w] # "none" <=> \E k \in DOMAIN slots : slots[k] = w
  BY <1>3
<1>8. WidgetsOfScreen'
  BY <1>1, <1>3, <1>6, <1>7 DEF WidgetsOfScreen, Slots
<1>9. OneCallPerWidget'
  <2> SUFFICES ASSUME NEW i \in DOMAIN pending', NEW j \in DOMAIN pending',
                      pending'[i].slot \in Slots, pending'[i].slot = pending'[j].slot
               PROVE  i = j
    BY DEF OneCallPerWidget
  <2>1. /\ i - n \in DOMAIN slots /\ pending'[i].slot = slots[i - n]
        /\ j - n \in DOMAIN slots /\ pending'[j].slot = slots[j - n]
    BY <1>2
  <2>2. i - n = j - n
    BY <1>1, <2>1
  <2>3. i \in Nat /\ j \in Nat /\ n \in Int
    BY <1>2, Indices DEF Popped, IInv, TypeOK
  <2> QED BY <2>2, <2>3
<1> QED BY <1>2, <1>3, <1>4, <1>5, <1>8, <1>9

\* A result changes the screen and its widgets together.
LEMMA ResultOnScreen ==
  ASSUME IInv, pending # <<>>, NEW ok \in BOOLEAN, Resume(Head(pending), ok)
  PROVE  /\ Popped /\ WidgetsOfScreen' /\ OneCallPerWidget'
         /\ mode' \in Modes /\ leaving' \in Modes \union {None} /\ screen' \in Screens
         /\ captcha' \in [Slots -> {"none", "loading", "failed", "ready"}]
         /\ post' \in BOOLEAN
<1> DEFINE h == Head(pending)
<1>1. /\ TypeOK /\ h = pending[1] /\ 1 \in DOMAIN pending /\ h \in Calls /\ WellFormed(h)
      /\ \A i \in DOMAIN pending : i \in Nat
  BY HeadAndTail, Indices, Types DEF IInv, TypeOK, CallsWellFormed
<1>2. CASE Layout(h, ok)
  <2>1. h.arg \in Forms
    BY <1>1, <1>2 DEF Layout, WellFormed
  <2>2. PICK s, slots : HasSlots(s, slots) /\ Show(s, slots)
    BY <1>2, <2>1 DEF Layout, HasSlots
  <2>3. UNCHANGED <<mode, leaving>>
    BY <1>2 DEF Layout
  <2> QED BY <1>1, <2>2, <2>3, ShowScreen DEF TypeOK
<1>3. CASE LoggedIn(h, ok)
  <2>1. HasSlots(h.arg, <<>>)
    BY <1>1, <1>3 DEF LoggedIn, WellFormed, HasSlots
  <2>2. Show(h.arg, <<>>) /\ UNCHANGED <<mode, leaving>>
    BY <1>3 DEF LoggedIn
  <2> QED BY <1>1, <2>1, <2>2, ShowScreen DEF TypeOK
<1>4. ASSUME pending' = Tail(pending)
      PROVE  /\ Popped /\ OneCallPerWidget'
             /\ \A s \in Slots : Loading(s)' <=> Loading(s) /\ h.slot # s
  <2>1. Popped
    BY <1>4, PopOnly
  <2>2. /\ \A i \in DOMAIN pending' : i + 1 \in DOMAIN pending /\ pending'[i] = pending[i + 1] /\ i \in Nat \ {0}
        /\ \A i \in DOMAIN pending :
             i # 1 => i - 1 \in DOMAIN pending' /\ pending'[i - 1] = pending[i]
    BY <1>4, <2>1, PopOnly, Indices DEF Popped
  <2>3. OneCallPerWidget'
    <3> SUFFICES ASSUME NEW i \in DOMAIN pending', NEW j \in DOMAIN pending',
                        pending'[i].slot \in Slots, pending'[i].slot = pending'[j].slot
                 PROVE  i = j
      BY DEF OneCallPerWidget
    <3>1. i + 1 = j + 1
      BY <2>2 DEF IInv, OneCallPerWidget
    <3> QED BY <2>2, <3>1
  <2>4. ASSUME NEW s \in Slots PROVE Loading(s)' <=> Loading(s) /\ h.slot # s
    <3>1. ASSUME NEW i \in DOMAIN pending', pending'[i].slot = s PROVE Loading(s) /\ h.slot # s
      <4>1. i + 1 \in DOMAIN pending /\ pending[i + 1].slot = s /\ i + 1 # 1
        BY <2>2, <3>1
      <4>2. Loading(s)
        BY <4>1 DEF Loading
      <4>3. h.slot # s
        BY <1>1, <4>1 DEF IInv, OneCallPerWidget
      <4> QED BY <4>2, <4>3
    <3>2. ASSUME NEW i \in DOMAIN pending, pending[i].slot = s, h.slot # s PROVE Loading(s)'
      <4>1. i # 1
        BY <1>1, <3>2
      <4> QED BY <2>2, <3>2, <4>1 DEF Loading
    <3> QED BY <3>1, <3>2 DEF Loading
  <2> QED BY <2>1, <2>3, <2>4
<1>5. CASE CaptchaLoaded(h, ok)
  <2>1. /\ h.call = "getCaptcha" /\ pending' = Tail(pending) /\ UNCHANGED <<mode, leaving, screen, post>>
        /\ captcha' = IF h.slot = "gone" THEN captcha
                      ELSE [captcha EXCEPT ![h.slot] = IF ok THEN "ready" ELSE "failed"]
        /\ h.slot \in Slots \union {"gone"}
    BY <1>1, <1>5 DEF CaptchaLoaded, WellFormed
  <2>2. h.slot \in Slots => captcha[h.slot] = "loading"
    BY <1>1 DEF IInv, WidgetsOfScreen, Loading
  <2>3. \A s \in Slots : /\ captcha'[s] = "loading" <=> captcha[s] = "loading" /\ h.slot # s
                         /\ captcha'[s] = "none" <=> captcha[s] = "none"
    BY <1>1, <2>1, <2>2, NoneIsNoSlot DEF TypeOK
  <2>4. captcha' \in [Slots -> {"none", "loading", "failed", "ready"}]
    BY <1>1, <2>1 DEF TypeOK
  <2>5. WidgetsOfScreen'
    BY <1>4, <2>1, <2>3 DEF IInv, WidgetsOfScreen, Slots
  <2> QED BY <1>1, <1>4, <2>1, <2>4, <2>5 DEF TypeOK
<1>6. CASE Registered(h, ok) \/ LoggedOut(h) \/ Printed(h, ok)
  <2>1. pending' = Tail(pending) /\ UNCHANGED <<mode, screen, captcha>>
    BY <1>6 DEF Registered, LoggedOut, Printed, page
  <2>2. h.slot \notin Slots
    <3>1. h.call # "getCaptcha" \/ h.slot = "panel"
      BY <1>6 DEF Registered, LoggedOut, Printed
    <3> QED BY <1>1, <3>1, NoneIsNoSlot DEF WellFormed
  <2>3. post' \in BOOLEAN /\ (post' => screen = "register")
    <3>1. post' = (post \/ screen = "register") \/ post' = post
      BY <1>6 DEF Registered, LoggedOut, Printed, page
    <3>2. post \in BOOLEAN /\ (post => screen = "register")
      BY <1>1 DEF TypeOK, IInv, WidgetsOfScreen
    <3>3. CASE post' = (post \/ screen = "register")
      BY <3>2, <3>3, Zenon
    <3>4. CASE post' = post
      BY <3>2, <3>4, Zenon
    <3> QED BY <3>1, <3>3, <3>4
  <2>4. leaving' \in Modes \union {None}
    BY <1>1, <1>6 DEF TypeOK, Registered, LoggedOut, Printed, page
  <2>5. \A s \in Slots : Loading(s)' <=> Loading(s)
    BY <1>4, <2>1, <2>2
  <2>6. WidgetsOfScreen'
    BY <2>1, <2>3, <2>5 DEF IInv, WidgetsOfScreen, Slots
  <2> QED BY <1>1, <1>4, <2>1, <2>3, <2>4, <2>6 DEF TypeOK
<1> QED BY <1>2, <1>3, <1>5, <1>6 DEF Resume

\* A result that returns, and one that is given up: when it was the last to
\* change the session, the page shows whose session that is or goes away.
LEMMA ResultKeepsIInv ==
  ASSUME IInv, pending # <<>>, NEW ok \in BOOLEAN, Resume(Head(pending), ok),
         UNCHANGED <<session, commands>>, late' \in BOOLEAN, late => late',
         overdue' \in Seq(Calls),
         \A i \in DOMAIN overdue' :
           (i \in DOMAIN overdue /\ overdue'[i] = overdue[i]) \/ overdue'[i] = Head(pending),
         ok = TRUE => Head(pending).ok = TRUE,
         ~late' /\ OfSession(Head(pending)) => ok = Head(pending).ok /\ overdue' = overdue
  PROVE  IInv'
<1> DEFINE h == Head(pending)
<1>1. /\ TypeOK /\ h = pending[1] /\ 1 \in DOMAIN pending /\ h \in Calls /\ WellFormed(h)
      /\ pending \in Seq(Calls) /\ Len(pending) \in Nat
      /\ \A i \in DOMAIN pending : i \in Nat /\ i <= Len(pending)
  BY HeadAndTail, Indices, Types DEF IInv, TypeOK, CallsWellFormed
<1>2. /\ Popped /\ WidgetsOfScreen' /\ OneCallPerWidget'
      /\ mode' \in Modes /\ leaving' \in Modes \union {None} /\ screen' \in Screens
      /\ captcha' \in [Slots -> {"none", "loading", "failed", "ready"}]
      /\ post' \in BOOLEAN
  BY ResultOnScreen
<1>3. /\ \A i \in DOMAIN pending' : \/ i + 1 \in DOMAIN pending /\ Kept(pending'[i], pending[i + 1])
                                    \/ i >= Len(pending) /\ Fetch(pending'[i])
      /\ \A i \in DOMAIN pending' : i \in Nat \ {0}
      /\ \A i \in DOMAIN pending :
           i # 1 => i - 1 \in DOMAIN pending' /\ Kept(pending'[i - 1], pending[i])
  BY <1>2, Indices DEF Popped
<1>4. TypeOK'
  BY <1>1, <1>2 DEF TypeOK, Popped
<1>5. CallsWellFormed'
  <2>1. ASSUME NEW i \in DOMAIN pending' PROVE WellFormed(pending'[i])
    BY <1>3, Zenon DEF Kept, Fetch, WellFormed
  <2>2. ASSUME NEW i \in DOMAIN overdue' PROVE WellFormed(overdue'[i])
    BY <1>1 DEF IInv, CallsWellFormed
  <2> QED BY <2>1, <2>2 DEF CallsWellFormed, WellFormed
<1>6. AnsweredFirst'
  <2> SUFFICES ASSUME NEW i \in DOMAIN pending', NEW j \in DOMAIN pending', i < j,
                      pending'[j].ok # None
               PROVE  pending'[i].ok # None
    BY DEF AnsweredFirst, Unanswered
  <2>1. j + 1 \in DOMAIN pending /\ pending'[j].ok = pending[j + 1].ok
    BY <1>3 DEF Kept, Same, Fetch
  <2>2. i + 1 \in DOMAIN pending /\ pending'[i].ok = pending[i + 1].ok
    BY <1>1, <1>3, <2>1 DEF Kept, Same
  <2> QED BY <1>3, <2>1, <2>2 DEF IInv, AnsweredFirst, Unanswered
<1>7. NoPanelCalls'
  BY <1>3, NoneIsNoSlot DEF IInv, NoPanelCalls, Kept, Fetch
<1>8. CASE late'
  BY <1>2, <1>4, <1>5, <1>6, <1>7, <1>8 DEF IInv, EarlierAreOver, SessionKnown
<1>9. CASE ~late'
  <2>1. ~late
    BY <1>9
  <2>2. screen' \in Users => screen \in Users \/ h.ok # None
    <3>1. CASE LoggedIn(h, ok)
      BY <1>1, <3>1, AuthScreensAssumption, Zenon DEF LoggedIn
    <3>2. CASE Layout(h, ok)
      <4>1. screen' \in Forms \union {"error"}
        BY <1>1, <3>2 DEF Layout, Show, WellFormed
      <4> QED BY <4>1, AuthScreensAssumption DEF Forms
    <3>3. CASE CaptchaLoaded(h, ok) \/ Registered(h, ok) \/ LoggedOut(h) \/ Printed(h, ok)
      BY <3>3 DEF CaptchaLoaded, Registered, LoggedOut, Printed, page
    <3> QED BY <3>1, <3>2, <3>3 DEF Resume
  <2>3. EarlierAreOver'
    <3> SUFFICES ASSUME screen' \in Users \/ \E i \in DOMAIN pending' : pending'[i].ok # None,
                        NEW k \in DOMAIN overdue'
                 PROVE  ~OfSession(overdue'[k])
      BY DEF EarlierAreOver, Unanswered, OfSession
    <3>1. screen \in Users \/ \E i \in DOMAIN pending : pending[i].ok # None
      BY <1>1, <1>3, <2>2 DEF Kept, Same, Fetch
    <3>2. \A i \in DOMAIN overdue : ~OfSession(overdue[i])
      BY <2>1, <3>1 DEF IInv, EarlierAreOver, Unanswered
    <3> QED BY <1>9, <3>2
  <2>4. \A i \in DOMAIN pending' : Changed(pending'[i]) =>
          /\ i + 1 \in DOMAIN pending /\ Changed(pending[i + 1])
          /\ SessionBy(pending'[i]) = SessionBy(pending[i + 1])
    BY <1>3 DEF Changed, SessionBy, Kept, Same, Fetch
  <2>5. \A i \in DOMAIN pending : i # 1 /\ Changed(pending[i]) =>
          i - 1 \in DOMAIN pending' /\ Changed(pending'[i - 1])
    BY <1>3 DEF Changed, Kept, Same
  <2>6. ASSUME commands = 0, NEW i \in DOMAIN pending', Changed(pending'[i]),
               \A j \in DOMAIN pending' : i < j => ~Changed(pending'[j])
        PROVE  session = SessionBy(pending'[i])
    <3>1. \A j \in DOMAIN pending : i + 1 < j => ~Changed(pending[j])
      BY <1>1, <1>3, <2>5, <2>6
    <3> QED BY <2>1, <2>4, <2>6, <3>1 DEF IInv, SessionKnown
  <2>7. ASSUME commands = 0, screen' \in Users, leaving' = None,
               \A i \in DOMAIN pending' : ~Changed(pending'[i])
        PROVE  session = screen'
    <3>1. \A i \in DOMAIN pending : i # 1 => ~Changed(pending[i])
      BY <2>5, <2>7
    <3>2. h.slot # "panel" /\ (h.call # "getCaptcha" => h.slot = None)
      BY <1>1, <2>7 DEF IInv, NoPanelCalls, WellFormed, Calls
    <3>3. CASE Changed(h)
      <4>1. session = SessionBy(h)
        BY <1>1, <2>1, <2>7, <3>1, <3>3 DEF IInv, SessionKnown
      <4>2. OfSession(h) /\ ok = h.ok
        BY <1>9, <3>3 DEF Changed, OfSession
      <4>3. CASE h.call = "logout"
        <5>1. LoggedOut(h)
          BY <3>2, <4>3 DEF Resume, Layout, CaptchaLoaded, LoggedIn, Registered, Printed
        <5>2. leaving' # None
          BY <1>1, <5>1, AuthScreensAssumption DEF LoggedOut, TypeOK, Modes
        <5> QED BY <2>7, <5>2
      <4>4. CASE h.call = "login"
        <5>1. h.ok = TRUE
          BY <3>3, <4>4 DEF Changed
        <5>2. LoggedIn(h, ok)
          BY <3>2, <4>2, <4>4, <5>1, Zenon
             DEF Resume, Layout, CaptchaLoaded, Registered, LoggedOut, Printed
        <5> QED BY <4>1, <4>4, <5>2 DEF LoggedIn, Show, SessionBy
      <4> QED BY <4>2, <4>3, <4>4 DEF OfSession
    <3>4. CASE ~Changed(h)
      <4>1. ~LoggedIn(h, ok)
        BY <3>4 DEF LoggedIn, Changed
      <4>2. ~Layout(h, ok)
        <5>1. ASSUME Layout(h, ok) PROVE screen' \in Forms \union {"error"}
          BY <1>1, <5>1 DEF Layout, Show, WellFormed
        <5> QED BY <2>7, <5>1, AuthScreensAssumption DEF Forms
      <4>3. screen' = screen /\ leaving = None
        <5>1. CASE LoggedOut(h)
          BY <1>1, <2>7, <5>1, AuthScreensAssumption DEF LoggedOut, TypeOK, Modes
        <5>2. CASE CaptchaLoaded(h, ok) \/ Registered(h, ok) \/ Printed(h, ok)
          BY <2>7, <5>2 DEF CaptchaLoaded, Registered, Printed, page
        <5> QED BY <4>1, <4>2, <5>1, <5>2 DEF Resume
      <4> QED BY <1>1, <2>1, <2>7, <3>1, <3>4, <4>3 DEF IInv, SessionKnown
    <3> QED BY <3>3, <3>4
  <2>8. SessionKnown'
    BY <2>6, <2>7 DEF SessionKnown, Changed, SessionBy
  <2> QED BY <1>2, <1>4, <1>5, <1>6, <1>7, <2>3, <2>8 DEF IInv
<1> QED BY <1>8, <1>9

LEMMA ReturnKeepsIInv ==
  ASSUME IInv, Return
  PROVE  IInv'
<1> DEFINE h == Head(pending)
<1>1. /\ pending # <<>> /\ h.ok # None /\ Resume(h, h.ok)
      /\ UNCHANGED <<overdue, session, late, commands>> /\ TypeOK
  BY DEF Return, IInv
<1>2. h \in Calls
  BY <1>1, HeadAndTail DEF TypeOK
<1>3. h.ok \in BOOLEAN
  BY <1>1, <1>2, Zenon DEF Calls
<1> QED BY <1>1, <1>3, ResultKeepsIInv DEF TypeOK

LEMMA TimeOutKeepsIInv ==
  ASSUME IInv, TimeOut
  PROVE  IInv'
<1> DEFINE h == Head(pending)
<1>1. /\ pending # <<>> /\ Resume(h, FALSE) /\ UNCHANGED <<session, commands>> /\ TypeOK
      /\ overdue' = IF Unanswered(h) THEN Append(overdue, h) ELSE overdue
      /\ late' = (late \/ OfSession(h))
  BY DEF TimeOut, IInv, OfSession
<1>2. h \in Calls /\ overdue \in Seq(Calls)
  BY <1>1, HeadAndTail DEF TypeOK
<1>3. /\ overdue' \in Seq(Calls)
      /\ \A i \in DOMAIN overdue' :
           (i \in DOMAIN overdue /\ overdue'[i] = overdue[i]) \/ overdue'[i] = h
  BY <1>1, <1>2, Appended
<1>4. late' \in BOOLEAN /\ (late => late') /\ (OfSession(h) => late')
  BY <1>1, Zenon
<1> QED BY <1>1, <1>3, <1>4, ResultKeepsIInv
-----------------------------------------------------------------------------
(* The native side, and the next document *)

LEMMA HandleSession ==
  ASSUME TypeOK, NEW c \in Calls, WellFormed(c), NEW ok \in BOOLEAN, Handle(c, ok)
  PROVE  /\ session' \in Users \union {None} /\ leaving' \in Modes \union {None}
         /\ leaving' = None => leaving = None
         /\ ~OfSession(c) => session' = session
         /\ c.call = "login" /\ ok = TRUE => session' = c.arg
         /\ c.call = "login" /\ ok = FALSE => session' = session
         /\ c.call = "logout" => session' = None
<1>1. /\ c.call = "login" => session' = (IF ok THEN c.arg ELSE session)
      /\ c.call = "logout" => session' = None
      /\ c.call \notin {"login", "logout"} => session' = session
      /\ leaving' = IF c.call = "setInterfaceMode" THEN c.arg ELSE leaving
  BY DEF Handle, SessionAfter
<1>2. leaving' \in Modes \union {None} /\ (leaving' = None => leaving = None)
  BY <1>1, AuthScreensAssumption DEF TypeOK, WellFormed, Modes
<1> QED BY <1>1, <1>2 DEF TypeOK, WellFormed, OfSession

\* A call of an earlier document, or one the page has given up, is handled.
LEMMA OverdueKeepsIInv ==
  ASSUME IInv, overdue # <<>>, NEW ok \in BOOLEAN, Handle(Head(overdue), ok),
         overdue' = Tail(overdue), UNCHANGED <<pending, mode, screen, captcha, post, late, commands>>
  PROVE  IInv'
<1> DEFINE c == Head(overdue)
<1>1. /\ TypeOK /\ c \in Calls /\ WellFormed(c) /\ c = overdue[1] /\ 1 \in DOMAIN overdue
      /\ overdue' \in Seq(Calls)
      /\ \A i \in DOMAIN overdue' : i + 1 \in DOMAIN overdue /\ overdue'[i] = overdue[i + 1]
  BY HeadAndTail DEF IInv, TypeOK, CallsWellFormed
<1>2. /\ session' \in Users \union {None} /\ leaving' \in Modes \union {None}
      /\ leaving' = None => leaving = None
      /\ ~OfSession(c) => session' = session
  BY <1>1, HandleSession
<1>3. TypeOK'
  BY <1>1, <1>2 DEF TypeOK
<1>4. WidgetsOfScreen' /\ OneCallPerWidget' /\ AnsweredFirst' /\ NoPanelCalls'
  BY DEF IInv, WidgetsOfScreen, Loading, OneCallPerWidget, AnsweredFirst, NoPanelCalls, Unanswered
<1>5. CallsWellFormed'
  BY <1>1 DEF IInv, CallsWellFormed, WellFormed
<1>6. EarlierAreOver'
  BY <1>1 DEF IInv, EarlierAreOver, Unanswered, OfSession
<1>7. SessionKnown'
  <2> SUFFICES ASSUME ~late, commands = 0 PROVE SessionKnown'
    BY DEF SessionKnown
  <2>1. \A i \in DOMAIN pending : Changed(pending[i]) => ~Unanswered(pending[i])
    BY AuthScreensAssumption, Zenon DEF Changed, Unanswered
  <2>2. screen \in Users \/ (\E i \in DOMAIN pending : Changed(pending[i])) => session' = session
    BY <1>1, <1>2, <2>1 DEF IInv, EarlierAreOver
  <2> QED BY <1>2, <2>2 DEF IInv, SessionKnown, Changed, SessionBy
<1> QED BY <1>3, <1>4, <1>5, <1>6, <1>7 DEF IInv

\* The oldest call of the document is handled: those before it are answered,
\* those after it are not.
LEMMA HandledKeepsIInv ==
  ASSUME IInv, overdue = <<>>, NEW i \in DOMAIN pending, Unanswered(pending[i]),
         \A j \in 1..(i - 1) : ~Unanswered(pending[j]),
         NEW ok \in BOOLEAN, Handle(pending[i], ok), pending' = [pending EXCEPT ![i].ok = ok],
         UNCHANGED <<overdue, mode, screen, captcha, post, late, commands>>
  PROVE  IInv'
<1> DEFINE c == pending[i]
           d == [c EXCEPT !.ok = ok]
<1>1. /\ TypeOK /\ c \in Calls /\ WellFormed(c) /\ pending \in Seq(Calls)
      /\ \A k \in DOMAIN pending : k \in Nat \ {0}
  BY Indices, Types DEF IInv, TypeOK, CallsWellFormed
<1>2. /\ session' \in Users \union {None} /\ leaving' \in Modes \union {None}
      /\ leaving' = None => leaving = None
      /\ ~OfSession(c) => session' = session
      /\ c.call = "login" /\ ok = TRUE => session' = c.arg
      /\ c.call = "login" /\ ok = FALSE => session' = session
      /\ c.call = "logout" => session' = None
  BY <1>1, HandleSession
<1>3. ok # None /\ c.ok = None
  BY AuthScreensAssumption, Zenon DEF Unanswered
<1>4. /\ d \in Calls /\ d.call = c.call /\ d.arg = c.arg /\ d.slot = c.slot /\ d.ok = ok
      /\ WellFormed(d)
  BY <1>1 DEF Calls, WellFormed
<1>5. /\ DOMAIN pending' = DOMAIN pending /\ pending'[i] = d
      /\ \A k \in DOMAIN pending : k # i => pending'[k] = pending[k]
      /\ pending' \in Seq(Calls)
  <2>1. pending' = [pending EXCEPT ![i] = d]
    OBVIOUS
  <2> HIDE DEF d
  <2> QED BY <1>1, <1>4, <2>1
<1> HIDE DEF d
<1>6. TypeOK'
  BY <1>1, <1>2, <1>5 DEF TypeOK
<1>7. \A k \in DOMAIN pending : pending'[k].slot = pending[k].slot /\ pending'[k].call = pending[k].call
  BY <1>4, <1>5
<1>8. WidgetsOfScreen'
  BY <1>5, <1>7 DEF IInv, WidgetsOfScreen, Loading
<1>9. OneCallPerWidget' /\ NoPanelCalls'
  BY <1>5, <1>7 DEF IInv, OneCallPerWidget, NoPanelCalls
<1>10. CallsWellFormed'
  <2>1. \A k \in DOMAIN pending' : WellFormed(pending'[k])
    BY <1>4, <1>5 DEF IInv, CallsWellFormed
  <2>2. DOMAIN overdue' = {}
    OBVIOUS
  <2> QED BY <2>1, <2>2 DEF CallsWellFormed, WellFormed
<1>11. AnsweredFirst'
  <2> SUFFICES ASSUME NEW k \in DOMAIN pending, NEW j \in DOMAIN pending, k < j,
                      pending'[j].ok # None
               PROVE  pending'[k].ok # None
    BY <1>5 DEF AnsweredFirst, Unanswered
  <2>1. CASE k = i
    BY <1>3, <1>4, <1>5, <2>1
  <2>2. CASE k # i /\ j = i
    <3>1. k \in 1..(i - 1)
      BY <1>1, <2>2
    <3> QED BY <1>5, <2>2, <3>1 DEF Unanswered
  <2>3. CASE k # i /\ j # i
    BY <1>5, <2>3 DEF IInv, AnsweredFirst, Unanswered
  <2> QED BY <2>1, <2>2, <2>3
<1>12. EarlierAreOver'
  BY DEF EarlierAreOver
<1>13. SessionKnown'
  <2> SUFFICES ASSUME ~late, commands = 0 PROVE SessionKnown'
    BY DEF SessionKnown
  <2>1. \A k \in DOMAIN pending : i < k => ~Changed(pending[k]) /\ ~Changed(pending'[k])
    <3> SUFFICES ASSUME NEW k \in DOMAIN pending, i < k PROVE ~Changed(pending[k])
      BY <1>1, <1>5
    <3>1. pending[k].ok = None
      BY DEF IInv, AnsweredFirst, Unanswered
    <3> QED BY <3>1, AuthScreensAssumption, Zenon DEF Changed
  <2>2. ~Changed(c)
    BY <1>3, AuthScreensAssumption, Zenon DEF Changed
  <2>3. CASE Changed(d)
    <3>1. session' = SessionBy(d)
      BY <1>2, <1>4, <2>3 DEF Changed, SessionBy
    <3>2. ASSUME NEW k \in DOMAIN pending', Changed(pending'[k]),
                 \A j \in DOMAIN pending' : k < j => ~Changed(pending'[j])
          PROVE  session' = SessionBy(pending'[k])
      <4>1. k = i
        <5>1. k \in DOMAIN pending /\ k \in Nat /\ i \in Nat
          BY <1>1, <1>5
        <5>2. ~(k < i)
          BY <1>5, <2>3, <3>2
        <5>3. ~(i < k)
          BY <2>1, <3>2, <5>1
        <5> QED BY <5>1, <5>2, <5>3
      <4> QED BY <1>5, <3>1, <4>1
    <3>3. ~\A k \in DOMAIN pending' : ~Changed(pending'[k])
      BY <1>5, <2>3
    <3> QED BY <3>2, <3>3 DEF SessionKnown, Changed, SessionBy
  <2>4. CASE ~Changed(d)
    <3>1. session' = session
      <4>1. c.call = "login" => ok = FALSE
        BY <1>4, <2>4, Zenon DEF Changed
      <4>2. c.call # "logout"
        BY <1>3, <1>4, <2>4 DEF Changed
      <4> QED BY <1>2, <4>1, <4>2 DEF OfSession
    <3>2. \A k \in DOMAIN pending : /\ Changed(pending'[k]) <=> Changed(pending[k])
                                    /\ Changed(pending[k]) => pending'[k] = pending[k]
      BY <1>5, <2>2, <2>4
    <3>3. ASSUME NEW k \in DOMAIN pending', Changed(pending'[k]),
                 \A j \in DOMAIN pending' : k < j => ~Changed(pending'[j])
          PROVE  session' = SessionBy(pending'[k])
      <4>1. k \in DOMAIN pending /\ Changed(pending[k]) /\ pending'[k] = pending[k]
        BY <1>5, <3>2, <3>3
      <4>2. \A j \in DOMAIN pending : k < j => ~Changed(pending[j])
        BY <1>5, <3>2, <3>3
      <4> QED BY <3>1, <4>1, <4>2 DEF IInv, SessionKnown
    <3>4. ASSUME screen \in Users, leaving' = None, \A k \in DOMAIN pending' : ~Changed(pending'[k])
          PROVE  session' = screen
      <4>1. \A k \in DOMAIN pending : ~Changed(pending[k])
        BY <1>5, <3>2, <3>4
      <4> QED BY <1>2, <3>1, <3>4, <4>1 DEF IInv, SessionKnown
    <3> QED BY <3>3, <3>4 DEF SessionKnown, Changed, SessionBy
  <2> QED BY <2>3, <2>4
<1> QED BY <1>6, <1>8, <1>9, <1>10, <1>11, <1>12, <1>13 DEF IInv

LEMMA CommitKeepsIInv ==
  ASSUME IInv, Commit
  PROVE  IInv'
<1> DEFINE c == Call("getLayout", "login")
<1>1. c \in Calls /\ WellFormed(c) /\ c.ok = None /\ c.slot = None
  BY NewCalls DEF Forms
<1>2. /\ TypeOK /\ pending' = <<c>> /\ overdue' = overdue \o NotAnswered /\ leaving' = None
      /\ mode' = leaving /\ leaving # None /\ screen' = "blank" /\ captcha' = NoCaptcha
      /\ UNCHANGED session
  BY DEF IInv, Commit
<1>3. ~post' /\ ~late' /\ commands' = 0 /\ post' \in BOOLEAN /\ late' \in BOOLEAN
  BY DEF Commit
<1>4. DOMAIN pending' = {1} /\ pending'[1] = c /\ pending' \in Seq(Calls)
  BY <1>1, <1>2
<1>5. /\ NotAnswered \in Seq(Calls)
      /\ \A i \in DOMAIN NotAnswered : \E j \in DOMAIN pending : NotAnswered[i] = pending[j]
  <2>1. pending \in Seq(Calls) /\ Answered \in SUBSET DOMAIN pending
    BY <1>2 DEF TypeOK, Answered
  <2> QED BY <2>1, Rest DEF NotAnswered
<1>6. /\ overdue' \in Seq(Calls)
      /\ \A i \in DOMAIN overdue' :
           \/ i \in DOMAIN overdue /\ overdue'[i] = overdue[i]
           \/ \E j \in DOMAIN pending : overdue'[i] = pending[j]
  BY <1>2, <1>5, Joined DEF TypeOK
<1>7. TypeOK'
  <2>1. captcha' \in [Slots -> {"none", "loading", "failed", "ready"}]
    BY <1>2 DEF NoCaptcha
  <2>2. commands' \in 0..MaxPanel
    BY <1>3, PanelBound
  <2> QED BY <1>2, <1>3, <1>4, <1>6, <2>1, <2>2 DEF TypeOK, Screens
<1>8. screen' \notin Users
  BY <1>2, AuthScreensAssumption
<1>9. WidgetsOfScreen'
  BY <1>1, <1>2, <1>3, <1>4, NoneIsNoSlot DEF WidgetsOfScreen, Loading, NoCaptcha, Slots, Forms
<1>10. CallsWellFormed'
  <2>1. \A i \in DOMAIN pending' : WellFormed(pending'[i])
    BY <1>1, <1>4
  <2>2. \A i \in DOMAIN overdue' : WellFormed(overdue'[i])
    BY <1>6 DEF IInv, CallsWellFormed
  <2> QED BY <2>1, <2>2 DEF CallsWellFormed, WellFormed
<1>11. OneCallPerWidget' /\ AnsweredFirst' /\ NoPanelCalls'
  BY <1>1, <1>4, NoneIsNoSlot DEF OneCallPerWidget, AnsweredFirst, NoPanelCalls, Unanswered
<1>12. EarlierAreOver'
  BY <1>1, <1>4, <1>8 DEF EarlierAreOver, Unanswered
<1>13. ~Changed(c)
  BY DEF Changed, Call
<1>14. SessionKnown'
  BY <1>4, <1>8, <1>13 DEF SessionKnown, Changed
<1> QED BY <1>7, <1>9, <1>10, <1>11, <1>12, <1>14 DEF IInv

LEMMA ReloadKeepsIInv ==
  ASSUME IInv, Reload
  PROVE  IInv'
<1>1. /\ TypeOK /\ leaving' = mode
      /\ UNCHANGED <<mode, screen, captcha, post, pending, overdue, session, late, commands>>
  BY DEF IInv, Reload, calls
<1>2. leaving' # None /\ leaving' \in Modes
  BY <1>1, AuthScreensAssumption DEF TypeOK, Modes
<1>3. TypeOK'
  BY <1>1, <1>2 DEF TypeOK
<1>4. /\ WidgetsOfScreen' /\ CallsWellFormed' /\ OneCallPerWidget' /\ AnsweredFirst'
      /\ NoPanelCalls' /\ EarlierAreOver'
  BY <1>1 DEF IInv, WidgetsOfScreen, Loading, CallsWellFormed, WellFormed, OneCallPerWidget,
     AnsweredFirst, NoPanelCalls, EarlierAreOver, Unanswered, OfSession
<1>5. SessionKnown'
  BY <1>1, <1>2 DEF IInv, SessionKnown, Changed, SessionBy
<1> QED BY <1>3, <1>4, <1>5 DEF IInv

\* What the user starts.
LEMMA UserKeepsIInv ==
  ASSUME IInv,
         \/ \E form \in Forms : NavigateForm(form)
         \/ \E u \in Users : SubmitLogin(u) \/ SubmitRegister(u)
         \/ FinishRegister
         \/ \E s \in Slots : RetryCaptcha(s)
         \/ \E m \in Modes : SwitchInterface(m)
         \/ Logout \/ PanelCommand
  PROVE  IInv'
<1>1. TypeOK /\ commands \in 0..MaxPanel
  BY DEF IInv, TypeOK
<1>2. ASSUME NEW c \in Calls, WellFormed(c), c.ok = None, c.slot = None, CallNative(c),
             UNCHANGED <<page, commands>>
      PROVE  IInv'
  BY <1>1, <1>2, NoneIsNoSlot, CallKeepsIInv DEF page
<1>3. ASSUME NEW c \in Calls, WellFormed(c), c.ok = None, c.slot = "panel", Command(c)
      PROVE  IInv'
  <2>1. CallNative(c) /\ commands' = commands + 1 /\ UNCHANGED page /\ commands < MaxPanel
    BY <1>3 DEF Command
  <2>2. commands' \in 0..MaxPanel /\ commands' # 0
    BY <1>1, <2>1, PanelBound
  <2> QED BY <1>3, <2>1, <2>2, NoneIsNoSlot, CallKeepsIInv DEF page
<1>4. ASSUME NEW s \in Slots, RetryCaptcha(s) PROVE IInv'
  <2>1. Captcha(s) \in Calls /\ WellFormed(Captcha(s)) /\ Captcha(s).slot = s /\ Captcha(s).ok = None
    BY NewCalls
  <2> QED BY <1>1, <1>4, <2>1, NoneIsNoSlot, CallKeepsIInv DEF RetryCaptcha
<1>5. CASE \E form \in Forms : NavigateForm(form)
  BY <1>2, <1>5, NewCalls DEF NavigateForm
<1>6. CASE \E u \in Users : SubmitLogin(u) \/ SubmitRegister(u)
  BY <1>2, <1>6, NewCalls DEF SubmitLogin, SubmitRegister
<1>7. CASE FinishRegister
  BY <1>2, <1>7, NewCalls DEF FinishRegister, Forms
<1>8. CASE \E m \in Modes : SwitchInterface(m)
  BY <1>2, <1>8, NewCalls DEF SwitchInterface
<1>9. CASE Logout
  BY <1>2, <1>9, NewCalls DEF Logout
<1>10. CASE PanelCommand
  BY <1>3, <1>10, NewCalls DEF PanelCommand
<1> QED BY <1>4, <1>5, <1>6, <1>7, <1>8, <1>9, <1>10

LEMMA DispatchKeepsIInv ==
  ASSUME IInv, Dispatch
  PROVE  IInv'
<1>1. PICK ok \in BOOLEAN :
        IF overdue # <<>>
        THEN Handle(Head(overdue), ok) /\ overdue' = Tail(overdue) /\ UNCHANGED pending
        ELSE \E i \in DOMAIN pending :
               /\ Unanswered(pending[i]) /\ \A j \in 1..(i - 1) : ~Unanswered(pending[j])
               /\ Handle(pending[i], ok)
               /\ pending' = [pending EXCEPT ![i].ok = ok]
               /\ UNCHANGED overdue
  BY DEF Dispatch
<1>2. UNCHANGED <<mode, screen, captcha, post, late, commands>>
  BY DEF Dispatch
<1>3. CASE overdue # <<>>
  BY <1>1, <1>2, <1>3, OverdueKeepsIInv
<1>4. CASE overdue = <<>>
  BY <1>1, <1>2, <1>4, HandledKeepsIInv
<1> QED BY <1>3, <1>4

LEMMA StutterKeepsIInv ==
  ASSUME IInv, UNCHANGED vars
  PROVE  IInv'
BY DEF vars, page, calls, IInv, TypeOK, WidgetsOfScreen, Loading, CallsWellFormed, WellFormed,
   OneCallPerWidget, AnsweredFirst, NoPanelCalls, EarlierAreOver, Unanswered, OfSession,
   SessionKnown, Changed, SessionBy

\* Each widget waits for one captcha that is under way (layout-renderer.js), the
\* native side answers in order, and what it has answered last and what the page
\* shows agree on the session (Bridge.cpp handleLogin, handleLogout).
THEOREM Invariance == Spec => []IInv
<1>1. IInv /\ [Next]_vars => IInv'
  BY UserKeepsIInv, ReloadKeepsIInv, CommitKeepsIInv, ReturnKeepsIInv, TimeOutKeepsIInv,
     DispatchKeepsIInv, StutterKeepsIInv DEF Next
<1> QED BY InitIInv, <1>1, PTL DEF Spec

\* The session of the native side is that of the chat shell on the screen, through
\* overlapping logins, reloads and handlers that documents left behind.
THEOREM SessionOfShell == Spec => []ShellIsSession
<1>1. IInv => ShellIsSession
  <2> SUFFICES ASSUME IInv, screen \in Users, Quiet PROVE session = screen
    BY DEF ShellIsSession
  <2>1. \A i \in DOMAIN pending : ~Changed(pending[i])
    BY DEF Quiet, OfSession, Changed
  <2> QED BY <2>1 DEF Quiet, IInv, SessionKnown
<1> QED BY Invariance, <1>1, PTL
=============================================================================
