--------------------------- MODULE BridgeJs_proofs ---------------------------
(***************************************************************************)
(* What holds of the calls of the page for any number of calls and reloads: *)
(* none is lost while its document lives (IInv), a resolver gets its own    *)
(* answer (OwnAnswers), and calls are over in the order they were made      *)
(* (InOrder), which ChatShell and AuthScreens rest on.                      *)
(***************************************************************************)
EXTENDS BridgeJs, QueueFacts, TLAPS

LEMMA Types ==
  ASSUME TypeOK
  PROVE  /\ inbox \in Seq(Messages) /\ answers \in Seq(Messages)
         /\ \A m \in Messages : m.doc \in 1..MaxDocs /\ m.id \in 1..MaxCalls /\ m.call \in Names
         /\ doc \in Nat /\ lastId \in Nat
BY BridgeJsAssumption DEF TypeOK, Messages

\* Dropping the first element keeps a queue in order.
LEMMA TailInOrder ==
  ASSUME NEW S, NEW q \in Seq(S), q # <<>>, InOrderOf(q)
  PROVE  InOrderOf(Tail(q))
<1> SUFFICES ASSUME NEW i \in DOMAIN Tail(q), NEW j \in DOMAIN Tail(q), i < j
             PROVE  Before(Tail(q)[i], Tail(q)[j])
  BY DEF InOrderOf
<1>1. i + 1 \in DOMAIN q /\ j + 1 \in DOMAIN q /\ i + 1 < j + 1
  BY HeadAndTail
<1> QED BY <1>1, HeadAndTail DEF InOrderOf

\* So does adding what comes after everything in it.
LEMMA AppendInOrder ==
  ASSUME NEW S, NEW q \in Seq(S), NEW x \in S, InOrderOf(q), \A i \in DOMAIN q : Before(q[i], x)
  PROVE  InOrderOf(Append(q, x))
<1> DEFINE r == Append(q, x)
<1> SUFFICES ASSUME NEW i \in DOMAIN r, NEW j \in DOMAIN r, i < j PROVE Before(r[i], r[j])
  BY DEF InOrderOf
<1>1. i \in DOMAIN q /\ r[i] = q[i]
  BY Appended
<1>2. CASE j \in DOMAIN q
  BY <1>1, <1>2, Appended DEF InOrderOf
<1>3. CASE j = Len(q) + 1
  BY <1>1, <1>3, Appended
<1> QED BY <1>2, <1>3, Appended
-----------------------------------------------------------------------------
(* The inductive invariant *)

LEMMA InitIInv == Init => IInv
BY BridgeJsAssumption DEF Init, IInv, TypeOK, Messages, Waiting, QueuesInOrder, InOrderOf, NotAhead,
   StillComing, Named

LEMMA CallKeepsIInv ==
  ASSUME IInv, NEW call \in Names, CallNative(call)
  PROVE  IInv'
<1> DEFINE m == [doc |-> doc, id |-> NextId, call |-> call]
<1>1. TypeOK /\ m \in Messages /\ NextId = lastId + 1 /\ lastId < MaxCalls /\ NextId \in 1..MaxCalls
  BY BridgeJsAssumption DEF IInv, TypeOK, CallNative, NextId, Messages
<1>2. /\ inbox' = Append(inbox, m) /\ UNCHANGED <<doc, answers>> /\ lastId' = NextId
      /\ Waiting' = Waiting \union {NextId}
      /\ pending'[NextId] = call /\ \A id \in Waiting : id # NextId /\ pending'[id] = pending[id]
  BY <1>1 DEF CallNative, IInv, TypeOK, Waiting
<1>3. TypeOK'
  BY <1>1, <1>2, Types, Appended DEF CallNative, TypeOK, Waiting
<1>4. \A i \in DOMAIN inbox : Before(inbox[i], m)
  BY <1>1, Types DEF IInv, NotAhead, Before
<1>5. \A i \in DOMAIN answers : Before(answers[i], m)
  BY <1>1, Types DEF IInv, NotAhead, Before
<1>6. QueuesInOrder'
  <2>1. InOrderOf(Append(inbox, m))
    BY <1>1, <1>4, Types, AppendInOrder DEF IInv, QueuesInOrder
  <2>2. \A i \in DOMAIN answers, j \in DOMAIN inbox' : Before(answers[i], inbox'[j])
    BY <1>1, <1>2, <1>5, Types, Appended DEF IInv, QueuesInOrder
  <2> QED BY <1>2, <2>1, <2>2 DEF IInv, QueuesInOrder, InOrderOf, Before
<1>7. NotAhead(inbox)' /\ NotAhead(answers)'
  BY <1>1, <1>2, Types, Appended DEF IInv, NotAhead
<1>8. StillComing'
  <2> SUFFICES ASSUME NEW id \in Waiting' PROVE Holds(inbox, id)' \/ Holds(answers, id)'
    BY DEF StillComing
  <2>1. CASE id \in Waiting
    BY <1>1, <1>2, <2>1, Types, Appended DEF IInv, StillComing, Holds
  <2>2. CASE id = NextId
    <3>1. Len(inbox) + 1 \in DOMAIN inbox' /\ inbox'[Len(inbox) + 1] = m
      BY <1>1, <1>2, Types, Appended
    <3> QED BY <1>2, <2>2, <3>1 DEF Holds
  <2> QED BY <1>2, <2>1, <2>2
<1>9. Named(inbox)'
  <2> SUFFICES ASSUME NEW i \in DOMAIN inbox', inbox'[i].doc = doc, inbox'[i].id \in Waiting'
               PROVE  inbox'[i].call = pending'[inbox'[i].id]
    BY <1>2 DEF Named
  <2>1. CASE i \in DOMAIN inbox /\ inbox'[i] = inbox[i]
    <3>1. inbox[i] \in Messages /\ inbox[i].doc = doc /\ inbox[i].id \in Waiting \union {NextId}
      BY <1>1, <1>2, <2>1, Types
    <3>2. inbox[i].id <= lastId /\ inbox[i].id \in Nat
      BY <1>1, <3>1, <2>1, Types DEF IInv, NotAhead
    <3>3. inbox[i].id \in Waiting
      BY <1>1, <3>1, <3>2, Types
    <3>4. inbox[i].call = pending[inbox[i].id]
      BY <2>1, <3>1, <3>3 DEF IInv, Named
    <3> QED BY <1>2, <2>1, <3>3, <3>4
  <2>2. CASE inbox'[i] = m
    BY <1>2, <2>2
  <2> QED BY <1>1, <1>2, <2>1, <2>2, Types, Appended
<1>10. Named(answers)'
  <2> SUFFICES ASSUME NEW i \in DOMAIN answers, answers[i].doc = doc, answers[i].id \in Waiting'
               PROVE  answers[i].call = pending'[answers[i].id]
    BY <1>2 DEF Named
  <2>1. answers[i].id <= lastId
    BY <1>1, Types DEF IInv, NotAhead
  <2> QED BY <1>1, <1>2, <2>1, Types DEF IInv, Named
<1> QED BY <1>3, <1>6, <1>7, <1>8, <1>9, <1>10 DEF IInv

LEMMA DispatchKeepsIInv ==
  ASSUME IInv, Dispatch
  PROVE  IInv'
<1> DEFINE h == Head(inbox)
<1>1. TypeOK /\ inbox # <<>> /\ UNCHANGED <<doc, lastId, pending>> /\ Waiting' = Waiting
  BY DEF IInv, Dispatch, Waiting
<1>2. /\ inbox' = Tail(inbox) /\ answers' = Append(answers, h)
      /\ h = inbox[1] /\ 1 \in DOMAIN inbox /\ h \in Messages
  BY <1>1, Types, HeadAndTail DEF Dispatch, Post
<1>3. TypeOK'
  BY <1>1, <1>2, Types, HeadAndTail, Appended DEF TypeOK
<1>4. \A i \in DOMAIN inbox' : i + 1 \in DOMAIN inbox /\ inbox'[i] = inbox[i + 1] /\ 1 < i + 1
  BY <1>1, <1>2, Types, HeadAndTail
<1>5. \A i \in DOMAIN answers' : (i \in DOMAIN answers /\ answers'[i] = answers[i]) \/ answers'[i] = h
  BY <1>1, <1>2, Types, Appended
<1>6. QueuesInOrder'
  <2>1. InOrderOf(Tail(inbox))
    BY <1>1, Types, TailInOrder DEF IInv, QueuesInOrder
  <2>2. InOrderOf(Append(answers, h))
    BY <1>1, <1>2, Types, AppendInOrder DEF IInv, QueuesInOrder
  <2>3. ASSUME NEW i \in DOMAIN answers', NEW j \in DOMAIN inbox'
        PROVE  Before(answers'[i], inbox'[j])
    <3>1. j + 1 \in DOMAIN inbox /\ inbox'[j] = inbox[j + 1] /\ 1 < j + 1
      BY <1>4
    <3>2. Before(h, inbox[j + 1])
      BY <1>2, <3>1 DEF IInv, QueuesInOrder, InOrderOf
    <3>3. CASE i \in DOMAIN answers /\ answers'[i] = answers[i]
      BY <3>1, <3>3 DEF IInv, QueuesInOrder
    <3> QED BY <1>5, <3>1, <3>2, <3>3
  <2>4. \A i \in DOMAIN answers', j \in DOMAIN inbox' : Before(answers'[i], inbox'[j])
    BY <2>3
  <2>5. InOrderOf(inbox') /\ InOrderOf(answers')
    BY <1>2, <2>1, <2>2
  <2> QED BY <2>4, <2>5 DEF QueuesInOrder, InOrderOf, Before
<1>7. NotAhead(inbox)' /\ NotAhead(answers)'
  BY <1>1, <1>2, <1>4, <1>5 DEF IInv, NotAhead
<1>8. StillComing'
  <2> SUFFICES ASSUME NEW id \in Waiting PROVE Holds(inbox, id)' \/ Holds(answers, id)'
    BY <1>1 DEF StillComing
  <2>1. CASE Holds(answers, id)
    BY <1>1, <1>2, <2>1, Types, Appended DEF Holds
  <2>2. CASE Holds(inbox, id)
    <3>1. PICK i \in DOMAIN inbox : inbox[i].doc = doc /\ inbox[i].id = id
      BY <2>2 DEF Holds
    <3>2. CASE i = 1
      <4>1. Len(answers) + 1 \in DOMAIN answers' /\ answers'[Len(answers) + 1] = inbox[i]
        BY <1>1, <1>2, <3>2, Types, Appended
      <4> QED BY <1>1, <3>1, <4>1 DEF Holds
    <3>3. CASE i # 1
      <4>1. i - 1 \in DOMAIN inbox' /\ inbox'[i - 1] = inbox[i]
        BY <1>1, <1>2, <3>3, Types, HeadAndTail
      <4> QED BY <1>1, <3>1, <4>1 DEF Holds
    <3> QED BY <3>2, <3>3
  <2> QED BY <2>1, <2>2 DEF IInv, StillComing
<1>9. Named(inbox)' /\ Named(answers)'
  BY <1>1, <1>2, <1>4, <1>5 DEF IInv, Named
<1> QED BY <1>3, <1>6, <1>7, <1>8, <1>9 DEF IInv

LEMMA ReceiveKeepsIInv ==
  ASSUME IInv, Receive
  PROVE  IInv'
<1> DEFINE h == Head(answers)
<1>1. TypeOK /\ answers # <<>> /\ UNCHANGED <<doc, lastId, inbox>> /\ answers' = Tail(answers)
  BY DEF IInv, Receive
<1>2. /\ pending' = [i \in Waiting \ {h.id} |-> pending[i]] /\ Waiting' = Waiting \ {h.id}
      /\ \A id \in Waiting' : id \in Waiting /\ id # h.id /\ pending'[id] = pending[id]
      /\ h = answers[1]
  BY <1>1, Types, HeadAndTail DEF Receive, Resolve, Waiting
<1>3. TypeOK'
  BY <1>1, <1>2, Types, HeadAndTail DEF TypeOK, Waiting
<1>4. \A i \in DOMAIN answers' : i + 1 \in DOMAIN answers /\ answers'[i] = answers[i + 1]
  BY <1>1, Types, HeadAndTail
<1>5. QueuesInOrder'
  <2>1. InOrderOf(Tail(answers))
    BY <1>1, Types, TailInOrder DEF IInv, QueuesInOrder
  <2> QED BY <1>1, <1>4, <2>1 DEF IInv, QueuesInOrder, InOrderOf, Before
<1>6. NotAhead(inbox)' /\ NotAhead(answers)'
  BY <1>1, <1>4 DEF IInv, NotAhead
<1>7. StillComing'
  <2> SUFFICES ASSUME NEW id \in Waiting' PROVE Holds(inbox, id)' \/ Holds(answers, id)'
    BY DEF StillComing
  <2>1. CASE Holds(inbox, id)
    BY <1>1, <2>1 DEF Holds
  <2>2. CASE Holds(answers, id)
    <3>1. PICK i \in DOMAIN answers : answers[i].doc = doc /\ answers[i].id = id
      BY <2>2 DEF Holds
    <3>2. i # 1
      BY <1>2, <3>1
    <3>3. i - 1 \in DOMAIN answers' /\ answers'[i - 1] = answers[i]
      BY <1>1, <3>2, Types, HeadAndTail
    <3> QED BY <1>1, <3>1, <3>3 DEF Holds
  <2> QED BY <1>2, <2>1, <2>2 DEF IInv, StillComing
<1>8. Named(inbox)' /\ Named(answers)'
  BY <1>1, <1>2, <1>4 DEF IInv, Named
<1> QED BY <1>3, <1>5, <1>6, <1>7, <1>8 DEF IInv

LEMMA TimeOutKeepsIInv ==
  ASSUME IInv, TimeOut
  PROVE  IInv'
<1>1. TypeOK /\ UNCHANGED <<doc, lastId, inbox, answers>>
  BY DEF IInv, TimeOut
<1>2. PICK old \in Waiting : pending' = [i \in Waiting \ {old} |-> pending[i]]
  BY DEF TimeOut, Resolve
<1>3. /\ Waiting' = Waiting \ {old}
      /\ \A id \in Waiting' : id \in Waiting /\ pending'[id] = pending[id]
  BY <1>2 DEF Waiting
<1>4. TypeOK'
  BY <1>1, <1>2, <1>3 DEF TypeOK, Waiting
<1>5. QueuesInOrder' /\ NotAhead(inbox)' /\ NotAhead(answers)'
  BY <1>1 DEF IInv, QueuesInOrder, InOrderOf, NotAhead, Before
<1>6. StillComing' /\ Named(inbox)' /\ Named(answers)'
  BY <1>1, <1>3 DEF IInv, StillComing, Holds, Named
<1> QED BY <1>4, <1>5, <1>6 DEF IInv

LEMMA LoadKeepsIInv ==
  ASSUME IInv, Load
  PROVE  IInv'
<1>1. /\ TypeOK /\ inbox' = inbox /\ answers' = <<>> /\ doc' = doc + 1 /\ doc < MaxDocs
      /\ lastId' = 0 /\ Waiting' = {}
  BY DEF IInv, Load, Waiting
<1>2. TypeOK'
  BY <1>1, BridgeJsAssumption DEF Load, TypeOK, Waiting
<1>3. QueuesInOrder'
  BY <1>1 DEF IInv, QueuesInOrder, InOrderOf, Before
<1>4. \A i \in DOMAIN inbox : inbox[i].doc \in Nat /\ inbox[i].doc < doc + 1
  BY <1>1, Types DEF IInv, NotAhead
<1>5. NotAhead(inbox)' /\ NotAhead(answers)'
  BY <1>1, <1>4 DEF NotAhead
<1>6. StillComing' /\ Named(inbox)' /\ Named(answers)'
  BY <1>1 DEF StillComing, Named
<1> QED BY <1>2, <1>3, <1>5, <1>6 DEF IInv

LEMMA StutterKeepsIInv ==
  ASSUME IInv, UNCHANGED vars
  PROVE  IInv'
BY DEF vars, IInv, TypeOK, Waiting, QueuesInOrder, InOrderOf, Before, NotAhead, StillComing, Holds, Named

\* What is under way belongs to calls that are waited for or over, in the order
\* of the calls, and every call waited for has its message or answer under way:
\* the state of callNative() (bridge.js 29-50) and of the message handler.
THEOREM Invariance == Spec => []IInv
<1>1. IInv /\ [Next]_vars => IInv'
  BY CallKeepsIInv, DispatchKeepsIInv, ReceiveKeepsIInv, TimeOutKeepsIInv, LoadKeepsIInv,
     StutterKeepsIInv DEF Next
<1> QED BY InitIInv, <1>1, PTL DEF Spec
-----------------------------------------------------------------------------
(* The action properties *)

\* The message listener (bridge.js 14-20) resolves a call with its own answer,
\* unless that answer is to a call of an earlier document.
THEOREM AnswersAreOwn == Spec => OwnAnswers
<1>1. ASSUME IInv, Receive, ~Foreign, NEW id \in Waiting \ DOMAIN pending'
      PROVE  pending[id] = Head(answers).call
  <2>1. answers # <<>> /\ id = Head(answers).id /\ Head(answers).doc = doc
    BY <1>1 DEF Receive, Foreign, Resolve
  <2>2. Head(answers) = answers[1] /\ 1 \in DOMAIN answers
    BY <1>1, <2>1, Types, HeadAndTail DEF IInv
  <2> QED BY <1>1, <2>1, <2>2 DEF IInv, Named
<1>2. IInv /\ [Next]_vars =>
        [ Receive /\ ~Foreign =>
            \A id \in Waiting \ DOMAIN pending' : pending[id] = Head(answers).call ]_vars
  BY <1>1
<1> QED BY Invariance, <1>2, PTL DEF Spec, OwnAnswers

\* A call is over before every later call of its document: answers keep the order
\* of the messages, and the timers (bridge.js 38-43) that of the calls.
THEOREM CallsAreAQueue == Spec => InOrder
<1> DEFINE Over(id) == id \notin DOMAIN pending'
<1>1. ASSUME IInv, Next, doc' = doc, ~Foreign, NEW id \in Waiting, Over(id),
             NEW j \in Waiting, j < id
      PROVE  Over(j)
  <2> USE <1>1
  <2>1. TypeOK /\ id \in Nat /\ j \in Nat
    BY DEF IInv, TypeOK
  <2>2. CASE \E call \in Names : CallNative(call)
    BY <2>2 DEF CallNative, Waiting
  <2>3. CASE Dispatch
    BY <2>3 DEF Dispatch, Waiting
  <2>4. CASE Receive
    <3>1. answers # <<>> /\ id = Head(answers).id /\ Head(answers).doc = doc
      BY <2>4 DEF Receive, Foreign, Resolve
    <3>2. Head(answers) = answers[1] /\ 1 \in DOMAIN answers
      BY <2>1, <3>1, Types, HeadAndTail
    <3>3. CASE Holds(inbox, j)
      <4>1. PICK k \in DOMAIN inbox : inbox[k].doc = doc /\ inbox[k].id = j
        BY <3>3 DEF Holds
      <4>2. Before(answers[1], inbox[k])
        BY <3>2 DEF IInv, QueuesInOrder
      <4> QED BY <2>1, <3>1, <3>2, <4>1, <4>2, Types DEF Before
    <3>4. CASE Holds(answers, j)
      <4>1. PICK k \in DOMAIN answers : answers[k].doc = doc /\ answers[k].id = j
        BY <3>4 DEF Holds
      <4>2. k # 1
        BY <2>1, <3>1, <3>2, <4>1
      <4>3. 1 < k
        BY <2>1, <4>1, <4>2, Types
      <4>4. Before(answers[1], answers[k])
        BY <3>2, <4>1, <4>3 DEF IInv, QueuesInOrder, InOrderOf
      <4> QED BY <2>1, <3>1, <3>2, <4>1, <4>4, Types DEF Before
    <3> QED BY <3>3, <3>4 DEF IInv, StillComing
  <2>5. CASE TimeOut
    <3>1. Oldest(id)
      BY <2>5 DEF TimeOut, Resolve
    <3> QED BY <2>1, <3>1 DEF Oldest
  <2>6. CASE Load
    BY <2>1, <2>6, Types DEF Load
  <2> QED BY <2>2, <2>3, <2>4, <2>5, <2>6 DEF Next
<1>2. IInv /\ [Next]_vars =>
        [ doc' = doc /\ ~Foreign =>
            \A id \in Waiting \ DOMAIN pending', j \in Waiting :
              j < id => j \notin DOMAIN pending' ]_vars
  BY <1>1
<1> QED BY Invariance, <1>2, PTL DEF Spec, InOrder
=============================================================================
