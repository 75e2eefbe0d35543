------------------------------ MODULE BridgeJs ------------------------------
(***************************************************************************)
(* The way of a call from the page to the native side and back: bridge.js,  *)
(* the message handler of WebViewHost, and the documents that follow each   *)
(* other in the one window.                                                 *)
(*                                                                         *)
(* The native side takes the messages in the order they were posted,        *)
(* whichever document posted them, and posts each answer to the document    *)
(* that is loaded by then.  Request ids start again in every document, so   *)
(* an answer to a call of an earlier document may meet a call of this one.  *)
(***************************************************************************)
EXTENDS Naturals, Sequences, FiniteSets

CONSTANTS
  Names,     \* the calls there are
  MaxCalls,  \* bounds the calls of one document
  MaxDocs    \* bounds the documents loaded

ASSUME BridgeJsAssumption == MaxCalls \in Nat /\ MaxDocs \in Nat \ {0}

VARIABLES
  doc,      \* the number of the loaded document
  lastId,   \* _requestId
  pending,  \* _pending: request id -> the call a resolver and a timer wait for
  inbox,    \* messages on their way to the native side
  answers   \* answers on their way to the loaded document

vars == <<doc, lastId, pending, inbox, answers>>

Messages == [doc : 1..MaxDocs, id : 1..MaxCalls, call : Names]
Waiting == DOMAIN pending

TypeOK ==
  /\ doc \in 1..MaxDocs
  /\ lastId \in 0..MaxCalls
  /\ Waiting \subseteq 1..lastId /\ pending \in [Waiting -> Names]
  /\ inbox \in Seq(Messages)
  /\ answers \in Seq(Messages)

Init ==
  /\ doc = 1 /\ lastId = 0 /\ pending = [id \in {} |-> {}]
  /\ inbox = <<>> /\ answers = <<>>
-----------------------------------------------------------------------------
ReusedId == Cardinality(Waiting) + 1
NextId == lastId + 1

CallNative(call) ==
  /\ lastId < MaxCalls
  /\ lastId' = NextId
  /\ pending' = [id \in Waiting \union {NextId} |-> IF id = NextId THEN call ELSE pending[id]]
  /\ inbox' = Append(inbox, [doc |-> doc, id |-> NextId, call |-> call])
  /\ UNCHANGED <<doc, answers>>

Resolve(id) == pending' = [i \in Waiting \ {id} |-> pending[i]]

\* The message handler, once dispatch() has come back with a result.
PostFirst(answer) == <<answer>> \o answers
Post(answer) == Append(answers, answer)

Dispatch ==
  /\ inbox # <<>>
  /\ inbox' = Tail(inbox)
  /\ answers' = Post(Head(inbox))
  /\ UNCHANGED <<doc, lastId, pending>>

\* The message event: an answer nobody waits for is ignored.
Receive ==
  /\ answers # <<>>
  /\ answers' = Tail(answers)
  /\ Resolve(Head(answers).id)
  /\ UNCHANGED <<doc, lastId, inbox>>

\* Every timer has the same ten seconds, so the one of the oldest call is first.
RoomForLogin(id) == \A j \in Waiting : pending[j] # "login" => id <= j
Oldest(id) == \A j \in Waiting : id <= j

OnlyLogin(call) == call = "login"
HasTimer(call) == TRUE

TimeOut ==
  /\ \E id \in Waiting :
       /\ Oldest(id) /\ HasTimer(pending[id])
       /\ Resolve(id)
  /\ UNCHANGED <<doc, lastId, inbox, answers>>

\* The next document is loaded: what was under way to this one is not delivered,
\* what it has posted is.
Load ==
  /\ doc < MaxDocs
  /\ doc' = doc + 1
  /\ lastId' = 0 /\ pending' = [id \in {} |-> {}]
  /\ answers' = <<>>
  /\ UNCHANGED inbox

Next ==
  \/ \E call \in Names : CallNative(call)
  \/ Dispatch \/ Receive \/ TimeOut \/ Load

Spec == Init /\ [][Next]_vars

\* The timers of the page fire; the native side need not come back, because a
\* handler may wait for the server without end.
FairSpec == Spec /\ WF_vars(TimeOut)
-----------------------------------------------------------------------------
(* Properties *)

\* Messages and answers are in the order the calls were made, document by document.
Before(a, b) == a.doc < b.doc \/ (a.doc = b.doc /\ a.id < b.id)
InOrderOf(queue) == \A i, j \in DOMAIN queue : i < j => Before(queue[i], queue[j])
QueuesInOrder ==
  /\ InOrderOf(answers) /\ InOrderOf(inbox)
  /\ \A i \in DOMAIN answers, j \in DOMAIN inbox : Before(answers[i], inbox[j])

NotAhead(queue) ==
  \A i \in DOMAIN queue :
    queue[i].doc < doc \/ (queue[i].doc = doc /\ queue[i].id <= lastId)

\* What a queue holds for the call id of the loaded document.
Holds(queue, id) == \E i \in DOMAIN queue : queue[i].doc = doc /\ queue[i].id = id

\* Every call the page waits for is still to be handled, or its answer is still
\* to be received: while a document lives, none of its answers is lost.
StillComing == \A id \in Waiting : Holds(inbox, id) \/ Holds(answers, id)

Named(queue) ==
  \A i \in DOMAIN queue :
    queue[i].doc = doc /\ queue[i].id \in Waiting => queue[i].call = pending[queue[i].id]

IInv ==
  /\ TypeOK
  /\ QueuesInOrder /\ NotAhead(inbox) /\ NotAhead(answers)
  /\ StillComing
  /\ Named(inbox) /\ Named(answers)

\* The answer received is one to a call of an earlier document.
Foreign == Receive /\ Head(answers).doc # doc

\* A resolver gets the answer to its own call, late answers and calls that timed
\* out notwithstanding; only an answer to an earlier document can take its place.
OwnAnswers ==
  [][ Receive /\ ~Foreign =>
        \A id \in Waiting \ DOMAIN pending' : pending[id] = Head(answers).call ]_vars

\* Of two calls of a document the one made first is over first, by its answer or
\* by its time-out: that is what lets overlapping renderScreen() calls end with
\* the screen asked for last, and the two page modules take calls for a queue.
InOrder ==
  [][ doc' = doc /\ ~Foreign =>
        \A id \in Waiting \ DOMAIN pending', j \in Waiting : j < id => j \notin DOMAIN pending' ]_vars

\* Every call of the page is over some time, even when the native side hangs.
CallsEnd == \A id \in 1..MaxCalls : id \in Waiting ~> id \notin Waiting
=============================================================================
