--------------------------------- MODULE Rpc ---------------------------------
(***************************************************************************)
(* What NetworkClient::request() promises to the handlers of Bridge: each   *)
(* caller has one request at a time, the server executes it at most once,   *)
(* and an error says whether it may have been executed.                     *)
(***************************************************************************)
EXTENDS Naturals

CONSTANTS
  Requests,
  CallerOf   \* request -> the process whose request() sends it

VARIABLES
  status,   \* request -> how far the caller has got with it
  ran       \* request -> how often the server has executed it

vars == <<status, ran>>

Statuses == {"new", "open", "answered", "failed", "unknown"}

TypeOK == status \in [Requests -> Statuses] /\ ran \in [Requests -> 0..1]

Init ==
  /\ status = [r \in Requests |-> "new"]
  /\ ran = [r \in Requests |-> 0]

Call(r) ==
  /\ status[r] = "new"
  /\ \A q \in Requests : CallerOf[q] = CallerOf[r] => status[q] # "open"
  /\ status' = [status EXCEPT ![r] = "open"]
  /\ UNCHANGED ran

\* The server may come to a request long after the caller has given it up.
Execute(r) ==
  /\ status[r] \in {"open", "unknown"}
  /\ ran[r] = 0
  /\ ran' = [ran EXCEPT ![r] = 1]
  /\ UNCHANGED status

\* The caller has the server's answer to this request.
Answer(r) ==
  /\ status[r] = "open" /\ ran[r] = 1
  /\ status' = [status EXCEPT ![r] = "answered"]
  /\ UNCHANGED ran

\* The caller knows that the request was not and will not be executed.
Fail(r) ==
  /\ status[r] = "open" /\ ran[r] = 0
  /\ status' = [status EXCEPT ![r] = "failed"]
  /\ UNCHANGED ran

\* The caller does not know whether it was or will be.
GiveUp(r) ==
  /\ status[r] = "open"
  /\ status' = [status EXCEPT ![r] = "unknown"]
  /\ UNCHANGED ran

Next == \E r \in Requests : Call(r) \/ Execute(r) \/ Answer(r) \/ Fail(r) \/ GiveUp(r)

Spec == Init /\ [][Next]_vars
=============================================================================
