------------------------ MODULE NetworkClient_proofs ------------------------
(***************************************************************************)
(* What holds of request() for any number of requests and any faults: the   *)
(* inductive invariant IInv, from it at most one execution per request and  *)
(* truthful errors, and that every step is a step of Rpc or no step of it.  *)
(***************************************************************************)
EXTENDS NetworkClient, TLAPS

LEMMA LinkType ==
  ASSUME TypeOK, IsLink(link)
  PROVE  link \in Links
BY DEF TypeOK, IsLink

LEMMA NewLinkIsLink == NewLink \in Links /\ IsLink(NewLink)
BY ConstantsAssumption DEF NewLink, Links, Peers, IsLink

LEMMA LinksAreLinks == \A l \in Links : IsLink(l)
BY ConstantsAssumption DEF IsLink

LEMMA ThisFrameType ==
  ASSUME req \in Requests
  PROVE  ThisFrame \in Frames /\ ThisFrame.req = req
BY DEF ThisFrame, Frames

LEMMA InitIInv == Init => IInv
BY ConstantsAssumption DEF Init, IInv, TypeOK, ConnectedIsLink, StepOrder, FrameFlow, OneFrame,
   NoStaleAnswer, FailedNeverRuns, AnsweredRan, BareMeansName, NoSocketLost, IsLink, Results, Steps

-----------------------------------------------------------------------------
(* request() *)

\* In the middle of a request, req is a request that has no result yet.
LEMMA Busy ==
  ASSUME IInv, pc # "idle"
  PROVE  req \in Requests /\ result[req] = "none"
BY DEF IInv, TypeOK, StepOrder

\* What a Return() leaves behind: the result of req alone has changed.
LEMMA ReturnResult ==
  ASSUME IInv, pc # "idle", NEW r \in Results, Return(r)
  PROVE  /\ result' \in [Requests -> Results] /\ pc' = "idle" /\ req' = None
         /\ result'[req] = r
         /\ \A q \in Requests : q # req => result'[q] = result[q]
BY Busy DEF IInv, TypeOK, Return

\* While no frame of the request is under way, none was ever delivered.
LEMMA NothingSentYet ==
  ASSUME IInv, pc \notin {"idle", "recv"}
  PROVE  /\ delivered \intersect FramesOf(req) = {}
         /\ IsLink(link) => link.up = {} /\ link.down = {}
<1>1. \A f \in delivered : f.req # req
  BY Busy DEF IInv, OneFrame
<1>2. IsLink(link) => link.up \union link.down = {}
  BY DEF IInv, NoStaleAnswer
<1> QED BY <1>1, <1>2 DEF FramesOf

LEMMA CallStep ==
  ASSUME IInv, NEW r \in Requests, Call(r)
  PROVE  IInv'
<1>1. /\ pc = "idle" /\ result[r] = "none" /\ req' = r /\ req = None
      /\ pc' = IF connected THEN "send" ELSE "connect"
      /\ UNCHANGED <<host, link, connected, result, leaked, delivered, executed>>
  BY DEF Call, IInv, StepOrder
<1>2. TypeOK' /\ ConnectedIsLink'
  BY <1>1 DEF IInv, TypeOK, ConnectedIsLink, Steps, IsLink
<1>3. StepOrder'
  BY <1>1, ConstantsAssumption DEF StepOrder
<1>4. FrameFlow' /\ FailedNeverRuns' /\ AnsweredRan' /\ BareMeansName'
  BY <1>1 DEF IInv, FrameFlow, IsLink, FailedNeverRuns, AnsweredRan, BareMeansName, NoSocketLost
<1>5. OneFrame' /\ NoStaleAnswer'
  BY <1>1 DEF IInv, OneFrame, NoStaleAnswer, IsLink
<1> QED BY <1>2, <1>3, <1>4, <1>5 DEF IInv

\* Opening a socket for a request that has sent nothing: ConnectStep and
\* ReconnectStep.
LEMMA ConnectKeepsIInv ==
  ASSUME IInv, pc \in {"connect", "reconnect"}, NEW ok \in BOOLEAN, Connect(ok),
         NEW next \in {"send", "resend"}, NEW error \in {"not_connected", "send_failed"},
         IF ok THEN Goto(next) ELSE Return(error),
         UNCHANGED <<host, delivered, executed>>
  PROVE  IInv'
<1>1. /\ req \in Requests /\ result[req] = "none" /\ req # None
      /\ delivered \intersect FramesOf(req) = {}
  BY Busy, NothingSentYet, ConstantsAssumption
<1>2. /\ link' \in Links \union {None, Bare} /\ connected' = ok /\ leaked' \subseteq {"bare", "link"}
      /\ ok <=> IsLink(link')
      /\ IsLink(link') => link' = NewLink
  BY NewLinkIsLink, ConstantsAssumption DEF Connect, KindOf, IsLink, IInv, TypeOK
<1>3. BareMeansName'
  <2>1. link = None \/ (link = Bare /\ Hosts # LiteralHosts)
    BY DEF IInv, TypeOK, BareMeansName, NoSocketLost, StepOrder, ConnectedIsLink, IsLink
  <2>2. host \notin LiteralHosts => Hosts # LiteralHosts
    BY DEF IInv, TypeOK
  <2>3. link' = Bare => host \notin LiteralHosts
    BY NewLinkIsLink, ConstantsAssumption DEF Connect, IsLink
  <2>4. leaked' = leaked \/ (leaked' = leaked \union {"bare"} /\ Hosts # LiteralHosts)
    BY <2>1, ConstantsAssumption DEF Connect, KindOf
  <2> QED BY <2>2, <2>3, <2>4 DEF IInv, BareMeansName, NoSocketLost
<1>4. CASE ok
  <2>1. pc' = next /\ req' = req /\ result' = result
    BY <1>4 DEF Goto
  <2>2. TypeOK' /\ ConnectedIsLink' /\ BareMeansName'
    BY <1>2, <1>3, <1>4, <2>1 DEF IInv, TypeOK, ConnectedIsLink, BareMeansName, NoSocketLost, Steps, IsLink
  <2>3. StepOrder'
    BY <1>1, <1>2, <1>4, <2>1 DEF StepOrder
  <2>4. FrameFlow' /\ NoStaleAnswer'
    BY <1>2, <1>4 DEF IInv, FrameFlow, NoStaleAnswer, NewLink, IsLink
  <2>5. OneFrame' /\ FailedNeverRuns' /\ AnsweredRan'
    BY <2>1 DEF IInv, OneFrame, FailedNeverRuns, AnsweredRan
  <2> QED BY <2>2, <2>3, <2>4, <2>5 DEF IInv
<1>5. CASE ~ok
  <2>1. /\ result' \in [Requests -> Results] /\ pc' = "idle" /\ req' = None
        /\ result'[req] = error
        /\ \A q \in Requests : q # req => result'[q] = result[q]
    BY <1>5, ReturnResult DEF Results, Errors
  <2>2. TypeOK' /\ ConnectedIsLink' /\ BareMeansName'
    BY <1>2, <1>3, <1>5, <2>1 DEF IInv, TypeOK, ConnectedIsLink, BareMeansName, NoSocketLost, Steps, IsLink
  <2>3. StepOrder'
    BY <2>1, ConstantsAssumption DEF StepOrder
  <2>4. FrameFlow' /\ NoStaleAnswer'
    BY <1>2, <1>5 DEF IInv, FrameFlow, NoStaleAnswer, IsLink
  <2>5. OneFrame'
    <3>1. \A f \in delivered : f.req \in Requests
      BY DEF IInv, TypeOK, Frames
    <3> QED BY <2>1, <3>1 DEF IInv, OneFrame
  <2>6. FailedNeverRuns' /\ AnsweredRan'
    BY <1>1, <2>1 DEF IInv, FailedNeverRuns, AnsweredRan
  <2> QED BY <2>2, <2>3, <2>4, <2>5, <2>6 DEF IInv
<1> QED BY <1>4, <1>5

\* sendRaw() returning true: SendStep and ResendStep.
LEMMA SendOkKeepsIInv ==
  ASSUME IInv, pc \in {"send", "resend"}, SendOk, Goto("recv"),
         UNCHANGED <<host, connected, leaked, executed>>
  PROVE  IInv'
<1>1. /\ req \in Requests /\ result[req] = "none" /\ req # None
      /\ delivered \intersect FramesOf(req) = {}
      /\ ThisFrame \in Frames /\ ThisFrame.req = req
  BY Busy, NothingSentYet, ThisFrameType, ConstantsAssumption
<1>2. /\ connected /\ IsLink(link) /\ link \in Links
      /\ link.up = {} /\ link.down = {}
  BY NothingSentYet, LinkType DEF IInv, StepOrder, ConnectedIsLink
<1>3. pc' = "recv" /\ req' = req /\ result' = result
  BY DEF Goto
<1>4. /\ link' \in Links /\ IsLink(link') /\ link'.down = {}
      /\ \/ /\ link'.up = {ThisFrame} /\ link'.peer = "up"
            /\ delivered' = delivered \union {ThisFrame}
         \/ link'.up = {} /\ link'.peer # "up" /\ delivered' = delivered
  BY <1>1, <1>2, LinksAreLinks DEF SendOk, Links, Peers
<1>5. ThisFrame \notin delivered
  BY <1>1 DEF FramesOf
<1>6. TypeOK' /\ ConnectedIsLink' /\ StepOrder'
  BY <1>1, <1>2, <1>3, <1>4 DEF IInv, TypeOK, Steps, ConnectedIsLink, StepOrder, IsLink
<1>7. FrameFlow' /\ NoStaleAnswer'
  BY <1>1, <1>3, <1>4, <1>5 DEF IInv, FrameFlow, NoStaleAnswer, IsLink
<1>8. OneFrame'
  <2>1. \A f \in delivered : f.req # req
    BY <1>1 DEF FramesOf, IInv, TypeOK
  <2> QED BY <1>1, <1>3, <1>4, <2>1 DEF IInv, OneFrame
<1>9. FailedNeverRuns' /\ AnsweredRan' /\ BareMeansName'
  BY <1>1, <1>2, <1>3, <1>4 DEF IInv, FailedNeverRuns, AnsweredRan, BareMeansName, NoSocketLost, FramesOf, IsLink
<1> QED BY <1>6, <1>7, <1>8, <1>9 DEF IInv

\* A request that has sent nothing gives up, or closes its socket to retry.
LEMMA SendFailsKeepsIInv ==
  ASSUME IInv,
         \/ pc = "send" /\ Close /\ Goto("reconnect")
         \/ pc = "resend" /\ Return("send_failed") /\ UNCHANGED <<link, connected>>,
         UNCHANGED <<host, leaked, delivered, executed>>
  PROVE  IInv'
<1>1. /\ req \in Requests /\ result[req] = "none" /\ req # None
      /\ delivered \intersect FramesOf(req) = {}
  BY Busy, NothingSentYet, ConstantsAssumption
<1>2. CASE pc = "send"
  <2>1. /\ pc' = "reconnect" /\ req' = req /\ result' = result
        /\ link' = None /\ connected' = FALSE
    BY <1>2 DEF Goto, Close
  <2>2. TypeOK' /\ ConnectedIsLink' /\ StepOrder' /\ BareMeansName'
    BY <1>1, <1>2, <2>1, ConstantsAssumption
       DEF IInv, TypeOK, Steps, ConnectedIsLink, StepOrder, IsLink, BareMeansName, NoSocketLost
  <2>3. FrameFlow' /\ NoStaleAnswer' /\ FailedNeverRuns' /\ AnsweredRan'
    BY <2>1 DEF IInv, FrameFlow, NoStaleAnswer, FailedNeverRuns, AnsweredRan, IsLink
  <2>4. OneFrame'
    BY <1>2, <2>1 DEF IInv, OneFrame
  <2> QED BY <2>2, <2>3, <2>4 DEF IInv
<1>3. CASE pc = "resend"
  <2>1. /\ result' \in [Requests -> Results] /\ pc' = "idle" /\ req' = None
        /\ result'[req] = "send_failed"
        /\ \A q \in Requests : q # req => result'[q] = result[q]
        /\ UNCHANGED <<link, connected>>
    BY <1>3, ReturnResult DEF Results, Errors
  <2>2. TypeOK' /\ ConnectedIsLink' /\ StepOrder' /\ BareMeansName'
    BY <2>1, ConstantsAssumption
       DEF IInv, TypeOK, Steps, ConnectedIsLink, StepOrder, IsLink, BareMeansName, NoSocketLost
  <2>3. FrameFlow' /\ NoStaleAnswer'
    BY <1>3, <2>1, NothingSentYet DEF IInv, FrameFlow, NoStaleAnswer, IsLink
  <2>4. FailedNeverRuns' /\ AnsweredRan'
    BY <1>1, <2>1 DEF IInv, FailedNeverRuns, AnsweredRan
  <2>5. OneFrame'
    <3>1. \A f \in delivered : f.req \in Requests
      BY DEF IInv, TypeOK, Frames
    <3> QED BY <2>1, <3>1 DEF IInv, OneFrame
  <2> QED BY <2>2, <2>3, <2>4, <2>5 DEF IInv
<1> QED BY <1>2, <1>3

LEMMA RecvAnswerKeepsIInv ==
  ASSUME IInv, RecvAnswer
  PROVE  IInv'
<1>1. req \in Requests /\ result[req] = "none" /\ req # None /\ pc = "recv" /\ connected
  BY Busy, ConstantsAssumption DEF RecvAnswer, IInv, StepOrder
<1>2. IsLink(link) /\ link \in Links
  BY <1>1, LinkType DEF IInv, ConnectedIsLink
<1>3. PICK f \in link.down : link' = [link EXCEPT !.down = @ \ {f}]
  BY DEF RecvAnswer
<1>4. f \in executed /\ f \in delivered /\ f.req = req /\ f \in Frames
  BY <1>2, <1>3 DEF IInv, TypeOK, FrameFlow, NoStaleAnswer
<1>5. PICK r \in {"answered", "bad_response"} : Return(r)
  BY DEF RecvAnswer
<1>6. /\ result' \in [Requests -> Results] /\ pc' = "idle" /\ req' = None
      /\ result'[req] = r
      /\ \A q \in Requests : q # req => result'[q] = result[q]
  BY <1>1, <1>5, ReturnResult DEF Results
<1>7. \A g \in link.up \union link.down : g = f
  BY <1>2, <1>4 DEF IInv, FrameFlow, OneFrame, NoStaleAnswer
<1>8. f \notin link.up
  BY <1>2, <1>4 DEF IInv, FrameFlow
<1>9. link' \in Links /\ IsLink(link') /\ link'.up = {} /\ link'.down = {}
  BY <1>2, <1>3, <1>7, <1>8, LinksAreLinks DEF Links
<1>10. UNCHANGED <<host, connected, leaked, delivered, executed>>
  BY DEF RecvAnswer
<1>11. TypeOK' /\ ConnectedIsLink' /\ StepOrder' /\ BareMeansName'
  BY <1>1, <1>2, <1>6, <1>9, <1>10, ConstantsAssumption
     DEF IInv, TypeOK, Steps, ConnectedIsLink, StepOrder, IsLink, BareMeansName, NoSocketLost
<1>12. FrameFlow' /\ NoStaleAnswer'
  BY <1>9, <1>10 DEF IInv, FrameFlow, NoStaleAnswer
<1>13. OneFrame'
  <2>1. \A g \in delivered : g.req \in Requests
    BY DEF IInv, TypeOK, Frames
  <2> QED BY <1>6, <1>10, <2>1 DEF IInv, OneFrame
<1>14. FailedNeverRuns' /\ AnsweredRan'
  <2>1. executed \intersect FramesOf(req) # {}
    BY <1>4 DEF FramesOf
  <2> QED BY <1>1, <1>6, <1>10, <2>1 DEF IInv, FailedNeverRuns, AnsweredRan
<1> QED BY <1>11, <1>12, <1>13, <1>14 DEF IInv

LEMMA RecvErrorKeepsIInv ==
  ASSUME IInv, RecvError
  PROVE  IInv'
<1>1. req \in Requests /\ result[req] = "none" /\ req # None /\ pc = "recv" /\ connected
  BY Busy, ConstantsAssumption DEF RecvError, IInv, StepOrder
<1>2. IsLink(link) /\ link.up = {} /\ link.down = {}
  BY <1>1 DEF RecvError, RecvFails, IInv, ConnectedIsLink, FrameFlow
<1>3. Return("recv_failed") /\ UNCHANGED <<link, connected, host, leaked, delivered, executed>>
  BY DEF RecvError, RecvFailure
<1>4. /\ result' \in [Requests -> Results] /\ pc' = "idle" /\ req' = None
      /\ result'[req] = "recv_failed"
      /\ \A q \in Requests : q # req => result'[q] = result[q]
  BY <1>1, <1>3, ReturnResult DEF Results, Errors
<1>5. TypeOK' /\ ConnectedIsLink' /\ StepOrder' /\ BareMeansName'
  BY <1>3, <1>4, ConstantsAssumption
     DEF IInv, TypeOK, Steps, ConnectedIsLink, StepOrder, IsLink, BareMeansName, NoSocketLost
<1>6. FrameFlow' /\ NoStaleAnswer' /\ FailedNeverRuns' /\ AnsweredRan'
  BY <1>2, <1>3, <1>4 DEF IInv, FrameFlow, NoStaleAnswer, FailedNeverRuns, AnsweredRan, IsLink
<1>7. OneFrame'
  <2>1. \A g \in delivered : g.req \in Requests
    BY DEF IInv, TypeOK, Frames
  <2> QED BY <1>3, <1>4, <2>1 DEF IInv, OneFrame
<1> QED BY <1>5, <1>6, <1>7 DEF IInv
-----------------------------------------------------------------------------
(* The other steps *)

LEMMA IdleStepsKeepIInv ==
  ASSUME IInv, Disconnect \/ \E h \in Hosts : SetEndpoint(h)
  PROVE  IInv'
<1>1. /\ pc = "idle" /\ host' \in Hosts
      /\ \/ link' = None /\ connected' = FALSE
         \/ UNCHANGED <<link, connected>>
      /\ UNCHANGED <<pc, req, result, leaked, delivered, executed>>
  BY DEF Disconnect, SetEndpoint, Close, IInv, TypeOK
<1>2. IsLink(link') => UNCHANGED link
  BY <1>1 DEF IsLink
<1>3. TypeOK' /\ ConnectedIsLink'
  <2>1. TypeOK'
    BY <1>1 DEF IInv, TypeOK
  <2>2. CASE link' = None /\ connected' = FALSE
    BY <2>1, <2>2 DEF ConnectedIsLink, IsLink
  <2>3. CASE UNCHANGED <<link, connected>>
    BY <2>1, <2>3 DEF IInv, ConnectedIsLink, IsLink
  <2> QED BY <1>1, <2>2, <2>3
<1>4. StepOrder' /\ BareMeansName'
  BY <1>1, ConstantsAssumption DEF IInv, StepOrder, BareMeansName, NoSocketLost
<1>5. FrameFlow' /\ NoStaleAnswer'
  BY <1>1, <1>2 DEF IInv, FrameFlow, NoStaleAnswer
<1>6. OneFrame' /\ FailedNeverRuns' /\ AnsweredRan'
  BY <1>1 DEF IInv, OneFrame, FailedNeverRuns, AnsweredRan
<1> QED BY <1>3, <1>4, <1>5, <1>6 DEF IInv

\* The server and the network only move frames on, or drop what the link holds:
\* what that means for the invariant, and that each of their steps does no more.
EnvironmentOnly ==
  /\ UNCHANGED <<client, delivered>>
  /\ executed \subseteq executed' /\ executed' \subseteq delivered
  /\ \/ UNCHANGED link
     \/ IsLink(link) /\ link' \in Links
  /\ IsLink(link') => /\ link'.up \subseteq link.up \ executed'
                      /\ link'.down \subseteq executed'
                      /\ link'.down \subseteq link.up \union link.down
                      /\ link'.peer # "up" => link'.up = {}

LEMMA EnvironmentKeepsIInv ==
  ASSUME IInv, EnvironmentOnly
  PROVE  IInv'
<1>1. UNCHANGED <<host, connected, pc, req, result, leaked, delivered>>
  BY DEF EnvironmentOnly, client
<1>2. IsLink(link') <=> IsLink(link)
  BY LinksAreLinks DEF EnvironmentOnly, IsLink
<1>3. TypeOK' /\ ConnectedIsLink'
  BY <1>1, <1>2 DEF EnvironmentOnly, IInv, TypeOK, ConnectedIsLink
<1>4. StepOrder' /\ BareMeansName'
  <2>1. link' # link => link' # Bare /\ link # None
    BY LinksAreLinks DEF EnvironmentOnly, IsLink
  <2>2. pc = "reconnect" => link' = None
    BY <2>1 DEF IInv, StepOrder
  <2> QED BY <1>1, <2>1, <2>2 DEF IInv, StepOrder, BareMeansName, NoSocketLost
<1>5. FrameFlow' /\ NoStaleAnswer'
  BY <1>1, <1>2 DEF EnvironmentOnly, IInv, FrameFlow, NoStaleAnswer
<1>6. OneFrame' /\ FailedNeverRuns' /\ AnsweredRan'
  BY <1>1 DEF EnvironmentOnly, IInv, OneFrame, FailedNeverRuns, AnsweredRan
<1> QED BY <1>3, <1>4, <1>5, <1>6 DEF IInv

LEMMA EnvironmentSteps ==
  ASSUME IInv, Execute \/ ExecuteLate \/ ServerCloses \/ LinkReset \/ LinkVanishes
  PROVE  EnvironmentOnly
<1>1. executed \subseteq delivered
  BY DEF IInv, FrameFlow
<1>2. CASE Execute
  <2>1. IsLink(link) /\ link \in Links
    BY <1>2, LinkType DEF Execute, IInv
  <2>2. /\ link.up \subseteq delivered \ executed /\ link.down \subseteq executed
        /\ link.peer # "up" => link.up = {}
    BY <2>1 DEF IInv, FrameFlow
  <2>3. PICK f \in link.up :
          /\ link' = [link EXCEPT !.up = @ \ {f}, !.down = @ \union {f}]
          /\ executed' = executed \union {f}
    BY <1>2 DEF Execute
  <2>4. /\ link' \in Links /\ link'.up = link.up \ {f} /\ link'.down = link.down \union {f}
        /\ link'.peer = link.peer
    BY <2>1, <2>3 DEF Links
  <2> QED BY <1>1, <1>2, <2>1, <2>2, <2>3, <2>4 DEF Execute, EnvironmentOnly
<1>3. CASE ExecuteLate
  <2>1. PICK f \in delivered \ executed :
          (IsLink(link) => f \notin link.up) /\ executed' = executed \union {f}
    BY <1>3 DEF ExecuteLate
  <2>2. UNCHANGED <<client, link, delivered>>
    BY <1>3 DEF ExecuteLate
  <2> QED BY <1>1, <2>1, <2>2 DEF EnvironmentOnly, IInv, FrameFlow, IsLink
<1>4. CASE ServerCloses \/ LinkReset \/ LinkVanishes
  <2>1. IsLink(link) /\ link \in Links
    BY <1>4, LinkType DEF ServerCloses, LinkReset, LinkVanishes, IInv
  <2>2. link.down \subseteq executed
    BY <2>1 DEF IInv, FrameFlow
  <2>3. link' \in Links /\ link'.up = {} /\ link'.down \subseteq link.down
    <3>1. CASE ServerCloses
      BY <2>1, <3>1 DEF ServerCloses, Links, Peers
    <3>2. CASE LinkReset
      BY <2>1, <3>2 DEF LinkReset, Links, Peers
    <3>3. CASE LinkVanishes
      BY <2>1, <3>3 DEF LinkVanishes, Links, Peers
    <3> QED BY <1>4, <3>1, <3>2, <3>3
  <2>4. UNCHANGED <<client, delivered, executed>>
    BY <1>4 DEF ServerCloses, LinkReset, LinkVanishes
  <2> QED BY <1>1, <2>1, <2>2, <2>3, <2>4 DEF EnvironmentOnly
<1> QED BY <1>2, <1>3, <1>4

LEMMA NextIInv == IInv /\ [Next]_vars => IInv'
<1> SUFFICES ASSUME IInv, [Next]_vars PROVE IInv'
  OBVIOUS
<1>1. CASE \E r \in Requests : Call(r)
  BY <1>1, CallStep
<1>2. CASE ConnectStep
  BY <1>2, ConnectKeepsIInv DEF ConnectStep
<1>3. CASE SendStep
  <2>1. CASE SendOk /\ Goto("recv") /\ UNCHANGED connected
    BY <1>3, <2>1, SendOkKeepsIInv DEF SendStep
  <2>2. CASE SendFails /\ Close /\ Goto("reconnect") /\ UNCHANGED delivered
    BY <1>3, <2>2, SendFailsKeepsIInv DEF SendStep
  <2> QED BY <1>3, <2>1, <2>2 DEF SendStep
<1>4. CASE ReconnectStep
  BY <1>4, ConnectKeepsIInv DEF ReconnectStep, LastFailure
<1>5. CASE ResendStep
  <2>1. CASE SendOk /\ Goto("recv")
    BY <1>5, <2>1, SendOkKeepsIInv DEF ResendStep
  <2>2. CASE SendFails /\ LastFailure /\ UNCHANGED <<link, delivered>>
    BY <1>5, <2>2, SendFailsKeepsIInv DEF ResendStep, LastFailure
  <2> QED BY <1>5, <2>1, <2>2 DEF ResendStep
<1>6. CASE RecvAnswer \/ RecvError
  BY <1>6, RecvAnswerKeepsIInv, RecvErrorKeepsIInv
<1>7. CASE Disconnect \/ \E h \in Hosts : SetEndpoint(h)
  BY <1>7, IdleStepsKeepIInv
<1>8. CASE Execute \/ ExecuteLate \/ ServerCloses \/ LinkReset \/ LinkVanishes
  BY <1>8, EnvironmentSteps, EnvironmentKeepsIInv
<1>9. CASE UNCHANGED vars
  BY <1>9 DEF vars, client, IInv, TypeOK, ConnectedIsLink, StepOrder, FrameFlow, OneFrame,
     NoStaleAnswer, FailedNeverRuns, AnsweredRan, BareMeansName, NoSocketLost, IsLink
<1> QED BY <1>1, <1>2, <1>3, <1>4, <1>5, <1>6, <1>7, <1>8, <1>9 DEF Next, RequestStep

\* The inductive invariant itself: types, connected_ and sockfd_ agree, no frame
\* or answer of an earlier request waits on the connection, not_connected and
\* send_failed are only returned for what was never delivered.
THEOREM Invariance == Spec => []IInv
<1> QED BY InitIInv, NextIInv, PTL DEF Spec

\* No request is ever executed twice, however often connections fail.
THEOREM NeverTwice == Spec => []AtMostOnce
<1>1. IInv => AtMostOnce
  BY DEF IInv, OneFrame, FrameFlow, AtMostOnce
<1> QED BY InitIInv, NextIInv, <1>1, PTL DEF Spec

\* not_connected and send_failed are only ever returned for a request that the
\* server has not executed and never will.
THEOREM ErrorsAreTrue == Spec => []FailedNeverRuns
<1>1. IInv => FailedNeverRuns
  BY DEF IInv
<1> QED BY InitIInv, NextIInv, <1>1, PTL DEF Spec

\* request() never reads the answer to an earlier request, although answers on
\* the wire do not say which request they belong to.
THEOREM AnswersAreOwn == Spec => []NoStaleAnswer
<1>1. IInv => NoStaleAnswer
  BY DEF IInv
<1> QED BY InitIInv, NextIInv, <1>1, PTL DEF Spec

\* No retry, disconnect() or setEndpoint() overwrites a connected socket, and with
\* literal addresses none at all.
THEOREM SocketsAreClosed == Spec => []NoSocketLost
<1>1. IInv => NoSocketLost
  BY DEF IInv, BareMeansName, NoSocketLost
<1> QED BY InitIInv, NextIInv, <1>1, PTL DEF Spec
-----------------------------------------------------------------------------
(* The refinement of Rpc *)

LEMMA RanUnchanged ==
  ASSUME UNCHANGED executed
  PROVE  UNCHANGED Ran
BY DEF Ran, RanOf, Times

\* The count of a request with an executed frame is one, of any other zero.
LEMMA RanValue ==
  ASSUME IInv, NEW r \in Requests
  PROVE  Ran[r] = IF executed \intersect FramesOf(r) = {} THEN 0 ELSE 1
<1> DEFINE first == [req |-> r, try |-> "first"]
           again == [req |-> r, try |-> "again"]
<1>1. first \in FramesOf(r) /\ again \in FramesOf(r) /\ first # again
  BY DEF FramesOf, Frames
<1>2. \A f \in FramesOf(r) : f = first \/ f = again
  BY DEF FramesOf, Frames
<1>3. ~(first \in executed /\ again \in executed)
  BY <1>1 DEF IInv, FrameFlow, OneFrame
<1>4. Ran[r] = Times(first) + Times(again)
  BY DEF Ran, RanOf
<1>5. CASE executed \intersect FramesOf(r) = {}
  <2>1. first \notin executed /\ again \notin executed
    BY <1>1, <1>5
  <2> QED BY <1>4, <1>5, <2>1 DEF Times
<1>6. CASE executed \intersect FramesOf(r) # {}
  <2>1. first \in executed \/ again \in executed
    BY <1>2, <1>6
  <2> QED BY <1>3, <1>4, <1>6, <2>1 DEF Times
<1> QED BY <1>5, <1>6

\* Returning a result is Answer, Fail or GiveUp of Rpc.
LEMMA ReturnRefines ==
  ASSUME IInv, pc # "idle", NEW r \in Results, r # "none", Return(r), UNCHANGED executed,
         r \in {"answered", "bad_response"} => executed \intersect FramesOf(req) # {},
         r \in {"not_connected", "send_failed"} => executed \intersect FramesOf(req) = {}
  PROVE  R!Next
<1>1. /\ req \in Requests /\ result[req] = "none"
      /\ result' \in [Requests -> Results] /\ req' = None /\ result'[req] = r
      /\ \A q \in Requests : q # req => result'[q] = result[q]
  BY Busy, ReturnResult
<1>2. Status[req] = "open"
  BY <1>1 DEF Status, StatusOf
<1>3. UNCHANGED Ran
  BY RanUnchanged
<1> DEFINE s == CASE r \in {"answered", "bad_response"} -> "answered"
                  [] r \in {"not_connected", "send_failed"} -> "failed"
                  [] OTHER -> "unknown"
<1>4. \A q \in Requests : StatusOf(q)' = IF q = req THEN s ELSE StatusOf(q)
  BY <1>1, ConstantsAssumption DEF StatusOf, Results, Errors
<1>5. Status' = [Status EXCEPT ![req] = s]
  BY <1>4 DEF Status
<1>6. Ran[req] = IF executed \intersect FramesOf(req) = {} THEN 0 ELSE 1
  BY <1>1, RanValue
<1>7. CASE r \in {"answered", "bad_response"}
  <2>1. R!Answer(req)
    BY <1>2, <1>3, <1>5, <1>6, <1>7 DEF R!Answer
  <2> QED BY <1>1, <2>1 DEF R!Next
<1>8. CASE r \in {"not_connected", "send_failed"}
  <2>1. R!Fail(req)
    BY <1>2, <1>3, <1>5, <1>6, <1>8 DEF R!Fail
  <2> QED BY <1>1, <2>1 DEF R!Next
<1>9. CASE r \notin {"answered", "bad_response", "not_connected", "send_failed"}
  <2>1. R!GiveUp(req)
    BY <1>2, <1>3, <1>5, <1>9 DEF R!GiveUp
  <2> QED BY <1>1, <2>1 DEF R!Next
<1> QED BY <1>7, <1>8, <1>9

\* The server executing a frame is Execute of Rpc.
LEMMA ExecuteRefines ==
  ASSUME IInv, IInv', NEW f \in delivered \ executed, executed' = executed \union {f},
         UNCHANGED <<result, req>>
  PROVE  R!Next
<1>1. f \in Frames /\ f.req \in Requests /\ f \in FramesOf(f.req)
  BY DEF IInv, TypeOK, Frames, FramesOf
<1>2. \A g \in executed : g.req # f.req
  BY DEF IInv, FrameFlow, OneFrame
<1>3. executed \intersect FramesOf(f.req) = {}
  BY <1>2 DEF FramesOf
<1>4. Ran[f.req] = 0
  BY <1>1, <1>3, RanValue
<1>5. Ran' = [Ran EXCEPT ![f.req] = 1]
  <2>1. \A q \in Requests : RanOf(q)' = IF q = f.req THEN 1 ELSE RanOf(q)
    <3> SUFFICES ASSUME NEW q \in Requests
                 PROVE  RanOf(q)' = IF q = f.req THEN 1 ELSE RanOf(q)
      OBVIOUS
    <3> DEFINE first == [req |-> q, try |-> "first"]
               again == [req |-> q, try |-> "again"]
    <3>1. CASE q # f.req
      <4>1. first # f /\ again # f
        BY <3>1
      <4> QED BY <3>1, <4>1 DEF RanOf, Times
    <3>2. CASE q = f.req
      <4>1. first \notin executed /\ again \notin executed
        BY <1>2, <3>2
      <4>2. first # again /\ (f = first \/ f = again)
        BY <1>1, <3>2 DEF Frames
      <4> QED BY <3>2, <4>1, <4>2 DEF RanOf, Times
    <3> QED BY <3>1, <3>2
  <2> QED BY <2>1 DEF Ran
<1>6. UNCHANGED Status
  BY DEF Status, StatusOf
<1>7. Status[f.req] \in {"open", "unknown"}
  <2>1. result[f.req] \in Results
    BY <1>1 DEF IInv, TypeOK
  <2>2. CASE result[f.req] = "none"
    <3>1. f.req = req
      BY <2>2 DEF IInv, OneFrame
    <3> QED BY <1>1, <2>2, <3>1 DEF Status, StatusOf
  <2>3. CASE result[f.req] # "none"
    <3>1. result[f.req] \notin {"answered", "bad_response"}
      BY <1>1, <1>3 DEF IInv, AnsweredRan
    <3>2. result[f.req] \notin {"not_connected", "send_failed"}
      BY <1>1 DEF IInv, FailedNeverRuns
    <3> QED BY <1>1, <2>3, <3>1, <3>2 DEF Status, StatusOf
  <2> QED BY <2>2, <2>3
<1>8. R!Execute(f.req)
  BY <1>4, <1>5, <1>6, <1>7 DEF R!Execute
<1> QED BY <1>1, <1>8 DEF R!Next

LEMMA NothingRan ==
  ASSUME IInv, pc \notin {"idle", "recv"}
  PROVE  executed \intersect FramesOf(req) = {}
BY NothingSentYet DEF IInv, FrameFlow

LEMMA StepRefines == IInv /\ IInv' /\ [Next]_vars => [R!Next]_(R!vars)
<1> SUFFICES ASSUME IInv, IInv', [Next]_vars PROVE R!Next \/ UNCHANGED <<Status, Ran>>
  BY DEF R!vars
<1>1. ASSUME UNCHANGED <<req, result, executed>> PROVE UNCHANGED <<Status, Ran>>
  BY <1>1, RanUnchanged DEF Status, StatusOf
<1>2. CASE \E r \in Requests : Call(r)
  <2>1. PICK r \in Requests : Call(r)
    BY <1>2
  <2>2. /\ req = None /\ result[r] = "none" /\ req' = r
        /\ UNCHANGED <<result, executed>>
    BY <2>1 DEF Call, IInv, StepOrder
  <2>3. \A q \in Requests : StatusOf(q)' = IF q = r THEN "open" ELSE StatusOf(q)
    BY <2>2, ConstantsAssumption DEF StatusOf
  <2>4. Status' = [Status EXCEPT ![r] = "open"]
    BY <2>3 DEF Status
  <2>5. Status[r] = "new" /\ \A q \in Requests : Status[q] # "open"
    BY <2>2, ConstantsAssumption DEF Status, StatusOf
  <2>6. UNCHANGED Ran
    BY <2>2, RanUnchanged
  <2>7. R!Call(r)
    BY <2>4, <2>5, <2>6 DEF R!Call
  <2> QED BY <2>7 DEF R!Next
<1>3. CASE ConnectStep
  <2>1. CASE Goto("send")
    BY <1>1, <1>3, <2>1 DEF ConnectStep, Goto
  <2>2. CASE Return("not_connected")
    BY <1>3, <2>2, NothingRan, ReturnRefines DEF ConnectStep, Results, Errors
  <2> QED BY <1>3, <2>1, <2>2 DEF ConnectStep
<1>4. CASE SendStep
  BY <1>1, <1>4 DEF SendStep, Goto
<1>5. CASE ReconnectStep
  <2>1. CASE Goto("resend")
    BY <1>1, <1>5, <2>1 DEF ReconnectStep, Goto
  <2>2. CASE Return("send_failed")
    BY <1>5, <2>2, NothingRan, ReturnRefines DEF ReconnectStep, Results, Errors
  <2> QED BY <1>5, <2>1, <2>2 DEF ReconnectStep, LastFailure
<1>6. CASE ResendStep
  <2>1. CASE Goto("recv")
    BY <1>1, <1>6, <2>1 DEF ResendStep, Goto
  <2>2. CASE Return("send_failed")
    BY <1>6, <2>2, NothingRan, ReturnRefines DEF ResendStep, Results, Errors
  <2> QED BY <1>6, <2>1, <2>2 DEF ResendStep, LastFailure
<1>7. CASE RecvAnswer
  <2>1. pc = "recv" /\ UNCHANGED executed
    BY <1>7 DEF RecvAnswer
  <2>2. PICK f \in link.down : TRUE
    BY <1>7 DEF RecvAnswer
  <2>3. IsLink(link)
    BY <2>1 DEF IInv, StepOrder, ConnectedIsLink
  <2>4. f \in executed /\ f.req = req /\ f \in Frames
    BY <2>2, <2>3 DEF IInv, TypeOK, FrameFlow, NoStaleAnswer
  <2>5. executed \intersect FramesOf(req) # {}
    BY <2>4 DEF FramesOf
  <2>6. PICK r \in {"answered", "bad_response"} : Return(r)
    BY <1>7 DEF RecvAnswer
  <2> QED BY <2>1, <2>5, <2>6, ReturnRefines DEF Results
<1>8. CASE RecvError
  BY <1>8, ReturnRefines DEF RecvError, RecvFailure, Results, Errors
<1>9. CASE Execute
  <2>1. PICK f \in link.up : IsLink(link) /\ executed' = executed \union {f}
    BY <1>9 DEF Execute
  <2>2. f \in delivered \ executed
    BY <2>1 DEF IInv, FrameFlow
  <2> QED BY <1>9, <2>1, <2>2, ExecuteRefines DEF Execute, client
<1>10. CASE ExecuteLate
  BY <1>10, ExecuteRefines DEF ExecuteLate, client
<1>11. CASE \/ Disconnect \/ \E h \in Hosts : SetEndpoint(h)
            \/ ServerCloses \/ LinkReset \/ LinkVanishes \/ UNCHANGED vars
  BY <1>1, <1>11 DEF Disconnect, SetEndpoint, ServerCloses, LinkReset, LinkVanishes, vars, client
<1> QED BY <1>2, <1>3, <1>4, <1>5, <1>6, <1>7, <1>8, <1>9, <1>10, <1>11 DEF Next, RequestStep

LEMMA InitRefines == Init => R!Init
BY ConstantsAssumption DEF Init, R!Init, Status, StatusOf, Ran, RanOf, Times

\* request() implements the at-most-once call: over any connections that close,
\* break or go silent, its steps are steps of Rpc.
THEOREM Refinement == Spec => RpcSpec
<1> QED BY InitIInv, NextIInv, InitRefines, StepRefines, PTL DEF Spec, RpcSpec, R!Spec
=============================================================================
