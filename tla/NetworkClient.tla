---------------------------- MODULE NetworkClient ----------------------------
(***************************************************************************)
(* The request socket of class NetworkClient: connect(), disconnect(),      *)
(* setEndpoint() and request() with its one retry, against a server and a   *)
(* network that may close, reset or lose a connection at any moment.        *)
(*                                                                         *)
(* request() runs on the UI thread and blocks it, so there is one call at a *)
(* time; its socket calls are steps of their own because the server and the *)
(* network move between them.  The server is not part of this repository:   *)
(* it is modelled from what the client relies on, one answer per complete   *)
(* frame.                                                                   *)
(***************************************************************************)
EXTENDS Naturals, FiniteSets

CONSTANTS
  Requests,       \* the calls of request() in one run
  Hosts,          \* values of host_
  LiteralHosts,   \* those inet_pton() accepts: literal addresses
  Faults,         \* which of FaultKinds the environment may inject
  None,           \* sockfd_ = -1
  Bare            \* an open socket that was never connected

FaultKinds == {"refuse", "close", "reset", "silent", "garbage"}

\* One sendRaw() of a request: its first try or the retry.
Frames == [req : Requests, try : {"first", "again"}]

\* A connection: what the client's side of it knows of the peer, the frames
\* the server has yet to execute and the answers the client has yet to read.
\* TCP keeps frames in order; there is never more than one (OneFrame).
Peers == {"up", "fin", "rst", "gone"}
Links == [peer : Peers, up : SUBSET Frames, down : SUBSET Frames]

Errors == {"not_connected", "send_failed", "recv_failed"}
Results == {"none", "answered", "bad_response"} \union Errors
Steps == {"idle", "connect", "send", "reconnect", "resend", "recv"}

ASSUME ConstantsAssumption ==
  /\ LiteralHosts \subseteq Hosts
  /\ Faults \subseteq FaultKinds
  /\ None # Bare
  /\ {None, Bare} \intersect Links = {}
  /\ None \notin Requests

VARIABLES
  host,       \* host_
  link,       \* sockfd_ and what is behind it
  connected,  \* connected_
  pc,         \* where request() is
  req,        \* its payload
  result,     \* request -> the Result it returned
  leaked,     \* history: kinds of sockets that were overwritten unclosed
  delivered,  \* history: complete frames that were put on a live connection
  executed    \* history: frames the server has executed

client == <<host, connected, pc, req, result, leaked>>
vars == <<client, link, delivered, executed>>

TypeOK ==
  /\ host \in Hosts
  /\ link \in Links \union {None, Bare}
  /\ connected \in BOOLEAN
  /\ pc \in Steps
  /\ req \in Requests \union {None}
  /\ result \in [Requests -> Results]
  /\ leaked \subseteq {"bare", "link"}
  /\ delivered \subseteq Frames
  /\ executed \subseteq Frames

Init ==
  /\ host \in Hosts
  /\ link = None
  /\ connected = FALSE
  /\ pc = "idle"
  /\ req = None
  /\ result = [r \in Requests |-> "none"]
  /\ leaked = {}
  /\ delivered = {}
  /\ executed = {}

IsLink(l) == l \notin {None, Bare}
KindOf(l) == IF l = None THEN {} ELSE IF l = Bare THEN {"bare"} ELSE {"link"}
NewLink == [peer |-> "up", up |-> {}, down |-> {}]
-----------------------------------------------------------------------------
(* The socket: connect(), disconnect(), sendRaw(), recvRaw() *)

\* connect() overwrites sockfd_ with a new socket, and leaves that one open
\* when the host is not a literal address.
Connect(ok) ==
  /\ leaked' = leaked \union KindOf(link)
  /\ connected' = ok
  /\ \/ /\ host \notin LiteralHosts /\ ~ok
        /\ link' = Bare
     \/ /\ host \in LiteralHosts
        /\ IF ok THEN link' = NewLink ELSE "refuse" \in Faults /\ link' = None

\* close() also drops what the peer had sent; a frame the server already has
\* it may still execute.
ForgetSocket == connected' = FALSE /\ UNCHANGED link
Close == connected' = FALSE /\ link' = None

ThisFrame == [req |-> req, try |-> IF pc = "resend" THEN "again" ELSE "first"]

\* sendRaw() on a connection the peer has closed hands the bytes to the kernel
\* all the same, and the peer answers them with a reset, which the second of
\* its two send() calls may or may not see; on one that has silently gone it
\* always succeeds.
SendOk ==
  \/ /\ link.peer = "up"
     /\ link' = [link EXCEPT !.up = @ \union {ThisFrame}]
     /\ delivered' = delivered \union {ThisFrame}
  \/ /\ link.peer = "fin"
     /\ link' = [link EXCEPT !.peer = "rst"]
     /\ UNCHANGED delivered
  \/ /\ link.peer = "gone"
     /\ UNCHANGED <<link, delivered>>

SendFails == link.peer \in {"fin", "rst"}

\* recvRaw() has no timeout: it fails only once the connection is known dead.
RecvTimesOut == TRUE
RecvFails == link.peer \in {"fin", "rst"} /\ link.down = {}
-----------------------------------------------------------------------------
(* request() *)

Return(r) ==
  /\ pc' = "idle"
  /\ req' = None
  /\ result' = [result EXCEPT ![req] = r]

Goto(step) == pc' = step /\ UNCHANGED <<req, result>>

Call(r) ==
  /\ pc = "idle"
  /\ result[r] = "none"
  /\ req' = r
  /\ pc' = IF connected THEN "send" ELSE "connect"
  /\ UNCHANGED <<host, link, connected, result, leaked, delivered, executed>>

ConnectStep ==
  /\ pc = "connect"
  /\ \E ok \in BOOLEAN :
       Connect(ok) /\ IF ok THEN Goto("send") ELSE Return("not_connected")
  /\ UNCHANGED <<host, delivered, executed>>

SendStep ==
  /\ pc = "send"
  /\ \/ SendOk /\ Goto("recv") /\ UNCHANGED connected
     \/ SendFails /\ Close /\ Goto("reconnect") /\ UNCHANGED delivered
  /\ UNCHANGED <<host, leaked, executed>>

RetryForever == Goto("reconnect")
LastFailure == Return("send_failed")

ReconnectStep ==
  /\ pc = "reconnect"
  /\ \E ok \in BOOLEAN : Connect(ok) /\ IF ok THEN Goto("resend") ELSE LastFailure
  /\ UNCHANGED <<host, delivered, executed>>

ResendStep ==
  /\ pc = "resend"
  /\ \/ SendOk /\ Goto("recv")
     \/ SendFails /\ LastFailure /\ UNCHANGED <<link, delivered>>
  /\ UNCHANGED <<host, connected, leaked, executed>>

RecvAnswer ==
  /\ pc = "recv"
  /\ \E f \in link.down : link' = [link EXCEPT !.down = @ \ {f}]
  /\ \/ Return("answered")
     \/ "garbage" \in Faults /\ Return("bad_response")
  /\ UNCHANGED <<host, connected, leaked, delivered, executed>>

\* The failed connection stays connected_; the next request finds out.
RetryAfterRecv == Close /\ Goto("reconnect")
RecvFailure == Return("recv_failed") /\ UNCHANGED <<link, connected>>

RecvError ==
  /\ pc = "recv"
  /\ RecvFails
  /\ RecvFailure
  /\ UNCHANGED <<host, leaked, delivered, executed>>
-----------------------------------------------------------------------------
(* The other callers: handleLogout, a settings change *)

Disconnect ==
  /\ pc = "idle"
  /\ Close
  /\ UNCHANGED <<host, pc, req, result, leaked, delivered, executed>>

SetEndpoint(h) ==
  /\ pc = "idle"
  /\ host' = h
  /\ IF connected THEN Close ELSE UNCHANGED <<link, connected>>
  /\ UNCHANGED <<pc, req, result, leaked, delivered, executed>>
-----------------------------------------------------------------------------
(* The server and the network (external) *)

Execute ==
  /\ IsLink(link)
  /\ \E f \in link.up :
       /\ link' = [link EXCEPT !.up = @ \ {f}, !.down = @ \union {f}]
       /\ executed' = executed \union {f}
  /\ UNCHANGED <<client, delivered>>

\* A frame of a connection that is no more, which the server had already read.
ExecuteLate ==
  /\ \E f \in delivered \ executed :
       /\ IsLink(link) => f \notin link.up
       /\ executed' = executed \union {f}
  /\ UNCHANGED <<client, link, delivered>>

\* The server closes: what it has answered still arrives.
ServerCloses ==
  /\ "close" \in Faults
  /\ IsLink(link) /\ link.peer = "up"
  /\ link' = [link EXCEPT !.peer = "fin", !.up = {}]
  /\ UNCHANGED <<client, delivered, executed>>

LinkReset ==
  /\ "reset" \in Faults
  /\ IsLink(link) /\ link.peer # "rst"
  /\ link' = [peer |-> "rst", up |-> {}, down |-> {}]
  /\ UNCHANGED <<client, delivered, executed>>

\* Nothing arrives any more and nobody is told: a sleeping laptop, a NAT entry
\* that expired, a cable.
LinkVanishes ==
  /\ "silent" \in Faults
  /\ IsLink(link) /\ link.peer = "up"
  /\ link' = [peer |-> "gone", up |-> {}, down |-> {}]
  /\ UNCHANGED <<client, delivered, executed>>

RequestStep ==
  ConnectStep \/ SendStep \/ ReconnectStep \/ ResendStep \/ RecvAnswer \/ RecvError

Next ==
  \/ \E r \in Requests : Call(r)
  \/ RequestStep
  \/ Disconnect
  \/ \E h \in Hosts : SetEndpoint(h)
  \/ Execute \/ ExecuteLate
  \/ ServerCloses \/ LinkReset \/ LinkVanishes

Spec == Init /\ [][Next]_vars

\* The UI thread runs on through request() as long as no socket call blocks;
\* the server answers what reaches it over a live connection.
FairSpec == Spec /\ WF_vars(RequestStep) /\ WF_vars(Execute)
-----------------------------------------------------------------------------
(* Properties *)

FramesOf(r) == {f \in Frames : f.req = r}

\* The retry never makes the server execute a request twice, whatever closes,
\* resets or loses the connections it travels on: request() only retries what
\* the failed sendRaw() cannot have delivered.
AtMostOnce == \A f, g \in executed : f.req = g.req => f = g

\* The errors not_connected and send_failed are a promise that the server has
\* not executed the request and never will, so the user may safely repeat it.
FailedNeverRuns ==
  \A r \in Requests :
    result[r] \in {"not_connected", "send_failed"} => delivered \intersect FramesOf(r) = {}

\* "Each call is a simple JSON request -> JSON response round trip": on the one
\* long-lived connection, what waits to be read or executed belongs to the
\* request that is being answered, never to one that was given up before.
NoStaleAnswer ==
  IsLink(link) => \A f \in link.up \union link.down : pc = "recv" /\ f.req = req

\* A request that returned an answer was executed.
AnsweredRan ==
  \A r \in Requests :
    result[r] \in {"answered", "bad_response"} => executed \intersect FramesOf(r) # {}

\* No path through connect(), the retry, disconnect() and setEndpoint() loses a
\* connected socket; the only one lost is the one connect() leaves open when
\* the host is a name it cannot resolve.
NoSocketLost == leaked \subseteq IF Hosts = LiteralHosts THEN {} ELSE {"bare"}

\* connected_ tells the truth about the handle, not about the peer.
ConnectedIsLink == connected <=> IsLink(link)

\* Only the answer of a connection that has silently gone is waited for without
\* end, because recv() has no time-out: connect(), the retry and every broken
\* connection come to a result.
EndsUnlessGone ==
  pc # "idle" ~> (pc = "idle" \/ (pc = "recv" /\ IsLink(link) /\ link.peer = "gone"))
-----------------------------------------------------------------------------
(* The inductive invariant, and the refinement of Rpc *)

\* Where request() can be for a given state of the connection.
StepOrder ==
  /\ pc = "idle" <=> req = None
  /\ req # None => result[req] = "none"
  /\ pc \in {"send", "resend", "recv"} => connected
  /\ pc \in {"connect", "reconnect"} => ~connected
  /\ pc = "reconnect" => link = None

\* Frames pass from the client to the server and back, each at most once.
FrameFlow ==
  /\ executed \subseteq delivered
  /\ IsLink(link) => /\ link.up \subseteq delivered \ executed
                     /\ link.down \subseteq executed
                     /\ link.peer # "up" => link.up = {}

\* A request has no frame before its first successful sendRaw(), and one after.
OneFrame ==
  /\ \A f, g \in delivered : f.req = g.req => f = g
  /\ \A f \in delivered : result[f.req] # "none" \/ (f.req = req /\ pc = "recv")

BareMeansName ==
  /\ link = Bare => Hosts # LiteralHosts
  /\ NoSocketLost

IInv ==
  /\ TypeOK
  /\ ConnectedIsLink
  /\ StepOrder
  /\ FrameFlow
  /\ OneFrame
  /\ NoStaleAnswer
  /\ FailedNeverRuns
  /\ AnsweredRan
  /\ BareMeansName

StatusOf(r) ==
  CASE result[r] = "none" -> IF r = req THEN "open" ELSE "new"
    [] result[r] \in {"answered", "bad_response"} -> "answered"
    [] result[r] \in {"not_connected", "send_failed"} -> "failed"
    [] OTHER -> "unknown"

Times(f) == IF f \in executed THEN 1 ELSE 0
RanOf(r) == Times([req |-> r, try |-> "first"]) + Times([req |-> r, try |-> "again"])

\* request() over a failing network is the at-most-once call of Rpc:
\* recv_failed is the only result that leaves the outcome open.
Status == [r \in Requests |-> StatusOf(r)]
Ran == [r \in Requests |-> RanOf(r)]
OneCaller == [r \in Requests |-> "ui"]
R == INSTANCE Rpc WITH CallerOf <- OneCaller, status <- Status, ran <- Ran
RpcSpec == R!Spec
=============================================================================
