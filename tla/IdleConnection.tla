--------------------------- MODULE IdleConnection ---------------------------
(***************************************************************************)
(* NetworkClient with one history variable: whether the connection that an *)
(* earlier request left open died while no request was under way.          *)
(***************************************************************************)
EXTENDS NetworkClient

VARIABLE stale   \* history: the connection died while it was idle

StaleInit == Init /\ stale = FALSE
StaleNext ==
  /\ Next
  /\ stale' = (connected' /\ (stale \/ (pc = "idle" /\ link' # link)))

StaleSpec == StaleInit /\ [][StaleNext]_<<vars, stale>>

\* request() says that "any idle connection can die in that gap" between two
\* calls, and: "rather than surface that as a hard error on whatever the user
\* happened to be doing, retry once with a fresh connection".  So no request
\* returns recv_failed over a connection that died before it was made.
IdleDeathIsRetried ==
  [][stale /\ pc # "idle" /\ pc' = "idle" => result'[req] # "recv_failed"]_<<vars, stale>>
=============================================================================
