------------------------------ MODULE Polling ------------------------------
(***************************************************************************)
(* Messaging with the page that asks for messages: a device polls while a  *)
(* chat shell is on its screen (the interval timer of chat-shell.js), and  *)
(* not on the settings screen, nor on the login screen that a reload or a  *)
(* switch of the interface shows while the native session goes on.         *)
(***************************************************************************)
EXTENDS Messaging

VARIABLE shown   \* the devices whose page shows a chat shell

PollingTypeOK == TypeOK /\ shown \subseteq Devices

PollingInit == Init /\ shown = {}

\* The page renders a shell when a login has succeeded, or on the way back from
\* the settings; it leaves it for the settings, the login screen or a new
\* document.  The handlers neither know nor ask.
ShowShell(d) ==
  /\ d \notin shown /\ session[d] # None
  /\ shown' = shown \union {d}
  /\ UNCHANGED vars

LeaveShell(d) ==
  /\ d \in shown
  /\ shown' = shown \ {d}
  /\ UNCHANGED vars

PollingNext ==
  \/ ((\E d \in Devices : DeviceStep(d)) \/ ServerStep) /\ UNCHANGED shown
  \/ \E d \in Devices : Restart(d) /\ shown' = shown \ {d}
  \/ \E d \in Devices : ShowShell(d) \/ LeaveShell(d)

PollingSpec == PollingInit /\ [][PollingNext]_<<vars, shown>>

\* The timer of a shell fires every four seconds as long as it is shown; it is
\* gone with its shell.
TimedSync(d) == d \in shown /\ SyncMessages(d) /\ UNCHANGED shown

\* The handlers run on as long as request() returns.  Of the network it is
\* assumed that a poll reaches the server now and then.
PollingFairness ==
  /\ \A d \in Devices :
       /\ WF_<<vars, shown>>(HandlerStep(d) /\ UNCHANGED shown)
       /\ WF_<<vars, shown>>(TimedSync(d))
       /\ SF_<<vars, shown>>(/\ \E p \in Polls : handler[d] = p /\ ExecutePoll(p)
                             /\ UNCHANGED shown)
  /\ \A p \in Polls : WF_<<vars, shown>>(PollAgain(p) /\ UNCHANGED shown)

PollingFairSpec == PollingSpec /\ PollingFairness
-----------------------------------------------------------------------------
(* Properties *)

PolledFor(a) == \E d \in shown : session[d] = a

\* "Pulls anything queued for this account": no message stays on the server
\* while a shell is shown on a device its recipient is logged in on, however
\* often the poll fails and whatever screens were shown before.
QueueDrains ==
  \A m \in Sends, a \in Logins :
    (m \in Elems(queue[a])) ~> (m \notin Elems(queue[a]) \/ ~PolledFor(a))

\* And what was pulled arrives, unless it was lost on the way, on whatever screen
\* the page is when the reply comes.
HandedOutArrives ==
  \A m \in Sends :
    (m \in accepted /\ ~InQueue(m)) ~> (m \in lost \/ Copies(m, TRUE) # {})
=============================================================================
