------------------------------ MODULE Messaging ------------------------------
(***************************************************************************)
(* Messages between accounts: the handlers createChat, sendMessage and     *)
(* syncMessages of class Bridge on several devices, over the at-most-once  *)
(* calls of Rpc and the relay queue of the server.                         *)
(*                                                                         *)
(* A handler blocks the UI thread of its device, so a device runs one at a *)
(* time; the other devices, the server and a restart of the process may    *)
(* come between its steps.  Every change of a store is on disk when the    *)
(* step is over (LocalStore has the steps of a save).  The server is not   *)
(* part of this repository: it is modelled from what the client relies on. *)
(***************************************************************************)
EXTENDS Naturals, Sequences, FiniteSets

CONSTANTS
  Logins,     \* accounts
  Guest,      \* the owner of the store that is open without a session
  Devices,
  MaxSends,   \* device -> bounds the messages it sends
  MaxPolls,   \* bounds the polls of one device that are open or may run late
  MaxChats,   \* bounds the chats of a store
  UsersOf,    \* device -> the accounts that log in there
  NewChats,   \* the chats that users create: [owner, type, peer]
  Faults,     \* which of FaultKinds the environment may inject
  None        \* no session, no handler, no address

FaultKinds == {"fail", "unknown", "garbage", "refuse", "restart"}
Owners == Logins \union {Guest}

\* A message goes by the name of the send_message request that carries it.
Sends == UNION {[op : {"send"}, by : {d}, n : 1..MaxSends[d]] : d \in Devices}
Polls == [op : {"poll"}, by : Devices, n : 1..MaxPolls]
Calls == Sends \union Polls

Entries == [from : Owners, msg : Sends, received : BOOLEAN]
ChatTypes == {"dm", "group"}   \* a channel is handled as a group is
Chats == [type : ChatTypes, peer : Logins \union {None}, log : Seq(Entries)]
Addresses == [from : Owners, to : Logins \union {None}]

ASSUME ConstantsAssumption ==
  /\ Guest \notin Logins
  /\ None \notin Owners \union Calls \union Addresses
  /\ Faults \subseteq FaultKinds
  /\ MaxSends \in [Devices -> Nat]
  /\ {MaxPolls, MaxChats} \subseteq Nat
  /\ UsersOf \in [Devices -> SUBSET Logins]
  /\ \A c \in NewChats : /\ c.owner \in Owners /\ c.type \in ChatTypes
                         /\ c.peer \in Logins \union {None}
                         /\ c.type = "dm" <=> c.peer # None

VARIABLES
  session,    \* device -> the account that is logged in, or None
  chats,      \* device -> owner -> the chats of that store, oldest first
  handler,    \* device -> the call its handler waits for or merges, or None
  batch,      \* device -> what syncMessages has yet to merge
  address,    \* call -> the session's account and the peer, once it was made
  queue,      \* account -> messages the server holds for it, oldest first
  taken,      \* poll -> the messages the server put into its reply
  accepted,   \* history: messages the server has queued
  lost,       \* history: messages handed out that no device will merge
  status, ran \* the state of Rpc

device == <<session, chats, handler, batch>>
server == <<queue, taken, accepted>>
vars == <<device, server, address, lost, status, ran>>

CallerOf == [c \in Calls |-> c.by]
Net == INSTANCE Rpc WITH Requests <- Calls

Elems(s) == {s[i] : i \in DOMAIN s}

TypeOK ==
  /\ session \in [Devices -> Logins \union {None}]
  /\ chats \in [Devices -> [Owners -> Seq(Chats)]]
  /\ handler \in [Devices -> Calls \union {None}]
  /\ batch \in [Devices -> Seq(Sends)]
  /\ address \in [Calls -> Addresses \union {None}]
  /\ queue \in [Logins -> Seq(Sends)]
  /\ taken \in [Polls -> Seq(Sends)]
  /\ accepted \subseteq Sends
  /\ lost \subseteq accepted
  /\ Net!TypeOK

Init ==
  /\ session = [d \in Devices |-> None]
  /\ chats = [d \in Devices |-> [o \in Owners |-> <<>>]]
  /\ handler = [d \in Devices |-> None]
  /\ batch = [d \in Devices |-> <<>>]
  /\ address = [c \in Calls |-> None]
  /\ queue = [a \in Logins |-> <<>>]
  /\ taken = [p \in Polls |-> <<>>]
  /\ accepted = {}
  /\ lost = {}
  /\ Net!Init
-----------------------------------------------------------------------------
(* The open store *)

OwnerOf(d) == IF session[d] = None THEN Guest ELSE session[d]
OpenChats(d) == chats[d][OwnerOf(d)]

\* findDmChatByPeerLogin(): the first such chat, as a set of at most one index.
FindNothing(d, peer) == {}
FindDm(d, peer) ==
  LET dms == {i \in DOMAIN OpenChats(d) : /\ OpenChats(d)[i].type = "dm"
                                          /\ OpenChats(d)[i].peer = peer}
  IN {i \in dms : \A j \in dms : i <= j}

StoreChat(d, type, peer) ==
  chats' = [chats EXCEPT ![d][OwnerOf(d)] =
             Append(@, [type |-> type, peer |-> peer, log |-> <<>>])]

StoreWhatArrives(d, i, entry) ==
  IF entry.received THEN chats' = [chats EXCEPT ![d][OwnerOf(d)][i].log = Append(@, entry)]
                    ELSE UNCHANGED chats
StoreFirst(d, i, entry) ==
  chats' = [chats EXCEPT ![d][OwnerOf(d)][i].log = <<entry>> \o @]
StoreMessage(d, i, entry) ==
  chats' = [chats EXCEPT ![d][OwnerOf(d)][i].log = Append(@, entry)]

UiIdle(d) == handler[d] = None
-----------------------------------------------------------------------------
(* handleCreateChat, handleSendMessage *)

\* A dm that exists already is opened instead.
CreateChat(d, type, peer) ==
  /\ UiIdle(d)
  /\ Len(OpenChats(d)) < MaxChats
  /\ type = "dm" => FindDm(d, peer) = {}
  /\ StoreChat(d, type, peer)
  /\ UNCHANGED <<session, handler, batch, server, address, lost, status, ran>>

NextSend(d) ==
  {m \in Sends : /\ m.by = d
                 /\ \A k \in Sends : k.by = d => (address[k] = None <=> m.n <= k.n)}

\* The sender's copy is stored whatever becomes of the request.  Groups, and
\* chats of the guest store, are not relayed; the address then names nobody.
SendMessage(d, i) ==
  LET chat == OpenChats(d)[i] IN
  /\ UiIdle(d)
  /\ \E m \in NextSend(d) :
       /\ StoreMessage(d, i, [from |-> OwnerOf(d), msg |-> m, received |-> FALSE])
       /\ IF chat.type = "dm" /\ session[d] # None
          THEN /\ Net!Call(m)
               /\ handler' = [handler EXCEPT ![d] = m]
               /\ address' = [address EXCEPT ![m] = [from |-> session[d], to |-> chat.peer]]
          ELSE /\ address' = [address EXCEPT ![m] = [from |-> OwnerOf(d), to |-> None]]
               /\ UNCHANGED <<handler, status, ran>>
  /\ UNCHANGED <<session, batch, server, lost>>

NoAnswer(c) ==
  \/ "fail" \in Faults /\ Net!Fail(c)
  \/ "unknown" \in Faults /\ Net!GiveUp(c)

\* sendMessage answers the page; "delivered" only says whether the server
\* accepted the message, and nothing sends it again when it did not.
SendReturns(d) ==
  /\ handler[d] \in Sends
  /\ Net!Answer(handler[d]) \/ NoAnswer(handler[d])
  /\ handler' = [handler EXCEPT ![d] = None]
  /\ UNCHANGED <<session, chats, batch, server, address, lost>>
-----------------------------------------------------------------------------
(* handleSyncMessages *)

MayPollWithChats(d) == session[d] # None /\ OpenChats(d) # <<>>
MayPoll(d) == session[d] # None

SyncMessages(d) ==
  /\ UiIdle(d)
  /\ MayPoll(d)
  /\ \E p \in Polls :
       /\ p.by = d
       /\ Net!Call(p)
       /\ handler' = [handler EXCEPT ![d] = p]
       /\ address' = [address EXCEPT ![p] = [from |-> session[d], to |-> None]]
  /\ UNCHANGED <<session, chats, batch, server, lost>>

\* The reply arrives, or the server's copy of what it handed out is all that
\* there ever was.
SyncReturns(d) ==
  LET p == handler[d] IN
  /\ p \in Polls
  /\ \/ /\ Net!Answer(p)
        /\ batch' = [batch EXCEPT ![d] = taken[p]]
        /\ UNCHANGED <<handler, lost>>
     \/ /\ \/ "garbage" \in Faults /\ Net!Answer(p)
           \/ NoAnswer(p)
        /\ handler' = [handler EXCEPT ![d] = None]
        /\ lost' = lost \union Elems(taken[p])
        /\ UNCHANGED batch
  /\ UNCHANGED <<session, chats, server, address>>

Merging(d) == handler[d] \in Polls /\ status[handler[d]] = "answered"
Sender(m) == address[m].from

MergeSkips(d) ==
  /\ Merging(d) /\ batch[d] # <<>>
  /\ FindDm(d, Sender(Head(batch[d]))) = {}
  /\ batch' = [batch EXCEPT ![d] = Tail(@)]
  /\ UNCHANGED <<session, chats, handler, server, address, lost, status, ran>>

\* The first message ever from this account creates its chat.
MergeCreates(d) ==
  /\ Merging(d) /\ batch[d] # <<>>
  /\ FindDm(d, Sender(Head(batch[d]))) = {}
  /\ StoreChat(d, "dm", Sender(Head(batch[d])))
  /\ UNCHANGED <<session, handler, batch, server, address, lost, status, ran>>

MergeAppends(d) ==
  /\ Merging(d) /\ batch[d] # <<>>
  /\ \E i \in FindDm(d, Sender(Head(batch[d]))) :
       StoreMessage(d, i, [from |-> Sender(Head(batch[d])), msg |-> Head(batch[d]),
                           received |-> TRUE])
  /\ batch' = [batch EXCEPT ![d] = Tail(@)]
  /\ UNCHANGED <<session, handler, server, address, lost, status, ran>>

MergeEnds(d) ==
  /\ Merging(d) /\ batch[d] = <<>>
  /\ handler' = [handler EXCEPT ![d] = None]
  /\ UNCHANGED <<session, chats, batch, server, address, lost, status, ran>>
-----------------------------------------------------------------------------
(* The session, and the process *)

HandleLogin(d, a) ==
  /\ UiIdle(d)
  /\ a # session[d]
  /\ session' = [session EXCEPT ![d] = a]
  /\ UNCHANGED <<chats, handler, batch, server, address, lost, status, ran>>

HandleLogout(d) == HandleLogin(d, None)

\* The process stops in the middle of whatever it does and is started again.
Restart(d) ==
  /\ "restart" \in Faults
  /\ session' = [session EXCEPT ![d] = None]
  /\ handler' = [handler EXCEPT ![d] = None]
  /\ batch' = [batch EXCEPT ![d] = <<>>]
  /\ IF ~UiIdle(d) /\ status[handler[d]] = "open"
     THEN /\ Net!GiveUp(handler[d])
          /\ lost' = lost \union (IF handler[d] \in Polls THEN Elems(taken[handler[d]]) ELSE {})
     ELSE /\ lost' = lost \union Elems(batch[d])
          /\ UNCHANGED <<status, ran>>
  /\ UNCHANGED <<chats, server, address>>
-----------------------------------------------------------------------------
(* The server's relay queue (external) *)

ExecuteSend(m) ==
  /\ Net!Execute(m)
  /\ \/ /\ queue' = [queue EXCEPT ![address[m].to] = Append(@, m)]
        /\ accepted' = accepted \union {m}
     \/ "refuse" \in Faults /\ UNCHANGED <<queue, accepted>>
  /\ UNCHANGED <<device, taken, address, lost>>

\* A poll consumes what it reads, and a poll whose caller has gone loses it.
ExecutePoll(p) ==
  LET a == address[p].from IN
  /\ Net!Execute(p)
  /\ taken' = [taken EXCEPT ![p] = queue[a]]
  /\ queue' = [queue EXCEPT ![a] = <<>>]
  /\ lost' = lost \union (IF status[p] = "unknown" THEN Elems(queue[a]) ELSE {})
  /\ UNCHANGED <<device, address, accepted>>

\* The name of a poll that is over is used again for a later one, which keeps
\* the number of names finite and the number of polls unbounded.
PollAgain(p) ==
  /\ handler[p.by] # p
  /\ status[p] # "new"
  /\ status' = [status EXCEPT ![p] = "new"]
  /\ ran' = [ran EXCEPT ![p] = 0]
  /\ taken' = [taken EXCEPT ![p] = <<>>]
  /\ address' = [address EXCEPT ![p] = None]
  /\ UNCHANGED <<device, queue, accepted, lost>>

HandlerStep(d) ==
  SendReturns(d) \/ SyncReturns(d) \/ MergeCreates(d) \/ MergeAppends(d) \/ MergeEnds(d)

DeviceStep(d) ==
  \/ \E c \in NewChats : c.owner = OwnerOf(d) /\ CreateChat(d, c.type, c.peer)
  \/ \E i \in DOMAIN OpenChats(d) : SendMessage(d, i)
  \/ SyncMessages(d)
  \/ HandlerStep(d)
  \/ \E a \in UsersOf[d] : HandleLogin(d, a)
  \/ HandleLogout(d)

ServerStep ==
  \/ \E m \in Sends : ExecuteSend(m)
  \/ \E p \in Polls : ExecutePoll(p) \/ PollAgain(p)

Next == (\E d \in Devices : DeviceStep(d) \/ Restart(d)) \/ ServerStep

Spec == Init /\ [][Next]_vars
-----------------------------------------------------------------------------
(* Properties *)

At(s, m) == {i \in DOMAIN s : s[i] = m}

\* Every stored entry, with the place it is stored at.
Stored ==
  UNION {UNION {{[dev |-> d, owner |-> o, chat |-> i, pos |-> j] :
                    j \in DOMAIN chats[d][o][i].log} : i \in DOMAIN chats[d][o]} :
         d \in Devices, o \in Owners}
ChatAt(x) == chats[x.dev][x.owner][x.chat]
EntryAt(x) == ChatAt(x).log[x.pos]
Copies(m, received) ==
  {x \in Stored : EntryAt(x).msg = m /\ EntryAt(x).received = received}

InQueue(m) == \E a \in Logins : m \in Elems(queue[a])

\* What holds messages on their way: the queues of the server, the replies that
\* a poll still waits for, and what a device has yet to merge.
QueueOf(a) == <<"queue", a>>
ReplyTo(p) == <<"reply", p>>
BatchOf(d) == <<"batch", d>>
Holders ==
  {QueueOf(a) : a \in Logins} \union {ReplyTo(p) : p \in Polls} \union {BatchOf(d) : d \in Devices}
Content(h) ==
  CASE h[1] = "queue" -> queue[h[2]]
    [] h[1] = "reply" -> IF status[h[2]] = "open" THEN taken[h[2]] ELSE <<>>
    [] h[1] = "batch" -> batch[h[2]]
Destination(h) ==
  CASE h[1] = "queue" -> h[2]
    [] h[1] = "reply" -> address[h[2]].from
    [] h[1] = "batch" -> session[h[2]]

\* Where the one copy of a message that is meant for its recipient can be.
Places(m) ==
  (UNION {{<<h, i>> : i \in At(Content(h), m)} : h \in Holders})
    \union {<<<<"store", x>>, x.pos>> : x \in Copies(m, TRUE)}

\* Between the devices and the server a message is neither doubled nor dropped:
\* one that the server has accepted is in exactly one place, unless the reply
\* of a poll or the batch of a process that stopped took it along; one that it
\* has not accepted is nowhere.
OnePlace ==
  \A m \in Sends : Cardinality(Places(m)) = (IF m \in accepted \ lost THEN 1 ELSE 0)

\* "Reuse the existing conversation instead of splitting history across two
\* chats with the same person": no order of chats the user creates and chats
\* that arriving messages create makes a second one, under any account.
OneConversation ==
  \A d \in Devices, o \in Owners : \A i, j \in DOMAIN chats[d][o] :
    chats[d][o][i].type = "dm" /\ chats[d][o][j].type = "dm"
      /\ chats[d][o][i].peer = chats[d][o][j].peer => i = j

\* A message lies in the store of its own account, in the dm with the other
\* one, on both sides and whoever logs in and out on the devices meanwhile.
RightConversation ==
  \A x \in Stored : LET a == address[EntryAt(x).msg] IN
    /\ EntryAt(x).received => x.owner = a.to /\ ChatAt(x).peer = a.from
    /\ ~EntryAt(x).received => x.owner = a.from /\ a.to \in {None, ChatAt(x).peer}
    /\ EntryAt(x).from = a.from

\* What arrives in one store is in the order its sender sent it in, save for a
\* message whose request ended without an answer: that one may come late.
InOrder ==
  \A x, y \in Stored :
    /\ x.dev = y.dev /\ x.owner = y.owner /\ x.chat = y.chat /\ x.pos < y.pos
    /\ EntryAt(x).received /\ EntryAt(y).received
    /\ EntryAt(x).msg.by = EntryAt(y).msg.by
    /\ status[EntryAt(y).msg] = "answered"
    => EntryAt(x).msg.n < EntryAt(y).msg.n

\* The one open handler of a device waits for a call of that device.
HandlerOpen ==
  \A d \in Devices :
    /\ handler[d] # None =>
         /\ handler[d].by = d /\ status[handler[d]] \in {"open", "answered"}
         /\ session[d] = address[handler[d]].from
    /\ batch[d] # <<>> => Merging(d)

\* An open call is the last one of its device, and only the handler waits for
\* it; the server accepts what was sent to an account, from an account.
CallsMade ==
  /\ \A c \in Calls :
       /\ status[c] = "open" => handler[c.by] = c
       /\ status[c] # "new" => address[c] # None /\ address[c].from \in Logins
       /\ ran[c] = 1 => status[c] \in {"open", "answered", "unknown"}
  /\ \A p \in Polls : ran[p] = 0 => taken[p] = <<>>
  /\ \A m \in Sends : status[m] # "new" => address[m].to \in Logins
  /\ \A m \in accepted : ran[m] = 1
  /\ \A m, k \in Sends :
       status[m] = "open" /\ k.by = m.by /\ address[k] # None => k.n <= m.n

HeldForRecipient ==
  \A h \in Holders : \A i \in DOMAIN Content(h) : address[Content(h)[i]].to = Destination(h)

Held(m) == \E h \in Holders : m \in Elems(Content(h))
Arrived(m) == Copies(m, TRUE) # {}
HeldOnce ==
  /\ \A h, g \in Holders : \A i \in DOMAIN Content(h), j \in DOMAIN Content(g) :
       Content(h)[i] = Content(g)[j] => h = g /\ i = j
  /\ \A m \in Sends :
       /\ (Held(m) \/ Arrived(m)) <=> m \in accepted \ lost
       /\ ~(Held(m) /\ Arrived(m))
       /\ \A x, y \in Copies(m, TRUE) : x = y

\* The sender keeps one copy of everything it sends.
OwnCopyKept ==
  \A m \in Sends :
    /\ Copies(m, FALSE) # {} <=> address[m] # None
    /\ \A x, y \in Copies(m, FALSE) : x = y

DmsHavePeers ==
  \A d \in Devices, o \in Owners : \A i \in DOMAIN chats[d][o] :
    chats[d][o][i].type = "dm" => chats[d][o][i].peer \in Logins

\* Nothing overtakes on the way: a queue holds what was accepted last, and what
\* a device has yet to merge comes after all that it has stored.
Ordered(x, y) == x.by = y.by /\ status[y] \in {"open", "answered"} => x.n < y.n
PolledBy(d) == {BatchOf(d)} \union {ReplyTo(p) : p \in {p \in Polls : p.by = d}}
HeldInOrder ==
  \A h \in Holders : \A i, j \in DOMAIN Content(h) :
    i < j => Ordered(Content(h)[i], Content(h)[j])
QueuedLast ==
  \A a \in Logins : \A y \in Elems(queue[a]), x \in accepted \ Elems(queue[a]) :
    address[x].to = a => Ordered(x, y)
PolledLater ==
  \A x \in Stored : EntryAt(x).received =>
    \A h \in PolledBy(x.dev) : \A y \in Elems(Content(h)) :
      Destination(h) = x.owner => Ordered(EntryAt(x).msg, y)
StoredInOrder ==
  \A x, y \in Stored :
    /\ x.dev = y.dev /\ x.owner = y.owner /\ x.chat = y.chat /\ x.pos < y.pos
    /\ EntryAt(x).received /\ EntryAt(y).received
    => Ordered(EntryAt(x).msg, EntryAt(y).msg)
NoneOvertakes == HeldInOrder /\ QueuedLast /\ PolledLater /\ StoredInOrder

IInv ==
  /\ TypeOK /\ HandlerOpen /\ CallsMade
  /\ HeldForRecipient /\ HeldOnce /\ OnePlace
  /\ OwnCopyKept /\ DmsHavePeers /\ OneConversation /\ RightConversation
  /\ NoneOvertakes

\* The life of one message, read off the stores, the queue and the replies.
StageOf(m) ==
  LET own == Copies(m, FALSE) IN
  IF Cardinality(own) # 1
  THEN IF own \union Places(m) = {} THEN "new" ELSE "without its own copy"
  ELSE IF Copies(m, TRUE) # {} THEN "arrived"
  ELSE IF Places(m) # {} THEN "held"
  ELSE IF m \in accepted THEN "gone" ELSE "kept"

Stage == [m \in Sends |-> StageOf(m)]
D == INSTANCE Delivery WITH Messages <- Sends, stage <- Stage
DeliverySpec == D!Spec
-----------------------------------------------------------------------------
(* What a comment of the code promises, checked against the code *)

\* syncMessages "pulls anything queued for this account on the server and
\* merges it into LocalStore": what a poll takes from the queue is merged.
PulledIsMerged == lost = {}
=============================================================================
