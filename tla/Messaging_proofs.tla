--------------------------- MODULE Messaging_proofs ---------------------------
(***************************************************************************)
(* For any accounts, devices, polls and faults: a message is in one place   *)
(* and in the right conversation (IInv), what arrives in a store is in the  *)
(* order it was sent in (InOrder), and each message goes through the stages *)
(* of Delivery and no others (DeliverySpec).                                *)
(*                                                                         *)
(* The steps do one of a few things to what holds messages on their way,    *)
(* and one of three to the stores; there is one lemma for each of these.    *)
(***************************************************************************)
EXTENDS Messaging, QueueFacts, TLAPS

(* Calls, and what holds messages *)

LEMMA CallFacts ==
  /\ \A m \in Sends : m.by \in Devices /\ m.n \in Nat /\ m \in Calls /\ m \notin Polls
  /\ \A p \in Polls : p.by \in Devices /\ p \in Calls /\ p \notin Sends
  /\ \A m, k \in Sends : m.by = k.by /\ m.n = k.n => m = k
  /\ None \notin Calls
<1>1. \A m \in Sends : \E d \in Devices : m \in [op : {"send"}, by : {d}, n : 1..MaxSends[d]]
  BY DEF Sends
<1>2. \A d \in Devices : 1..MaxSends[d] \subseteq Nat
  BY ConstantsAssumption
<1>3. \A m \in Sends : /\ m.by \in Devices /\ m.n \in Nat /\ m.op = "send"
                       /\ m = [op |-> "send", by |-> m.by, n |-> m.n]
  BY <1>1, <1>2
<1>4. \A p \in Polls : p.by \in Devices /\ p.op = "poll"
  BY DEF Polls
<1>5. \A m, k \in Sends : m.by = k.by /\ m.n = k.n => m = k
  BY <1>3
<1>6. \A m \in Sends : m \notin Polls /\ m \in Calls
  BY <1>3, <1>4 DEF Calls
<1>7. \A p \in Polls : p \notin Sends /\ p \in Calls
  BY <1>6 DEF Calls
<1>8. None \notin Calls
  BY ConstantsAssumption
<1> QED BY <1>3, <1>4, <1>5, <1>6, <1>7, <1>8

LEMMA HolderKinds ==
  /\ \A h \in Holders : \/ \E a \in Logins : h = QueueOf(a)
                        \/ \E p \in Polls : h = ReplyTo(p)
                        \/ \E d \in Devices : h = BatchOf(d)
  /\ \A a \in Logins : QueueOf(a) \in Holders
  /\ \A p \in Polls : ReplyTo(p) \in Holders
  /\ \A d \in Devices : BatchOf(d) \in Holders
BY DEF Holders

LEMMA HoldersDiffer ==
  /\ \A a, b : QueueOf(a) # ReplyTo(b) /\ QueueOf(a) # BatchOf(b) /\ ReplyTo(a) # BatchOf(b)
  /\ \A a, b : QueueOf(a) = QueueOf(b) => a = b
  /\ \A a, b : ReplyTo(a) = ReplyTo(b) => a = b
  /\ \A a, b : BatchOf(a) = BatchOf(b) => a = b
BY DEF QueueOf, ReplyTo, BatchOf

LEMMA Contents ==
  /\ \A a : Content(QueueOf(a)) = queue[a] /\ Content(QueueOf(a))' = queue'[a]
  /\ \A p : /\ Content(ReplyTo(p)) = IF status[p] = "open" THEN taken[p] ELSE <<>>
            /\ Content(ReplyTo(p))' = IF status'[p] = "open" THEN taken'[p] ELSE <<>>
  /\ \A d : Content(BatchOf(d)) = batch[d] /\ Content(BatchOf(d))' = batch'[d]
BY DEF Content, QueueOf, ReplyTo, BatchOf

LEMMA Destinations ==
  /\ \A a : Destination(QueueOf(a)) = a /\ Destination(QueueOf(a))' = a
  /\ \A p : /\ Destination(ReplyTo(p)) = address[p].from
            /\ Destination(ReplyTo(p))' = address'[p].from
  /\ \A d : Destination(BatchOf(d)) = session[d] /\ Destination(BatchOf(d))' = session'[d]
BY DEF Destination, QueueOf, ReplyTo, BatchOf

LEMMA ContentType ==
  ASSUME TypeOK, NEW h \in Holders
  PROVE  /\ Content(h) \in Seq(Sends) /\ Len(Content(h)) \in Nat
         /\ \A i \in DOMAIN Content(h) : i \in Nat \ {0} /\ i <= Len(Content(h)) /\ Content(h)[i] \in Sends
<1>1. Content(h) \in Seq(Sends)
  <2>1. CASE \E a \in Logins : h = QueueOf(a)
    BY <2>1, Contents DEF TypeOK
  <2>2. CASE \E p \in Polls : h = ReplyTo(p)
    <3>1. PICK p \in Polls : h = ReplyTo(p)
      BY <2>2
    <3>2. taken[p] \in Seq(Sends) /\ <<>> \in Seq(Sends)
      BY DEF TypeOK
    <3> QED BY <3>1, <3>2, Contents
  <2>3. CASE \E d \in Devices : h = BatchOf(d)
    BY <2>3, Contents DEF TypeOK
  <2> QED BY <2>1, <2>2, <2>3, HolderKinds
<1> DEFINE q == Content(h)
<1> HIDE DEF q
<1> QED BY <1>1 DEF q
-----------------------------------------------------------------------------
(* Stores *)

LEMMA StoredAt ==
  /\ \A x \in Stored :
       /\ x.dev \in Devices /\ x.owner \in Owners /\ x.chat \in DOMAIN chats[x.dev][x.owner]
       /\ x.pos \in DOMAIN chats[x.dev][x.owner][x.chat].log
       /\ x = [dev |-> x.dev, owner |-> x.owner, chat |-> x.chat, pos |-> x.pos]
  /\ \A d \in Devices, o \in Owners : \A i \in DOMAIN chats[d][o] : \A j \in DOMAIN chats[d][o][i].log :
       [dev |-> d, owner |-> o, chat |-> i, pos |-> j] \in Stored
<1>1. ASSUME NEW x \in Stored
      PROVE  /\ x.dev \in Devices /\ x.owner \in Owners /\ x.chat \in DOMAIN chats[x.dev][x.owner]
             /\ x.pos \in DOMAIN chats[x.dev][x.owner][x.chat].log
             /\ x = [dev |-> x.dev, owner |-> x.owner, chat |-> x.chat, pos |-> x.pos]
  <2>1. PICK d \in Devices, o \in Owners : \E i \in DOMAIN chats[d][o] :
               \E j \in DOMAIN chats[d][o][i].log : x = [dev |-> d, owner |-> o, chat |-> i, pos |-> j]
    BY DEF Stored
  <2>2. PICK i \in DOMAIN chats[d][o] : \E j \in DOMAIN chats[d][o][i].log :
          x = [dev |-> d, owner |-> o, chat |-> i, pos |-> j]
    BY <2>1
  <2>3. PICK j \in DOMAIN chats[d][o][i].log : x = [dev |-> d, owner |-> o, chat |-> i, pos |-> j]
    BY <2>2
  <2>4. x.dev = d /\ x.owner = o /\ x.chat = i /\ x.pos = j
    BY <2>3
  <2> QED BY <2>3, <2>4
<1>2. ASSUME NEW d \in Devices, NEW o \in Owners, NEW i \in DOMAIN chats[d][o],
             NEW j \in DOMAIN chats[d][o][i].log
      PROVE  [dev |-> d, owner |-> o, chat |-> i, pos |-> j] \in Stored
  <2> DEFINE InLog(e, w, c) ==
               {[dev |-> e, owner |-> w, chat |-> c, pos |-> l] : l \in DOMAIN chats[e][w][c].log}
             InStore(e, w) == UNION {InLog(e, w, c) : c \in DOMAIN chats[e][w]}
  <2>1. [dev |-> d, owner |-> o, chat |-> i, pos |-> j] \in InLog(d, o, i)
    OBVIOUS
  <2>2. Stored = UNION {InStore(e, w) : e \in Devices, w \in Owners}
    BY DEF Stored
  <2> HIDE DEF InLog
  <2>3. [dev |-> d, owner |-> o, chat |-> i, pos |-> j] \in InStore(d, o)
    BY <2>1
  <2> HIDE DEF InStore
  <2> QED BY <2>2, <2>3
<1> QED BY <1>1, <1>2

LEMMA StoredAtNext ==
  /\ \A x \in Stored' :
       /\ x.dev \in Devices /\ x.owner \in Owners /\ x.chat \in DOMAIN chats'[x.dev][x.owner]
       /\ x.pos \in DOMAIN chats'[x.dev][x.owner][x.chat].log
       /\ x = [dev |-> x.dev, owner |-> x.owner, chat |-> x.chat, pos |-> x.pos]
  /\ \A d \in Devices, o \in Owners : \A i \in DOMAIN chats'[d][o] : \A j \in DOMAIN chats'[d][o][i].log :
       [dev |-> d, owner |-> o, chat |-> i, pos |-> j] \in Stored'
<1>1. ASSUME NEW x \in Stored'
      PROVE  /\ x.dev \in Devices /\ x.owner \in Owners /\ x.chat \in DOMAIN chats'[x.dev][x.owner]
             /\ x.pos \in DOMAIN chats'[x.dev][x.owner][x.chat].log
             /\ x = [dev |-> x.dev, owner |-> x.owner, chat |-> x.chat, pos |-> x.pos]
  <2>1. PICK d \in Devices, o \in Owners : \E i \in DOMAIN chats'[d][o] :
               \E j \in DOMAIN chats'[d][o][i].log : x = [dev |-> d, owner |-> o, chat |-> i, pos |-> j]
    BY DEF Stored
  <2>2. PICK i \in DOMAIN chats'[d][o] : \E j \in DOMAIN chats'[d][o][i].log :
          x = [dev |-> d, owner |-> o, chat |-> i, pos |-> j]
    BY <2>1
  <2>3. PICK j \in DOMAIN chats'[d][o][i].log : x = [dev |-> d, owner |-> o, chat |-> i, pos |-> j]
    BY <2>2
  <2>4. x.dev = d /\ x.owner = o /\ x.chat = i /\ x.pos = j
    BY <2>3
  <2> QED BY <2>3, <2>4
<1>2. ASSUME NEW d \in Devices, NEW o \in Owners, NEW i \in DOMAIN chats'[d][o],
             NEW j \in DOMAIN chats'[d][o][i].log
      PROVE  [dev |-> d, owner |-> o, chat |-> i, pos |-> j] \in Stored'
  <2> DEFINE InLog(e, w, c) ==
               {[dev |-> e, owner |-> w, chat |-> c, pos |-> l] : l \in DOMAIN chats'[e][w][c].log}
             InStore(e, w) == UNION {InLog(e, w, c) : c \in DOMAIN chats'[e][w]}
  <2>1. [dev |-> d, owner |-> o, chat |-> i, pos |-> j] \in InLog(d, o, i)
    OBVIOUS
  <2>2. Stored' = UNION {InStore(e, w) : e \in Devices, w \in Owners}
    BY DEF Stored
  <2> HIDE DEF InLog
  <2>3. [dev |-> d, owner |-> o, chat |-> i, pos |-> j] \in InStore(d, o)
    BY <2>1
  <2> HIDE DEF InStore
  <2> QED BY <2>2, <2>3
<1> QED BY <1>1, <1>2

\* A chat, and the entries of its log.
LEMMA ChatsTyped ==
  ASSUME TypeOK, NEW d \in Devices, NEW o \in Owners
  PROVE  /\ chats[d][o] \in Seq(Chats) /\ Len(chats[d][o]) \in Nat
         /\ \A i \in DOMAIN chats[d][o] :
              /\ i \in Nat \ {0} /\ i <= Len(chats[d][o])
              /\ chats[d][o][i] \in Chats /\ chats[d][o][i].log \in Seq(Entries)
              /\ chats[d][o][i].type \in {"dm", "group"}
              /\ chats[d][o][i].peer \in Logins \union {None}
<1>1. chats[d][o] \in Seq(Chats)
  BY DEF TypeOK
<1> DEFINE q == chats[d][o]
<1> HIDE DEF q
<1>2. Len(q) \in Nat /\ \A i \in DOMAIN q : i \in Nat \ {0} /\ i <= Len(q) /\ q[i] \in Chats
  BY <1>1 DEF q
<1> QED BY <1>1, <1>2 DEF q, Chats, ChatTypes

\* No chat is changed.
LEMMA StoresKept ==
  ASSUME chats' = chats
  PROVE  /\ Stored' = Stored
         /\ \A x : EntryAt(x)' = EntryAt(x) /\ ChatAt(x)' = ChatAt(x)
         /\ \A m, received : Copies(m, received)' = Copies(m, received)
BY DEF Stored, EntryAt, ChatAt, Copies

\* A new chat has no messages.
LEMMA ChatStored ==
  ASSUME TypeOK, NEW d \in Devices, NEW type \in {"dm", "group"}, NEW peer \in Logins \union {None},
         StoreChat(d, type, peer)
  PROVE  LET o == OwnerOf(d)
             n == Len(chats[d][o]) + 1
         IN
         /\ o \in Owners /\ chats' \in [Devices -> [Owners -> Seq(Chats)]]
         /\ \A e \in Devices, w \in Owners : e # d \/ w # o => chats'[e][w] = chats[e][w]
         /\ DOMAIN chats'[d][o] = DOMAIN chats[d][o] \union {n} /\ n \notin DOMAIN chats[d][o]
         /\ \A i \in DOMAIN chats[d][o] : chats'[d][o][i] = chats[d][o][i]
         /\ chats'[d][o][n] = [type |-> type, peer |-> peer, log |-> <<>>]
<1> DEFINE o == OwnerOf(d)
           c == [type |-> type, peer |-> peer, log |-> <<>>]
           q == chats[d][o]
<1>1. o \in Owners
  BY DEF OwnerOf, Owners, TypeOK
<1>2. c \in Chats
  BY DEF Chats, ChatTypes
<1>3. q \in Seq(Chats)
  BY <1>1 DEF TypeOK
<1>4. chats' = [chats EXCEPT ![d][o] = Append(q, c)]
  BY DEF StoreChat
<1>5. chats \in [Devices -> [Owners -> Seq(Chats)]]
  BY DEF TypeOK
<1> DEFINE r == Append(q, c)
<1> HIDE DEF o, c, q
<1>6. /\ r \in Seq(Chats) /\ DOMAIN r = DOMAIN q \union {Len(q) + 1} /\ Len(q) + 1 \notin DOMAIN q
      /\ \A i \in DOMAIN q : r[i] = q[i]
      /\ r[Len(q) + 1] = c
  BY <1>2, <1>3
<1> HIDE DEF r
<1>7. /\ chats' \in [Devices -> [Owners -> Seq(Chats)]]
      /\ \A e \in Devices, w \in Owners : e # d \/ w # o => chats'[e][w] = chats[e][w]
      /\ chats'[d][o] = r
  BY <1>1, <1>4, <1>5, <1>6 DEF r
<1> QED BY <1>1, <1>6, <1>7 DEF o, c, q

LEMMA ChatStoresNoMessage ==
  ASSUME TypeOK, NEW d \in Devices, NEW type \in {"dm", "group"}, NEW peer \in Logins \union {None},
         StoreChat(d, type, peer)
  PROVE  /\ Stored' = Stored
         /\ \A x \in Stored : EntryAt(x)' = EntryAt(x) /\ ChatAt(x)' = ChatAt(x)
         /\ \A m, received : Copies(m, received)' = Copies(m, received)
<1> DEFINE o == OwnerOf(d)
           n == Len(chats[d][o]) + 1
<1>1. /\ o \in Owners
      /\ \A e \in Devices, w \in Owners : e # d \/ w # o => chats'[e][w] = chats[e][w]
      /\ DOMAIN chats'[d][o] = DOMAIN chats[d][o] \union {n} /\ n \notin DOMAIN chats[d][o]
      /\ \A i \in DOMAIN chats[d][o] : chats'[d][o][i] = chats[d][o][i]
      /\ chats'[d][o][n].log = <<>>
  <2> DEFINE c == [type |-> type, peer |-> peer, log |-> <<>>]
  <2>1. c.log = <<>>
    OBVIOUS
  <2> HIDE DEF c
  <2>2. chats'[d][o][n] = c
    BY ChatStored DEF c
  <2> QED BY <2>1, <2>2, ChatStored
<1> HIDE DEF o, n
<1>2. ASSUME NEW e \in Devices, NEW w \in Owners
      PROVE  /\ \A i \in DOMAIN chats[e][w] : i \in DOMAIN chats'[e][w] /\ chats'[e][w][i] = chats[e][w][i]
             /\ \A i \in DOMAIN chats'[e][w] : DOMAIN chats'[e][w][i].log # {} =>
                  i \in DOMAIN chats[e][w]
  BY <1>1
<1>3. \A x \in Stored : x \in Stored' /\ ChatAt(x)' = ChatAt(x)
  BY <1>2, StoredAt, StoredAtNext DEF ChatAt
<1>4. ASSUME NEW x \in Stored' PROVE x \in Stored
  <2>1. /\ x.dev \in Devices /\ x.owner \in Owners /\ x.chat \in DOMAIN chats'[x.dev][x.owner]
        /\ x.pos \in DOMAIN chats'[x.dev][x.owner][x.chat].log
        /\ x = [dev |-> x.dev, owner |-> x.owner, chat |-> x.chat, pos |-> x.pos]
    BY StoredAtNext
  <2>2. x.chat \in DOMAIN chats[x.dev][x.owner]
    BY <1>2, <2>1
  <2>3. x.pos \in DOMAIN chats[x.dev][x.owner][x.chat].log
    BY <1>2, <2>1, <2>2
  <2> QED BY <2>1, <2>2, <2>3, StoredAt
<1>5. \A x \in Stored : EntryAt(x)' = EntryAt(x)
  BY <1>3 DEF EntryAt
<1>6. Stored' = Stored
  BY <1>3, <1>4
<1> QED BY <1>3, <1>5, <1>6 DEF Copies

\* A message comes last in the log of its chat.
LEMMA LogStored ==
  ASSUME TypeOK, NEW d \in Devices, NEW i \in DOMAIN OpenChats(d), NEW e \in Entries,
         StoreMessage(d, i, e)
  PROVE  LET o == OwnerOf(d) IN
         /\ o \in Owners /\ chats' \in [Devices -> [Owners -> Seq(Chats)]]
         /\ \A f \in Devices, w \in Owners : f # d \/ w # o => chats'[f][w] = chats[f][w]
         /\ DOMAIN chats'[d][o] = DOMAIN chats[d][o]
         /\ \A j \in DOMAIN chats[d][o] : j # i => chats'[d][o][j] = chats[d][o][j]
         /\ chats'[d][o][i].type = chats[d][o][i].type
         /\ chats'[d][o][i].peer = chats[d][o][i].peer
         /\ chats'[d][o][i].log = Append(chats[d][o][i].log, e)
<1> DEFINE o == OwnerOf(d)
           q == chats[d][o]
           c == q[i]
<1>1. o \in Owners
  BY DEF OwnerOf, Owners, TypeOK
<1>2. chats \in [Devices -> [Owners -> Seq(Chats)]]
  BY DEF TypeOK
<1>3. q \in Seq(Chats) /\ i \in DOMAIN q
  BY <1>1, <1>2 DEF OpenChats
<1>4. chats' = [chats EXCEPT ![d][o][i].log = Append(c.log, e)]
  BY DEF StoreMessage
<1> HIDE DEF o
<1>5. c \in Chats
  <2> HIDE DEF q
  <2> QED BY <1>3
<1>6. Append(c.log, e) \in Seq(Entries)
  <2>1. c.log \in Seq(Entries)
    BY <1>5 DEF Chats
  <2> HIDE DEF c
  <2> QED BY <2>1
<1> DEFINE log == Append(c.log, e)
           b == [c EXCEPT !.log = log]
           r == [q EXCEPT ![i] = b]
<1> HIDE DEF log
<1>7. b \in Chats /\ b.type = c.type /\ b.peer = c.peer /\ b.log = log
  <2> HIDE DEF c
  <2> QED BY <1>5, <1>6 DEF Chats, log
<1>8. chats' = [chats EXCEPT ![d][o] = r]
  BY <1>1, <1>2, <1>4 DEF log
<1> HIDE DEF b
<1>9. r \in Seq(Chats) /\ DOMAIN r = DOMAIN q /\ r[i] = b /\ \A j \in DOMAIN q : j # i => r[j] = q[j]
  <2> HIDE DEF q
  <2> QED BY <1>3, <1>7
<1> HIDE DEF r
<1>10. /\ chats' \in [Devices -> [Owners -> Seq(Chats)]]
       /\ \A f \in Devices, w \in Owners : f # d \/ w # o => chats'[f][w] = chats[f][w]
       /\ chats'[d][o] = r
  BY <1>1, <1>2, <1>8, <1>9
<1> QED BY <1>1, <1>7, <1>9, <1>10 DEF o, log

\* Where the last message of a chat goes.
NextAt(d, i) ==
  [dev |-> d, owner |-> OwnerOf(d), chat |-> i, pos |-> Len(chats[d][OwnerOf(d)][i].log) + 1]

LEMMA MessageStored ==
  ASSUME TypeOK, NEW d \in Devices, NEW i \in DOMAIN OpenChats(d), NEW e \in Entries,
         StoreMessage(d, i, e), NEW x, x = NextAt(d, i)
  PROVE  /\ Stored' = Stored \union {x} /\ x \notin Stored
         /\ x.dev = d /\ x.owner = OwnerOf(d) /\ x.chat = i
         /\ EntryAt(x)' = e /\ ChatAt(x)'.peer = OpenChats(d)[i].peer
         /\ \A y \in Stored : EntryAt(y)' = EntryAt(y) /\ ChatAt(y)'.peer = ChatAt(y).peer
         /\ \A y \in Stored : y.dev = d /\ y.owner = x.owner /\ y.chat = i => y.pos < x.pos
         /\ \A y \in Stored : y.pos \in Nat
<1> DEFINE o == OwnerOf(d)
           log == chats[d][o][i].log
<1>1. /\ o \in Owners
      /\ \A f \in Devices, w \in Owners : f # d \/ w # o => chats'[f][w] = chats[f][w]
      /\ DOMAIN chats'[d][o] = DOMAIN chats[d][o] /\ i \in DOMAIN chats[d][o]
      /\ \A j \in DOMAIN chats[d][o] : j # i => chats'[d][o][j] = chats[d][o][j]
      /\ chats'[d][o][i].peer = chats[d][o][i].peer
      /\ chats'[d][o][i].log = Append(log, e)
  BY LogStored DEF OpenChats
<1>2. log \in Seq(Entries)
  BY <1>1, ChatsTyped
<1>3. /\ x.dev = d /\ x.owner = o /\ x.chat = i /\ x.pos = Len(log) + 1
      /\ x = [dev |-> d, owner |-> o, chat |-> i, pos |-> Len(log) + 1]
  BY DEF NextAt
<1> HIDE DEF o
<1> DEFINE r == chats'[d][o][i].log
<1>4. /\ DOMAIN r = DOMAIN log \union {Len(log) + 1}
      /\ Len(log) + 1 \notin DOMAIN log
      /\ r[Len(log) + 1] = e
      /\ \A j \in DOMAIN log : r[j] = log[j] /\ j < Len(log) + 1
      /\ Len(log) \in Nat
  <2> HIDE DEF log
  <2> QED BY <1>1, <1>2
<1> HIDE DEF r, log
<1>5. ASSUME NEW y, y \in Stored
      PROVE  y \in Stored' /\ ChatAt(y)'.peer = ChatAt(y).peer /\ EntryAt(y)' = EntryAt(y)
  <2>1. /\ y.dev \in Devices /\ y.owner \in Owners /\ y.chat \in DOMAIN chats[y.dev][y.owner]
        /\ y.pos \in DOMAIN chats[y.dev][y.owner][y.chat].log
        /\ y = [dev |-> y.dev, owner |-> y.owner, chat |-> y.chat, pos |-> y.pos]
    BY <1>5, StoredAt
  <2>2. CASE y.dev = d /\ y.owner = o /\ y.chat = i
    <3>1. y.pos \in DOMAIN log /\ y.pos \in DOMAIN r /\ r[y.pos] = log[y.pos]
      BY <1>4, <2>1, <2>2 DEF log
    <3>2. EntryAt(y)' = EntryAt(y) /\ ChatAt(y)'.peer = ChatAt(y).peer
      BY <1>1, <2>2, <3>1 DEF EntryAt, ChatAt, r, log
    <3>3. y.chat \in DOMAIN chats'[y.dev][y.owner]
      BY <1>1, <2>2
    <3> QED BY <2>1, <2>2, <3>1, <3>2, <3>3, StoredAtNext DEF r
  <2>3. CASE ~(y.dev = d /\ y.owner = o /\ y.chat = i)
    <3>1. chats'[y.dev][y.owner][y.chat] = chats[y.dev][y.owner][y.chat]
      BY <1>1, <2>1, <2>3
    <3>2. y.chat \in DOMAIN chats'[y.dev][y.owner]
      BY <1>1, <2>1
    <3> QED BY <2>1, <3>1, <3>2, StoredAtNext DEF EntryAt, ChatAt
  <2> QED BY <2>2, <2>3
<1>6. ASSUME NEW y, y \in Stored', y # x
      PROVE  y \in Stored
  <2>1. /\ y.dev \in Devices /\ y.owner \in Owners /\ y.chat \in DOMAIN chats'[y.dev][y.owner]
        /\ y.pos \in DOMAIN chats'[y.dev][y.owner][y.chat].log
        /\ y = [dev |-> y.dev, owner |-> y.owner, chat |-> y.chat, pos |-> y.pos]
    BY <1>6, StoredAtNext
  <2>2. y.chat \in DOMAIN chats[y.dev][y.owner]
    BY <1>1, <2>1
  <2>3. CASE y.dev = d /\ y.owner = o /\ y.chat = i
    <3>1. y.pos \in DOMAIN log
      BY <1>3, <1>4, <1>6, <2>1, <2>3 DEF r
    <3> QED BY <2>1, <2>2, <2>3, <3>1, StoredAt DEF log
  <2>4. CASE ~(y.dev = d /\ y.owner = o /\ y.chat = i)
    <3>1. chats'[y.dev][y.owner][y.chat] = chats[y.dev][y.owner][y.chat]
      BY <1>1, <2>1, <2>4
    <3> QED BY <2>1, <2>2, <3>1, StoredAt
  <2> QED BY <2>3, <2>4
<1>7. x \in Stored'
  <2>1. Len(log) + 1 \in DOMAIN chats'[d][o][i].log /\ i \in DOMAIN chats'[d][o]
    BY <1>1, <1>4 DEF r
  <2> QED BY <1>1, <1>3, <2>1, StoredAtNext
<1>8. x \notin Stored
  <2> SUFFICES ASSUME x \in Stored PROVE FALSE
    OBVIOUS
  <2>1. x.pos \in DOMAIN chats[x.dev][x.owner][x.chat].log
    BY StoredAt
  <2> QED BY <1>3, <1>4, <2>1 DEF log
<1>9. EntryAt(x)' = e /\ ChatAt(x)'.peer = OpenChats(d)[i].peer
  BY <1>1, <1>3, <1>4 DEF EntryAt, ChatAt, OpenChats, o, r
<1>10. ASSUME NEW y \in Stored, y.dev = d, y.owner = o, y.chat = i
       PROVE  y.pos < x.pos
  <2>1. y.pos \in DOMAIN chats[y.dev][y.owner][y.chat].log
    BY StoredAt
  <2> QED BY <1>3, <1>4, <1>10, <2>1 DEF log
<1>11. ASSUME NEW y \in Stored PROVE y.pos \in Nat
  <2>1. /\ y.dev \in Devices /\ y.owner \in Owners /\ y.chat \in DOMAIN chats[y.dev][y.owner]
        /\ y.pos \in DOMAIN chats[y.dev][y.owner][y.chat].log
    BY StoredAt
  <2> DEFINE l == chats[y.dev][y.owner][y.chat].log
  <2>2. l \in Seq(Entries)
    BY <2>1, ChatsTyped
  <2>3. y.pos \in DOMAIN l
    BY <2>1
  <2> HIDE DEF l
  <2> QED BY <2>2, <2>3
<1> QED BY <1>3, <1>5, <1>6, <1>7, <1>8, <1>9, <1>10, <1>11 DEF o

LEMMA EntryTypes ==
  ASSUME TypeOK, NEW x \in Stored
  PROVE  EntryAt(x) \in Entries /\ EntryAt(x).msg \in Sends /\ EntryAt(x).received \in BOOLEAN
<1>1. /\ x.dev \in Devices /\ x.owner \in Owners /\ x.chat \in DOMAIN chats[x.dev][x.owner]
      /\ x.pos \in DOMAIN chats[x.dev][x.owner][x.chat].log
  BY StoredAt
<1> DEFINE l == chats[x.dev][x.owner][x.chat].log
<1>2. l \in Seq(Entries)
  BY <1>1, ChatsTyped
<1> HIDE DEF l
<1>3. l[x.pos] \in Entries
  BY <1>1, <1>2 DEF l
<1> QED BY <1>3 DEF EntryAt, ChatAt, l, Entries
-----------------------------------------------------------------------------
(* The invariant without the order of messages *)

Core ==
  /\ TypeOK /\ HandlerOpen /\ CallsMade
  /\ HeldForRecipient /\ HeldOnce
  /\ OwnCopyKept /\ DmsHavePeers /\ OneConversation /\ RightConversation

Conversations == OwnCopyKept /\ DmsHavePeers /\ OneConversation /\ RightConversation

\* The stores do not change.
LEMMA ConversationsStay ==
  ASSUME TypeOK, Conversations, chats' = chats, \A m \in Sends : address'[m] = address[m]
  PROVE  Conversations'
<1>1. /\ Stored' = Stored
      /\ \A x : EntryAt(x)' = EntryAt(x) /\ ChatAt(x)' = ChatAt(x)
      /\ \A m, received : Copies(m, received)' = Copies(m, received)
  BY StoresKept
<1>2. OwnCopyKept'
  BY <1>1 DEF Conversations, OwnCopyKept
<1>3. DmsHavePeers' /\ OneConversation'
  BY DEF Conversations, DmsHavePeers, OneConversation
<1>4. RightConversation'
  BY <1>1, EntryTypes DEF Conversations, RightConversation
<1> QED BY <1>2, <1>3, <1>4 DEF Conversations

\* There is no dm with somebody the look-up does not find.
LEMMA Found ==
  ASSUME TypeOK, OneConversation, NEW d \in Devices, NEW peer
  PROVE  /\ FindDm(d, peer) = {} =>
              \A i \in DOMAIN OpenChats(d) :
                ~(OpenChats(d)[i].type = "dm" /\ OpenChats(d)[i].peer = peer)
         /\ \A i \in FindDm(d, peer) : /\ i \in DOMAIN OpenChats(d)
                                       /\ OpenChats(d)[i].type = "dm" /\ OpenChats(d)[i].peer = peer
<1> DEFINE dms == {i \in DOMAIN OpenChats(d) : /\ OpenChats(d)[i].type = "dm"
                                               /\ OpenChats(d)[i].peer = peer}
<1>1. OwnerOf(d) \in Owners
  BY DEF OwnerOf, Owners, TypeOK
<1>2. \A i, j \in dms : i = j
  BY <1>1 DEF OneConversation, OpenChats
<1>3. \A i \in dms : i \in Nat
  BY <1>1, ChatsTyped DEF OpenChats
<1>4. \A i, j \in dms : i <= j
  BY <1>2, <1>3
<1>5. FindDm(d, peer) = dms
  BY <1>4 DEF FindDm
<1> QED BY <1>5

LEMMA ConversationAdded ==
  ASSUME TypeOK, Conversations, NEW d \in Devices, NEW type \in {"dm", "group"},
         NEW peer \in Logins \union {None}, StoreChat(d, type, peer),
         type = "dm" => peer \in Logins /\ FindDm(d, peer) = {},
         address' = address
  PROVE  Conversations'
<1> DEFINE o == OwnerOf(d)
           n == Len(chats[d][o]) + 1
           c == [type |-> type, peer |-> peer, log |-> <<>>]
<1>1. /\ Stored' = Stored
      /\ \A x \in Stored : EntryAt(x)' = EntryAt(x) /\ ChatAt(x)' = ChatAt(x)
      /\ \A m, received : Copies(m, received)' = Copies(m, received)
  BY ChatStoresNoMessage
<1>2. c.type = type /\ c.peer = peer
  OBVIOUS
<1>3. /\ o \in Owners
      /\ \A e \in Devices, w \in Owners : e # d \/ w # o => chats'[e][w] = chats[e][w]
      /\ DOMAIN chats'[d][o] = DOMAIN chats[d][o] \union {n}
      /\ \A i \in DOMAIN chats[d][o] : chats'[d][o][i] = chats[d][o][i]
      /\ chats'[d][o][n] = c
  BY ChatStored
<1> HIDE DEF c, n
<1>4. OwnCopyKept'
  BY <1>1 DEF Conversations, OwnCopyKept
<1>5. RightConversation'
  BY <1>1 DEF Conversations, RightConversation
<1>6. type = "dm" => \A i \in DOMAIN chats[d][o] : ~(chats[d][o][i].type = "dm" /\ chats[d][o][i].peer = peer)
  BY Found DEF Conversations, OpenChats
<1> HIDE DEF o
<1>7. DmsHavePeers'
  <2> SUFFICES ASSUME NEW e \in Devices, NEW w \in Owners, NEW i \in DOMAIN chats'[e][w],
                      chats'[e][w][i].type = "dm"
               PROVE  chats'[e][w][i].peer \in Logins
    BY DEF DmsHavePeers
  <2>1. CASE e # d \/ w # o
    BY <1>3, <2>1 DEF Conversations, DmsHavePeers
  <2>2. CASE e = d /\ w = o
    BY <1>2, <1>3, <2>2 DEF Conversations, DmsHavePeers
  <2> QED BY <2>1, <2>2
<1>8. OneConversation'
  <2> SUFFICES ASSUME NEW e \in Devices, NEW w \in Owners, NEW i \in DOMAIN chats'[e][w],
                      NEW j \in DOMAIN chats'[e][w],
                      chats'[e][w][i].type = "dm", chats'[e][w][j].type = "dm",
                      chats'[e][w][i].peer = chats'[e][w][j].peer
               PROVE  i = j
    BY DEF OneConversation
  <2>1. CASE e # d \/ w # o
    BY <1>3, <2>1 DEF Conversations, OneConversation
  <2>2. CASE e = d /\ w = o
    <3>1. CASE i \in DOMAIN chats[d][o] /\ j \in DOMAIN chats[d][o]
      BY <1>3, <2>2, <3>1 DEF Conversations, OneConversation
    <3>2. CASE ~(i \in DOMAIN chats[d][o] /\ j \in DOMAIN chats[d][o])
      BY <1>2, <1>3, <1>6, <2>2, <3>2
    <3> QED BY <3>1, <3>2
  <2> QED BY <2>1, <2>2
<1> QED BY <1>4, <1>5, <1>7, <1>8 DEF Conversations

LEMMA CopiesGrow ==
  ASSUME TypeOK, NEW d \in Devices, NEW i \in DOMAIN OpenChats(d), NEW e \in Entries,
         StoreMessage(d, i, e), NEW x, x = NextAt(d, i)
  PROVE  /\ x \in Copies(e.msg, e.received)'
         /\ \A m, b : \A y \in Copies(m, b)' :
              y \in Copies(m, b) \/ (y = x /\ m = e.msg /\ b = e.received)
         /\ \A m, b : \A y \in Copies(m, b) : y \in Copies(m, b)'
<1>1. /\ Stored' = Stored \union {x}
      /\ EntryAt(x)' = e
      /\ \A y \in Stored : EntryAt(y)' = EntryAt(y)
  BY MessageStored
<1>2. x \in Copies(e.msg, e.received)'
  BY <1>1 DEF Copies
<1>3. ASSUME NEW m, NEW b, NEW y \in Copies(m, b)'
      PROVE  y \in Copies(m, b) \/ (y = x /\ m = e.msg /\ b = e.received)
  <2>1. y \in Stored' /\ EntryAt(y)'.msg = m /\ EntryAt(y)'.received = b
    BY DEF Copies
  <2>2. CASE y = x
    BY <1>1, <2>1, <2>2
  <2>3. CASE y # x
    <3>1. y \in Stored /\ EntryAt(y) = EntryAt(y)'
      BY <1>1, <2>1, <2>3
    <3> QED BY <2>1, <3>1, Zenon DEF Copies
  <2> QED BY <2>2, <2>3
<1>4. ASSUME NEW m, NEW b, NEW y \in Copies(m, b) PROVE y \in Copies(m, b)'
  BY <1>1 DEF Copies
<1> QED BY <1>2, <1>3, <1>4

\* A message is stored, sent from here (b = FALSE) or received (b = TRUE).
LEMMA ConversationGrows ==
  ASSUME TypeOK, Conversations, NEW d \in Devices, NEW i \in DOMAIN OpenChats(d), NEW e \in Entries,
         StoreMessage(d, i, e), NEW b \in BOOLEAN, e.received = b,
         \A m \in Sends : m # e.msg \/ b = TRUE => address'[m] = address[m],
         b = FALSE => address[e.msg] = None /\ address'[e.msg] # None,
         \A x \in Stored : address[EntryAt(x).msg] # None,
         b = TRUE => /\ OwnerOf(d) = address'[e.msg].to
                     /\ OpenChats(d)[i].peer = address'[e.msg].from,
         b = FALSE => /\ OwnerOf(d) = address'[e.msg].from
                      /\ address'[e.msg].to \in {None, OpenChats(d)[i].peer},
         e.from = address'[e.msg].from
  PROVE  Conversations'
<1> DEFINE o == OwnerOf(d)
<1>0. PICK x : x = NextAt(d, i)
  OBVIOUS
<1>1. /\ Stored' = Stored \union {x} /\ x \notin Stored
      /\ x.dev = d /\ x.owner = o /\ x.chat = i
      /\ EntryAt(x)' = e /\ ChatAt(x)'.peer = OpenChats(d)[i].peer
      /\ \A y \in Stored : EntryAt(y)' = EntryAt(y) /\ ChatAt(y)'.peer = ChatAt(y).peer
  BY <1>0, MessageStored
<1>2. /\ x \in Copies(e.msg, b)'
      /\ \A m, c : \A y \in Copies(m, c)' : y \in Copies(m, c) \/ (y = x /\ m = e.msg /\ c = b)
      /\ \A m, c : \A y \in Copies(m, c) : y \in Copies(m, c)'
  <2>1. /\ x \in Copies(e.msg, e.received)'
        /\ \A m, c : \A y \in Copies(m, c)' :
             y \in Copies(m, c) \/ (y = x /\ m = e.msg /\ c = e.received)
        /\ \A m, c : \A y \in Copies(m, c) : y \in Copies(m, c)'
    BY <1>0, CopiesGrow
  <2> QED BY <2>1, Zenon
<1>3. e.msg \in Sends
  BY DEF Entries
<1>4. OwnCopyKept'
  <2> SUFFICES ASSUME NEW m \in Sends
               PROVE  /\ Copies(m, FALSE)' # {} <=> address'[m] # None
                      /\ \A y, z \in Copies(m, FALSE)' : y = z
    BY DEF OwnCopyKept
  <2>1. /\ Copies(m, FALSE) # {} <=> address[m] # None
        /\ \A y, z \in Copies(m, FALSE) : y = z
    BY DEF Conversations, OwnCopyKept
  <2>2. CASE m = e.msg /\ b = FALSE
    <3>1. Copies(m, FALSE) = {} /\ address'[m] # None
      BY <2>1, <2>2
    <3>2. \A y \in Copies(m, FALSE)' : y = x
      BY <1>2, <3>1
    <3>3. x \in Copies(m, FALSE)'
      BY <1>2, <2>2, Zenon
    <3> QED BY <3>1, <3>2, <3>3
  <2>3. CASE ~(m = e.msg /\ b = FALSE)
    <3>1. address'[m] = address[m]
      <4>1. m # e.msg \/ b = TRUE
        BY <2>3, Zenon
      <4> QED BY <4>1
    <3>2. Copies(m, FALSE)' = Copies(m, FALSE)
      <4>1. \A y \in Copies(m, FALSE)' : y \in Copies(m, FALSE)
        BY <1>2, <2>3, Zenon
      <4> QED BY <1>2, <4>1
    <3> QED BY <2>1, <3>1, <3>2
  <2> QED BY <2>2, <2>3
<1>5. /\ o \in Owners
      /\ \A f \in Devices, w \in Owners : f # d \/ w # o => chats'[f][w] = chats[f][w]
      /\ DOMAIN chats'[d][o] = DOMAIN chats[d][o]
      /\ \A j \in DOMAIN chats[d][o] : j # i => chats'[d][o][j] = chats[d][o][j]
      /\ chats'[d][o][i].type = chats[d][o][i].type
      /\ chats'[d][o][i].peer = chats[d][o][i].peer
  BY LogStored
<1>6. /\ \A f \in Devices, w \in Owners :
           /\ DOMAIN chats'[f][w] = DOMAIN chats[f][w]
           /\ \A j \in DOMAIN chats[f][w] : /\ chats'[f][w][j].type = chats[f][w][j].type
                                            /\ chats'[f][w][j].peer = chats[f][w][j].peer
  <2> HIDE DEF o
  <2> QED BY <1>5
<1>7. DmsHavePeers' /\ OneConversation'
  BY <1>6 DEF Conversations, DmsHavePeers, OneConversation
<1>8. RightConversation'
  <2> SUFFICES ASSUME NEW y \in Stored'
               PROVE  /\ EntryAt(y)'.received =>
                           /\ y.owner = address'[EntryAt(y)'.msg].to
                           /\ ChatAt(y)'.peer = address'[EntryAt(y)'.msg].from
                      /\ ~EntryAt(y)'.received =>
                           /\ y.owner = address'[EntryAt(y)'.msg].from
                           /\ address'[EntryAt(y)'.msg].to \in {None, ChatAt(y)'.peer}
                      /\ EntryAt(y)'.from = address'[EntryAt(y)'.msg].from
    BY DEF RightConversation
  <2>1. CASE y = x
    <3>1. b = TRUE \/ b = FALSE
      BY Zenon
    <3>2. CASE b = TRUE
      <4>1. EntryAt(y)'.received /\ EntryAt(y)' = e
        BY <1>1, <2>1, <3>2, Zenon
      <4> QED BY <1>1, <2>1, <3>2, <4>1
    <3>3. CASE b = FALSE
      <4>1. ~EntryAt(y)'.received /\ EntryAt(y)' = e
        BY <1>1, <2>1, <3>3, Zenon
      <4> QED BY <1>1, <2>1, <3>3, <4>1
    <3> QED BY <3>1, <3>2, <3>3
  <2>2. CASE y \in Stored
    <3>1. address'[EntryAt(y).msg] = address[EntryAt(y).msg]
      BY <2>2, EntryTypes
    <3>2. EntryAt(y)' = EntryAt(y) /\ ChatAt(y)'.peer = ChatAt(y).peer
      BY <1>1, <2>2
    <3> QED BY <2>2, <3>1, <3>2 DEF Conversations, RightConversation
  <2> QED BY <1>1, <2>1, <2>2
<1> QED BY <1>4, <1>7, <1>8 DEF Conversations
-----------------------------------------------------------------------------
(* Requests *)

\* What a step of Rpc does to the state of a request, and to no other.
LEMMA RequestSteps ==
  ASSUME TypeOK, NEW c \in Calls
  PROVE  /\ Net!Call(c) => /\ status[c] = "new" /\ ran' = ran
                           /\ status' = [status EXCEPT ![c] = "open"]
                           /\ \A k \in Calls : k.by = c.by => status[k] # "open"
         /\ Net!Execute(c) => /\ status[c] \in {"open", "unknown"} /\ ran[c] = 0 /\ status' = status
                              /\ ran' = [ran EXCEPT ![c] = 1]
         /\ Net!Answer(c) => /\ status[c] = "open" /\ ran[c] = 1 /\ ran' = ran
                             /\ status' = [status EXCEPT ![c] = "answered"]
         /\ NoAnswer(c) => /\ status[c] = "open" /\ ran' = ran
                           /\ \/ ran[c] = 0 /\ status' = [status EXCEPT ![c] = "failed"]
                              \/ status' = [status EXCEPT ![c] = "unknown"]
         /\ Net!GiveUp(c) => /\ status[c] = "open" /\ ran' = ran
                             /\ status' = [status EXCEPT ![c] = "unknown"]
BY DEF TypeOK, Net!TypeOK, Net!Call, Net!Execute, Net!Answer, Net!Fail, Net!GiveUp, NoAnswer, CallerOf

LEMMA RequestTypes ==
  ASSUME TypeOK
  PROVE  /\ status \in [Calls -> {"new", "open", "answered", "failed", "unknown"}]
         /\ ran \in [Calls -> 0..1]
         /\ handler \in [Devices -> Calls \union {None}]
         /\ address \in [Calls -> Addresses \union {None}]
         /\ \A c \in Calls : address[c] # None =>
              address[c].from \in Owners /\ address[c].to \in Logins \union {None}
<1>1. \A c \in Calls : address[c] \in Addresses \union {None}
  BY DEF TypeOK
<1>2. \A c \in Calls : address[c] # None =>
         address[c].from \in Owners /\ address[c].to \in Logins \union {None}
  BY <1>1 DEF Addresses
<1> QED BY <1>2 DEF TypeOK, Net!TypeOK, Net!Statuses
-----------------------------------------------------------------------------
(* Messages on their way *)

LEMMA HeldFacts ==
  ASSUME TypeOK, CallsMade, HeldForRecipient, HeldOnce,
         NEW h \in Holders, NEW i \in DOMAIN Content(h)
  PROVE  LET m == Content(h)[i] IN
         /\ m \in Sends /\ m \in accepted /\ m \notin lost /\ Held(m) /\ ~Arrived(m)
         /\ ran[m] = 1 /\ status[m] \in {"open", "answered", "unknown"}
         /\ address[m] # None /\ address[m].from \in Logins /\ address[m].to \in Logins
         /\ address[m].to = Destination(h)
<1>1. PICK m : m = Content(h)[i]
  OBVIOUS
<1>2. m \in Sends
  BY <1>1, ContentType
<1>3. Held(m)
  BY <1>1 DEF Held, Elems
<1>4. m \in accepted /\ m \notin lost /\ ~Arrived(m)
  BY <1>2, <1>3 DEF HeldOnce
<1>5. ran[m] = 1 /\ m \in Calls
  BY <1>2, <1>4, CallFacts DEF CallsMade
<1>6. status[m] \in {"open", "answered", "unknown"}
  BY <1>5 DEF CallsMade
<1>7. address[m] # None /\ address[m].from \in Logins /\ address[m].to \in Logins
  BY <1>2, <1>5, <1>6 DEF CallsMade
<1>8. address[m].to = Destination(h)
  BY <1>1 DEF HeldForRecipient
<1> QED BY <1>1, <1>2, <1>3, <1>4, <1>5, <1>6, <1>7, <1>8

\* Every place a message is in after the step is one that something was in
\* before it: what h holds came from src[h], where it was off[h] places later.
Flow(src, off) ==
  /\ \A h \in Holders : \A i \in DOMAIN Content(h)' :
       /\ i + off[h] \in DOMAIN Content(src[h])
       /\ Content(h)'[i] = Content(src[h])[i + off[h]]
       /\ Destination(h)' = Destination(src[h])
  /\ \A h, g \in Holders : Content(h)' # <<>> /\ Content(g)' # <<>> /\ src[h] = src[g] => h = g

\* What was accepted keeps its address, and its sender learns no more of it.
Weakens ==
  \A m \in accepted :
    /\ address'[m] = address[m]
    /\ status'[m] \in {"open", "answered"} => status[m] \in {"open", "answered"}

LEMMA ContentTypeNext ==
  ASSUME TypeOK', NEW h \in Holders
  PROVE  /\ Content(h)' \in Seq(Sends)
         /\ \A i \in DOMAIN Content(h)' : i \in Nat \ {0} /\ Content(h)'[i] \in Sends
<1>1. Content(h)' \in Seq(Sends)
  <2>1. CASE \E a \in Logins : h = QueueOf(a)
    BY <2>1, Contents DEF TypeOK
  <2>2. CASE \E p \in Polls : h = ReplyTo(p)
    <3>1. PICK p \in Polls : h = ReplyTo(p)
      BY <2>2
    <3>2. taken'[p] \in Seq(Sends) /\ <<>> \in Seq(Sends)
      BY DEF TypeOK
    <3> QED BY <3>1, <3>2, Contents
  <2>3. CASE \E d \in Devices : h = BatchOf(d)
    BY <2>3, Contents DEF TypeOK
  <2> QED BY <2>1, <2>2, <2>3, HolderKinds
<1> DEFINE q == Content(h)'
<1> HIDE DEF q
<1> QED BY <1>1 DEF q

InOnePlace ==
  \A h, g \in Holders : \A i \in DOMAIN Content(h), j \in DOMAIN Content(g) :
    Content(h)[i] = Content(g)[j] => h = g /\ i = j

LEMMA FlowKeeps ==
  ASSUME TypeOK, TypeOK', CallsMade, HeldForRecipient, HeldOnce,
         NEW src \in [Holders -> Holders], NEW off \in [Holders -> Nat], Flow(src, off), Weakens
  PROVE  /\ HeldForRecipient' /\ InOnePlace' /\ (HeldInOrder => HeldInOrder')
         /\ \A m \in Sends : Held(m)' => Held(m)
<1>1. ASSUME NEW h \in Holders, NEW i \in DOMAIN Content(h)'
      PROVE  /\ src[h] \in Holders /\ i + off[h] \in DOMAIN Content(src[h])
             /\ Content(h)'[i] = Content(src[h])[i + off[h]]
             /\ Content(h)'[i] \in accepted
             /\ address'[Content(h)'[i]].to = Destination(h)'
             /\ i \in Nat /\ off[h] \in Nat /\ Content(h)' # <<>>
  <2>1. /\ src[h] \in Holders /\ i + off[h] \in DOMAIN Content(src[h])
        /\ Content(h)'[i] = Content(src[h])[i + off[h]]
        /\ Destination(h)' = Destination(src[h])
    BY DEF Flow
  <2>2. Content(h)'[i] \in accepted /\ address[Content(h)'[i]].to = Destination(src[h])
    BY <2>1, HeldFacts
  <2>3. address'[Content(h)'[i]] = address[Content(h)'[i]]
    BY <2>2 DEF Weakens
  <2>4. i \in Nat /\ off[h] \in Nat
    BY ContentTypeNext
  <2>5. Content(h)' # <<>>
    OBVIOUS
  <2> QED BY <2>1, <2>2, <2>3, <2>4, <2>5
<1>2. HeldForRecipient'
  BY <1>1 DEF HeldForRecipient, Holders, QueueOf, ReplyTo, BatchOf
<1>3. InOnePlace'
  <2> SUFFICES ASSUME NEW h \in Holders, NEW g \in Holders,
                      NEW i \in DOMAIN Content(h)', NEW j \in DOMAIN Content(g)',
                      Content(h)'[i] = Content(g)'[j]
               PROVE  h = g /\ i = j
    BY DEF InOnePlace
  <2>1. src[h] = src[g] /\ i + off[h] = j + off[g]
    BY <1>1 DEF HeldOnce
  <2>2. h = g
    BY <1>1, <2>1 DEF Flow
  <2> QED BY <1>1, <2>1, <2>2
<1>4. ASSUME HeldInOrder PROVE HeldInOrder'
  <2> SUFFICES ASSUME NEW h \in Holders, NEW i \in DOMAIN Content(h)', NEW j \in DOMAIN Content(h)', i < j
               PROVE  \A x, y : x = Content(h)'[i] /\ y = Content(h)'[j] => Ordered(x, y)'
    BY DEF HeldInOrder
  <2>1. Ordered(Content(h)'[i], Content(h)'[j])
    <3>1. i + off[h] < j + off[h]
      BY <1>1
    <3> QED BY <1>1, <1>4, <3>1 DEF HeldInOrder
  <2> QED BY <1>1, <2>1 DEF Ordered, Weakens
<1>5. ASSUME NEW m \in Sends, Held(m)' PROVE Held(m)
  <2>1. PICK h \in Holders : m \in Elems(Content(h)')
    BY <1>5 DEF Held
  <2>2. PICK i \in DOMAIN Content(h)' : m = Content(h)'[i]
    BY <2>1 DEF Elems
  <2> QED BY <1>1, <2>2 DEF Held, Elems
<1> QED BY <1>2, <1>3, <1>4, <1>5

LEMMA FlowCounts ==
  ASSUME HeldOnce, InOnePlace', \A m \in Sends : Held(m)' => Held(m),
         accepted' = accepted,
         \A m \in Sends : Copies(m, TRUE)' = Copies(m, TRUE),
         \A m \in Sends : m \in lost' <=> m \in lost \/ (Held(m) /\ ~Held(m)')
  PROVE  HeldOnce'
<1>1. ASSUME NEW m \in Sends
      PROVE  /\ (Held(m)' \/ Arrived(m)') <=> m \in accepted' \ lost'
             /\ ~(Held(m)' /\ Arrived(m)')
             /\ \A x, y \in Copies(m, TRUE)' : x = y
  <2>1. /\ (Held(m) \/ Arrived(m)) <=> m \in accepted \ lost
        /\ ~(Held(m) /\ Arrived(m))
        /\ \A x, y \in Copies(m, TRUE) : x = y
    BY DEF HeldOnce
  <2>2. Arrived(m)' <=> Arrived(m)
    BY DEF Arrived
  <2>3. /\ Held(m)' => Held(m)
        /\ m \in lost' <=> m \in lost \/ (Held(m) /\ ~Held(m)')
        /\ Copies(m, TRUE)' = Copies(m, TRUE)
    OBVIOUS
  <2> QED BY <2>1, <2>2, <2>3
<1> QED BY <1>1 DEF HeldOnce, InOnePlace, Holders, QueueOf, ReplyTo, BatchOf

LEMMA ReceivedFacts ==
  ASSUME TypeOK, CallsMade, HeldOnce, RightConversation,
         NEW x \in Stored, EntryAt(x).received
  PROVE  LET m == EntryAt(x).msg IN
         /\ m \in Sends /\ x \in Copies(m, TRUE) /\ Arrived(m) /\ ~Held(m)
         /\ m \in accepted /\ m \notin lost /\ address[m].to = x.owner
         /\ ran[m] = 1 /\ status[m] \in {"open", "answered", "unknown"}
<1>1. PICK m : m = EntryAt(x).msg
  OBVIOUS
<1>2. m \in Sends /\ m \in Calls
  BY <1>1, EntryTypes, CallFacts
<1>3. EntryAt(x).received = TRUE
  BY EntryTypes, Zenon
<1>4. x \in Copies(m, TRUE)
  BY <1>1, <1>3 DEF Copies
<1>5. Arrived(m)
  BY <1>4 DEF Arrived
<1>6. m \in accepted /\ m \notin lost /\ ~Held(m)
  BY <1>2, <1>5 DEF HeldOnce
<1>7. ran[m] = 1
  BY <1>6 DEF CallsMade
<1>8. status[m] \in {"open", "answered", "unknown"}
  BY <1>2, <1>7 DEF CallsMade
<1>9. address[m].to = x.owner
  BY <1>1, <1>3 DEF RightConversation
<1> QED BY <1>1, <1>2, <1>4, <1>5, <1>6, <1>7, <1>8, <1>9

\* No message arrives in the step.
NoneArrives ==
  \A x \in Stored' : EntryAt(x)'.received => x \in Stored /\ EntryAt(x)' = EntryAt(x)

LEMMA FlowOrders ==
  ASSUME TypeOK, TypeOK', CallsMade, HeldForRecipient, HeldOnce, RightConversation, NoneOvertakes,
         NEW src \in [Holders -> Holders], NEW off \in [Holders -> Nat], Flow(src, off), Weakens,
         NoneArrives, accepted' = accepted,
         \A a \in Logins : queue'[a] = <<>> \/ queue'[a] = queue[a],
         \A d \in Devices : \A h \in PolledBy(d) : Content(h)' # <<>> =>
           src[h] \in PolledBy(d) \/ \E a \in Logins : src[h] = QueueOf(a)
  PROVE  NoneOvertakes'
<1>1. HeldInOrder'
  BY FlowKeeps DEF NoneOvertakes
<1>2. QueuedLast'
  <2> SUFFICES ASSUME NEW a \in Logins, NEW y \in Elems(queue'[a]), NEW x \in accepted' \ Elems(queue'[a]),
                      address'[x].to = a
               PROVE  Ordered(x, y)'
    BY DEF QueuedLast, Elems
  <2>1. queue'[a] = queue[a]
    BY DEF Elems
  <2>2. y \in accepted
    <3>1. PICK i \in DOMAIN Content(QueueOf(a)) : y = Content(QueueOf(a))[i]
      BY <2>1, Contents DEF Elems
    <3> QED BY <3>1, HeldFacts, HolderKinds
  <2>3. address[x].to = a
    BY DEF Weakens
  <2>4. Ordered(x, y)
    BY <2>1, <2>3 DEF NoneOvertakes, QueuedLast
  <2> QED BY <2>2, <2>4 DEF Ordered, Weakens
<1>3. ASSUME NEW x \in Stored', EntryAt(x)'.received
      PROVE  /\ x \in Stored /\ EntryAt(x)' = EntryAt(x) /\ EntryAt(x).received
             /\ EntryAt(x).msg \in accepted
  BY <1>3, ReceivedFacts DEF NoneArrives
<1>4. PolledLater'
  <2> SUFFICES ASSUME NEW x \in Stored', EntryAt(x)'.received, NEW h \in PolledBy(x.dev),
                      NEW y \in Elems(Content(h)'), Destination(h)' = x.owner,
                      NEW m, m = EntryAt(x)'.msg
               PROVE  Ordered(m, y)'
    BY DEF PolledLater, Elems, PolledBy, ReplyTo, BatchOf
  <2>1. x \in Stored /\ m = EntryAt(x).msg /\ EntryAt(x).received /\ x.dev \in Devices
    BY <1>3, StoredAt
  <2>2. h \in Holders
    BY <2>1, HolderKinds DEF PolledBy
  <2>3. PICK i \in DOMAIN Content(h)' : y = Content(h)'[i]
    BY DEF Elems
  <2>4. /\ i + off[h] \in DOMAIN Content(src[h]) /\ y = Content(src[h])[i + off[h]]
        /\ Destination(src[h]) = x.owner /\ src[h] \in Holders
    BY <2>2, <2>3 DEF Flow
  <2>5. y \in Elems(Content(src[h])) /\ y \in accepted
    BY <2>4, HeldFacts DEF Elems
  <2>6. Ordered(m, y)
    <3>1. CASE src[h] \in PolledBy(x.dev)
      BY <2>1, <2>4, <2>5, <3>1 DEF NoneOvertakes, PolledLater
    <3>2. CASE \E a \in Logins : src[h] = QueueOf(a)
      <4>1. PICK a \in Logins : src[h] = QueueOf(a)
        BY <3>2
      <4>2. x.owner = a /\ y \in Elems(queue[a])
        BY <2>4, <2>5, <4>1, Destinations, Contents
      <4>3. m \in accepted /\ address[m].to = a /\ ~Held(m)
        BY <2>1, <4>2, ReceivedFacts
      <4>4. m \notin Elems(queue[a])
        BY <4>3, Contents, HolderKinds DEF Held
      <4> QED BY <4>2, <4>3, <4>4 DEF NoneOvertakes, QueuedLast
    <3> QED BY <2>1, <2>3, <3>1, <3>2
  <2> QED BY <2>5, <2>6 DEF Ordered, Weakens
<1>5. StoredInOrder'
  <2> SUFFICES ASSUME NEW x \in Stored', NEW y \in Stored', x.dev = y.dev, x.owner = y.owner,
                      x.chat = y.chat, x.pos < y.pos, EntryAt(x)'.received, EntryAt(y)'.received,
                      NEW m, m = EntryAt(x)'.msg, NEW k, k = EntryAt(y)'.msg
               PROVE  Ordered(m, k)'
    BY DEF StoredInOrder
  <2>1. Ordered(m, k) /\ k \in accepted
    BY <1>3 DEF NoneOvertakes, StoredInOrder
  <2> QED BY <2>1 DEF Ordered, Weakens
<1> QED BY <1>1, <1>2, <1>4, <1>5 DEF NoneOvertakes
-----------------------------------------------------------------------------
(* The invariant, step by step *)

Safe == Core /\ NoneOvertakes

LEMMA FlowSafe ==
  ASSUME Safe, TypeOK', HandlerOpen', CallsMade', Conversations',
         NEW src \in [Holders -> Holders], NEW off \in [Holders -> Nat], Flow(src, off), Weakens,
         NoneArrives, accepted' = accepted,
         \A m \in Sends : Copies(m, TRUE)' = Copies(m, TRUE),
         \A m \in Sends : m \in lost' <=> m \in lost \/ (Held(m) /\ ~Held(m)'),
         \A a \in Logins : queue'[a] = <<>> \/ queue'[a] = queue[a],
         \A d \in Devices : \A h \in PolledBy(d) : Content(h)' # <<>> =>
           src[h] \in PolledBy(d) \/ \E a \in Logins : src[h] = QueueOf(a)
  PROVE  Safe'
<1>1. /\ TypeOK /\ CallsMade /\ HeldForRecipient /\ HeldOnce /\ RightConversation /\ NoneOvertakes
  BY DEF Safe, Core
<1>2. HeldForRecipient' /\ InOnePlace' /\ \A m \in Sends : Held(m)' => Held(m)
  BY <1>1, FlowKeeps
<1>3. HeldOnce'
  BY <1>1, <1>2, FlowCounts
<1>4. NoneOvertakes'
  BY <1>1, FlowOrders
<1> QED BY <1>2, <1>3, <1>4 DEF Safe, Core, Conversations

\* Nothing moves, and what one holder has may be dropped.
Rests(h) ==
  /\ Content(h)' = Content(h)
  /\ Content(h) # <<>> => Destination(h)' = Destination(h)

LEMMA RestsSafe ==
  ASSUME Safe, TypeOK', HandlerOpen', CallsMade', Conversations', Weakens,
         NoneArrives, accepted' = accepted,
         \A m \in Sends : Copies(m, TRUE)' = Copies(m, TRUE),
         NEW S \in SUBSET Holders,
         \A h \in Holders \ S : Rests(h),
         \A h \in S : Content(h)' = <<>>,
         \A m \in Sends : m \in lost' <=> m \in lost \/ \E h \in S : m \in Elems(Content(h))
  PROVE  Safe'
<1> DEFINE src == [h \in Holders |-> h]
           off == [h \in Holders |-> 0]
<1>1. src \in [Holders -> Holders] /\ off \in [Holders -> Nat]
  OBVIOUS
<1>2. \A h \in Holders : src[h] = h /\ off[h] = 0
  OBVIOUS
<1>3. TypeOK /\ HeldOnce
  BY DEF Safe, Core
<1> HIDE DEF src, off
<1>4. Flow(src, off)
  <2>1. ASSUME NEW h \in Holders, NEW i \in DOMAIN Content(h)'
        PROVE  /\ i + 0 \in DOMAIN Content(h) /\ Content(h)'[i] = Content(h)[i + 0]
               /\ Destination(h)' = Destination(h)
    <3>1. Content(h)' = Content(h) /\ Content(h) # <<>> /\ Destination(h)' = Destination(h)
      BY DEF Rests
    <3>2. i \in Nat
      BY ContentTypeNext
    <3>3. i + 0 = i
      BY <3>2
    <3> QED BY <3>1, <3>3
  <2> QED BY <1>2, <2>1 DEF Flow
<1>5. ASSUME NEW a \in Logins PROVE queue'[a] = <<>> \/ queue'[a] = queue[a]
  <2>1. QueueOf(a) \in Holders
    BY HolderKinds
  <2> QED BY <2>1, Contents DEF Rests
<1>6. ASSUME NEW d \in Devices, NEW h \in PolledBy(d) PROVE src[h] \in PolledBy(d)
  <2>1. h \in Holders
    BY HolderKinds DEF PolledBy
  <2> QED BY <1>2, <2>1
<1>7. ASSUME NEW m \in Sends PROVE m \in lost' <=> m \in lost \/ (Held(m) /\ ~Held(m)')
  <2>1. ASSUME NEW h \in S, m \in Elems(Content(h)) PROVE Held(m) /\ ~Held(m)'
    <3>1. \A g \in Holders : m \in Elems(Content(g)) => g = h
      BY <1>3, <2>1 DEF HeldOnce, Elems
    <3>2. \A g \in Holders : m \in Elems(Content(g)') => m \in Elems(Content(g)) /\ g \notin S
      BY DEF Rests, Elems
    <3>3. ~Held(m)'
      BY <3>1, <3>2 DEF Held, Elems, Holders, QueueOf, ReplyTo, BatchOf
    <3> QED BY <2>1, <3>3 DEF Held
  <2>2. ASSUME Held(m), ~Held(m)' PROVE \E h \in S : m \in Elems(Content(h))
    <3>1. PICK h \in Holders : m \in Elems(Content(h))
      BY <2>2 DEF Held
    <3>2. m \notin Elems(Content(h)')
      BY <2>2 DEF Held, Elems, Holders, QueueOf, ReplyTo, BatchOf
    <3> QED BY <3>1, <3>2 DEF Rests
  <2> QED BY <2>1, <2>2
<1> QED BY <1>1, <1>4, <1>5, <1>6, <1>7, FlowSafe

LEMMA StoresRest ==
  ASSUME TypeOK, Conversations, chats' = chats, \A m \in Sends : address'[m] = address[m]
  PROVE  Conversations' /\ NoneArrives /\ \A m \in Sends : Copies(m, TRUE)' = Copies(m, TRUE)
BY ConversationsStay, StoresKept DEF NoneArrives

LEMMA QuietSafe ==
  ASSUME Safe, TypeOK', HandlerOpen', CallsMade', Conversations', Weakens,
         NoneArrives, accepted' = accepted, lost' = lost,
         \A m \in Sends : Copies(m, TRUE)' = Copies(m, TRUE),
         \A h \in Holders : Rests(h)
  PROVE  Safe'
<1>1. PICK S \in SUBSET Holders : S = {}
  OBVIOUS
<1>2. /\ \A h \in Holders \ S : Rests(h)
      /\ \A h \in S : Content(h)' = <<>>
      /\ \A m \in Sends : m \in lost' <=> m \in lost \/ \E h \in S : m \in Elems(Content(h))
  BY <1>1
<1> QED BY <1>2, RestsSafe

LEMMA DropSafe ==
  ASSUME Safe, TypeOK', HandlerOpen', CallsMade', Conversations', Weakens,
         NoneArrives, accepted' = accepted,
         \A m \in Sends : Copies(m, TRUE)' = Copies(m, TRUE),
         NEW h \in Holders, Content(h)' = <<>>, lost' = lost \union Elems(Content(h)),
         \A g \in Holders \ {h} : Rests(g)
  PROVE  Safe'
<1>1. PICK S \in SUBSET Holders : S = {h}
  OBVIOUS
<1>2. /\ \A g \in Holders \ S : Rests(g)
      /\ \A g \in S : Content(g)' = <<>>
      /\ \A m \in Sends : m \in lost' <=> m \in lost \/ \E g \in S : m \in Elems(Content(g))
  BY <1>1
<1> QED BY <1>2, RestsSafe

LEMMA SafeParts ==
  ASSUME Safe
  PROVE  /\ TypeOK /\ HandlerOpen /\ CallsMade /\ HeldForRecipient /\ HeldOnce /\ Conversations
         /\ RightConversation /\ OneConversation /\ OwnCopyKept /\ NoneOvertakes
BY DEF Safe, Core, Conversations

\* A batch is that of a handler which merges it, and an open poll has no batch.
LEMMA Batches ==
  ASSUME TypeOK, HandlerOpen, NEW d \in Devices
  PROVE  /\ batch[d] # <<>> => handler[d] \in Polls /\ status[handler[d]] = "answered"
         /\ handler[d] # None => /\ handler[d] \in Calls /\ handler[d].by = d
                                 /\ status[handler[d]] \in {"open", "answered"}
                                 /\ session[d] = address[handler[d]].from
BY CallFacts DEF HandlerOpen, Merging, TypeOK

\* A device gives up waiting, with an answer or without one.
StopsWaiting(d, c, s) ==
  /\ c = handler[d] /\ status[c] = "open" /\ (s = "failed" => ran[c] = 0)
  /\ status' = [status EXCEPT ![c] = s] /\ ran' = ran
  /\ \/ handler' = [handler EXCEPT ![d] = None]
     \/ handler' = handler /\ s = "answered" /\ session' = session
  /\ \A e \in Devices : e # d => batch'[e] = batch[e] /\ session'[e] = session[e]
  /\ batch'[d] # <<>> => handler' = handler /\ c \in Polls
  /\ address' = address /\ taken' = taken /\ accepted' = accepted

LEMMA CallOver ==
  ASSUME Safe, NEW d \in Devices, NEW c \in Calls,
         NEW s \in {"answered", "failed", "unknown"}, StopsWaiting(d, c, s)
  PROVE  /\ HandlerOpen' /\ CallsMade' /\ Weakens /\ Net!TypeOK'
         /\ handler' \in [Devices -> Calls \union {None}]
         /\ status'[c] = s /\ batch[d] = <<>> /\ session[d] = address[c].from
         /\ \A k \in Calls : k # c => status'[k] = status[k]
<1> USE DEF StopsWaiting
<1>1. TypeOK /\ HandlerOpen /\ CallsMade
  BY SafeParts
<1>2. c # None
  BY CallFacts
<1>3. /\ status \in [Calls -> {"new", "open", "answered", "failed", "unknown"}]
      /\ handler \in [Devices -> Calls \union {None}]
  BY <1>1, RequestTypes
<1>4. status'[c] = s /\ \A k \in Calls : k # c => status'[k] = status[k]
  BY <1>3
<1>5. /\ handler' \in [Devices -> Calls \union {None}]
      /\ \A e \in Devices : e # d => handler'[e] = handler[e]
      /\ handler'[d] # None => handler'[d] = c /\ s = "answered" /\ session' = session
  BY <1>3
<1>6. batch[d] = <<>> /\ c.by = d /\ session[d] = address[c].from
  BY <1>1, <1>2, Batches
<1>7. Net!TypeOK'
  BY <1>1, <1>3 DEF TypeOK, Net!TypeOK, Net!Statuses
<1>8. HandlerOpen'
  <2>1. \A e \in Devices : e # d /\ handler[e] # None => handler[e] \in Calls /\ handler[e] # c
    BY <1>1, <1>6, Batches
  <2>2. ASSUME NEW e \in Devices, e # d
        PROVE  /\ handler'[e] # None =>
                    /\ handler'[e].by = e /\ status'[handler'[e]] \in {"open", "answered"}
                    /\ session'[e] = address'[handler'[e]].from
               /\ batch'[e] # <<>> => handler'[e] \in Polls /\ status'[handler'[e]] = "answered"
    BY <1>1, <1>4, <1>5, <2>1, <2>2, Batches, CallFacts
  <2>3. /\ handler'[d] # None =>
             /\ handler'[d].by = d /\ status'[handler'[d]] \in {"open", "answered"}
             /\ session'[d] = address'[handler'[d]].from
        /\ batch'[d] # <<>> => handler'[d] \in Polls /\ status'[handler'[d]] = "answered"
    BY <1>2, <1>4, <1>5, <1>6
  <2> QED BY <2>2, <2>3 DEF HandlerOpen, Merging
<1>9. CallsMade'
  <2>1. ASSUME NEW k \in Calls, status'[k] = "open" PROVE handler'[k.by] = k
    <3>1. k # c /\ status[k] = "open"
      BY <1>4, <2>1
    <3>2. k.by # d
      BY <1>1, <3>1 DEF CallsMade
    <3> QED BY <1>1, <1>5, <3>1, <3>2, CallFacts DEF CallsMade, Calls
  <2>2. \A k \in Calls : status'[k] # "new" => status[k] # "new"
    BY <1>4
  <2>3. \A k \in Calls : ran[k] = 1 => status'[k] \in {"open", "answered", "unknown"}
    BY <1>1, <1>4 DEF CallsMade
  <2>4. \A k \in Sends : status'[k] = "open" => status[k] = "open"
    BY <1>4, CallFacts
  <2> QED BY <1>1, <2>1, <2>2, <2>3, <2>4, CallFacts DEF CallsMade
<1>10. Weakens
  BY <1>1, <1>4, CallFacts DEF Weakens, TypeOK
<1> QED BY <1>4, <1>5, <1>6, <1>7, <1>8, <1>9, <1>10

LEMMA SendReturnsSafe ==
  ASSUME Safe, NEW d \in Devices, SendReturns(d)
  PROVE  Safe'
<1>1. PICK m \in Sends : m = handler[d]
  BY DEF SendReturns
<1>2. TypeOK /\ HandlerOpen /\ Conversations
  BY SafeParts
<1>3. m \in Calls /\ m \notin Polls /\ m # None
  BY <1>1, CallFacts
<1>4. PICK s \in {"answered", "failed", "unknown"} :
        /\ status[m] = "open" /\ status' = [status EXCEPT ![m] = s] /\ ran' = ran
        /\ s = "failed" => ran[m] = 0
  BY <1>1, <1>2, <1>3, RequestSteps DEF SendReturns
<1>5. /\ handler' = [handler EXCEPT ![d] = None]
      /\ session' = session /\ chats' = chats /\ batch' = batch /\ address' = address
      /\ queue' = queue /\ taken' = taken /\ accepted' = accepted /\ lost' = lost
  BY DEF SendReturns, server
<1>6. batch[d] = <<>>
  BY <1>1, <1>2, <1>3, Batches
<1>7. /\ HandlerOpen' /\ CallsMade' /\ Weakens /\ Net!TypeOK'
      /\ handler' \in [Devices -> Calls \union {None}]
      /\ \A c \in Calls : c # m => status'[c] = status[c]
  <2>1. StopsWaiting(d, m, s)
    BY <1>1, <1>4, <1>5, <1>6 DEF StopsWaiting
  <2> QED BY <1>3, <2>1, CallOver
<1>8. TypeOK'
  BY <1>2, <1>5, <1>7 DEF TypeOK
<1>9. \A h \in Holders : Rests(h)
  <2>1. \A p \in Polls : status'[p] = status[p]
    BY <1>3, <1>7, CallFacts
  <2> QED BY <1>5, <2>1, HolderKinds, Contents, Destinations DEF Rests
<1> QED BY <1>2, <1>5, <1>7, <1>8, <1>9, StoresRest, QuietSafe

LEMMA MergeEndsSafe ==
  ASSUME Safe, NEW d \in Devices, MergeEnds(d)
  PROVE  Safe'
<1>1. /\ handler' = [handler EXCEPT ![d] = None] /\ batch[d] = <<>>
      /\ handler[d] \in Polls /\ status[handler[d]] = "answered"
      /\ session' = session /\ chats' = chats /\ batch' = batch /\ address' = address
      /\ queue' = queue /\ taken' = taken /\ accepted' = accepted /\ lost' = lost
      /\ status' = status /\ ran' = ran
  BY DEF MergeEnds, Merging, server
<1>2. TypeOK /\ HandlerOpen /\ CallsMade /\ Conversations
  BY SafeParts
<1>3. TypeOK'
  BY <1>1, <1>2 DEF TypeOK, Net!TypeOK
<1>4. /\ handler'[d] = None /\ \A e \in Devices : e # d => handler'[e] = handler[e]
  BY <1>1, <1>2 DEF TypeOK
<1>5. HandlerOpen'
  BY <1>1, <1>2, <1>4 DEF HandlerOpen, Merging
<1>6. CallsMade'
  <2>1. ASSUME NEW c \in Calls, status'[c] = "open" PROVE handler'[c.by] = c
    <3>1. handler[c.by] = c /\ c.by \in Devices
      BY <1>1, <1>2, <2>1, CallFacts DEF CallsMade, Calls
    <3> QED BY <1>1, <1>4, <2>1, <3>1
  <2> QED BY <1>1, <1>2, <2>1 DEF CallsMade
<1>7. Weakens
  BY <1>1 DEF Weakens
<1>8. \A h \in Holders : Rests(h)
  BY <1>1, HolderKinds, Contents, Destinations DEF Rests
<1> QED BY <1>1, <1>2, <1>3, <1>5, <1>6, <1>7, <1>8, StoresRest, QuietSafe

LEMMA HandleLoginSafe ==
  ASSUME Safe, NEW d \in Devices, NEW a \in Logins \union {None}, HandleLogin(d, a)
  PROVE  Safe'
<1>1. /\ session' = [session EXCEPT ![d] = a] /\ handler[d] = None
      /\ chats' = chats /\ handler' = handler /\ batch' = batch /\ address' = address
      /\ queue' = queue /\ taken' = taken /\ accepted' = accepted /\ lost' = lost
      /\ status' = status /\ ran' = ran
  BY DEF HandleLogin, UiIdle, server
<1>2. TypeOK /\ HandlerOpen /\ CallsMade /\ Conversations
  BY SafeParts
<1>3. TypeOK'
  BY <1>1, <1>2 DEF TypeOK, Net!TypeOK
<1>4. \A e \in Devices : e # d => session'[e] = session[e]
  BY <1>1, <1>2 DEF TypeOK
<1>5. batch[d] = <<>>
  BY <1>1, <1>2, Batches, CallFacts
<1>6. HandlerOpen'
  BY <1>1, <1>2, <1>4, <1>5 DEF HandlerOpen, Merging
<1>7. CallsMade'
  BY <1>1, <1>2 DEF CallsMade
<1>8. Weakens
  BY <1>1 DEF Weakens
<1>9. \A h \in Holders : Rests(h)
  <2>1. \A e \in Devices : batch[e] # <<>> => session'[e] = session[e]
    BY <1>4, <1>5
  <2> QED BY <1>1, <2>1, HolderKinds, Contents, Destinations DEF Rests
<1> QED BY <1>1, <1>2, <1>3, <1>6, <1>7, <1>8, <1>9, StoresRest, QuietSafe

LEMMA PollAgainSafe ==
  ASSUME Safe, NEW p \in Polls, PollAgain(p)
  PROVE  Safe'
<1>1. /\ handler[p.by] # p /\ status[p] # "new"
      /\ status' = [status EXCEPT ![p] = "new"] /\ ran' = [ran EXCEPT ![p] = 0]
      /\ taken' = [taken EXCEPT ![p] = <<>>] /\ address' = [address EXCEPT ![p] = None]
      /\ session' = session /\ chats' = chats /\ handler' = handler /\ batch' = batch
      /\ queue' = queue /\ accepted' = accepted /\ lost' = lost
  BY DEF PollAgain, device
<1>2. TypeOK /\ HandlerOpen /\ CallsMade /\ Conversations
  BY SafeParts
<1>3. p \in Calls /\ p \notin Sends
  BY CallFacts
<1>4. TypeOK'
  <2>1. taken' \in [Polls -> Seq(Sends)]
    <3>1. <<>> \in Seq(Sends) /\ taken \in [Polls -> Seq(Sends)]
      BY <1>2 DEF TypeOK
    <3> QED BY <1>1, <3>1
  <2> QED BY <1>1, <1>2, <1>3, <2>1 DEF TypeOK, Net!TypeOK, Net!Statuses
<1>5. /\ \A c \in Calls : c # p => status'[c] = status[c] /\ ran'[c] = ran[c] /\ address'[c] = address[c]
      /\ status'[p] = "new" /\ ran'[p] = 0 /\ taken'[p] = <<>>
      /\ \A k \in Polls : k # p => taken'[k] = taken[k]
  BY <1>1, <1>2, <1>3, RequestTypes DEF TypeOK
<1>6. status[p] # "open"
  BY <1>1, <1>2, <1>3 DEF CallsMade
<1>7. HandlerOpen'
  <2>1. \A e \in Devices : handler[e] # None => handler[e] \in Calls /\ handler[e] # p
    BY <1>1, <1>2, Batches
  <2> QED BY <1>1, <1>2, <1>5, <2>1, CallFacts DEF HandlerOpen, Merging
<1>8. CallsMade'
  <2>1. \A m \in Sends : /\ m \in Calls /\ status'[m] = status[m] /\ ran'[m] = ran[m]
                         /\ address'[m] = address[m]
    BY <1>3, <1>5, CallFacts
  <2>2. accepted \subseteq Sends
    BY <1>2 DEF TypeOK
  <2>3. \A c \in Calls :
          /\ status'[c] = "open" => handler'[c.by] = c
          /\ status'[c] # "new" => address'[c] # None /\ address'[c].from \in Logins
          /\ ran'[c] = 1 => status'[c] \in {"open", "answered", "unknown"}
    BY <1>1, <1>2, <1>5 DEF CallsMade
  <2>4. \A k \in Polls : ran'[k] = 0 => taken'[k] = <<>>
    BY <1>2, <1>5, CallFacts DEF CallsMade
  <2> QED BY <1>1, <1>2, <2>1, <2>2, <2>3, <2>4 DEF CallsMade
<1>9. \A m \in Sends : address'[m] = address[m] /\ status'[m] = status[m]
  BY <1>3, <1>5, CallFacts
<1>10. Weakens
  BY <1>2, <1>9 DEF Weakens, TypeOK
<1>11. \A h \in Holders : Rests(h)
  <2>1. \A k \in Polls : k # p => status'[k] = status[k] /\ address'[k] = address[k] /\ taken'[k] = taken[k]
    BY <1>5, CallFacts
  <2>2. Content(ReplyTo(p)) = <<>> /\ Content(ReplyTo(p))' = <<>>
    BY <1>5, <1>6, Contents
  <2> QED BY <1>1, <2>1, <2>2, HolderKinds, Contents, Destinations DEF Rests
<1> QED BY <1>1, <1>2, <1>4, <1>7, <1>8, <1>9, <1>10, <1>11, StoresRest, QuietSafe

LEMMA SyncMessagesSafe ==
  ASSUME Safe, NEW d \in Devices, SyncMessages(d)
  PROVE  Safe'
<1>1. PICK p \in Polls :
        /\ p.by = d /\ Net!Call(p)
        /\ handler' = [handler EXCEPT ![d] = p]
        /\ address' = [address EXCEPT ![p] = [from |-> session[d], to |-> None]]
  BY DEF SyncMessages
<1>2. /\ session[d] # None /\ handler[d] = None
      /\ session' = session /\ chats' = chats /\ batch' = batch
      /\ queue' = queue /\ taken' = taken /\ accepted' = accepted /\ lost' = lost
  BY DEF SyncMessages, MayPoll, UiIdle, server
<1>3. TypeOK /\ HandlerOpen /\ CallsMade /\ Conversations
  BY SafeParts
<1>4. p \in Calls /\ p \notin Sends /\ p # None
  BY CallFacts
<1>5. status[p] = "new" /\ ran' = ran /\ status' = [status EXCEPT ![p] = "open"]
  BY <1>1, <1>3, <1>4, RequestSteps
<1>6. session[d] \in Logins
  BY <1>2, <1>3 DEF TypeOK
<1> DEFINE a == [from |-> session[d], to |-> None]
<1>7. a \in Addresses /\ a.from = session[d] /\ a # None
  <2>1. a \in Addresses
    BY <1>6 DEF Addresses, Owners
  <2> QED BY <2>1, ConstantsAssumption
<1>8. address' = [address EXCEPT ![p] = a]
  BY <1>1
<1> HIDE DEF a
<1>9. /\ \A c \in Calls : c # p => status'[c] = status[c] /\ address'[c] = address[c]
      /\ status'[p] = "open" /\ address'[p] = a
      /\ handler'[d] = p /\ \A e \in Devices : e # d => handler'[e] = handler[e]
  BY <1>1, <1>3, <1>4, <1>5, <1>8, RequestTypes DEF TypeOK
<1>10. TypeOK'
  BY <1>1, <1>2, <1>3, <1>4, <1>5, <1>7, <1>8 DEF TypeOK, Net!TypeOK, Net!Statuses
<1>11. ran[p] = 0 /\ taken[p] = <<>>
  <2>1. ran[p] # 1
    BY <1>3, <1>4, <1>5 DEF CallsMade
  <2>2. ran[p] = 0
    BY <1>3, <1>4, <2>1, RequestTypes
  <2> QED BY <1>3, <2>2 DEF CallsMade
<1>12. batch[d] = <<>>
  BY <1>2, <1>3, Batches, CallFacts
<1>13. HandlerOpen'
  <2>1. \A e \in Devices : e # d /\ handler[e] # None => handler[e] \in Calls /\ handler[e] # p
    BY <1>1, <1>3, Batches
  <2> QED BY <1>1, <1>2, <1>3, <1>7, <1>9, <1>12, <2>1, CallFacts DEF HandlerOpen, Merging
<1>14. CallsMade'
  <2>1. \A m \in Sends : m \in Calls /\ status'[m] = status[m] /\ address'[m] = address[m]
    BY <1>4, <1>9, CallFacts
  <2>2. accepted \subseteq Sends
    BY <1>3 DEF TypeOK
  <2>3. ASSUME NEW c \in Calls, status'[c] = "open" PROVE handler'[c.by] = c
    <3>1. CASE c = p
      BY <1>1, <1>9, <3>1
    <3>2. CASE c # p
      <4>1. handler[c.by] = c /\ c.by \in Devices
        BY <1>3, <1>9, <2>3, <3>2, CallFacts DEF CallsMade, Calls
      <4>2. c.by # d
        BY <1>2, <4>1, CallFacts
      <4> QED BY <1>9, <4>1, <4>2
    <3> QED BY <3>1, <3>2
  <2>4. \A c \in Calls : /\ status'[c] # "new" => address'[c] # None /\ address'[c].from \in Logins
                         /\ ran'[c] = 1 => status'[c] \in {"open", "answered", "unknown"}
    BY <1>3, <1>5, <1>6, <1>7, <1>9 DEF CallsMade
  <2> QED BY <1>2, <1>3, <1>5, <2>1, <2>2, <2>3, <2>4 DEF CallsMade
<1>15. \A m \in Sends : address'[m] = address[m] /\ status'[m] = status[m]
  BY <1>4, <1>9, CallFacts
<1>16. Weakens
  BY <1>3, <1>15 DEF Weakens, TypeOK
<1>17. \A h \in Holders : Rests(h)
  <2>1. \A k \in Polls : k # p => status'[k] = status[k] /\ address'[k] = address[k]
    BY <1>9, CallFacts
  <2>2. Content(ReplyTo(p)) = <<>> /\ Content(ReplyTo(p))' = <<>>
    BY <1>2, <1>11, Contents
  <2> QED BY <1>2, <2>1, <2>2, HolderKinds, Contents, Destinations DEF Rests
<1> QED BY <1>2, <1>3, <1>10, <1>13, <1>14, <1>15, <1>16, <1>17, StoresRest, QuietSafe

\* The steps that store a chat leave all but the stores alone.
LEMMA ChatSafe ==
  ASSUME Safe, NEW d \in Devices, NEW type \in {"dm", "group"}, NEW peer \in Logins \union {None},
         StoreChat(d, type, peer), type = "dm" => peer \in Logins /\ FindDm(d, peer) = {},
         UNCHANGED <<session, handler, batch, server, address, lost, status, ran>>
  PROVE  Safe'
<1>1. /\ session' = session /\ handler' = handler /\ batch' = batch /\ address' = address
      /\ queue' = queue /\ taken' = taken /\ accepted' = accepted /\ lost' = lost
      /\ status' = status /\ ran' = ran
  BY DEF server
<1>2. TypeOK /\ HandlerOpen /\ CallsMade /\ Conversations
  BY SafeParts
<1>3. TypeOK'
  <2>1. chats' \in [Devices -> [Owners -> Seq(Chats)]]
    BY <1>2, ChatStored
  <2> QED BY <1>1, <1>2, <2>1 DEF TypeOK, Net!TypeOK
<1>4. HandlerOpen' /\ CallsMade'
  BY <1>1, <1>2 DEF HandlerOpen, Merging, CallsMade
<1>5. Weakens
  BY <1>1 DEF Weakens
<1>6. \A h \in Holders : Rests(h)
  BY <1>1, HolderKinds, Contents, Destinations DEF Rests
<1>7. Conversations'
  BY <1>1, <1>2, ConversationAdded
<1>8. NoneArrives /\ \A m \in Sends : Copies(m, TRUE)' = Copies(m, TRUE)
  BY <1>2, ChatStoresNoMessage DEF NoneArrives
<1> QED BY <1>1, <1>3, <1>4, <1>5, <1>6, <1>7, <1>8, QuietSafe

LEMMA CreateChatSafe ==
  ASSUME Safe, NEW d \in Devices, NEW c \in NewChats, CreateChat(d, c.type, c.peer)
  PROVE  Safe'
<1>1. /\ c.type \in {"dm", "group"} /\ c.peer \in Logins \union {None}
      /\ c.type = "dm" => c.peer \in Logins
  BY ConstantsAssumption DEF ChatTypes
<1> QED BY <1>1, ChatSafe DEF CreateChat

LEMMA MergeCreatesSafe ==
  ASSUME Safe, NEW d \in Devices, MergeCreates(d)
  PROVE  Safe'
<1>1. TypeOK /\ CallsMade /\ HeldForRecipient /\ HeldOnce
  BY SafeParts
<1>2. 1 \in DOMAIN batch[d] /\ Head(batch[d]) = batch[d][1]
  <2>1. batch[d] \in Seq(Sends) /\ batch[d] # <<>>
    BY <1>1 DEF TypeOK, MergeCreates
  <2> DEFINE q == batch[d]
  <2> HIDE DEF q
  <2>2. 1 \in DOMAIN q /\ Head(q) = q[1]
    BY <2>1, HeadAndTail DEF q
  <2> QED BY <2>2 DEF q
<1>3. Sender(Head(batch[d])) \in Logins
  BY <1>1, <1>2, HeldFacts, HolderKinds, Contents DEF Sender
<1> QED BY <1>3, ChatSafe DEF MergeCreates

LEMMA StoredAddressed ==
  ASSUME Safe, NEW x \in Stored
  PROVE  address[EntryAt(x).msg] # None
<1>1. TypeOK /\ CallsMade /\ HeldOnce /\ RightConversation /\ OwnCopyKept
  BY SafeParts
<1>2. EntryAt(x).msg \in Sends /\ EntryAt(x).msg \in Calls
  BY <1>1, EntryTypes, CallFacts
<1>3. CASE EntryAt(x).received
  BY <1>1, <1>2, <1>3, ReceivedFacts DEF CallsMade
<1>4. CASE ~EntryAt(x).received
  <2>1. EntryAt(x).received = FALSE
    BY <1>1, <1>4, EntryTypes, Zenon
  <2>2. x \in Copies(EntryAt(x).msg, FALSE)
    BY <2>1 DEF Copies
  <2> QED BY <1>1, <1>2, <2>2 DEF OwnCopyKept
<1> QED BY <1>3, <1>4

LEMMA SendMessageSafe ==
  ASSUME Safe, NEW d \in Devices, NEW i \in DOMAIN OpenChats(d), SendMessage(d, i)
  PROVE  Safe'
<1>1. TypeOK /\ HandlerOpen /\ CallsMade /\ Conversations /\ DmsHavePeers
  BY SafeParts DEF Conversations
<1> DEFINE o == OwnerOf(d)
           peer == OpenChats(d)[i].peer
<1>2. PICK m \in NextSend(d) :
        /\ StoreMessage(d, i, [from |-> o, msg |-> m, received |-> FALSE])
        /\ IF OpenChats(d)[i].type = "dm" /\ session[d] # None
           THEN /\ Net!Call(m)
                /\ handler' = [handler EXCEPT ![d] = m]
                /\ address' = [address EXCEPT ![m] = [from |-> session[d], to |-> peer]]
           ELSE /\ address' = [address EXCEPT ![m] = [from |-> o, to |-> None]]
                /\ handler' = handler /\ status' = status /\ ran' = ran
  BY DEF SendMessage
<1>3. /\ handler[d] = None /\ session' = session /\ batch' = batch /\ queue' = queue
      /\ taken' = taken /\ accepted' = accepted /\ lost' = lost
  BY DEF SendMessage, UiIdle, server
<1>4. /\ m \in Sends /\ m \in Calls /\ m \notin Polls /\ m # None /\ m.by = d /\ m.n \in Nat
      /\ \A k \in Sends : k.by = d => (address[k] = None <=> m.n <= k.n)
      /\ address[m] = None
  <2>1. m \in Sends /\ m.by = d /\ \A k \in Sends : k.by = d => (address[k] = None <=> m.n <= k.n)
    BY DEF NextSend
  <2> QED BY <2>1, CallFacts
<1>5. status[m] = "new"
  BY <1>1, <1>4 DEF CallsMade
<1>6. /\ o \in Owners /\ peer \in Logins \union {None}
      /\ OpenChats(d)[i].type = "dm" => peer \in Logins
  <2>1. o \in Owners
    BY <1>1 DEF OwnerOf, Owners, TypeOK
  <2> QED BY <1>1, <2>1, ChatsTyped DEF OpenChats, DmsHavePeers
<1>7. PICK a \in Addresses :
        /\ address' = [address EXCEPT ![m] = a]
        /\ a.from = o /\ a.to \in {None, peer} /\ ran' = ran
        /\ \/ handler' = handler /\ status' = status
           \/ /\ handler' = [handler EXCEPT ![d] = m] /\ status' = [status EXCEPT ![m] = "open"]
              /\ a.from \in Logins /\ a.to \in Logins
  <2>1. CASE OpenChats(d)[i].type = "dm" /\ session[d] # None
    <3> DEFINE b == [from |-> session[d], to |-> peer]
    <3>1. session[d] \in Logins /\ o = session[d] /\ peer \in Logins
      BY <1>1, <1>6, <2>1 DEF TypeOK, OwnerOf
    <3>2. b \in Addresses /\ b.from = o /\ b.to = peer
      BY <1>6, <3>1 DEF Addresses
    <3>3. /\ address' = [address EXCEPT ![m] = b]
          /\ handler' = [handler EXCEPT ![d] = m]
          /\ status' = [status EXCEPT ![m] = "open"] /\ ran' = ran
      BY <1>1, <1>2, <1>4, <2>1, RequestSteps
    <3> HIDE DEF b, o, peer
    <3> QED BY <3>1, <3>2, <3>3
  <2>2. CASE ~(OpenChats(d)[i].type = "dm" /\ session[d] # None)
    <3> DEFINE b == [from |-> o, to |-> None]
    <3>1. b \in Addresses /\ b.from = o /\ b.to = None
      BY <1>6 DEF Addresses
    <3>2. address' = [address EXCEPT ![m] = b] /\ handler' = handler /\ status' = status /\ ran' = ran
      BY <1>2, <2>2
    <3> HIDE DEF b, o, peer
    <3> QED BY <3>1, <3>2
  <2> QED BY <2>1, <2>2
<1> DEFINE e == [from |-> o, msg |-> m, received |-> FALSE]
<1>8. e \in Entries /\ e.from = o /\ e.msg = m /\ e.received = FALSE
  BY <1>4, <1>6 DEF Entries
<1>9. StoreMessage(d, i, e)
  BY <1>2
<1> HIDE DEF e, o, peer
<1>10. /\ a # None
       /\ \A c \in Calls : c # m => address'[c] = address[c] /\ status'[c] = status[c]
       /\ address'[m] = a
       /\ \A f \in Devices : f # d => handler'[f] = handler[f]
       /\ \/ status'[m] = "new" /\ handler'[d] = handler[d]
          \/ status'[m] = "open" /\ handler'[d] = m /\ a.from \in Logins /\ a.to \in Logins
  BY <1>1, <1>4, <1>5, <1>7, RequestTypes, ConstantsAssumption
<1>11. TypeOK'
  <2>1. chats' \in [Devices -> [Owners -> Seq(Chats)]]
    BY <1>1, <1>8, <1>9, LogStored
  <2> QED BY <1>1, <1>3, <1>4, <1>7, <2>1 DEF TypeOK, Net!TypeOK, Net!Statuses
<1>12. batch[d] = <<>>
  BY <1>1, <1>3, Batches, CallFacts
<1>13. HandlerOpen'
  <2>1. \A f \in Devices : f # d /\ handler[f] # None => handler[f] \in Calls /\ handler[f] # m
    BY <1>1, <1>4, Batches
  <2>2. handler'[d] # None => handler'[d] = m /\ status'[m] = "open" /\ session[d] = a.from
    <3>1. a.from = o
      BY <1>7
    <3>2. a.from \in Logins => session[d] = a.from
      BY <3>1, ConstantsAssumption DEF o, OwnerOf
    <3> QED BY <1>3, <1>10, <3>2
  <2> QED BY <1>1, <1>3, <1>4, <1>10, <1>12, <2>1, <2>2, CallFacts DEF HandlerOpen, Merging
<1>14. CallsMade'
  <2>1. ASSUME NEW c \in Calls, status'[c] = "open" PROVE handler'[c.by] = c
    <3>1. CASE c = m
      BY <1>4, <1>10, <2>1, <3>1
    <3>2. CASE c # m
      <4>1. handler[c.by] = c /\ c.by \in Devices
        BY <1>1, <1>10, <2>1, <3>2, CallFacts DEF CallsMade, Calls
      <4>2. c.by # d
        BY <1>3, <4>1, CallFacts
      <4> QED BY <1>10, <4>1, <4>2
    <3> QED BY <3>1, <3>2
  <2>2. ASSUME NEW c \in Calls
        PROVE  /\ status'[c] # "new" => address'[c] # None /\ address'[c].from \in Logins
               /\ ran'[c] = 1 => status'[c] \in {"open", "answered", "unknown"}
    BY <1>1, <1>5, <1>7, <1>10 DEF CallsMade
  <2>3. \A k \in Sends : status'[k] # "new" => address'[k].to \in Logins
    BY <1>1, <1>10, CallFacts DEF CallsMade
  <2>4. ASSUME NEW k \in Sends, NEW l \in Sends, status'[k] = "open", l.by = k.by, address'[l] # None
        PROVE  l.n <= k.n
    <3>1. CASE k = m
      <4>1. CASE l = m
        BY <1>4, <3>1, <4>1
      <4>2. CASE l # m
        <5>1. address[l] # None /\ l.n \in Nat
          BY <1>10, <2>4, <4>2, CallFacts
        <5> QED BY <1>4, <2>4, <3>1, <5>1
      <4> QED BY <4>1, <4>2
    <3>2. CASE k # m
      <4>1. status[k] = "open" /\ k \in Calls
        BY <1>10, <2>4, <3>2, CallFacts
      <4>2. k.by # d
        BY <1>1, <1>3, <4>1, CallFacts DEF CallsMade
      <4>3. address[l] # None
        BY <1>4, <1>10, <2>4, <4>2, CallFacts
      <4> QED BY <1>1, <2>4, <4>1, <4>3 DEF CallsMade
    <3> QED BY <3>1, <3>2
  <2> QED BY <1>1, <1>3, <1>7, <2>1, <2>2, <2>3, <2>4 DEF CallsMade
<1>15. Weakens
  <2>1. \A k \in accepted : k \in Calls /\ k # m
    BY <1>1, <1>4, <1>5, CallFacts DEF TypeOK, CallsMade
  <2> QED BY <1>10, <2>1 DEF Weakens
<1>16. \A h \in Holders : Rests(h)
  <2>1. \A p \in Polls : status'[p] = status[p] /\ address'[p] = address[p]
    BY <1>4, <1>10, CallFacts
  <2> QED BY <1>3, <2>1, HolderKinds, Contents, Destinations DEF Rests
<1>17. Conversations'
  <2>1. PICK b \in BOOLEAN : b = FALSE /\ e.received = b
    BY <1>8
  <2>2. /\ \A k \in Sends : k # e.msg \/ b = TRUE => address'[k] = address[k]
        /\ b = FALSE => address[e.msg] = None /\ address'[e.msg] # None
        /\ e.from = address'[e.msg].from
        /\ b = TRUE => /\ OwnerOf(d) = address'[e.msg].to
                       /\ OpenChats(d)[i].peer = address'[e.msg].from
        /\ b = FALSE => /\ OwnerOf(d) = address'[e.msg].from
                        /\ address'[e.msg].to \in {None, OpenChats(d)[i].peer}
    BY <1>4, <1>7, <1>8, <1>10, <2>1, CallFacts DEF o, peer
  <2>3. \A x \in Stored : address[EntryAt(x).msg] # None
    BY StoredAddressed
  <2> QED BY <1>1, <1>8, <1>9, <2>1, <2>2, <2>3, ConversationGrows
<1>18. PICK x : x = NextAt(d, i)
  OBVIOUS
<1>19. NoneArrives
  <2>1. /\ Stored' = Stored \union {x} /\ EntryAt(x)' = e
        /\ \A y \in Stored : EntryAt(y)' = EntryAt(y)
    BY <1>1, <1>8, <1>9, <1>18, MessageStored
  <2>2. ~EntryAt(x)'.received
    BY <1>8, <2>1, Zenon
  <2> QED BY <2>1, <2>2 DEF NoneArrives
<1>20. ASSUME NEW k \in Sends PROVE Copies(k, TRUE)' = Copies(k, TRUE)
  <2>1. /\ \A k2, b : \A y \in Copies(k2, b)' :
              y \in Copies(k2, b) \/ (y = x /\ k2 = e.msg /\ b = e.received)
        /\ \A k2, b : \A y \in Copies(k2, b) : y \in Copies(k2, b)'
    BY <1>1, <1>8, <1>9, <1>18, CopiesGrow
  <2>2. \A y \in Copies(k, TRUE)' : y \in Copies(k, TRUE)
    BY <1>8, <2>1, Zenon
  <2> QED BY <2>1, <2>2
<1> QED BY <1>3, <1>11, <1>13, <1>14, <1>15, <1>16, <1>17, <1>19, <1>20, QuietSafe

\* What one holder has moves to an empty one.
LEMMA MoveSafe ==
  ASSUME Safe, TypeOK', HandlerOpen', CallsMade', Conversations', Weakens,
         NoneArrives, accepted' = accepted, lost' = lost,
         \A m \in Sends : Copies(m, TRUE)' = Copies(m, TRUE),
         NEW h \in Holders, NEW g \in Holders, h # g,
         Content(g) = <<>>, Content(h)' = <<>>, Content(g)' = Content(h),
         Content(h) # <<>> => Destination(g)' = Destination(h),
         \A k \in Holders \ {h, g} : Rests(k),
         \A a \in Logins : g # QueueOf(a),
         \A d \in Devices : g \in PolledBy(d) => h \in PolledBy(d) \/ \E a \in Logins : h = QueueOf(a)
  PROVE  Safe'
<1> DEFINE src == [k \in Holders |-> IF k = g THEN h ELSE k]
           off == [k \in Holders |-> 0]
<1>1. src \in [Holders -> Holders] /\ off \in [Holders -> Nat]
  OBVIOUS
<1>2. src[g] = h /\ \A k \in Holders : off[k] = 0 /\ (k # g => src[k] = k)
  OBVIOUS
<1> HIDE DEF src, off
<1>3. \A k \in Holders : k # h => Content(k)' = Content(src[k])
  BY <1>2 DEF Rests
<1>4. Flow(src, off)
  <2>1. ASSUME NEW k \in Holders, NEW i \in DOMAIN Content(k)'
        PROVE  /\ i + off[k] \in DOMAIN Content(src[k]) /\ Content(k)'[i] = Content(src[k])[i + off[k]]
               /\ Destination(k)' = Destination(src[k])
    <3>1. k # h /\ Content(k)' # <<>>
      OBVIOUS
    <3>2. Content(k)' = Content(src[k])
      BY <1>3, <3>1
    <3>3. Destination(k)' = Destination(src[k])
      BY <1>2, <3>1 DEF Rests
    <3>4. i \in Nat
      BY ContentTypeNext
    <3>5. i + off[k] = i
      BY <1>2, <3>4
    <3> QED BY <3>2, <3>3, <3>5
  <2>2. ASSUME NEW k \in Holders, NEW l \in Holders, Content(k)' # <<>>, Content(l)' # <<>>, src[k] = src[l]
        PROVE  k = l
    <3>1. k # h /\ l # h
      BY <2>2
    <3> QED BY <1>2, <2>2, <3>1
  <2> QED BY <2>1, <2>2 DEF Flow
<1>5. ASSUME NEW a \in Logins PROVE queue'[a] = <<>> \/ queue'[a] = queue[a]
  <2>1. QueueOf(a) \in Holders /\ QueueOf(a) # g
    BY HolderKinds
  <2> QED BY <2>1, Contents DEF Rests
<1>6. ASSUME NEW d \in Devices, NEW k \in PolledBy(d)
      PROVE  src[k] \in PolledBy(d) \/ \E a \in Logins : src[k] = QueueOf(a)
  <2>1. k \in Holders
    BY HolderKinds DEF PolledBy
  <2> QED BY <1>2, <2>1
<1>7. ASSUME NEW m \in Sends, Held(m) PROVE Held(m)'
  <2>1. PICK k \in Holders : m \in Elems(Content(k))
    BY <1>7 DEF Held
  <2>2. k # g
    BY <2>1 DEF Elems
  <2>3. \E l \in Holders : Content(l)' = Content(k)
    BY <2>2 DEF Rests
  <2> QED BY <2>1, <2>3 DEF Held, Elems, Holders, QueueOf, ReplyTo, BatchOf
<1> QED BY <1>1, <1>4, <1>5, <1>6, <1>7, FlowSafe

LEMMA SyncReturnsSafe ==
  ASSUME Safe, NEW d \in Devices, SyncReturns(d)
  PROVE  Safe'
<1>1. PICK p \in Polls : p = handler[d]
  BY DEF SyncReturns
<1>2. TypeOK /\ HandlerOpen /\ Conversations
  BY SafeParts
<1>3. p \in Calls /\ p # None
  BY CallFacts
<1>4. /\ session' = session /\ chats' = chats /\ address' = address
      /\ queue' = queue /\ taken' = taken /\ accepted' = accepted
  BY DEF SyncReturns, server
<1>5. p.by = d
  BY <1>1, <1>2, <1>3, Batches
<1>6. /\ ReplyTo(p) \in Holders /\ BatchOf(d) \in Holders /\ ReplyTo(p) # BatchOf(d)
      /\ \A a \in Logins : BatchOf(d) # QueueOf(a)
      /\ \A h \in Holders \ {ReplyTo(p), BatchOf(d)} :
           \/ \E a \in Logins : h = QueueOf(a)
           \/ \E k \in Polls : k # p /\ h = ReplyTo(k)
           \/ \E e \in Devices : e # d /\ h = BatchOf(e)
      /\ \A e \in Devices : BatchOf(d) \in PolledBy(e) => ReplyTo(p) \in PolledBy(e)
  BY <1>5, HolderKinds, HoldersDiffer DEF PolledBy
<1>7. CASE Net!Answer(p) /\ batch' = [batch EXCEPT ![d] = taken[p]] /\ handler' = handler /\ lost' = lost
  <2>1. status[p] = "open" /\ ran' = ran /\ status' = [status EXCEPT ![p] = "answered"]
    BY <1>2, <1>3, <1>7, RequestSteps
  <2>2. batch'[d] = taken[p] /\ \A e \in Devices : e # d => batch'[e] = batch[e]
    BY <1>2, <1>7 DEF TypeOK
  <2>3. /\ HandlerOpen' /\ CallsMade' /\ Weakens /\ Net!TypeOK'
        /\ status'[p] = "answered" /\ batch[d] = <<>> /\ session[d] = address[p].from
        /\ \A c \in Calls : c # p => status'[c] = status[c]
    <3>1. PICK s \in {"answered", "failed", "unknown"} : s = "answered"
      OBVIOUS
    <3>2. StopsWaiting(d, p, s)
      BY <1>1, <1>3, <1>4, <1>7, <2>1, <2>2, <3>1 DEF StopsWaiting
    <3> QED BY <1>3, <3>1, <3>2, CallOver, CallFacts
  <2>4. TypeOK'
    <3>1. batch' \in [Devices -> Seq(Sends)]
      BY <1>2, <1>7 DEF TypeOK
    <3> QED BY <1>2, <1>4, <1>7, <2>3, <3>1 DEF TypeOK
  <2>5. \A h \in Holders \ {ReplyTo(p), BatchOf(d)} : Rests(h)
    <3>1. \A k \in Polls : k # p => status'[k] = status[k]
      BY <2>3, CallFacts
    <3> QED BY <1>4, <1>6, <2>2, <3>1, Contents, Destinations DEF Rests
  <2>6. /\ Content(BatchOf(d)) = <<>> /\ Content(ReplyTo(p))' = <<>>
        /\ Content(BatchOf(d))' = Content(ReplyTo(p))
        /\ Destination(BatchOf(d))' = Destination(ReplyTo(p))
    BY <1>4, <2>1, <2>2, <2>3, Contents, Destinations
  <2> QED BY <1>2, <1>4, <1>6, <1>7, <2>3, <2>4, <2>5, <2>6, StoresRest, MoveSafe
<1>8. CASE /\ Net!Answer(p) \/ NoAnswer(p)
           /\ handler' = [handler EXCEPT ![d] = None]
           /\ lost' = lost \union Elems(taken[p]) /\ batch' = batch
  <2>1. PICK s \in {"answered", "failed", "unknown"} :
          /\ status[p] = "open" /\ status' = [status EXCEPT ![p] = s] /\ ran' = ran
          /\ s = "failed" => ran[p] = 0
    BY <1>2, <1>3, <1>8, RequestSteps
  <2>2. batch[d] = <<>>
    BY <1>1, <1>2, <1>3, <2>1, Batches
  <2>3. /\ HandlerOpen' /\ CallsMade' /\ Weakens /\ Net!TypeOK'
        /\ handler' \in [Devices -> Calls \union {None}]
        /\ status'[p] = s
        /\ \A c \in Calls : c # p => status'[c] = status[c]
    <3>1. StopsWaiting(d, p, s)
      BY <1>1, <1>3, <1>4, <1>8, <2>1, <2>2 DEF StopsWaiting
    <3> QED BY <1>3, <3>1, CallOver, CallFacts
  <2>4. Content(ReplyTo(p)) = taken[p] /\ Content(ReplyTo(p))' = <<>>
    BY <1>4, <2>1, <2>3, Contents
  <2>5. TypeOK'
    <3>1. \A m \in Elems(taken[p]) : m \in accepted
      BY <1>2, <1>6, <2>4, HeldFacts, SafeParts DEF Elems
    <3>2. lost' \subseteq accepted'
      BY <1>2, <1>4, <1>8, <3>1 DEF TypeOK
    <3> QED BY <1>2, <1>4, <1>8, <2>3, <3>2 DEF TypeOK
  <2>6. \A h \in Holders \ {ReplyTo(p)} : Rests(h)
    <3>1. \A k \in Polls : k # p => status'[k] = status[k]
      BY <2>3, CallFacts
    <3>2. Rests(BatchOf(d))
      BY <1>4, <1>8, Contents, Destinations DEF Rests
    <3>3. \A h \in Holders \ {ReplyTo(p), BatchOf(d)} : Rests(h)
      BY <1>4, <1>6, <1>8, <3>1, Contents, Destinations DEF Rests
    <3> QED BY <3>2, <3>3
  <2> QED BY <1>2, <1>4, <1>6, <1>8, <2>3, <2>4, <2>5, <2>6, StoresRest, DropSafe
<1> QED BY <1>1, <1>7, <1>8 DEF SyncReturns

LEMMA RestartSafe ==
  ASSUME Safe, NEW d \in Devices, Restart(d)
  PROVE  Safe'
<1>1. /\ session' = [session EXCEPT ![d] = None] /\ handler' = [handler EXCEPT ![d] = None]
      /\ batch' = [batch EXCEPT ![d] = <<>>]
      /\ chats' = chats /\ address' = address
      /\ queue' = queue /\ taken' = taken /\ accepted' = accepted
  BY DEF Restart, server
<1>2. TypeOK /\ HandlerOpen /\ CallsMade /\ Conversations
  BY SafeParts
<1>3. /\ session'[d] = None /\ handler'[d] = None /\ batch'[d] = <<>>
      /\ \A e \in Devices : e # d =>
           session'[e] = session[e] /\ handler'[e] = handler[e] /\ batch'[e] = batch[e]
  BY <1>1, <1>2 DEF TypeOK
<1>4. /\ session' \in [Devices -> Logins \union {None}]
      /\ handler' \in [Devices -> Calls \union {None}]
      /\ batch' \in [Devices -> Seq(Sends)]
  <2>1. <<>> \in Seq(Sends)
    OBVIOUS
  <2> QED BY <1>1, <1>2, <2>1 DEF TypeOK
<1>5. BatchOf(d) \in Holders /\ Content(BatchOf(d))' = <<>> /\ Content(BatchOf(d)) = batch[d]
  BY <1>3, HolderKinds, Contents
<1>6. \A h \in Holders \ {BatchOf(d)} : \/ \E a \in Logins : h = QueueOf(a)
                                        \/ \E k \in Polls : h = ReplyTo(k)
                                        \/ \E e \in Devices : e # d /\ h = BatchOf(e)
  BY HolderKinds
<1>7. CASE handler[d] # None /\ status[handler[d]] = "open"
  <2>1. PICK c \in Calls : c = handler[d]
    BY <1>2, <1>7, Batches
  <2>2. /\ status' = [status EXCEPT ![c] = "unknown"] /\ ran' = ran
        /\ lost' = lost \union (IF c \in Polls THEN Elems(taken[c]) ELSE {})
    BY <1>2, <1>7, <2>1, RequestSteps DEF Restart, UiIdle
  <2>3. /\ HandlerOpen' /\ CallsMade' /\ Weakens /\ Net!TypeOK'
        /\ status'[c] = "unknown" /\ batch[d] = <<>>
        /\ \A k \in Calls : k # c => status'[k] = status[k]
    <3>1. status[c] = "open" /\ (batch'[d] # <<>> => handler' = handler /\ c \in Polls)
      BY <1>3, <1>7, <2>1
    <3>2. /\ handler' = [handler EXCEPT ![d] = None]
          /\ \A e \in Devices : e # d => batch'[e] = batch[e] /\ session'[e] = session[e]
          /\ address' = address /\ taken' = taken /\ accepted' = accepted
      BY <1>1, <1>3
    <3>3. StopsWaiting(d, c, "unknown")
      BY <2>1, <2>2, <3>1, <3>2 DEF StopsWaiting
    <3> QED BY <2>1, <3>3, CallOver
  <2>4. Rests(BatchOf(d))
    BY <1>5, <2>3 DEF Rests
  <2>5. ASSUME NEW h \in Holders \ {BatchOf(d)}, \A k \in Polls : h = ReplyTo(k) => k # c PROVE Rests(h)
    <3>1. \A k \in Polls : k # c => status'[k] = status[k]
      BY <2>3, CallFacts
    <3> QED BY <1>1, <1>3, <1>6, <2>5, <3>1, Contents, Destinations DEF Rests
  <2>6. CASE c \in Polls
    <3>1. ReplyTo(c) \in Holders /\ Content(ReplyTo(c)) = taken[c] /\ Content(ReplyTo(c))' = <<>>
      BY <1>7, <2>1, <2>3, <2>6, HolderKinds, Contents
    <3>2. lost' = lost \union Elems(Content(ReplyTo(c)))
      BY <2>2, <2>6, <3>1
    <3>3. \A m \in Elems(Content(ReplyTo(c))) : m \in accepted
      BY <1>2, <3>1, HeldFacts, SafeParts DEF Elems
    <3>4. TypeOK'
      <4>1. lost' \subseteq accepted'
        BY <1>1, <1>2, <3>2, <3>3 DEF TypeOK
      <4> QED BY <1>1, <1>2, <1>4, <2>3, <4>1 DEF TypeOK
    <3>5. \A g \in Holders \ {ReplyTo(c)} : Rests(g)
      BY <2>4, <2>5, HoldersDiffer
    <3> QED BY <1>1, <1>2, <2>3, <3>1, <3>2, <3>4, <3>5, StoresRest, DropSafe
  <2>7. CASE c \notin Polls
    <3>1. lost' = lost
      BY <2>2, <2>7
    <3>2. TypeOK'
      BY <1>1, <1>2, <1>4, <2>3, <3>1 DEF TypeOK
    <3>3. \A g \in Holders : Rests(g)
      BY <2>4, <2>5, <2>7
    <3> QED BY <1>1, <1>2, <2>3, <3>1, <3>2, <3>3, StoresRest, QuietSafe
  <2> QED BY <2>6, <2>7
<1>8. CASE ~(handler[d] # None /\ status[handler[d]] = "open")
  <2>1. status' = status /\ ran' = ran /\ lost' = lost \union Elems(batch[d])
    BY <1>8 DEF Restart, UiIdle
  <2>2. HandlerOpen'
    BY <1>1, <1>2, <1>3, <2>1 DEF HandlerOpen, Merging
  <2>3. CallsMade'
    <3>1. ASSUME NEW c \in Calls, status'[c] = "open" PROVE handler'[c.by] = c
      <4>1. handler[c.by] = c /\ c.by \in Devices /\ c # None
        BY <1>2, <2>1, <3>1, CallFacts DEF CallsMade, Calls
      <4>2. c.by # d
        BY <1>8, <2>1, <3>1, <4>1
      <4> QED BY <1>3, <4>1, <4>2
    <3> QED BY <1>1, <1>2, <2>1, <3>1 DEF CallsMade
  <2>4. Weakens
    BY <1>1, <2>1 DEF Weakens
  <2>5. \A m \in Elems(batch[d]) : m \in accepted
    BY <1>2, <1>5, HeldFacts, SafeParts DEF Elems
  <2>6. TypeOK'
    <3>1. lost' \subseteq accepted'
      BY <1>1, <1>2, <2>1, <2>5 DEF TypeOK
    <3> QED BY <1>1, <1>2, <1>4, <2>1, <3>1 DEF TypeOK, Net!TypeOK
  <2>7. \A g \in Holders \ {BatchOf(d)} : Rests(g)
    BY <1>1, <1>3, <1>6, <2>1, Contents, Destinations DEF Rests
  <2> QED BY <1>1, <1>2, <1>5, <2>1, <2>2, <2>3, <2>4, <2>6, <2>7, StoresRest, DropSafe
<1> QED BY <1>7, <1>8

LEMMA ExecutePollSafe ==
  ASSUME Safe, NEW p \in Polls, ExecutePoll(p)
  PROVE  Safe'
<1>1. TypeOK /\ HandlerOpen /\ CallsMade /\ Conversations
  BY SafeParts
<1>2. p \in Calls /\ p \notin Sends /\ p.by \in Devices
  BY CallFacts
<1>3. /\ status[p] \in {"open", "unknown"} /\ ran[p] = 0 /\ status' = status
      /\ ran' = [ran EXCEPT ![p] = 1]
  BY <1>1, <1>2, RequestSteps DEF ExecutePoll
<1>4. PICK a \in Logins : a = address[p].from
  BY <1>1, <1>2, <1>3 DEF CallsMade
<1>5. /\ taken' = [taken EXCEPT ![p] = queue[a]] /\ queue' = [queue EXCEPT ![a] = <<>>]
      /\ lost' = lost \union (IF status[p] = "unknown" THEN Elems(queue[a]) ELSE {})
      /\ session' = session /\ chats' = chats /\ handler' = handler /\ batch' = batch
      /\ address' = address /\ accepted' = accepted
  BY <1>4 DEF ExecutePoll, device
<1>6. /\ taken[p] = <<>> /\ taken'[p] = queue[a] /\ queue'[a] = <<>> /\ ran'[p] = 1
      /\ \A k \in Polls : k # p => taken'[k] = taken[k]
      /\ \A b \in Logins : b # a => queue'[b] = queue[b]
      /\ \A c \in Calls : c # p => ran'[c] = ran[c]
  BY <1>1, <1>2, <1>3, <1>5, RequestTypes DEF TypeOK, CallsMade
<1>7. /\ QueueOf(a) \in Holders /\ ReplyTo(p) \in Holders /\ QueueOf(a) # ReplyTo(p)
      /\ \A b \in Logins : ReplyTo(p) # QueueOf(b)
      /\ Content(QueueOf(a)) = queue[a] /\ Content(QueueOf(a))' = <<>>
      /\ Content(ReplyTo(p)) = <<>>
      /\ Content(ReplyTo(p))' = IF status[p] = "open" THEN queue[a] ELSE <<>>
  BY <1>3, <1>6, HolderKinds, HoldersDiffer, Contents
<1>8. \A m \in Elems(queue[a]) : m \in accepted
  BY <1>1, <1>7, HeldFacts, SafeParts DEF Elems
<1>9. TypeOK'
  <2>1. <<>> \in Seq(Sends) /\ queue[a] \in Seq(Sends)
    BY <1>1 DEF TypeOK
  <2>2. taken' \in [Polls -> Seq(Sends)] /\ queue' \in [Logins -> Seq(Sends)]
    BY <1>1, <1>5, <2>1 DEF TypeOK
  <2>3. lost' \subseteq accepted'
    BY <1>1, <1>5, <1>8 DEF TypeOK
  <2> QED BY <1>1, <1>2, <1>3, <1>5, <2>2, <2>3 DEF TypeOK, Net!TypeOK, Net!Statuses
<1>10. HandlerOpen'
  BY <1>1, <1>3, <1>5 DEF HandlerOpen, Merging
<1>11. CallsMade'
  <2>1. \A c \in Calls : ran'[c] = 1 => status'[c] \in {"open", "answered", "unknown"}
    BY <1>1, <1>3, <1>6 DEF CallsMade
  <2>2. \A k \in Polls : ran'[k] = 0 => taken'[k] = <<>>
    BY <1>1, <1>6, CallFacts DEF CallsMade
  <2>3. \A m \in accepted : ran'[m] = 1
    BY <1>1, <1>2, <1>6, CallFacts DEF CallsMade, TypeOK
  <2> QED BY <1>1, <1>3, <1>5, <2>1, <2>2, <2>3 DEF CallsMade
<1>12. Weakens
  BY <1>3, <1>5 DEF Weakens
<1>13. \A h \in Holders \ {QueueOf(a), ReplyTo(p)} : Rests(h)
  <2>1. \A h \in Holders \ {QueueOf(a), ReplyTo(p)} : \/ \E b \in Logins : b # a /\ h = QueueOf(b)
                                                      \/ \E k \in Polls : k # p /\ h = ReplyTo(k)
                                                      \/ \E e \in Devices : h = BatchOf(e)
    BY HolderKinds
  <2> QED BY <1>3, <1>5, <1>6, <2>1, Contents, Destinations DEF Rests
<1>14. CASE status[p] = "open"
  <2>1. lost' = lost /\ Content(ReplyTo(p))' = Content(QueueOf(a))
    BY <1>5, <1>7, <1>14
  <2>2. Destination(ReplyTo(p))' = Destination(QueueOf(a))
    BY <1>4, <1>5, Destinations
  <2> QED BY <1>1, <1>5, <1>7, <1>9, <1>10, <1>11, <1>12, <1>13, <2>1, <2>2, StoresRest, MoveSafe
<1>15. CASE status[p] = "unknown"
  <2>1. lost' = lost \union Elems(Content(QueueOf(a)))
    BY <1>5, <1>7, <1>15
  <2>2. Rests(ReplyTo(p))
    BY <1>7, <1>15 DEF Rests
  <2>3. \A h \in Holders \ {QueueOf(a)} : Rests(h)
    BY <1>13, <2>2
  <2> QED BY <1>1, <1>5, <1>7, <1>9, <1>10, <1>11, <1>12, <2>1, <2>3, StoresRest, DropSafe
<1> QED BY <1>3, <1>14, <1>15

LEMMA ExecuteSendSafe ==
  ASSUME Safe, NEW m \in Sends, ExecuteSend(m)
  PROVE  Safe'
<1>1. TypeOK /\ HandlerOpen /\ CallsMade /\ HeldForRecipient /\ HeldOnce /\ Conversations /\ NoneOvertakes
  BY SafeParts
<1>2. m \in Calls /\ m \notin Polls /\ m.by \in Devices /\ m.n \in Nat
  BY CallFacts
<1>3. /\ status[m] \in {"open", "unknown"} /\ ran[m] = 0 /\ status' = status
      /\ ran' = [ran EXCEPT ![m] = 1]
  BY <1>1, <1>2, RequestSteps DEF ExecuteSend
<1>4. PICK a \in Logins : a = address[m].to
  BY <1>1, <1>2, <1>3 DEF CallsMade
<1>5. /\ session' = session /\ chats' = chats /\ handler' = handler /\ batch' = batch
      /\ address' = address /\ taken' = taken /\ lost' = lost
  BY DEF ExecuteSend, device
<1>6. ran'[m] = 1 /\ \A c \in Calls : c # m => ran'[c] = ran[c]
  BY <1>1, <1>2, <1>3, RequestTypes
<1>7. HandlerOpen'
  BY <1>1, <1>3, <1>5 DEF HandlerOpen, Merging
<1>8. ASSUME accepted' \subseteq accepted \union {m} PROVE CallsMade'
  <2>1. \A c \in Calls : ran'[c] = 1 => status'[c] \in {"open", "answered", "unknown"}
    BY <1>1, <1>3, <1>6 DEF CallsMade
  <2>2. \A p \in Polls : ran'[p] = 0 => taken'[p] = <<>>
    BY <1>1, <1>2, <1>5, <1>6, CallFacts DEF CallsMade
  <2>3. \A k \in accepted' : ran'[k] = 1
    BY <1>1, <1>6, <1>8, CallFacts DEF CallsMade, TypeOK
  <2> QED BY <1>1, <1>3, <1>5, <2>1, <2>2, <2>3 DEF CallsMade
<1>9. Weakens
  BY <1>3, <1>5 DEF Weakens
<1>10. Net!TypeOK'
  BY <1>1, <1>2, <1>3 DEF TypeOK, Net!TypeOK, Net!Statuses
<1>11. Conversations' /\ NoneArrives /\ \A k \in Sends : Copies(k, TRUE)' = Copies(k, TRUE)
  BY <1>1, <1>5, StoresRest
<1>12. CASE queue' = queue /\ accepted' = accepted
  <2>1. TypeOK'
    BY <1>1, <1>5, <1>10, <1>12 DEF TypeOK
  <2>2. \A h \in Holders : Rests(h)
    BY <1>3, <1>5, <1>12, HolderKinds, Contents, Destinations DEF Rests
  <2> QED BY <1>5, <1>7, <1>8, <1>9, <1>11, <1>12, <2>1, <2>2, QuietSafe
<1>13. CASE queue' = [queue EXCEPT ![a] = Append(@, m)] /\ accepted' = accepted \union {m}
  <2> DEFINE q == queue[a]
             r == Append(q, m)
  <2>1. q \in Seq(Sends)
    BY <1>1 DEF TypeOK
  <2>2. queue' = [queue EXCEPT ![a] = r]
    BY <1>13
  <2> HIDE DEF q
  <2>3. /\ r \in Seq(Sends)
        /\ \A i \in DOMAIN r : (i \in DOMAIN q /\ r[i] = q[i]) \/ (i = Len(q) + 1 /\ r[i] = m)
        /\ \A i \in DOMAIN q : i \in DOMAIN r /\ r[i] = q[i] /\ i < Len(q) + 1
        /\ Len(q) + 1 \in DOMAIN r /\ r[Len(q) + 1] = m
        /\ \A i \in DOMAIN q : i \in Nat
        /\ Len(q) \in Nat
    BY <2>1, Appended, Indices
  <2> HIDE DEF r
  <2>4. TypeOK'
    BY <1>1, <1>5, <1>10, <1>13, <2>2, <2>3 DEF TypeOK
  <2>5. QueueOf(a) \in Holders /\ Content(QueueOf(a)) = q /\ Content(QueueOf(a))' = r
    BY <1>1, <2>2, HolderKinds, Contents DEF TypeOK, q
  <2>6. \A h \in Holders : (h # QueueOf(a) => Content(h)' = Content(h)) /\ Destination(h)' = Destination(h)
    <3>1. \A h \in Holders : h # QueueOf(a) => \/ \E b \in Logins : b # a /\ h = QueueOf(b)
                                               \/ \E p \in Polls : h = ReplyTo(p)
                                               \/ \E d \in Devices : h = BatchOf(d)
      BY HolderKinds
    <3>2. \A b \in Logins : b # a => queue'[b] = queue[b]
      BY <1>1, <2>2 DEF TypeOK
    <3>3. \A h \in Holders : h # QueueOf(a) => Content(h)' = Content(h)
      BY <1>3, <1>5, <3>1, <3>2, Contents
    <3>4. \A h \in Holders : Destination(h)' = Destination(h)
      BY <1>5, HolderKinds, Destinations
    <3> QED BY <3>3, <3>4
  <2>7. m \notin accepted /\ m \notin lost /\ ~Held(m) /\ ~Arrived(m)
    <3>1. m \notin accepted
      BY <1>1, <1>3 DEF CallsMade
    <3>2. m \notin lost
      BY <1>1, <3>1 DEF TypeOK
    <3>3. (Held(m) \/ Arrived(m)) <=> m \in accepted \ lost
      BY <1>1 DEF HeldOnce
    <3> QED BY <3>1, <3>2, <3>3
  <2>8. ASSUME NEW h \in Holders, NEW i \in DOMAIN Content(h)'
        PROVE  \/ /\ i \in DOMAIN Content(h) /\ Content(h)'[i] = Content(h)[i]
                  /\ Content(h)'[i] # m /\ Content(h)'[i] \in accepted
               \/ h = QueueOf(a) /\ i = Len(q) + 1 /\ Content(h)'[i] = m
    <3>1. \/ i \in DOMAIN Content(h) /\ Content(h)'[i] = Content(h)[i]
          \/ h = QueueOf(a) /\ i = Len(q) + 1 /\ Content(h)'[i] = m
      BY <2>3, <2>5, <2>6
    <3> QED BY <1>1, <2>7, <3>1, HeldFacts
  <2>9. \A h \in Holders : \A i \in DOMAIN Content(h) :
          i \in DOMAIN Content(h)' /\ Content(h)'[i] = Content(h)[i]
    BY <2>3, <2>5, <2>6
  <2>10. HeldForRecipient'
    <3>1. \A h \in Holders : \A i \in DOMAIN Content(h)' : address[Content(h)'[i]].to = Destination(h)
      BY <1>1, <1>4, <2>8, Destinations DEF HeldForRecipient
    <3> QED BY <1>5, <2>6, <3>1 DEF HeldForRecipient, Holders, QueueOf, ReplyTo, BatchOf
  <2>11. \A h, g \in Holders : \A i \in DOMAIN Content(h)', j \in DOMAIN Content(g)' :
           Content(h)'[i] = Content(g)'[j] => h = g /\ i = j
    BY <1>1, <2>8 DEF HeldOnce
  <2>12. \A k \in Sends : Held(k)' <=> Held(k) \/ k = m
    <3>1. ASSUME NEW k \in Sends, Held(k)' PROVE Held(k) \/ k = m
      <4>1. PICK h \in Holders : k \in Elems(Content(h)')
        BY <3>1 DEF Held, Elems, Holders, QueueOf, ReplyTo, BatchOf
      <4>2. PICK i \in DOMAIN Content(h)' : k = Content(h)'[i]
        BY <4>1 DEF Elems
      <4> QED BY <2>8, <4>2 DEF Held, Elems
    <3>2. ASSUME NEW k \in Sends, NEW h \in Holders, NEW i \in DOMAIN Content(h)', k = Content(h)'[i]
          PROVE  Held(k)'
      <4>1. k \in Elems(Content(h)')
        BY <3>2 DEF Elems
      <4> QED BY <4>1 DEF Held, Elems, Holders, QueueOf, ReplyTo, BatchOf
    <3>3. ASSUME NEW k \in Sends, Held(k) PROVE Held(k)'
      <4>1. PICK h \in Holders : k \in Elems(Content(h))
        BY <3>3 DEF Held
      <4>2. PICK i \in DOMAIN Content(h) : k = Content(h)[i]
        BY <4>1 DEF Elems
      <4> QED BY <2>9, <3>2, <4>2
    <3>4. Held(m)'
      BY <2>3, <2>5, <3>2
    <3> QED BY <3>1, <3>3, <3>4
  <2>13. HeldOnce'
    <3>1. ASSUME NEW k \in Sends
          PROVE  /\ (Held(k)' \/ Arrived(k)') <=> k \in accepted' \ lost'
                 /\ ~(Held(k)' /\ Arrived(k)')
                 /\ \A x, y \in Copies(k, TRUE)' : x = y
      <4>1. /\ (Held(k) \/ Arrived(k)) <=> k \in accepted \ lost
            /\ ~(Held(k) /\ Arrived(k))
            /\ \A x, y \in Copies(k, TRUE) : x = y
        BY <1>1 DEF HeldOnce
      <4>2. Arrived(k)' <=> Arrived(k)
        BY <1>11 DEF Arrived
      <4>3. Held(k)' <=> Held(k) \/ k = m
        BY <2>12
      <4> QED BY <1>5, <1>11, <1>13, <2>7, <4>1, <4>2, <4>3
    <3> QED BY <2>11, <3>1 DEF HeldOnce, Holders, QueueOf, ReplyTo, BatchOf
  <2>14. \A x \in accepted : Ordered(x, m)
    <3> SUFFICES ASSUME NEW x \in accepted, x.by = m.by, status[m] \in {"open", "answered"}
                 PROVE  x.n < m.n
      BY DEF Ordered
    <3>1. x \in Sends /\ x \in Calls /\ x # m /\ x.n \in Nat
      BY <1>1, <2>7, CallFacts DEF TypeOK
    <3>2. address[x] # None
      BY <1>1, <3>1 DEF CallsMade
    <3>3. x.n <= m.n
      BY <1>1, <1>3, <3>1, <3>2 DEF CallsMade
    <3>4. x.n # m.n
      BY <3>1, CallFacts
    <3> QED BY <1>2, <3>1, <3>3, <3>4
  <2>15. HeldInOrder'
    <3>1. ASSUME NEW h \in Holders, NEW i \in DOMAIN Content(h)', NEW j \in DOMAIN Content(h)', i < j
          PROVE  Ordered(Content(h)'[i], Content(h)'[j])
      <4>1. i \in Nat /\ j \in Nat
        BY <2>4, ContentTypeNext
      <4>2. CASE j \in DOMAIN Content(h) /\ Content(h)'[j] = Content(h)[j]
        <5>1. CASE i \in DOMAIN Content(h) /\ Content(h)'[i] = Content(h)[i]
          BY <1>1, <3>1, <4>2, <5>1 DEF NoneOvertakes, HeldInOrder
        <5>2. CASE h = QueueOf(a) /\ i = Len(q) + 1
          BY <2>3, <2>5, <3>1, <4>1, <4>2, <5>2
        <5> QED BY <2>8, <5>1, <5>2
      <4>3. CASE h = QueueOf(a) /\ j = Len(q) + 1 /\ Content(h)'[j] = m
        <5>1. Content(h)'[i] \in accepted
          BY <2>3, <2>8, <3>1, <4>1, <4>3
        <5> QED BY <2>14, <4>3, <5>1
      <4> QED BY <2>8, <4>2, <4>3
    <3> QED BY <1>3, <3>1 DEF HeldInOrder, Ordered, Holders, QueueOf, ReplyTo, BatchOf
  <2>16. QueuedLast'
    <3> SUFFICES ASSUME NEW b \in Logins, NEW y \in Elems(queue'[b]), NEW x \in accepted' \ Elems(queue'[b]),
                        address'[x].to = b
                 PROVE  Ordered(x, y)'
      BY DEF QueuedLast, Elems
    <3>1. PICK j \in DOMAIN queue'[b] : y = queue'[b][j]
      BY DEF Elems
    <3>2. QueueOf(b) \in Holders /\ Content(QueueOf(b))' = queue'[b] /\ Content(QueueOf(b)) = queue[b]
      BY HolderKinds, Contents
    <3>3. x \notin Elems(queue[b])
      BY <2>9, <3>2 DEF Elems
    <3>4. x \in accepted
      <4>1. b = a => m \in Elems(queue'[b])
        BY <2>3, <2>5, <3>2 DEF Elems
      <4> QED BY <1>4, <1>5, <1>13, <4>1
    <3>5. Ordered(x, y)
      <4>1. CASE y \in Elems(queue[b])
        BY <1>1, <1>5, <3>3, <3>4, <4>1 DEF NoneOvertakes, QueuedLast
      <4>2. CASE y = m
        BY <2>14, <3>4, <4>2
      <4> QED BY <2>8, <3>1, <3>2, <4>1, <4>2 DEF Elems
    <3> QED BY <1>3, <3>5 DEF Ordered
  <2>17. PolledLater'
    <3>1. /\ Stored' = Stored /\ \A x : EntryAt(x)' = EntryAt(x)
      BY <1>5, StoresKept
    <3> SUFFICES ASSUME NEW x \in Stored, EntryAt(x).received, NEW h \in PolledBy(x.dev),
                        NEW y \in Elems(Content(h)'), Destination(h)' = x.owner,
                        NEW k, k = EntryAt(x).msg
                 PROVE  Ordered(k, y)'
      BY <3>1 DEF PolledLater, Elems, PolledBy, ReplyTo, BatchOf
    <3>2. x.dev \in Devices
      BY StoredAt
    <3>3. h \in Holders /\ h # QueueOf(a)
      BY <3>2, HolderKinds, HoldersDiffer DEF PolledBy
    <3>4. Content(h)' = Content(h) /\ Destination(h)' = Destination(h)
      BY <2>6, <3>3
    <3>5. Ordered(k, y)
      BY <1>1, <3>4 DEF NoneOvertakes, PolledLater
    <3> QED BY <1>3, <3>5 DEF Ordered
  <2>18. StoredInOrder'
    <3>1. /\ Stored' = Stored /\ \A x : EntryAt(x)' = EntryAt(x)
      BY <1>5, StoresKept
    <3> QED BY <1>1, <1>3, <3>1 DEF NoneOvertakes, StoredInOrder, Ordered
  <2> QED BY <1>7, <1>8, <1>11, <1>13, <2>4, <2>10, <2>13, <2>15, <2>16, <2>17, <2>18
          DEF Safe, Core, Conversations, NoneOvertakes
<1> QED BY <1>4, <1>12, <1>13 DEF ExecuteSend

LEMMA MergeAppendsSafe ==
  ASSUME Safe, NEW d \in Devices, MergeAppends(d)
  PROVE  Safe'
<1>1. /\ TypeOK /\ HandlerOpen /\ CallsMade /\ HeldForRecipient /\ HeldOnce /\ Conversations
      /\ OneConversation /\ RightConversation /\ NoneOvertakes
  BY SafeParts
<1>2. /\ handler[d] \in Polls /\ status[handler[d]] = "answered" /\ batch[d] # <<>>
      /\ batch' = [batch EXCEPT ![d] = Tail(@)]
      /\ session' = session /\ handler' = handler /\ address' = address
      /\ queue' = queue /\ taken' = taken /\ accepted' = accepted /\ lost' = lost
      /\ status' = status /\ ran' = ran
  BY DEF MergeAppends, Merging, server
<1> DEFINE q == batch[d]
           r == Tail(q)
<1>3. q \in Seq(Sends) /\ q # <<>>
  BY <1>1, <1>2 DEF TypeOK
<1>4. batch' = [batch EXCEPT ![d] = r]
  BY <1>2
<1> HIDE DEF q
<1>5. /\ Head(q) = q[1] /\ 1 \in DOMAIN q /\ q[1] \in Sends /\ r \in Seq(Sends)
      /\ \A i \in DOMAIN r : i + 1 \in DOMAIN q /\ r[i] = q[i + 1]
      /\ \A i \in DOMAIN q : i # 1 => i - 1 \in DOMAIN r /\ r[i - 1] = q[i]
      /\ \A i \in DOMAIN r : i \in Nat /\ i # 0
  BY <1>3, HeadAndTail
<1> HIDE DEF r
<1>6. PICK m \in Sends : m = Head(batch[d]) /\ m = q[1]
  BY <1>5 DEF q
<1>7. PICK i \in FindDm(d, Sender(m)) : StoreMessage(d, i, [from |-> Sender(m), msg |-> m, received |-> TRUE])
  BY <1>6 DEF MergeAppends
<1>8. i \in DOMAIN OpenChats(d) /\ OpenChats(d)[i].peer = Sender(m)
  BY <1>1, <1>7, Found
<1> DEFINE B == BatchOf(d)
<1>9. B \in Holders /\ Content(B) = q /\ Content(B)' = r /\ Destination(B) = session[d]
  BY <1>1, <1>4, HolderKinds, Contents, Destinations DEF TypeOK, q
<1>10. \A h \in Holders : (h # B => Content(h)' = Content(h)) /\ Destination(h)' = Destination(h)
  <2>1. \A h \in Holders : h # B => \/ \E a \in Logins : h = QueueOf(a)
                                    \/ \E p \in Polls : h = ReplyTo(p)
                                    \/ \E e \in Devices : e # d /\ h = BatchOf(e)
    BY HolderKinds
  <2>2. \A e \in Devices : e # d => batch'[e] = batch[e]
    BY <1>1, <1>4 DEF TypeOK
  <2>3. \A h \in Holders : h # B => Content(h)' = Content(h)
    BY <1>2, <2>1, <2>2, Contents
  <2>4. \A h \in Holders : Destination(h)' = Destination(h)
    BY <1>2, HolderKinds, Destinations
  <2> QED BY <2>3, <2>4
<1> HIDE DEF B
<1>11. /\ m \in accepted /\ m \notin lost /\ Held(m) /\ ~Arrived(m)
       /\ address[m].to = session[d] /\ address[m].to \in Logins /\ address[m].from \in Logins
       /\ status[m] \in {"open", "answered", "unknown"} /\ address[m] # None
  BY <1>1, <1>5, <1>6, <1>9, HeldFacts
<1>12. PICK e \in Entries : /\ e.from = address[m].from /\ e.msg = m /\ e.received = TRUE
                            /\ StoreMessage(d, i, e)
  <2> DEFINE f == [from |-> Sender(m), msg |-> m, received |-> TRUE]
  <2>1. f \in Entries /\ f.from = address[m].from /\ f.msg = m /\ f.received = TRUE
    BY <1>11 DEF Entries, Owners, Sender
  <2>2. StoreMessage(d, i, f)
    BY <1>7
  <2> HIDE DEF f
  <2> QED BY <2>1, <2>2
<1>13. StoreMessage(d, i, e)
  BY <1>12
<1>14. OwnerOf(d) = address[m].to
  BY <1>11, ConstantsAssumption DEF OwnerOf, Owners
<1>15. PICK x : x = NextAt(d, i)
  OBVIOUS
<1>16. /\ Stored' = Stored \union {x} /\ x \notin Stored
       /\ x.dev = d /\ x.owner = OwnerOf(d) /\ x.chat = i /\ EntryAt(x)' = e
       /\ \A y \in Stored : EntryAt(y)' = EntryAt(y)
       /\ \A y \in Stored : y.dev = d /\ y.owner = x.owner /\ y.chat = i => y.pos < x.pos
       /\ \A y \in Stored : y.pos \in Nat
  BY <1>1, <1>8, <1>12, <1>13, <1>15, MessageStored
<1>17. TypeOK'
  <2>1. chats' \in [Devices -> [Owners -> Seq(Chats)]]
    BY <1>1, <1>8, <1>12, <1>13, LogStored
  <2> QED BY <1>1, <1>2, <1>4, <1>5, <2>1 DEF TypeOK, Net!TypeOK
<1>18. HandlerOpen'
  <2>1. \A f \in Devices : f # d => batch'[f] = batch[f]
    BY <1>1, <1>4 DEF TypeOK
  <2> QED BY <1>1, <1>2, <2>1 DEF HandlerOpen, Merging
<1>19. CallsMade'
  BY <1>1, <1>2 DEF CallsMade
<1>20. Conversations'
  <2>1. PICK b \in BOOLEAN : b = TRUE /\ e.received = b
    BY <1>12
  <2>2. /\ \A k \in Sends : k # e.msg \/ b = TRUE => address'[k] = address[k]
        /\ b = FALSE => address[e.msg] = None /\ address'[e.msg] # None
        /\ e.from = address'[e.msg].from
        /\ b = TRUE => /\ OwnerOf(d) = address'[e.msg].to
                       /\ OpenChats(d)[i].peer = address'[e.msg].from
        /\ b = FALSE => /\ OwnerOf(d) = address'[e.msg].from
                        /\ address'[e.msg].to \in {None, OpenChats(d)[i].peer}
    BY <1>2, <1>8, <1>12, <1>14, <2>1 DEF Sender
  <2>3. \A y \in Stored : address[EntryAt(y).msg] # None
    BY StoredAddressed
  <2> QED BY <1>1, <1>8, <1>12, <1>13, <2>1, <2>2, <2>3, ConversationGrows
<1>21. Weakens
  BY <1>2 DEF Weakens
<1> DEFINE src == [h \in Holders |-> h]
           off == [h \in Holders |-> IF h = B THEN 1 ELSE 0]
<1>22. /\ src \in [Holders -> Holders] /\ off \in [Holders -> Nat] /\ off[B] = 1
       /\ \A h \in Holders : src[h] = h /\ (h # B => off[h] = 0)
  BY <1>9
<1> HIDE DEF src, off
<1>23. Flow(src, off)
  <2>1. ASSUME NEW h \in Holders, NEW j \in DOMAIN Content(h)'
        PROVE  /\ j + off[h] \in DOMAIN Content(src[h]) /\ Content(h)'[j] = Content(src[h])[j + off[h]]
               /\ Destination(h)' = Destination(src[h])
    <3>1. CASE h = B
      BY <1>5, <1>9, <1>10, <1>22, <3>1
    <3>2. CASE h # B
      <4>1. j \in Nat /\ j + 0 = j
        BY <1>17, ContentTypeNext
      <4> QED BY <1>10, <1>22, <3>2, <4>1
    <3> QED BY <3>1, <3>2
  <2> QED BY <1>22, <2>1 DEF Flow
<1>24. /\ HeldForRecipient' /\ InOnePlace' /\ HeldInOrder'
       /\ \A k \in Sends : Held(k)' => Held(k)
  BY <1>1, <1>17, <1>21, <1>22, <1>23, FlowKeeps DEF NoneOvertakes
<1>25. ~Held(m)'
  <2> SUFFICES ASSUME Held(m)' PROVE FALSE
    OBVIOUS
  <2>1. PICK h \in Holders : m \in Elems(Content(h)')
    BY DEF Held, Elems, Holders, QueueOf, ReplyTo, BatchOf
  <2>2. PICK j \in DOMAIN Content(h)' : m = Content(h)'[j]
    BY <2>1 DEF Elems
  <2>3. h \in Holders /\ j + off[h] \in DOMAIN Content(h) /\ m = Content(h)[j + off[h]]
    BY <1>22, <1>23, <2>2 DEF Flow
  <2>4. h = B /\ j + off[h] = 1
    BY <1>1, <1>5, <1>6, <1>9, <2>3 DEF HeldOnce
  <2> QED BY <1>5, <1>9, <1>22, <2>2, <2>4
<1>26. ASSUME NEW k \in Sends, k # m, Held(k) PROVE Held(k)'
  <2>1. PICK h \in Holders : k \in Elems(Content(h))
    BY <1>26 DEF Held
  <2>2. PICK j \in DOMAIN Content(h) : k = Content(h)[j]
    BY <2>1 DEF Elems
  <2>3. k \in Elems(Content(h)')
    <3>1. CASE h = B
      BY <1>5, <1>6, <1>9, <1>26, <2>2, <3>1 DEF Elems
    <3>2. CASE h # B
      BY <1>10, <2>1, <3>2
    <3> QED BY <3>1, <3>2
  <2> QED BY <2>3 DEF Held, Elems, Holders, QueueOf, ReplyTo, BatchOf
<1>27. /\ x \in Copies(m, TRUE)'
       /\ \A k : \A y \in Copies(k, TRUE)' : y \in Copies(k, TRUE) \/ (y = x /\ k = m)
       /\ \A k : \A y \in Copies(k, TRUE) : y \in Copies(k, TRUE)'
  <2>1. /\ x \in Copies(e.msg, e.received)'
        /\ \A k, b : \A y \in Copies(k, b)' :
             y \in Copies(k, b) \/ (y = x /\ k = e.msg /\ b = e.received)
        /\ \A k, b : \A y \in Copies(k, b) : y \in Copies(k, b)'
    BY <1>1, <1>8, <1>12, <1>13, <1>15, CopiesGrow
  <2> QED BY <1>12, <2>1, Zenon
<1>28. HeldOnce'
  <2>1. ASSUME NEW k \in Sends
        PROVE  /\ (Held(k)' \/ Arrived(k)') <=> k \in accepted' \ lost'
               /\ ~(Held(k)' /\ Arrived(k)')
               /\ \A y, z \in Copies(k, TRUE)' : y = z
    <3>1. /\ (Held(k) \/ Arrived(k)) <=> k \in accepted \ lost
          /\ ~(Held(k) /\ Arrived(k))
          /\ \A y, z \in Copies(k, TRUE) : y = z
      BY <1>1 DEF HeldOnce
    <3>2. CASE k = m
      <4>1. Copies(m, TRUE)' = {x}
        BY <1>11, <1>27 DEF Arrived
      <4>2. Arrived(m)'
        BY <4>1 DEF Arrived
      <4> QED BY <1>2, <1>11, <1>25, <3>2, <4>1, <4>2
    <3>3. CASE k # m
      <4>1. Copies(k, TRUE)' = Copies(k, TRUE)
        <5>1. \A y \in Copies(k, TRUE)' : y \in Copies(k, TRUE)
          BY <1>27, <3>3
        <5>2. \A y \in Copies(k, TRUE) : y \in Copies(k, TRUE)'
          BY <1>27
        <5> QED BY <5>1, <5>2
      <4>2. Arrived(k)' <=> Arrived(k)
        BY <4>1 DEF Arrived
      <4>3. Held(k)' <=> Held(k)
        BY <1>24, <1>26, <3>3
      <4> QED BY <1>2, <3>1, <4>1, <4>2, <4>3
    <3> QED BY <3>2, <3>3
  <2> QED BY <1>24, <2>1 DEF HeldOnce, InOnePlace, Holders, QueueOf, ReplyTo, BatchOf
<1>29. QueuedLast'
  BY <1>1, <1>2 DEF NoneOvertakes, QueuedLast, Elems, Ordered
<1>30. ASSUME NEW y \in Stored', EntryAt(y)'.received, y # x
       PROVE  y \in Stored /\ EntryAt(y)' = EntryAt(y) /\ EntryAt(y).received
  BY <1>16, <1>30
<1>31. PolledLater'
  <2> SUFFICES ASSUME NEW y \in Stored', EntryAt(y)'.received, NEW h \in PolledBy(y.dev),
                      NEW z \in Elems(Content(h)'), Destination(h)' = y.owner,
                      NEW k, k = EntryAt(y)'.msg
               PROVE  Ordered(k, z)'
    BY DEF PolledLater, Elems, PolledBy, ReplyTo, BatchOf
  <2>1. y.dev \in Devices
    BY <1>16, StoredAt
  <2>2. h \in Holders
    BY <2>1, HolderKinds DEF PolledBy
  <2>3. PICK j \in DOMAIN Content(h)' : z = Content(h)'[j]
    BY DEF Elems
  <2>4. z \in Elems(Content(h)) /\ Destination(h) = y.owner
    BY <1>10, <1>22, <1>23, <2>2, <2>3 DEF Flow, Elems
  <2>5. Ordered(k, z)
    <3>1. CASE y # x
      BY <1>1, <1>30, <2>4, <3>1 DEF NoneOvertakes, PolledLater
    <3>2. CASE y = x
      <4>1. k = m /\ y.dev = d
        BY <1>12, <1>16, <3>2
      <4>2. h = B
        <5>1. ASSUME NEW p \in Polls, p.by = d, h = ReplyTo(p) PROVE FALSE
          <6>1. status[p] = "open" /\ p \in Calls
            BY <2>4, <5>1, Contents, CallFacts DEF Elems
          <6>2. handler[d] = p
            BY <1>1, <5>1, <6>1 DEF CallsMade
          <6> QED BY <1>2, <6>1, <6>2
        <5> QED BY <4>1, <5>1 DEF PolledBy, B
      <4>3. /\ j + 1 \in DOMAIN Content(B) /\ z = Content(B)[j + 1] /\ 1 \in DOMAIN Content(B)
            /\ 1 < j + 1 /\ m = Content(B)[1]
        BY <1>5, <1>6, <1>9, <2>3, <4>2
      <4> QED BY <1>1, <1>9, <4>1, <4>3 DEF NoneOvertakes, HeldInOrder
    <3> QED BY <3>1, <3>2
  <2> QED BY <1>2, <2>5 DEF Ordered
<1>32. StoredInOrder'
  <2> SUFFICES ASSUME NEW y \in Stored', NEW z \in Stored', y.dev = z.dev, y.owner = z.owner,
                      y.chat = z.chat, y.pos < z.pos, EntryAt(y)'.received, EntryAt(z)'.received,
                      NEW k, k = EntryAt(y)'.msg, NEW l, l = EntryAt(z)'.msg
               PROVE  Ordered(k, l)'
    BY DEF StoredInOrder
  <2>1. Ordered(k, l)
    <3>1. CASE y # x /\ z # x
      BY <1>1, <1>30, <3>1 DEF NoneOvertakes, StoredInOrder
    <3>2. CASE y # x /\ z = x
      <4>1. l = m /\ y.dev = d /\ y.owner = session[d]
        BY <1>11, <1>12, <1>14, <1>16, <3>2
      <4>2. y \in Stored /\ EntryAt(y).received /\ k = EntryAt(y).msg
        BY <1>30, <3>2
      <4>3. m \in Elems(Content(B)) /\ B \in PolledBy(y.dev) /\ Destination(B) = y.owner
        BY <1>5, <1>6, <1>9, <4>1 DEF Elems, PolledBy, B
      <4> QED BY <1>1, <4>1, <4>2, <4>3 DEF NoneOvertakes, PolledLater
    <3>3. CASE y = x
      <4>1. x.pos \in Nat
        BY <1>1, <1>8, <1>15, ChatsTyped DEF NextAt, OpenChats
      <4>2. z # x /\ z \in Stored /\ z.pos < x.pos /\ z.pos \in Nat
        BY <1>16, <3>3, <4>1
      <4> QED BY <3>3, <4>1, <4>2
    <3> QED BY <3>1, <3>2, <3>3
  <2> QED BY <1>2, <2>1 DEF Ordered
<1> QED BY <1>17, <1>18, <1>19, <1>20, <1>24, <1>28, <1>29, <1>31, <1>32
        DEF Safe, Core, Conversations, NoneOvertakes
-----------------------------------------------------------------------------
(* Invariance *)

LEMMA InitSafe ==
  ASSUME Init
  PROVE  Safe
<1>1. \A d \in Devices, o \in Owners : chats[d][o] = <<>>
  BY DEF Init
<1>2. Stored = {}
  <2> SUFFICES ASSUME NEW x \in Stored PROVE FALSE
    OBVIOUS
  <2>1. x.dev \in Devices /\ x.owner \in Owners /\ x.chat \in DOMAIN chats[x.dev][x.owner]
    BY StoredAt
  <2> QED BY <1>1, <2>1
<1>3. \A h \in Holders : Content(h) = <<>>
  BY HolderKinds, Contents DEF Init
<1>4. \A m, b : Copies(m, b) = {}
  BY <1>2 DEF Copies
<1>5. \A m : ~Held(m) /\ ~Arrived(m)
  <2>1. \A h \in Holders : Elems(Content(h)) = {}
    BY <1>3 DEF Elems
  <2> QED BY <1>4, <2>1 DEF Held, Arrived
<1>6. TypeOK
  <2>1. <<>> \in Seq(Chats) /\ <<>> \in Seq(Sends)
    OBVIOUS
  <2> QED BY <2>1 DEF Init, TypeOK, Net!Init, Net!TypeOK, Net!Statuses
<1>7. HandlerOpen /\ CallsMade
  BY CallFacts DEF Init, HandlerOpen, CallsMade, Net!Init
<1>8. HeldForRecipient /\ HeldOnce
  <2>1. \A h \in Holders : DOMAIN Content(h) = {}
    BY <1>3
  <2>2. accepted \ lost = {}
    BY DEF Init
  <2>3. \A m \in Sends : /\ (Held(m) \/ Arrived(m)) <=> m \in accepted \ lost
                         /\ ~(Held(m) /\ Arrived(m))
                         /\ \A x, y \in Copies(m, TRUE) : x = y
    BY <1>4, <1>5, <2>2
  <2> QED BY <2>1, <2>3 DEF HeldForRecipient, HeldOnce
<1>9. OwnCopyKept
  BY <1>4, CallFacts DEF OwnCopyKept, Init
<1>10. DmsHavePeers /\ OneConversation
  BY <1>1 DEF DmsHavePeers, OneConversation
<1>11. RightConversation
  BY <1>2 DEF RightConversation
<1>12. NoneOvertakes
  <2>1. HeldInOrder /\ PolledLater /\ StoredInOrder
    BY <1>2, <1>3 DEF HeldInOrder, PolledLater, StoredInOrder
  <2>2. QueuedLast
    BY DEF QueuedLast, Init, Elems
  <2> QED BY <2>1, <2>2 DEF NoneOvertakes
<1> QED BY <1>6, <1>7, <1>8, <1>9, <1>10, <1>11, <1>12 DEF Safe, Core

LEMMA StutterSafe ==
  ASSUME Safe, UNCHANGED vars
  PROVE  Safe'
<1>1. /\ session' = session /\ chats' = chats /\ handler' = handler /\ batch' = batch
      /\ address' = address /\ queue' = queue /\ taken' = taken /\ accepted' = accepted
      /\ lost' = lost /\ status' = status /\ ran' = ran
  BY DEF vars, device, server
<1>2. TypeOK /\ HandlerOpen /\ CallsMade /\ Conversations
  BY SafeParts
<1>3. TypeOK'
  BY <1>1, <1>2 DEF TypeOK, Net!TypeOK
<1>4. HandlerOpen' /\ CallsMade' /\ Weakens
  BY <1>1, <1>2 DEF HandlerOpen, Merging, CallsMade, Weakens
<1>5. \A h \in Holders : Rests(h)
  BY <1>1, HolderKinds, Contents, Destinations DEF Rests
<1> QED BY <1>1, <1>2, <1>3, <1>4, <1>5, StoresRest, QuietSafe

LEMMA NextSafe ==
  ASSUME Safe, [Next]_vars
  PROVE  Safe'
<1>1. CASE UNCHANGED vars
  BY <1>1, StutterSafe
<1>2. ASSUME NEW d \in Devices, NEW c \in NewChats, c.owner = OwnerOf(d), CreateChat(d, c.type, c.peer)
      PROVE  Safe'
  BY <1>2, CreateChatSafe
<1>3. ASSUME NEW d \in Devices, NEW i \in DOMAIN OpenChats(d), SendMessage(d, i) PROVE Safe'
  BY <1>3, SendMessageSafe
<1>4. ASSUME NEW d \in Devices, SyncMessages(d) PROVE Safe'
  BY <1>4, SyncMessagesSafe
<1>5. ASSUME NEW d \in Devices, HandlerStep(d) PROVE Safe'
  BY <1>5, SendReturnsSafe, SyncReturnsSafe, MergeCreatesSafe, MergeAppendsSafe, MergeEndsSafe
     DEF HandlerStep
<1>6. ASSUME NEW d \in Devices, NEW a \in UsersOf[d], HandleLogin(d, a) PROVE Safe'
  <2>1. a \in Logins
    BY ConstantsAssumption
  <2> QED BY <1>6, <2>1, HandleLoginSafe
<1>7. ASSUME NEW d \in Devices, HandleLogout(d) PROVE Safe'
  BY <1>7, HandleLoginSafe DEF HandleLogout
<1>8. ASSUME NEW d \in Devices, Restart(d) PROVE Safe'
  BY <1>8, RestartSafe
<1>9. ASSUME NEW m \in Sends, ExecuteSend(m) PROVE Safe'
  BY <1>9, ExecuteSendSafe
<1>10. ASSUME NEW p \in Polls, ExecutePoll(p) \/ PollAgain(p) PROVE Safe'
  BY <1>10, ExecutePollSafe, PollAgainSafe
<1> QED BY <1>1, <1>2, <1>3, <1>4, <1>5, <1>6, <1>7, <1>8, <1>9, <1>10 DEF Next, DeviceStep, ServerStep

\* A message that is held or has arrived is in one place, and no other is anywhere.
LEMMA SafePlaces ==
  ASSUME Safe
  PROVE  OnePlace /\ \A m \in Sends : Places(m) # {} <=> Held(m) \/ Arrived(m)
<1> SUFFICES ASSUME NEW m \in Sends
             PROVE  /\ Cardinality(Places(m)) = IF m \in accepted \ lost THEN 1 ELSE 0
                    /\ Places(m) # {} <=> Held(m) \/ Arrived(m)
  BY DEF OnePlace
<1>1. HeldOnce
  BY SafeParts
<1>2. /\ (Held(m) \/ Arrived(m)) <=> m \in accepted \ lost
      /\ ~(Held(m) /\ Arrived(m))
      /\ \A x, y \in Copies(m, TRUE) : x = y
  BY <1>1 DEF HeldOnce
<1> DEFINE Within(h) == {<<h, i>> : i \in At(Content(h), m)}
           OnTheWay == UNION {Within(h) : h \in Holders}
           InStores == {<<<<"store", x>>, x.pos>> : x \in Copies(m, TRUE)}
<1>3. Places(m) = OnTheWay \union InStores
  BY DEF Places
<1>4. \A h : \A z \in Within(h) : \E i \in DOMAIN Content(h) : Content(h)[i] = m /\ z = <<h, i>>
  BY DEF At
<1>5. \A h : \A i \in DOMAIN Content(h) : Content(h)[i] = m => <<h, i>> \in Within(h)
  BY DEF At
<1>6. Arrived(m) <=> InStores # {}
  BY DEF Arrived
<1>7. \A z, w \in InStores : z = w
  BY <1>2
<1> HIDE DEF Within, InStores
<1>8. Held(m) <=> OnTheWay # {}
  <2>1. ASSUME Held(m) PROVE OnTheWay # {}
    <3>1. PICK h \in Holders : m \in Elems(Content(h))
      BY <2>1 DEF Held
    <3>2. PICK i \in DOMAIN Content(h) : m = Content(h)[i]
      BY <3>1 DEF Elems
    <3> QED BY <1>5, <3>2
  <2>2. ASSUME OnTheWay # {} PROVE Held(m)
    <3>1. PICK h \in Holders : Within(h) # {}
      BY <2>2
    <3> QED BY <1>4, <3>1 DEF Held, Elems
  <2> QED BY <2>1, <2>2
<1>9. \A z, w \in OnTheWay : z = w
  <2> SUFFICES ASSUME NEW z \in OnTheWay, NEW w \in OnTheWay PROVE z = w
    OBVIOUS
  <2>1. PICK h \in Holders : z \in Within(h)
    OBVIOUS
  <2>2. PICK g \in Holders : w \in Within(g)
    OBVIOUS
  <2>3. PICK i \in DOMAIN Content(h) : Content(h)[i] = m /\ z = <<h, i>>
    BY <1>4, <2>1
  <2>4. PICK j \in DOMAIN Content(g) : Content(g)[j] = m /\ w = <<g, j>>
    BY <1>4, <2>2
  <2>5. h = g /\ i = j
    BY <1>1, <2>3, <2>4 DEF HeldOnce
  <2> QED BY <2>3, <2>4, <2>5
<1> HIDE DEF OnTheWay
<1>10. CASE m \in accepted \ lost
  <2>1. \E z : Places(m) = {z}
    BY <1>2, <1>3, <1>6, <1>7, <1>8, <1>9, <1>10
  <2>2. Cardinality(Places(m)) = 1
    BY <2>1, FS_Singleton
  <2> QED BY <1>3, <1>6, <1>8, <1>10, <2>2
<1>11. CASE m \notin accepted \ lost
  <2>1. Places(m) = {}
    BY <1>2, <1>3, <1>6, <1>8, <1>11
  <2>2. Cardinality(Places(m)) = 0
    BY <2>1, FS_EmptySet
  <2> QED BY <1>2, <1>11, <2>1, <2>2
<1> QED BY <1>10, <1>11

\* The run checks IInv on its instance; here it is for every instance of the
\* constants.  OnePlace, OneConversation and RightConversation are parts of it:
\* a message that was accepted is in one place, and in the right conversation,
\* whatever is retried, given up, restarted, or logged in and out meanwhile.
THEOREM Invariance == Spec => []IInv
<1>1. Init => Safe
  BY InitSafe
<1>2. Safe /\ [Next]_vars => Safe'
  BY NextSafe
<1>3. Safe => IInv
  BY SafePlaces DEF Safe, Core, IInv
<1> QED BY <1>1, <1>2, <1>3, PTL DEF Spec

\* What arrives in a store is in the order its sender sent it in, save for
\* messages whose request ended without an answer.
THEOREM ArrivesInOrder == Spec => []InOrder
<1>1. IInv => InOrder
  BY DEF IInv, NoneOvertakes, StoredInOrder, InOrder, Ordered
<1> QED BY <1>1, Invariance, PTL
-----------------------------------------------------------------------------
(* The stages of a message *)

StageIs(m) ==
  IF address[m] = None THEN "new"
  ELSE IF Arrived(m) THEN "arrived"
  ELSE IF Held(m) THEN "held"
  ELSE IF m \in accepted THEN "gone" ELSE "kept"

StagesAre == /\ Safe
             /\ Stage = [m \in Sends |-> StageIs(m)]
             /\ lost \subseteq accepted
             /\ \A m \in Sends : m \in accepted => address[m] # None
             /\ \A m \in Sends : (Held(m) \/ Arrived(m)) <=> m \in accepted \ lost

LEMMA StagesOfSafe == Safe => StagesAre
<1> SUFFICES ASSUME Safe PROVE StagesAre
  OBVIOUS
<1>1. TypeOK /\ CallsMade /\ HeldOnce /\ OwnCopyKept
  BY SafeParts
<1>2. \A m \in Sends : m \in accepted => address[m] # None
  BY <1>1, CallFacts DEF CallsMade
<1>3. \A m \in Sends : (Held(m) \/ Arrived(m)) <=> m \in accepted \ lost
  BY <1>1 DEF HeldOnce
<1>4. ASSUME NEW m \in Sends PROVE StageOf(m) = StageIs(m)
  <2> DEFINE own == Copies(m, FALSE)
             places == Places(m)
             received == Copies(m, TRUE)
  <2>1. /\ own # {} <=> address[m] # None
        /\ \A x, y \in own : x = y
    BY <1>1 DEF OwnCopyKept
  <2>2. /\ places # {} <=> Held(m) \/ Arrived(m)
        /\ received # {} <=> Arrived(m)
    BY SafePlaces DEF Arrived
  <2>3. StageOf(m) = IF Cardinality(own) # 1
                     THEN IF own \union places = {} THEN "new" ELSE "without its own copy"
                     ELSE IF received # {} THEN "arrived"
                     ELSE IF places # {} THEN "held"
                     ELSE IF m \in accepted THEN "gone" ELSE "kept"
    BY DEF StageOf
  <2> HIDE DEF own, places, received
  <2>4. CASE address[m] = None
    <3>1. own = {} /\ Cardinality(own) = 0
      BY <2>1, <2>4, FS_EmptySet
    <3>2. places = {}
      BY <1>2, <1>3, <2>2, <2>4
    <3> QED BY <2>3, <2>4, <3>1, <3>2 DEF StageIs
  <2>5. CASE address[m] # None
    <3>1. \E x : own = {x}
      BY <2>1, <2>5
    <3>2. Cardinality(own) = 1
      BY <3>1, FS_Singleton
    <3>3. StageOf(m) = IF received # {} THEN "arrived"
                       ELSE IF places # {} THEN "held"
                       ELSE IF m \in accepted THEN "gone" ELSE "kept"
      BY <2>3, <3>2
    <3> QED BY <2>2, <2>5, <3>3 DEF StageIs
  <2> QED BY <2>4, <2>5
<1> QED BY <1>1, <1>2, <1>3, <1>4 DEF StagesAre, Stage, TypeOK

\* No step takes back what was sent, accepted, lost or stored, and the step that
\* accepts a message does nothing else.
Onward ==
  /\ \A m \in Sends : address[m] # None => address'[m] # None
  /\ \A m \in Sends : Arrived(m) => Arrived(m)'
  /\ lost \subseteq lost'
  /\ \/ accepted' = accepted
     \/ /\ accepted \subseteq accepted' /\ address' = address /\ lost' = lost
        /\ \A m \in Sends : Arrived(m)' <=> Arrived(m)

LEMMA OnwardIf ==
  ASSUME chats' = chats, \A m \in Sends : address'[m] = address[m], lost \subseteq lost',
         \/ accepted' = accepted
         \/ accepted \subseteq accepted' /\ address' = address /\ lost' = lost
  PROVE  Onward
<1>1. \A m \in Sends : Arrived(m)' <=> Arrived(m)
  BY StoresKept DEF Arrived
<1> QED BY <1>1 DEF Onward

LEMMA ChatOnward ==
  ASSUME Safe, NEW d \in Devices, NEW type \in {"dm", "group"}, NEW peer \in Logins \union {None},
         StoreChat(d, type, peer), accepted' = accepted, address' = address, lost' = lost
  PROVE  Onward
BY SafeParts, ChatStoresNoMessage DEF Onward, Arrived

LEMMA MessageOnward ==
  ASSUME Safe, NEW d \in Devices, NEW i \in DOMAIN OpenChats(d), NEW e \in Entries,
         StoreMessage(d, i, e), accepted' = accepted, lost' = lost,
         \A m \in Sends : address[m] # None => address'[m] # None
  PROVE  Onward
<1>1. PICK x : x = NextAt(d, i)
  OBVIOUS
<1>2. \A m, b : \A y \in Copies(m, b) : y \in Copies(m, b)'
  BY <1>1, SafeParts, CopiesGrow
<1>3. \A m \in Sends : Arrived(m) => Arrived(m)'
  BY <1>2 DEF Arrived
<1> QED BY <1>3 DEF Onward

LEMMA NextOnward ==
  ASSUME Safe, [Next]_vars
  PROVE  Onward
<1>1. TypeOK /\ CallsMade /\ HeldForRecipient /\ HeldOnce /\ OneConversation
  BY SafeParts
<1>2. CASE UNCHANGED vars
  BY <1>2, OnwardIf DEF vars, device, server
<1>3. ASSUME NEW d \in Devices, NEW c \in NewChats, CreateChat(d, c.type, c.peer) PROVE Onward
  <2>1. c.type \in {"dm", "group"} /\ c.peer \in Logins \union {None}
    BY ConstantsAssumption DEF ChatTypes
  <2> QED BY <1>3, <2>1, ChatOnward DEF CreateChat, server
<1>4. ASSUME NEW d \in Devices, NEW i \in DOMAIN OpenChats(d), SendMessage(d, i) PROVE Onward
  <2>1. PICK m \in NextSend(d) :
          /\ StoreMessage(d, i, [from |-> OwnerOf(d), msg |-> m, received |-> FALSE])
          /\ \E b : address' = [address EXCEPT ![m] = b] /\ b # None
    <3>1. PICK m \in NextSend(d) :
            /\ StoreMessage(d, i, [from |-> OwnerOf(d), msg |-> m, received |-> FALSE])
            /\ \/ /\ session[d] # None
                  /\ address' = [address EXCEPT ![m] = [from |-> session[d], to |-> OpenChats(d)[i].peer]]
                  /\ OpenChats(d)[i].type = "dm"
               \/ address' = [address EXCEPT ![m] = [from |-> OwnerOf(d), to |-> None]]
      BY <1>4 DEF SendMessage
    <3>2. OwnerOf(d) \in Owners /\ (session[d] # None => session[d] \in Owners)
      BY <1>1 DEF OwnerOf, Owners, TypeOK
    <3>3. OpenChats(d)[i].peer \in Logins \union {None}
      BY <1>1, <3>2, ChatsTyped DEF OpenChats
    <3>4. \A o \in Owners, a \in Logins \union {None} : [from |-> o, to |-> a] # None
      <4> SUFFICES ASSUME NEW o \in Owners, NEW a \in Logins \union {None}
                   PROVE  [from |-> o, to |-> a] # None
        OBVIOUS
      <4>1. [from |-> o, to |-> a] \in Addresses
        BY DEF Addresses
      <4> QED BY <4>1, ConstantsAssumption
    <3>5. [from |-> OwnerOf(d), to |-> None] # None
      BY <3>2, <3>4
    <3>6. session[d] # None => [from |-> session[d], to |-> OpenChats(d)[i].peer] # None
      BY <3>2, <3>3, <3>4
    <3>7. \E b : address' = [address EXCEPT ![m] = b] /\ b # None
      BY <3>1, <3>5, <3>6
    <3> QED BY <3>1, <3>7
  <2>2. accepted' = accepted /\ lost' = lost
    BY <1>4 DEF SendMessage, server
  <2>3. m \in Sends
    BY DEF NextSend
  <2>4. \A k \in Sends : address[k] # None => address'[k] # None
    BY <1>1, <2>1, <2>3, CallFacts DEF TypeOK
  <2>5. PICK e \in Entries : StoreMessage(d, i, e)
    <3> DEFINE f == [from |-> OwnerOf(d), msg |-> m, received |-> FALSE]
    <3>1. f \in Entries
      BY <1>1, <2>3 DEF Entries, OwnerOf, Owners, TypeOK
    <3>2. StoreMessage(d, i, f)
      BY <2>1
    <3> HIDE DEF f
    <3> QED BY <3>1, <3>2
  <2> QED BY <2>2, <2>4, <2>5, MessageOnward
<1>5. ASSUME NEW d \in Devices, SyncMessages(d) PROVE Onward
  <2>1. PICK p \in Polls : address' = [address EXCEPT ![p] = [from |-> session[d], to |-> None]]
    BY <1>5 DEF SyncMessages
  <2>2. \A m \in Sends : address'[m] = address[m]
    BY <1>1, <2>1, CallFacts DEF TypeOK
  <2> QED BY <1>5, <2>2, OnwardIf DEF SyncMessages, server
<1>6. ASSUME NEW d \in Devices, SendReturns(d) \/ MergeEnds(d) PROVE Onward
  BY <1>6, OnwardIf DEF SendReturns, MergeEnds, server
<1>7. ASSUME NEW d \in Devices, SyncReturns(d) PROVE Onward
  <2>1. /\ chats' = chats /\ address' = address /\ accepted' = accepted
        /\ lost' = lost \/ lost' = lost \union Elems(taken[handler[d]])
    BY <1>7 DEF SyncReturns, server
  <2> QED BY <2>1, OnwardIf
<1>8. ASSUME NEW d \in Devices, batch[d] # <<>>
      PROVE  Head(batch[d]) \in Sends /\ Sender(Head(batch[d])) \in Logins
  <2>1. batch[d] \in Seq(Sends)
    BY <1>1 DEF TypeOK
  <2> DEFINE q == batch[d]
  <2> HIDE DEF q
  <2>2. 1 \in DOMAIN q /\ Head(q) = q[1] /\ q[1] \in Sends
    BY <1>8, <2>1, HeadAndTail DEF q
  <2> QED BY <1>1, <2>2, HeldFacts, HolderKinds, Contents DEF q, Sender
<1>9. ASSUME NEW d \in Devices, MergeCreates(d) PROVE Onward
  <2>1. Sender(Head(batch[d])) \in Logins
    BY <1>8, <1>9 DEF MergeCreates
  <2> QED BY <1>9, <2>1, ChatOnward DEF MergeCreates, server
<1>10. ASSUME NEW d \in Devices, MergeAppends(d) PROVE Onward
  <2> DEFINE m == Head(batch[d])
             f == [from |-> Sender(m), msg |-> m, received |-> TRUE]
  <2>1. m \in Sends /\ Sender(m) \in Logins
    BY <1>8, <1>10 DEF MergeAppends
  <2>2. PICK i \in FindDm(d, Sender(m)) : StoreMessage(d, i, f)
    BY <1>10 DEF MergeAppends
  <2>3. i \in DOMAIN OpenChats(d)
    BY <1>1, Found
  <2> HIDE DEF m
  <2>4. f \in Entries
    BY <2>1 DEF Entries, Owners
  <2> HIDE DEF f
  <2>5. PICK e \in Entries : StoreMessage(d, i, e)
    BY <2>2, <2>4
  <2>6. accepted' = accepted /\ lost' = lost /\ address' = address
    BY <1>10 DEF MergeAppends, server
  <2> QED BY <2>3, <2>5, <2>6, MessageOnward
<1>11. ASSUME NEW d \in Devices, NEW a, HandleLogin(d, a) PROVE Onward
  BY <1>11, OnwardIf DEF HandleLogin, server
<1>12. ASSUME NEW d \in Devices, Restart(d) PROVE Onward
  <2>1. chats' = chats /\ address' = address /\ accepted' = accepted /\ lost \subseteq lost'
    BY <1>12 DEF Restart, server
  <2> QED BY <2>1, OnwardIf
<1>13. ASSUME NEW m \in Sends, ExecuteSend(m) PROVE Onward
  <2>1. /\ chats' = chats /\ address' = address /\ lost' = lost
        /\ accepted' = accepted \/ accepted' = accepted \union {m}
    BY <1>13 DEF ExecuteSend, device
  <2> QED BY <2>1, OnwardIf
<1>14. ASSUME NEW p \in Polls, ExecutePoll(p) PROVE Onward
  <2>1. chats' = chats /\ address' = address /\ accepted' = accepted /\ lost \subseteq lost'
    BY <1>14 DEF ExecutePoll, device
  <2> QED BY <2>1, OnwardIf
<1>15. ASSUME NEW p \in Polls, PollAgain(p) PROVE Onward
  <2>1. \A m \in Sends : address'[m] = address[m]
    BY <1>1, <1>15, CallFacts DEF PollAgain, TypeOK
  <2> QED BY <1>15, <2>1, OnwardIf DEF PollAgain, device
<1> QED BY <1>2, <1>3, <1>4, <1>5, <1>6, <1>7, <1>9, <1>10, <1>11, <1>12, <1>13, <1>14, <1>15
        DEF Next, DeviceStep, ServerStep, HandlerStep, HandleLogout

\* Every behaviour of the devices and the server is, for each message, a
\* behaviour of Delivery: its own copy first, then the queue, then its
\* recipient or nobody, and no stage twice.
THEOREM Delivers == Spec => DeliverySpec
<1>1. Spec => []StagesAre
  <2>1. Init => Safe
    BY InitSafe
  <2>2. Safe /\ [Next]_vars => Safe'
    BY NextSafe
  <2>3. Safe => StagesAre
    BY StagesOfSafe
  <2> QED BY <2>1, <2>2, <2>3, PTL DEF Spec
<1>2. Init /\ StagesAre => D!Init
  <2> SUFFICES ASSUME Init, StagesAre PROVE Stage = [m \in Sends |-> "new"]
    BY DEF D!Init
  <2>1. \A m \in Sends : StageIs(m) = "new"
    BY CallFacts DEF Init, StageIs
  <2> QED BY <2>1 DEF StagesAre
<1>3. StagesAre /\ StagesAre' /\ [Next]_vars => [D!Next]_Stage
  <2> SUFFICES ASSUME StagesAre, StagesAre', [Next]_vars PROVE D!Next
    OBVIOUS
  <2>1. Onward
    BY NextOnward DEF StagesAre
  <2>2. ASSUME NEW m \in Sends
        PROVE  /\ StageIs(m) \in D!Stages /\ StageIs(m)' \in D!Stages
               /\ StageIs(m)' # StageIs(m) => <<StageIs(m), StageIs(m)'>> \in D!Moves
    <3>1. /\ m \in accepted => address[m] # None
          /\ m \in lost => m \in accepted
          /\ (Held(m) \/ Arrived(m)) <=> m \in accepted /\ m \notin lost
          /\ m \in accepted' => address'[m] # None
          /\ (Held(m)' \/ Arrived(m)') <=> m \in accepted' /\ m \notin lost'
      BY DEF StagesAre
    <3>2. /\ address[m] # None => address'[m] # None
          /\ Arrived(m) => Arrived(m)'
          /\ m \in lost => m \in lost'
          /\ \/ m \in accepted' <=> m \in accepted
             \/ /\ m \in accepted => m \in accepted'
                /\ address'[m] = address[m]
                /\ m \in lost' <=> m \in lost
                /\ Arrived(m)' <=> Arrived(m)
      BY <2>1 DEF Onward
    <3>3. /\ StageIs(m) = IF address[m] = None THEN "new"
                          ELSE IF Arrived(m) THEN "arrived"
                          ELSE IF Held(m) THEN "held"
                          ELSE IF m \in accepted THEN "gone" ELSE "kept"
          /\ StageIs(m)' = IF address'[m] = None THEN "new"
                           ELSE IF Arrived(m)' THEN "arrived"
                           ELSE IF Held(m)' THEN "held"
                           ELSE IF m \in accepted' THEN "gone" ELSE "kept"
      BY DEF StageIs
    <3> QED BY <3>1, <3>2, <3>3 DEF D!Stages, D!Moves
  <2>3. Stage = [m \in Sends |-> StageIs(m)] /\ Stage' = [m \in Sends |-> StageIs(m)']
    BY DEF StagesAre
  <2> QED BY <2>2, <2>3 DEF D!Next
<1> QED BY <1>1, <1>2, <1>3, PTL DEF Spec, DeliverySpec, D!Spec
=============================================================================
