-------------------------- MODULE LocalStore_proofs --------------------------
(***************************************************************************)
(* What holds of LocalStore for every set of accounts, passwords, salts and *)
(* faults: its types, that a history is never lost by the sequence of       *)
(* logins, loads, saves and restarts alone (HistoryKept), that accounts do  *)
(* not mix, that answered calls are durable, and that what was saved can be *)
(* read again (UndamagedReadable).                                          *)
(***************************************************************************)
EXTENDS LocalStore, TLAPS

(* A store's directory is one of Dirs, and what load() can return is a store. *)
LEMMA StoreDirType == \A o \in Owners : StoreDir(o) \in Dirs
BY ConstantsAssumption DEF StoreDir

LEMMA OnDiskType ==
  ASSUME TypeOK, NEW d \in Dirs
  PROVE  OnDisk(d) \in SUBSET Entries
<1>1. CASE HasData(d)
  <2>1. vault[d] \in Files
    BY <1>1 DEF TypeOK, HasData
  <2> QED BY <2>1, <1>1 DEF OnDisk, Files
<1>2. CASE ~HasData(d)
  BY <1>2 DEF OnDisk
<1> QED BY <1>1, <1>2

LEMMA CurrentType ==
  ASSUME TypeOK
  PROVE  CurrentOwner \in Owners /\ CurrentKey \in Keys \union {NoKey}
BY DEF TypeOK, CurrentOwner, CurrentKey, Sessions, Owners

LEMMA OpenStoreType ==
  ASSUME TypeOK, NEW st \in OpenStore
  PROVE  st \in Stores
<1>1. CASE store # None /\ store.owner = CurrentOwner
  BY <1>1 DEF OpenStore, TypeOK
<1>2. CASE ~(store # None /\ store.owner = CurrentOwner)
  <2>1. st \in Load(CurrentOwner, CurrentKey)
    BY <1>2 DEF OpenStore
  <2>2. StoreDir(CurrentOwner) \in Dirs
    BY CurrentType, StoreDirType
  <2>3. OnDisk(StoreDir(CurrentOwner)) \in SUBSET Entries
    BY <2>2, OnDiskType
  <2> QED BY <2>1, <2>3, CurrentType DEF Load, LoadMissed, NewStore, Stores
<1> QED BY <1>1, <1>2

LEMMA WithEntryType ==
  ASSUME NEW st \in Stores, NEW chat \in Ids, NEW id \in Ids
  PROVE  /\ WithEntry(st, chat, id) \in Stores
         /\ WithEntry(st, chat, id).owner = st.owner
         /\ WithEntry(st, chat, id).key = st.key
         /\ WithEntry(st, chat, id).load = st.load
         /\ WithEntry(st, chat, id).entries
              = st.entries \union {[by |-> st.owner, chat |-> chat, id |-> id]}
BY DEF WithEntry, Stores, Entries

LEMMA HarmTypes ==
  ASSUME TypeOK
  PROVE  /\ Abandoned \subseteq Dirs \X Harms
         /\ \A st \in Stores : Truncation(st) \subseteq Dirs \X Harms
<1>1. \A st \in Stores : StoreDir(st.owner) \in Dirs
  BY StoreDirType DEF Stores
<1>2. Abandoned \subseteq Dirs \X Harms
  BY <1>1 DEF Abandoned, Harms, TypeOK
<1>3. \A st \in Stores : Truncation(st) \subseteq Dirs \X Harms
  BY <1>1 DEF Truncation, Harms
<1> QED BY <1>2, <1>3

\* The store a chat call changes and then saves: the one store() returns, with
\* one entry more.
LEMMA ChatCalls ==
  ASSUME TypeOK, CreateChat \/ AppendMessage
  PROVE  \E st \in OpenStore, chat \in Ids, id \in Ids : BeginSave(WithEntry(st, chat, id))
<1>1. CASE CreateChat
  BY <1>1 DEF CreateChat, FreshIds
<1>2. CASE AppendMessage
  <2>1. PICK st \in OpenStore, id \in FreshIds :
          \E chat \in Chats(st) : BeginSave(WithEntry(st, chat.id, id))
    BY <1>2 DEF AppendMessage
  <2>2. PICK chat \in Chats(st) : BeginSave(WithEntry(st, chat.id, id))
    BY <2>1
  <2>3. chat.id \in Ids
    BY OpenStoreType DEF Chats, Stores, Entries
  <2> QED BY <2>2, <2>3 DEF FreshIds
<1> QED BY <1>1, <1>2

-----------------------------------------------------------------------------
(* Type correctness *)

LEMMA InitTypeOK == Init => TypeOK /\ SaveInStore
BY DEF Init, TypeOK, SaveInStore

\* The type of vault and saved rests on a save only running in an open store.
LEMMA NextTypeOK == TypeOK /\ SaveInStore /\ [Next]_vars => TypeOK'
<1> SUFFICES ASSUME TypeOK, SaveInStore, [Next]_vars PROVE TypeOK'
  OBVIOUS
<1>1. CASE UseStore
  BY <1>1, OpenStoreType DEF UseStore, TypeOK, keys
<1>2. CASE CreateChat \/ AppendMessage
  <2>1. PICK st \in OpenStore, chat \in Ids, id \in Ids :
          BeginSave(WithEntry(st, chat, id))
    BY <1>2, ChatCalls
  <2> DEFINE new == WithEntry(st, chat, id)
  <2>2. new \in Stores
    BY OpenStoreType, WithEntryType
  <2>3. store' = new /\ saving' \in BOOLEAN
    BY <2>1 DEF BeginSave, TypeOK
  <2>4. vault' \in [Dirs -> Files \union {None, Torn}]
    BY <2>1 DEF BeginSave, TypeOK
  <2>5. harm' \subseteq Dirs \X Harms
    <3>1. StoreDir(new.owner) \in Dirs
      BY <2>2, StoreDirType DEF Stores
    <3> QED BY <2>1, <2>2, <3>1, HarmTypes DEF BeginSave, TypeOK, Harms
  <2>6. UNCHANGED <<running, session, keys, saved>>
    BY <1>2 DEF CreateChat, AppendMessage
  <2> QED BY <2>2, <2>3, <2>4, <2>5, <2>6 DEF TypeOK, keys
<1>3. CASE FinishSave
  <2>1. store \in Stores /\ StoreDir(store.owner) \in Dirs
    BY <1>3, StoreDirType DEF FinishSave, SaveInStore, TypeOK, Stores
  <2>2. [key |-> store.key, aad |-> store.owner, entries |-> store.entries] \in Files
    BY <2>1 DEF Stores, Files
  <2>3. rekeyed' \subseteq Dirs
    BY <2>1, <1>3 DEF FinishSave, TypeOK
  <2> QED BY <2>1, <2>2, <2>3, <1>3 DEF FinishSave, Encrypt, TypeOK, Stores
<1>4. CASE FailSave
  <2>1. StoreDir(store.owner) \in Dirs
    BY <1>4, StoreDirType DEF FailSave, SaveInStore, TypeOK, Stores
  <2>2. harm' \subseteq Dirs \X Harms
    BY <1>4, <2>1 DEF FailSave, TypeOK, Harms
  <2> QED BY <1>4, <2>2 DEF FailSave, TypeOK, keys
<1>5. CASE \E l \in Logins : HandleLogin(l)
  <2>1. PICK l \in Logins : HandleLogin(l)
    BY <1>5
  <2>2. StoreDir(l) \in Dirs
    BY StoreDirType DEF Owners
  <2>3. PICK salt \in Salts :
          /\ \/ \E content \in {salt, Torn} : saltFile' = [saltFile EXCEPT ![StoreDir(l)] = content]
             \/ UNCHANGED saltFile
          /\ session'.login = l
          /\ session' \in {[login |-> l, vaultKey |-> NoKey],
                          [login |-> l, vaultKey |-> <<password[l], salt>>]}
    BY <2>1 DEF HandleLogin, WriteSalt, DerivedKey, VaultKey
  <2>4. saltFile' \in [Dirs -> Salts \union {None, Torn}]
    BY <2>3 DEF TypeOK
  <2>5. session' \in Sessions
    BY <2>3 DEF TypeOK, Sessions, Keys
  <2>6. rekeyed' \subseteq Dirs /\ astray' \in BOOLEAN
    BY <2>1, <2>2 DEF HandleLogin, TypeOK
  <2>7. harm' \subseteq Dirs \X Harms
    BY <2>1, HarmTypes DEF HandleLogin, TypeOK
  <2> QED BY <2>1, <2>4, <2>5, <2>6, <2>7 DEF HandleLogin, DropStore, TypeOK
<1>6. CASE HandleLogout
  BY <1>6, HarmTypes DEF HandleLogout, DropStore, TypeOK
<1>7. CASE Stop
  BY <1>7, HarmTypes DEF Stop, TypeOK
<1>8. CASE Start
  BY <1>8 DEF Start, TypeOK, keys
<1>9. CASE \E l \in Logins, p \in Passwords : ChangePassword(l, p)
  <2>1. PICK l \in Logins, p \in Passwords : ChangePassword(l, p)
    BY <1>9
  <2>2. StoreDir(l) \in Dirs
    BY StoreDirType DEF Owners
  <2> QED BY <2>1, <2>2 DEF ChangePassword, TypeOK
<1>10. CASE UNCHANGED vars
  BY <1>10 DEF vars, keys, TypeOK
<1> QED BY <1>1, <1>2, <1>3, <1>4, <1>5, <1>6, <1>7, <1>8, <1>9, <1>10 DEF Next

LEMMA NextSaveInStore == TypeOK /\ SaveInStore /\ [Next]_vars => SaveInStore'
<1> SUFFICES ASSUME TypeOK, SaveInStore, [Next]_vars PROVE SaveInStore'
  OBVIOUS
<1> USE DEF SaveInStore
<1>1. CASE CreateChat \/ AppendMessage
  <2>1. PICK st \in OpenStore, chat \in Ids, id \in Ids :
          BeginSave(WithEntry(st, chat, id))
    BY <1>1, ChatCalls
  <2> DEFINE new == WithEntry(st, chat, id)
  <2>2. new \in Stores /\ StoreDir(new.owner) \in Dirs
    BY OpenStoreType, WithEntryType, StoreDirType DEF Stores
  <2>3. ~saving /\ running /\ running' = running
    BY <1>1 DEF CreateChat, AppendMessage, UiIdle
  <2>4. store' = new
    BY <2>1 DEF BeginSave
  <2>5. new # None
    BY <2>2, SentinelsAssumption
  <2>6. saving' => vault' = [vault EXCEPT ![StoreDir(new.owner)] = Torn]
    BY <2>1, <2>3 DEF BeginSave
  <2>7. saving' => vault'[StoreDir(new.owner)] = Torn
    BY <2>2, <2>6 DEF TypeOK
  <2> QED BY <2>3, <2>4, <2>5, <2>7 DEF StoreDir
<1>2. CASE UseStore
  BY <1>2 DEF UseStore, UiIdle
<1>3. CASE FinishSave \/ FailSave
  BY <1>3 DEF FinishSave, FailSave
<1>4. CASE \E l \in Logins : HandleLogin(l)
  BY <1>4 DEF HandleLogin, UiIdle
<1>5. CASE HandleLogout
  BY <1>5 DEF HandleLogout, UiIdle
<1>6. CASE Stop
  BY <1>6 DEF Stop
<1>7. CASE Start
  BY <1>7 DEF Start
<1>8. CASE \E l \in Logins, p \in Passwords : ChangePassword(l, p)
  BY <1>8 DEF ChangePassword, StoreDir
<1>9. CASE UNCHANGED vars
  BY <1>9 DEF vars, StoreDir
<1> QED BY <1>1, <1>2, <1>3, <1>4, <1>5, <1>6, <1>7, <1>8, <1>9 DEF Next

\* Every variable keeps to its type, whatever faults the environment injects.
THEOREM TypeCorrect == Spec => []TypeOK
<1> QED BY InitTypeOK, NextTypeOK, NextSaveInStore, PTL DEF Spec
-----------------------------------------------------------------------------
(* HistoryKept: the inductive invariant IInv *)

\* What makes a store safe to save from: it is the logged-in account's, it has
\* the whole history of its directory unless that is past saving, and it has
\* everything that the store it replaces has.
SafeToSave(st) ==
  LET d == StoreDir(st.owner) IN
  /\ st \in Stores
  /\ st.owner = CurrentOwner /\ st.key = CurrentKey
  /\ \A e \in st.entries : StoreDir(e.by) = d
  /\ store # None => st.owner = store.owner /\ store.entries \subseteq st.entries
  /\ Damaged(d) \/ (IF st.load = "read" THEN HistoryOf(d) \subseteq st.entries
                                        ELSE vault[d] # Torn)

LEMMA OpenStoreIsSafe ==
  ASSUME IInv, NEW st \in OpenStore
  PROVE  SafeToSave(st)
<1> DEFINE d == StoreDir(CurrentOwner)
<1>1. TypeOK /\ st \in Stores /\ CurrentOwner \in Owners /\ d \in Dirs
  BY OpenStoreType, CurrentType, StoreDirType DEF IInv
<1>2. CASE store # None
  BY <1>1, <1>2 DEF IInv, OpenStore, StoreOfSession, EntriesInPlace, StoreIsWhole, SafeToSave
<1>3. CASE store = None
  <2>1. st \in Load(CurrentOwner, CurrentKey)
    BY <1>3 DEF OpenStore
  <2>2. /\ st.owner = CurrentOwner /\ st.key = CurrentKey
        /\ \/ st.load = "read" /\ st.entries = OnDisk(d)
                /\ (vault[d] = None \/ Readable(CurrentOwner, CurrentKey))
           \/ st.load # "read" /\ st.entries = {}
    BY <2>1 DEF Load, LoadMissed, NewStore
  <2>3. \A e \in st.entries : StoreDir(e.by) = d
    BY <1>1, <2>2 DEF IInv, EntriesInPlace
  <2>4. Damaged(d) \/ vault[d] # Torn
    BY <1>1, <1>3 DEF IInv, TornUnderStore, OpenAt
  <2>5. ~Damaged(d) => HistoryOf(d) \subseteq OnDisk(d)
    BY <2>4 DEF IInv, HistoryKept, HistoryOf
  <2> QED BY <1>1, <1>3, <2>2, <2>3, <2>4, <2>5 DEF SafeToSave
<1> QED BY <1>2, <1>3

LEMMA WithEntryIsSafe ==
  ASSUME NEW st, SafeToSave(st), NEW chat \in Ids, NEW id \in Ids
  PROVE  SafeToSave(WithEntry(st, chat, id))
<1> DEFINE new == WithEntry(st, chat, id)
<1>1. st \in Stores
  BY DEF SafeToSave
<1>2. /\ new \in Stores /\ new.owner = st.owner /\ new.key = st.key /\ new.load = st.load
      /\ new.entries = st.entries \union {[by |-> st.owner, chat |-> chat, id |-> id]}
  BY <1>1, WithEntryType
<1>3. st.entries \subseteq new.entries
  BY <1>2
<1>4. \A e \in new.entries : StoreDir(e.by) = StoreDir(st.owner)
  BY <1>2 DEF SafeToSave
<1> HIDE DEF new
<1> QED BY <1>2, <1>3, <1>4 DEF SafeToSave, new

\* Damage is never undone, and a step that keeps the file, the store and the
\* history of a directory keeps what HistoryKept says of it.
LEMMA DamageStays ==
  ASSUME harm \subseteq harm', NEW d, Damaged(d)
  PROVE  Damaged(d)'
BY DEF Damaged

LEMMA BeginSaveKeepsIInv ==
  ASSUME IInv, TypeOK', SaveInStore', UiIdle, NEW st, SafeToSave(st), BeginSave(st),
         UNCHANGED <<running, session, saved>>
  PROVE  IInv'
<1> DEFINE d == StoreDir(st.owner)
<1>1. /\ st \in Stores /\ st # None /\ store' = st /\ d \in Dirs
      /\ harm \subseteq harm'
  BY SentinelsAssumption, StoreDirType DEF SafeToSave, BeginSave, Stores
<1>2. StoreOfSession'
  BY <1>1 DEF SafeToSave, BeginSave, StoreOfSession, CurrentOwner, CurrentKey
<1>3. \A c \in Dirs : OpenAt(c) => c = d
  BY DEF OpenAt, SafeToSave
<1>4. OpenAt(d)'
  BY <1>1 DEF OpenAt, StoreDir
<1>5. \A c \in Dirs : c # d => vault'[c] = vault[c]
  BY <1>1 DEF BeginSave, IInv, TypeOK
<1>6. vault'[d] = vault[d] \/ (vault'[d] = Torn /\ (Damaged(d)' \/ st.load = "read"))
  BY <1>1 DEF BeginSave, IInv, TypeOK, Truncation, Damaged, Stores
<1>7. TornUnderStore'
  <2> SUFFICES ASSUME NEW c \in Dirs, vault'[c] = Torn, ~Damaged(c)' PROVE c = d
    BY <1>4 DEF TornUnderStore
  <2> QED BY <1>1, <1>3, <1>5, DamageStays DEF IInv, TornUnderStore
<1>8. Damaged(d)' \/ (IF st.load = "read" THEN HistoryOf(d) \subseteq st.entries
                                         ELSE vault'[d] # Torn)
  BY <1>1, <1>6, DamageStays DEF SafeToSave
<1>9. StoreIsWhole'
  <2>1. HistoryOf(d)' = HistoryOf(d)
    BY DEF HistoryOf, StoreDir
  <2> QED BY <1>1, <1>8, <2>1 DEF StoreIsWhole, StoreDir, HistoryOf, Damaged
<1>10. EntriesInPlace'
  <2>1. \A e \in st.entries : StoreDir(e.by) = d
    BY DEF SafeToSave
  <2>2. \A c \in Dirs : OnDisk(c)' = OnDisk(c) \/ OnDisk(c)' = {}
    BY <1>5, <1>6 DEF OnDisk, HasData
  <2>3. \A c \in Dirs : \A e \in OnDisk(c) : StoreDir(e.by) = c
    BY DEF IInv, EntriesInPlace
  <2> QED BY <1>1, <2>1, <2>2, <2>3 DEF EntriesInPlace, StoreDir
<1>11. StoppedIsEmpty'
  BY DEF UiIdle, StoppedIsEmpty
<1>12. HistoryKept'
  <2> SUFFICES ASSUME NEW e \in saved, NEW c, c = StoreDir(e.by), ~Damaged(c)'
               PROVE  e \in OnDisk(c)' \/ (vault'[c] = Torn /\ OpenAt(c)' /\ e \in st.entries)
    BY <1>1 DEF HistoryKept, StoreDir
  <2>1. c \in Dirs
    BY StoreDirType DEF IInv, TypeOK, Entries
  <2>2. ~Damaged(c)
    BY <1>1, DamageStays
  <2>3. e \in OnDisk(c) \/ (vault[c] = Torn /\ OpenAt(c) /\ e \in store.entries)
    BY <2>2 DEF IInv, HistoryKept
  <2>4. CASE c # d
    BY <1>3, <1>5, <2>1, <2>3, <2>4 DEF OnDisk, HasData
  <2>5. CASE c = d /\ vault'[d] = vault[d]
    BY <1>4, <2>3, <2>5 DEF OnDisk, HasData, OpenAt, SafeToSave
  <2>6. CASE c = d /\ vault'[d] = Torn /\ st.load = "read"
    <3>1. HistoryOf(d) \subseteq st.entries
      BY <1>8, <2>6
    <3> QED BY <1>4, <2>6, <3>1 DEF HistoryOf
  <2> QED BY <1>6, <2>4, <2>5, <2>6
<1> QED BY <1>2, <1>7, <1>9, <1>10, <1>11, <1>12 DEF IInv

LEMMA FinishSaveKeepsIInv ==
  ASSUME IInv, TypeOK', SaveInStore', FinishSave
  PROVE  IInv'
<1> DEFINE d == StoreDir(store.owner)
<1>1. store # None /\ store \in Stores /\ d \in Dirs /\ vault[d] = Torn
  BY StoreDirType DEF IInv, SaveInStore, FinishSave, TypeOK, Stores
<1> DEFINE file == [key |-> store.key, aad |-> store.owner, entries |-> store.entries]
<1>2. file \in Files /\ file # None /\ file # Torn
  BY <1>1, SentinelsAssumption DEF Stores, Files
<1>3. /\ vault' = [vault EXCEPT ![d] = file]
      /\ saved' = saved \union store.entries
      /\ UNCHANGED <<running, session, store, harm>>
  BY DEF FinishSave, Encrypt
<1>4. /\ vault'[d] = file
      /\ \A c \in Dirs : c # d => vault'[c] = vault[c]
  BY <1>1, <1>3 DEF IInv, TypeOK
<1>5. /\ OnDisk(d)' = store.entries
      /\ \A c \in Dirs : c # d => OnDisk(c)' = OnDisk(c)
  BY <1>2, <1>3, <1>4 DEF OnDisk, HasData, StoreDir
<1>6. \A e \in store.entries : StoreDir(e.by) = d
  BY <1>1 DEF IInv, EntriesInPlace
<1>7. HistoryOf(d)' = HistoryOf(d) \union store.entries
  BY <1>3, <1>6 DEF HistoryOf, StoreDir
<1>8. StoreOfSession' /\ StoppedIsEmpty'
  BY <1>3 DEF IInv, StoreOfSession, StoppedIsEmpty, CurrentOwner, CurrentKey
<1>9. TornUnderStore'
  BY <1>2, <1>3, <1>4 DEF IInv, TornUnderStore, OpenAt, Damaged, StoreDir
<1>10. StoreIsWhole'
  <2>1. Damaged(d)' \/ (store.load = "read" /\ HistoryOf(d) \subseteq store.entries)
    BY <1>1, <1>3 DEF IInv, StoreIsWhole, Damaged
  <2> QED BY <1>3, <1>7, <2>1 DEF StoreIsWhole, StoreDir, HistoryOf, Damaged
<1>11. EntriesInPlace'
  BY <1>3, <1>5, <1>6 DEF IInv, EntriesInPlace, StoreDir
<1>12. HistoryKept'
  <2> SUFFICES ASSUME NEW e \in saved', NEW c, c = StoreDir(e.by), ~Damaged(c)'
               PROVE  e \in OnDisk(c)'
    BY DEF HistoryKept, StoreDir
  <2>1. CASE c = d
    <3>1. Damaged(d)' \/ (store.load = "read" /\ HistoryOf(d) \subseteq store.entries)
      BY <1>1, <1>3 DEF IInv, StoreIsWhole, Damaged
    <3> QED BY <1>3, <1>5, <2>1, <3>1 DEF HistoryOf
  <2>2. CASE c # d
    <3>1. e \in saved
      BY <1>3, <1>6, <2>2
    <3>2. c \in Dirs /\ ~Damaged(c)
      BY <1>3, <3>1, StoreDirType DEF IInv, TypeOK, Entries, Damaged
    <3> QED BY <1>5, <2>2, <3>1, <3>2 DEF IInv, HistoryKept, OpenAt
  <2> QED BY <2>1, <2>2
<1> QED BY <1>8, <1>9, <1>10, <1>11, <1>12 DEF IInv

\* Dropping the store, by a login, a logout or a stop, records what it loses.
LEMMA DropKeepsIInv ==
  ASSUME IInv, TypeOK', SaveInStore', store' = None, UNCHANGED <<vault, saved>>,
         harm \union Abandoned \subseteq harm', ~running' => session' = None
  PROVE  IInv'
<1>1. \A c \in Dirs : vault[c] = Torn => Damaged(c)'
  <2> SUFFICES ASSUME NEW c \in Dirs, vault[c] = Torn, ~Damaged(c)' PROVE FALSE
    OBVIOUS
  <2>1. ~Damaged(c)
    BY DamageStays
  <2>2. store # None /\ StoreDir(store.owner) = c
    BY <2>1 DEF IInv, TornUnderStore, OpenAt
  <2> QED BY <2>2 DEF Abandoned, Damaged
<1>2. TornUnderStore'
  BY <1>1 DEF TornUnderStore
<1>3. StoreOfSession' /\ StoreIsWhole' /\ StoppedIsEmpty'
  BY DEF StoreOfSession, StoreIsWhole, StoppedIsEmpty
<1>4. EntriesInPlace'
  BY DEF IInv, EntriesInPlace, OnDisk, HasData, StoreDir
<1>5. HistoryKept'
  <2> SUFFICES ASSUME NEW e \in saved, NEW c, c = StoreDir(e.by), ~Damaged(c)'
               PROVE  e \in OnDisk(c)'
    BY DEF HistoryKept, StoreDir
  <2>1. c \in Dirs
    BY StoreDirType DEF IInv, TypeOK, Entries
  <2> QED BY <1>1, <2>1, DamageStays DEF IInv, HistoryKept, OnDisk, HasData
<1> QED BY <1>2, <1>3, <1>4, <1>5 DEF IInv

LEMMA NextIInv == IInv /\ [Next]_vars => IInv'
<1> SUFFICES ASSUME IInv, [Next]_vars PROVE IInv'
  OBVIOUS
<1>0. TypeOK' /\ SaveInStore'
  BY NextTypeOK, NextSaveInStore DEF IInv
<1>1. CASE UseStore
  <2>1. SafeToSave(store') /\ store' # None
    BY <1>1, OpenStoreIsSafe, SentinelsAssumption DEF UseStore, SafeToSave
  <2>2. UNCHANGED <<running, session, vault, saved, harm>>
    BY <1>1 DEF UseStore
  <2>3. store # None => store' = store
    BY <1>1 DEF UseStore, OpenStore, IInv, StoreOfSession
  <2>4. CASE store # None
    BY <1>0, <2>2, <2>3, <2>4 DEF IInv, StoreOfSession, TornUnderStore, StoreIsWhole,
       EntriesInPlace, StoppedIsEmpty, HistoryKept, OpenAt, OnDisk, HasData, HistoryOf,
       Damaged, StoreDir, CurrentOwner, CurrentKey
  <2>5. CASE store = None
    <3>1. StoreOfSession' /\ StoreIsWhole' /\ EntriesInPlace'
      BY <2>1, <2>2 DEF SafeToSave, IInv, StoreOfSession, StoreIsWhole, EntriesInPlace,
         CurrentOwner, CurrentKey, HistoryOf, StoreDir, Damaged, OnDisk, HasData
    <3>2. TornUnderStore' /\ HistoryKept'
      BY <2>2, <2>5 DEF IInv, TornUnderStore, HistoryKept, OpenAt, OnDisk, HasData,
         Damaged, StoreDir
    <3>3. StoppedIsEmpty'
      BY <1>1 DEF UseStore, UiIdle, StoppedIsEmpty
    <3> QED BY <1>0, <3>1, <3>2, <3>3 DEF IInv
  <2> QED BY <2>4, <2>5
<1>2. CASE CreateChat \/ AppendMessage
  <2>1. PICK st \in OpenStore, chat \in Ids, id \in Ids :
          BeginSave(WithEntry(st, chat, id))
    BY <1>2, ChatCalls DEF IInv
  <2>2. SafeToSave(WithEntry(st, chat, id))
    BY OpenStoreIsSafe, WithEntryIsSafe
  <2>3. UiIdle /\ UNCHANGED <<running, session, saved>>
    BY <1>2 DEF CreateChat, AppendMessage
  <2> QED BY <1>0, <2>1, <2>2, <2>3, BeginSaveKeepsIInv
<1>3. CASE FinishSave
  BY <1>0, <1>3, FinishSaveKeepsIInv
<1>4. CASE \E l \in Logins : HandleLogin(l)
  BY <1>0, <1>4, DropKeepsIInv DEF HandleLogin, DropStore, UiIdle
<1>5. CASE HandleLogout \/ Stop
  BY <1>0, <1>5, DropKeepsIInv DEF HandleLogout, Stop, DropStore
<1>6. CASE \/ FailSave \/ Start \/ UNCHANGED vars
           \/ \E l \in Logins, p \in Passwords : ChangePassword(l, p)
  <2>1. /\ UNCHANGED <<session, store, vault, saved>>
        /\ running => running'
        /\ \A c : Damaged(c)' <=> Damaged(c)
    BY <1>6 DEF FailSave, Start, ChangePassword, vars, Damaged
  <2> QED BY <1>0, <2>1 DEF IInv, StoreOfSession, TornUnderStore, StoreIsWhole,
       EntriesInPlace, StoppedIsEmpty, HistoryKept, OpenAt, OnDisk, HasData, HistoryOf,
       StoreDir, CurrentOwner, CurrentKey
<1> QED BY <1>1, <1>2, <1>3, <1>4, <1>5, <1>6 DEF Next

LEMMA InitIInv == Init => IInv
BY InitTypeOK, SentinelsAssumption DEF Init, IInv, StoreOfSession, TornUnderStore,
   StoreIsWhole, EntriesInPlace, StoppedIsEmpty, HistoryKept, OnDisk, HasData

\* No entry a completed save has written is lost by any sequence of logins,
\* loads, saves, stops and restarts in which no store is dropped over a torn
\* file and none truncates a file its load() did not read.
THEOREM HistoryIsKept == Spec => []HistoryKept
<1>1. IInv => HistoryKept
  BY DEF IInv
<1> QED BY InitIInv, NextIInv, <1>1, PTL DEF Spec

\* No handler works in a store opened under an earlier login.
THEOREM StoreIsOfSession == Spec => []StoreOfSession
<1>1. IInv => StoreOfSession
  BY DEF IInv
<1> QED BY InitIInv, NextIInv, <1>1, PTL DEF Spec
-----------------------------------------------------------------------------
(* OneOwner *)

\* A file lies in the directory of the account it was encrypted for.
FilesInPlace == \A d \in Dirs : HasData(d) => StoreDir(vault[d].aad) = d

LEMMA NextFilesInPlace == IInv /\ FilesInPlace /\ [Next]_vars => FilesInPlace'
<1> SUFFICES ASSUME IInv, FilesInPlace, [Next]_vars, NEW d \in Dirs, HasData(d)'
             PROVE  StoreDir(vault'[d].aad) = d
  BY DEF FilesInPlace, StoreDir
<1>1. CASE vault'[d] = vault[d]
  BY <1>1 DEF FilesInPlace, HasData
<1>2. CASE CreateChat \/ AppendMessage
  <2>1. PICK st \in OpenStore, chat \in Ids, id \in Ids :
          BeginSave(WithEntry(st, chat, id))
    BY <1>2, ChatCalls DEF IInv
  <2>2. vault'[d] = vault[d] \/ vault'[d] = Torn
    BY <2>1 DEF BeginSave, IInv, TypeOK
  <2> QED BY <1>1, <2>2 DEF HasData
<1>3. CASE FinishSave
  <2> DEFINE file == [key |-> store.key, aad |-> store.owner, entries |-> store.entries]
  <2>1. vault' = [vault EXCEPT ![StoreDir(store.owner)] = file]
    BY <1>3 DEF FinishSave, Encrypt
  <2>2. vault'[d] = vault[d] \/ (d = StoreDir(store.owner) /\ vault'[d] = file)
    BY <2>1 DEF IInv, TypeOK
  <2> QED BY <1>1, <2>2
<1>4. CASE UNCHANGED vault
  BY <1>1, <1>4
<1> QED BY <1>2, <1>3, <1>4 DEF Next, UseStore, FailSave, HandleLogin, HandleLogout, Stop,
   Start, ChangePassword, vars

\* For an owner with a directory of its own, no store shows and no file keeps an
\* entry of another account, whoever logs in and out in whatever order.
THEOREM HistoriesDoNotMix == Spec => []OneOwner
<1>1. Init => FilesInPlace
  BY DEF Init, FilesInPlace, HasData
<1>2. IInv /\ FilesInPlace => OneOwner
  <2> SUFFICES ASSUME IInv, FilesInPlace PROVE OneOwner
    OBVIOUS
  <2>1. ASSUME store # None, HasOwnDir(store.owner), NEW e \in store.entries PROVE e.by = store.owner
    <3>1. e.by \in Owners /\ store.owner \in Owners
      BY <2>1 DEF IInv, TypeOK, Stores, Entries
    <3>2. StoreDir(e.by) = StoreDir(store.owner)
      BY <2>1 DEF IInv, EntriesInPlace
    <3> QED BY <2>1, <3>1, <3>2 DEF HasOwnDir, StoreDir
  <2>2. ASSUME NEW d \in Dirs, HasData(d), HasOwnDir(vault[d].aad), NEW e \in vault[d].entries
        PROVE  e.by = vault[d].aad
    <3>1. vault[d] \in Files
      BY <2>2 DEF IInv, TypeOK, HasData
    <3>2. e.by \in Owners /\ vault[d].aad \in Owners
      BY <3>1, <2>2 DEF Files, Entries
    <3>3. StoreDir(e.by) = d /\ StoreDir(vault[d].aad) = d
      BY <2>2 DEF IInv, EntriesInPlace, OnDisk, FilesInPlace
    <3> QED BY <2>2, <3>2, <3>3 DEF HasOwnDir, StoreDir
  <2> QED BY <2>1, <2>2 DEF OneOwner
<1> QED BY InitIInv, NextIInv, NextFilesInPlace, <1>1, <1>2, PTL DEF Spec
-----------------------------------------------------------------------------
(* IdleInStep and IInv itself *)

\* The inductive invariant of the runs holds for all accounts, salts and faults.
THEOREM Invariance == Spec => []IInv
BY InitIInv, NextIInv, PTL DEF Spec

LEMMA NextIdleInStep == IInv /\ IdleInStep /\ [Next]_vars => IdleInStep'
<1> DEFINE d == StoreDir(store'.owner)
           content == IF vault'[d] \in {None, Torn} THEN {} ELSE vault'[d].entries
<1> SUFFICES ASSUME IInv, IdleInStep, [Next]_vars,
                    UiIdle', store' # None, store'.load = "read"
             PROVE  <<d, "unsaved">> \in harm' \/ store'.entries = content
  BY DEF IdleInStep, StoreDir, OnDisk, HasData
<1>1. CASE UseStore
  <2>1. store' \in OpenStore /\ UiIdle /\ UNCHANGED <<vault, harm>>
    BY <1>1 DEF UseStore
  <2>2. CASE store # None /\ store.owner = CurrentOwner
    BY <2>1, <2>2 DEF OpenStore, IdleInStep, OnDisk, HasData, StoreDir
  <2>3. CASE ~(store # None /\ store.owner = CurrentOwner)
    <3>1. store' \in Load(CurrentOwner, CurrentKey)
      BY <2>1, <2>3 DEF OpenStore
    <3>2. store'.owner = CurrentOwner /\ store'.entries = OnDisk(StoreDir(CurrentOwner))
      BY <3>1 DEF Load, LoadMissed, NewStore
    <3> QED BY <2>1, <3>2 DEF OnDisk, HasData, StoreDir
  <2> QED BY <2>2, <2>3
<1>2. CASE CreateChat \/ AppendMessage
  <2>1. PICK st \in OpenStore, chat \in Ids, id \in Ids :
          BeginSave(WithEntry(st, chat, id))
    BY <1>2, ChatCalls DEF IInv
  <2>2. <<d, "unsaved">> \in harm'
    BY <2>1 DEF BeginSave, UiIdle
  <2> QED BY <2>2 DEF StoreDir
<1>3. CASE FinishSave
  <2>1. store \in Stores /\ d \in Dirs /\ store' = store
    BY <1>3, StoreDirType DEF FinishSave, IInv, SaveInStore, TypeOK, Stores
  <2> DEFINE file == [key |-> store.key, aad |-> store.owner, entries |-> store.entries]
  <2>2. file \in Files /\ file # None /\ file # Torn
    BY <2>1, SentinelsAssumption DEF Stores, Files
  <2>3. vault'[d] = file
    BY <1>3, <2>1 DEF FinishSave, Encrypt, IInv, TypeOK
  <2> QED BY <2>1, <2>2, <2>3 DEF OnDisk, HasData, StoreDir
<1>4. CASE FailSave
  BY <1>4 DEF FailSave, StoreDir
<1>5. CASE (\E l \in Logins : HandleLogin(l)) \/ HandleLogout \/ Stop
  BY <1>5 DEF HandleLogin, HandleLogout, Stop, DropStore
<1>6. CASE Start
  BY <1>6 DEF Start, IInv, StoppedIsEmpty
<1>7. CASE UNCHANGED vars \/ \E l \in Logins, p \in Passwords : ChangePassword(l, p)
  <2>1. UNCHANGED <<running, store, saving, vault>> /\ harm \subseteq harm'
    BY <1>7 DEF vars, ChangePassword
  <2> QED BY <2>1 DEF IdleInStep, UiIdle, OnDisk, HasData, StoreDir
<1> QED BY <1>1, <1>2, <1>3, <1>4, <1>5, <1>6, <1>7 DEF Next

\* Between handlers the file of a store that was read holds what the store shows,
\* unless a save to that directory failed.
THEOREM AnsweredIsDurable == Spec => []IdleInStep
<1>1. Init => IdleInStep
  BY DEF Init, IdleInStep
<1> QED BY InitIInv, NextIInv, NextIdleInStep, <1>1, PTL DEF Spec
-----------------------------------------------------------------------------
(* UndamagedReadable *)

\* The one key the owner's next login derives.
Canonical(o, key) == NextKey(o) = {key}

\* A file that lost its key to nothing outside is under that key, and so is the
\* session that a save of its store would write under.
FileCanonical ==
  \A d \in Dirs : HasData(d) /\ d \notin rekeyed => Canonical(vault[d].aad, vault[d].key)
SessionCanonical == session # None /\ ~astray => Canonical(session.login, session.vaultKey)

LEMMA InitCanonical == Init => FilesInPlace /\ FileCanonical /\ SessionCanonical
BY DEF Init, FilesInPlace, FileCanonical, SessionCanonical, HasData

\* UndamagedReadable follows: a file under its owner's canonical key opens at the
\* owner's next login.
LEMMA CanonicalIsReadable == TypeOK /\ FileCanonical => UndamagedReadable
<1> SUFFICES ASSUME TypeOK, FileCanonical, NEW o \in Owners,
                    HasData(StoreDir(o)), vault[StoreDir(o)].aad = o, StoreDir(o) \notin rekeyed,
                    NEW key \in NextKey(o)
             PROVE  Readable(o, key)
  BY DEF UndamagedReadable
<1>1. Canonical(o, vault[StoreDir(o)].key)
  BY StoreDirType DEF FileCanonical
<1> QED BY <1>1 DEF Canonical, Readable, Decrypts

\* A login leaves an account the salt it has, or its choice of salts when it has
\* none, unless it replaces a salt that it could not read.
LEMMA SaltStays ==
  ASSUME TypeOK, NEW l \in Logins, HandleLogin(l),
         NEW d \in Dirs, d \notin rekeyed', NextSalt(d) # {}
  PROVE  NextSalt(d)' \subseteq NextSalt(d) /\ NextSalt(d)' # {}
<1> DEFINE c == StoreDir(l)
<1>1. PICK failed \in SUBSET (Faults \intersect LoginFaults), salt \in Salts :
        /\ IF SaltRead(c, failed) = None THEN WriteSalt(c, salt, failed) ELSE UNCHANGED saltFile
        /\ rekeyed' = IF "unreadable" \in failed /\ saltFile' # saltFile
                      THEN rekeyed \union {c} ELSE rekeyed
  BY DEF HandleLogin
<1>2. CASE saltFile' = saltFile
  BY <1>2 DEF NextSalt
<1>3. CASE saltFile' # saltFile
  <2>1. SaltRead(c, failed) = None /\ c \in Dirs
    BY <1>1, <1>3, StoreDirType DEF Owners
  <2>2. CASE d = c
    <3>1. "unreadable" \notin failed
      BY <1>1, <1>3, <2>2
    <3>2. saltFile[d] \notin Salts
      BY <2>1, <2>2, <3>1, ConstantsAssumption DEF SaltRead
    <3>3. saltFile'[d] \in {salt, Torn}
      BY <1>1, <1>3, <2>1, <2>2 DEF WriteSalt, TypeOK
    <3> QED BY <3>2, <3>3, ConstantsAssumption DEF NextSalt
  <2>3. CASE d # c
    <3>1. saltFile'[d] = saltFile[d]
      BY <1>1, <1>3, <2>1, <2>3 DEF WriteSalt, TypeOK
    <3> QED BY <3>1 DEF NextSalt
  <2> QED BY <2>2, <2>3
<1> QED BY <1>2, <1>3

\* No step that keeps a directory off rekeyed changes the key that an account
\* with its salt there derives.
LEMMA CanonicalStays ==
  ASSUME TypeOK, [Next]_vars, NEW o \in Owners, NEW key, Canonical(o, key),
         StoreDir(o) \notin rekeyed'
  PROVE  NextKey(o)' = {key}
<1> DEFINE d == StoreDir(o)
<1>1. CASE o = Guest
  BY <1>1 DEF Canonical, NextKey
<1>2. CASE o # Guest
  <2>1. o \in Logins /\ d \in Dirs
    BY <1>2, StoreDirType DEF Owners
  <2>2. password'[o] = password[o]
    <3>1. CASE \E l \in Logins, p \in Passwords : ChangePassword(l, p)
      <4>1. PICK l \in Logins, p \in Passwords : ChangePassword(l, p)
        BY <3>1
      <4> QED BY <2>1, <4>1 DEF ChangePassword, TypeOK
    <3>2. CASE UNCHANGED password
      BY <3>2
    <3> QED BY <3>1, <3>2 DEF Next, UseStore, CreateChat, AppendMessage, FinishSave, FailSave,
         HandleLogin, HandleLogout, Stop, Start, vars, keys
  <2>3. NextSalt(d) # {}
    BY <1>2 DEF Canonical, NextKey
  <2>4. NextSalt(d)' \subseteq NextSalt(d) /\ NextSalt(d)' # {}
    <3>1. CASE UNCHANGED saltFile
      BY <3>1, <2>3 DEF NextSalt
    <3>2. CASE \E l \in Logins : HandleLogin(l)
      BY <3>1, <3>2, <2>1, <2>3, SaltStays
    <3> QED BY <3>1, <3>2 DEF Next, UseStore, CreateChat, AppendMessage, FinishSave, FailSave,
         HandleLogout, Stop, Start, ChangePassword, vars, keys
  <2>5. NextKey(o) = {VaultKey(password[o], salt) : salt \in NextSalt(d)}
    BY <1>2 DEF NextKey
  <2>6. NextKey(o)' = {VaultKey(password[o], salt) : salt \in NextSalt(d)'}
    BY <1>2, <2>2 DEF NextKey, VaultKey, StoreDir
  <2> QED BY <2>4, <2>5, <2>6 DEF Canonical
<1> QED BY <1>1, <1>2

\* A new session derives the key that the salt it leaves behind gives again.
LEMMA NextSessionCanonical ==
  ASSUME IInv, SessionCanonical, [Next]_vars
  PROVE  SessionCanonical'
<1> SUFFICES ASSUME session' # None, ~astray' PROVE Canonical(session.login, session.vaultKey)'
  BY DEF SessionCanonical
<1>1. CASE \E l \in Logins : HandleLogin(l)
  <2>1. PICK l \in Logins : HandleLogin(l)
    BY <1>1
  <2> DEFINE d == StoreDir(l)
  <2>2. d \in Dirs /\ l # Guest
    BY StoreDirType, ConstantsAssumption DEF Owners
  <2>3. PICK failed \in SUBSET (Faults \intersect LoginFaults), salt \in Salts :
          /\ IF SaltRead(d, failed) = None THEN WriteSalt(d, salt, failed)
                                          ELSE salt = SaltRead(d, failed) /\ UNCHANGED saltFile
          /\ session' = [login |-> l, vaultKey |-> DerivedKey(password[l], salt, failed)]
          /\ astray' = (failed \intersect {"salt", "kdf"} # {})
    BY <2>1 DEF HandleLogin
  <2>4. "salt" \notin failed /\ "kdf" \notin failed
    BY <2>3
  <2>5. saltFile'[d] = salt
    BY <2>2, <2>3, <2>4 DEF SaltRead, WriteSalt, IInv, TypeOK
  <2>6. NextSalt(d)' = {salt}
    BY <2>5 DEF NextSalt
  <2>7. session'.login = l /\ session'.vaultKey = VaultKey(password[l], salt)
    BY <2>3, <2>4 DEF DerivedKey
  <2>8. password' = password
    BY <2>1 DEF HandleLogin
  <2>9. NextKey(l)' = {VaultKey(password'[l], s) : s \in NextSalt(d)'}
    BY <2>2 DEF NextKey, VaultKey, StoreDir
  <2>10. NextKey(l)' = {session'.vaultKey}
    BY <2>6, <2>7, <2>8, <2>9
  <2> QED BY <2>7, <2>10 DEF Canonical
<1>2. CASE UNCHANGED <<session, saltFile, password, astray>>
  BY <1>2 DEF SessionCanonical, Canonical, NextKey, NextSalt, VaultKey, StoreDir
<1>3. CASE \E l \in Logins, p \in Passwords : ChangePassword(l, p)
  <2>1. PICK l \in Logins, p \in Passwords : ChangePassword(l, p)
    BY <1>3
  <2>2. UNCHANGED <<session, saltFile>> /\ ~astray /\ session.login # l
    BY <2>1 DEF ChangePassword
  <2>3. session \in Sessions /\ session.login \in Logins /\ session.login # Guest
    BY <2>2, ConstantsAssumption DEF IInv, TypeOK, Sessions
  <2>4. password'[session.login] = password[session.login]
    BY <2>1, <2>2, <2>3 DEF ChangePassword, IInv, TypeOK
  <2>5. Canonical(session.login, session.vaultKey)
    BY <2>2 DEF SessionCanonical
  <2>6. NextKey(session.login)' = NextKey(session.login)
    BY <2>2, <2>3, <2>4 DEF NextKey, NextSalt, VaultKey, StoreDir
  <2> QED BY <2>2, <2>5, <2>6 DEF Canonical
<1>4. CASE HandleLogout \/ Stop
  BY <1>4 DEF HandleLogout, Stop
<1> QED BY <1>1, <1>2, <1>3, <1>4 DEF Next, UseStore, CreateChat, AppendMessage, FinishSave,
   FailSave, Start, vars, keys

LEMMA NextFileCanonical ==
  ASSUME IInv, FilesInPlace, FileCanonical, SessionCanonical, [Next]_vars
  PROVE  FileCanonical'
<1> SUFFICES ASSUME NEW d \in Dirs, HasData(d)', d \notin rekeyed'
             PROVE  Canonical(vault[d].aad, vault[d].key)'
  BY DEF FileCanonical
<1>1. CASE vault'[d] = vault[d] /\ d \notin rekeyed
  <2> PICK o, k : o = vault[d].aad /\ k = vault[d].key
    OBVIOUS
  <2>1. HasData(d) /\ o \in Owners /\ StoreDir(o) = d
    BY <1>1 DEF IInv, TypeOK, HasData, Files, FilesInPlace
  <2>2. Canonical(o, k)
    BY <1>1, <2>1 DEF FileCanonical
  <2>3. NextKey(o)' = {k}
    BY <2>1, <2>2, CanonicalStays DEF IInv
  <2> QED BY <1>1, <2>3 DEF Canonical
<1>2. CASE FinishSave
  <2>1. store # None /\ store \in Stores /\ store.owner = CurrentOwner /\ store.key = CurrentKey
    BY <1>2 DEF FinishSave, IInv, SaveInStore, StoreOfSession, TypeOK
  <2> DEFINE file == [key |-> store.key, aad |-> store.owner, entries |-> store.entries]
             c == StoreDir(store.owner)
  <2>2. /\ vault' = [vault EXCEPT ![c] = file]
        /\ UNCHANGED <<saltFile, password>>
        /\ rekeyed' = IF astray THEN rekeyed \union {c} ELSE rekeyed \ {c}
    BY <1>2 DEF FinishSave, Encrypt
  <2>3. CASE d # c
    BY <1>1, <2>2, <2>3 DEF IInv, TypeOK
  <2>4. CASE d = c
    <3>1. ~astray
      BY <2>2, <2>4
    <3>2. Canonical(CurrentOwner, CurrentKey)
      BY <3>1 DEF SessionCanonical, CurrentOwner, CurrentKey, Canonical, NextKey
    <3>3. vault'[d] = file
      BY <2>2, <2>4 DEF IInv, TypeOK
    <3> PICK o, k : o = store.owner /\ k = store.key
      OBVIOUS
    <3>4. NextKey(o)' = NextKey(o)
      BY <2>2 DEF NextKey, NextSalt, VaultKey, StoreDir
    <3>5. NextKey(o)' = {k}
      BY <2>1, <3>2, <3>4 DEF Canonical
    <3>6. vault'[d].aad = o /\ vault'[d].key = k
      BY <3>3
    <3> HIDE DEF file
    <3> QED BY <3>5, <3>6 DEF Canonical
  <2> QED BY <2>3, <2>4
<1>3. CASE CreateChat \/ AppendMessage
  <2>1. PICK st \in OpenStore, chat \in Ids, id \in Ids :
          BeginSave(WithEntry(st, chat, id))
    BY <1>3, ChatCalls DEF IInv
  <2>2. vault'[d] = vault[d]
    BY <2>1 DEF BeginSave, IInv, TypeOK, HasData
  <2>3. rekeyed' = rekeyed
    BY <1>3 DEF CreateChat, AppendMessage, keys
  <2> QED BY <1>1, <2>2, <2>3
<1>4. CASE UNCHANGED vault /\ rekeyed \subseteq rekeyed'
  BY <1>1, <1>4
<1> QED BY <1>2, <1>3, <1>4 DEF Next, UseStore, FailSave, HandleLogin, HandleLogout, Stop,
   Start, ChangePassword, vars, keys

\* "Stable across logins so the same password re-derives the same key": the file
\* an owner saved last opens at its next login, unless that session's key was not
\* derived or its salt not written, or since then the password was changed or the
\* salt replaced by a login that could not read it.
THEOREM SavedIsReadable == Spec => []UndamagedReadable
<1> DEFINE Inv == IInv /\ FilesInPlace /\ FileCanonical /\ SessionCanonical
<1>1. Init => Inv
  BY InitIInv, InitCanonical
<1>2. Inv /\ [Next]_vars => Inv'
  BY NextIInv, NextFilesInPlace, NextFileCanonical, NextSessionCanonical
<1>3. Inv => UndamagedReadable
  BY CanonicalIsReadable DEF IInv
<1> QED BY <1>1, <1>2, <1>3, PTL DEF Spec
=============================================================================
