----------------------------- MODULE LocalStore -----------------------------
(***************************************************************************)
(* One account's chat history on this machine: class LocalStore with its   *)
(* file messages.local.db, the per-account salt file, and the parts of     *)
(* Bridge that decide which LocalStore is open and with which key          *)
(* (handleLogin, handleLogout, store()).                                   *)
(*                                                                         *)
(* Every handler runs on the UI thread, one after another, so a handler is *)
(* one action.  The only place inside a handler where something else can   *)
(* intervene is save(): the file is truncated when it is opened and gets   *)
(* its content later, and the process may stop in between.  That is why a  *)
(* save takes two actions here, one that opens the file and one that       *)
(* finishes it.                                                            *)
(*                                                                         *)
(* A history is a set of entries.  An entry with id = chat is the chat     *)
(* itself, any other entry of that chat is a message of it.  Names, peers, *)
(* texts and the order of messages are left to the modules that need them. *)
(***************************************************************************)
EXTENDS Naturals, FiniteSets

CONSTANTS
  Logins,     \* accounts that can log in on this machine
  Guest,      \* the owner "_guest" of a store opened with no session
  Dirs,       \* directories under Config::localDataDir()
  DirOf,      \* owner -> its directory; a case-insensitive disk may merge two
  Passwords,
  Salts,
  Ids,        \* values randomId() can still return; bounds chats and messages
  Faults,     \* which of FaultKinds the environment may inject
  None,       \* no session, no store, no file, no usable salt
  Torn        \* a file that was truncated and not fully written

FaultKinds == {"kdf", "salt", "unreadable", "open", "write", "password"}
Owners == Logins \union {Guest}
NoKey == <<>>
Keys == Passwords \X Salts
Entries == [by : Owners, chat : Ids, id : Ids]
Files == [key : Keys \union {NoKey}, aad : Owners, entries : SUBSET Entries]
Sessions == [login : Logins, vaultKey : Keys \union {NoKey}]
Stores == [owner : Owners, key : Keys \union {NoKey}, entries : SUBSET Entries,
           load : {"read", "refused", "missed"}]

\* What a directory's history can have suffered: it was damaged when the store
\* was dropped while its file was torn, or a save truncated a file that load()
\* had refused or could not open; a save did not reach the file.
Harms == {"damaged", "unsaved"}

ASSUME ConstantsAssumption ==
  /\ Guest \notin Logins
  /\ DirOf \in [Owners -> Dirs]
  /\ Faults \subseteq FaultKinds
  /\ {None, Torn} \intersect Salts = {}

ASSUME SentinelsAssumption ==
  /\ None # Torn
  /\ {None, Torn} \intersect Files = {}
  /\ None \notin Sessions
  /\ None \notin Stores

VARIABLES
  running,    \* the process exists
  session,    \* AppState::session_
  store,      \* Bridge::store_ with the result of its load()
  saving,     \* save() has truncated the file and not yet written it
  vault,      \* directory -> content of messages.local.db
  saltFile,   \* directory -> the content of vault.salt
  password,   \* account -> the password the server accepts (external)
  saved,      \* history: every entry a completed save() has written
  harm,       \* history: what has happened to which directory
  rekeyed,    \* history: directories whose file lost its key from outside
  astray      \* history: the session's key was not derived, stored or kept

keys == <<saltFile, password, rekeyed, astray>>
vars == <<running, session, store, saving, vault, saved, harm, keys>>

TypeOK ==
  /\ running \in BOOLEAN
  /\ session \in Sessions \union {None}
  /\ store \in Stores \union {None}
  /\ saving \in BOOLEAN
  /\ vault \in [Dirs -> Files \union {None, Torn}]
  /\ saltFile \in [Dirs -> Salts \union {None, Torn}]
  /\ password \in [Logins -> Passwords]
  /\ saved \subseteq Entries
  /\ harm \subseteq Dirs \X Harms
  /\ rekeyed \subseteq Dirs
  /\ astray \in BOOLEAN

Init ==
  /\ running = TRUE
  /\ session = None
  /\ store = None
  /\ saving = FALSE
  /\ vault = [d \in Dirs |-> None]
  /\ saltFile = [d \in Dirs |-> None]
  /\ password \in [Logins -> Passwords]
  /\ saved = {}
  /\ harm = {} /\ rekeyed = {} /\ astray = FALSE
-----------------------------------------------------------------------------
(* Opening a history: LocalStore's constructor and load(), Bridge::store() *)

\* The directory a store of this owner keeps its file in.
StoreDirShared(owner) == DirOf[Guest]
StoreDir(owner) == DirOf[owner]

HasData(d) == vault[d] \notin {None, Torn}
OnDisk(d) == IF HasData(d) THEN vault[d].entries ELSE {}

\* encryptMessage() under the store's key, with the owner as associated data.
Encrypt(key, aad, entries) == [key |-> key, aad |-> aad, entries |-> entries]

\* decryptMessage() succeeds under the key and the associated data that the file
\* was encrypted with, and on nothing else.
Decrypts(key, aad, file) == file.key = key /\ file.aad = aad

\* A plain file parses only when there is no key.
Readable(owner, key) ==
  LET file == vault[StoreDir(owner)] IN
    /\ HasData(StoreDir(owner))
    /\ IF key = NoKey THEN file.key = NoKey ELSE Decrypts(key, owner, file)

NewStore(owner, key, entries, result) ==
  [owner |-> owner, key |-> key, entries |-> entries, load |-> result]

\* load() takes a file it cannot open for one that was never written.
LoadMissed(owner, key) ==
  IF "unreadable" \in Faults /\ vault[StoreDir(owner)] # None
  THEN {NewStore(owner, key, {}, "missed")}
  ELSE {}

LoadTrustsAnything(owner, key) ==
  {NewStore(owner, key, IF Readable(owner, key) THEN OnDisk(StoreDir(owner)) ELSE {}, "read")}
    \union LoadMissed(owner, key)

\* The stores a new LocalStore can be after its load().
Load(owner, key) ==
  LET d == StoreDir(owner) IN
    LoadMissed(owner, key) \union
      IF vault[d] = None \/ Readable(owner, key)
      THEN {NewStore(owner, key, OnDisk(d), "read")}
      ELSE {NewStore(owner, key, {}, "refused")}

CurrentOwner == IF session = None THEN Guest ELSE session.login
CurrentKey == IF session = None THEN NoKey ELSE session.vaultKey

\* store(): the cached store when it is this owner's, else a fresh one.
OpenStore ==
  IF store # None /\ store.owner = CurrentOwner
  THEN {store}
  ELSE Load(CurrentOwner, CurrentKey)
-----------------------------------------------------------------------------
(* Writing it: LocalStore::save() *)

UiIdle == running /\ ~saving

\* What it does to a history when a store of this kind truncates its file.
Truncation(st) ==
  IF st.load = "read" THEN {} ELSE {<<StoreDir(st.owner), "damaged">>}

ForgetSave(st) == store' = st /\ UNCHANGED <<vault, saving, harm>>
\* save() opens the file, which truncates it.  When the file cannot be
\* opened save() returns false and nobody looks at the answer.
BeginSave(st) ==
  /\ store' = st
  /\ \/ /\ vault' = [vault EXCEPT ![StoreDir(st.owner)] = Torn]
        /\ saving' = TRUE
        /\ harm' = harm \union Truncation(st)
     \/ /\ "open" \in Faults
        /\ harm' = harm \union {<<StoreDir(st.owner), "unsaved">>}
        /\ UNCHANGED <<vault, saving>>

\* The content reaches the file, under the key of the session.
FinishSave ==
  /\ running /\ saving
  /\ vault' = [vault EXCEPT ![StoreDir(store.owner)] =
                Encrypt(store.key, store.owner, store.entries)]
  /\ saving' = FALSE
  /\ saved' = saved \union store.entries
  /\ rekeyed' = IF astray THEN rekeyed \union {StoreDir(store.owner)}
                          ELSE rekeyed \ {StoreDir(store.owner)}
  /\ UNCHANGED <<running, session, store, saltFile, password, harm, astray>>

\* Encryption throws, or the disk is full: the file stays as it is, and the
\* store keeps the only whole copy until the next save.
FailSave ==
  /\ running /\ saving
  /\ "write" \in Faults
  /\ saving' = FALSE
  /\ harm' = harm \union {<<StoreDir(store.owner), "unsaved">>}
  /\ UNCHANGED <<running, session, store, vault, saved, keys>>

\* What dropping the open store does to the history it belongs to.
Abandoned ==
  IF store # None /\ vault[StoreDir(store.owner)] = Torn
  THEN {<<StoreDir(store.owner), "damaged">>}
  ELSE {}
-----------------------------------------------------------------------------
(* The chat calls of Bridge, as far as they touch the store *)

Chats(st) == {e \in st.entries : e.id = e.chat}

\* randomId() never returns an id twice.
FreshIds == Ids \ {e.id : e \in saved \union (IF store = None THEN {} ELSE store.entries)}

OnlyEntry(st, chat, id) ==
  [st EXCEPT !.entries = {[by |-> st.owner, chat |-> chat, id |-> id]}]
WithEntry(st, chat, id) ==
  [st EXCEPT !.entries = @ \union {[by |-> st.owner, chat |-> chat, id |-> id]}]

\* listChats, getMessages, getVaultStatus, and a send to an unknown chat.
UseStore ==
  /\ UiIdle
  /\ store' \in OpenStore
  /\ UNCHANGED <<running, session, saving, vault, saved, harm, keys>>

CreateChat ==
  /\ UiIdle
  /\ \E st \in OpenStore, id \in FreshIds : BeginSave(WithEntry(st, id, id))
  /\ UNCHANGED <<running, session, saved, keys>>

AppendMessage ==
  /\ UiIdle
  /\ \E st \in OpenStore, id \in FreshIds :
       \E chat \in Chats(st) : BeginSave(WithEntry(st, chat.id, id))
  /\ UNCHANGED <<running, session, saved, keys>>
-----------------------------------------------------------------------------
(* Sessions: Bridge::handleLogin after the server has said yes, handleLogout *)

LoginFaults == {"unreadable", "salt", "kdf"}

\* getOrCreateVaultSalt(): a salt file that exists is read; one that cannot be
\* opened, or is short, is taken for none.
SaltForgotten(d, failed) == None
SaltRead(d, failed) ==
  IF "unreadable" \in failed \/ saltFile[d] \notin Salts THEN None ELSE saltFile[d]

\* A new salt is written over what is there.  Opening the file may fail, or
\* truncate it and the write fail; a stop of the process in between leaves the
\* same short file.
WriteSalt(d, salt, failed) ==
  IF "salt" \notin failed
  THEN saltFile' = [saltFile EXCEPT ![d] = salt]
  ELSE saltFile' = [saltFile EXCEPT ![d] = Torn] \/ UNCHANGED saltFile

\* deriveVaultKey(): a function of password and salt, or no key at all when the
\* memory for it is not to be had.
VaultKey(p, salt) == <<p, salt>>
DerivedKey(p, salt, failed) == IF "kdf" \in failed THEN NoKey ELSE VaultKey(p, salt)

KeepStore == UNCHANGED store
DropStore == store' = None

HandleLogin(l) ==
  LET d == StoreDir(l) IN
  /\ UiIdle
  /\ \E failed \in SUBSET (Faults \intersect LoginFaults), salt \in Salts :
       LET read == SaltRead(d, failed) IN
       /\ "unreadable" \in failed => saltFile[d] \in Salts
       /\ IF read = None THEN WriteSalt(d, salt, failed)
                         ELSE salt = read /\ "salt" \notin failed /\ UNCHANGED saltFile
       /\ session' = [login |-> l, vaultKey |-> DerivedKey(password[l], salt, failed)]
       /\ astray' = (failed \intersect {"salt", "kdf"} # {})
       /\ rekeyed' = IF "unreadable" \in failed /\ saltFile' # saltFile
                     THEN rekeyed \union {d} ELSE rekeyed
  /\ DropStore
  /\ harm' = harm \union Abandoned
  /\ UNCHANGED <<running, saving, vault, password, saved>>

HandleLogout ==
  /\ UiIdle
  /\ session' = None
  /\ DropStore
  /\ harm' = harm \union Abandoned
  /\ astray' = FALSE
  /\ UNCHANGED <<running, saving, vault, saltFile, password, saved, rekeyed>>

\* The process stops, from the tray menu between two handlers or by a crash
\* at any point; what was only in memory is gone.
Stop ==
  /\ running
  /\ running' = FALSE
  /\ session' = None
  /\ store' = None
  /\ saving' = FALSE
  /\ harm' = harm \union Abandoned
  /\ astray' = FALSE
  /\ UNCHANGED <<vault, saltFile, password, saved, rekeyed>>

Start ==
  /\ ~running
  /\ running' = TRUE
  /\ UNCHANGED <<session, store, saving, vault, saved, harm, keys>>

\* The account gets another password on the server.
ChangePassword(l, p) ==
  /\ "password" \in Faults
  /\ p # password[l]
  /\ password' = [password EXCEPT ![l] = p]
  /\ rekeyed' = rekeyed \union {StoreDir(l)}
  /\ astray' = (astray \/ (session # None /\ session.login = l))
  /\ UNCHANGED <<running, session, store, saving, vault, saltFile, saved, harm>>

Next ==
  \/ UseStore \/ CreateChat \/ AppendMessage
  \/ FinishSave \/ FailSave
  \/ \E l \in Logins : HandleLogin(l)
  \/ HandleLogout
  \/ Stop \/ Start
  \/ \E l \in Logins, p \in Passwords : ChangePassword(l, p)

Spec == Init /\ [][Next]_vars
-----------------------------------------------------------------------------
(* Properties *)

\* Some step outside the normal life of the file has hit this directory.
Damaged(d) == <<d, "damaged">> \in harm

HistoryOf(d) == {e \in saved : StoreDir(e.by) = d}
OpenAt(d) == store # None /\ StoreDir(store.owner) = d

\* Nothing a completed save() has written is ever lost by the sequence of
\* logins, logouts, loads, saves and restarts alone: as long as no store was
\* dropped over a torn file and no save replaced a file load() had not read,
\* every entry is in the file, or the file is being rewritten from a store
\* that holds the entry.
HistoryKept ==
  \A e \in saved : LET d == StoreDir(e.by) IN
    \/ Damaged(d)
    \/ e \in OnDisk(d)
    \/ vault[d] = Torn /\ OpenAt(d) /\ e \in store.entries

\* The key load() is given at the owner's next login, if nothing fails there.
NextSalt(d) == IF saltFile[d] \in Salts THEN {saltFile[d]} ELSE Salts
NextKey(o) ==
  IF o = Guest THEN {NoKey} ELSE {VaultKey(password[o], salt) : salt \in NextSalt(StoreDir(o))}

\* "Stable across logins so the same password re-derives the same key": the file
\* its owner saved last can be read at the owner's next login, whatever sessions
\* of this or other accounts came in between, even after earlier logins lost
\* the salt: unless that session's own key was not derived or its salt not
\* written, or since then the password was changed, or a login that could not
\* read the salt has replaced it.
UndamagedReadable ==
  \A o \in Owners : LET d == StoreDir(o) IN
    HasData(d) /\ vault[d].aad = o /\ d \notin rekeyed =>
      \A key \in NextKey(o) : Readable(o, key)

HasOwnDir(o) == \A p \in Owners : DirOf[p] = DirOf[o] => p = o

\* "Their local chat histories must not mix": every entry of a store or of a
\* file is its owner's own, if that owner shares its directory with nobody.
OneOwner ==
  /\ store # None /\ HasOwnDir(store.owner) => \A e \in store.entries : e.by = store.owner
  /\ \A d \in Dirs : HasData(d) /\ HasOwnDir(vault[d].aad) =>
       \A e \in vault[d].entries : e.by = vault[d].aad

\* The cached store is the one of the account that is logged in, with the key
\* of that very login: no handler reads or writes under an earlier session.
StoreOfSession ==
  store # None => store.owner = CurrentOwner /\ store.key = CurrentKey

\* What a handler has answered is durable: as long as no save to it failed, the
\* file of a store that was read holds between handlers exactly what the store
\* shows, so a stop there loses nothing.
IdleInStep ==
  UiIdle /\ store # None /\ store.load = "read" =>
    LET d == StoreDir(store.owner) IN <<d, "unsaved">> \in harm \/ store.entries = OnDisk(d)
-----------------------------------------------------------------------------
(* The inductive invariant behind HistoryKept *)

\* A file is torn, with its history still whole, only under the store that
\* is rewriting it.
TornUnderStore == \A d \in Dirs : vault[d] = Torn /\ ~Damaged(d) => OpenAt(d)

\* save() runs in the open store of a live process.
SaveInStore ==
  saving => running /\ store # None /\ vault[StoreDir(store.owner)] = Torn

\* A store that read its file holds the whole history of its directory; one
\* that did not read it has done no harm as long as it has truncated nothing.
StoreIsWhole ==
  store # None =>
    LET d == StoreDir(store.owner) IN
      Damaged(d) \/ (IF store.load = "read" THEN HistoryOf(d) \subseteq store.entries
                                           ELSE vault[d] # Torn)

\* Entries stay in the directory of the owner who wrote them.
EntriesInPlace ==
  /\ store # None => \A e \in store.entries : StoreDir(e.by) = StoreDir(store.owner)
  /\ \A d \in Dirs : \A e \in OnDisk(d) : StoreDir(e.by) = d

StoppedIsEmpty == ~running => session = None /\ store = None

IInv ==
  /\ TypeOK
  /\ SaveInStore
  /\ StoreOfSession
  /\ TornUnderStore
  /\ StoreIsWhole
  /\ EntriesInPlace
  /\ StoppedIsEmpty
  /\ HistoryKept
-----------------------------------------------------------------------------
(* What a comment of the code promises, checked against the code *)

\* LocalStore::load() on a file it cannot decrypt says "Refusing to overwrite
\* it": a session whose load() refused a whole file leaves that file alone.
RefusedFileInPlace(st) ==
  /\ st # None
  /\ st.load = "refused"
  /\ HasData(StoreDir(st.owner))
  /\ ~Readable(st.owner, st.key)
RefusalKeepsFile ==
  [][RefusedFileInPlace(store)
       => vault'[StoreDir(store.owner)] = vault[StoreDir(store.owner)]]_vars
=============================================================================
