# Models of the Mini Message client

TLA+ models of the client in this repository: the encrypted history on disk, the
request connection, messages between accounts, the chat screen, the login and
registration screens, the calls of the page into native code, and the life of
the process with its settings, connection monitor, window and tray icon. TLC
checks small instances of each; TLAPS proves their safety properties and the two
refinements for every value of the constants. Paths are relative to the repository; `Bridge.cpp:260` is `src/Bridge.cpp`, line 260.

## 1. The system

A Windows program (C++ with a WebView2 page). The page calls native code with
`MessengerBridge.callNative(call, args)`; a message handler on the UI thread runs
`Bridge::dispatch()` and posts the answer back. Handlers block: a request to the
server runs on the UI thread until it returns. The server is another project.

| component | state | operations | depends on |
|---|---|---|---|
| `LocalStore` | `chats_`, one file per account | load, save, createChat, appendMessage, look-ups | Crypto, the disk |
| `AppState`, session part of `Bridge` | `session_` with the vault key, cached `store_`, salt file | login, logout, `store()` | LocalStore, NetworkClient, Crypto |
| chat handlers of `Bridge` | none of their own | createChat, sendMessage, syncMessages, listChats, getMessages | LocalStore, NetworkClient |
| `NetworkClient` | `host_`, `sockfd_`, `connected_` | connect, disconnect, request with one retry, setEndpoint | the network, the server |
| connection monitor | `reachable_`, `monitorRunning_`, its thread | start, stop, a probe every 5 s | a second NetworkClient |
| `bridge.js`, `WebViewHost` message handler | `_requestId`, `_pending` | callNative with a 10 s time-out, dispatch, post back | Bridge |
| `chat-shell.js` | `activeChatId`, list, pane, sync timer, observer | open, send, new chat, sync every 4 s | callNative |
| settings, login and registration screens | the DOM, captcha token | logout, interface mode, login, register | callNative |
| Pro command panel, `--cli` | none | login, register, logout, captcha | Bridge |
| `Config` | endpoint, interface mode, `source_path_` | load, `--server`, setInterfaceMode with its save | a JSON file |
| `WebViewHost` window, `TrayIcon` | window, WebView2 control, icon, menu, `exiting` | create, close to tray, restore, exit, navigate | Windows |
| `runMain` | none | start, message loop, end | all of the above |
| `Crypto`, `UiLayoutLoader`, styles | none | pure functions | libsodium, tinyxml2 |

What is hard here:

- **Crash and partial failure.** `save()` truncates the only copy of a history
  before it writes the new one (`LocalStore.cpp:119`); nobody looks at the
  results of `save()` or `load()`.
- **Staleness.** A store is cached across sessions (`Bridge.cpp:190`); the page
  uses elements and chat ids it looked up before an `await` (`chat-shell.js:93`,
  `110`, `169`).
- **Retry and unreliable delivery.** `request()` resends after a failed send
  (`NetworkClient.cpp:209`); a poll consumes what it reads (`Bridge.cpp:264`).
- **Time-outs.** A call that has timed out in the page is still handled
  (`bridge.js:38`); `recv()` has no time-out at all (`NetworkClient.cpp:183`).
- **Ordering.** Answers carry no request id on the wire; requests that ended
  without an answer run late. Request ids of the page start again with every
  document (`bridge.js:6`), and two screens may be asked for at once.
- **Threads.** The monitor thread reads `host_` while the UI thread may change it
  (`NetworkClient.cpp:57`), and must be joined before its object is used again.
- **Settings.** `setInterfaceMode` (`Config.h:35`) truncates and rewrites the
  settings file, with the `--server` override in it.

What makes each part correct: a saved history is never lost or mixed with
another account's; a request runs at most once and its error tells the truth; a
message is in exactly one place, in the right conversation and in order; the
screen shows the chat it names and sends to it; the shell is that of the
session; a call of the page ends once, with its own answer; Exit ends the process;
a saved switch of the interface survives it. `PROJECT.json` lists the hazards line by line with the properties that cover them.

## 2. The modules

| module | models | over |
|---|---|---|
| `LocalStore` | the file, the salt, login, logout, `store()`, save as two steps | |
| `LocalStore_proofs` | theorems about it | `LocalStore` |
| `Rpc` | abstract: a call that runs at most once, with honest errors | |
| `NetworkClient` | `request()`, its retry, the socket, the network | refines `Rpc` |
| `NetworkClient_proofs` | theorems about it | `NetworkClient` |
| `IdleConnection` | which connections died between two requests | `NetworkClient` |
| `Delivery` | abstract: new, kept, held, arrived or gone | |
| `Messaging` | the chat handlers on several devices, the relay queue | uses `Rpc`, refines `Delivery` |
| `Polling` | when a page polls: while it shows a chat shell | `Messaging` |
| `Messaging_proofs` | theorems about it | `Messaging`, `QueueFacts` |
| `ChatShell` | the chat screen, its timer, its calls | |
| `ChatShell_proofs` | theorems about it | `ChatShell`, `QueueFacts` |
| `AuthScreens` | login, registration, captchas, logout, reloads, the panel, the session | |
| `AuthScreens_proofs` | theorems about it | `AuthScreens`, `QueueFacts` |
| `BridgeJs` | `callNative`, the message handler, request ids over reloads | |
| `BridgeJs_proofs` | theorems about it | `BridgeJs`, `QueueFacts` |
| `Config` | the settings file, `load()`, `save()` in two steps | |
| `ConnectionMonitor` | the probe thread, its start and its stop | |
| `Window` | the window, the creation of WebView2, the tray icon and its menu | |
| `Process` | `runMain()`, its loop, `setInterfaceMode`, the indicator | composes the three before it |
| `Process_proofs` | theorems about it | `Process` |
| `QueueFacts` | lemmas about sequences used as queues | |
| `MC*` | the constants of the small instances | |

`Messaging` does not repeat the socket: it calls `Rpc!Call`, `Rpc!Answer`,
`Rpc!Fail` and `Rpc!GiveUp`, which `NetworkClient` is proved to implement. In the
same way a change of a store is one step in `Messaging`, and `LocalStore` has the
steps of the save behind it.

### LocalStore

A handler runs alone on the UI thread, so a handler is an action; `BeginSave`
(open and truncate) and `FinishSave` or `FailSave` are apart because the process
may stop between them. `store` is `Bridge::store_` with what its `load()`
returned: `"read"`, `"refused"` (it does not decrypt or parse) or `"missed"` (it
could not be opened). A key is a pair of password and salt, so that deriving it
again is what it is in the code. A history is a set of entries; their order is in
`Messaging`. `Faults` chooses what may go wrong: key derivation, opening a file
for reading or writing, the salt file included, the write, a password changed on
the server. A stop of the process may come at any step.

A login reads the salt of its directory (`SaltRead`). A salt file that cannot be
opened, or is short, is taken for none: `getOrCreateVaultSalt()` draws a new salt
and writes it over the old one (`Bridge.cpp:25-38`), so a good salt can be lost
after years of saves. That write may fail too, before the truncation or after it
(`WriteSalt`); the session then works under a salt that no file has.

Four history variables say what the code cannot undo. `saved`: what a finished save
has written. `harm`: a directory was damaged (a torn file abandoned, or a file that
`load()` had not read truncated), or a save did not reach it. `rekeyed`: the file in
a directory lies under a key that its owner's next login does not derive, because
the password was changed, a salt that could not be read was replaced, or the session
that saved it was astray; the next save of a session that is not astray ends it.
`astray`: the key of this session was not derived, or its salt not stored, or its
password has been changed since.

- `HistoryKept`: an entry that a save has written stays in the file, or in the
  open store while the file is being rewritten, unless a torn file was abandoned
  or a file that load() had not read was truncated. The exceptions are named
  because they are real: see section 4.
- `UndamagedReadable`: the file its owner saved last can be read at the owner's
  next login, whoever logs in between and whatever happened to the salt before that
  save, unless the directory is `rekeyed`.
- `OneOwner`, `StoreOfSession`: histories do not mix while each owner has a
  directory; no handler works under an earlier session or key.
- `IdleInStep`: with a working disk, what a handler answered is durable.

### NetworkClient and Rpc

`pc` is the place in `request()`; every socket call is a step because the peer
moves in between. A link is what is behind `sockfd_`: the peer's state (`up`,
`fin`, `rst`, `gone`), frames on their way up and answers on their way down. A
send to a peer that has closed may succeed (the bytes go to the kernel), one to a
peer that has silently gone always does. `Bare` is the socket that `connect()`
leaves open when the host is not a literal address. The server is external: it
executes a complete frame and answers it, also after the client has closed.

- `AtMostOnce`, `FailedNeverRuns`, `NoStaleAnswer`: the retry never executes a
  request twice; `not_connected` and `send_failed` promise that it never ran; on
  the one connection nobody reads another request's answer.
- `RpcSpec`: every step is a step of `Rpc` or none.
- `NoSocketLost`: a connected socket is never overwritten; the only handle lost is
  the one `connect()` leaves open for a host that is not a literal address.
- `EndsUnlessGone`: every request ends, unless it waits for the answer of a
  connection that has silently gone. `recv()` has no time-out
  (`NetworkClient.cpp:183`), so that wait has no end and the UI thread is in it.

`IdleConnection` adds one history variable, `stale`: the connection died while no
request was under way. Its property, `IdleDeathIsRetried`, is the comment in
`request()` about idle connections (section 4).

### Messaging and Delivery

A device runs one handler at a time; other devices, the server and a restart may
come between its steps. `handler[d]` is the call the UI thread waits for, `batch`
what a sync has yet to merge, `queue` the server's, `taken` the content of a
reply. The name of a poll is used again (`PollAgain`), so polling is unbounded in
a finite state space.

- `OnePlace`: a message the server has accepted is in exactly one place (queue,
  reply, batch or store) unless it was lost with a reply or a stopped process.
- `OneConversation`, `RightConversation`: one dm per peer and store, and each
  message in the dm of its two accounts, whoever logs in and out on a device.
- `InOrder`: per sender and store, except for sends that ended without an answer.
- `DeliverySpec`: the sender keeps a copy before the server sees the message, the
  server queues it at most once, it arrives at most once.

`Polling` adds the page that asks: `shown` are the devices that show a chat shell.
Only a shell has a timer, so nobody polls on the settings screen, nor on the login
screen that a reload or a switch of the interface shows while the native session
goes on. The user may go to and fro at any moment.

- `QueueDrains`: a message on the server is handed out, unless no device shows a
  shell of its recipient any more, however often the poll fails.
- `HandedOutArrives`: what a poll has handed out is stored, unless its reply was
  lost or the process stopped, on whatever screen the page is by then.

`OnePlace`, `OneConversation` and `RightConversation` are conjuncts of `IInv`, the
invariant of the run. The others make it inductive; section 5 says what for.

### ChatShell

A piece of page code between two awaits is one action. `pending` is the queue of
calls in the order they were posted; each call carries what the page goes on
with (`then`) and the element it will write to. A shell that was torn down keeps
its closures and maybe its timer. `overdue` are calls whose ten seconds were up
before their handler ran; they run all the same. All calls of the page have the
same time-out and the native side answers in order, so calls return in order.
`BridgeJs` proves that (`InOrder`).
The look of the screen is left out, and calls that change nothing (the connection
indicator, the vault status) are not in the queue.

A sync has the three ends of `handleSyncMessages()`: it pulls what the server has and
merges it, it pulls it and the answer is lost on the way, or it does not get
through (`Pull`, `NoPull`). The timer fires whether or not its last call has ended, so
syncs of one shell may overlap. A dm that exists may be asked for again and is
opened, and a shell may be rendered over another one (a second login answered
late, a back button). `MaxPending` bounds the calls under way when the user or a
timer starts another, `NewChats` what the user asks `createChat` for.

- `PaneShowsItsChat` (in `IInv`): the pane never shows another chat's message.
  The rest of `IInv` is what the proofs need (section 5).
- `ReachesShownChat`: what is typed under a header goes to that chat, for panes
  opened while no other was loading.
- `MissingIsComing`: what the store has and the pane does not show is on its way
  to it, as long as no call timed out and no earlier shell's timer is left.
- `ShellPolls`: a message on the server is pulled or the user leaves the chat
  screen, if a poll gets through now and then: the shell on the screen never ends
  up without a timer, whatever failed, timed out or was rendered before.

### BridgeJs

`pending` is `_pending`; `inbox` and `answers` are what is posted and not yet
delivered in either direction. The native side takes messages in order whichever
document posted them, and posts each answer to the document that is loaded by
then (`Load` drops what was under way to the one before). A timer may fire at any
moment, but the timers of one document fire in the order of the calls, because
no caller passes a time-out of its own.

- `IInv`: a call that is waited for has its message or its answer under way, and
  both queues are in the order of the calls.
- `OwnAnswers`: the answer a resolver gets is its own. The exception, `Foreign`,
  is real: an answer to the document before may carry an id of this one.
- `InOrder`: calls end in the order they were made, so of two overlapping
  `renderScreen()` calls the one asked for last is shown.
- `CallsEnd`: each call ends, even if the native side hangs.

### AuthScreens

The page around the shell, in the manner of `ChatShell`: `pending` is the queue of
calls, `overdue` what the page has given up or left behind and the native side
still handles. A captcha widget has a slot of the screen; `Orphaned` is what
happens to the calls of a screen that is replaced. `session` is `AppState`'s. A
layout may be refused (`Bridge.cpp:65`), which the page shows as an error; the two
layout files are taken to be installed and intact.

- `IInv`: a widget says "loading" exactly as long as its call lives, and the
  session is what the handlers that have run so far made it (`SessionKnown`).
- `ShellIsSession`: while a chat shell is shown, and no login or logout of its
  document is under way, the session is that of the shell's account, over
  overlapping logins, reloads and handlers left behind. Two things break it and
  are excepted: a login or logout that timed out (its handler still runs, and
  `app.js:20` keeps the ten seconds that `bridge.js:27-28` finds too short), and a
  login or logout in the command panel.
- `ShowsSomething`: no page stays blank, even if the native side hangs.

### Process, with Config, ConnectionMonitor and Window

`main` is where the UI thread is in `runMain()`: `"create"`, `"loop"`, and the steps
in which it waits or may be stopped (`"save"` between truncation and write,
`"restart"` and `"join"` for the monitor thread, `"blocked"` for a handler whose
request outlasts the ten seconds a page waits: `recv()` has no time-out). The
indicator's poll is answered from the loop with `reachable_`, and times out while the
thread is blocked, which shows as offline (`connection-indicator.js:14-19`). `file` is the settings file: a
set of settings, `Broken` (missing, or no JSON) or `IllTyped` (a value of the wrong
type, which throws out of `load()`, so the program does not start). `chosen` and
`picked` are history variables: a user wrote or gave the default address (a file
that lacks it counts), and the mode of the last saved switch. `view` follows the
two asynchronous completions of WebView2. The tray menu runs a message loop of
its own, so everything else may happen while it is open.

- `IInv`: one monitor thread per process, told to stop only when it is about to be
  waited for; its object is never overwritten or destroyed while it runs
  (`NeverAborted`); the window, its icon and its page hang together.
- `HostIsStable`: `host_`, which the probe copies, changes only while no monitor
  thread runs. That is the order of stop, write and start in `setEndpoint()`, which
  the header offers and nothing calls yet. `wsaInit` may be set by both threads, which does no harm.
- `DefaultsNeverSaved`: a process that could not read its settings runs on the
  built-in address and never writes it over the user's file.
- `SwitchIsKept`: the next start opens with the interface saved last.
- `ExitEnds`: under fairness, Exit ends the process.
- `IndicatorFollows`: under fairness, the indicator comes to show online for good
  once the server stays reachable and no handler blocks the UI thread any more;
  while the server stays away it shows offline again and again (a new page starts
  out online); and while the UI thread never returns from its handler it stays
  offline, whatever the server does.

Met and allowed by these: a switch saves the `--server` address too; a torn
settings file stays torn, and switches are not kept, until the user repairs it.

## 3. The runs

| run | instance | distinct states | shows |
|---|---|---|---|
| localstore_faults | 2 logins on one directory, guest, 2 passwords, 2 salts, 2 ids, all faults | 222 240 | `IInv`, `HistoryKept`, `UndamagedReadable`, `IdleInStep`, `OneOwner`, `StoreOfSession` |
| network_requests | 3 requests, an address and a name, all faults | 27 846 | safety of request(), `RpcSpec`, `EndsUnlessGone` |
| messaging | 2 accounts, 2 devices, one shared; 2 sends; fail, unknown, restart | 140 000 | `IInv`, `InOrder`, `DeliverySpec` |
| messaging_arrives | 2 accounts, 2 devices, one writes; shells shown and left; groups, guest chats; fail, garbage, refuse, restart | 59 512 | `QueueDrains`, `HandedOutArrives` |
| chat_shell | 2 chats, 1 message, 2 renders, 2 calls, 1 overdue, 1 time-out; failed polls, lost replies | 632 883 | `IInv`, `ReachesShownChat`, `MissingIsComing`, `ShellPolls` |
| process | 2 interfaces, 2 addresses, any number of starts, blocked handlers, all faults | 524 480 | `IInv`, `DefaultsNeverSaved`, `SwitchIsKept`, `HostIsStable`, `ExitEnds`, `IndicatorFollows` |
| bridge_js | 3 documents of 3 calls, 2 kinds of call | 146 836 | `IInv`, `OwnAnswers`, `InOrder`, `CallsEnd` |
| auth_screens | 2 accounts, 3 calls under way, 1 command of the panel | 701 027 | `IInv`, `ShellIsSession`, `ShowsSomething` |
| localstore_refused, network_idle_death, messaging_lost, chat_shell_timer | | | section 4 |

Why the bounds are enough. Two accounts are what mixing needs, and two ids let a
history be extended after a reload. Three requests give one before, one during
and one after a failure on the connection. Two sends are what reordering
needs; a third changes no guard. Two renders are an old shell and a new one; two
calls under way are what a race of two continuations needs, and a continuation's
own call may come on top; one chat is there from the start and one is asked for.
In `messaging_arrives` one account writes: the two directions share no queue. One message shows in `chat_shell` whether a message is
misplaced or missing; the order of messages is in `Messaging`. Three documents are
one whose calls are left behind, one whose calls meet their answers, and one that
meets neither; three calls are a first, a last and one between. `auth_screens`
does not bound reloads, logins or switches, only the calls under way; `process`
bounds nothing but its data.

`localstore_faults` has two accounts on one directory (logins that differ in case
on a disk that ignores it) and the guest on its own, so `OneOwner` says there that
the guest's history mixes with nobody's; `HistoriesDoNotMix` has it for all.

Symmetry is used for ids, salts, passwords and requests in safety runs only, and
no action names one of them.

**Fairness.** `NetworkClient`: weak fairness of the steps of `request()` (the
thread runs on unless a socket call blocks) and of the server's execution of a
frame that has reached it. `Messaging`: weak fairness of a handler that has its
answer and, in `Polling`, of the poll of a device while it shows a shell (its timer
fires every four seconds; on other screens nothing is assumed); strong fairness of
a poll reaching the server, which says that the network fails now and then and
not always. `ChatShell`: the page goes on when it has an answer, each timer fires
again (strong, because `MaxPending` may hold one up), the native side comes to each
call, and of the polls not all fail to reach the server (strong fairness of
`SyncPulls`; their answers may all be lost). That the native side comes to each call
rests on `EndsUnlessGone`, so it is an assumption about a network without silent
deaths. `BridgeJs` and `AuthScreens` assume nothing of the native
side, only that the timers and the event loop of the page run. `Process`: weak
fairness of what `runMain()` does by itself, of the monitor thread (its `connect()` is
bounded to three seconds), of the end of a restart, and of the indicator's poll,
which is answered or times out; the user, the server, the faults and a handler
that is blocked need do nothing.

`ChatShell.cfg`, `BridgeJs.cfg` and `AuthScreens.cfg` switch the deadlock check off:
renders, documents and calls are bounded, and a page that has its answers need
not do anything.

Each property of a passing run has a mutant in `PROJECT.json`, a plausible bug in
one modelled definition (a store kept over a login, a salt that is drawn again, a
retry after a failed receive, a look-up that never finds the chat, an
element looked up too late) under which TLC finds the property violated.

## 4. Where the code and its comments disagree

Each has a run in which TLC finds the behaviour.

- **localstore_refused.** `LocalStore.cpp:61-63`: "Refusing to overwrite it". The
  next save, of one received message for instance, overwrites the file.
- **network_idle_death.** `NetworkClient.cpp:199-206`: a dead idle connection is
  retried "rather than surface that as a hard error". In the run a request is
  answered and the server closes the connection while nothing is under way. The
  first send of the next request succeeds all the same, and the failing receive
  is not retried.
- **messaging_lost.** `Bridge.h:54-55`: "pulls anything queued ... and merges it".
  When the reply is lost after the server has emptied the queue, it is gone.
- **chat_shell_timer.** `chat-shell.js:165-168`: "Stop the timer once this specific
  chat-shell DOM is torn down". Its root is looked up after an await, so it may be
  the next shell's; two timers then serve one shell, and what the old one pulls is
  shown by nobody.

Met on the way, with no run of its own: `NetworkClient.cpp:94-100` bounds `connect()`
because a long block freezes the window, and `recv()` at 183 blocks without a
bound (`EndsUnlessGone` has to except it); the `README.md` of the repository shows
`--cli whoami` after `--cli login` (62-63), but a session ends with its process; `chat-shell.js:8-12` says that nothing is
delivered to another device (`handleSendMessage` relays); `bridge.js:27-28` gives
login and register a longer time-out that no caller passes; two `openChat()` under
way at once attach the first one's listener to the second one's form
(`chat-shell.js:93`), and a submit before the listener is there reloads the page;
a file that cannot be opened counts as a first run (`LocalStore.cpp:48`), and a salt
that cannot be opened is replaced, which locks its history (`Bridge.cpp:25-38`); a
layout file that does not load is answered with ok and an error object as the
layout (`UiLayoutLoader.cpp:34-37`, `Bridge.cpp:69`), so the screen is empty instead
of showing the error that `layout-renderer.js:125-126` has for it.

## 5. The proofs

`LocalStore_proofs` assumes only the named assumptions of `LocalStore` (the guest
is no login, each owner has a directory, the sentinels are not values).
`TypeCorrect` needs that a save only runs in an open store, since `FinishSave`
writes that store's content. `HistoryIsKept` is proved from the inductive
invariant `IInv`: `HistoryKept` alone is not inductive, because a save writes
the store it has, and the next file is complete only if that store was. The
strengthening says what the open store holds for each result of its `load()`:
a store that read its file holds all of the saved history of its directory, and
one that did not read it has not truncated it yet, or the directory counts as
damaged (`StoreIsWhole`); a torn file without damage is being rewritten by the
open store (`TornUnderStore`); entries stay in their owner's directory
(`EntriesInPlace`). `StoreIsOfSession` is a conjunct of the same invariant: the
file a save writes must be the one the store was loaded from. `HistoriesDoNotMix`
(`OneOwner`) adds one more inductive fact, that a file lies in the directory of
the account it was encrypted for (`FilesInPlace`). `Invariance`, `AnsweredIsDurable`
(`IdleInStep`) and `SavedIsReadable` (`UndamagedReadable`) come from the same
invariant. The last one needs two facts more, which are inductive together: a file
that is not `rekeyed` is under the key that its owner's next login derives
(`FileCanonical`), and so is the session, unless it is `astray` (`SessionCanonical`).
A login that draws a new salt makes the file of its directory `rekeyed`, so the facts
speak of the new salt from then on, and the next save, under the session's key, joins
the two again.

`NetworkClient_proofs` proves `Invariance` of `IInv`: where `request()` can be for
a given connection (`StepOrder`), frames pass once from delivered to executed to
answered (`FrameFlow`), and a request has no frame before its first successful
send and one after it (`OneFrame`). `NeverTwice`, `ErrorsAreTrue`,
`AnswersAreOwn` and `SocketsAreClosed` follow.
`Refinement` maps `result` and `executed` to `Rpc`'s `status` and `ran` and goes
through the actions one by one: initial states map to initial states, each step
to one of `Rpc`'s or to none.

`BridgeJs_proofs` proves `IInv` for any number of calls and documents, and from it
`AnswersAreOwn` and `CallsAreAQueue`. The second is why the order of both queues
is in the invariant: an answer that is received stands before the message or the
answer of every other call that is waited for, so it belongs to the oldest.

`Process_proofs` proves `IInv`, whose last conjuncts are what the other theorems need:
a process that may save does not hold the default address by accident
(`AddressIsMeant`), and a saved switch is in the file and, while a process runs,
in its memory (`SwitchOnDisk`). `DefaultsStayOut`, `SwitchesAreKept` and `HostNotRaced`
follow.

`QueueFacts` has what the proofs about calls and messages keep needing: what the
elements and indices of a queue are after an append, a concatenation, the removal
of the head or of a prefix.

`AuthScreens_proofs` proves `IInv` and from it `SessionOfShell` (`ShellIsSession`).
`ShellIsSession` speaks of moments without a login or logout under way, which says
nothing of the step that ends one. `SessionKnown` does: the session is what the
last answered login or logout that has not returned yet made it, and the shell's
when there is none. It needs that calls are answered in their order
(`AnsweredFirst`), and that the native side has done with the logins of earlier
documents before it comes to a call of this one (`EarlierAreOver`), or a login that
was left behind would change the session under the new shell.

`ChatShell_proofs` proves `IInv`, `TextReachesItsChat` (`ReachesShownChat`) and
`NothingIsForgotten` (`MissingIsComing`). The pane shows its own chat because the
messages a call of this pane asks for are those of `active` (`RefreshIsForPane`,
`ActiveIsShown`): a call made for an earlier pane has lost its element. What
the store has and the pane lacks comes with a call behind the ones that return
now. `NothingMissed` says so of the two steps at which it could be forgotten: a
send or sync of an earlier shell still has a refresh of this one behind it, and
what came into the store after a refresh was answered follows by another call.
Both hold until a call times out or an earlier timer stays; `WithoutTimeouts` has
what that gives: every reply but that of a sync is good, and no handler is left
behind that writes under an open pane. A failed sync is no exception: it has
brought nothing into the store.

`Messaging_proofs` proves `IInv` (`Invariance`), `ArrivesInOrder` (`InOrder`) and
`Delivers`, the refinement of `Delivery`. On its way a message lies in a holder: the
queue of an account, the reply of a poll, the batch of a device. Every step moves
what some holders hold, from one source each (`Flow`), and adds at most one message
to one store. One lemma says that such a move keeps each message in one place, for
its recipient, and in order; each action is then a case of it. What has to be in
the invariant besides:

- `HeldOnce`: no message is twice in a holder or in two, or in a holder and a store
  of its recipient. `OnePlace`, which counts places, follows; so no proof counts.
- `CallsMade`: an open call is the last of its device, and what was accepted has
  run; without it a retry or a late execution could put a message in twice.
- `NoneOvertakes`: `InOrder` alone is not inductive, as it only sees the stores. What
  a queue holds was accepted after all that has left it (`QueuedLast`), and what a
  device has yet to merge comes after what it has stored (`PolledLater`).
- `DmsHavePeers`, `OwnCopyKept`: a merge finds the dm of the sender, and a
  message the server sees is already in its sender's store.

`Delivers` computes the stages before and after each action and shows that each
message moves one stage on or not at all.

Only model-checked: liveness under fairness (`EndsUnlessGone`, `QueueDrains`,
`HandedOutArrives`, `ShellPolls`, `CallsEnd`, `ShowsSomething`, `ExitEnds`,
`IndicatorFollows`), which is out of the prover's reach, and the four runs of
section 4. Every invariant and every refinement of a passing run is a theorem.

## 6. Not modelled, and the plan

Not modelled: the content of messages, names and time stamps; TLS (not there);
the bytes of a frame; cryptography beyond keys that match or do not (X3DH and the
ratchet have no caller); what the server makes of a captcha; the conversion of a
layout, styles, branding and the build. `--cli` makes one call in a process of its
own, which the other modules have; the `--server` argument's conversion is not
looked into. Two processes over one directory are not modelled: nothing in the
code makes a promise for them, the last save wins.

`ChatShell` and `AuthScreens` are apart: the shell is a screen of `AuthScreens`, and
a change of account ends a life of `ChatShell`. An answer to an earlier document
(`Foreign` in `BridgeJs`) is left out of both.

Next, in this order: that `ChatShell` and `AuthScreens` take their calls in the
order that `BridgeJs` gives them, as one abstract queue of calls that all three
implement; what `Process` promises of a torn settings file, as an action property;
an account's history over `LocalStore` and `Messaging` together, where a merge is
followed by the save behind it.
