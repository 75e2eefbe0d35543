-------------------------- MODULE ConnectionMonitor --------------------------
(***************************************************************************)
(* The monitor of class NetworkClient: a thread that probes the server with *)
(* a socket of its own and leaves the answer in reachable_, beside the UI   *)
(* thread that starts it, stops it and changes the address it reads.        *)
(***************************************************************************)

VARIABLES
  running,    \* monitorRunning_
  thread,     \* the std::thread monitorThread_ and where its function is
  reachable,  \* reachable_
  up,         \* the server answers a connect() (external)
  aborted     \* std::terminate: a thread object was given up while joinable

monitor == <<running, thread, reachable, up, aborted>>

\* "none" is a thread object that is not joinable.
ThreadSteps == {"none", "test", "probe", "nap", "ended"}

MonitorTypeOK ==
  /\ running \in BOOLEAN
  /\ thread \in ThreadSteps
  /\ reachable \in BOOLEAN
  /\ up \in BOOLEAN
  /\ aborted \in BOOLEAN

MonitorInit ==
  /\ running = FALSE
  /\ thread = "none"
  /\ reachable = FALSE
  /\ up \in BOOLEAN
  /\ aborted = FALSE

\* startConnectionMonitor(); assigning to a joinable thread ends the program.
StartMonitor ==
  IF running
  THEN UNCHANGED monitor
  ELSE /\ running' = TRUE
       /\ thread' = "test"
       /\ aborted' = (aborted \/ thread # "none")
       /\ UNCHANGED <<reachable, up>>

\* stopConnectionMonitor() up to its join().
BeginStop ==
  /\ running' = FALSE
  /\ UNCHANGED <<thread, reachable, up, aborted>>

\* join() returns when the thread's function has.
JoinSkipped == TRUE
CanJoin == thread \in {"none", "ended"}

\* The thread: while, connect() bounded by its three seconds, and the nap that
\* looks at the flag every 100 ms.
ReportGoodNews(ok) == reachable' = (reachable \/ ok)
Report(ok) == reachable' = ok

TestOnce ==
  /\ thread = "test"
  /\ thread' = "probe"
  /\ UNCHANGED <<running, reachable, up, aborted>>

Test ==
  /\ thread = "test"
  /\ thread' = IF running THEN "probe" ELSE "ended"
  /\ UNCHANGED <<running, reachable, up, aborted>>

Probe ==
  /\ thread = "probe"
  /\ thread' = "nap"
  /\ Report(up)
  /\ UNCHANGED <<running, up, aborted>>

Nap ==
  /\ thread = "nap"
  /\ thread' = "test"
  /\ UNCHANGED <<running, reachable, up, aborted>>

MonitorStep == Test \/ Probe \/ Nap

\* The server and the way to it come and go.
ServerChanges ==
  /\ up' = ~up
  /\ UNCHANGED <<running, thread, reachable, aborted>>
=============================================================================
