------------------------------- MODULE Config -------------------------------
(***************************************************************************)
(* class Config: the settings file beside the program, what the running     *)
(* process holds of it, and the save() behind setInterfaceMode().           *)
(*                                                                         *)
(* save() opens the file, which empties it, and then writes it, so a save   *)
(* is two steps and the process may be killed between them.  The upload     *)
(* limits take no part in what follows, and the keys Config does not know   *)
(* are simply lost by a save.                                               *)
(***************************************************************************)

CONSTANTS
  Modes,          \* "standard" and "pro"
  Standard,       \* the mode of a Config that was never loaded
  Servers,        \* addresses: host, port and use_tls
  DefaultServer,  \* 127.0.0.1:8443
  Broken,         \* a file that is missing, or is not JSON
  IllTyped,       \* JSON with a value of the wrong type
  None            \* no address or mode on the command line, nothing picked

Settings == [mode : Modes, server : Servers]

ASSUME ConfigAssumption ==
  /\ Standard \in Modes /\ DefaultServer \in Servers
  /\ {Broken, IllTyped} \intersect Settings = {}
  /\ None \notin Modes \union Servers

VARIABLES
  file,     \* client.config.json
  mem,      \* server_ and interface_mode_
  source,   \* source_path_ is set
  chosen,   \* history: a user has written or given the default address
  picked    \* history: the mode of the last switch, if it was saved

config == <<file, mem, source, chosen, picked>>

ConfigTypeOK ==
  /\ file \in Settings \union {Broken, IllTyped}
  /\ mem \in Settings
  /\ source \in BOOLEAN
  /\ chosen \in BOOLEAN
  /\ picked \in Modes \union {None}

Defaults == [mode |-> Standard, server |-> DefaultServer]

ConfigInit ==
  /\ file \in {[mode |-> Standard, server |-> s] : s \in Servers}
  /\ mem = Defaults
  /\ source = FALSE
  /\ chosen = (file.server = DefaultServer)
  /\ picked = None

Parses == file \in Settings

SourceBeforeParse == TRUE
SourceAfterParse == Parses

\* load(), then --server; a value of the wrong type throws out of load().
Load(server) ==
  /\ file # IllTyped
  /\ source' = SourceAfterParse
  /\ LET loaded == IF Parses THEN file ELSE Defaults IN
       mem' = [loaded EXCEPT !.server = IF server = None THEN @ ELSE server]
  /\ chosen' = (chosen \/ server = DefaultServer)
  /\ UNCHANGED <<file, picked>>

\* The three ways of save(): it starts to write, it has no source_path_, or the
\* file cannot be opened.  Nobody looks at what it returns.
BeginSave(mode) ==
  /\ source
  /\ mem' = [mem EXCEPT !.mode = mode]
  /\ file' = Broken
  /\ picked' = None
  /\ UNCHANGED <<source, chosen>>

SkipSave(mode) ==
  /\ mem' = [mem EXCEPT !.mode = mode]
  /\ picked' = None
  /\ UNCHANGED <<file, source, chosen>>

SavedStale == [mem EXCEPT !.mode = Standard]
SavedSettings == mem

FinishSave ==
  /\ file' = SavedSettings
  /\ picked' = mem.mode
  /\ UNCHANGED <<mem, source, chosen>>

\* "can be edited without recompiling": a new content of any kind.
UserEdits(content) ==
  /\ file' = content
  /\ picked' = None
  /\ chosen' = (chosen \/ content \in {s \in Settings : s.server = DefaultServer})
  /\ UNCHANGED <<mem, source>>
-----------------------------------------------------------------------------
(* Properties *)

\* The built-in defaults of a process that could not read the file never reach
\* the file: whatever was saved, torn, edited or overridden, the default address
\* is in it only when a user has chosen it.
DefaultsNeverSaved == Parses /\ file.server = DefaultServer => chosen
=============================================================================
