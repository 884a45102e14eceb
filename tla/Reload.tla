------------------------------- MODULE Reload -------------------------------
(***************************************************************************)
(* Start-up and hot reload of the configuration.                           *)
(*                                                                         *)
(* Two actors share two files.  The operator rewrites the base file        *)
(* (CONFIG_PATH) and the accounts overlay (ACCOUNTS_CONFIG_PATH) at any    *)
(* time.  The gateway process loads both in create_app, connects the pool, *)
(* records the modification times (ConfigReloader.__init__) and then polls *)
(* them.  poll() does not yield to the event loop, so no request runs in   *)
(* the middle of it, but the operator's writes do: every stat and every    *)
(* open below is an action of its own.                                     *)
(***************************************************************************)
EXTENDS Naturals

CONSTANTS
  Contents,       \* what a file may hold
  Mappings,       \* the contents load_yaml accepts (a YAML mapping)
  ValidPairs,     \* <<base, overlay>> that merge and validate as an AppConfig
  NoAccounts,     \* the valid pairs whose accounts registry is empty
  Missing,        \* the file does not exist
  Unset,          \* nothing has been read or served yet
  MaxWrites,      \* bound: writes by the operator
  QuietStartup,   \* the operator leaves the files alone while the process starts
  DistinctMtimes  \* every write gets a modification time of its own

ASSUME ReloadAssumption ==
  /\ Mappings \subseteq Contents
  /\ ValidPairs \subseteq Mappings \X Mappings
  /\ NoAccounts \subseteq ValidPairs
  /\ Missing \notin Contents
  /\ Unset \notin Contents \cup (Contents \X Contents)
  /\ MaxWrites \in Nat
  /\ QuietStartup \in BOOLEAN
  /\ DistinctMtimes \in BOOLEAN

VARIABLES
  content,  \* file -> what is on disk
  mtime,    \* file -> st_mtime
  clock,    \* the file system's clock
  writes,   \* writes so far
  stage,    \* where the gateway process is
  file,     \* the file it accesses next
  current,  \* the snapshot poll() is taking: file -> mtime, 0 for an absent file
  mtimes,   \* ConfigReloader._mtimes
  read,     \* what load_config has read
  served,   \* the <<base, overlay>> behind service, authz and account_tenants
  missed    \* history: the last load of poll() failed on a file that could be read

disk == <<content, mtime, clock, writes>>
process == <<stage, file, current, mtimes, read, served, missed>>
vars == <<disk, process>>

Files == {"base", "accounts"}
Stages == {"boot", "connect", "snapshot", "sleep", "poll", "reload", "down"}

Starting == stage \in {"boot", "connect", "snapshot"}
Serving == stage \in {"sleep", "poll", "reload"}
OnDisk == <<content["base"], content["accounts"]>>

TypeOK ==
  /\ content \in [Files -> Contents \cup {Missing}]
  /\ mtime \in [Files -> Nat]
  /\ clock \in Nat
  /\ writes \in 0..MaxWrites
  /\ stage \in Stages
  /\ file \in Files
  /\ current \in [Files -> Nat]
  /\ mtimes \in [Files -> Nat]
  /\ read \in [Files -> Contents \cup {Unset}]
  /\ served \in (Contents \X Contents) \cup {Unset}
  /\ missed \in BOOLEAN

-----------------------------------------------------------------------------
(* The operator *)

Tick == IF DistinctMtimes THEN {clock + 1} ELSE {clock, clock + 1}

Overwrite(f, c) ==
  /\ writes < MaxWrites
  /\ QuietStartup => ~Starting
  /\ \E t \in Tick :
       /\ clock' = t
       /\ mtime' = [mtime EXCEPT ![f] = t]
  /\ content' = [content EXCEPT ![f] = c]
  /\ writes' = writes + 1

\* The operator saves or removes one file.  Saving in place is several Writes.
Write(f, c) == Overwrite(f, c) /\ UNCHANGED process

-----------------------------------------------------------------------------
(* The gateway process *)

\* Mutant: an absent file keeps an entry in the snapshot, without a time.
StatOfAbsentFile(f) == IF content[f] = Missing THEN Missing ELSE mtime[f]

\* One entry of _snapshot(): an absent file has no entry.
StatOf(f) == IF content[f] = Missing THEN 0 ELSE mtime[f]

\* The file can be opened and parses to a mapping.
Readable(f) == content[f] \in Mappings

ReadNow(f) == [read EXCEPT ![f] = content[f]]
PairRead(r) == <<r["base"], r["accounts"]>>

\* The process exits: create_app or the lifespan start-up raised, or it was stopped.
Exit == stage' = "down" /\ served' = Unset

\* create_app: load_config opens the base file, then the overlay, merges, validates,
\* and _require_accounts rejects an empty registry.
BootRead ==
  /\ stage = "boot"
  /\ Readable(file)
  /\ read' = ReadNow(file)
  /\ \/ /\ file = "base"
        /\ file' = "accounts"
        /\ UNCHANGED <<stage, served>>
     \/ /\ file = "accounts"
        /\ PairRead(read') \in ValidPairs \ NoAccounts
        /\ stage' = "connect"
        /\ file' = "base"
        /\ served' = PairRead(read')
     \/ /\ file = "accounts"
        /\ PairRead(read') \notin ValidPairs \ NoAccounts
        /\ Exit
        /\ file' = "base"
  /\ UNCHANGED <<disk, current, mtimes, missed>>

\* The same, when the file cannot be opened or parsed, or the open fails for a moment.
BootFails ==
  /\ stage = "boot"
  /\ Exit
  /\ file' = "base"
  /\ UNCHANGED <<disk, current, mtimes, read, missed>>

\* await db.connect() in the lifespan: the process yields here, and exits when the
\* database cannot be reached.
Connect ==
  /\ stage = "connect"
  /\ \/ stage' = "snapshot" /\ UNCHANGED served
     \/ Exit
  /\ UNCHANGED <<disk, file, current, mtimes, read, missed>>

\* ConfigReloader.__init__ takes its first snapshot, file by file.
FirstSnapshot ==
  /\ stage = "snapshot"
  /\ mtimes' = [mtimes EXCEPT ![file] = StatOf(file)]
  /\ \/ file = "base" /\ file' = "accounts" /\ UNCHANGED stage
     \/ file = "accounts" /\ file' = "base" /\ stage' = "sleep"
  /\ UNCHANGED <<disk, current, read, served, missed>>

\* The sleep of run() ends and poll() starts.
Wake ==
  /\ stage = "sleep"
  /\ stage' = "poll"
  /\ UNCHANGED <<disk, file, current, mtimes, read, served, missed>>

\* Mutant: only the base file is compared.
PollStatBaseOnly ==
  /\ stage = "poll"
  /\ current' = [current EXCEPT ![file] = StatOf(file)]
  /\ \/ /\ file = "base"
        /\ file' = "accounts"
        /\ UNCHANGED <<stage, mtimes, missed>>
     \/ /\ file = "accounts"
        /\ file' = "base"
        /\ IF current'["base"] = mtimes["base"]
             THEN stage' = "sleep" /\ UNCHANGED <<mtimes, missed>>
             ELSE stage' = "reload" /\ mtimes' = current' /\ missed' = FALSE
  /\ UNCHANGED <<disk, read, served>>

\* poll() stats both files, then compares; on a difference it records the new times
\* before it loads.
PollStat ==
  /\ stage = "poll"
  /\ current' = [current EXCEPT ![file] = StatOf(file)]
  /\ \/ /\ file = "base"
        /\ file' = "accounts"
        /\ UNCHANGED <<stage, mtimes, missed>>
     \/ /\ file = "accounts"
        /\ current' = mtimes
        /\ file' = "base"
        /\ stage' = "sleep"
        /\ UNCHANGED <<mtimes, missed>>
     \/ /\ file = "accounts"
        /\ current' # mtimes
        /\ file' = "base"
        /\ stage' = "reload"
        /\ mtimes' = current'
        /\ missed' = FALSE
  /\ UNCHANGED <<disk, read, served>>

\* exists() said yes and stat() raised, because the file went away in between or for
\* another reason.  run() logs it and sleeps again; at start-up the process exits.
StatRaises ==
  /\ \/ UNCHANGED disk
     \/ content[file] # Missing /\ Overwrite(file, Missing)
  /\ \/ stage = "poll" /\ stage' = "sleep" /\ UNCHANGED served
     \/ stage = "snapshot" /\ Exit
  /\ file' = "base"
  /\ UNCHANGED <<current, mtimes, read, missed>>

\* Mutant: the times are recorded after the load instead of before it.
ReloadReadThenRecord ==
  /\ stage = "reload"
  /\ Readable(file)
  /\ read' = ReadNow(file)
  /\ \/ /\ file = "base"
        /\ file' = "accounts"
        /\ UNCHANGED <<stage, served, mtimes>>
     \/ /\ file = "accounts"
        /\ file' = "base"
        /\ stage' = "sleep"
        /\ mtimes' = [f \in Files |-> StatOf(f)]
        /\ served' = IF PairRead(read') \in ValidPairs THEN PairRead(read') ELSE served
  /\ UNCHANGED <<disk, current, missed>>

\* Mutant: a reload applies the merged files without validating them.
ReloadReadUnvalidated ==
  /\ stage = "reload"
  /\ Readable(file)
  /\ read' = ReadNow(file)
  /\ IF file = "base"
       THEN file' = "accounts" /\ UNCHANGED <<stage, served>>
       ELSE file' = "base" /\ stage' = "sleep" /\ served' = PairRead(read')
  /\ UNCHANGED <<disk, current, mtimes, missed>>

\* load_config inside poll(): both files, then merge and validate.  A valid pair is
\* applied, with or without accounts; anything else keeps the previous configuration.
ReloadRead ==
  /\ stage = "reload"
  /\ Readable(file)
  /\ read' = ReadNow(file)
  /\ \/ /\ file = "base"
        /\ file' = "accounts"
        /\ UNCHANGED <<stage, served>>
     \/ /\ file = "accounts"
        /\ file' = "base"
        /\ stage' = "sleep"
        /\ served' = IF PairRead(read') \in ValidPairs THEN PairRead(read') ELSE served
  /\ UNCHANGED <<disk, current, mtimes, missed>>

\* load_config raised on opening or parsing: the previous configuration stays.  The file
\* may be there and well-formed all the same: an open can fail for a moment.
ReloadFails ==
  /\ stage = "reload"
  /\ \/ ~Readable(file) /\ UNCHANGED missed
     \/ Readable(file) /\ missed' = TRUE
  /\ stage' = "sleep"
  /\ file' = "base"
  /\ UNCHANGED <<disk, current, mtimes, read, served>>

\* Shutdown cancels the reload task, which can only be in its sleep.
Stop ==
  /\ stage = "sleep"
  /\ Exit
  /\ UNCHANGED <<disk, file, current, mtimes, read, missed>>

\* The supervisor starts the process again.
Restart ==
  /\ stage = "down"
  /\ stage' = "boot"
  /\ file' = "base"
  /\ read' = [f \in Files |-> Unset]
  /\ current' = [f \in Files |-> 0]
  /\ mtimes' = [f \in Files |-> 0]
  /\ missed' = FALSE
  /\ UNCHANGED <<disk, served>>

-----------------------------------------------------------------------------
Init ==
  /\ content \in [Files -> Contents \cup {Missing}]
  /\ mtime = [f \in Files |-> 1]
  /\ clock = 1
  /\ writes = 0
  /\ stage = "boot"
  /\ file = "base"
  /\ current = [f \in Files |-> 0]
  /\ mtimes = [f \in Files |-> 0]
  /\ read = [f \in Files |-> Unset]
  /\ served = Unset
  /\ missed = FALSE

Process ==
  \/ BootRead \/ BootFails \/ Connect \/ FirstSnapshot
  \/ Wake \/ PollStat \/ ReloadRead \/ ReloadFails
  \/ Restart

Next ==
  \/ \E f \in Files, c \in Contents \cup {Missing} : Write(f, c)
  \/ Process
  \/ StatRaises
  \/ Stop

\* The event loop keeps running the reload task and the supervisor restarts the
\* process, and a stat that is tried again and again does not fail for ever; the operator
\* owes nothing, and neither does a shutdown.
Spec ==
  /\ Init /\ [][Next]_vars
  /\ WF_vars(Process)
  /\ \A f \in Files : SF_vars(PollStat /\ file = f)

-----------------------------------------------------------------------------
(* Properties *)

\* The reloader is between two polls and what it recorded matches the disk: the
\* next poll will see no difference.
Quiet ==
  /\ stage = "sleep"
  /\ mtimes = [f \in Files |-> StatOf(f)]

\* What is on disk now would load.
Loadable == OnDisk \in ValidPairs

\* When the reloader believes it is up to date it is: it serves the pair on disk,
\* unless that pair does not load.  poll() records the times before it reads
\* (reloader.py:50), so a write between the stat and the read is seen next time.  For the
\* same reason a load that fails for a moment is not repeated, but no more is lost than
\* that: the next write to either file makes it current again.
QuietMeansCurrent == Quiet => (served = OnDisk \/ ~Loadable \/ missed)

\* A process that takes requests serves a pair that passed validation, through every
\* torn, truncated or missing file (the fail-safe of reloader.py:51-55).
ServesValidated == Serving => served \in ValidPairs

\* Once the operator stops writing, a running gateway comes to serve what is on disk,
\* if that loads and its load was not the one that failed, and stays there
\* (README.md:154-156).
EventuallyCurrent == <>[](Serving /\ Loadable /\ ~missed => served = OnDisk)
=============================================================================
