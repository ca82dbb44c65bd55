--------------------------- MODULE EngineInstalls ---------------------------
(* One engine on a machine, through the commands that install, update, migrate, start  *)
(* and remove it: install.rs and migrate.rs of core/src/toolchain, which the CLI and    *)
(* the node's daemon call, and the units of service.rs.                                 *)
(*                                                                                      *)
(* The engine was renamed: its binary, its version file, its unit and its drop-in       *)
(* directory each have a public and a legacy name. A step is one change on the machine: *)
(* a file that is written or renamed, a call of the service manager. A command may be   *)
(* killed, and the machine may restart, between any two. Commands of two sessions may   *)
(* interleave: nothing in the code keeps them apart.                                    *)
EXTENDS Naturals, FiniteSets

CONSTANTS
  Sessions,         \* what may run a command: the CLI, the daemon of the node
  MaxRelease,       \* versions are numbered from 1
  MaxFailures,      \* how many steps may fail
  MaxCuts           \* how often a command is killed or the machine restarts

ASSUME InstallsAssumption ==
  /\ IsFiniteSet(Sessions) /\ Sessions # {}
  /\ MaxRelease \in Nat \ {0} /\ MaxFailures \in Nat /\ MaxCuts \in Nat

Public == "public"
Legacy == "legacy"
Names == {Public, Legacy}

Versions == 1 .. MaxRelease
None == 0
Part == MaxRelease + 1      \* a file that was not copied to its end
Link == MaxRelease + 2      \* a symlink to the public name, left by an earlier release
Files == {None, Part, Link} \cup Versions

VARIABLES
  bin,              \* the file under each name in the bin directory
  staged,           \* the copy beside the public name, <name>.new
  record,           \* the version file of each name
  unit, enabled,    \* the unit file of each name, and whether the manager starts it
  daemon,           \* the version each unit's process runs
  settings,         \* the drop-in directory of each unit
  release,          \* the version the manifest names
  cmd, rights, pc,  \* what a session runs, whether it may write the bin directory, where it is
  hadUnit, hadFile, \* had_old_unit and old_is_file of its migration
  want,             \* the version of the manifest it fetched
  ran, failed,      \* history: the engine ran when the command began; a step of it failed
  abandoned,        \* history: the last migration left the old unit where it was
  misled,           \* history: a binary was moved beside the version file of a removed one
  failures, cuts

files == <<bin, staged, record>>
service == <<unit, enabled, daemon, settings>>
seen == <<hadUnit, hadFile>>
outcome == <<ran, failed, abandoned, misled, failures>>
installsVars == <<files, service, release, cmd, rights, pc, seen, want, outcome, cuts>>

Installing == {"install", "reinstall"}
Migrating == {"update", "boot", "init"} \cup Installing
Commands == Migrating \cup {"remove", "start", "stop", "restart", "enable", "disable"}

File(n) == bin[n] \in Versions                              \* is_regular_file
Linked == bin[Legacy] = Link /\ bin[Public] # None          \* links_to
Installed == bin[Public] # None \/ File(Legacy)             \* is_extension_installed
UnitKey == IF ~unit[Public] /\ unit[Legacy] THEN Legacy ELSE Public
Program(n) == IF bin[n] = Link THEN bin[Public] ELSE bin[n] \* what the unit's ExecStart runs

\* A machine without the engine; one that an older CLI installed or updated; one with
\* both binaries; and one that 0.1.31 migrated, which leaves a link.
Machines == {"bare", "legacy", "both", "linked"}
InstallsInit ==
  /\ \E was \in Machines, kept \in BOOLEAN :
       LET name == IF was = "linked" THEN Public ELSE Legacy
           here == was # "bare"
       IN
       /\ bin = [n \in Names |-> CASE here /\ (n = name \/ was = "both") -> 1
                                   [] n # name /\ was = "linked" -> Link
                                   [] OTHER -> None]
       /\ record = [n \in Names |-> IF bin[n] = 1 THEN 1 ELSE None]
       /\ unit = [n \in Names |-> here /\ n = name]
       /\ enabled = unit /\ daemon = [n \in Names |-> IF unit[n] THEN 1 ELSE None]
       /\ settings = [n \in Names |-> here /\ kept /\ n = name]
  /\ staged = None /\ release = 1
  /\ cmd = [s \in Sessions |-> "none"] /\ rights = [s \in Sessions |-> FALSE]
  /\ pc = [s \in Sessions |-> "idle"]
  /\ hadUnit = [s \in Sessions |-> FALSE] /\ hadFile = [s \in Sessions |-> FALSE]
  /\ want = [s \in Sessions |-> None]
  /\ ran = [s \in Sessions |-> FALSE] /\ failed = [s \in Sessions |-> FALSE]
  /\ abandoned = FALSE /\ misled = FALSE /\ failures = 0 /\ cuts = 0

Go(s, place) == pc' = [pc EXCEPT ![s] = place]
At(s, place) == pc[s] = place
Works == UNCHANGED outcome
Fails(s) ==
  /\ failures < MaxFailures /\ failures' = failures + 1
  /\ failed' = [failed EXCEPT ![s] = TRUE] /\ UNCHANGED <<ran, misled>>
\* A step that cannot succeed, whatever the machine does.
Refused(s) == failed' = [failed EXCEPT ![s] = TRUE] /\ UNCHANGED <<ran, abandoned, misled, failures>>
Same == UNCHANGED <<release, cmd, rights, want, cuts>>

-------------------------------------------------------------------------------
(* The service manager *)

\* Starts what does not run; a process that runs stays.
Started(n) ==
  daemon' = [daemon EXCEPT ![n] = IF @ = None /\ Program(n) \in Versions THEN Program(n) ELSE @]
StopUnit(n) == daemon' = [daemon EXCEPT ![n] = None] /\ UNCHANGED <<unit, enabled, settings>>
DisableUnit(n) ==
  enabled' = [enabled EXCEPT ![n] = FALSE] /\ UNCHANGED <<unit, daemon, settings>>
EnableUnit(n) ==
  enabled' = [enabled EXCEPT ![n] = TRUE] /\ UNCHANGED <<unit, daemon, settings>>
StartUnit(n) == Started(n) /\ UNCHANGED <<unit, enabled, settings>>
\* A process keeps running when its unit's file goes.
RemoveUnit(n) == unit' = [unit EXCEPT ![n] = FALSE] /\ UNCHANGED <<enabled, daemon, settings>>
CreateUnit(n) == unit' = [unit EXCEPT ![n] = TRUE] /\ UNCHANGED <<enabled, daemon, settings>>

\* enable and start of a unit that is not there fail.
EnablesIt(s, next) ==
  /\ UNCHANGED <<files, seen>> /\ Same
  /\ IF unit[UnitKey]
       THEN EnableUnit(UnitKey) /\ Go(s, next) /\ Works
       ELSE Go(s, "idle") /\ Refused(s) /\ UNCHANGED service

StartsIt(s) ==
  /\ Go(s, "idle") /\ UNCHANGED <<files, seen>> /\ Same
  /\ IF unit[UnitKey] THEN StartUnit(UnitKey) /\ Works ELSE Refused(s) /\ UNCHANGED service

Enable(s) == At(s, "enable") /\ EnablesIt(s, "start")
Start(s) == At(s, "start") /\ StartsIt(s)

\* stop_extension and restart_extension, and what the CLI offers beside them.
StopsIt(s) ==
  /\ At(s, "stop_it")
  /\ Go(s, "idle") /\ UNCHANGED <<files, seen>> /\ Same
  /\ IF unit[UnitKey] THEN StopUnit(UnitKey) /\ Works ELSE Refused(s) /\ UNCHANGED service

RestartsIt(s) ==
  /\ At(s, "restart_it")
  /\ Go(s, "idle") /\ UNCHANGED <<files, seen, unit, enabled, settings>> /\ Same
  /\ IF unit[UnitKey]
       THEN /\ daemon' = [daemon EXCEPT ![UnitKey] = IF Program(UnitKey) \in Versions
                                                       THEN Program(UnitKey) ELSE None]
            /\ Works
       ELSE Refused(s) /\ UNCHANGED daemon

EnablesOnly(s) == At(s, "enable_it") /\ EnablesIt(s, "idle")

DisablesIt(s) ==
  /\ At(s, "disable_it")
  /\ Go(s, "idle") /\ UNCHANGED <<files, seen>> /\ Same
  /\ IF unit[UnitKey] THEN DisableUnit(UnitKey) /\ Works ELSE Refused(s) /\ UNCHANGED service

-------------------------------------------------------------------------------
(* renamed_engines *)

\* Where a command goes on once the engine has been carried over.
Migrated(s) ==
  Go(s, CASE cmd[s] = "boot" -> "ports" [] cmd[s] = "init" -> "decide" [] OTHER -> "fetch")

LegacyUnitBesideNew == unit[Legacy] /\ bin[Public] # None

\* Mutant: the old unit is left to run while its binary moves.
StopsFirst_Moves(s, had) == Go(s, "move")

StopsFirst(s, had) == Go(s, IF had THEN "stop_old" ELSE "move")

\* What there is to carry over, and the right to do it, are looked at before anything is
\* stopped.
Look(s) ==
  /\ At(s, "look")
  /\ hadUnit' = [hadUnit EXCEPT ![s] = unit[Legacy]]
  /\ hadFile' = [hadFile EXCEPT ![s] = File(Legacy)]
  /\ LET skips == (File(Legacy) \/ Linked) /\ ~rights[s] IN
       /\ CASE skips \/ ~(File(Legacy) \/ Linked \/ LegacyUnitBesideNew) -> Migrated(s)
            [] Linked /\ ~skips -> Go(s, "unlink")
            [] OTHER -> StopsFirst(s, unit[Legacy])
       /\ abandoned' = (abandoned \/ (skips /\ unit[Legacy]))
  /\ UNCHANGED <<files, service, ran, failed, misled, failures>> /\ Same

Unlink(s) ==
  /\ At(s, "unlink")
  /\ \/ bin' = [bin EXCEPT ![Legacy] = None] /\ Works
     \/ Fails(s) /\ UNCHANGED <<bin, abandoned>>
  /\ IF hadUnit[s] THEN StopsFirst(s, TRUE) ELSE Migrated(s)
  /\ UNCHANGED <<staged, record, service, seen>> /\ Same

StopOld(s) ==
  /\ At(s, "stop_old") /\ StopUnit(Legacy) /\ Go(s, "disable_old")
  /\ UNCHANGED <<files, seen, outcome>> /\ Same

DisableOld(s) ==
  /\ At(s, "disable_old") /\ DisableUnit(Legacy)
  /\ Go(s, IF hadFile[s] THEN "move" ELSE "move_settings")
  /\ UNCHANGED <<files, seen, outcome>> /\ Same

\* Mutant: the binary is moved onto one that is already under the public name.
MoveBinary_Overwrites(s) ==
  /\ At(s, "move")
  /\ bin' = [bin EXCEPT ![Public] = bin[Legacy], ![Legacy] = None]
  /\ Go(s, "move_record") /\ abandoned' = FALSE
  /\ misled' = (misled \/ (bin[Public] = None /\ record[Public] # None))
  /\ UNCHANGED <<staged, record, service, seen, ran, failed, failures>> /\ Same

\* A binary that is already under the public name is the one to keep.
MoveBinary(s) ==
  /\ At(s, "move")
  /\ bin' = [bin EXCEPT ![Public] = IF @ = None THEN bin[Legacy] ELSE @, ![Legacy] = None]
  /\ Go(s, "move_record") /\ abandoned' = FALSE
  /\ misled' = (misled \/ (bin[Public] = None /\ record[Public] # None))
  /\ UNCHANGED <<staged, record, service, seen, ran, failed, failures>> /\ Same

MoveFails(s) ==
  /\ At(s, "move") /\ Fails(s)
  /\ IF hadUnit[s] THEN Go(s, "enable_old") ELSE Migrated(s)
  /\ abandoned' = TRUE
  /\ UNCHANGED <<files, service, seen>> /\ Same

EnableOld(s) ==
  /\ At(s, "enable_old") /\ EnableUnit(Legacy) /\ Go(s, "start_old")
  /\ UNCHANGED <<files, seen, outcome>> /\ Same

StartOld(s) ==
  /\ At(s, "start_old") /\ StartUnit(Legacy) /\ Migrated(s)
  /\ UNCHANGED <<files, seen, outcome>> /\ Same

MoveRecord(s) ==
  /\ At(s, "move_record")
  /\ record' = [record EXCEPT ![Public] = IF @ = None THEN record[Legacy] ELSE @,
                              ![Legacy] = None]
  /\ Go(s, "move_settings")
  /\ UNCHANGED <<bin, staged, service, seen, outcome>> /\ Same

MoveSettings(s) ==
  /\ At(s, "move_settings")
  /\ settings' = IF settings[Legacy] /\ ~settings[Public]
                   THEN [n \in Names |-> n = Public] ELSE settings
  /\ Go(s, IF hadUnit[s] THEN "remove_old" ELSE "create_new")
  /\ UNCHANGED <<files, unit, enabled, daemon, seen, outcome>> /\ Same

RemoveOld(s) ==
  /\ At(s, "remove_old") /\ RemoveUnit(Legacy) /\ Go(s, "create_new")
  /\ UNCHANGED <<files, seen, outcome>> /\ Same

CreateNew(s) ==
  /\ At(s, "create_new") /\ CreateUnit(Public)
  /\ IF hadUnit[s] THEN Go(s, "enable_new") ELSE Migrated(s)
  /\ UNCHANGED <<files, seen, outcome>> /\ Same

EnableNew(s) ==
  /\ At(s, "enable_new") /\ EnableUnit(Public) /\ Go(s, "start_new")
  /\ UNCHANGED <<files, seen, outcome>> /\ Same

StartNew(s) ==
  /\ At(s, "start_new") /\ StartUnit(Public) /\ Migrated(s)
  /\ UNCHANGED <<files, seen, outcome>> /\ Same

\* reconcile_ports, when the node's daemon starts: the unit is written again and restarted.
ReconcilePorts(s) ==
  /\ At(s, "ports")
  /\ \/ Go(s, "idle") /\ UNCHANGED service
     \/ Installed /\ CreateUnit(Public) /\ Go(s, "restart_it")
  /\ UNCHANGED <<files, seen, outcome>> /\ Same

Migration(s) ==
  \/ Look(s) \/ Unlink(s) \/ StopOld(s) \/ DisableOld(s)
  \/ MoveBinary(s) \/ MoveFails(s) \/ EnableOld(s) \/ StartOld(s)
  \/ MoveRecord(s) \/ MoveSettings(s) \/ RemoveOld(s) \/ CreateNew(s) \/ EnableNew(s)
  \/ StartNew(s) \/ ReconcilePorts(s)

-------------------------------------------------------------------------------
(* install_one *)

\* The version that is taken to be installed.
Have == IF bin[Public] = None /\ File(Legacy) THEN record[Legacy] ELSE record[Public]
UpToDate(s) == bin[Public] # None /\ Have = want[s]

Fetch(s) ==
  /\ At(s, "fetch")
  /\ want' = [want EXCEPT ![s] = release]
  /\ Go(s, "decide")
  /\ UNCHANGED <<files, service, release, cmd, rights, seen, outcome, cuts>>

FetchFails(s) ==
  /\ pc[s] \in {"fetch", "download"} /\ Fails(s) /\ UNCHANGED abandoned /\ Go(s, "idle")
  /\ UNCHANGED <<files, service, seen>> /\ Same

\* An update passes over an engine that is not here, unless it was named, and one that is
\* current, unless it was forced.
UpdateDecides(s) ==
  /\ At(s, "decide") /\ cmd[s] = "update"
  /\ \/ (~Installed \/ UpToDate(s)) /\ Go(s, "idle") /\ Works
     \/ rights[s] /\ Go(s, "download") /\ Works
     \/ ~rights[s] /\ Go(s, "idle") /\ Refused(s)
  /\ UNCHANGED <<files, service, seen>> /\ Same

InstallDecides(s) ==
  /\ At(s, "decide") /\ cmd[s] \in Installing
  /\ \/ Go(s, "download")       \* it is not there, or the command was forced
     \/ Installed /\ cmd[s] = "install" /\ Go(s, "enable")
  /\ UNCHANGED <<files, service, seen, outcome>> /\ Same

\* node init: an engine that is installed is no promise that its service exists.
InitDecides(s) ==
  /\ At(s, "decide") /\ cmd[s] = "init"
  /\ IF Installed
       THEN Go(s, IF \E n \in Names : unit[n] THEN "enable" ELSE "create") /\ UNCHANGED cmd
       ELSE Go(s, "look") /\ cmd' = [cmd EXCEPT ![s] = "install"]
  /\ UNCHANGED <<files, service, release, rights, seen, want, outcome, cuts>>

Download(s) ==
  /\ At(s, "download") /\ Go(s, IF Installed THEN "stop" ELSE "stage")
  /\ UNCHANGED <<files, service, seen, outcome>> /\ Same

\* try_stop, before the file is replaced.
Stop(s) ==
  /\ At(s, "stop") /\ StopUnit(UnitKey) /\ Go(s, "stage")
  /\ UNCHANGED <<files, seen, outcome>> /\ Same

\* stage_binary: the copy begins, ends, and is made executable.
Stage(s) ==
  /\ At(s, "stage") /\ rights[s]
  /\ staged' = Part /\ Go(s, "copy")
  /\ UNCHANGED <<bin, record, service, seen, outcome>> /\ Same

NotAllowed(s) ==
  /\ pc[s] \in {"stage", "erase"} /\ ~rights[s]
  /\ Go(s, "idle") /\ Refused(s)
  /\ UNCHANGED <<files, service, seen>> /\ Same

\* Mutant: the version is written down before the binary is in its place.
Copied_Records(s) ==
  /\ At(s, "copy")
  /\ staged' = want[s] /\ record' = [record EXCEPT ![Public] = want[s]] /\ Go(s, "commit")
  /\ UNCHANGED <<bin, service, seen, outcome>> /\ Same

Copied(s) ==
  /\ At(s, "copy")
  /\ staged' = want[s] /\ Go(s, "commit")
  /\ UNCHANGED <<bin, record, service, seen, outcome>> /\ Same

\* What was copied of the file stays where it is, until the next copy, unless only its
\* mode could not be set.
CopyFails(s) ==
  /\ At(s, "copy") /\ Fails(s) /\ UNCHANGED abandoned /\ Go(s, "idle")
  /\ staged' \in {staged, None}
  /\ UNCHANGED <<bin, record, service, seen>> /\ Same

\* commit_staged: a rename.
Commit(s) ==
  /\ At(s, "commit")
  /\ bin' = [bin EXCEPT ![Public] = staged] /\ staged' = None
  /\ Go(s, "record")
  /\ UNCHANGED <<record, service, seen, outcome>> /\ Same

CommitFails(s) ==
  /\ At(s, "commit") /\ Fails(s) /\ UNCHANGED abandoned
  /\ staged' = None /\ Go(s, "idle")
  /\ UNCHANGED <<bin, record, service, seen>> /\ Same

\* The version file and the unit are best effort: a failure is passed over.
Record(s) ==
  /\ At(s, "record")
  /\ record' = [record EXCEPT ![Public] = want[s]]
  /\ Go(s, "create") /\ misled' = FALSE
  /\ UNCHANGED <<bin, staged, service, seen, ran, failed, abandoned, failures>> /\ Same

RecordFails(s) ==
  /\ At(s, "record") /\ Fails(s) /\ UNCHANGED abandoned /\ Go(s, "create")
  /\ UNCHANGED <<files, service, seen>> /\ Same

\* Mutant: an update leaves the start of the engine to its next command.
AfterCreate_NoStart(s) == Go(s, IF cmd[s] \in {"install", "init"} THEN "enable" ELSE "idle")

\* install_and_start, and install with force, enable the unit; an update and the
\* dashboard's reinstall only start it.
AfterCreate(s) == Go(s, IF cmd[s] \in {"install", "init"} THEN "enable" ELSE "start")

Create(s) ==
  /\ At(s, "create") /\ CreateUnit(Public) /\ AfterCreate(s)
  /\ UNCHANGED <<files, seen, outcome>> /\ Same

CreateFails(s) ==
  /\ At(s, "create") /\ Fails(s) /\ UNCHANGED abandoned
  /\ IF cmd[s] = "init" THEN Go(s, "idle") ELSE AfterCreate(s)
  /\ UNCHANGED <<files, service, seen>> /\ Same

Installation(s) ==
  \/ Fetch(s) \/ FetchFails(s)
  \/ UpdateDecides(s) \/ InstallDecides(s) \/ InitDecides(s)
  \/ Download(s) \/ Stop(s) \/ Stage(s) \/ NotAllowed(s) \/ Copied(s) \/ CopyFails(s)
  \/ Commit(s) \/ CommitFails(s) \/ Record(s) \/ RecordFails(s)
  \/ Create(s) \/ CreateFails(s) \/ Enable(s) \/ Start(s)

-------------------------------------------------------------------------------
(* remove_one *)

\* Nothing under either name, a link included: there is nothing to remove.
FindRemovable(s) ==
  /\ At(s, "removable")
  /\ Go(s, IF \A n \in Names : bin[n] = None THEN "idle" ELSE "stop_all")
  /\ UNCHANGED <<files, service, seen, outcome>> /\ Same

\* The units are stopped and disabled, the public one first, then removed.
StopAll(s) ==
  /\ At(s, "stop_all")
  /\ daemon' = [n \in Names |-> IF unit[n] THEN None ELSE daemon[n]] /\ Go(s, "disable_all")
  /\ UNCHANGED <<files, unit, enabled, settings, seen, outcome>> /\ Same

DisableAll(s) ==
  /\ At(s, "disable_all")
  /\ enabled' = [n \in Names |-> ~unit[n] /\ enabled[n]] /\ Go(s, "remove_units")
  /\ UNCHANGED <<files, unit, daemon, settings, seen, outcome>> /\ Same

RemoveUnits(s) ==
  /\ At(s, "remove_units")
  /\ LET n == IF unit[Public] THEN Public ELSE Legacy IN
       /\ RemoveUnit(n)
       /\ Go(s, IF n = Public /\ unit[Legacy] THEN "remove_units" ELSE "erase")
  /\ UNCHANGED <<files, seen, outcome>> /\ Same

\* The binaries go, the public one first, then both version files.
Erase(s) ==
  /\ At(s, "erase") /\ rights[s]
  /\ LET n == IF bin[Public] # None THEN Public ELSE Legacy IN
       /\ bin' = [bin EXCEPT ![n] = None]
       /\ Go(s, IF n = Public /\ bin[Legacy] # None THEN "erase" ELSE "forget")
  /\ UNCHANGED <<staged, record, service, seen, outcome>> /\ Same

Forget(s) ==
  /\ At(s, "forget")
  /\ record' = [n \in Names |-> None] /\ Go(s, "idle")
  /\ UNCHANGED <<bin, staged, service, seen, outcome>> /\ Same

Removal(s) ==
  \/ FindRemovable(s) \/ StopAll(s) \/ DisableAll(s) \/ RemoveUnits(s) \/ Erase(s) \/ Forget(s)

-------------------------------------------------------------------------------

\* A person, the dashboard or the start of the node gives a command.
Begin(s, c) ==
  /\ At(s, "idle")
  /\ cmd' = [cmd EXCEPT ![s] = c]
  /\ rights' \in {[rights EXCEPT ![s] = r] : r \in BOOLEAN}
  /\ Go(s, CASE c \in Migrating -> "look"
             [] c = "remove" -> "removable"
             [] c = "start" -> "start"
             [] c = "stop" -> "stop_it"
             [] c = "restart" -> "restart_it"
             [] c = "enable" -> "enable_it"
             [] c = "disable" -> "disable_it")
  /\ hadUnit' = [hadUnit EXCEPT ![s] = FALSE] /\ hadFile' = [hadFile EXCEPT ![s] = FALSE]
  /\ want' = [want EXCEPT ![s] = None]
  /\ ran' = [ran EXCEPT ![s] = \E n \in Names : daemon[n] # None]
  /\ failed' = [failed EXCEPT ![s] = FALSE]
  /\ UNCHANGED <<files, service, release, abandoned, misled, failures, cuts>>

Publish ==
  /\ release < MaxRelease /\ release' = release + 1
  /\ UNCHANGED <<files, service, cmd, rights, pc, seen, want, outcome, cuts>>

\* A command is killed: at Ctrl-C, or with the node's daemon.
Kill(s) ==
  /\ ~At(s, "idle") /\ cuts < MaxCuts /\ cuts' = cuts + 1
  /\ Go(s, "idle") /\ failed' = [failed EXCEPT ![s] = TRUE]
  /\ UNCHANGED <<files, service, release, cmd, rights, seen, want, ran, abandoned, misled,
                 failures>>

\* The machine restarts: the manager starts what is enabled.
Reboot ==
  /\ cuts < MaxCuts /\ cuts' = cuts + 1
  /\ pc' = [s \in Sessions |-> "idle"] /\ failed' = [s \in Sessions |-> TRUE]
  /\ daemon' = [n \in Names |-> IF unit[n] /\ enabled[n] /\ Program(n) \in Versions
                                  THEN Program(n) ELSE None]
  /\ UNCHANGED <<files, unit, enabled, settings, release, cmd, rights, seen, want, ran, abandoned,
                 misled, failures>>

Runs(s) ==
  \/ Migration(s) \/ Installation(s) \/ Removal(s)
  \/ StopsIt(s) \/ RestartsIt(s) \/ EnablesOnly(s) \/ DisablesIt(s)

InstallsNext ==
  \/ Publish \/ Reboot
  \/ \E s \in Sessions : Runs(s) \/ Kill(s) \/ \E c \in Commands : Begin(s, c)

InstallsSpec == InstallsInit /\ [][InstallsNext]_installsVars

\* A command runs on until it is killed.
InstallsFairSpec == InstallsSpec /\ \A s \in Sessions : WF_installsVars(Runs(s))

-------------------------------------------------------------------------------

\* Where a session is: nowhere, in one of the commands' common parts, or about to do the
\* one thing that a command of the service manager's does.
Carrying == {"look", "unlink", "stop_old", "disable_old", "move", "enable_old", "start_old",
             "move_record", "move_settings", "remove_old", "create_new", "enable_new", "start_new"}
Placing == {"download", "stop", "stage", "copy", "commit", "record"}
Removing == {"removable", "stop_all", "disable_all", "remove_units", "erase", "forget"}
Places == {"idle", "ports", "fetch", "decide", "create", "enable", "start",
           "stop_it", "restart_it", "enable_it", "disable_it"} \cup Carrying \cup Placing \cup Removing

InstallsTypeOK ==
  /\ bin \in [Names -> Files] /\ staged \in Files /\ record \in [Names -> Versions \cup {None}]
  /\ unit \in [Names -> BOOLEAN] /\ enabled \in [Names -> BOOLEAN]
  /\ daemon \in [Names -> Versions \cup {None}] /\ settings \in [Names -> BOOLEAN]
  /\ release \in Versions /\ cmd \in [Sessions -> Commands \cup {"none"}]
  /\ pc \in [Sessions -> Places] /\ want \in [Sessions -> Versions \cup {None}]
  /\ rights \in [Sessions -> BOOLEAN] /\ hadUnit \in [Sessions -> BOOLEAN]
  /\ hadFile \in [Sessions -> BOOLEAN] /\ ran \in [Sessions -> BOOLEAN]
  /\ failed \in [Sessions -> BOOLEAN]
  /\ abandoned \in BOOLEAN /\ misled \in BOOLEAN

\* The two units listen on the same port: one engine is never run by both of them, whatever
\* was cut short before and whoever starts it (migrate_one: "the legacy daemon goes down first").
NeverTogether == (\A n \in Names : daemon[n] # None) => abandoned

\* "Atomically place": what is under a name in the bin directory is a whole binary, however
\* a copy was cut short, and what runs is what is installed.
RunsWhatIsThere ==
  \A n \in Names : bin[n] # Part /\ (daemon[n] # None => daemon[n] = Program(n))

\* A command that is neither cut nor failed and is not meant to stop the engine leaves it
\* running if it ran.
EndsAsItRan ==
  [][\A s \in Sessions :
       pc[s] # "idle" /\ pc'[s] = "idle" /\ ran[s] /\ ~failed'[s] /\ cmd[s] \notin {"remove", "stop"}
         => \E n \in Names : daemon'[n] # None]_installsVars

\* Whoever sees only which version is installed and whether the engine runs sees one engine:
\* a migration, which moves it from one name to the other file by file, changes neither, a
\* removal and an update that is cut anywhere leave what was there or what was to be there,
\* and nothing installs an older version over a newer one.
InstalledVersion == IF bin[Public] # None THEN bin[Public]
                    ELSE IF File(Legacy) THEN bin[Legacy] ELSE None
Spare == IF bin[Public] # None /\ File(Legacy) THEN bin[Legacy] ELSE None
InstalledRuns == IF bin[Public] # None THEN daemon[Public] ELSE daemon[Legacy]
SpareRuns == IF bin[Public] # None THEN daemon[Legacy] ELSE None
E == INSTANCE EngineOnHost WITH installed <- InstalledVersion, spare <- Spare,
                                runs <- InstalledRuns, spareRuns <- SpareRuns
ImplementsEngine == E!Spec

\* Where updates that may write are tried again and again, one takes hold, whatever was cut
\* short or failed before: the version file does not make them pass over an engine that
\* needs one, except after a removal that was cut between the two binaries.
Tried == \E s \in Sessions : At(s, "decide") /\ cmd[s] = "update" /\ rights[s]
UpdatesTakeHold ==
  []<>Tried =>
    (release = MaxRelease /\ Installed ~> bin[Public] = MaxRelease \/ ~Installed \/ misled)

=============================================================================
