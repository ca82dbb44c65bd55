------------------------------ MODULE HostProofs ------------------------------
(* Proofs about what a host keeps: the engines that are installed on it             *)
(* (EngineInstalls) and what its callback server holds for a scan (OobCallbacks).    *)
EXTENDS EngineInstalls, OobCallbacks, SequenceTheorems, FiniteSetTheorems, TLAPS

-----------------------------------------------------------------------------
(* Installs: types *)

LEMMA Values ==
  /\ Names = {Public, Legacy} /\ Public # Legacy
  /\ None \notin Versions /\ Link \notin Versions /\ Part \notin Versions
  /\ Link # None /\ Part # None /\ Part # Link
  /\ Files = {None, Part, Link} \cup Versions /\ 1 \in Versions
BY InstallsAssumption DEF Names, Public, Legacy, None, Link, Part, Versions, Files

LEMMA KeyIsName == UnitKey \in Names BY DEF UnitKey, Names

\* A command of the manager, which fails where the unit is not there.
LEMMA KeyTypes ==
  ASSUME NEW s \in Sessions, InstallsTypeOK,
         StartsIt(s) \/ RestartsIt(s) \/ (\E next \in Places : EnablesIt(s, next))
  PROVE  InstallsTypeOK'
<1>. USE Values, KeyIsName DEF InstallsTypeOK, Go, Same, files, seen, outcome
<1>1. "idle" \in Places BY DEF Places
<1>2. CASE unit[UnitKey]
  <2>1. /\ daemon' = daemon \/ \E v \in Versions \cup {None} : daemon' = [daemon EXCEPT ![UnitKey] = v]
        /\ enabled' = enabled \/ enabled' = [enabled EXCEPT ![UnitKey] = TRUE]
        /\ UNCHANGED <<unit, settings, outcome>>
    <3>1. CASE StartsIt(s)
      <4>1. daemon[UnitKey] \in Versions \cup {None} OBVIOUS
      <4>. QED BY <1>2, <3>1, <4>1 DEF StartsIt, StartUnit, Started, Works
    <3>2. CASE RestartsIt(s) BY <1>2, <3>2 DEF RestartsIt, Works
    <3>3. CASE \E next \in Places : EnablesIt(s, next)
      BY <1>2, <3>3 DEF EnablesIt, EnableUnit, Works
    <3>. QED BY <3>1, <3>2, <3>3
  <2>2. pc' \in [Sessions -> Places] /\ UNCHANGED <<files, seen>> /\ Same
    BY <1>1, <1>2 DEF StartsIt, RestartsIt, EnablesIt
  <2>3. daemon' \in [Names -> Versions \cup {None}] /\ enabled' \in [Names -> BOOLEAN]
    BY <2>1
  <2>. QED BY <2>1, <2>2, <2>3
<1>3. CASE ~unit[UnitKey]
  <2>1. /\ UNCHANGED <<unit, enabled, daemon, settings>> /\ Refused(s)
        /\ UNCHANGED <<files, seen>> /\ Same
    BY <1>3 DEF StartsIt, RestartsIt, EnablesIt, service
  <2>2. pc' \in [Sessions -> Places] BY <1>1, <1>3 DEF StartsIt, RestartsIt, EnablesIt
  <2>. QED BY <2>1, <2>2 DEF Refused
<1>. QED BY <1>2, <1>3

LEMMA MigrationTypes ==
  ASSUME NEW s \in Sessions, InstallsTypeOK,
         Migration(s)
  PROVE  InstallsTypeOK'
<1>. USE Values DEF InstallsTypeOK, Works, Go, At, Same, files, service, seen, outcome,
                  Commands, Installing, Migrating, Places, Placing, Removing, Carrying
<1>1. CASE Look(s) BY <1>1 DEF Look, File, Linked, LegacyUnitBesideNew, Migrated, StopsFirst
<1>2. CASE Unlink(s)
  <2>1. bin' \in [Names -> Files] /\ pc' \in [Sessions -> Places]
    BY <1>2 DEF Unlink, StopsFirst, Migrated
  <2>2. failed' \in [Sessions -> BOOLEAN] /\ UNCHANGED <<ran, abandoned, misled>>
    BY <1>2 DEF Unlink, Fails
  <2>. QED BY <1>2, <2>1, <2>2 DEF Unlink
<1>3. CASE StopOld(s) BY <1>3 DEF StopOld, StopUnit
<1>4. CASE DisableOld(s) BY <1>4 DEF DisableOld, DisableUnit
<1>5. CASE MoveBinary(s) BY <1>5 DEF MoveBinary
<1>6. CASE MoveFails(s) BY <1>6 DEF MoveFails, Fails, Migrated
<1>7. CASE EnableOld(s) BY <1>7 DEF EnableOld, EnableUnit
<1>8. CASE StartOld(s) BY <1>8 DEF StartOld, StartUnit, Migrated, Started
<1>9. CASE MoveRecord(s) BY <1>9 DEF MoveRecord
<1>10. CASE MoveSettings(s) BY <1>10 DEF MoveSettings
<1>11. CASE RemoveOld(s) BY <1>11 DEF RemoveOld, RemoveUnit
<1>12. CASE CreateNew(s) BY <1>12 DEF CreateNew, CreateUnit, Migrated
<1>13. CASE EnableNew(s) BY <1>13 DEF EnableNew, EnableUnit
<1>14. CASE StartNew(s) BY <1>14 DEF StartNew, StartUnit, Migrated, Started
<1>15. CASE ReconcilePorts(s) BY <1>15 DEF ReconcilePorts, CreateUnit
<1>. QED BY <1>1, <1>2, <1>3, <1>4, <1>5, <1>6, <1>7, <1>8, <1>9, <1>10, <1>11, <1>12,
         <1>13, <1>14, <1>15 DEF Migration

LEMMA InstallationTypes ==
  ASSUME NEW s \in Sessions, InstallsTypeOK,
         Installation(s)
  PROVE  InstallsTypeOK'
<1>. USE Values DEF InstallsTypeOK, Works, Go, At, Same, files, service, seen, outcome,
                  Commands, Installing, Migrating, Places, Placing, Removing, Carrying
<1>1. CASE Fetch(s) BY <1>1 DEF Fetch
<1>2. CASE FetchFails(s) BY <1>2 DEF FetchFails, Fails
<1>3. CASE UpdateDecides(s) BY <1>3 DEF UpdateDecides, Refused
<1>4. CASE InstallDecides(s) BY <1>4 DEF InstallDecides
<1>5. CASE InitDecides(s) BY <1>5 DEF InitDecides
<1>6. CASE Download(s) BY <1>6 DEF Download
<1>7. CASE Stop(s) BY <1>7, KeyIsName DEF Stop, StopUnit
<1>8. CASE Stage(s) BY <1>8 DEF Stage
<1>9. CASE NotAllowed(s) BY <1>9 DEF NotAllowed, Refused
<1>10. CASE Copied(s) BY <1>10 DEF Copied
<1>11. CASE CopyFails(s) BY <1>11 DEF CopyFails, Fails
<1>12. CASE Commit(s) BY <1>12 DEF Commit
<1>13. CASE CommitFails(s) BY <1>13 DEF CommitFails, Fails
<1>14. CASE Record(s) BY <1>14 DEF Record
<1>15. CASE RecordFails(s) BY <1>15 DEF RecordFails, Fails
<1>16. CASE Create(s) BY <1>16 DEF Create, CreateUnit, AfterCreate
<1>17. CASE CreateFails(s) BY <1>17 DEF CreateFails, Fails, AfterCreate
<1>18. CASE Enable(s) BY <1>18, KeyTypes DEF Enable
<1>19. CASE Start(s) BY <1>19, KeyTypes DEF Start
<1>. QED BY <1>1, <1>2, <1>3, <1>4, <1>5, <1>6, <1>7, <1>8, <1>9, <1>10, <1>11, <1>12,
         <1>13, <1>14, <1>15, <1>16, <1>17, <1>18, <1>19 DEF Installation

LEMMA RemovalTypes ==
  ASSUME NEW s \in Sessions, InstallsTypeOK,
         Removal(s)
  PROVE  InstallsTypeOK'
<1>. USE Values DEF InstallsTypeOK, Works, Go, At, Same, files, service, seen, outcome,
                  Commands, Installing, Migrating, Places, Placing, Removing, Carrying
<1>1. CASE FindRemovable(s) BY <1>1 DEF FindRemovable
<1>2. CASE StopAll(s) BY <1>2 DEF StopAll
<1>3. CASE DisableAll(s) BY <1>3 DEF DisableAll
<1>4. CASE RemoveUnits(s) BY <1>4 DEF RemoveUnits, RemoveUnit
<1>5. CASE Erase(s) BY <1>5 DEF Erase
<1>6. CASE Forget(s) BY <1>6 DEF Forget
<1>. QED BY <1>1, <1>2, <1>3, <1>4, <1>5, <1>6 DEF Removal

LEMMA ManagerTypes ==
  ASSUME NEW s \in Sessions, InstallsTypeOK,
         StopsIt(s) \/ RestartsIt(s) \/ EnablesOnly(s) \/ DisablesIt(s)
  PROVE  InstallsTypeOK'
<1>. USE Values DEF InstallsTypeOK, Works, Go, At, Same, files, service, seen, outcome,
                  Commands, Installing, Migrating, Places, Placing, Removing, Carrying
<1>1. CASE StopsIt(s) BY <1>1, KeyIsName DEF StopsIt, StopUnit, Refused
<1>2. CASE RestartsIt(s) BY <1>2, KeyTypes
<1>3. CASE EnablesOnly(s) BY <1>3, KeyTypes DEF EnablesOnly
<1>4. CASE DisablesIt(s) BY <1>4, KeyIsName DEF DisablesIt, DisableUnit, Refused
<1>. QED BY <1>1, <1>2, <1>3, <1>4

LEMMA InstallsNextType == InstallsTypeOK /\ [InstallsNext]_installsVars => InstallsTypeOK'
<1> SUFFICES ASSUME InstallsTypeOK, [InstallsNext]_installsVars PROVE InstallsTypeOK'
  OBVIOUS
<1>. USE Values DEF InstallsTypeOK, Go, At, files, service, seen, outcome
<1>1. CASE UNCHANGED installsVars BY <1>1 DEF installsVars
<1>2. CASE Publish
  <2>1. release' \in Versions BY <1>2, InstallsAssumption DEF Publish, Versions
  <2>. QED BY <1>2, <2>1 DEF Publish
<1>3. CASE Reboot BY <1>3 DEF Reboot, Places
<1>4. ASSUME NEW s \in Sessions, Kill(s) PROVE InstallsTypeOK' BY <1>4 DEF Kill, Places
<1>5. ASSUME NEW s \in Sessions, NEW c \in Commands, Begin(s, c) PROVE InstallsTypeOK'
  <2>1. pc' \in [Sessions -> Places]
    BY <1>5 DEF Begin, Commands, Migrating, Installing, Places, Carrying, Removing
  <2>. QED BY <1>5, <2>1 DEF Begin
<1>6. ASSUME NEW s \in Sessions, Runs(s) PROVE InstallsTypeOK'
  BY <1>6, MigrationTypes, InstallationTypes, RemovalTypes, ManagerTypes DEF Runs
<1>. QED BY <1>1, <1>2, <1>3, <1>4, <1>5, <1>6 DEF InstallsNext

LEMMA InstallsInitType == InstallsInit => InstallsTypeOK
<1>. SUFFICES ASSUME InstallsInit PROVE InstallsTypeOK OBVIOUS
<1>1. PICK was \in Machines, keeps \in BOOLEAN :
        LET name == IF was = "linked" THEN Public ELSE Legacy
            here == was # "bare"
        IN  /\ bin = [n \in Names |-> CASE here /\ (n = name \/ was = "both") -> 1
                                        [] n # name /\ was = "linked" -> Link
                                        [] OTHER -> None]
            /\ record = [n \in Names |-> IF bin[n] = 1 THEN 1 ELSE None]
            /\ unit = [n \in Names |-> here /\ n = name]
            /\ enabled = unit /\ daemon = [n \in Names |-> IF unit[n] THEN 1 ELSE None]
            /\ settings = [n \in Names |-> here /\ keeps /\ n = name]
  BY DEF InstallsInit
<1>2. /\ bin \in [Names -> Files] /\ record \in [Names -> Versions \cup {None}]
      /\ unit \in [Names -> BOOLEAN] /\ enabled \in [Names -> BOOLEAN]
      /\ daemon \in [Names -> Versions \cup {None}] /\ settings \in [Names -> BOOLEAN]
  BY <1>1, Values
<1>. QED BY <1>2, Values DEF InstallsInit, InstallsTypeOK, Places

\* Every variable holds a value of its type, whatever sessions interleave (install_one,
\* migrate_one, remove_one and the units of service.rs).
THEOREM InstallsTypeCorrect == InstallsSpec => []InstallsTypeOK
BY InstallsInitType, InstallsNextType, PTL DEF InstallsSpec

-----------------------------------------------------------------------------
(* Installs: one session *)

\* What holds where one session gives the commands, one after the other; TLC shows that it
\* does not hold for two.
OneSession == \A s, t \in Sessions : s = t

\* The machine: what is under a name is whole, a link is of no unit, a unit's process runs
\* what is under the unit's name, and the old unit's binary is gone once there is the new
\* unit, unless a migration gave up.
OldWorks == unit[Legacy] /\ File(Legacy)
MachineInv ==
  /\ bin[Public] \in Versions \cup {None} /\ bin[Legacy] \in Versions \cup {None, Link}
  /\ bin[Legacy] = Link => ~unit[Legacy]
  /\ \A n \in Names : daemon[n] # None => unit[n] /\ daemon[n] = Program(n)
  /\ unit[Public] /\ OldWorks => abandoned

\* What a migration knows of the machine at each of its steps: the old unit is as it was
\* seen, and down before its binary moves; after that nothing is under the old name.
MigrationInv(s) ==
  /\ pc[s] \in {"unlink", "stop_old", "disable_old", "move", "enable_old", "start_old",
                "move_record", "move_settings", "remove_old"} => (hadUnit[s] <=> unit[Legacy])
  /\ pc[s] = "unlink" => bin[Legacy] = Link
  /\ pc[s] \in {"stop_old", "disable_old", "enable_old", "start_old", "remove_old"} => hadUnit[s]
  /\ pc[s] \in {"stop_old", "disable_old"} =>
       (hadFile[s] <=> File(Legacy)) /\ (File(Legacy) \/ bin[Public] # None)
  /\ pc[s] \in {"disable_old", "move", "enable_old", "start_old"} => daemon[Legacy] = None
  /\ pc[s] \in {"move", "enable_old", "start_old"} => File(Legacy)
  /\ pc[s] \in {"enable_old", "start_old"} => abandoned
  /\ pc[s] \in {"move_record", "move_settings", "remove_old"} => ~File(Legacy)
  /\ pc[s] \in {"create_new", "enable_new", "start_new"} => ~unit[Legacy]
  /\ pc[s] \in {"move_record", "move_settings", "remove_old", "create_new", "enable_new",
                "start_new"} => bin[Public] # None
  /\ pc[s] \in {"enable_new", "start_new"} => unit[Public]

\* What an install knows: the migration is behind it, the version it fetched is the one it
\* copies, and the new unit is down while its binary is replaced.
InstallInv(s) ==
  /\ pc[s] \in {"ports", "fetch", "decide", "create"} \cup Placing => ~OldWorks \/ abandoned
  /\ pc[s] \in Placing \/ (pc[s] = "decide" /\ cmd[s] # "init") => want[s] \in Versions
  /\ pc[s] \in {"stage", "copy", "commit"} => daemon[Public] = None
  /\ pc[s] = "commit" => staged = want[s]

\* What a removal knows: nothing runs once the units were stopped, nor has a unit when the
\* binaries go.
RemovalInv(s) ==
  /\ pc[s] \in {"disable_all", "remove_units", "erase", "forget"} =>
       \A n \in Names : daemon[n] = None
  /\ pc[s] \in {"erase", "forget"} => \A n \in Names : ~unit[n]

\* An engine that ran when the command began runs, or what the command starts at its end is
\* there, and is whole.
Running == \E n \in Names : daemon[n] # None
MeantToRun(s) == ran[s] /\ ~failed[s] /\ cmd[s] \notin {"remove", "stop"}
RunInv(s) ==
  /\ pc[s] \in Removing => cmd[s] = "remove"
  /\ pc[s] = "stop_it" => cmd[s] = "stop"
  /\ MeantToRun(s) =>
       /\ pc[s] \in {"look", "unlink", "stop_old", "ports", "fetch", "decide", "restart_it",
                     "enable_it", "disable_it"} => Running
       /\ pc[s] \in {"move", "move_record", "move_settings", "create_new"} => hadUnit[s] \/ Running
       /\ pc[s] \in {"record", "create"} => Running \/ bin[Public] # None
       /\ pc[s] \in {"enable", "start"} => Running \/ (unit[Public] /\ bin[Public] # None)

SessionInv == \A s \in Sessions : MigrationInv(s) /\ InstallInv(s) /\ RemovalInv(s) /\ RunInv(s)
InstalledInv == OneSession /\ InstallsTypeOK /\ MachineInv /\ SessionInv

\* What each step of a command keeps, and, when it is the last, leaves running.
Kept(s) ==
  /\ MachineInv' /\ MigrationInv(s)' /\ InstallInv(s)' /\ RemovalInv(s)' /\ RunInv(s)'
  /\ pc[s] # "idle" /\ pc'[s] = "idle" /\ ran[s] /\ ~failed'[s] /\ cmd[s] \notin {"remove", "stop"}
       => Running'

LEMMA MigrationKeeps ==
  ASSUME NEW s \in Sessions, InstalledInv,
         Migration(s)
  PROVE  Kept(s)
<1>. USE Values DEF Kept, InstalledInv, InstallsTypeOK, MachineInv, SessionInv,
                  MigrationInv, InstallInv, RemovalInv, RunInv, OldWorks, Running,
                  MeantToRun, File, Program, Placing, Removing, Works, Go, At, Same, files,
                  service, seen, outcome
<1>1. CASE Look(s)
  <2>1. /\ pc[s] = "look" /\ UNCHANGED <<bin, unit, daemon, staged, want, cmd, rights, ran, failed>>
        /\ hadUnit'[s] = unit[Legacy] /\ hadFile'[s] = File(Legacy)
        /\ abandoned' = (abandoned \/ ((File(Legacy) \/ Linked) /\ ~rights[s] /\ unit[Legacy]))
    BY <1>1 DEF Look
  <2>2. \/ Migrated(s) /\ (((File(Legacy) \/ Linked) /\ ~rights[s]) \/ ~File(Legacy))
        \/ Linked /\ Go(s, "unlink")
        \/ ~Linked /\ (File(Legacy) \/ LegacyUnitBesideNew) /\ StopsFirst(s, unit[Legacy])
    BY <1>1 DEF Look
  <2>3. CASE Migrated(s) /\ (((File(Legacy) \/ Linked) /\ ~rights[s]) \/ ~File(Legacy))
    BY <2>1, <2>3 DEF Migrated
  <2>4. CASE Linked /\ Go(s, "unlink") BY <2>1, <2>4 DEF Linked
  <2>5. CASE ~Linked /\ (File(Legacy) \/ LegacyUnitBesideNew) /\ StopsFirst(s, unit[Legacy])
    BY <2>1, <2>5 DEF LegacyUnitBesideNew, StopsFirst
  <2>. QED BY <2>2, <2>3, <2>4, <2>5
<1>2. CASE Unlink(s) BY <1>2 DEF Unlink, Fails, StopsFirst, Migrated
<1>3. CASE StopOld(s) BY <1>3 DEF StopOld, StopUnit
<1>4. CASE DisableOld(s) BY <1>4 DEF DisableOld, DisableUnit
<1>5. CASE MoveBinary(s) BY <1>5 DEF MoveBinary
<1>6. CASE MoveFails(s) BY <1>6 DEF MoveFails, Fails, Migrated
<1>7. CASE EnableOld(s) BY <1>7 DEF EnableOld, EnableUnit
<1>8. CASE StartOld(s) BY <1>8 DEF StartOld, StartUnit, Migrated, Started
<1>9. CASE MoveRecord(s) BY <1>9 DEF MoveRecord
<1>10. CASE MoveSettings(s) BY <1>10 DEF MoveSettings
<1>11. CASE RemoveOld(s) BY <1>11 DEF RemoveOld, RemoveUnit
<1>12. CASE CreateNew(s) BY <1>12 DEF CreateNew, CreateUnit, Migrated
<1>13. CASE EnableNew(s) BY <1>13 DEF EnableNew, EnableUnit
<1>14. CASE StartNew(s) BY <1>14 DEF StartNew, StartUnit, Migrated, Started
<1>15. CASE ReconcilePorts(s) BY <1>15 DEF ReconcilePorts, Installed, CreateUnit
<1>. QED BY <1>1, <1>2, <1>3, <1>4, <1>5, <1>6, <1>7, <1>8, <1>9, <1>10, <1>11, <1>12,
         <1>13, <1>14, <1>15 DEF Migration

LEMMA InstallationKeeps ==
  ASSUME NEW s \in Sessions, InstalledInv,
         Installation(s)
  PROVE  Kept(s)
<1>. USE Values DEF Kept, InstalledInv, InstallsTypeOK, MachineInv, SessionInv,
                  MigrationInv, InstallInv, RemovalInv, RunInv, OldWorks, Running,
                  MeantToRun, File, Program, Placing, Removing, Works, Go, At, Same, files,
                  service, seen, outcome
<1>1. CASE Fetch(s) BY <1>1 DEF Fetch
<1>2. CASE FetchFails(s) BY <1>2 DEF FetchFails, Fails
<1>3. CASE UpdateDecides(s) BY <1>3 DEF UpdateDecides, Installed, UpToDate, Refused
<1>4. CASE InstallDecides(s) BY <1>4 DEF InstallDecides, Installing, Installed
<1>5. CASE InitDecides(s) BY <1>5 DEF InitDecides, Installed
<1>6. CASE Download(s) BY <1>6 DEF Download, Installed
<1>7. CASE Stop(s) BY <1>7 DEF Stop, StopUnit, UnitKey
<1>8. CASE Stage(s) BY <1>8 DEF Stage
<1>9. CASE NotAllowed(s) BY <1>9 DEF NotAllowed, Refused
<1>10. CASE Copied(s) BY <1>10 DEF Copied
<1>11. CASE CopyFails(s) BY <1>11 DEF CopyFails, Fails
<1>12. CASE Commit(s) BY <1>12 DEF Commit
<1>13. CASE CommitFails(s) BY <1>13 DEF CommitFails, Fails
<1>14. CASE Record(s) BY <1>14 DEF Record
<1>15. CASE RecordFails(s) BY <1>15 DEF RecordFails, Fails
<1>16. CASE Create(s) BY <1>16 DEF Create, CreateUnit, AfterCreate
<1>17. CASE CreateFails(s) BY <1>17 DEF CreateFails, Fails, AfterCreate
<1>18. CASE Enable(s) BY <1>18 DEF Enable, EnablesIt, UnitKey, EnableUnit, Refused
<1>19. CASE Start(s) BY <1>19 DEF Start, StartsIt, UnitKey, StartUnit, Refused, Started
<1>. QED BY <1>1, <1>2, <1>3, <1>4, <1>5, <1>6, <1>7, <1>8, <1>9, <1>10, <1>11, <1>12,
         <1>13, <1>14, <1>15, <1>16, <1>17, <1>18, <1>19 DEF Installation

LEMMA RemovalKeeps ==
  ASSUME NEW s \in Sessions, InstalledInv,
         Removal(s)
  PROVE  Kept(s)
<1>. USE Values DEF Kept, InstalledInv, InstallsTypeOK, MachineInv, SessionInv,
                  MigrationInv, InstallInv, RemovalInv, RunInv, OldWorks, Running,
                  MeantToRun, File, Program, Placing, Removing, Works, Go, At, Same, files,
                  service, seen, outcome
<1>1. CASE FindRemovable(s) BY <1>1 DEF FindRemovable
<1>2. CASE StopAll(s) BY <1>2 DEF StopAll
<1>3. CASE DisableAll(s) BY <1>3 DEF DisableAll
<1>4. CASE RemoveUnits(s) BY <1>4 DEF RemoveUnits, RemoveUnit
<1>5. CASE Erase(s) BY <1>5 DEF Erase
<1>6. CASE Forget(s) BY <1>6 DEF Forget
<1>. QED BY <1>1, <1>2, <1>3, <1>4, <1>5, <1>6 DEF Removal

LEMMA ManagerKeeps ==
  ASSUME NEW s \in Sessions, InstalledInv,
         StopsIt(s) \/ RestartsIt(s) \/ EnablesOnly(s) \/ DisablesIt(s)
  PROVE  Kept(s)
<1>. USE Values DEF Kept, InstalledInv, InstallsTypeOK, MachineInv, SessionInv,
                  MigrationInv, InstallInv, RemovalInv, RunInv, OldWorks, Running,
                  MeantToRun, File, Program, Placing, Removing, Works, Go, At, Same, files,
                  service, seen, outcome
<1>1. CASE StopsIt(s) BY <1>1 DEF StopsIt, UnitKey, StopUnit, Refused
<1>2. CASE RestartsIt(s) BY <1>2 DEF RestartsIt, UnitKey, Refused
<1>3. CASE EnablesOnly(s) BY <1>3 DEF EnablesOnly, EnablesIt, UnitKey, EnableUnit, Refused
<1>4. CASE DisablesIt(s) BY <1>4 DEF DisablesIt, UnitKey, DisableUnit, Refused
<1>. QED BY <1>1, <1>2, <1>3, <1>4

\* A command begins where the last one left the machine; a cut and a new release leave it
\* where it is, and a restart starts what is enabled.
LEMMA OthersKeep ==
  ASSUME InstalledInv, NEW s \in Sessions,
         \/ (\E c \in Commands : Begin(s, c)) \/ Kill(s) \/ Reboot \/ Publish
  PROVE  Kept(s)
<1>. USE Values DEF Kept, InstalledInv, InstallsTypeOK, MachineInv, SessionInv, MigrationInv,
                  InstallInv, RemovalInv, RunInv, OldWorks, Running, MeantToRun, File, Program,
                  Placing, Removing, Go, At, files, service, seen, outcome
<1>1. ASSUME NEW c \in Commands, Begin(s, c) PROVE Kept(s)
  <2>1. /\ pc[s] = "idle" /\ cmd'[s] = c /\ UNCHANGED <<bin, staged, unit, daemon, abandoned>>
        /\ ran'[s] = (\E n \in Names : daemon[n] # None)
    BY <1>1 DEF Begin
  <2>2. \/ c \in Migrating /\ pc'[s] = "look"
        \/ c = "remove" /\ pc'[s] = "removable"
        \/ c = "start" /\ pc'[s] = "start"
        \/ c = "stop" /\ pc'[s] = "stop_it"
        \/ c \in {"restart", "enable", "disable"} /\ pc'[s] \in {"restart_it", "enable_it", "disable_it"}
    BY <1>1 DEF Begin, Commands
  <2>3. MachineInv' BY <2>1
  <2>4. MigrationInv(s)' /\ InstallInv(s)' /\ RemovalInv(s)' BY <2>2
  <2>5. RunInv(s)' BY <2>1, <2>2
  <2>. QED BY <2>1, <2>3, <2>4, <2>5
<1>2. CASE Kill(s) BY <1>2 DEF Kill
<1>3. CASE Reboot BY <1>3 DEF Reboot
<1>4. CASE Publish BY <1>4 DEF Publish
<1>. QED BY <1>1, <1>2, <1>3, <1>4

LEMMA InstalledNext ==
  ASSUME InstalledInv, [InstallsNext]_installsVars
  PROVE  InstalledInv' /\ \A s \in Sessions : UNCHANGED installsVars \/ Kept(s)
<1>1. OneSession /\ InstallsTypeOK' BY InstallsNextType DEF InstalledInv
<1>2. CASE UNCHANGED installsVars
  BY <1>1, <1>2 DEF installsVars, InstalledInv, MachineInv, SessionInv, MigrationInv, InstallInv,
     RemovalInv, RunInv, OldWorks, Running, MeantToRun, File, Program, OneSession, files, service,
     seen, outcome
<1>3. ASSUME InstallsNext PROVE \A s \in Sessions : Kept(s)
  <2>1. ASSUME NEW s \in Sessions, NEW t \in Sessions,
               Runs(t) \/ Kill(t) \/ (\E c \in Commands : Begin(t, c))
        PROVE  Kept(s)
    <3>1. s = t BY <1>1 DEF OneSession
    <3>. QED BY <2>1, <3>1, MigrationKeeps, InstallationKeeps, RemovalKeeps, ManagerKeeps,
                OthersKeep DEF Runs
  <2>. QED BY <1>3, <2>1, OthersKeep DEF InstallsNext
<1>4. ASSUME \A s \in Sessions : Kept(s) PROVE InstalledInv'
  <2>1. Sessions # {} BY InstallsAssumption
  <2>. QED BY <1>1, <1>4, <2>1 DEF Kept, InstalledInv, SessionInv, OneSession
<1>. QED BY <1>2, <1>3, <1>4

LEMMA InstalledHolds == OneSession /\ InstallsSpec => []InstalledInv
<1>1. OneSession /\ InstallsInit => InstalledInv
  <2>. SUFFICES ASSUME OneSession, InstallsInit PROVE InstalledInv OBVIOUS
  <2>1. PICK was \in Machines, keeps \in BOOLEAN :
          LET name == IF was = "linked" THEN Public ELSE Legacy
              here == was # "bare"
          IN  /\ bin = [n \in Names |-> CASE here /\ (n = name \/ was = "both") -> 1
                                          [] n # name /\ was = "linked" -> Link
                                          [] OTHER -> None]
              /\ unit = [n \in Names |-> here /\ n = name]
              /\ daemon = [n \in Names |-> IF unit[n] THEN 1 ELSE None]
    BY DEF InstallsInit
  <2>2. /\ pc = [s \in Sessions |-> "idle"]
        /\ \A n \in Names : daemon[n] = IF unit[n] THEN 1 ELSE None
    BY <2>1 DEF InstallsInit
  <2>3. /\ bin[Public] \in {None, 1} /\ bin[Legacy] \in {None, 1, Link}
        /\ bin[Legacy] = Link => ~unit[Legacy]
        /\ ~(unit[Public] /\ unit[Legacy]) /\ unit[Public] \in BOOLEAN
        /\ \A n \in Names : unit[n] => bin[n] = 1
    <3>1. CASE was = "linked"
      <4>1. bin = [n \in Names |-> IF n = Public THEN 1 ELSE Link] BY <2>1, <3>1
      <4>2. unit = [n \in Names |-> n = Public] BY <2>1, <3>1
      <4>3. bin[Public] = 1 /\ bin[Legacy] = Link BY <4>1, Values
      <4>4. unit[Public] = TRUE /\ unit[Legacy] = FALSE BY <4>2, Values
      <4>. QED BY <4>3, <4>4, Values
    <3>2. CASE was # "linked"
      <4>1. bin[Public] \in {None, 1} /\ bin[Legacy] \in {None, 1} BY <2>1, <3>2, Values
      <4>2. unit[Public] = FALSE BY <2>1, <3>2, Values
      <4>3. unit[Legacy] => bin[Legacy] = 1 BY <2>1, <3>2, Values
      <4>. QED BY <4>1, <4>2, <4>3, Values
    <3>. QED BY <3>1, <3>2
  <2>4. /\ pc = [s \in Sessions |-> "idle"] /\ unit[Public] \in BOOLEAN
        /\ bin[Public] \in {None, 1} /\ bin[Legacy] \in {None, 1, Link}
        /\ bin[Legacy] = Link => ~unit[Legacy]
        /\ ~(unit[Public] /\ unit[Legacy])
        /\ \A n \in Names : /\ unit[n] => bin[n] = 1
                            /\ daemon[n] = IF unit[n] THEN 1 ELSE None
    BY <2>2, <2>3
  <2>5. MachineInv BY <2>4, Values DEF MachineInv, OldWorks, Program
  <2>6. SessionInv
    BY <2>4 DEF SessionInv, MigrationInv, InstallInv, RemovalInv, RunInv, Placing, Removing
  <2>. QED BY <2>5, <2>6, InstallsInitType DEF InstalledInv
<1>. QED BY <1>1, InstalledNext, PTL DEF InstallsSpec

\* Where one session gives the commands: what is under a name is a whole binary, wherever a
\* copy was cut, and what runs is what is installed (stage_binary and commit_staged, install.rs).
THEOREM WhatRunsIsThere == OneSession /\ InstallsSpec => []RunsWhatIsThere
<1>1. InstalledInv => RunsWhatIsThere
  BY Values DEF InstalledInv, MachineInv, RunsWhatIsThere
<1>. QED BY <1>1, InstalledHolds, PTL

\* Where one session gives the commands: the engine is not run by its old and its new unit
\* at once, whatever was cut before, unless a migration gave up (migrate_one, migrate.rs).
THEOREM OneUnitRuns == OneSession /\ InstallsSpec => []NeverTogether
<1>1. InstalledInv => NeverTogether
  BY Values DEF InstalledInv, MachineInv, NeverTogether, OldWorks, File, Program, InstallsTypeOK
<1>. QED BY <1>1, InstalledHolds, PTL

\* Where one session gives the commands: one that neither fails nor is cut, and is not meant
\* to stop the engine, leaves it running if it ran (install_one, migrate_one and their callers).
THEOREM CommandsLeaveItRunning == OneSession /\ InstallsSpec => EndsAsItRan
<1>1. InstalledInv /\ [InstallsNext]_installsVars =>
        [\A s \in Sessions :
           pc[s] # "idle" /\ pc'[s] = "idle" /\ ran[s] /\ ~failed'[s] /\ cmd[s] \notin {"remove", "stop"}
             => \E n \in Names : daemon'[n] # None]_installsVars
  BY InstalledNext DEF Kept, Running
<1>. QED BY <1>1, InstalledHolds, PTL DEF InstallsSpec, EndsAsItRan

-----------------------------------------------------------------------------
(* Installs: one engine, whatever its names *)

\* Steps of a command that neither fetch a version nor touch what is in the bin directory.
LEMMA StepsAside ==
  ASSUME NEW s \in Sessions, Runs(s),
         ~Fetch(s), ~Unlink(s), ~MoveBinary(s), ~Commit(s), ~Erase(s)
  PROVE  UNCHANGED <<bin, release, want>>
<1>. USE DEF files, Same
<1>1. CASE Migration(s)
  BY <1>1 DEF Migration, Look, StopOld, DisableOld, MoveFails, EnableOld, StartOld, MoveRecord,
     MoveSettings, RemoveOld, CreateNew, EnableNew, StartNew, ReconcilePorts
<1>2. CASE Installation(s)
  BY <1>2 DEF Installation, FetchFails, UpdateDecides, InstallDecides, InitDecides, Download, Stop,
     Stage, NotAllowed, Copied, CopyFails, CommitFails, Record, RecordFails, Create, CreateFails,
     Enable, EnablesIt, Start, StartsIt
<1>3. CASE Removal(s)
  BY <1>3 DEF Removal, FindRemovable, StopAll, DisableAll, RemoveUnits, Forget
<1>4. CASE StopsIt(s) \/ RestartsIt(s) \/ EnablesOnly(s) \/ DisablesIt(s)
  BY <1>4 DEF StopsIt, RestartsIt, EnablesOnly, EnablesIt, DisablesIt
<1>. QED BY <1>1, <1>2, <1>3, <1>4 DEF Runs

\* A command that fetched a version and has not placed it yet, which only a fetch makes it.
Holding(s) ==
  pc[s] \in {"download", "stop", "stage", "copy", "commit"} \/ (pc[s] = "decide" /\ cmd[s] # "init")

LEMMA OnlyFetchHolds ==
  ASSUME NEW s \in Sessions, InstallsTypeOK, Runs(s), ~Fetch(s), Holding(s)'
  PROVE  Holding(s) /\ ~Unlink(s) /\ ~MoveBinary(s) /\ ~Commit(s) /\ ~Erase(s)
<1>. USE DEF Holding, InstallsTypeOK, Go, At, Same
<1>1. CASE Migration(s)
  BY <1>1 DEF Migration, Look, Unlink, StopOld, DisableOld, MoveBinary, MoveFails, EnableOld,
     StartOld, MoveRecord, MoveSettings, RemoveOld, CreateNew, EnableNew, StartNew, ReconcilePorts,
     Migrated, StopsFirst
<1>2. CASE Installation(s)
  BY <1>2 DEF Installation, FetchFails, UpdateDecides, InstallDecides, InitDecides, Download, Stop,
     Stage, NotAllowed, Copied, CopyFails, Commit, CommitFails, Record, RecordFails, Create,
     CreateFails, AfterCreate, Enable, EnablesIt, Start, StartsIt, Installing, Erase, Unlink, MoveBinary
<1>3. CASE Removal(s)
  BY <1>3 DEF Removal, FindRemovable, StopAll, DisableAll, RemoveUnits, Erase, Forget
<1>4. CASE StopsIt(s) \/ RestartsIt(s) \/ EnablesOnly(s) \/ DisablesIt(s)
  BY <1>4 DEF StopsIt, RestartsIt, EnablesOnly, EnablesIt, DisablesIt
<1>. QED BY <1>1, <1>2, <1>3, <1>4 DEF Runs

\* What is there was released, and what a command is about to place is not older than it:
\* nobody else installs meanwhile, and releases only grow.
ReleaseInv ==
  /\ \A n \in Names : bin[n] \in Versions => bin[n] <= release
  /\ \A s \in Sessions : want[s] <= release /\ (Holding(s) => InstalledVersion <= want[s])

LEMMA ReleaseNext ==
  ASSUME InstalledInv, ReleaseInv, [InstallsNext]_installsVars PROVE ReleaseInv'
<1>. USE Values
<1>. release \in Nat /\ Versions \subseteq Nat BY DEF InstalledInv, InstallsTypeOK, Versions
<1>1. CASE UNCHANGED <<bin, release, want, pc, cmd>>
  BY <1>1 DEF ReleaseInv, Holding, InstalledVersion, File
<1>2. CASE Publish
  <2>1. UNCHANGED <<bin, want, pc, cmd>> /\ release' = release + 1 BY <1>2 DEF Publish, files
  <2>2. \A s \in Sessions : want[s] \in Nat BY DEF InstalledInv, InstallsTypeOK, Versions, None
  <2>3. \A n \in Names : bin'[n] \in Versions => bin'[n] <= release'
    BY <2>1 DEF ReleaseInv, Versions
  <2>4. \A s \in Sessions : want'[s] <= release' BY <2>1, <2>2 DEF ReleaseInv
  <2>5. \A s \in Sessions : Holding(s)' => InstalledVersion' <= want'[s]
    BY <2>1 DEF ReleaseInv, Holding, InstalledVersion, File
  <2>. QED BY <2>3, <2>4, <2>5 DEF ReleaseInv
<1>3. CASE Reboot
  <2>1. UNCHANGED <<bin, want, release>> /\ pc' = [s \in Sessions |-> "idle"]
    BY <1>3 DEF Reboot, files
  <2>. QED BY <2>1 DEF ReleaseInv, Holding
<1>4. ASSUME NEW s \in Sessions, \A t \in Sessions : t = s,
             UNCHANGED <<bin, release>>, want'[s] <= release, ~Holding(s)'
      PROVE  ReleaseInv'
  BY <1>4 DEF ReleaseInv
<1>5. ASSUME NEW s \in Sessions, Runs(s) \/ Kill(s) \/ \E c \in Commands : Begin(s, c)
      PROVE  ReleaseInv'
  <2>0. \A t \in Sessions : t = s BY DEF InstalledInv, OneSession
  <2>1. CASE Kill(s)
    <3>1. UNCHANGED <<bin, release, want>> /\ pc'[s] = "idle"
      BY <2>1 DEF Kill, files, Go, InstalledInv, InstallsTypeOK
    <3>. QED BY <1>4, <2>0, <3>1 DEF ReleaseInv, Holding
  <2>2. ASSUME NEW c \in Commands, Begin(s, c) PROVE ReleaseInv'
    <3>1. UNCHANGED <<bin, release>> /\ want'[s] = None
      BY <2>2 DEF Begin, files, InstalledInv, InstallsTypeOK
    <3>2. ~Holding(s)'
      BY <2>2 DEF Begin, Go, Holding, InstalledInv, InstallsTypeOK, Commands
    <3>. QED BY <1>4, <2>0, <3>1, <3>2 DEF None
  <2>3. CASE Fetch(s)
    <3>1. UNCHANGED <<bin, release>> /\ want'[s] = release
      BY <2>3 DEF Fetch, files, InstalledInv, InstallsTypeOK
    <3>2. InstalledVersion <= release
      BY DEF ReleaseInv, InstalledVersion, File, InstalledInv, MachineInv, None
    <3>. QED BY <2>0, <3>1, <3>2 DEF ReleaseInv, InstalledVersion, File
  <2>4. CASE Runs(s) /\ ~Fetch(s) /\ Holding(s)'
    <3>1. UNCHANGED <<bin, release, want>> /\ Holding(s)
      BY <2>4, OnlyFetchHolds, StepsAside DEF InstalledInv
    <3>. QED BY <2>0, <3>1 DEF ReleaseInv, InstalledVersion, File
  <2>5. CASE Runs(s) /\ ~Fetch(s) /\ ~Holding(s)'
    <3>1. CASE ~Unlink(s) /\ ~MoveBinary(s) /\ ~Commit(s) /\ ~Erase(s)
      <4>1. UNCHANGED <<bin, release, want>> BY <2>5, <3>1, StepsAside
      <4>. QED BY <1>4, <2>0, <2>5, <4>1 DEF ReleaseInv
    <3>2. CASE Unlink(s) \/ MoveBinary(s) \/ Commit(s) \/ Erase(s)
      <4>1. UNCHANGED <<release, want>>
        BY <3>2 DEF Unlink, MoveBinary, Commit, Erase, Same
      <4>2. \A n \in Names : bin'[n] \in Versions => bin'[n] <= release
        <5>1. CASE Unlink(s) BY <5>1 DEF Unlink, ReleaseInv, InstalledInv, InstallsTypeOK
        <5>2. CASE MoveBinary(s) BY <5>2 DEF MoveBinary, ReleaseInv, InstalledInv, InstallsTypeOK
        <5>3. CASE Commit(s)
          BY <5>3 DEF Commit, At, ReleaseInv, InstalledInv, SessionInv, InstallInv, InstallsTypeOK
        <5>4. CASE Erase(s) BY <5>4 DEF Erase, ReleaseInv, InstalledInv, InstallsTypeOK
        <5>. QED BY <3>2, <5>1, <5>2, <5>3, <5>4
      <4>. QED BY <2>0, <2>5, <4>1, <4>2 DEF ReleaseInv
    <3>. QED BY <3>1, <3>2
  <2>. QED BY <1>5, <2>1, <2>2, <2>3, <2>4, <2>5
<1>. QED BY <1>1, <1>2, <1>3, <1>5 DEF InstallsNext, installsVars, files

LEMMA ReleasesHold == OneSession /\ InstallsSpec => [](InstalledInv /\ ReleaseInv)
<1>1. InstallsInit => ReleaseInv
  <2>. SUFFICES ASSUME InstallsInit PROVE ReleaseInv OBVIOUS
  <2>1. release = 1 /\ \A s \in Sessions : pc[s] = "idle" /\ want[s] = None BY DEF InstallsInit
  <2>2. bin \in [Names -> {None, 1, Link}] BY Values DEF InstallsInit
  <2>3. \A n \in Names : bin[n] \in Versions => bin[n] = 1 BY <2>2, Values
  <2>. QED BY <2>1, <2>3 DEF ReleaseInv, Holding, None
<1>. QED BY <1>1, InstalledHolds, ReleaseNext, PTL DEF InstallsSpec

\* A step that leaves the binaries alone starts and stops processes, of what is there.
LEMMA Turns ==
  ASSUME InstalledInv, InstalledInv', UNCHANGED <<bin, release>>
  PROVE  E!Turn
<1>1. UNCHANGED <<InstalledVersion, Spare>> BY DEF InstalledVersion, Spare, File
<1>2. InstalledRuns' \in {None, InstalledVersion}
  BY Values DEF InstalledInv, MachineInv, InstalledRuns, InstalledVersion, Program, File
<1>3. SpareRuns' \in {None, Spare}
  BY Values DEF InstalledInv, MachineInv, SpareRuns, Spare, Program, File
<1>4. E!None = None BY DEF E!None, None
<1>. QED BY <1>1, <1>2, <1>3, <1>4 DEF E!Turn

\* What an install puts in place is not older than what was there, which does not run under
\* the name it takes; what has the old name stays there, and may run.
LEMMA PutsInPlace ==
  ASSUME NEW s \in Sessions, InstalledInv, InstalledInv', ReleaseInv, Commit(s)
  PROVE  \E version \in 1 .. release : E!Replace(version) \/ E!PlaceBeside(version)
<1>. USE Values
<1>1. /\ bin' = [bin EXCEPT ![Public] = want[s]] /\ want[s] \in Versions
      /\ daemon[Public] = None /\ UNCHANGED <<daemon, release>>
  BY DEF Commit, At, Same, service, InstalledInv, SessionInv, InstallInv, Placing
<1>2. want[s] \in InstalledVersion .. release /\ want[s] \in 1 .. release /\ want[s] # None
  <2>1. InstalledVersion <= want[s] /\ want[s] <= release
    BY DEF ReleaseInv, Holding, Commit, At
  <2>2. InstalledVersion \in Nat
    BY DEF InstalledVersion, File, InstalledInv, MachineInv, Versions, None
  <2>3. release \in Nat BY DEF InstalledInv, InstallsTypeOK, Versions
  <2>. QED BY <1>1, <2>1, <2>2, <2>3 DEF Versions, None
<1>3. bin'[Public] = want[s] /\ bin'[Legacy] = bin[Legacy]
  BY <1>1 DEF InstalledInv, InstallsTypeOK
<1>4. InstalledVersion' = want[s] /\ InstalledRuns' = None
  BY <1>1, <1>2, <1>3 DEF InstalledVersion, InstalledRuns
<1>5. daemon[Legacy] # None => File(Legacy)
  BY DEF InstalledInv, MachineInv, Program, File
<1>6. CASE bin[Public] # None \/ ~File(Legacy)
  <2>1. InstalledRuns = None BY <1>1, <1>5, <1>6 DEF InstalledRuns
  <2>2. Spare' = Spare BY <1>2, <1>3, <1>6 DEF Spare, File
  <2>3. SpareRuns' = SpareRuns BY <1>1, <1>2, <1>3, <1>5, <1>6 DEF SpareRuns
  <2>4. E!Replace(want[s]) BY <1>1, <1>2, <1>4, <2>1, <2>2, <2>3 DEF E!Replace, E!processes, E!None, None
  <2>. QED BY <1>2, <2>4
<1>7. CASE bin[Public] = None /\ File(Legacy)
  <2>1. Spare = None /\ Spare' = InstalledVersion
    BY <1>2, <1>3, <1>7 DEF Spare, InstalledVersion, File
  <2>2. SpareRuns' = InstalledRuns BY <1>1, <1>2, <1>3, <1>7 DEF SpareRuns, InstalledRuns
  <2>3. E!PlaceBeside(want[s])
    BY <1>1, <1>2, <1>4, <2>1, <2>2 DEF E!PlaceBeside, E!None, None
  <2>. QED BY <1>2, <2>3
<1>. QED BY <1>6, <1>7

\* A migration moves what is under the old name, or drops it where it is not needed, while
\* the old unit is down.
LEMMA MoveIsUnseen ==
  ASSUME NEW s \in Sessions, InstalledInv, InstalledInv', MoveBinary(s)
  PROVE  E!Tidy
<1>. USE Values
<1>1. /\ bin' = [bin EXCEPT ![Public] = IF @ = None THEN bin[Legacy] ELSE @, ![Legacy] = None]
      /\ File(Legacy) /\ daemon[Legacy] = None /\ UNCHANGED <<daemon, release>>
  BY DEF MoveBinary, At, Same, service, InstalledInv, SessionInv, MigrationInv
<1>2. /\ bin'[Public] = IF bin[Public] = None THEN bin[Legacy] ELSE bin[Public]
      /\ bin'[Legacy] = None
  BY <1>1 DEF InstalledInv, InstallsTypeOK
<1>3. InstalledVersion' = InstalledVersion BY <1>1, <1>2 DEF InstalledVersion, File
<1>4. Spare' = None BY <1>2 DEF Spare, File
<1>5. SpareRuns = None /\ SpareRuns' = None BY <1>1 DEF SpareRuns
<1>6. InstalledRuns' = InstalledRuns
  BY <1>1, <1>2 DEF InstalledRuns, InstalledInv, MachineInv, Program, File
<1>. QED BY <1>1, <1>3, <1>4, <1>5, <1>6 DEF E!Tidy, E!processes, E!None, None

\* A link is nothing that is installed.
LEMMA UnlinkIsUnseen ==
  ASSUME NEW s \in Sessions, InstalledInv, InstalledInv', Unlink(s)
  PROVE  UNCHANGED <<release, InstalledVersion, Spare, InstalledRuns, SpareRuns>>
<1>. USE Values
<1>1. /\ bin' = bin \/ bin' = [bin EXCEPT ![Legacy] = None]
      /\ bin[Legacy] = Link /\ UNCHANGED <<daemon, release>>
  BY DEF Unlink, At, Same, service, InstalledInv, SessionInv, MigrationInv
<1>2. bin'[Public] = bin[Public] /\ bin'[Legacy] \in {None, Link}
  BY <1>1 DEF InstalledInv, InstallsTypeOK
<1>. QED BY <1>1, <1>2 DEF InstalledVersion, Spare, InstalledRuns, SpareRuns, File

\* A removal takes the binaries when nothing runs, the installed one first.
LEMMA Erases ==
  ASSUME NEW s \in Sessions, InstalledInv, InstalledInv', Erase(s)
  PROVE  E!Remove
<1>. USE Values
<1>1. /\ bin' = [bin EXCEPT ![IF bin[Public] # None THEN Public ELSE Legacy] = None]
      /\ \A n \in Names : daemon[n] = None
      /\ UNCHANGED <<daemon, release>>
  BY DEF Erase, At, Same, service, InstalledInv, SessionInv, RemovalInv
<1>2. bin'[Public] = None /\ bin'[Legacy] = IF bin[Public] # None THEN bin[Legacy] ELSE None
  BY <1>1 DEF InstalledInv, InstallsTypeOK
<1>3. InstalledVersion' = Spare /\ Spare' = None
  BY <1>2 DEF InstalledVersion, Spare, File
<1>4. /\ InstalledRuns = None /\ SpareRuns = None
      /\ InstalledRuns' = None /\ SpareRuns' = None
  BY <1>1 DEF InstalledRuns, SpareRuns
<1>. QED BY <1>1, <1>3, <1>4 DEF E!Remove, E!processes, E!None, None

LEMMA EngineStep ==
  ASSUME InstalledInv, InstalledInv', ReleaseInv, [InstallsNext]_installsVars
  PROVE  [E!Next]_(E!vars)
<1>. USE DEF E!Next
<1>1. CASE UNCHANGED <<bin, release>> BY <1>1, Turns
<1>2. CASE Publish
  <2>1. UNCHANGED <<bin, daemon>> /\ release' = release + 1 BY <1>2 DEF Publish, files, service
  <2>2. UNCHANGED <<InstalledVersion, Spare, InstalledRuns, SpareRuns>>
    BY <2>1 DEF InstalledVersion, Spare, InstalledRuns, SpareRuns, File
  <2>. QED BY <2>1, <2>2 DEF E!Publish, E!processes
<1>3. CASE Reboot BY <1>1, <1>3 DEF Reboot, files
<1>4. ASSUME NEW s \in Sessions, Kill(s) \/ \E c \in Commands : Begin(s, c)
      PROVE  [E!Next]_(E!vars)
  BY <1>1, <1>4 DEF Kill, Begin, files
<1>5. ASSUME NEW s \in Sessions, Runs(s) PROVE [E!Next]_(E!vars)
  <2>1. CASE Fetch(s) BY <1>1, <2>1 DEF Fetch, files
  <2>2. CASE Unlink(s) BY <2>2, UnlinkIsUnseen DEF E!vars, E!processes
  <2>3. CASE MoveBinary(s) BY <2>3, MoveIsUnseen
  <2>4. CASE Commit(s) BY <2>4, PutsInPlace
  <2>5. CASE Erase(s) BY <2>5, Erases
  <2>. QED BY <1>1, <1>5, <2>1, <2>2, <2>3, <2>4, <2>5, StepsAside
<1>. QED BY <1>1, <1>2, <1>3, <1>4, <1>5 DEF InstallsNext, installsVars, files

\* Where one session gives the commands: to somebody who sees the version that is installed
\* and whether it runs, the engine is one engine. A migration changes neither, a cut leaves
\* what was there or what was to be there, nothing is replaced by an older version or under
\* the process that runs it (install_one, migrate_one, remove_one).
THEOREM OneEngine == OneSession /\ InstallsSpec => ImplementsEngine
<1>1. InstallsInit /\ InstalledInv => E!Init
  <2>. SUFFICES ASSUME InstallsInit, InstalledInv PROVE E!Init OBVIOUS
  <2>. USE Values
  <2>1. release = 1 /\ bin \in [Names -> {None, 1, Link}] BY DEF InstallsInit
  <2>2. InstalledVersion \in {None, 1} /\ Spare \in {None, 1} /\ (Spare # None => bin[Public] # None)
    BY <2>1 DEF InstalledVersion, Spare, File, InstalledInv, MachineInv
  <2>3. InstalledRuns \in {None, InstalledVersion}
    BY DEF InstalledRuns, InstalledVersion, InstalledInv, MachineInv, Program, File
  <2>4. SpareRuns \in {None, Spare}
    BY DEF SpareRuns, Spare, InstalledInv, MachineInv, Program, File
  <2>5. Spare \in {None, InstalledVersion}
    BY <2>1, <2>2 DEF InstalledVersion, InstalledInv, MachineInv
  <2>. QED BY <2>1, <2>2, <2>3, <2>4, <2>5 DEF E!Init, E!None, None
<1>2. InstalledInv /\ InstalledInv' /\ ReleaseInv /\ [InstallsNext]_installsVars => [E!Next]_(E!vars)
  BY EngineStep
<1>. QED BY <1>1, <1>2, ReleasesHold, PTL DEF InstallsSpec, ImplementsEngine, E!Spec

-----------------------------------------------------------------------------
(* Callbacks *)

USE OobAssumption

-----------------------------------------------------------------------------
(* What a registration keeps *)

LEMMA EmptyItems == Items(<<>>) = {}
BY DEF Items

LEMMA ItemsOfSeq == ASSUME NEW S, NEW q \in Seq(S) PROVE Items(q) \subseteq S
<1>. Len(q) \in Nat BY LenProperties
<1>. QED BY ElementOfSeq DEF Items

\* Another callback is kept; the oldest goes when there is no room.
LEMMA ItemsOfAppend ==
  ASSUME NEW S, NEW q \in Seq(S), NEW p \in S
  PROVE  /\ Append(q, p) \in Seq(S) /\ Len(Append(q, p)) = Len(q) + 1 /\ Append(q, p) # <<>>
         /\ Items(Append(q, p)) = Items(q) \cup {p}
<1>. Len(q) \in Nat BY LenProperties
<1>. DEFINE t == Append(q, p)
<1>1. /\ t \in Seq(S) /\ Len(t) = Len(q) + 1
      /\ \A i \in 1 .. Len(q) : t[i] = q[i]
      /\ t[Len(q) + 1] = p
  BY AppendProperties
<1>. HIDE DEF t
<1>2. t # <<>> BY <1>1, EmptySeq
<1>3. \A x : x \in Items(t) <=> x \in Items(q) \cup {p} BY <1>1 DEF Items
<1>. QED BY <1>1, <1>2, <1>3 DEF t

LEMMA ItemsOfTail ==
  ASSUME NEW S, NEW q \in Seq(S), q # <<>>
  PROVE  /\ Tail(q) \in Seq(S) /\ Len(Tail(q)) = Len(q) - 1 /\ Head(q) \in S
         /\ Items(Tail(q)) \subseteq Items(q) /\ Items(q) \subseteq {Head(q)} \cup Items(Tail(q))
<1>. Len(q) \in Nat BY LenProperties
<1>. DEFINE t == Tail(q)
<1>1. /\ Head(q) \in S /\ t \in Seq(S) /\ Len(q) > 0 /\ Len(t) = Len(q) - 1
      /\ \A j \in 1 .. Len(q) - 1 : t[j] = q[j + 1]
      /\ Head(q) = q[1]
  BY HeadTailProperties, EmptySeq
<1>. HIDE DEF t
<1>2. Items(t) \subseteq Items(q) BY <1>1 DEF Items
<1>3. ASSUME NEW i \in 1 .. Len(q), i # 1 PROVE q[i] \in Items(t)
  <2>1. i - 1 \in 1 .. Len(t) /\ t[i - 1] = q[(i - 1) + 1] /\ (i - 1) + 1 = i BY <1>1, <1>3
  <2>. QED BY <2>1 DEF Items
<1>4. Items(q) \subseteq {Head(q)} \cup Items(t) BY <1>1, <1>3 DEF Items
<1>. QED BY <1>1, <1>2, <1>4 DEF t

LEMMA CorrTypes ==
  /\ \A c \in Corrs : c[1] \in Scans
  /\ \A s \in Scans, n \in 1 .. Attempts : <<s, n>> \in Corrs /\ <<s, n>>[1] = s
BY DEF Corrs

-----------------------------------------------------------------------------
(* Types *)

StoreType ==
  /\ regs \subseteq Corrs /\ lapsed \subseteq regs
  /\ IsFiniteSet(regs) /\ Cardinality(regs) <= MaxRegs
  /\ kept \in [Corrs -> Seq(Payloads)] /\ \A c \in Corrs : Len(kept[c]) <= Cap
HandlersType ==
  /\ sealing \subseteq Corrs \X Payloads /\ expired \subseteq Corrs /\ draining \subseteq Corrs
  /\ leaving \in [Corrs -> {"no", "checked", "removed"}]
\* A scan that may still register has attempts left, one that may still poll has polls left,
\* and what it parks and asks for goes under a registration of its own.
ScanType ==
  /\ place \in [Scans -> {"register", "pass", "poll", "wait", "match", "leave", "done"}]
  /\ tries \in [Scans -> 0..Attempts] /\ corr \in [Scans -> Corrs \cup {Nobody}]
  /\ polls \in [Scans -> 0..Polls]
  /\ parked \in [Scans -> SUBSET Payloads] /\ hosts \in [Scans -> SUBSET Payloads]
  /\ found \in [Scans -> SUBSET Payloads]
  /\ \A s \in Scans :
       /\ place[s] = "register" => tries[s] < Attempts
       /\ place[s] \in {"register", "pass"} => polls[s] = 0
       /\ place[s] = "poll" => polls[s] < Polls
       /\ corr[s] \in Corrs => corr[s][1] = s
       /\ parked[s] # {} \/ place[s] \in {"poll", "wait", "match", "leave"} => corr[s] \in Corrs
HistoryType ==
  /\ called \in [Scans -> SUBSET Payloads]
  /\ stored \in [Scans -> SUBSET Payloads] /\ lost \in [Scans -> SUBSET Payloads]
  /\ calls \in 0..MaxCalls /\ restarts \in 0..MaxRestarts /\ overtaken \subseteq Corrs
TypeInv == StoreType /\ HandlersType /\ ScanType /\ HistoryType

LEMMA TypeInvTypes == TypeInv => TypeOK
BY DEF TypeInv, StoreType, HandlersType, ScanType, HistoryType, TypeOK

LEMMA InitType == Init => TypeInv
<1> SUFFICES ASSUME Init PROVE TypeInv
  OBVIOUS
<1>1. StoreType
  <2>1. <<>> \in Seq(Payloads) /\ Len(<<>>) = 0 OBVIOUS
  <2>2. IsFiniteSet({}) /\ Cardinality({}) = 0 BY FS_EmptySet
  <2>. QED BY <2>1, <2>2 DEF Init, StoreType
<1>2. HandlersType BY DEF Init, HandlersType
<1>3. ScanType
  <2>1. \A s \in Scans : corr[s] = Nobody /\ place[s] = "register" /\ parked[s] = {} BY DEF Init
  <2>2. Nobody \notin Corrs BY DEF Nobody, Corrs
  <2>. QED BY <2>1, <2>2 DEF Init, ScanType
<1>4. HistoryType BY DEF Init, HistoryType
<1>. QED BY <1>1, <1>2, <1>3, <1>4 DEF TypeInv

\* The steps of a scan: each leaves the others alone.
LEMMA ScanStepType == ASSUME NEW s \in Scans, TypeInv, ScanStep(s) PROVE TypeInv'
<1> USE CorrTypes DEF TypeInv, store, handlers, history, Goes, Answered
<1>1. ASSUME NEW heard \in BOOLEAN, Register(s, heard) PROVE TypeInv'
  <2>. DEFINE c == <<s, tries[s] + 1>>
  <2>1. tries[s] + 1 \in 1 .. Attempts BY <1>1 DEF Register, ScanType
  <2>2. c \in Corrs /\ c[1] = s /\ c[2] = tries[s] + 1 BY <2>1
  <2>. DEFINE ok == c \in regs \/ Cardinality(regs) < MaxRegs
  <2>3. /\ place[s] = "register"
        /\ regs' = IF ok THEN regs \cup {c} ELSE regs
        /\ tries' = [tries EXCEPT ![s] = @ + 1]
        /\ \/ corr' = [corr EXCEPT ![s] = c] /\ place' = [place EXCEPT ![s] = "pass"]
           \/ UNCHANGED <<corr, place>> /\ c[2] < Attempts
           \/ UNCHANGED corr /\ place' = [place EXCEPT ![s] = "pass"]
        /\ UNCHANGED <<lapsed, kept, handlers, parked, polls, hosts, found, history>>
    BY <1>1 DEF Register
  <2>4. StoreType'
    <3>1. CASE c \in regs \/ ~ok
      <4>1. regs' = regs BY <2>3, <3>1
      <4>. QED BY <2>3, <4>1 DEF StoreType
    <3>2. CASE c \notin regs /\ ok
      <4>1. regs' = regs \cup {c} /\ Cardinality(regs) < MaxRegs BY <2>3, <3>2
      <4>2. IsFiniteSet(regs') /\ Cardinality(regs') = Cardinality(regs) + 1
        BY <3>2, <4>1, FS_AddElement DEF StoreType
      <4>3. Cardinality(regs) \in Nat BY FS_CardinalityType DEF StoreType
      <4>. HIDE DEF c
      <4>. QED BY <2>2, <2>3, <4>1, <4>2, <4>3 DEF StoreType
    <3>. QED BY <3>1, <3>2
  <2>5. ScanType'
    <3>. HIDE DEF c, ok
    <3>1. parked[s] = {} \/ corr[s] \in Corrs BY DEF ScanType
    <3>. QED BY <2>1, <2>2, <2>3, <3>1 DEF ScanType
  <2>6. HandlersType' /\ HistoryType' BY <2>3 DEF HandlersType, HistoryType
  <2>. QED BY <2>4, <2>5, <2>6
<1>2. CASE RegisterLost(s)
  <2>1. StoreType' /\ HandlersType' /\ HistoryType'
    BY <1>2 DEF RegisterLost, StoreType, HandlersType, HistoryType
  <2>2. ScanType' BY <1>2 DEF RegisterLost, ScanType
  <2>. QED BY <2>1, <2>2
<1>3. CASE EndPass(s)
  <2>1. StoreType' /\ HandlersType' /\ HistoryType'
    BY <1>3 DEF EndPass, StoreType, HandlersType, HistoryType
  <2>2. ScanType' BY <1>3 DEF EndPass, ScanType
  <2>. QED BY <2>1, <2>2
<1>4. CASE Poll(s)
  <2>1. corr[s] \in Corrs BY <1>4 DEF Poll, ScanType
  <2>2. StoreType' /\ HistoryType' BY <1>4 DEF Poll, StoreType, HistoryType
  <2>3. HandlersType' BY <1>4, <2>1 DEF Poll, HandlersType
  <2>4. ScanType' BY <1>4, <2>1 DEF Poll, ScanType
  <2>. QED BY <2>2, <2>3, <2>4
<1>5. CASE PollLost(s)
  <2>1. StoreType' /\ HandlersType' /\ HistoryType'
    BY <1>5 DEF PollLost, StoreType, HandlersType, HistoryType
  <2>2. ScanType' BY <1>5 DEF PollLost, ScanType
  <2>. QED BY <2>1, <2>2
<1>6. CASE GiveUp(s)
  <2>1. StoreType' /\ HandlersType' /\ HistoryType'
    BY <1>6 DEF GiveUp, StoreType, HandlersType, HistoryType
  <2>2. ScanType' BY <1>6 DEF GiveUp, ScanType
  <2>. QED BY <2>1, <2>2
<1>7. CASE Match(s)
  <2>1. StoreType' /\ HandlersType' /\ HistoryType'
    BY <1>7 DEF Match, StoreType, HandlersType, HistoryType
  <2>2. ScanType' BY <1>7 DEF Match, ScanType
  <2>. QED BY <2>1, <2>2
<1>8. CASE Leave(s)
  <2>1. StoreType' /\ HistoryType' BY <1>8 DEF Leave, StoreType, HistoryType
  <2>2. HandlersType' BY <1>8 DEF Leave, HandlersType
  <2>3. ScanType' BY <1>8 DEF Leave, ScanType
  <2>. QED BY <2>1, <2>2, <2>3
<1>. QED BY <1>1, <1>2, <1>3, <1>4, <1>5, <1>6, <1>7, <1>8 DEF ScanStep

LEMMA LoseKeptType ==
  ASSUME TypeInv, NEW ids \in SUBSET Corrs, LoseKept(ids)
  PROVE  /\ lost' \in [Scans -> SUBSET Payloads]
         /\ \A s \in Scans : lost[s] \subseteq lost'[s]
         /\ \A c \in ids : Items(kept[c]) \subseteq lost'[c[1]]
<1>1. \A c \in Corrs : Items(kept[c]) \subseteq Payloads
  BY ItemsOfSeq DEF TypeInv, StoreType
<1>2. \A s \in Scans : lost'[s] = lost[s] \cup UNION {Items(kept[c]) : c \in {d \in ids : d[1] = s}}
  BY DEF LoseKept
<1>3. \A s \in Scans : lost'[s] \subseteq Payloads BY <1>1, <1>2 DEF TypeInv, HistoryType
<1>4. lost' \in [Scans -> SUBSET Payloads] BY <1>3 DEF LoseKept
<1>5. ASSUME NEW c \in ids PROVE Items(kept[c]) \subseteq lost'[c[1]]
  <2>1. c[1] \in Scans /\ c \in {d \in ids : d[1] = c[1]} BY CorrTypes
  <2>. QED BY <1>2, <2>1
<1>. QED BY <1>2, <1>4, <1>5

\* Ids leave the registrations: those that stay are fewer.
LEMMA UnregisterType ==
  ASSUME TypeInv, NEW ids \in SUBSET Corrs, Unregister(ids), UNCHANGED kept
  PROVE  StoreType' /\ overtaken' \subseteq Corrs
<1>1. regs' \subseteq regs /\ regs' = regs \ ids /\ lapsed' = lapsed \ ids BY DEF Unregister
<1>2. IsFiniteSet(regs') /\ Cardinality(regs') <= Cardinality(regs)
  BY <1>1, FS_Subset DEF TypeInv, StoreType
<1>3. Cardinality(regs') \in Nat /\ Cardinality(regs) \in Nat
  BY <1>2, FS_CardinalityType DEF TypeInv, StoreType
<1>4. StoreType' BY <1>1, <1>2, <1>3 DEF TypeInv, StoreType
<1>. QED BY <1>4 DEF Unregister, TypeInv, HistoryType

LEMMA ServerStepType ==
  ASSUME NEW c \in Corrs, TypeInv, ServerStep(c) \/ Lapse(c) PROVE TypeInv'
<1> USE CorrTypes DEF TypeInv, store, handlers, scan, history
<1>0. c[1] \in Scans /\ kept[c] \in Seq(Payloads) /\ Len(kept[c]) <= Cap /\ Len(kept[c]) \in Nat
      /\ Items(kept[c]) \subseteq Payloads
  BY LenProperties, ItemsOfSeq DEF StoreType
<1>1. CASE Drain(c)
  <2>1. StoreType'
    <3>1. kept' = [kept EXCEPT ![c] = <<>>] /\ UNCHANGED <<regs, lapsed>> BY <1>1 DEF Drain
    <3>2. <<>> \in Seq(Payloads) /\ Len(<<>>) = 0 OBVIOUS
    <3>. QED BY <3>1, <3>2 DEF StoreType
  <2>2. HandlersType' BY <1>1 DEF Drain, HandlersType
  <2>3. CASE place[c[1]] = "wait" /\ Answered(c[1], Items(kept[c]), polls[c[1]] = Polls) /\ UNCHANGED <<lost, polls>>
    <3>1. ScanType' BY <1>0, <1>1, <2>3 DEF Drain, Answered, Goes, ScanType
    <3>2. HistoryType' BY <1>1, <2>3 DEF Drain, HistoryType
    <3>. QED BY <2>1, <2>2, <3>1, <3>2
  <2>4. CASE LoseKept({c}) /\ UNCHANGED <<place, hosts, polls>>
    <3>1. ScanType' BY <1>1, <2>4 DEF Drain, ScanType
    <3>2. lost' \in [Scans -> SUBSET Payloads] BY <2>4, LoseKeptType
    <3>3. HistoryType' BY <1>1, <3>2 DEF Drain, HistoryType
    <3>. QED BY <2>1, <2>2, <3>1, <3>3
  <2>. QED BY <1>1, <2>3, <2>4 DEF Drain
<1>2. CASE Deregister(c)
  <2>1. Unregister({c}) /\ UNCHANGED kept BY <1>2 DEF Deregister
  <2>2. StoreType' /\ overtaken' \subseteq Corrs BY <2>1, UnregisterType
  <2>3. HandlersType' BY <1>2 DEF Deregister, HandlersType
  <2>4. ScanType' BY <1>2 DEF Deregister, ScanType
  <2>5. HistoryType' BY <1>2, <2>2 DEF Deregister, HistoryType
  <2>. QED BY <2>2, <2>3, <2>4, <2>5
<1>3. CASE Discard(c)
  <2>1. StoreType'
    <3>1. kept' = [kept EXCEPT ![c] = <<>>] /\ UNCHANGED <<regs, lapsed>> BY <1>3 DEF Discard
    <3>2. <<>> \in Seq(Payloads) /\ Len(<<>>) = 0 OBVIOUS
    <3>. QED BY <3>1, <3>2 DEF StoreType
  <2>2. lost' \in [Scans -> SUBSET Payloads] BY <1>3, LoseKeptType DEF Discard
  <2>3. HandlersType' BY <1>3 DEF Discard, HandlersType
  <2>4. ScanType' BY <1>3 DEF Discard, ScanType
  <2>5. HistoryType' BY <1>3, <2>2 DEF Discard, HistoryType
  <2>. QED BY <2>1, <2>3, <2>4, <2>5
<1>4. ASSUME NEW p \in Payloads, Keep(c, p) PROVE TypeInv'
  <2>. DEFINE all == Append(kept[c], p)
              full == Len(all) > Cap
  <2>1. /\ all \in Seq(Payloads) /\ Len(all) = Len(kept[c]) + 1 /\ all # <<>> BY <1>0, ItemsOfAppend
  <2>. HIDE DEF all
  <2>2. Tail(all) \in Seq(Payloads) /\ Len(Tail(all)) = Len(all) - 1 /\ Head(all) \in Payloads
    BY <2>1, ItemsOfTail
  <2>3. /\ kept' = [kept EXCEPT ![c] = IF full THEN Tail(all) ELSE all]
        /\ lost' = IF full THEN [lost EXCEPT ![c[1]] = @ \cup {Head(all)}] ELSE lost
        /\ stored' = [stored EXCEPT ![c[1]] = @ \cup {p}]
        /\ sealing' = sealing \ {<<c, p>>}
        /\ UNCHANGED <<regs, lapsed, expired, draining, leaving, scan, calls, restarts, called,
                 overtaken>>
    BY <1>4 DEF Keep, all
  <2>4. StoreType' BY <1>0, <2>1, <2>2, <2>3 DEF StoreType
  <2>5. HandlersType' BY <2>3 DEF HandlersType
  <2>6. ScanType' BY <2>3 DEF ScanType
  <2>7. HistoryType' BY <1>0, <2>2, <2>3 DEF HistoryType
  <2>. QED BY <2>4, <2>5, <2>6, <2>7
<1>5. CASE Lapse(c)
  <2>1. StoreType' BY <1>5 DEF Lapse, StoreType
  <2>2. HandlersType' /\ ScanType' /\ HistoryType'
    BY <1>5 DEF Lapse, HandlersType, ScanType, HistoryType
  <2>. QED BY <2>1, <2>2
<1>. QED BY <1>1, <1>2, <1>3, <1>4, <1>5 DEF ServerStep

LEMMA OtherType ==
  ASSUME TypeInv,
         \/ \E s \in Scans, p \in Payloads : Park(s, p) \/ CallBack(s, p)
         \/ Collector \/ Restart
  PROVE  TypeInv'
<1> USE CorrTypes DEF TypeInv, store, handlers, scan, history
<1>1. ASSUME NEW s \in Scans, NEW p \in Payloads, Park(s, p) PROVE TypeInv'
  <2>1. corr[s] \in Corrs BY <1>1 DEF Park, ScanType
  <2>2. ScanType' BY <1>1, <2>1 DEF Park, ScanType
  <2>3. StoreType' /\ HandlersType' /\ HistoryType'
    BY <1>1 DEF Park, StoreType, HandlersType, HistoryType
  <2>. QED BY <2>2, <2>3
<1>2. ASSUME NEW s \in Scans, NEW p \in Payloads, CallBack(s, p) PROVE TypeInv'
  <2>1. corr[s] \in Corrs BY <1>2 DEF CallBack, ScanType
  <2>2. HandlersType' BY <1>2, <2>1 DEF CallBack, HandlersType
  <2>3. StoreType' /\ ScanType' BY <1>2 DEF CallBack, StoreType, ScanType
  <2>4. HistoryType' BY <1>2 DEF CallBack, HistoryType
  <2>. QED BY <2>2, <2>3, <2>4
<1>3. CASE Collect
  <2>1. lapsed \in SUBSET Corrs /\ Unregister(lapsed) /\ UNCHANGED kept
    BY <1>3 DEF Collect, StoreType
  <2>2. StoreType' /\ overtaken' \subseteq Corrs BY <2>1, UnregisterType
  <2>3. HandlersType' BY <1>3, <2>1 DEF Collect, HandlersType
  <2>4. ScanType' BY <1>3 DEF Collect, ScanType
  <2>5. HistoryType' BY <1>3, <2>2 DEF Collect, HistoryType
  <2>. QED BY <2>2, <2>3, <2>4, <2>5
<1>4. CASE Sweep
  <2>1. StoreType'
    <3>1. <<>> \in Seq(Payloads) /\ Len(<<>>) = 0 OBVIOUS
    <3>. QED BY <1>4, <3>1 DEF Sweep, StoreType
  <2>2. expired \in SUBSET Corrs /\ LoseKept(expired) BY <1>4 DEF Sweep, HandlersType
  <2>3. lost' \in [Scans -> SUBSET Payloads] BY <2>2, LoseKeptType
  <2>4. HandlersType' BY <1>4 DEF Sweep, HandlersType
  <2>5. ScanType' BY <1>4 DEF Sweep, ScanType
  <2>6. HistoryType' BY <1>4, <2>3 DEF Sweep, HistoryType
  <2>. QED BY <2>1, <2>4, <2>5, <2>6
<1>5. CASE Restart
  <2>1. StoreType'
    <3>1. <<>> \in Seq(Payloads) /\ Len(<<>>) = 0 OBVIOUS
    <3>2. IsFiniteSet({}) /\ Cardinality({}) = 0 BY FS_EmptySet
    <3>. QED BY <1>5, <3>1, <3>2 DEF Restart, StoreType
  <2>2. lost' \in [Scans -> SUBSET Payloads]
    <3>1. LoseKept(Corrs) BY <1>5 DEF Restart
    <3>. QED BY <3>1, LoseKeptType
  <2>3. HandlersType' BY <1>5 DEF Restart, HandlersType
  <2>4. ScanType' BY <1>5 DEF Restart, ScanType
  <2>5. HistoryType' BY <1>5, <2>2 DEF Restart, HistoryType
  <2>. QED BY <2>1, <2>3, <2>4, <2>5
<1>. QED BY <1>1, <1>2, <1>3, <1>4, <1>5 DEF Collector

LEMMA NextType == TypeInv /\ [Next]_vars => TypeInv'
<1> SUFFICES ASSUME TypeInv, [Next]_vars PROVE TypeInv'
  OBVIOUS
<1>1. CASE UNCHANGED vars
  BY <1>1 DEF vars, store, handlers, scan, history, TypeInv, StoreType, HandlersType, ScanType, HistoryType
<1>. QED BY <1>1, ScanStepType, ServerStepType, OtherType DEF Next

LEMMA TypesHold == Spec => []TypeInv
<1>. QED BY InitType, NextType, PTL DEF Spec

\* Types, among them the two limits of the store: no more ids registered and no more kept
\* for an id than it allows, for any number of scans that register at once.
THEOREM TypeCorrect == Spec => []TypeOK
<1>. QED BY TypesHold, TypeInvTypes, PTL
-----------------------------------------------------------------------------
(* Callbacks are proof *)

\* A payload on its way from the target to the report, at each of its stations, was called
\* back for: while the capture seals it, while it is kept, and in the scan's hands.
Genuine ==
  /\ \A c \in Corrs, p \in Payloads : <<c, p>> \in sealing => p \in called[c[1]]
  /\ \A c \in Corrs : Items(kept[c]) \subseteq called[c[1]]
  /\ \A s \in Scans : hosts[s] \subseteq called[s]
  /\ FoundCalledBack

LEMMA InitGenuine == Init => Genuine
BY EmptyItems DEF Init, Genuine, FoundCalledBack

\* A step that takes nothing back and gives nothing out keeps it.
LEMMA GenuineStays ==
  ASSUME TypeInv, Genuine, sealing' \subseteq sealing,
         \A c \in Corrs : Items(kept'[c]) \subseteq Items(kept[c]),
         UNCHANGED <<called, found>>,
         \A s \in Scans : hosts'[s] \subseteq hosts[s]
  PROVE  Genuine'
<1>1. \A s \in Scans : hosts'[s] \subseteq called'[s] BY DEF Genuine
<1>2. \A c \in Corrs : Items(kept[c])' \subseteq called'[c[1]] BY DEF Genuine
<1>. QED BY <1>1, <1>2 DEF Genuine, FoundCalledBack

LEMMA NextGenuine == TypeInv /\ Genuine /\ [Next]_vars => Genuine'
<1> SUFFICES ASSUME TypeInv, Genuine, [Next]_vars PROVE Genuine'
  OBVIOUS
<1> USE CorrTypes DEF store, handlers, scan, history, Goes, Answered
<1>1. ASSUME NEW s \in Scans, ScanStep(s) PROVE Genuine'
  <2>1. CASE ~Match(s)
    <3>1. UNCHANGED <<kept, sealing, called, found>>
      BY <1>1, <2>1 DEF ScanStep, Register, RegisterLost, EndPass, Poll, PollLost, GiveUp, Leave
    <3>2. hosts' = hosts \/ hosts' = [hosts EXCEPT ![s] = {}]
      BY <1>1, <2>1 DEF ScanStep, Register, RegisterLost, EndPass, Poll, PollLost, GiveUp, Leave
    <3>3. \A x \in Scans : hosts'[x] \subseteq hosts[x] BY <3>2 DEF TypeInv, ScanType
    <3>. QED BY <3>1, <3>3, GenuineStays
  <2>2. CASE Match(s)
    <3>1. found' = [found EXCEPT ![s] = parked[s] \cap hosts[s]] BY <2>2 DEF Match
    <3>2. UNCHANGED <<kept, sealing, called, hosts>> BY <2>2 DEF Match
    <3>3. FoundCalledBack' BY <3>1, <3>2 DEF TypeInv, ScanType, Genuine, FoundCalledBack
    <3>. QED BY <3>2, <3>3 DEF Genuine
  <2>. QED BY <2>1, <2>2
<1>2. ASSUME NEW c \in Corrs, Drain(c) PROVE Genuine'
  <2>1. kept' = [kept EXCEPT ![c] = <<>>] /\ UNCHANGED <<sealing, called, found>>
    BY <1>2 DEF Drain
  <2>2. hosts' = hosts \/ hosts' = [hosts EXCEPT ![c[1]] = Items(kept[c])] BY <1>2 DEF Drain
  <2>3. \A d \in Corrs : Items(kept'[d]) \subseteq Items(kept[d])
    BY <2>1, EmptyItems DEF TypeInv, StoreType
  <2>4. \A x \in Scans : hosts'[x] \subseteq called'[x]
    <3>1. Items(kept[c]) \subseteq called[c[1]] BY DEF Genuine
    <3>2. \A x \in Scans : hosts'[x] = hosts[x] \/ (x = c[1] /\ hosts'[x] = Items(kept[c]))
      BY <2>2 DEF TypeInv, ScanType
    <3>. QED BY <2>1, <3>1, <3>2 DEF Genuine
  <2>5. \A d \in Corrs : Items(kept[d])' \subseteq called'[d[1]] BY <2>1, <2>3 DEF Genuine
  <2>. QED BY <2>1, <2>4, <2>5 DEF Genuine, FoundCalledBack
<1>3. ASSUME NEW c \in Corrs, NEW p \in Payloads, Keep(c, p) PROVE Genuine'
  <2>. DEFINE all == Append(kept[c], p)
  <2>1. /\ all \in Seq(Payloads) /\ all # <<>> /\ Items(all) = Items(kept[c]) \cup {p}
    BY ItemsOfAppend DEF TypeInv, StoreType
  <2>2. kept' = [kept EXCEPT ![c] = IF Len(all) > Cap THEN Tail(all) ELSE all] BY <1>3 DEF Keep
  <2>. HIDE DEF all
  <2>3. Items(Tail(all)) \subseteq Items(all) BY <2>1, ItemsOfTail
  <2>4. \A d \in Corrs : Items(kept'[d]) \subseteq Items(kept[d]) \cup (IF d = c THEN {p} ELSE {})
    BY <2>1, <2>2, <2>3 DEF TypeInv, StoreType
  <2>5. p \in called[c[1]] BY <1>3 DEF Keep, Genuine
  <2>6. UNCHANGED <<called, hosts, found>> /\ sealing' \subseteq sealing BY <1>3 DEF Keep
  <2>7. \A d \in Corrs : Items(kept[d])' \subseteq called'[d[1]]
    BY <2>4, <2>5, <2>6 DEF Genuine
  <2>. QED BY <2>6, <2>7 DEF Genuine, FoundCalledBack
<1>4. ASSUME NEW c \in Corrs, Deregister(c) \/ Lapse(c) PROVE Genuine'
  BY <1>4, GenuineStays DEF Deregister, Lapse
<1>5. ASSUME NEW c \in Corrs, Discard(c) PROVE Genuine'
  <2>1. \A d \in Corrs : Items(kept'[d]) \subseteq Items(kept[d])
    BY <1>5, EmptyItems DEF Discard, TypeInv, StoreType
  <2>. QED BY <1>5, <2>1, GenuineStays DEF Discard
<1>6. ASSUME NEW s \in Scans, NEW p \in Payloads, Park(s, p) PROVE Genuine'
  BY <1>6, GenuineStays DEF Park
<1>7. ASSUME NEW s \in Scans, NEW p \in Payloads, CallBack(s, p) PROVE Genuine'
  <2>1. corr[s] \in Corrs /\ corr[s][1] = s BY <1>7 DEF CallBack, TypeInv, ScanType
  <2>2. /\ called' = [called EXCEPT ![s] = @ \cup {p}]
        /\ sealing' \subseteq sealing \cup {<<corr[s], p>>}
        /\ UNCHANGED <<kept, hosts, found>>
    BY <1>7 DEF CallBack
  <2>3. \A x \in Scans : called[x] \subseteq called'[x] BY <2>2 DEF TypeInv, HistoryType
  <2>4. p \in called'[s] BY <2>2 DEF TypeInv, HistoryType
  <2>5. ASSUME NEW c \in Corrs, NEW q \in Payloads, <<c, q>> \in sealing' PROVE q \in called'[c[1]]
    <3>1. CASE <<c, q>> \in sealing BY <2>3, <3>1 DEF Genuine
    <3>2. CASE c = corr[s] /\ q = p BY <2>1, <2>4, <3>2
    <3>. QED BY <2>2, <2>5, <3>1, <3>2
  <2>6. \A c \in Corrs : Items(kept[c])' \subseteq called'[c[1]] BY <2>2, <2>3 DEF Genuine
  <2>7. \A x \in Scans : hosts'[x] \subseteq called'[x] /\ found'[x] \subseteq called'[x]
    BY <2>2, <2>3 DEF Genuine, FoundCalledBack
  <2>. QED BY <2>5, <2>6, <2>7 DEF Genuine, FoundCalledBack
<1>8. CASE Collect BY <1>8, GenuineStays DEF Collect
<1>9. CASE Sweep
  <2>1. \A d \in Corrs : Items(kept'[d]) \subseteq Items(kept[d]) BY <1>9, EmptyItems DEF Sweep
  <2>. QED BY <1>9, <2>1, GenuineStays DEF Sweep
<1>10. CASE Restart
  <2>1. \A d \in Corrs : Items(kept'[d]) \subseteq Items(kept[d]) BY <1>10, EmptyItems DEF Restart
  <2>. QED BY <1>10, <2>1, GenuineStays DEF Restart
<1>11. CASE UNCHANGED vars BY <1>11, GenuineStays DEF vars
<1>. QED BY <1>1, <1>2, <1>3, <1>4, <1>5, <1>6, <1>7, <1>8, <1>9, <1>10, <1>11
     DEF Next, ServerStep, Collector

\* A scan confirms a payload only if the target called back with that scan's own marker of
\* that payload, for any number of scans that share the store.
THEOREM CallbacksAreProof == Spec => []FoundCalledBack
<1>1. Genuine => FoundCalledBack BY DEF Genuine
<1>. QED BY <1>1, InitGenuine, NextGenuine, TypesHold, PTL DEF Spec

-----------------------------------------------------------------------------
(* No callback is lost between two calls of the store *)

\* A payload that was taken in, in words that show where it is. A scan that still polls
\* has no answer yet that the next one could overwrite.
Somewhere(s, p) ==
  p \in hosts[s] \/ p \in lost[s] \/ \E c \in Corrs : c[1] = s /\ p \in Items(kept[c])
Accounted ==
  /\ \A s \in Scans : \A p \in stored[s] : Somewhere(s, p)
  /\ \A s \in Scans : place[s] \in {"register", "pass", "poll", "wait"} => hosts[s] = {}

LEMMA AccountedIsAccounted == Accounted => EveryCallbackIsAccountedFor
<1> SUFFICES ASSUME Accounted, NEW s \in Scans, NEW p \in stored[s]
             PROVE  p \in hosts[s] \cup lost[s] \cup
                            UNION {Items(kept[c]) : c \in {d \in Corrs : d[1] = s}}
  BY DEF EveryCallbackIsAccountedFor
<1>1. Somewhere(s, p) BY DEF Accounted
<1>2. ASSUME NEW c \in Corrs, c[1] = s, p \in Items(kept[c])
      PROVE  p \in UNION {Items(kept[d]) : d \in {e \in Corrs : e[1] = s}}
  BY <1>2
<1>. QED BY <1>1, <1>2 DEF Somewhere

LEMMA InitAccounted == Init => Accounted
BY DEF Init, Accounted

\* A step is harmless if what it takes out of the store is given up or handed to the scan.
LEMMA AccountedStays ==
  ASSUME TypeInv, Accounted,
         \A s \in Scans, p \in Payloads : Somewhere(s, p) => Somewhere(s, p)',
         UNCHANGED stored,
         \A s \in Scans : place'[s] \in {"register", "pass", "poll", "wait"} => hosts'[s] = {}
  PROVE  Accounted'
BY DEF Accounted, TypeInv, HistoryType

LEMMA NextAccounted == TypeInv /\ Accounted /\ [Next]_vars => Accounted'
<1> SUFFICES ASSUME TypeInv, Accounted, [Next]_vars PROVE Accounted'
  OBVIOUS
<1> USE CorrTypes DEF store, handlers, scan, history, Goes
<1>0. ASSUME UNCHANGED <<kept, lost, hosts, stored, place>> PROVE Accounted'
  BY <1>0 DEF Accounted, Somewhere
<1>1. ASSUME NEW s \in Scans, ScanStep(s) PROVE Accounted'
  <2>1. UNCHANGED <<kept, lost, stored>>
    BY <1>1 DEF ScanStep, Register, RegisterLost, EndPass, Poll, PollLost, GiveUp, Match, Leave
  <2>2. CASE hosts' = hosts /\ place[s] \in {"register", "pass", "poll"}
    <3>1. \A x \in Scans : place'[x] \in {"register", "pass", "poll", "wait"} => hosts'[x] = {}
      <4>1. hosts[s] = {} BY <2>2 DEF Accounted
      <4>2. \A x \in Scans : x # s => place'[x] = place[x]
        BY <1>1 DEF ScanStep, Register, RegisterLost, EndPass, Poll, PollLost, GiveUp, Match,
                    Leave, Answered, TypeInv, ScanType
      <4>. QED BY <2>2, <4>1, <4>2 DEF Accounted
    <3>2. \A x \in Scans, p \in Payloads : Somewhere(x, p) => Somewhere(x, p)'
      BY <2>1, <2>2 DEF Somewhere
    <3>. QED BY <2>1, <3>1, <3>2, AccountedStays
  <2>3. CASE Match(s) \/ Leave(s)
    <3>1. hosts' = hosts /\ place' \in {[place EXCEPT ![s] = "leave"], [place EXCEPT ![s] = "done"]}
      BY <2>3 DEF Match, Leave
    <3>2. \A x \in Scans : place'[x] \in {"register", "pass", "poll", "wait"} => hosts'[x] = {}
      BY <3>1 DEF Accounted, TypeInv, ScanType
    <3>3. \A x \in Scans, p \in Payloads : Somewhere(x, p) => Somewhere(x, p)'
      BY <2>1, <3>1 DEF Somewhere
    <3>. QED BY <2>1, <3>2, <3>3, AccountedStays
  <2>4. CASE place[s] \in {"poll", "wait"} /\ hosts' = [hosts EXCEPT ![s] = {}]
    <3>1. hosts[s] = {} BY <2>4 DEF Accounted
    <3>2. hosts' = hosts BY <2>4, <3>1 DEF TypeInv, ScanType
    <3>3. \A x \in Scans : place'[x] \in {"register", "pass", "poll", "wait"} => hosts'[x] = {}
      <4>1. \A x \in Scans : x # s => place'[x] = place[x]
        BY <1>1 DEF ScanStep, Register, RegisterLost, EndPass, Poll, PollLost, GiveUp, Match,
                    Leave, Answered, TypeInv, ScanType
      <4>. QED BY <3>1, <3>2, <4>1 DEF Accounted
    <3>4. \A x \in Scans, p \in Payloads : Somewhere(x, p) => Somewhere(x, p)'
      BY <2>1, <3>2 DEF Somewhere
    <3>. QED BY <2>1, <3>3, <3>4, AccountedStays
  <2>. QED BY <1>1, <2>2, <2>3, <2>4
       DEF ScanStep, Register, RegisterLost, EndPass, Poll, PollLost, GiveUp, Answered
\* What the step removes unread is given up.
<1>2. ASSUME NEW ids \in SUBSET Corrs, LoseKept(ids),
             \A c \in Corrs : c \in ids \/ kept'[c] = kept[c],
             UNCHANGED <<hosts, stored, place>>
      PROVE  Accounted'
  <2>1. /\ \A s \in Scans : lost[s] \subseteq lost'[s]
        /\ \A c \in ids : Items(kept[c]) \subseteq lost'[c[1]]
    BY <1>2, LoseKeptType
  <2>2. ASSUME NEW s \in Scans, NEW p \in Payloads, Somewhere(s, p) PROVE Somewhere(s, p)'
    <3>1. CASE p \in hosts[s] \/ p \in lost[s] BY <1>2, <2>1, <3>1 DEF Somewhere
    <3>2. ASSUME NEW c \in Corrs, c[1] = s, p \in Items(kept[c]) PROVE Somewhere(s, p)'
      BY <1>2, <2>1, <3>2 DEF Somewhere
    <3>. QED BY <2>2, <3>1, <3>2 DEF Somewhere
  <2>. QED BY <1>2, <2>2, AccountedStays DEF Accounted
<1>3. ASSUME NEW c \in Corrs, Drain(c) PROVE Accounted'
  <2>1. kept' = [kept EXCEPT ![c] = <<>>] /\ UNCHANGED stored BY <1>3 DEF Drain
  <2>2. \A d \in Corrs : d = c \/ kept'[d] = kept[d] BY <2>1 DEF TypeInv, StoreType
  <2>3. CASE LoseKept({c}) /\ UNCHANGED <<place, hosts>>
    <3>1. \A d \in Corrs : d \in {c} \/ kept'[d] = kept[d] BY <2>2
    <3>. QED BY <1>2, <2>1, <2>3, <3>1
  <2>4. CASE /\ place[c[1]] = "wait" /\ Answered(c[1], Items(kept[c]), polls[c[1]] = Polls)
             /\ UNCHANGED lost
    <3>1. hosts[c[1]] = {} BY <2>4 DEF Accounted
    <3>2. /\ hosts' = [hosts EXCEPT ![c[1]] = Items(kept[c])]
          /\ place' = [place EXCEPT ![c[1]] =
               IF Items(kept[c]) # {} \/ polls[c[1]] = Polls THEN "match" ELSE "poll"]
      BY <2>4 DEF Answered
    <3>3. ASSUME NEW s \in Scans, NEW p \in Payloads, Somewhere(s, p) PROVE Somewhere(s, p)'
      <4>1. CASE p \in lost[s] BY <2>4, <4>1 DEF Somewhere
      <4>2. CASE p \in hosts[s]
        <5>1. s # c[1] BY <3>1, <4>2
        <5>. QED BY <3>2, <4>2, <5>1 DEF Somewhere, TypeInv, ScanType
      <4>3. ASSUME NEW d \in Corrs, d[1] = s, p \in Items(kept[d]) PROVE Somewhere(s, p)'
        <5>1. CASE d = c BY <3>2, <4>3, <5>1 DEF Somewhere, TypeInv, ScanType
        <5>2. CASE d # c BY <2>2, <4>3, <5>2 DEF Somewhere
        <5>. QED BY <5>1, <5>2
      <4>. QED BY <3>3, <4>1, <4>2, <4>3 DEF Somewhere
    <3>4. \A s \in Scans : place'[s] \in {"register", "pass", "poll", "wait"} => hosts'[s] = {}
      BY <3>2 DEF Accounted, TypeInv, ScanType
    <3>. QED BY <2>1, <3>3, <3>4, AccountedStays
  <2>. QED BY <1>3, <2>3, <2>4 DEF Drain
<1>4. ASSUME NEW c \in Corrs, NEW p \in Payloads, Keep(c, p) PROVE Accounted'
  <2>. DEFINE all == Append(kept[c], p)
              full == Len(all) > Cap
  <2>1. /\ all \in Seq(Payloads) /\ all # <<>> /\ Items(all) = Items(kept[c]) \cup {p}
    BY ItemsOfAppend DEF TypeInv, StoreType
  <2>2. /\ kept' = [kept EXCEPT ![c] = IF full THEN Tail(all) ELSE all]
        /\ lost' = IF full THEN [lost EXCEPT ![c[1]] = @ \cup {Head(all)}] ELSE lost
        /\ stored' = [stored EXCEPT ![c[1]] = @ \cup {p}]
        /\ UNCHANGED <<hosts, place>>
    BY <1>4 DEF Keep
  <2>. HIDE DEF all, full
  <2>3. Items(all) \subseteq {Head(all)} \cup Items(Tail(all)) BY <2>1, ItemsOfTail
  <2>4. \A s \in Scans : lost[s] \subseteq lost'[s] BY <2>2 DEF TypeInv, HistoryType
  <2>5. \A q \in Items(all) : q \in lost'[c[1]] \/ q \in Items(kept'[c])
    <3>1. CASE full
      <4>1. kept'[c] = Tail(all) /\ Head(all) \in lost'[c[1]]
        BY <2>2, <3>1 DEF TypeInv, StoreType, HistoryType
      <4>. QED BY <2>3, <4>1
    <3>2. CASE ~full BY <2>2, <3>2 DEF TypeInv, StoreType
    <3>. QED BY <3>1, <3>2
  <2>6. ASSUME NEW q \in Items(all) PROVE Somewhere(c[1], q)' BY <2>5 DEF Somewhere
  <2>7. ASSUME NEW s \in Scans, NEW q \in Payloads, Somewhere(s, q) PROVE Somewhere(s, q)'
    <3>1. CASE q \in hosts[s] \/ q \in lost[s] BY <2>2, <2>4, <3>1 DEF Somewhere
    <3>2. ASSUME NEW d \in Corrs, d[1] = s, q \in Items(kept[d]) PROVE Somewhere(s, q)'
      <4>1. CASE d = c BY <2>1, <2>6, <3>2, <4>1
      <4>2. CASE d # c
        <5>1. kept'[d] = kept[d] BY <2>2, <4>2 DEF TypeInv, StoreType
        <5>. QED BY <3>2, <5>1 DEF Somewhere
      <4>. QED BY <4>1, <4>2
    <3>. QED BY <2>7, <3>1, <3>2 DEF Somewhere
  <2>8. ASSUME NEW s \in Scans, NEW q \in stored'[s] PROVE Somewhere(s, q)'
    <3>1. CASE q \in stored[s] BY <2>7, <3>1 DEF Accounted, TypeInv, HistoryType
    <3>2. CASE q \notin stored[s]
      <4>1. s = c[1] /\ q = p BY <2>2, <3>2 DEF TypeInv, HistoryType
      <4>. QED BY <2>1, <2>6, <4>1
    <3>. QED BY <3>1, <3>2
  <2>. QED BY <2>2, <2>8 DEF Accounted
<1>5. ASSUME NEW c \in Corrs, Discard(c) PROVE Accounted'
  <2>1. LoseKept({c}) /\ kept' = [kept EXCEPT ![c] = <<>>] /\ UNCHANGED <<hosts, stored, place>>
    BY <1>5 DEF Discard
  <2>2. \A d \in Corrs : d \in {c} \/ kept'[d] = kept[d] BY <2>1 DEF TypeInv, StoreType
  <2>. QED BY <1>2, <2>1, <2>2
<1>6. CASE Sweep
  <2>1. expired \in SUBSET Corrs BY DEF TypeInv, HandlersType
  <2>2. LoseKept(expired) /\ UNCHANGED <<hosts, stored, place>> BY <1>6 DEF Sweep
  <2>3. \A d \in Corrs : d \in expired \/ kept'[d] = kept[d] BY <1>6 DEF Sweep
  <2>. QED BY <1>2, <2>1, <2>2, <2>3
<1>7. CASE Restart
  <2>1. LoseKept(Corrs) /\ UNCHANGED <<hosts, stored, place>> BY <1>7 DEF Restart
  <2>. QED BY <1>2, <2>1
<1>8. ASSUME NEW c \in Corrs, Deregister(c) \/ Lapse(c) PROVE Accounted'
  BY <1>0, <1>8 DEF Deregister, Lapse
<1>9. ASSUME NEW s \in Scans, NEW p \in Payloads, Park(s, p) \/ CallBack(s, p) PROVE Accounted'
  BY <1>0, <1>9 DEF Park, CallBack
<1>10. CASE Collect BY <1>0, <1>10 DEF Collect
<1>11. CASE UNCHANGED vars BY <1>0, <1>11 DEF vars
<1>. QED BY <1>1, <1>3, <1>4, <1>5, <1>6, <1>7, <1>8, <1>9, <1>10, <1>11
     DEF Next, ServerStep, Collector

\* A callback the store took in is kept until a poll takes it or something gives it up,
\* however captures, polls, deregistrations, the collector and restarts fall between each
\* other, and whatever the caps are.
THEOREM NoneIsLost == Spec => []EveryCallbackIsAccountedFor
<1>. QED BY AccountedIsAccounted, InitAccounted, NextAccounted, TypesHold, PTL DEF Spec

-----------------------------------------------------------------------------
(* Nothing is kept for an id that nobody holds *)

\* A capture that has read the key of an id works for one that is registered, or was
\* overtaken. Without that, nothing says for whom it keeps its callback.
Dropped ==
  /\ \A c \in Corrs, p \in Payloads : <<c, p>> \in sealing => c \in regs \cup overtaken
  /\ UnregisteredIsDropped

LEMMA InitDropped == Init => Dropped
BY DEF Init, Dropped, UnregisteredIsDropped

LEMMA UnregisterOvertakes ==
  ASSUME Dropped, NEW ids, Unregister(ids)
  PROVE  \A c \in Corrs, p \in Payloads : <<c, p>> \in sealing => c \in regs' \cup overtaken'
BY DEF Dropped, Unregister, Sealed

LEMMA NextDropped == TypeInv /\ Dropped /\ [Next]_vars => Dropped'
<1> SUFFICES ASSUME TypeInv, Dropped, [Next]_vars PROVE Dropped'
  OBVIOUS
<1> USE DEF store, handlers, scan, history
<1>0. ASSUME sealing' \subseteq sealing, UNCHANGED <<expired, overtaken, leaving>>, regs \subseteq regs',
             \A c \in Corrs : kept'[c] # <<>> => kept[c] # <<>>
      PROVE  Dropped'
  BY <1>0 DEF Dropped, UnregisteredIsDropped
<1>1. ASSUME NEW s \in Scans, ScanStep(s), ~Leave(s) PROVE Dropped'
  <2>1. UNCHANGED <<sealing, expired, overtaken, leaving, kept>> /\ regs \subseteq regs'
    BY <1>1 DEF ScanStep, Register, RegisterLost, EndPass, Poll, PollLost, GiveUp, Match
  <2>. QED BY <1>0, <2>1
<1>2. ASSUME NEW s \in Scans, Leave(s) PROVE Dropped'
  <2>1. /\ UNCHANGED <<sealing, expired, overtaken, regs, kept>>
        /\ \/ leaving' = leaving
           \/ corr[s] \in regs /\ leaving' = [leaving EXCEPT ![corr[s]] = "checked"]
    BY <1>2 DEF Leave
  <2>2. \A c \in Corrs : c \in regs \/ leaving'[c] = leaving[c]
    BY <2>1 DEF TypeInv, HandlersType
  <2>. QED BY <2>1, <2>2 DEF Dropped, UnregisteredIsDropped
<1>3. ASSUME NEW c \in Corrs, Drain(c) PROVE Dropped'
  <2>1. \A d \in Corrs : kept'[d] # <<>> => kept[d] # <<>> BY <1>3 DEF Drain, TypeInv, StoreType
  <2>2. UNCHANGED <<sealing, expired, overtaken, leaving, regs>> BY <1>3 DEF Drain
  <2>. QED BY <1>0, <2>1, <2>2
<1>4. ASSUME NEW c \in Corrs, NEW p \in Payloads, Keep(c, p) PROVE Dropped'
  <2>1. c \in regs \cup overtaken BY <1>4 DEF Keep, Dropped
  <2>2. /\ UNCHANGED <<expired, overtaken, leaving, regs>> /\ sealing' \subseteq sealing
        /\ \A d \in Corrs : d # c => kept'[d] = kept[d]
    BY <1>4 DEF Keep, TypeInv, StoreType
  <2>. QED BY <2>1, <2>2 DEF Dropped, UnregisteredIsDropped
<1>5. ASSUME NEW c \in Corrs, Deregister(c) PROVE Dropped'
  <2>1. /\ UNCHANGED <<sealing, expired, kept>> /\ Unregister({c})
        /\ leaving' = [leaving EXCEPT ![c] = "removed"]
    BY <1>5 DEF Deregister
  <2>2. /\ \A d \in Corrs : d # c /\ d \in regs => d \in regs'
        /\ overtaken \subseteq overtaken'
        /\ leaving'[c] = "removed" /\ \A d \in Corrs : d # c => leaving'[d] = leaving[d]
    BY <2>1 DEF Unregister, TypeInv, HandlersType
  <2>3. UnregisteredIsDropped' BY <2>1, <2>2 DEF Dropped, UnregisteredIsDropped
  <2>. QED BY <2>1, <2>3, UnregisterOvertakes DEF Dropped
<1>6. ASSUME NEW c \in Corrs, Discard(c) PROVE Dropped'
  <2>1. /\ UNCHANGED <<sealing, expired, overtaken, regs>>
        /\ kept'[c] = <<>> /\ \A d \in Corrs : d # c => kept'[d] = kept[d] /\ leaving'[d] = leaving[d]
    BY <1>6 DEF Discard, TypeInv, StoreType, HandlersType
  <2>. QED BY <2>1 DEF Dropped, UnregisteredIsDropped
<1>7. ASSUME NEW c \in Corrs, Lapse(c) PROVE Dropped' BY <1>0, <1>7 DEF Lapse
<1>8. ASSUME NEW s \in Scans, NEW p \in Payloads, Park(s, p) PROVE Dropped'
  BY <1>0, <1>8 DEF Park
<1>9. ASSUME NEW s \in Scans, NEW p \in Payloads, CallBack(s, p) PROVE Dropped'
  <2>1. /\ UNCHANGED <<regs, kept, expired, leaving, overtaken>>
        /\ sealing' = IF corr[s] \in regs \ lapsed THEN sealing \cup {<<corr[s], p>>} ELSE sealing
    BY <1>9 DEF CallBack
  <2>2. \A c \in Corrs, q \in Payloads : <<c, q>> \in sealing' => c \in regs \cup overtaken
    BY <2>1 DEF Dropped
  <2>. QED BY <2>1, <2>2 DEF Dropped, UnregisteredIsDropped
<1>10. CASE Collect
  <2>1. /\ UNCHANGED <<sealing, kept, leaving>> /\ Unregister(lapsed)
        /\ expired = {} /\ expired' = lapsed
    BY <1>10 DEF Collect
  <2>2. regs \cup expired \cup overtaken \subseteq regs' \cup expired' \cup overtaken'
    BY <2>1 DEF Unregister
  <2>3. UnregisteredIsDropped' BY <2>1, <2>2 DEF Dropped, UnregisteredIsDropped
  <2>. QED BY <2>1, <2>3, UnregisterOvertakes DEF Dropped
<1>11. CASE Sweep
  <2>1. /\ UNCHANGED <<sealing, overtaken, regs, leaving>>
        /\ \A c \in Corrs : kept'[c] = IF c \in expired THEN <<>> ELSE kept[c]
    BY <1>11 DEF Sweep
  <2>. QED BY <2>1 DEF Dropped, UnregisteredIsDropped
<1>12. CASE Restart
  <2>1. sealing' = {} /\ \A c \in Corrs : kept'[c] = <<>> BY <1>12 DEF Restart
  <2>. QED BY <2>1 DEF Dropped, UnregisteredIsDropped
<1>13. CASE UNCHANGED vars BY <1>0, <1>13 DEF vars
<1>. QED BY <1>1, <1>2, <1>3, <1>4, <1>5, <1>6, <1>7, <1>8, <1>9, <1>10, <1>11, <1>12, <1>13
     DEF Next, ServerStep, ScanStep, Collector

\* The store keeps something for an id only while the id is registered or being taken out,
\* or if it ended while a capture had read its key.
THEOREM UnregisteredIsNotKept == Spec => []UnregisteredIsDropped
<1>1. Dropped => UnregisteredIsDropped BY DEF Dropped
<1>. QED BY <1>1, InitDropped, NextDropped, TypesHold, PTL DEF Spec
=============================================================================
