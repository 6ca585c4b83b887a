--------------------------- MODULE StartupProofs ---------------------------
(***************************************************************************)
(* Safety of Startup for every set of processes, every number of           *)
(* migrations of every kind, and every number of failures.                 *)
(*                                                                         *)
(* The invariant says what the holder of migration.lock knows of the       *)
(* schema at each point, and that nobody else may change it; that a schema *)
(* at the head stays there; and where the two processes of each program    *)
(* stand to each other.                                                    *)
(***************************************************************************)
EXTENDS Startup, TLAPS

Location == {"off", "lock", "ready"} \cup Announcing \cup Migrating \cup Gone

(* Whoever migrates holds the lock.                                        *)
LockInv ==
  /\ \A p \in Proc : pc[p] \in Migrating => lock = p
  /\ lock # NoOne => pc[lock] \in Migrating \cup {"dead"}

(* What the process that migrates knows of the schema.                     *)
SchemaInv ==
  /\ VersionIsTrue
  /\ \A p \in Proc :
       /\ pc[p] \in {"stamp", "stampRow"} => db.version = 0
       /\ pc[p] = "stampRow" => db.versioned
       /\ pc[p] \in {"upgrade", "ddl", "record"} => db.tables = db.version
       /\ pc[p] \in {"ddl", "record"} => db.versioned /\ db.version < Head

(* From the backup on, the schema the program found is safe.               *)
BackupInv ==
  /\ OriginalHasBackup
  /\ \A p \in Proc :
       pc[p] \in Migrating \ {"backup", "fail"} /\ nonempty(original)
         => original \in backups

(* A runtime that announces itself has found the head, and so has the      *)
(* runtime whose state file is there.                                      *)
ServedInv ==
  /\ \A p \in Proc : pc[p] \in Announcing => AtHead
  /\ stateFile.of # NoOne => AtHead
  /\ \A a \in Apps : status[a] = "running" => AtHead

(* The runtime of a program, and whose state file the manager may find.    *)
ManagerInv ==
  /\ \A m \in Maintainers : pc[m] \notin Announcing \cup {"ready"}
  /\ stateFile.of \in Apps \cup {NoOne}
  /\ \A a \in Apps :
       /\ app[a] = "off" => pc[a] = "off"
       /\ app[a] \in {"stopping", "ended"} => ~Running(a)
       /\ runtimeOf[a] \in Apps \cup {NoOne}
       /\ runtimeOf[a] \in {NoOne, a} \/ app[runtimeOf[a]] = "crashed"
       /\ app[a] = "polling" =>
            stateFile.of \in {NoOne, a} \/ app[stateFile.of] = "crashed"
       /\ \A b \in Apps : Open(a) /\ Open(b) => a = b

Inv == TypeOK /\ LockInv /\ SchemaInv /\ BackupInv /\ ServedInv /\ ManagerInv

-----------------------------------------------------------------------------
(* Facts about constants.                                                  *)

LEMMA LocationFacts ==
  /\ Migrating \subseteq Location
  /\ {"off", "lock", "ready", "state", "write", "bind", "serving", "exited", "dead"}
       \subseteq Location \ Migrating
  /\ {"backup", "baseline", "stamp", "stampRow", "upgrade", "ddl", "record", "validate",
      "unlock", "fail"} = Migrating
  /\ Gone = {"exited", "dead"}
  /\ Announcing = {"state", "write", "bind", "serving"}
BY DEF Location, Migrating, Gone, Announcing

LEMMA PcType == TypeOK => pc \in [Proc -> Location]
BY DEF TypeOK, Location, Announcing

(* The end of a migration that has begun where the version says.           *)
LEMMA RecordedFacts ==
  ASSUME TypeOK, db.tables = db.version, db.version < Head
  PROVE  /\ Recorded \in Schema
         /\ Recorded.tables = Recorded.version
         /\ Recorded.versioned = db.versioned
<1>1. db.tables + 1 \in 0..Head /\ db.version + 1 \in 0..Head
  BY MigrationsAssumption DEF TypeOK, Schema
<1> QED
  BY <1>1 DEF TypeOK, Schema, Recorded

-----------------------------------------------------------------------------
(* Types.                                                                  *)

LEMMA TypeInit == Init => TypeOK
BY MigrationsAssumption, BoundsAssumption DEF Init, TypeOK, Schema, Proc

LEMMA TypeProcess ==
  ASSUME TypeOK, SchemaInv, NEW p \in Proc, ProcessStep(p)
  PROVE  TypeOK'
<1> USE MigrationsAssumption, BoundsAssumption, LocationFacts DEF TypeOK, Proc, goto, disk, manager
<1>1. CASE TakeLock(p)
  BY <1>1 DEF TakeLock
<1>2. CASE LockTimesOut(p)
  BY <1>2 DEF LockTimesOut
<1>3. CASE Backup(p)
  BY <1>3 DEF Backup
<1>4. CASE Baseline(p)
  BY <1>4 DEF Baseline, identify_legacy_state
<1>5. CASE Stamp(p)
  BY <1>5 DEF Stamp, Schema
<1>6. CASE StampRow(p)
  <2>1. \E legacy \in 0..Head :
          db' = [db EXCEPT !.tables = legacy, !.half = "none", !.version = legacy]
    <3>1. 1 \in 0..Head /\ 2 \in 0..Head
      OBVIOUS
    <3>2. CASE identify_legacy_state(db) = "phase1"
      BY <1>6, <3>1, <3>2 DEF StampRow
    <3>3. CASE identify_legacy_state(db) # "phase1"
      BY <1>6, <3>1, <3>3 DEF StampRow
    <3> QED
      BY <3>2, <3>3
  <2>2. db' \in Schema
    BY <2>1 DEF Schema
  <2> QED
    BY <1>6, <2>2 DEF StampRow
<1>7. CASE CreateVersionTable(p)
  BY <1>7 DEF CreateVersionTable, Schema
<1>8. CASE BeginMigration(p)
  BY <1>8 DEF BeginMigration, Schema
<1>9. CASE Migrate(p)
  <2>1. db' \in Schema
    BY <1>9, RecordedFacts DEF Migrate, Schema, SchemaInv
  <2> QED
    BY <1>9, <2>1 DEF Migrate
<1>10. CASE Record(p)
  BY <1>10, RecordedFacts DEF Record, SchemaInv
<1>11. CASE UpgradeEnds(p)
  BY <1>11 DEF UpgradeEnds
<1>12. CASE Validate(p)
  BY <1>12 DEF Validate
<1>13. CASE Unlock(p)
  BY <1>13 DEF Unlock
<1>14. CASE Ready(p)
  BY <1>14 DEF Ready
<1>15. CASE OpenStateFile(p)
  BY <1>15 DEF OpenStateFile
<1>16. CASE WriteStateFile(p)
  BY <1>16 DEF WriteStateFile
<1>17. CASE Bind(p)
  BY <1>17 DEF Bind
<1> QED
  BY <1>1, <1>2, <1>3, <1>4, <1>5, <1>6, <1>7, <1>8, <1>9, <1>10, <1>11, <1>12, <1>13, <1>14,
     <1>15, <1>16, <1>17 DEF ProcessStep

LEMMA TypeProgram ==
  ASSUME TypeOK, SchemaInv, NEW a \in Apps,
         Start(a) \/ StartStep(a) \/ ChildExits(a) \/ Stop(a) \/ AppCrash(a)
  PROVE  TypeOK'
<1> USE MigrationsAssumption, BoundsAssumption, LocationFacts DEF TypeOK, Proc, goto, disk, manager
<1>1. CASE Start(a)
  <2>1. stateFile' \in [of : Proc \cup {NoOne}, whole : BOOLEAN]
    <3>1. CASE \E p \in Proc : pc[p] = "write"
      BY <1>1, <3>1 DEF Start
    <3>2. CASE ~\E p \in Proc : pc[p] = "write"
      <4>1. stateFile' = [of |-> NoOne, whole |-> FALSE]
        BY <1>1, <3>2 DEF Start
      <4> QED
        BY <4>1
    <3> QED
      BY <3>1, <3>2
  <2>2. pc' \in [Proc -> Location] /\ app' \in [Apps -> {"off", "polling", "up", "failing",
          "stopping", "ended", "crashed"}]
    BY <1>1, PcType DEF Start
  <2> QED
    BY <1>1, <2>1, <2>2 DEF Start, Location, Announcing
<1>2. CASE Poll(a)
  BY <1>2 DEF Poll
<1>3. CASE PollTimesOut(a)
  BY <1>3 DEF PollTimesOut
<1>4. CASE StopEnds(a)
  BY <1>4 DEF StopEnds
<1>5. CASE ChildExits(a)
  BY <1>5 DEF ChildExits
<1>6. CASE Stop(a)
  BY <1>6 DEF Stop, Running
<1>7. CASE AppCrash(a)
  BY <1>7 DEF AppCrash
<1> QED
  BY <1>1, <1>2, <1>3, <1>4, <1>5, <1>6, <1>7 DEF StartStep

LEMMA TypeOther ==
  ASSUME TypeOK, SchemaInv,
         \/ \E p \in Proc : StatementRaises(p) \/ Crash(p)
         \/ \E m \in Maintainers : Maintain(m)
         \/ UNCHANGED vars
  PROVE  TypeOK'
<1> USE MigrationsAssumption, BoundsAssumption, LocationFacts DEF TypeOK, Proc, goto, disk, manager
<1>1. ASSUME NEW p \in Proc, StatementRaises(p) PROVE TypeOK'
  BY <1>1 DEF StatementRaises
<1>2. ASSUME NEW p \in Proc, Crash(p) PROVE TypeOK'
  BY <1>2 DEF Crash, Running
<1>3. ASSUME NEW m \in Maintainers, Maintain(m) PROVE TypeOK'
  BY <1>3 DEF Maintain
<1>4. CASE UNCHANGED vars
  BY <1>4 DEF vars
<1> QED
  BY <1>1, <1>2, <1>3, <1>4


-----------------------------------------------------------------------------
(* The lock.                                                               *)

LEMMA LockProcess ==
  ASSUME TypeOK, LockInv, NEW p \in Proc, ProcessStep(p)
  PROVE  LockInv'
<1> USE PcType, LocationFacts, ProcessesAssumption DEF TypeOK, LockInv, Proc, goto, disk, manager
<1>1. CASE TakeLock(p)
  BY <1>1 DEF TakeLock
<1>2. CASE LockTimesOut(p)
  BY <1>2 DEF LockTimesOut
<1>3. CASE Backup(p)
  BY <1>3 DEF Backup
<1>4. CASE Baseline(p)
  BY <1>4 DEF Baseline
<1>5. CASE Stamp(p)
  BY <1>5 DEF Stamp
<1>6. CASE StampRow(p)
  BY <1>6 DEF StampRow
<1>7. CASE CreateVersionTable(p)
  BY <1>7 DEF CreateVersionTable
<1>8. CASE BeginMigration(p)
  BY <1>8 DEF BeginMigration
<1>9. CASE Migrate(p)
  BY <1>9 DEF Migrate
<1>10. CASE Record(p)
  BY <1>10 DEF Record
<1>11. CASE UpgradeEnds(p)
  BY <1>11 DEF UpgradeEnds
<1>12. CASE Validate(p)
  BY <1>12 DEF Validate
<1>13. CASE Unlock(p)
  BY <1>13 DEF Unlock
<1>14. CASE Ready(p)
  BY <1>14 DEF Ready
<1>15. CASE OpenStateFile(p)
  BY <1>15 DEF OpenStateFile
<1>16. CASE WriteStateFile(p)
  BY <1>16 DEF WriteStateFile
<1>17. CASE Bind(p)
  BY <1>17 DEF Bind
<1> QED
  BY <1>1, <1>2, <1>3, <1>4, <1>5, <1>6, <1>7, <1>8, <1>9, <1>10, <1>11, <1>12, <1>13, <1>14,
     <1>15, <1>16, <1>17 DEF ProcessStep

LEMMA LockProgram ==
  ASSUME TypeOK, LockInv, NEW a \in Apps,
         Start(a) \/ StartStep(a) \/ ChildExits(a) \/ Stop(a) \/ AppCrash(a)
  PROVE  LockInv'
<1> USE PcType, LocationFacts, ProcessesAssumption DEF TypeOK, LockInv, Proc, goto, disk, manager
<1>1. CASE Start(a)
  BY <1>1 DEF Start
<1>2. CASE Poll(a)
  BY <1>2 DEF Poll
<1>3. CASE PollTimesOut(a)
  BY <1>3 DEF PollTimesOut
<1>4. CASE StopEnds(a)
  BY <1>4 DEF StopEnds
<1>5. CASE ChildExits(a)
  BY <1>5 DEF ChildExits
<1>6. CASE Stop(a)
  BY <1>6 DEF Stop, Running
<1>7. CASE AppCrash(a)
  BY <1>7 DEF AppCrash
<1> QED
  BY <1>1, <1>2, <1>3, <1>4, <1>5, <1>6, <1>7 DEF StartStep

LEMMA LockOther ==
  ASSUME TypeOK, LockInv,
         \/ \E p \in Proc : StatementRaises(p) \/ Crash(p)
         \/ \E m \in Maintainers : Maintain(m)
         \/ UNCHANGED vars
  PROVE  LockInv'
<1> USE PcType, LocationFacts, ProcessesAssumption DEF TypeOK, LockInv, Proc, goto, disk, manager
<1>1. ASSUME NEW p \in Proc, StatementRaises(p) PROVE LockInv'
  BY <1>1 DEF StatementRaises
<1>2. ASSUME NEW p \in Proc, Crash(p) PROVE LockInv'
  BY <1>2 DEF Crash, Running
<1>3. ASSUME NEW m \in Maintainers, Maintain(m) PROVE LockInv'
  BY <1>3 DEF Maintain
<1>4. CASE UNCHANGED vars
  BY <1>4 DEF vars
<1> QED
  BY <1>1, <1>2, <1>3, <1>4


-----------------------------------------------------------------------------
(* The schema, as its migrator knows it.                                   *)

LEMMA SchemaProcess ==
  ASSUME TypeOK, LockInv, SchemaInv, NEW p \in Proc, ProcessStep(p)
  PROVE  SchemaInv'
<1> USE PcType, LocationFacts, ProcessesAssumption, MigrationsAssumption DEF TypeOK, Schema, LockInv, SchemaInv, VersionIsTrue, Proc, goto, disk, manager
<1>1. CASE TakeLock(p)
  BY <1>1 DEF TakeLock
<1>2. CASE LockTimesOut(p)
  BY <1>2 DEF LockTimesOut
<1>3. CASE Backup(p)
  BY <1>3 DEF Backup
<1>4. CASE Baseline(p)
  <2>1. CASE db.version > 0 \/ ~nonempty(db)
    <3>1. goto(p, "baseline", "upgrade") /\ db' = db
      BY <1>4, <2>1 DEF Baseline
    <3>2. db.tables = db.version
      BY <2>1 DEF nonempty
    <3> QED
      BY <1>4, <3>1, <3>2 DEF Baseline
  <2>2. CASE ~(db.version > 0 \/ ~nonempty(db))
    <3>1. db' = db /\ (goto(p, "baseline", "stamp") \/ goto(p, "baseline", "fail"))
      BY <1>4, <2>2 DEF Baseline
    <3> QED
      BY <1>4, <2>2, <3>1 DEF Baseline
  <2> QED
    BY <2>1, <2>2
<1>5. CASE Stamp(p)
  BY <1>5 DEF Stamp
<1>6. CASE StampRow(p)
  BY <1>6 DEF StampRow
<1>7. CASE CreateVersionTable(p)
  BY <1>7 DEF CreateVersionTable
<1>8. CASE BeginMigration(p)
  BY <1>8 DEF BeginMigration
<1>9. CASE Migrate(p)
  <2>1. CASE db.version + 1 \in Transactional
    BY <1>9, <2>1, RecordedFacts DEF Migrate
  <2>2. CASE db.version + 1 \notin Transactional
    BY <1>9, <2>2 DEF Migrate
  <2> QED
    BY <2>1, <2>2
<1>10. CASE Record(p)
  BY <1>10 DEF Record, Recorded
<1>11. CASE UpgradeEnds(p)
  BY <1>11 DEF UpgradeEnds
<1>12. CASE Validate(p)
  BY <1>12 DEF Validate
<1>13. CASE Unlock(p)
  BY <1>13 DEF Unlock
<1>14. CASE Ready(p)
  BY <1>14 DEF Ready
<1>15. CASE OpenStateFile(p)
  BY <1>15 DEF OpenStateFile
<1>16. CASE WriteStateFile(p)
  BY <1>16 DEF WriteStateFile
<1>17. CASE Bind(p)
  BY <1>17 DEF Bind
<1> QED
  BY <1>1, <1>2, <1>3, <1>4, <1>5, <1>6, <1>7, <1>8, <1>9, <1>10, <1>11, <1>12, <1>13, <1>14,
     <1>15, <1>16, <1>17 DEF ProcessStep

LEMMA SchemaProgram ==
  ASSUME TypeOK, LockInv, SchemaInv, NEW a \in Apps,
         Start(a) \/ StartStep(a) \/ ChildExits(a) \/ Stop(a) \/ AppCrash(a)
  PROVE  SchemaInv'
<1> USE PcType, LocationFacts, ProcessesAssumption, MigrationsAssumption DEF TypeOK, Schema, LockInv, SchemaInv, VersionIsTrue, Proc, goto, disk, manager
<1>1. CASE Start(a)
  BY <1>1 DEF Start
<1>2. CASE Poll(a)
  BY <1>2 DEF Poll
<1>3. CASE PollTimesOut(a)
  BY <1>3 DEF PollTimesOut
<1>4. CASE StopEnds(a)
  BY <1>4 DEF StopEnds
<1>5. CASE ChildExits(a)
  BY <1>5 DEF ChildExits
<1>6. CASE Stop(a)
  BY <1>6 DEF Stop, Running
<1>7. CASE AppCrash(a)
  BY <1>7 DEF AppCrash
<1> QED
  BY <1>1, <1>2, <1>3, <1>4, <1>5, <1>6, <1>7 DEF StartStep

LEMMA SchemaOther ==
  ASSUME TypeOK, LockInv, SchemaInv,
         \/ \E p \in Proc : StatementRaises(p) \/ Crash(p)
         \/ \E m \in Maintainers : Maintain(m)
         \/ UNCHANGED vars
  PROVE  SchemaInv'
<1> USE PcType, LocationFacts, ProcessesAssumption, MigrationsAssumption DEF TypeOK, Schema, LockInv, SchemaInv, VersionIsTrue, Proc, goto, disk, manager
<1>1. ASSUME NEW p \in Proc, StatementRaises(p) PROVE SchemaInv'
  BY <1>1 DEF StatementRaises
<1>2. ASSUME NEW p \in Proc, Crash(p) PROVE SchemaInv'
  BY <1>2 DEF Crash, Running
<1>3. ASSUME NEW m \in Maintainers, Maintain(m) PROVE SchemaInv'
  BY <1>3 DEF Maintain
<1>4. CASE UNCHANGED vars
  BY <1>4 DEF vars
<1> QED
  BY <1>1, <1>2, <1>3, <1>4


-----------------------------------------------------------------------------
(* The backup.                                                             *)

LEMMA BackupProcess ==
  ASSUME TypeOK, BackupInv, NEW p \in Proc, ProcessStep(p)
  PROVE  BackupInv'
<1> USE PcType, LocationFacts, ProcessesAssumption DEF TypeOK, BackupInv, OriginalHasBackup, Proc, goto, disk, manager
<1>1. CASE TakeLock(p)
  BY <1>1 DEF TakeLock
<1>2. CASE LockTimesOut(p)
  BY <1>2 DEF LockTimesOut
<1>3. CASE Backup(p)
  BY <1>3 DEF Backup
<1>4. CASE Baseline(p)
  BY <1>4 DEF Baseline
<1>5. CASE Stamp(p)
  BY <1>5 DEF Stamp
<1>6. CASE StampRow(p)
  BY <1>6 DEF StampRow
<1>7. CASE CreateVersionTable(p)
  BY <1>7 DEF CreateVersionTable
<1>8. CASE BeginMigration(p)
  BY <1>8 DEF BeginMigration
<1>9. CASE Migrate(p)
  BY <1>9 DEF Migrate
<1>10. CASE Record(p)
  BY <1>10 DEF Record
<1>11. CASE UpgradeEnds(p)
  BY <1>11 DEF UpgradeEnds
<1>12. CASE Validate(p)
  BY <1>12 DEF Validate
<1>13. CASE Unlock(p)
  BY <1>13 DEF Unlock
<1>14. CASE Ready(p)
  BY <1>14 DEF Ready
<1>15. CASE OpenStateFile(p)
  BY <1>15 DEF OpenStateFile
<1>16. CASE WriteStateFile(p)
  BY <1>16 DEF WriteStateFile
<1>17. CASE Bind(p)
  BY <1>17 DEF Bind
<1> QED
  BY <1>1, <1>2, <1>3, <1>4, <1>5, <1>6, <1>7, <1>8, <1>9, <1>10, <1>11, <1>12, <1>13, <1>14,
     <1>15, <1>16, <1>17 DEF ProcessStep

LEMMA BackupProgram ==
  ASSUME TypeOK, BackupInv, NEW a \in Apps,
         Start(a) \/ StartStep(a) \/ ChildExits(a) \/ Stop(a) \/ AppCrash(a)
  PROVE  BackupInv'
<1> USE PcType, LocationFacts, ProcessesAssumption DEF TypeOK, BackupInv, OriginalHasBackup, Proc, goto, disk, manager
<1>1. CASE Start(a)
  BY <1>1 DEF Start
<1>2. CASE Poll(a)
  BY <1>2 DEF Poll
<1>3. CASE PollTimesOut(a)
  BY <1>3 DEF PollTimesOut
<1>4. CASE StopEnds(a)
  BY <1>4 DEF StopEnds
<1>5. CASE ChildExits(a)
  BY <1>5 DEF ChildExits
<1>6. CASE Stop(a)
  BY <1>6 DEF Stop, Running
<1>7. CASE AppCrash(a)
  BY <1>7 DEF AppCrash
<1> QED
  BY <1>1, <1>2, <1>3, <1>4, <1>5, <1>6, <1>7 DEF StartStep

LEMMA BackupOther ==
  ASSUME TypeOK, BackupInv,
         \/ \E p \in Proc : StatementRaises(p) \/ Crash(p)
         \/ \E m \in Maintainers : Maintain(m)
         \/ UNCHANGED vars
  PROVE  BackupInv'
<1> USE PcType, LocationFacts, ProcessesAssumption DEF TypeOK, BackupInv, OriginalHasBackup, Proc, goto, disk, manager
<1>1. ASSUME NEW p \in Proc, StatementRaises(p) PROVE BackupInv'
  BY <1>1 DEF StatementRaises
<1>2. ASSUME NEW p \in Proc, Crash(p) PROVE BackupInv'
  BY <1>2 DEF Crash, Running
<1>3. ASSUME NEW m \in Maintainers, Maintain(m) PROVE BackupInv'
  BY <1>3 DEF Maintain
<1>4. CASE UNCHANGED vars
  BY <1>4 DEF vars
<1> QED
  BY <1>1, <1>2, <1>3, <1>4


-----------------------------------------------------------------------------
(* What is served.  A schema at the head is not touched again.             *)

LEMMA ServedProcess ==
  ASSUME TypeOK, SchemaInv, ServedInv, NEW p \in Proc, ProcessStep(p)
  PROVE  ServedInv'
<1> USE PcType, LocationFacts, ProcessesAssumption DEF TypeOK, Schema, SchemaInv, VersionIsTrue, ServedInv, AtHead, Proc, goto, disk, manager
<1>1. CASE TakeLock(p)
  BY <1>1 DEF TakeLock
<1>2. CASE LockTimesOut(p)
  BY <1>2 DEF LockTimesOut
<1>3. CASE Backup(p)
  BY <1>3 DEF Backup
<1>4. CASE Baseline(p)
  BY <1>4 DEF Baseline
<1>5. CASE Stamp(p)
  BY <1>5 DEF Stamp
<1>6. CASE StampRow(p)
  BY <1>6, MigrationsAssumption DEF StampRow
<1>7. CASE CreateVersionTable(p)
  BY <1>7 DEF CreateVersionTable
<1>8. CASE BeginMigration(p)
  BY <1>8 DEF BeginMigration
<1>9. CASE Migrate(p)
  BY <1>9 DEF Migrate
<1>10. CASE Record(p)
  BY <1>10 DEF Record
<1>11. CASE UpgradeEnds(p)
  BY <1>11 DEF UpgradeEnds
<1>12. CASE Validate(p)
  BY <1>12 DEF Validate
<1>13. CASE Unlock(p)
  BY <1>13 DEF Unlock
<1>14. CASE Ready(p)
  BY <1>14 DEF Ready
<1>15. CASE OpenStateFile(p)
  BY <1>15 DEF OpenStateFile
<1>16. CASE WriteStateFile(p)
  BY <1>16 DEF WriteStateFile
<1>17. CASE Bind(p)
  BY <1>17 DEF Bind
<1> QED
  BY <1>1, <1>2, <1>3, <1>4, <1>5, <1>6, <1>7, <1>8, <1>9, <1>10, <1>11, <1>12, <1>13, <1>14,
     <1>15, <1>16, <1>17 DEF ProcessStep

LEMMA ServedProgram ==
  ASSUME TypeOK, SchemaInv, ServedInv, NEW a \in Apps,
         Start(a) \/ StartStep(a) \/ ChildExits(a) \/ Stop(a) \/ AppCrash(a)
  PROVE  ServedInv'
<1> USE PcType, LocationFacts, ProcessesAssumption DEF TypeOK, Schema, SchemaInv, VersionIsTrue, ServedInv, AtHead, Proc, goto, disk, manager
<1>1. CASE Start(a)
  BY <1>1 DEF Start
<1>2. CASE Poll(a)
  BY <1>2 DEF Poll
<1>3. CASE PollTimesOut(a)
  BY <1>3 DEF PollTimesOut
<1>4. CASE StopEnds(a)
  BY <1>4 DEF StopEnds
<1>5. CASE ChildExits(a)
  BY <1>5 DEF ChildExits
<1>6. CASE Stop(a)
  BY <1>6 DEF Stop, Running
<1>7. CASE AppCrash(a)
  BY <1>7 DEF AppCrash
<1> QED
  BY <1>1, <1>2, <1>3, <1>4, <1>5, <1>6, <1>7 DEF StartStep

LEMMA ServedOther ==
  ASSUME TypeOK, SchemaInv, ServedInv,
         \/ \E p \in Proc : StatementRaises(p) \/ Crash(p)
         \/ \E m \in Maintainers : Maintain(m)
         \/ UNCHANGED vars
  PROVE  ServedInv'
<1> USE PcType, LocationFacts, ProcessesAssumption DEF TypeOK, Schema, SchemaInv, VersionIsTrue, ServedInv, AtHead, Proc, goto, disk, manager
<1>1. ASSUME NEW p \in Proc, StatementRaises(p) PROVE ServedInv'
  BY <1>1 DEF StatementRaises
<1>2. ASSUME NEW p \in Proc, Crash(p) PROVE ServedInv'
  BY <1>2 DEF Crash, Running
<1>3. ASSUME NEW m \in Maintainers, Maintain(m) PROVE ServedInv'
  BY <1>3 DEF Maintain
<1>4. CASE UNCHANGED vars
  BY <1>4 DEF vars
<1> QED
  BY <1>1, <1>2, <1>3, <1>4


-----------------------------------------------------------------------------
(* Programs and their runtimes.                                            *)

LEMMA ManagerProcess ==
  ASSUME TypeOK, ManagerInv, NEW p \in Proc, ProcessStep(p)
  PROVE  ManagerInv'
<1> USE PcType, LocationFacts, ProcessesAssumption DEF TypeOK, ManagerInv, Running, Open, Proc, goto, disk, manager
<1>1. CASE TakeLock(p)
  BY <1>1 DEF TakeLock
<1>2. CASE LockTimesOut(p)
  BY <1>2 DEF LockTimesOut
<1>3. CASE Backup(p)
  BY <1>3 DEF Backup
<1>4. CASE Baseline(p)
  BY <1>4 DEF Baseline
<1>5. CASE Stamp(p)
  BY <1>5 DEF Stamp
<1>6. CASE StampRow(p)
  BY <1>6 DEF StampRow
<1>7. CASE CreateVersionTable(p)
  BY <1>7 DEF CreateVersionTable
<1>8. CASE BeginMigration(p)
  BY <1>8 DEF BeginMigration
<1>9. CASE Migrate(p)
  BY <1>9 DEF Migrate
<1>10. CASE Record(p)
  BY <1>10 DEF Record
<1>11. CASE UpgradeEnds(p)
  BY <1>11 DEF UpgradeEnds
<1>12. CASE Validate(p)
  BY <1>12 DEF Validate
<1>13. CASE Unlock(p)
  BY <1>13 DEF Unlock
<1>14. CASE Ready(p)
  BY <1>14 DEF Ready
<1>15. CASE OpenStateFile(p)
  BY <1>15 DEF OpenStateFile
<1>16. CASE WriteStateFile(p)
  BY <1>16 DEF WriteStateFile
<1>17. CASE Bind(p)
  BY <1>17 DEF Bind
<1> QED
  BY <1>1, <1>2, <1>3, <1>4, <1>5, <1>6, <1>7, <1>8, <1>9, <1>10, <1>11, <1>12, <1>13, <1>14,
     <1>15, <1>16, <1>17 DEF ProcessStep

LEMMA ManagerProgram ==
  ASSUME TypeOK, ManagerInv, NEW a \in Apps,
         Start(a) \/ StartStep(a) \/ ChildExits(a) \/ Stop(a) \/ AppCrash(a)
  PROVE  ManagerInv'
<1> USE PcType, LocationFacts, ProcessesAssumption DEF TypeOK, ManagerInv, Running, Open, Proc, goto, disk, manager
<1>1. CASE Start(a)
  BY <1>1 DEF Start
<1>2. CASE Poll(a)
  BY <1>2 DEF Poll
<1>3. CASE PollTimesOut(a)
  BY <1>3 DEF PollTimesOut
<1>4. CASE StopEnds(a)
  BY <1>4 DEF StopEnds
<1>5. CASE ChildExits(a)
  BY <1>5 DEF ChildExits
<1>6. CASE Stop(a)
  BY <1>6 DEF Stop
<1>7. CASE AppCrash(a)
  BY <1>7 DEF AppCrash
<1> QED
  BY <1>1, <1>2, <1>3, <1>4, <1>5, <1>6, <1>7 DEF StartStep

LEMMA ManagerOther ==
  ASSUME TypeOK, ManagerInv,
         \/ \E p \in Proc : StatementRaises(p) \/ Crash(p)
         \/ \E m \in Maintainers : Maintain(m)
         \/ UNCHANGED vars
  PROVE  ManagerInv'
<1> USE PcType, LocationFacts, ProcessesAssumption DEF TypeOK, ManagerInv, Running, Open, Proc, goto, disk, manager
<1>1. ASSUME NEW p \in Proc, StatementRaises(p) PROVE ManagerInv'
  BY <1>1 DEF StatementRaises
<1>2. ASSUME NEW p \in Proc, Crash(p) PROVE ManagerInv'
  BY <1>2 DEF Crash, Running
<1>3. ASSUME NEW m \in Maintainers, Maintain(m) PROVE ManagerInv'
  BY <1>3 DEF Maintain
<1>4. CASE UNCHANGED vars
  BY <1>4 DEF vars
<1> QED
  BY <1>1, <1>2, <1>3, <1>4


-----------------------------------------------------------------------------
(* The theorems.                                                           *)

LEMMA InvInit == Init => Inv
<1> SUFFICES ASSUME Init PROVE Inv
  OBVIOUS
<1>1. TypeOK
  BY TypeInit
<1>2. LockInv
  BY LocationFacts DEF Init, LockInv
<1>3. SchemaInv
  BY MigrationsAssumption DEF Init, SchemaInv, VersionIsTrue, Schema
<1>4. BackupInv
  BY LocationFacts DEF Init, BackupInv, OriginalHasBackup
<1>5. ServedInv
  BY LocationFacts DEF Init, ServedInv
<1>6. ManagerInv
  BY LocationFacts DEF Init, ManagerInv, Running, Open, Proc
<1> QED
  BY <1>1, <1>2, <1>3, <1>4, <1>5, <1>6 DEF Inv

LEMMA InvStep == Inv /\ [Next]_vars => Inv'
<1> SUFFICES ASSUME Inv, [Next]_vars PROVE Inv'
  OBVIOUS
<1> USE DEF Inv
<1>1. ASSUME NEW p \in Proc, ProcessStep(p) PROVE Inv'
  BY <1>1, TypeProcess, LockProcess, SchemaProcess, BackupProcess, ServedProcess, ManagerProcess
<1>2. ASSUME NEW a \in Apps, Start(a) \/ StartStep(a) \/ ChildExits(a) \/ Stop(a) \/ AppCrash(a)
      PROVE  Inv'
  BY <1>2, TypeProgram, LockProgram, SchemaProgram, BackupProgram, ServedProgram, ManagerProgram
<1>3. ASSUME \/ \E p \in Proc : StatementRaises(p) \/ Crash(p)
             \/ \E m \in Maintainers : Maintain(m)
             \/ UNCHANGED vars
      PROVE  Inv'
  BY <1>3, TypeOther, LockOther, SchemaOther, BackupOther, ServedOther, ManagerOther
<1> QED
  BY <1>1, <1>2, <1>3 DEF Next

(* The invariant holds of every behaviour.                                 *)
THEOREM Invariance == Spec => []Inv
BY InvInit, InvStep, PTL DEF Spec

(* Every reachable state is well typed.                                    *)
THEOREM TypeCorrect == Spec => []TypeOK
BY Invariance, PTL DEF Inv

(* migration.lock lets one process at a time work on the database.         *)
THEOREM OneMigratorOnly == Spec => []OneMigrator
<1>1. Inv => OneMigrator
  BY DEF Inv, LockInv, OneMigrator
<1> QED
  BY Invariance, <1>1, PTL

(* The version row never promises a schema that is not there.              *)
THEOREM TrueVersion == Spec => []VersionIsTrue
<1>1. Inv => VersionIsTrue
  BY DEF Inv, SchemaInv
<1> QED
  BY Invariance, <1>1, PTL

(* Only the schema of this release is served.                              *)
THEOREM HeadIsServed == Spec => []ServedSchemaIsHead
<1>1. Inv => ServedSchemaIsHead
  BY DEF Inv, ServedInv, ServedSchemaIsHead, Announcing
<1> QED
  BY Invariance, <1>1, PTL

(* Nothing changes the database of the user before its backup is made.     *)
THEOREM BackupFirst == Spec => []OriginalHasBackup
<1>1. Inv => OriginalHasBackup
  BY DEF Inv, BackupInv
<1> QED
  BY Invariance, <1>1, PTL

(* A manager talks to its own runtime, or to one that was left behind.     *)
THEOREM OwnRuntime == Spec => []AdoptsOwnRuntime
<1>1. Inv => AdoptsOwnRuntime
  BY DEF Inv, ManagerInv, AdoptsOwnRuntime
<1> QED
  BY Invariance, <1>1, PTL

(* A program that was quit or failed to start leaves no runtime behind.    *)
THEOREM NoRuntimeLeft == Spec => []EndedAppHasNoRuntime
<1>1. Inv => EndedAppHasNoRuntime
  BY DEF Inv, ManagerInv, EndedAppHasNoRuntime
<1> QED
  BY Invariance, <1>1, PTL

-----------------------------------------------------------------------------
(* The refinement of SchemaUpgrade.                                        *)

Holder == IF lock # NoOne /\ pc[lock] \in Migrating THEN lock ELSE NoOne
Abandoned == lock # NoOne /\ pc[lock] = "dead"
Serving == {p \in Proc : pc[p] \in Announcing}
Changed == db # original
Saved == nonempty(original) => original \in backups
Version == db.version
Promised == <<Version, Changed, Saved, Holder, Abandoned, Serving>>

(* A schema that was once changed has come further than the one the        *)
(* program found, and so never is that one again.                          *)
AheadInv ==
  /\ original.half = "none"
  /\ original.version <= db.version
  /\ original.versioned => db.versioned
  /\ \/ db = original
     \/ db.version > original.version
     \/ db.half # "none"
     \/ db.versioned /\ ~original.versioned

(* What a change of the schema may do.                                     *)
Climbs ==
  /\ db.version < Head
  /\ db'.version \in {db.version, db.version + 1} \/ (db.version = 0 /\ db'.version \in {1, 2})
  /\ db.versioned => db'.versioned
  /\ \/ db'.version > db.version
     \/ db'.half # "none"
     \/ db'.versioned /\ ~db.versioned

LEMMA RecordedClimbs ==
  ASSUME TypeOK, db.version < Head, db' = Recorded
  PROVE  Climbs
<1>1. db.version \in Nat /\ db'.version = db.version + 1 /\ db'.versioned = db.versioned
  BY MigrationsAssumption DEF TypeOK, Schema, Recorded
<1> QED
  BY <1>1 DEF Climbs

LEMMA ProcessChanges ==
  ASSUME Inv, NEW p \in Proc, ProcessStep(p), db' # db
  PROVE  /\ Climbs
         /\ pc[p] \in {"stamp", "stampRow", "upgrade", "ddl", "record"}
         /\ \E to \in Migrating : pc' = [pc EXCEPT ![p] = to]
         /\ UNCHANGED <<backups, lock, original>>
<1> USE PcType, LocationFacts, MigrationsAssumption
    DEF Inv, TypeOK, Schema, SchemaInv, VersionIsTrue, Proc, goto, disk, manager
<1>1. CASE TakeLock(p)
  BY <1>1 DEF TakeLock
<1>2. CASE LockTimesOut(p)
  BY <1>2 DEF LockTimesOut
<1>3. CASE Backup(p)
  BY <1>3 DEF Backup
<1>4. CASE Baseline(p)
  BY <1>4 DEF Baseline
<1>5. CASE Stamp(p)
  <2>1. db.version = 0 /\ db' = [db EXCEPT !.versioned = TRUE]
    BY <1>5 DEF Stamp
  <2>2. ~db.versioned
    <3>1. SUFFICES ASSUME db.versioned PROVE [db EXCEPT !.versioned = TRUE] = db
      BY <2>1
    <3>2. db.versioned = TRUE
      BY <3>1
    <3> QED
      BY <3>2
  <2>3. db'.version = 0 /\ db'.versioned
    BY <2>1
  <2>4. Climbs
    BY <2>1, <2>2, <2>3 DEF Climbs
  <2> QED
    BY <1>5, <2>4 DEF Stamp
<1>6. CASE StampRow(p)
  <2>1. db.version = 0 /\ db'.version \in {1, 2} /\ db'.versioned = db.versioned
    BY <1>6 DEF StampRow
  <2>2. Climbs
    BY <2>1 DEF Climbs
  <2> QED
    BY <1>6, <2>2 DEF StampRow
<1>7. CASE CreateVersionTable(p)
  <2>1. pc' = [pc EXCEPT ![p] = "upgrade"]
    BY <1>7 DEF CreateVersionTable
  <2> QED
    BY <1>7, <2>1 DEF CreateVersionTable, Climbs
<1>8. CASE BeginMigration(p)
  BY <1>8 DEF BeginMigration, Climbs
<1>9. CASE Migrate(p)
  <2>1. CASE db.version + 1 \in Transactional
    <3>1. db.version < Head /\ db' = Recorded
      BY <1>9, <2>1 DEF Migrate
    <3>2. Climbs
      BY <3>1, RecordedClimbs
    <3> QED
      BY <1>9, <2>1, <3>2 DEF Migrate
  <2>2. CASE db.version + 1 \notin Transactional
    BY <1>9, <2>2 DEF Migrate, Climbs
  <2> QED
    BY <2>1, <2>2
<1>10. CASE Record(p)
  <2>1. db.version < Head /\ db' = Recorded
    BY <1>10 DEF Record
  <2>2. Climbs
    BY <2>1, RecordedClimbs
  <2> QED
    BY <1>10, <2>2 DEF Record
<1>11. CASE UpgradeEnds(p)
  BY <1>11 DEF UpgradeEnds
<1>12. CASE Validate(p)
  BY <1>12 DEF Validate
<1>13. CASE Unlock(p)
  BY <1>13 DEF Unlock
<1>14. CASE Ready(p)
  BY <1>14 DEF Ready
<1>15. CASE OpenStateFile(p)
  BY <1>15 DEF OpenStateFile
<1>16. CASE WriteStateFile(p)
  BY <1>16 DEF WriteStateFile
<1>17. CASE Bind(p)
  BY <1>17 DEF Bind
<1> QED
  BY <1>1, <1>2, <1>3, <1>4, <1>5, <1>6, <1>7, <1>8, <1>9, <1>10, <1>11, <1>12, <1>13, <1>14,
     <1>15, <1>16, <1>17 DEF ProcessStep

(* Only a process inside migrate_to_head changes the schema.               *)
LEMMA OnlyProcessChanges ==
  ASSUME Inv, [Next]_vars
  PROVE  /\ original' = original
         /\ db' # db => \E p \in Proc : ProcessStep(p)
<1> USE DEF goto, disk, manager
<1>1. ASSUME NEW p \in Proc, ProcessStep(p) PROVE original' = original
  BY <1>1 DEF ProcessStep, TakeLock, LockTimesOut, Backup, Baseline, Stamp, StampRow,
     CreateVersionTable, BeginMigration, Migrate, Record, UpgradeEnds, Validate, Unlock,
     Ready, OpenStateFile, WriteStateFile, Bind
<1>2. ASSUME NEW p \in Proc, StatementRaises(p) \/ Crash(p) PROVE UNCHANGED <<db, original>>
  BY <1>2 DEF StatementRaises, Crash
<1>3. ASSUME NEW m \in Maintainers, Maintain(m) PROVE UNCHANGED <<db, original>>
  BY <1>3 DEF Maintain
<1>4. ASSUME NEW a \in Apps, Start(a) \/ StartStep(a) \/ ChildExits(a) \/ Stop(a) \/ AppCrash(a)
      PROVE  UNCHANGED <<db, original>>
  BY <1>4 DEF Start, StartStep, Poll, PollTimesOut, StopEnds, ChildExits, Stop, AppCrash
<1>5. CASE UNCHANGED vars
  BY <1>5 DEF vars
<1> QED
  BY <1>1, <1>2, <1>3, <1>4, <1>5 DEF Next

LEMMA AheadInit == Init => AheadInv
BY MigrationsAssumption DEF Init, AheadInv, Schema

LEMMA AheadStep ==
  ASSUME Inv, AheadInv, [Next]_vars
  PROVE  AheadInv'
<1>1. original' = original
  BY OnlyProcessChanges
<1>2. CASE db' = db
  BY <1>1, <1>2 DEF AheadInv
<1>3. CASE db' # db
  <2>1. Climbs
    BY <1>3, OnlyProcessChanges, ProcessChanges
  <2>2. db \in Schema /\ original \in Schema /\ db' \in Schema
    BY InvStep DEF Inv, TypeOK
  <2> QED
    BY <1>1, <2>1, <2>2, MigrationsAssumption DEF AheadInv, Climbs, Schema
<1> QED
  BY <1>2, <1>3

(* Steps that SchemaUpgrade does not see.                                  *)
LEMMA Unseen ==
  ASSUME TypeOK, UNCHANGED <<db, original, backups, lock>>,
         \A p \in Proc : /\ pc'[p] \in Migrating <=> pc[p] \in Migrating
                         /\ pc'[p] \in Announcing <=> pc[p] \in Announcing
                         /\ pc'[p] = "dead" <=> pc[p] = "dead"
  PROVE  UNCHANGED Promised
<1>1. lock = NoOne \/ lock \in Proc
  BY DEF TypeOK
<1>2. Holder' = Holder /\ Abandoned' = Abandoned
  BY <1>1 DEF Holder, Abandoned
<1>3. Serving' = Serving
  BY DEF Serving
<1>4. UNCHANGED <<Version, Changed, Saved>>
  BY DEF Version, Changed, Saved, nonempty
<1> QED
  BY <1>2, <1>3, <1>4 DEF Promised

(* A process leaves migrate_to_head dead, or announces itself no more.     *)
LEMMA EndsSeen ==
  ASSUME Inv, NEW p \in Proc, NEW end \in Gone,
         pc[p] \notin Gone, pc' = [pc EXCEPT ![p] = end],
         end = "exited" => pc[p] \notin Migrating,
         UNCHANGED <<db, original, backups, lock>>
  PROVE  Upgrade!Die(p) \/ Upgrade!Leave(p) \/ UNCHANGED Promised
<1> USE PcType, LocationFacts, ProcessesAssumption DEF Inv, TypeOK
<1>0. pc \in [Proc -> Location] /\ p # NoOne
  BY DEF Proc
<1>1. UNCHANGED <<Version, Changed, Saved>>
  BY DEF Version, Changed, Saved, nonempty
<1>2. CASE pc[p] \in Migrating
  <2>1. lock = p /\ end = "dead"
    BY <1>2 DEF LockInv
  <2>2. Holder = p /\ Holder' = NoOne
    BY <1>0, <1>2, <2>1 DEF Holder
  <2>3. Abandoned'
    BY <1>0, <2>1 DEF Abandoned
  <2>4. Serving' = Serving
    BY <1>0, <1>2, <2>1 DEF Serving
  <2>5. Upgrade!Die(p)
    BY <1>1, <2>2, <2>3, <2>4 DEF Upgrade!Die, Holder, Abandoned, Serving, Version, Changed, Saved
  <2> QED
    BY <2>5
<1>3. CASE pc[p] \in Announcing
  <2>1. lock # p
    BY <1>0, <1>3 DEF LockInv
  <2>2. Holder' = Holder /\ Abandoned' = Abandoned
    BY <1>0, <2>1 DEF Holder, Abandoned
  <2>3. p \in Serving /\ Serving' = Serving \ {p}
    BY <1>0, <1>3 DEF Serving
  <2>4. Upgrade!Leave(p)
    BY <1>1, <2>2, <2>3 DEF Upgrade!Leave, Holder, Abandoned, Serving, Version, Changed, Saved
  <2> QED
    BY <2>4
<1>4. CASE pc[p] \notin Migrating \cup Announcing
  <2>1. lock # p
    BY <1>0, <1>4 DEF LockInv
  <2>2. Holder' = Holder /\ Abandoned' = Abandoned
    BY <1>0, <1>4, <2>1 DEF Holder, Abandoned
  <2>3. Serving' = Serving
    BY <1>0, <1>4 DEF Serving
  <2> QED
    BY <1>1, <2>2, <2>3 DEF Promised
<1> QED
  BY <1>2, <1>3, <1>4

LEMMA ChangeSeen ==
  ASSUME Inv, AheadInv, NEW p \in Proc, ProcessStep(p), db' # db
  PROVE  Upgrade!Change(p)
<1> USE LocationFacts, ProcessesAssumption DEF Inv, TypeOK
<1>0. pc \in [Proc -> Location] /\ p # NoOne
  BY PcType DEF Proc
<1>1. /\ Climbs
      /\ pc[p] \in {"stamp", "stampRow", "upgrade", "ddl", "record"}
      /\ \E to \in Migrating : pc' = [pc EXCEPT ![p] = to]
      /\ UNCHANGED <<backups, lock, original>>
  BY ProcessChanges
<1>2. lock = p
  BY <1>1 DEF LockInv
<1>3. Holder = p /\ Holder' = p
  BY <1>0, <1>1, <1>2 DEF Holder
<1>4. ~Abandoned /\ ~Abandoned'
  BY <1>0, <1>1, <1>2 DEF Abandoned
<1>5. Serving' = Serving
  BY <1>0, <1>1 DEF Serving
<1>6. Saved /\ Saved'
  BY <1>1 DEF BackupInv, Saved, nonempty
<1>7. Changed'
  <2>1. db \in Schema /\ original \in Schema /\ db' \in Schema
    BY InvStep DEF Next
  <2>2. CASE db'.version > db.version
    BY <1>1, <2>1, <2>2, MigrationsAssumption DEF AheadInv, Changed, Schema
  <2>3. CASE db'.half # "none"
    BY <1>1, <2>3 DEF AheadInv, Changed
  <2>4. CASE db'.versioned /\ ~db.versioned
    BY <1>1, <2>4 DEF AheadInv, Changed
  <2> QED
    BY <1>1, <2>2, <2>3, <2>4 DEF Climbs
<1> QED
  BY <1>1, <1>3, <1>4, <1>5, <1>6, <1>7
     DEF Upgrade!Change, Climbs, Holder, Abandoned, Serving, Version, Changed, Saved

(* The steps of a process that leave the schema as it is.                  *)
LEMMA KeepSeen ==
  ASSUME Inv, NEW p \in Proc, ProcessStep(p), db' = db
  PROVE  Upgrade!Next \/ UNCHANGED Promised
<1> USE LocationFacts, ProcessesAssumption DEF Inv, TypeOK, goto, disk, manager
<1>0. pc \in [Proc -> Location] /\ p # NoOne /\ (lock = NoOne \/ lock \in Proc)
  BY PcType DEF Proc
<1>1. CASE TakeLock(p)
  <2>1. Holder = NoOne /\ Holder' = p /\ ~Abandoned /\ ~Abandoned'
    BY <1>0, <1>1 DEF TakeLock, Holder, Abandoned
  <2>2. p \notin Serving /\ Serving' = Serving
    BY <1>0, <1>1 DEF TakeLock, Serving
  <2>3. UNCHANGED <<Version, Changed, Saved>>
    BY <1>1 DEF TakeLock, Version, Changed, Saved, nonempty
  <2>4. Upgrade!Begin(p)
    BY <2>1, <2>2, <2>3 DEF Upgrade!Begin, Holder, Abandoned, Serving, Version, Changed, Saved
  <2> QED
    BY <2>4 DEF Upgrade!Next
<1>2. CASE Backup(p)
  <2>1. Holder = p /\ Holder' = p /\ ~Abandoned /\ ~Abandoned'
    BY <1>0, <1>2 DEF Backup, LockInv, Holder, Abandoned
  <2>2. Serving' = Serving
    BY <1>0, <1>2 DEF Backup, Serving
  <2>3. UNCHANGED <<Version, Changed>>
    BY <1>2 DEF Backup, Version, Changed
  <2>4. Saved'
    <3>1. original \in backups \/ db = original \/ ~nonempty(original)
      BY DEF BackupInv, OriginalHasBackup
    <3> QED
      BY <1>2, <3>1 DEF Backup, Saved, nonempty
  <2>5. Upgrade!Save(p)
    BY <2>1, <2>2, <2>3, <2>4 DEF Upgrade!Save, Holder, Abandoned, Serving, Version, Changed, Saved
  <2> QED
    BY <2>5 DEF Upgrade!Next
<1>3. CASE Unlock(p)
  <2>1. lock = p /\ lock' = NoOne /\ pc[p] \in Migrating
    BY <1>3 DEF Unlock, LockInv
  <2>2. Holder = p /\ Holder' = NoOne /\ ~Abandoned /\ ~Abandoned'
    BY <1>0, <2>1 DEF Holder, Abandoned
  <2>3. Serving' = Serving
    BY <1>0, <1>3 DEF Unlock, Serving
  <2>4. UNCHANGED <<Version, Changed, Saved>>
    BY <1>3 DEF Unlock, Version, Changed, Saved, nonempty
  <2>5. Upgrade!End(p)
    BY <2>2, <2>3, <2>4 DEF Upgrade!End, Holder, Abandoned, Serving, Version, Changed, Saved
  <2> QED
    BY <2>5 DEF Upgrade!Next
<1>4. CASE Ready(p)
  <2>1. UNCHANGED <<db, original, backups, lock>> /\ lock # p
    BY <1>0, <1>4 DEF Ready, LockInv
  <2>2. UNCHANGED <<Version, Changed, Saved, Holder, Abandoned>>
    BY <1>0, <1>4, <2>1 DEF Ready, Version, Changed, Saved, nonempty, Holder, Abandoned
  <2>3. CASE AtHead
    <3>1. p \notin Serving /\ Serving' = Serving \cup {p}
      BY <1>0, <1>4, <2>3 DEF Ready, Serving
    <3>2. Holder # p /\ Version = Head
      BY <1>0, <2>1, <2>3 DEF Holder, Version, AtHead
    <3>3. Upgrade!Serve(p)
      BY <2>2, <3>1, <3>2 DEF Upgrade!Serve, Holder, Abandoned, Serving, Version, Changed, Saved
    <3> QED
      BY <3>3 DEF Upgrade!Next
  <2>4. CASE ~AtHead
    <3>1. Serving' = Serving
      BY <1>0, <1>4, <2>4 DEF Ready, Serving
    <3> QED
      BY <2>2, <3>1 DEF Promised
  <2> QED
    BY <2>3, <2>4
<1>5. CASE Bind(p)
  <2>1. CASE pc' = [pc EXCEPT ![p] = "serving"]
    BY <1>0, <1>5, <2>1, Unseen DEF Bind
  <2>2. CASE pc' = [pc EXCEPT ![p] = "exited"]
    <3>1. Upgrade!Die(p) \/ Upgrade!Leave(p) \/ UNCHANGED Promised
      BY <1>5, <2>2, EndsSeen DEF Bind
    <3> QED
      BY <3>1 DEF Upgrade!Next
  <2> QED
    BY <1>5, <2>1, <2>2 DEF Bind
<1>6. CASE LockTimesOut(p)
  BY <1>0, <1>6, Unseen DEF LockTimesOut
<1>7. CASE Baseline(p)
  BY <1>0, <1>7, Unseen DEF Baseline
<1>8. CASE Stamp(p) \/ StampRow(p)
  BY <1>0, <1>8, Unseen DEF Stamp, StampRow
<1>9. CASE CreateVersionTable(p)
  BY <1>0, <1>9, Unseen DEF CreateVersionTable
<1>10. CASE BeginMigration(p)
  BY <1>0, <1>10, Unseen DEF BeginMigration
<1>11. CASE Migrate(p) \/ Record(p)
  BY <1>0, <1>11, Unseen DEF Migrate, Record
<1>12. CASE UpgradeEnds(p) \/ Validate(p)
  BY <1>0, <1>12, Unseen DEF UpgradeEnds, Validate
<1>13. CASE OpenStateFile(p) \/ WriteStateFile(p)
  BY <1>0, <1>13, Unseen DEF OpenStateFile, WriteStateFile
<1> QED
  BY <1>1, <1>2, <1>3, <1>4, <1>5, <1>6, <1>7, <1>8, <1>9, <1>10, <1>11, <1>12, <1>13
     DEF ProcessStep

(* Programs, users and failures.                                           *)
LEMMA OtherSeen ==
  ASSUME Inv,
         \/ \E p \in Proc : StatementRaises(p) \/ Crash(p)
         \/ \E m \in Maintainers : Maintain(m)
         \/ \E a \in Apps : Start(a) \/ StartStep(a) \/ ChildExits(a) \/ Stop(a) \/ AppCrash(a)
         \/ UNCHANGED vars
  PROVE  Upgrade!Next \/ UNCHANGED Promised
<1> USE LocationFacts, ProcessesAssumption DEF Inv, TypeOK, goto, disk, manager
<1>0. pc \in [Proc -> Location] /\ Apps \subseteq Proc /\ Maintainers \subseteq Proc
  BY PcType DEF Proc
<1>1. ASSUME NEW p \in Proc, StatementRaises(p) PROVE UNCHANGED Promised
  BY <1>0, <1>1, Unseen DEF StatementRaises
<1>2. ASSUME NEW p \in Proc, Crash(p) PROVE Upgrade!Next \/ UNCHANGED Promised
  <2>1. Upgrade!Die(p) \/ Upgrade!Leave(p) \/ UNCHANGED Promised
    BY <1>2, EndsSeen DEF Crash, Running
  <2> QED
    BY <2>1 DEF Upgrade!Next
<1>3. ASSUME NEW m \in Maintainers, Maintain(m) PROVE UNCHANGED Promised
  BY <1>0, <1>3, Unseen DEF Maintain
<1>4. ASSUME NEW a \in Apps, Start(a) PROVE UNCHANGED Promised
  <2>1. UNCHANGED <<db, original, backups, lock>>
    BY <1>4 DEF Start
  <2>2. pc' = pc \/ (pc[a] = "off" /\ pc' = [pc EXCEPT ![a] = "lock"])
    BY <1>4 DEF Start
  <2> QED
    BY <1>0, <2>1, <2>2, Unseen
<1>5. ASSUME NEW a \in Apps, Poll(a) \/ PollTimesOut(a) \/ StopEnds(a) \/ ChildExits(a) \/ AppCrash(a)
      PROVE  UNCHANGED Promised
  <2>1. UNCHANGED <<db, original, backups, lock, pc>>
    BY <1>5 DEF Poll, PollTimesOut, StopEnds, ChildExits, AppCrash
  <2> QED
    BY <2>1, Unseen
<1>6. ASSUME NEW a \in Apps, Stop(a) PROVE Upgrade!Next \/ UNCHANGED Promised
  <2>1. UNCHANGED <<db, original, backups, lock>>
    BY <1>6 DEF Stop
  <2>2. CASE Running(a)
    <3>1. pc' = [pc EXCEPT ![a] = "dead"] /\ pc[a] \notin Gone
      BY <1>6, <2>2 DEF Stop, Running
    <3>2. Upgrade!Die(a) \/ Upgrade!Leave(a) \/ UNCHANGED Promised
      BY <1>0, <2>1, <3>1, EndsSeen
    <3> QED
      BY <1>0, <3>2 DEF Upgrade!Next
  <2>3. CASE ~Running(a)
    <3>1. pc' = pc
      BY <1>0, <1>6, <2>3 DEF Stop
    <3> QED
      BY <2>1, <3>1, Unseen
  <2> QED
    BY <2>2, <2>3
<1>7. CASE UNCHANGED vars
  BY <1>7, Unseen DEF vars
<1> QED
  BY <1>1, <1>2, <1>3, <1>4, <1>5, <1>6, <1>7 DEF StartStep

(* The migration keeps the promise of SchemaUpgrade, for any number of     *)
(* processes and migrations, wherever they fail or die.                    *)
THEOREM Refinement == Spec => SchemaIsUpgraded
<1>1. Init => Upgrade!Init
  <2> SUFFICES ASSUME Init PROVE Upgrade!Init
    OBVIOUS
  <2>1. db.version \in 0..Head
    BY DEF Init, Schema
  <2>2. {p \in Proc : pc[p] \in Announcing} = {}
    BY LocationFacts DEF Init
  <2> QED
    BY <2>1, <2>2 DEF Init, Upgrade!Init
<1>2. Inv /\ AheadInv /\ [Next]_vars => AheadInv'
  BY AheadStep
<1>3. Inv /\ AheadInv /\ [Next]_vars => [Upgrade!Next]_(Upgrade!vars)
  <2> SUFFICES ASSUME Inv, AheadInv, [Next]_vars
               PROVE  Upgrade!Next \/ UNCHANGED Promised
    BY DEF Upgrade!vars, Promised, Holder, Abandoned, Serving, Version, Changed, Saved
  <2>1. ASSUME NEW p \in Proc, ProcessStep(p) PROVE Upgrade!Next \/ UNCHANGED Promised
    <3>1. CASE db' = db
      BY <2>1, <3>1, KeepSeen
    <3>2. CASE db' # db
      BY <2>1, <3>2, ChangeSeen DEF Upgrade!Next
    <3> QED
      BY <3>1, <3>2
  <2> QED
    BY <2>1, OtherSeen DEF Next
<1> QED
  BY Invariance, AheadInit, <1>1, <1>2, <1>3, PTL DEF Spec, SchemaIsUpgraded, Upgrade!Spec
====
