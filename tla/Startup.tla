------------------------------ MODULE Startup ------------------------------
(***************************************************************************)
(* How the program starts and stops: RuntimeManager in the Electron main   *)
(* process, the runtime process it spawns (main.py), and the migration of  *)
(* the database under migration.lock (migration_manager.py), which the     *)
(* maintenance command line runs as well.                                  *)
(*                                                                         *)
(* SQLite commits each statement of DDL by itself until a migration first  *)
(* writes a row, and Alembic records the version at the end of each        *)
(* migration; so a process that dies leaves whatever it has come to.  Only *)
(* the schema is modelled, the rows are not.                               *)
(***************************************************************************)
EXTENDS Naturals, FiniteSets

CONSTANTS
  Apps,          \* runs of the Electron program, each with the runtime it spawns
  Maintainers,   \* runs of the maintenance command line
  Head,          \* number of migrations
  Guarded,       \* migrations that skip what is already there (0003)
  Transactional, \* migrations whose last part and version row are one transaction
                 \* (0003, 0005)
  NoOne,         \* no process
  MaxFailures    \* bound: how often a process may die or a statement raise

ASSUME ProcessesAssumption == Apps \cap Maintainers = {} /\ NoOne \notin Apps \cup Maintainers
ASSUME MigrationsAssumption ==
  Head \in Nat /\ Head >= 2 /\ Guarded \subseteq 3..Head /\ Transactional \subseteq 3..Head
ASSUME BoundsAssumption == MaxFailures \in Nat

Proc == Apps \cup Maintainers

(* The schema: how many migrations are complete, how much of the next one   *)
(* is there, whether alembic_version exists, its row (0: none), and whether *)
(* the tables have all their columns and keys.                              *)
Schema == [tables : 0..Head, half : {"none", "some", "all"}, versioned : BOOLEAN,
           version : 0..Head, complete : BOOLEAN]

VARIABLES
  db,        \* Schema
  original,  \* history: the schema the program found first
  backups,   \* the schemas of the .bak files
  lock,      \* who has created migration.lock
  pc,        \* where each runtime or maintenance process is
  stateFile, \* runtime-state.json: who wrote it, and whether all of it
  app,       \* where RuntimeManager and main.ts are
  status,    \* RuntimeManager.status.state
  runtimeOf, \* RuntimeManager.status.pid
  noticed,   \* whether the exit event of the child was delivered
  failures

disk == <<db, backups, lock, stateFile>>
manager == <<app, status, runtimeOf, noticed>>
vars == <<disk, original, pc, manager, failures>>

(* What collect_diagnostics has nothing against.                            *)
AtHead == db.version = Head /\ db.tables = Head /\ db.half = "none" /\ db.complete

nonempty(schema) == schema.tables > 0 \/ schema.half # "none" \/ schema.versioned

(* identify_legacy_state, for a database without a version row.            *)
identify_legacy_state(schema) ==
  CASE ~nonempty(schema) -> "empty"
    [] schema.tables = 1 \/ (schema.tables = 0 /\ schema.half = "all") -> "phase1"
    [] schema.tables = 2 -> "phase2"
    [] OTHER -> "unknown"

Migrating == {"backup", "baseline", "stamp", "stampRow", "upgrade", "ddl", "record",
              "validate", "unlock", "fail"}
Announcing == {"state", "write", "bind", "serving"}
Gone == {"exited", "dead"}
Running(p) == pc[p] \notin Gone \cup {"off"}
Open(a) == app[a] \notin {"off", "ended", "crashed"}

(* What earlier releases have left: nothing, tables without a version, some *)
(* of them not as identify_legacy_state takes them to be, or a recorded     *)
(* version.                                                                 *)
Init ==
  /\ db \in {s \in Schema : /\ s.half = "none"
                            /\ s.versioned <=> s.version > 0
                            /\ ~s.complete => s.tables > 0 /\ ~s.versioned
                            /\ IF s.versioned THEN s.tables = s.version ELSE s.tables <= 2}
  /\ original = db
  /\ backups = {}
  /\ lock = NoOne
  /\ pc = [p \in Proc |-> "off"]
  /\ stateFile = [of |-> NoOne, whole |-> FALSE]
  /\ app = [a \in Apps |-> "off"]
  /\ status = [a \in Apps |-> "null"]
  /\ runtimeOf = [a \in Apps |-> NoOne]
  /\ noticed = [a \in Apps |-> FALSE]
  /\ failures = 0

goto(p, from, to) == pc[p] = from /\ pc' = [pc EXCEPT ![p] = to]

-----------------------------------------------------------------------------
(* migrate_to_head.                                                        *)

(* Faulty: the file is created whether or not it exists.                   *)
TakeLock_shared(p) ==
  /\ goto(p, "lock", "backup")
  /\ lock' = p
  /\ UNCHANGED <<db, backups, stateFile, original, manager, failures>>

(* O_CREAT | O_EXCL.                                                        *)
TakeLock(p) ==
  /\ lock = NoOne
  /\ goto(p, "lock", "backup")
  /\ lock' = p
  /\ UNCHANGED <<db, backups, stateFile, original, manager, failures>>

(* Faulty: somebody else migrates, so go on.                               *)
LockTimesOut_goesOn(p) ==
  /\ lock # NoOne
  /\ goto(p, "lock", "state")
  /\ UNCHANGED <<disk, original, manager, failures>>

LockTimesOut(p) ==
  /\ lock # NoOne
  /\ goto(p, "lock", "exited")
  /\ UNCHANGED <<disk, original, manager, failures>>

(* Faulty: only databases without a version are backed up.                 *)
Backup_legacyOnly(p) ==
  /\ goto(p, "backup", "baseline")
  /\ backups' = IF nonempty(db) /\ ~db.versioned THEN backups \cup {db} ELSE backups
  /\ UNCHANGED <<db, lock, stateFile, original, manager, failures>>

Backup(p) ==
  /\ goto(p, "backup", "baseline")
  /\ backups' = IF nonempty(db) THEN backups \cup {db} ELSE backups
  /\ UNCHANGED <<db, lock, stateFile, original, manager, failures>>

(* An empty or versioned database is upgraded as it is, a known legacy one  *)
(* is stamped first, any other is refused.                                  *)
Baseline(p) ==
  /\ goto(p, "baseline",
          IF db.version > 0 \/ ~nonempty(db) THEN "upgrade"
          ELSE IF identify_legacy_state(db) \in {"phase1", "phase2"} THEN "stamp"
          ELSE "fail")
  /\ UNCHANGED <<disk, original, manager, failures>>

(* Alembic creates its table before it writes the row.                      *)
Stamp(p) ==
  /\ goto(p, "stamp", "stampRow")
  /\ db' = [db EXCEPT !.versioned = TRUE]
  /\ UNCHANGED <<backups, lock, stateFile, original, manager, failures>>

(* Faulty: a legacy database is stamped with the newest version.           *)
StampRow_head(p) ==
  /\ goto(p, "stampRow", "upgrade")
  /\ db' = [db EXCEPT !.version = Head]
  /\ UNCHANGED <<backups, lock, stateFile, original, manager, failures>>

(* Every table of the first migration makes a phase 1 database.             *)
StampRow(p) ==
  /\ goto(p, "stampRow", "upgrade")
  /\ LET legacy == IF identify_legacy_state(db) = "phase1" THEN 1 ELSE 2
     IN db' = [db EXCEPT !.tables = legacy, !.half = "none", !.version = legacy]
  /\ UNCHANGED <<backups, lock, stateFile, original, manager, failures>>

CreateVersionTable(p) ==
  /\ pc[p] = "upgrade"
  /\ ~db.versioned
  /\ db' = [db EXCEPT !.versioned = TRUE]
  /\ UNCHANGED <<backups, lock, stateFile, original, pc, manager, failures>>

(* Faulty: the upgrade does not stop at the head.                          *)
BeginMigration_pastHead(p) ==
  /\ db.versioned
  /\ db.half = "none"
  /\ goto(p, "upgrade", "ddl")
  /\ db' = [db EXCEPT !.half = "some"]
  /\ UNCHANGED <<backups, lock, stateFile, original, manager, failures>>

(* What an interrupted run has left of this migration makes it raise,       *)
(* "already exists", unless it is guarded.                                  *)
BeginMigration(p) ==
  /\ db.versioned
  /\ db.version < Head
  /\ IF db.half = "none" \/ db.version + 1 \in Guarded
     THEN goto(p, "upgrade", "ddl") /\ db' = [db EXCEPT !.half = "some"]
     ELSE goto(p, "upgrade", "fail") /\ UNCHANGED db
  /\ UNCHANGED <<backups, lock, stateFile, original, manager, failures>>

Recorded == [db EXCEPT !.tables = @ + 1, !.half = "none", !.version = @ + 1]

Migrate(p) ==
  /\ \/ /\ db.version + 1 \in Transactional
        /\ goto(p, "ddl", "upgrade")
        /\ db' = Recorded
     \/ /\ db.version + 1 \notin Transactional
        /\ goto(p, "ddl", "record")
        /\ db' = [db EXCEPT !.half = "all"]
  /\ UNCHANGED <<backups, lock, stateFile, original, manager, failures>>

Record(p) ==
  /\ goto(p, "record", "upgrade")
  /\ db' = Recorded
  /\ UNCHANGED <<backups, lock, stateFile, original, manager, failures>>

UpgradeEnds(p) ==
  /\ db.version = Head
  /\ goto(p, "upgrade", "validate")
  /\ UNCHANGED <<disk, original, manager, failures>>

(* The end of migrate_to_head; assert_database_ready asks the same again.   *)
Validate(p) ==
  /\ goto(p, "validate", IF AtHead THEN "unlock" ELSE "fail")
  /\ UNCHANGED <<disk, original, manager, failures>>

(* __exit__ unlinks the file, whatever has happened; an exception then ends *)
(* the process.                                                             *)
Unlock(p) ==
  /\ \/ goto(p, "unlock", IF p \in Apps THEN "ready" ELSE "exited")
     \/ goto(p, "fail", "exited")
  /\ lock' = NoOne
  /\ UNCHANGED <<db, backups, stateFile, original, manager, failures>>

-----------------------------------------------------------------------------
(* run, after the migration.                                               *)

Ready(p) ==
  /\ goto(p, "ready", IF AtHead THEN "state" ELSE "exited")
  /\ UNCHANGED <<disk, original, manager, failures>>

OpenStateFile(p) ==
  /\ goto(p, "state", "write")
  /\ stateFile' = [of |-> p, whole |-> FALSE]
  /\ UNCHANGED <<db, backups, lock, original, manager, failures>>

WriteStateFile(p) ==
  /\ goto(p, "write", "bind")
  /\ stateFile' = [of |-> p, whole |-> TRUE]
  /\ UNCHANGED <<db, backups, lock, original, manager, failures>>

(* The reserved port was given back, and may be somebody else's by now.     *)
Bind(p) ==
  /\ goto(p, "bind", "serving") \/ goto(p, "bind", "exited")
  /\ UNCHANGED <<disk, original, manager, failures>>

ProcessStep(p) ==
  \/ TakeLock(p) \/ LockTimesOut(p) \/ Backup(p) \/ Baseline(p) \/ Stamp(p) \/ StampRow(p)
  \/ CreateVersionTable(p) \/ BeginMigration(p) \/ Migrate(p) \/ Record(p)
  \/ UpgradeEnds(p) \/ Validate(p) \/ Unlock(p)
  \/ Ready(p) \/ OpenStateFile(p) \/ WriteStateFile(p) \/ Bind(p)

Maintain(m) ==
  /\ goto(m, "off", "lock")
  /\ UNCHANGED <<disk, original, manager, failures>>

-----------------------------------------------------------------------------
(* RuntimeManager and main.ts.                                             *)

(* Faulty: the state file of an earlier runtime stays.                     *)
Start_keepsStateFile(a) ==
  /\ app[a] = "off"
  /\ \A b \in Apps : ~Open(b)
  /\ app' = [app EXCEPT ![a] = "polling"]
  /\ goto(a, "off", "lock")
  /\ UNCHANGED <<disk, original, status, runtimeOf, noticed, failures>>

(* start: single instance; Windows does not remove a file somebody is just  *)
(* writing, and then start raises before it spawns.                         *)
Start(a) ==
  /\ app[a] = "off"
  /\ \A b \in Apps : ~Open(b)
  /\ IF \E p \in Proc : pc[p] = "write"
     THEN /\ app' = [app EXCEPT ![a] = "failing"]
          /\ UNCHANGED <<pc, stateFile>>
     ELSE /\ app' = [app EXCEPT ![a] = "polling"]
          /\ goto(a, "off", "lock")
          /\ stateFile' = [of |-> NoOne, whole |-> FALSE]
  /\ UNCHANGED <<db, backups, lock, original, status, runtimeOf, noticed, failures>>

(* waitForStateFile: JSON.parse raises on a file that is being written.     *)
Poll(a) ==
  /\ app[a] = "polling"
  /\ stateFile.of # NoOne
  /\ IF stateFile.whole
     THEN /\ app' = [app EXCEPT ![a] = "up"]
          /\ status' = [status EXCEPT ![a] = "running"]
          /\ runtimeOf' = [runtimeOf EXCEPT ![a] = stateFile.of]
     ELSE /\ app' = [app EXCEPT ![a] = "failing"]
          /\ UNCHANGED <<status, runtimeOf>>
  /\ UNCHANGED <<disk, original, pc, noticed, failures>>

(* Faulty: the manager waits for the file as long as it takes.             *)
PollTimesOut_never(a) ==
  /\ app[a] = "polling"
  /\ stateFile.of # NoOne
  /\ app' = [app EXCEPT ![a] = "failing"]
  /\ UNCHANGED <<disk, original, pc, status, runtimeOf, noticed, failures>>

(* Fifteen seconds have passed.                                             *)
PollTimesOut(a) ==
  /\ app[a] = "polling"
  /\ app' = [app EXCEPT ![a] = "failing"]
  /\ UNCHANGED <<disk, original, pc, status, runtimeOf, noticed, failures>>

(* The exit event of the child.                                             *)
ChildExits(a) ==
  /\ Open(a)
  /\ pc[a] \in Gone
  /\ ~noticed[a]
  /\ noticed' = [noticed EXCEPT ![a] = TRUE]
  /\ status' = [status EXCEPT ![a] = IF @ \in {"null", "stopped"} THEN @ ELSE "failed"]
  /\ UNCHANGED <<disk, original, pc, app, runtimeOf, failures>>

(* Faulty: the child is not killed.                                        *)
Stop_leavesChild(a) ==
  /\ app[a] \in {"up", "failing"}
  /\ app' = [app EXCEPT ![a] = "stopping"]
  /\ status' = [status EXCEPT ![a] = IF @ = "null" THEN @ ELSE "stopping"]
  /\ UNCHANGED <<disk, original, pc, runtimeOf, noticed, failures>>

(* stop: after a failed start, or when the user quits.                      *)
Stop(a) ==
  /\ app[a] \in {"up", "failing"}
  /\ app' = [app EXCEPT ![a] = "stopping"]
  /\ status' = [status EXCEPT ![a] = IF @ = "null" THEN @ ELSE "stopping"]
  /\ pc' = [pc EXCEPT ![a] = IF Running(a) THEN "dead" ELSE @]
  /\ UNCHANGED <<disk, original, runtimeOf, noticed, failures>>

(* The exit event has come, or three seconds have passed.                   *)
StopEnds(a) ==
  /\ app[a] = "stopping"
  /\ app' = [app EXCEPT ![a] = "ended"]
  /\ status' = [status EXCEPT ![a] = IF @ = "null" THEN @ ELSE "stopped"]
  /\ UNCHANGED <<disk, original, pc, runtimeOf, noticed, failures>>

StartStep(a) ==
  \/ Poll(a) \/ PollTimesOut(a) \/ StopEnds(a)
  \/ app[a] = "failing" /\ Stop(a)

-----------------------------------------------------------------------------
(* Failures.                                                               *)

(* A statement raises: the disk is full, or the database is locked by the   *)
(* requests of a runtime an Electron process has left behind.               *)
StatementRaises(p) ==
  /\ failures < MaxFailures
  /\ pc[p] \in {"backup", "stamp", "stampRow", "upgrade", "ddl", "record"}
  /\ failures' = failures + 1
  /\ pc' = [pc EXCEPT ![p] = "fail"]
  /\ UNCHANGED <<disk, original, manager>>

(* A runtime or maintenance process dies; its lock file stays.              *)
Crash(p) ==
  /\ failures < MaxFailures
  /\ Running(p)
  /\ failures' = failures + 1
  /\ pc' = [pc EXCEPT ![p] = "dead"]
  /\ UNCHANGED <<disk, original, manager>>

(* The Electron process dies; its runtime lives on.                         *)
AppCrash(a) ==
  /\ failures < MaxFailures
  /\ Open(a)
  /\ failures' = failures + 1
  /\ app' = [app EXCEPT ![a] = "crashed"]
  /\ UNCHANGED <<disk, original, pc, status, runtimeOf, noticed>>

Next ==
  \/ \E p \in Proc : ProcessStep(p) \/ StatementRaises(p) \/ Crash(p)
  \/ \E m \in Maintainers : Maintain(m)
  \/ \E a \in Apps : Start(a) \/ StartStep(a) \/ ChildExits(a) \/ Stop(a) \/ AppCrash(a)

(* Processes keep running, and timers go off.  Nothing is assumed of users  *)
(* and failures.                                                           *)
Fairness ==
  /\ \A p \in Proc : WF_vars(ProcessStep(p))
  /\ \A a \in Apps : WF_vars(StartStep(a))

Spec == Init /\ [][Next]_vars
FairSpec == Spec /\ Fairness

-----------------------------------------------------------------------------
(* Type invariant.                                                         *)

TypeOK ==
  /\ db \in Schema
  /\ original \in Schema
  /\ backups \in SUBSET Schema
  /\ lock \in Proc \cup {NoOne}
  /\ pc \in [Proc -> {"off", "lock", "ready", "state", "write", "bind", "serving"}
                       \cup Migrating \cup Gone]
  /\ stateFile \in [of : Proc \cup {NoOne}, whole : BOOLEAN]
  /\ app \in [Apps -> {"off", "polling", "up", "failing", "stopping", "ended", "crashed"}]
  /\ status \in [Apps -> {"null", "running", "failed", "stopping", "stopped"}]
  /\ runtimeOf \in [Apps -> Proc \cup {NoOne}]
  /\ noticed \in [Apps -> BOOLEAN]
  /\ failures \in 0..MaxFailures

-----------------------------------------------------------------------------
(* Safety.                                                                 *)

(* Only one process at a time works on the database, and only one that died *)
(* leaves the lock file behind.                                             *)
OneMigrator ==
  /\ \A p, q \in Proc : pc[p] \in Migrating /\ pc[q] \in Migrating => p = q
  /\ lock # NoOne => pc[lock] \in Migrating \cup {"dead"}

(* The recorded version never promises a schema that is not there, wherever *)
(* a process was killed and however often the migration was begun again.    *)
VersionIsTrue == db.version > 0 => db.versioned /\ db.tables = db.version

(* A runtime serves requests, announces itself or counts as running only    *)
(* with the schema of this release.                                         *)
ServedSchemaIsHead ==
  \/ AtHead
  \/ /\ \A p \in Proc : pc[p] \notin {"state", "write", "bind", "serving"}
     /\ \A a \in Apps : status[a] # "running"

(* The database of the user is changed only when a backup of it exists.     *)
OriginalHasBackup == db # original /\ nonempty(original) => original \in backups

(* The manager talks to the runtime it has spawned, except to one that a    *)
(* crashed Electron process has left behind.                                *)
AdoptsOwnRuntime ==
  \A a \in Apps : runtimeOf[a] \in {NoOne, a} \/ app[runtimeOf[a]] = "crashed"

(* A program that was quit, or failed to start, leaves no runtime running.  *)
EndedAppHasNoRuntime == \A a \in Apps : app[a] = "ended" => ~Running(a)

-----------------------------------------------------------------------------
(* The promise of SchemaUpgrade.                                           *)

Upgrade == INSTANCE SchemaUpgrade WITH
  Workers <- Proc,
  Baselines <- {1, 2},
  Nobody <- NoOne,
  version <- db.version,
  changed <- db # original,
  saved <- (nonempty(original) => original \in backups),
  holder <- IF lock # NoOne /\ pc[lock] \in Migrating THEN lock ELSE NoOne,
  abandoned <- lock # NoOne /\ pc[lock] = "dead",
  serving <- {p \in Proc : pc[p] \in Announcing}

(* migrate_to_head, run by any number of processes that may die anywhere,  *)
(* keeps the promise of SchemaUpgrade: under the lock only, after a backup *)
(* of what the user had, one version after the other, and never again once *)
(* a runtime has found the head or a process has died over it.             *)
SchemaIsUpgraded == Upgrade!Spec

-----------------------------------------------------------------------------
(* Liveness.                                                               *)

(* Every start ends: with a running runtime or with an error, whatever the  *)
(* lock, the database and the runtime do.                                   *)
EveryStartEnds == \A a \in Apps : app[a] = "polling" ~> app[a] \in {"up", "ended", "crashed"}
====
