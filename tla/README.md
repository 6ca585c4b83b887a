# CLM Assistant Desktop in TLA+

The program is a desktop assistant for one user on one Windows machine.  An
Electron application (`src/apps/desktop`) starts a local Python server, the
Agent Runtime (`src/services/agent_runtime`), and talks to it over HTTP on the
loopback interface.  The runtime turns a message into a plan of at most ten
tool calls, executes the tools on files inside granted workspaces, on the host
and on other desktop windows, and keeps everything it did in one SQLite
database.  Its request handlers are ordinary synchronous functions, so the
server runs them **concurrently in a pool of threads, each with a database
session of its own**; this, process crashes and the life cycle of the two
processes are where the hard behaviours come from.

## 1. Inventory

| Component | State it keeps | Operations | Hard behaviours | What makes it correct |
|---|---|---|---|---|
| Agent orchestrator `agent/orchestrator.py` | `tasks`, `plans`, `plan_steps`, `clarifications` | `run`, `cancel`, answer a clarification, retry, continue | a run takes many transactions; cancellation, other runs and crashes fall between them | steps run in order and only after success; COMPLETED means all steps; a settled task has settled steps |
| Idempotency, leases `agent/execution_control.py` | `idempotency_records`, `execution_leases`, UNIQUE `tasks.idempotency_key` | `existing_response`, `remember`, `hold` | check and insert in different transactions, expiry, leftovers of a crash | a key is executed once and answered once; conflicting writers do not overlap; leases come back |
| Task state machine `agent/state_machine.py` | `tasks.state`, `task_events` | `transition` | other writers bypass it | only listed moves |
| Structured tasks, approvals, undo `services/structured_task_service.py` | tool `tasks`, `actions`, `approvals`, `undo_records`, `batch_manifests`, `recovery_items` | `create_task`, `decide_approval`, `undo` | two decisions at once, expiry, the file changing while the user decides, a crash after the side effect, undo twice | one decision executes one side effect; a rejection leaves the file alone; undo restores or refuses |
| File tools, path policy `core/file_tools.py`, `core/path_policy.py` | the workspace files, backups, recovery bin | create, write, append, copy, move, batches, zip, recovery bin | partial failure, check then act | no overwriting, verified postconditions |
| Desktop automation `core/desktop_tools.py` | windows of other programs | list, wait, activate, get and set state, inspect, read, write, invoke, select, scroll, close, capture | windows close, are replaced under a reused handle and are redrawn between any two looks | acts on the window and control that were named; reports what it has observed |
| Host tools `core/host_tools.py` | processes, clipboard | launch, open, terminate | a pid is reused | terminates the process that was confirmed |
| Engineering commands `engineering/command_runner.py` | a child process tree, its output, a reader thread | `prepare`, `run` | the script changes before it runs, timeout against exit, processes that start and end while they are being killed, output at its cap | runs what was approved, ends in time, accounts for the output |
| Project context `engineering/project_context.py` | none | bounded scan | none | bounds hold |
| Planner, providers, credentials `agent/planner.py`, `agent/provider_settings.py`, `agent/credentials.py` | `provider_settings`, credential store | `create_plan`, get and set | a plan may be anything | the plan is validated before it runs |
| Capability policy `agent/capability_policy.py` | none, a table | `decision_for` | two tables that should agree | the tables agree |
| Migration and startup `db/migration_manager.py`, `main.py` | lock file, backup, schema revision, state file | lock, back up, baseline, upgrade, check, serve | two processes, a crash at any point, a stale lock | one migrates at a time; the server runs on a checked schema |
| Runtime manager `apps/desktop/src/main/runtimeManager.ts` | child process, status, state file | `start`, `stop`, exit handler | events of an old child, stop during start, timers | status tells the truth |
| HTTP API, renderer, scripts | none of their own | | | |

The components interact through **calls** (renderer to Electron main over IPC,
main to runtime over HTTP, routes to services in the same thread), through the
**database** (all services), the **file system** (tools, backups, state file,
lock file) and **process events** (Electron and the child runtime).

## 2. How the modules divide the system

| # | Module | Models | State |
|---|---|---|---|
| 1 | `TaskStates` | the task states and the transition table of `state_machine.py` | done |
| 2 | `IdempotentSubmission` | abstract: what an idempotency key promises a client | done |
| 3 | `Orchestrator` (uses 1, implements 2) | `run()`, leases, idempotency, cancellation, crash | checked, proved |
| 4 | `OrchestratorProofs` | its theorems and the refinement | done |
| 5 | `Approvals` (implements 16) | high-risk tasks: request, decision, backup, overwrite, undo, cancellation | checked, proved |
| 6 | `ApprovalsProofs` | its theorems and the refinement | done |
| 7 | `Files` | the file tools, batches, manifests, recovery bin and their undo | checked, proved |
| 8 | `Startup` (implements 15) | migration lock and migrations, start of the runtime, the Electron manager, maintenance | checked, proved |
| 9 | `StartupProofs` | its theorems and the refinement | done |
| 10 | `FilesProofs` | its theorems | done |
| 11 | `CommandRunner` | one command: fingerprint, processes, reader thread, timeout, kill, output cap | checked, proved |
| 12 | `CommandRunnerProofs` | its theorems | done |
| 13 | `DesktopWindows` | one desktop task on a desktop that others change | checked, proved |
| 14 | `DesktopWindowsProofs` | its theorems | done |
| 15 | `SchemaUpgrade` | abstract: what the migration of the database promises the program | done |
| 16 | `ApprovalGate` | abstract: what an approval promises the user | done |

`MCOrchestrator`, `MCApprovals`, `MCFiles`, `MCStartup`, `MCCommandRunner` and
`MCDesktopWindows` declare the model values and the finite sets of requests,
plans, texts and windows of the runs.

The modules meet where the code does.  `Orchestrator` sees a tool as one
transaction with an outcome (`ToolOutcomes`); `Approvals` and `Files` open that
transaction up for tools that need an approval and for tools that change files.
Each of the two models the rest as an environment: `Approvals` has
`OtherTask`, a `create_task` that may keep the write lock as long as it likes,
and `Edit`, the user's other programs; `Files` has `Edit` too.  `CommandRunner`
and `DesktopWindows` open two more tools up: what `Approvals` calls `Act`, between
`Decide` and `Finish`.  Each follows a single task whose approval is decided once
(two decisions at a time are the matter of `Approvals`), against an environment
that may do anything: a script and its processes, a desktop and its user.

### Facts about SQLite and SQLAlchemy all modules share

These follow from how `db/session.py` and the services use the libraries.

* A `SELECT` runs in a transaction of its own: two reads of one handler may see
  different states, and what it read may be stale when it commits.
* The first flush of a changed row takes the one write lock of the database and
  keeps it until the commit.  `create_task` and `undo` flush first and act
  afterwards; `decide_approval` acts first and flushes last (for a batch: when
  it stores its items).
* A writer that waits longer than five seconds gets an error.  The session is
  then unusable, so nothing after it in the handler is written, not even by a
  `finally` clause.
* An `UPDATE` does not look at the version of the row: the last commit wins.
* In a migration, SQLite commits every statement of DDL by itself until the
  first statement that changes a row; from there to the version row is one
  transaction.

## 3. The modules

### `Orchestrator`

| In the model | In the code |
|---|---|
| `task`, `plan`, `planStep`, `toolTask`, `clarification`, `record` | `tasks.state`, the saved plan, `plan_steps.status`, the state the tool's task reports, `clarifications.status`, `idempotency_records` |
| `lease` | the HELD, unexpired rows of `execution_leases` |
| `pc`, `index`, `dirty`, `stepDirty`, `answer` | where the handler thread is, and what its session has changed and not committed |
| `Replay`, `RefuseReusedKey`, `Accept`, `Intake` | `IdempotencyService.existing_response`, `TaskIntakeService.create` |
| `StartPlanning` ... `Queue`, `CommitState` | the head of `run()`, one action per read-and-transition or commit |
| `BlockStep`, `StartStep` | the head of the loop body and its commit |
| `CheckLeases`, `LeaseConflict`, `GrantLeases`, `Release` | `ExecutionLockService.hold` |
| `BeginTool`, `EndTool`, `RefuseArguments`, `Attach` | `ToolExecutor`, `create_task`, `_attach_tool_observation` |
| `Close`, `Respond`, `Remember` | the final commit, the response, `IdempotencyService.remember` |
| the cancel, answer, expiry and crash actions | `CancellationService`, the clarification route, time, the process |

`Busy` is what becomes of any commit of the run while another thread keeps the
write lock for more than five seconds.  A message is reduced to the plan the
planner makes of it, a path to its lock key.

### `Approvals`

One approval belongs to one high-risk task.  `Decide` reads the approval and
chooses between rejection, expiry and execution; `Check`, `Backup`, `Write`,
`Verify` are the four looks at the file that
`overwrite_text_with_backup` takes; `Act` is a host or desktop tool without a
file, which may also raise after its effect; `Finish`, `Reject`, `Expire`, `Invalidate` are the last commit;
`DecisionLocked` is that commit running into a held lock, after the side effect.
`Undo` ... `UndoCommit` are `undo` and the OVERWRITE branch of `apply_undo`.
Contents stand for their SHA-256.  The history variable `raced` collects the
files that somebody changed while another thread was between its check and its
last look: the code cannot protect those (it has no lock on files), and the
properties say that **only** those can go wrong.

`ApprovalGate` says what an approval is to the user, whatever is done with it: a
request is let `inside` only while the approval is `open`, and whoever is inside
runs the tool once at most and stores one decision at most, a refusal only if it
has done nothing and a consent only if it has acted.  The gate shuts with the first
decision or with a cancellation and never opens again, but not behind those who
are inside, so that two of them may act and the last has the last word: that much
of finding 2 of section 5 is part of the promise, because the code does not give
more.  `Approvals` maps `open` to an approval that is PENDING and whose task is
neither cancelled nor failed (`Open`, the condition `decide_approval` reads), and
`inside` to the approval of a decision that has not ended, where ended includes an
error at the commit and the death of the process.

### `Files`

A call is a request (a tool and its items).  `CallStep` takes an item through
`check` (`_resolve_new_descendant` and the tool's own conditions), `act` (one
`replace`, `copy`, `move` or append) and `verify`; the batch tools and
`extract_zip` repeat it per item and differ in what a failing item means.
`NoteItem` makes the undo record of an item after the whole call,
`PassOver` the manifest rows, `Commit` and `DuplicateSlot` the one commit.
`Approve` is `validate_batch_manifest`.  `Undo` ... `UndoCommit` are the branches
of `apply_undo` for created, appended, copied, moved and recovered files.  A
text is a sequence of pieces, so that truncation is what it is in the code.

Two history variables say who came between a check and an act.  `raced` collects the
places that anybody changed while another was at work on them.  `interrupted` is
narrower: the undos whose file was changed between their look at it and their act, by
another program or by an approved call.  An undo and a call without approval hold the
write lock from before their first look until their commit, so these cannot
interrupt an undo, and the model does not assume it: it follows from `UndoFlush` and
`Begin`.

### `Startup`

| In the model | In the code |
|---|---|
| `db` | the schema: complete migrations, the part of the next that exists, `alembic_version`, its row, and whether `collect_diagnostics` would find columns missing |
| `lock`, `backups`, `stateFile` | `migration.lock`, the `.bak` files, `runtime-state.json` |
| `pc` | where a runtime or maintenance process is in `migrate_to_head` and `run` |
| `app`, `status`, `runtimeOf`, `noticed` | `main.ts` and `RuntimeManager`: phase, `status.state`, `status.pid`, exit event delivered |
| `TakeLock`, `LockTimesOut`, `Unlock` | `MigrationLock` |
| `Backup`, `Baseline`, `Stamp`, `StampRow` | `backup_database`, `baseline_legacy_database` |
| `CreateVersionTable`, `BeginMigration`, `Migrate`, `Record`, `UpgradeEnds` | `alembic upgrade head` over `alembic/versions` |
| `Validate`, `Ready` | the check of the diagnostics, `assert_database_ready` |
| `OpenStateFile`, `WriteStateFile`, `Bind` | `write_state_file`, `uvicorn.run` on the port reserved before |
| `Start`, `Poll`, `PollTimesOut`, `ChildExits`, `Stop`, `StopEnds` | `RuntimeManager` |
| `StatementRaises`, `Crash`, `AppCrash` | failures |

The constant `Guarded` holds the migrations that look before they add (0003),
`Transactional` those that write rows early, so that the rest of them and
their version row are one transaction (0003, and 0005 after its first
`CREATE TABLE`).  A process that was killed leaves the lock file for ever;
the code has no recovery from that, so from then on every start ends with an
error.  An exception releases the lock, and the next start meets whatever the
interrupted migration has left: if the migration is not guarded it fails again
at "already exists", every time.  The model has both, and shows that neither
ever serves requests on such a schema.

`SchemaUpgrade` says what of all this the program may rely on: a `holder` who alone
changes the schema, and only once what the user had is `saved`; a `version` that goes
up one migration at a time, or from none to a baseline; nobody at work any more once
one has died over it (`abandoned`); and whoever serves has found the last version,
which no action changes.  `Startup` maps the holder to the process that created
`migration.lock` and is still inside `migrate_to_head`, `abandoned` to a lock file whose
process is dead, `serving` to the runtimes from the writing of the state file on.

### `CommandRunner`

| In the model | In the code |
|---|---|
| `script`, `approved`, `checked`, `ran` | the file, and what of it the approval, the second `prepare` and PowerShell have seen |
| `proc`, `ancestors`, `returncode` | the process tree below `Popen` |
| `Request`, `Approve` | `create_task` and `decide_approval` for ENGINEERING_RUN |
| `Prepare`, `Resolve`, `Start`, `StartFails` | `prepare`, the paths, `Popen` |
| `WaitReturns`, `WaitExpires` | `process.wait(timeout=...)` |
| `ListTree`, `KillChild`, `KillRaises`, `KillDenied`, `WaitProcs`, `KillRoot` | `_terminate_process_tree` |
| `KillRootDenied` | `process.kill()` raising an `OSError`, which `run` catches as an executable that is not available |
| `WaitAgain`, `WaitAgainExpires` | the second `wait` |
| `ReadChunk`, `ReadEnd` | `drain_output` in its thread |
| `JoinReturns`, `JoinExpires`, `TakeOutput`, `Report` | `reader.join(timeout=5)`, `_result`, `complete_from_result` |
| `ReadScript`, `Spawn`, `Write`, `Exit`, `Die`, `Edit` | PowerShell, what it starts, and other programs |

Three facts decide what can go wrong.  The script is hashed twice and read a third
time, by PowerShell: the history variable `raced` says that it was edited after the
comparison, and only the script itself is hashed, not what it calls.
psutil finds a process through its parents, so one whose parent has ended is not
found, one started during the killing is in no list, and one that has ended by itself, or
that the runtime has no right to kill, makes `kill()` raise, which ends the loop and leaves
the rest; `slipped` collects exactly these.
`BufferedReader.read(8192)` returns when it has 8192 bytes or the pipe has no writer
left, so the reader of a tree that outlives PowerShell may still hold back what
was written; `JoinExpires` happens only while somebody holds the pipe, since five
seconds are enough to empty one that nobody writes to.

### `DesktopWindows`

| In the model | In the code |
|---|---|
| `open`, `state`, `text`, `layout` | the windows of other programs and their controls |
| `shown`, `target`, `wish`, `wanted` | the identities a client has listed, and its request |
| `handle`, `resolved` | what `_wrapper` and `ControlResolver.resolve` returned |
| `fingerprint`, `session`, `resolve` | `_identity`, `WindowTargetResolver` |
| `readings`, `sights`, `list_windows` | what a listing can read of a window, and which windows it passes over because a call on them raised |
| `flag`, `ElementInfo`, `patterns`, `usable` | `_control_metadata`, and the conditions of `ControlResolver.resolve` |
| `Poll`, `WaitTimesOut` | `wait_for_window` |
| `Bind` | `_target_from_args`, `assert_action_allowed` |
| `Locate` | `_wrapper` with `revalidate`, each time it is called |
| `Act`, `Close`, `Recheck`, `Look`, `Capture` | activate, close, state and capture with their postconditions |
| `Descend`, `Use`, `ReadBack` | `inspect_controls` and `resolve`, the call on the control, the value read again |
| `CallRaises` | any call into a window that fails |
| `UserOpens`, `UserCloses`, `UserResizes`, `UserTypes`, `Redraw` | the user, other programs, and a second task of the runtime |

The model is of the real adapter; the fake one belongs to the tests.  Every use of a
window goes through its handle again, and every use of a control through its name, so
between `Locate` and the use anything may happen.  `ActsOnBoundTarget` makes no
exception for that: it says what still holds then, whoever has closed, opened or redrawn
what.  The window acted upon has the handle that was named; while the named window
is open it is that one; the control fits the request, and is the one that was
resolved while that one is there.  What does *not* hold is visible in what is left out: a handle
that has passed to another window after the last look is used, and so is a control
redrawn under its old name.

A listing asks psutil for executable and creation time, and the element for its runtime
id; each may fail.  Without the creation time or the runtime id a substitute goes into
the fingerprint, without the executable the window belongs to no profile, and a window
whose inspection raises otherwise is not listed at all (`sights`).

A control is off the screen, or a password field, if the element's attribute `offscreen` or
`is_password` says so, and is not if the element has no such attribute.  Which of the two there
are is the constant `ElementInfo`.  The runs take it to be empty, as we read pywinauto
0.6.9 (`pyproject.toml`), which is not part of the repository; the proofs hold for any value.

A window that the same process opens again under the same handle is, to
every check the code makes, the same window.  Two consequences of the code are in
the model and worth knowing: `_identity` makes a new session id for every listing, so
that in practice only a target with an empty session id and a single window of the
application gets past `Locate`; and `_control_metadata` never notes the patterns
`SelectionItem` and `Scroll`, so `select_item` and `scroll_control` are always refused.

## 4. What is checked

| Run | Instance | Distinct states | Shows |
|---|---|---|---|
| `orchestrator` | 2 runs, 1 cancel thread, 1 key, 2 paths, 4 plans of at most 2 steps, expiring leases, 1 crash | 1.4 million | 8 properties, one of them that `run()` implements `IdempotentSubmission` |
| `orchestrator_live` | as above with fewer plans, fair | 276,000 | `EveryRequestSettles` |
| `cancelled_step` | no crash | violation | a cancelled task starts its next step |
| `approvals` | 2 overwrites of one file, 2 decisions, 1 undo, 1 cancel, 2 texts, 1 edit, 1 crash; symmetric decision threads | 2.8 million | 6 properties of approval, task, file, backup and undo record, and that the decisions implement `ApprovalGate` |
| `approvals_live` | an overwrite and a host tool, no edit, fair, no symmetry | 229,000 | `EveryDecisionEnds` |
| `rejected_leaves_file` | 1 approval, 2 decisions | violation | the file is overwritten and the approval is REJECTED |
| `files` | 2 calls out of 10 requests, 2 undos, 3 paths, 1 recovery slot, at most 2 items, 1 edit, 1 crash; symmetric threads | 3.5 million | 7 properties of records, texts and manifests |
| `batch_undo` | no edit, no crash | violation | a chained batch ends without its undo records |
| `startup` | 2 starts, 1 maintenance run, 4 migrations, 9 initial schemas, 1 failure, fair | 680,000 | 6 safety properties, that the migration implements `SchemaUpgrade`, and `EveryStartEnds` |
| `command_runner` | PowerShell and 2 processes below it, 2 texts, 2 edits, chunks of 2, cap of 4, 5 written, fair | 1.5 million | 4 safety properties and `EveryRunEnds` |
| `desktop_windows` | 3 windows of 2 processes on 2 handles, 2 layouts, 2 wishes, unreadable windows, 1 listing, 2 events; symmetric texts | 2.9 million | `ActsOnBoundTarget`, `CompletionIsObserved` |
| `controls_fail_closed` | the same, nobody else acts | violation | a task acts on a password field |

Each property of a passing run is also shown to have teeth: next to the action
it depends on, the modules define a faulty variant (`ListTree_flat`,
`Check_unchecked`, `Stop_leavesChild`, ...), the way a plausible mistake in that
function would look, and with it TLC finds the property violated.  The faulty
variants are used by no specification.

**Why the bounds are enough.**  Everything these components do to each other is
pairwise: one thread reads, another commits in between.  Two runs, two
decisions, two undos or two starts therefore meet all the conflicts; a third
party (cancel, edit, expiry, crash, another tool) is always there as well.  Two
steps of a plan and two items of a batch are the fewest that have a "before",
an "after" and a "between"; what only a third item could do is covered by the proof
(`ManifestTexts`).  Three paths let a batch chain moves.  Four
migrations have one of each kind: plain and legacy-stamped (1, 2), guarded and
transactional (3), transactional after its first statement (4).  One crash is
enough for every place it may fall in; after a second one nothing new is left
to be cut short, since a crash ends all threads of its process.  In `startup`
the one failure is a crash of the runtime, of Electron, or a statement that
raises; with two failures the safety properties were checked as well.

In `command_runner`, two processes below PowerShell are a parent and a child as well as
two siblings; a chunk of 2 and a cap of 4 let a chunk end at the cap, and 5 bytes
cross it with an incomplete chunk.  In `desktop_windows`, a program has two windows, and the handle of
one of them passes to another program or back to the same; two events are a closing and an
opening between two looks, or a redrawing in either order with one of them.  Two controls
fit one wish, one of them a password field; in the other layout one is off the screen, and one
lies beyond `MAX_CONTROLS`.

**Deadlock** is not checked: every run has finitely many threads, requests,
edits and crashes, and stops when they are used up.  That threads do not wait
for each other for ever is what the liveness properties say.

**Fairness.**  Weak fairness of each thread's own steps: a statement or file
operation returns, a wait for the write lock ends with the lock or, after five
seconds, with an error, and timers go off.  `WF(RunStep(r))` of each run,
`WF(DecisionStep(d))`, `WF(UndoStep(u))`, and in `Startup` `WF(ProcessStep(p))`
and `WF(StartStep(a))`, in `CommandRunner` `WF(RunStep)` and `WF(ReaderStep)`.  The server runs each handler in a thread of its own, so
fairness is per thread.  Nothing is assumed of clients, users, cancellations,
lease expiry, other writers, edits or crashes, nor
of a script and the processes it starts, which may run for ever and hold the pipe: other writers may hold the lock
for as long as they like and the liveness properties still hold, because the
wait is bounded.

## 5. What the checks found

Four statements of the documents do not hold of the code.  Each is a run of its
own that ends in a counterexample.

1. *"No further unstarted steps will run"* after a cancellation
   (`docs/TASK_LIFECYCLE.md:15`): the loop of `run()` does not read `Task.state`
   between steps.  A cancellation is noticed after the last step.
2. *"Rejected approval leaves the original file unchanged"*
   (`docs/HUMAN_ACCEPTANCE_BACKLOG.md:16`): an approval and a rejection in flight
   together may do both.
3. *"Each successful item receives its own ... undo record; partial failures are
   reported as partial results"* (`ARCHITECTURE.md:127`): a batch that moves one
   file on with a later item fails while it makes the records.
4. *"Ambiguous, missing, invisible, disabled, unsupported, password, or stale controls
   fail closed"* (`docs/DESKTOP_AUTOMATION_THREAT_MODEL.md:13`, likewise
   `ARCHITECTURE.md:147`): the flags are read with a default of `False` from attributes the
   library's elements do not have, so a password field named in a request is read or
   written like any other.  This rests on the assumption about pywinauto stated in section 3.
   With `ElementInfo = {"is_password", "offscreen"}` the run finds no error.  Then somebody has
   to redraw the window in between, or the window must have more than 200 controls: only the
   first 200 are inspected, and a second control that fits beyond them does not make the
   target ambiguous.

Two more disagreements have no run of their own.

5. Notepad *"supports list, wait, activate, window state, inspect, read, write,
   invoke, close, and capture"* (`docs/UIA_PROFILES.md:5`): a target sent back as it
   was listed is refused, because its session id is of an older listing.  This is proved, for
   every desktop: `ListedTargetsLeadNowhere`.  The tests use the fake adapter, whose
   ids are constant.
6. *"If an action might have happened but the postcondition cannot be verified, the task
   must not show success"* (`DESKTOP_AUTOMATION_THREAT_MODEL.md:17`): a listing passes over a
   window whose inspection raises, and counts one whose executable it cannot read to no
   application, so `close_window` may be COMPLETED while the window has stayed open (`Recheck`).
   `CompletionIsObserved` therefore says nothing of a close.

Some more sentences hold only up to what the properties say.  A run that is cut
short has taken its key and remembered nothing, so that *"Renderer resubmits with
the same idempotency key"* (`ARCHITECTURE.md:107`) gets an error and not the original
response; `SubmissionIsIdempotent` still excludes a second execution.  Leases are
looked up and inserted in two transactions, so two runs may hold one path;
`ToolsSerialised` shows what keeps the tools apart all the same.  Two approvals of
one approval share the name of the backup; `UndoRecordsAreGood` says when it
is the original.  *"Timeout handling terminates the spawned process tree"*
(`ARCHITECTURE.md:193`) is true of the processes psutil can name and is not kept from
killing: `TimeoutKillsTree` says which.  When PowerShell itself may not be killed, the task says
ENGINEERING_EXECUTABLE_UNAVAILABLE of a command that is still running.

What does hold is the larger part: a key is executed once; steps run in order;
COMPLETED means all steps; approval and task are decided together; an approved
overwrite has backup and record; records describe exactly what was done, except
in the situations `UndoRecordsAreExact` names; no text is lost unless
somebody races; only an approved script runs unless it is edited under the comparison;
a desktop task touches no other window while the one that was named is open; one process migrates at a time; nothing is served on an
unchecked schema; the user's database is backed up before it changes.

## 6. What is proved

TLAPS proves the following for all values of the constants, from the assumptions
the modules state (finitely many runs, names that differ, bounds in `Nat`).  What these
assumptions rule out is not a state of the program: two names for one thread, or a
missing file that has a text.

**`OrchestratorProofs`.**  The safety invariants are not inductive by
themselves.  `Inv` strengthens them with what each place of `run()` knows:
`StageInv` (what task, plan and session look like at each `pc`), `IndexInv` (which
steps have started and which cannot have), `StepInv` (the status of earlier,
current and later steps) and `CancelInv` (what a cancel thread between its read
and its commit may still write).  `Inv` holds initially and is preserved by each
action; one lemma per action, one step per conjunct it can disturb.  From it
follow `TypeOK`, `KeyExecutesOnce`, `StepsInOrder`, `CompletedMeansAllSteps`,
`SettledTaskHasSettledSteps`, `RememberedAnswerIsSettled`,
`EndedRunHoldsNoLease`, `ToolsSerialised`, and the action properties
`StepOutcomesAreFinal` and `CancelledStaysCancelled`.  `KeyExecutesOnce`,
`RememberedAnswerIsSettled` and `StepOutcomesAreFinal` are proved only; the run
checks the refinement that rests on the first two.  `Refinement` proves that
every step is a step of `IdempotentSubmission` or a stutter, under the mapping
that calls a key executed when its task row exists and remembered when its
record does.

**`ApprovalsProofs`.**  `Inv` has `TypeOK`, `StatusMatchesTask`,
`ApprovedOverwriteHasUndo`, and for each decision what it knows at its place:
`PlaceInv`, `BackupInv` (from the copy on, the backup exists, and holds the
checked text unless the file was raced on) and `FileInv` (what the file holds
between write and commit); `UndoInv` says the same of an undo.  Three lemmas
carry the interleavings: `FileUndisturbed` (a step that changes a file somebody
is working on puts it into `raced`), `RowsUndisturbed` and `RecordStays`.  The
theorems are type correctness, the four invariants, `OnlyApprovedTextIsReplaced`
and `DecidedApprovalsRest`.  `RejectionNeedsAnother` draws the line around finding 2 of section 5: when an
approval ends REJECTED or EXPIRED although its tool has run, a second request decided
it, which did nothing but store that; an approval decided by one request alone
is what it is recorded to be.

`Refinement` proves that every step is a step of `ApprovalGate` or a stutter.  It
needs two invariants that the safety properties do not: whoever may still run the
tool or store a refusal has not acted (`RejectInv`), and whoever is about to store a
consent has (`ActedInv`, which also keeps a cancellation from touching a task that
was never asked for).  `SettleTold`, `ToolTold`, `DecideTold` and `OtherTold` go
through the actions; `Untold` says which of them the gate does not see.
`DecidedApprovalsRest` is what the gate makes of an approval nobody is inside
of, and so is checked by the run as part of the refinement.

**`StartupProofs`.**  `OneMigrator` follows from `LockInv`: whoever is inside
`migrate_to_head` is the one who created the lock file, and a file without such
an owner belongs to a dead process.  `SchemaInv` says what the migrator knows of
the schema at each point; because nobody else changes it, `VersionIsTrue` is
preserved, and a schema at the head stays as it is: whoever comes later finds
`version = Head` and upgrades nothing.  That makes the check in
`assert_database_ready` good for the rest of the runtime's life (`ServedInv`).
`BackupInv` carries the backup from `backup_database` to every later statement.
`ManagerInv` relates program and runtime: one program is open at a time, one
that was stopped has no runtime, and a state file found while polling is the
program's own or that of a runtime whose program crashed.  The theorems are type
correctness, the safety properties of the run and `OriginalHasBackup`, for any number of
programs, maintenance runs, migrations of each kind, and failures.

`Refinement` then proves that every step of `Startup` is a step of `SchemaUpgrade` or a
stutter.  `OriginalHasBackup` is what the mapping makes of its first two variables, and
so is checked by the run as part of the refinement.  The mapping calls the schema
changed when it differs from the one the program found, so the proof has to show that it
never becomes that one again: `AheadInv` says that a schema once touched has a
higher version, a part of a migration, or a version table the first one had not, and
`ProcessChanges` that every change leads that way (`Climbs`).

**`CommandRunnerProofs`.**  `ApprovalInv` says what is known of the script from the
comparison on.  `KillInv` follows the killing: before the list is made, a process
that is alive and not `slipped` has no gone ancestor, so it is listed; while the list
is worked off, every such process is in it; afterwards there is none.  The step that
needs `FamilyInv` is the one where PowerShell has just ended by itself and nothing is
listed at all: everything lives below PowerShell, so everything has slipped.
`PipeInv` makes what the reader keeps a function of what it has read
(`KeepingFacts`), and says that a reader that has ended has read everything, since
no process is left that could write.  The theorems are the four safety properties,
for every tree, chunk, cap and number of edits.

**`DesktopWindowsProofs`.**  `FoundInv` says that from `Locate` on the handle in use is the
one that was named, and `ControlInv` that the control resolved fits the wish and was usable when it
was seen; neither speaks of the desktop, so nobody else can disturb them.  `ReadingFacts` and `SightFacts` give
what any listing, however little it could read, says of a window: its handle at least.
`WhoActs` says that every step that acts takes the window at the handle.  `TargetedWindow` is the core of
`ActsOnBoundTarget`: no two open windows share a handle, so a window that is open and of
which the named fingerprint is a reading is the one at the handle.  `KindInv` says which tasks come to which place, and
`WhoCompletes` which steps may report a set or a write as completed; with `TargetedWindow` this
gives `CompletionIsObserved`.  `ShownInv` and `SessionInv` carry statement 5 of
section 5: session ids a client has seen are of earlier listings, so
`ListedTargetsLeadNowhere`, no request that carries one ever acts on a window or completes.
The theorems are type correctness, `ActsOnBoundTarget`, `CompletionIsObserved` and this
one, for every set of windows, layouts and wishes, every value of `ElementInfo`, and every
choice of what listings fail to read.

**`FilesProofs`.**  `OrderInv` orders what a call has done (noted, succeeded, changed, and
nothing ahead of the item it is at).  `CurrentInv` says what the files of that item are,
or that `raced` has them, and `DoneInv` that an item nobody interfered with ended with the
text it should; from these two follows that `Verify` accepts exactly such items
(`VerifiedFacts`).  `RecordInv` is what makes records exact: unless somebody raced on
the files of the call or a batch moved a file on (`Excused`), all that was changed has
succeeded and is still there when the records are made.  `ManifestInv` speaks of the
items of an approved batch still to come, and `UndoInv` of what an undo has seen.  `CallFrame`,
`UndoFrame` and `OtherFrame` carry the interleavings: whoever changes a file another
is at work on does it *under protest*, that is, puts it into `raced`.

`UndoTakesOnlyItsOwn` is stronger than that: only another program or an approved call comes
between the look of an undo and its act.  `LockInv` says who holds the write lock at
each place (an undo from its flush to its commit, a call without approval from `Begin` on),
`CallLocks`, `UndoLocks` and `LockStep` preserve it, and `OnlyInterrupted` concludes that a
step which changes the file of an undo at work marks it as interrupted.  `SightInv`, that what
the undo has seen is still so unless it was, is then inductive.  The theorems are
type correctness, `UndoRecordsAreExact`, `UndoIsAllOrNothing`, `NoTextIsLost` and the three action
properties, for requests of any number of items and any number of calls, undos, edits and
crashes.  `ManifestTextsOnly` needs its last exception only for batches of three items and more:
`validate_batch_manifest` compares the files once, and where an earlier item of the same
batch puts a file at the source of a later one, the later one moves that text, not the
one of its manifest row.  The run has two items; the exception was found in the proof.

`NoTextIsLost` speaks of all files at once: which file stands for which of the first
texts depends on everything the calls and undos have done so far, so no conjunction of
facts about single places carries it.  Its invariant counts.  For a text `w`, `Holders`
are the files that hold it, `Originals` those that did at the beginning, and `Raised` the
items that made one more file hold it (a copy, an extraction, an append that completed
it) and were not undone since.  `LossInv` says that, as long as nobody interferes
(`Calm`), there is an injection from the originals and the raised items together (`Owed`) into
the holders.  Without the raised items this is not inductive: the undo of a copy takes a
file away, and only the count shows that it was not the last one.  A move takes a
holder and gives another, which `OwedMoved` shows with an injection bent at one point;
`OwedOneMore` and `OwedOneLess` do the same for a file that comes and one that goes.
`UndidInv` keeps an item from being taken off the count twice.
`EveryTextHasItsFile` states the invariant itself, which is more than the property: as many
files hold a text as there are originals and additions of it, so copies of one text are
never merged into one.

What is proved covers every invariant and every action property of the passing runs, and the three
refinements.  Only model-checked: the liveness properties (they need fairness and
`ENABLED`, which the provers here do not have), and the four counterexamples.  The faulty variants are
checked by TLC only.

## 7. What is not modelled

* `task_events`, audit rows, wording of messages and responses, the read-only
  endpoints, the session token.
* Retry and continue of a task: they append an event and change nothing else.
* Deciding an approval does not resume the assistant task that waits for it; in
  the model, as in the code, that task stays in WAITING_APPROVAL.
* The TAMPERED branch of `decide_approval`: nothing in the program changes the
  hashed arguments of a stored approval.
* CREATE_DIRECTORY and its undo; what a zip archive contains beyond its items.
* Reading, copying, replacing and moving a file are one step each.  Between
  volumes, `shutil.move` is a copy and an unlink.
* The rows that migrations rewrite, downgrades, the bytes of a backup (only the
  schema it holds), and `--backup-only`, which copies without the lock.
* `shutdownRuntime` over IPC stops the runtime and leaves the Electron program
  open; `Stop` and `StopEnds` model it as the end of that program.
* Host tools: launching, opening and terminating are single calls into Windows behind
  an approval, as `Act` of `Approvals` has them; the check of the confirmed process
  before it is terminated is not opened up.
* Of a command: its arguments and environment, masking of secrets and paths in its
  output, and a crash of the runtime while it runs.
* Of the desktop: the fake adapter; the undo of a window state, which always refuses; steps of a plan,
  which carry no window and are refused as unbound.
* The project scan, which keeps no state; capability policy, a constant table whose
  lookup has no order of steps that could go wrong.
* Planner providers, settings and credentials: `Plans` is any set of plans.
* The renderer (any request at any time) and the scripts.
