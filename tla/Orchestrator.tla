---------------------------- MODULE Orchestrator ----------------------------
(***************************************************************************)
(* AgentOrchestrator.run, the request handler of POST /assistant/tasks,    *)
(* with the services it calls: IdempotencyService, TaskIntakeService,      *)
(* TaskStateService, PlanValidator, ExecutionPolicy, ExecutionLockService  *)
(* and ToolExecutor; and CancellationService.cancel, which runs in other   *)
(* threads of the same server.                                             *)
(*                                                                         *)
(* Every request has a thread and a database session of its own.  A run is *)
(* cut at the points where another thread may act in between: where the    *)
(* session reads a row, and where it commits.  What the session has        *)
(* changed and not yet committed is kept in dirty and stepDirty.  SQLite   *)
(* lets one session write at a time: a tool inserts its own task first and *)
(* commits last, so it is the writer for as long as it runs.               *)
(***************************************************************************)
EXTENDS Naturals, Sequences, FiniteSets, TaskStates

CONSTANTS
  Runs,         \* calls of run(), one per submitted request
  Cancels,      \* threads that serve the cancel endpoint
  Keys,         \* idempotency keys
  Requests,     \* the requests clients may submit
  Paths,        \* path keys inside the workspace, normalised
  Plans,        \* the plans the planner may return
  MaxSteps,     \* most steps of a plan (10 in PlanValidator)
  LeasesExpire, \* whether five minutes may pass while a lease is held
  MaxCrashes,   \* bound: how often the server process may die
  NoKey,        \* the request carries no idempotency key
  NoOne         \* no run

Tool == {"filesystem.read_text", "filesystem.move", "filesystem.batch_move",
         "filesystem.overwrite_text", "host.system_info",
         "host.terminate_process", "host.clipboard_write_text"}
Step == [tool : Tool \cup {"unregistered"}, keys : SUBSET Paths]
Plan == [needsClarification : BOOLEAN, steps : Seq(Step)]

ASSUME RunsAssumption == IsFiniteSet(Runs) /\ NoOne \notin Runs
ASSUME KeysAssumption == NoKey \notin Keys
ASSUME RequestsAssumption ==
  \A q \in Requests : /\ q.key \in Keys \cup {NoKey}
                      /\ q.workspace \in BOOLEAN
ASSUME PlansAssumption == Plans \subseteq Plan
ASSUME BoundsAssumption ==
  MaxSteps \in Nat /\ MaxCrashes \in Nat /\ LeasesExpire \in BOOLEAN

(***************************************************************************)
(* One tool of each class that the sets of contracts.py tell apart.        *)
(***************************************************************************)
READ_ONLY_TOOLS == {"filesystem.read_text", "host.system_info"}
APPROVAL_REQUIRED_TOOLS == {"filesystem.overwrite_text", "host.terminate_process"}
WORKSPACE_TOOLS == {"filesystem.read_text", "filesystem.move",
                    "filesystem.batch_move", "filesystem.overwrite_text"}
VERIFIED_TOOLS == {"filesystem.move", "filesystem.batch_move",
                   "filesystem.overwrite_text"}

decision_for(step) ==
  IF step.tool \in APPROVAL_REQUIRED_TOOLS THEN "APPROVAL_REQUIRED"
  ELSE IF step.tool \in READ_ONLY_TOOLS \cup {"filesystem.move", "filesystem.batch_move"}
       THEN "AUTO" ELSE "BLOCK"

validate(p, workspace) ==
  /\ Len(p.steps) <= MaxSteps
  /\ IF p.needsClarification
     THEN p.steps = <<>>
     ELSE /\ p.steps # <<>>
          /\ \A i \in DOMAIN p.steps :
               /\ p.steps[i].tool \in Tool
               /\ p.steps[i].tool \in WORKSPACE_TOOLS => workspace

lock_keys(step) == IF step.tool \in VERIFIED_TOOLS THEN step.keys ELSE {}

(***************************************************************************)
(* The states StructuredTaskService.create_task may report for a step: an  *)
(* approval-bound tool is only put before the user, a batch may be too     *)
(* (more than ten items).                                                  *)
(***************************************************************************)
ToolOutcomes(step) ==
  {"BLOCKED", "FAILED"}
    \cup (IF step.tool \in APPROVAL_REQUIRED_TOOLS THEN {} ELSE {"COMPLETED"})
    \cup (IF step.tool \in APPROVAL_REQUIRED_TOOLS \cup {"filesystem.batch_move"}
          THEN {"WAITING_APPROVAL"} ELSE {})

(* Faulty: a call without a result counts as COMPLETED.                    *)
StepResults_default(step, outcome) ==
  IF outcome = "none" THEN {"COMPLETED"} ELSE {outcome}

(***************************************************************************)
(* The PlanStep status recorded for what the tool reported; "none" is a    *)
(* call that raised before it had a task.  A writing tool that reports     *)
(* COMPLETED is believed only with a verified postcondition.               *)
(***************************************************************************)
StepResults(step, outcome) ==
  CASE outcome = "none" -> {"FAILED"}
    [] outcome = "COMPLETED" /\ step.tool \in VERIFIED_TOOLS -> {"COMPLETED", "FAILED"}
    [] OTHER -> {outcome}

NoRecord == [body |-> "none", state |-> "none"]
NoPlan == [needsClarification |-> FALSE, steps |-> <<>>]

VARIABLES
  \* the database
  request,       \* [Runs -> Requests]: what each client sent
  task,          \* Task.state of the assistant task of each run
  plan,          \* the saved Plan of each run
  planStep,      \* PlanStep.status of each step
  toolTask,      \* state reported by the tool's own task, per step
  lease,         \* path keys with a HELD, unexpired ExecutionLease
  clarification, \* Clarification.status
  record,        \* IdempotencyRecord per key
  writer,        \* the run whose tool holds SQLite's write lock
  \* the session of each run
  pc, index, dirty, stepDirty, answer,
  \* the cancel threads and the process
  cancelPc, cancelOf, crashes

db == <<task, plan, planStep, toolTask, lease, clarification, record>>
session == <<pc, index, dirty, stepDirty, answer>>
cancels == <<cancelPc, cancelOf>>
vars == <<request, db, writer, session, cancels, crashes>>

key(r) == request[r].key
steps(r) == plan[r].steps
current(r) == steps(r)[index[r]]
held_keys(r) == IF request[r].workspace THEN lock_keys(current(r)) ELSE {}

Terminal == {"done", "replayed", "refused", "duplicate", "illegal", "locked", "crashed"}
Active(r) == pc[r] \notin Terminal \cup {"idle"}

Init ==
  /\ request \in [Runs -> Requests]
  /\ task = [r \in Runs |-> "absent"]
  /\ plan = [r \in Runs |-> NoPlan]
  /\ planStep = [r \in Runs |-> [i \in 1..MaxSteps |-> "none"]]
  /\ toolTask = [r \in Runs |-> [i \in 1..MaxSteps |-> "none"]]
  /\ lease = [r \in Runs |-> {}]
  /\ clarification = [r \in Runs |-> "none"]
  /\ record = [k \in Keys |-> NoRecord]
  /\ writer = NoOne
  /\ pc = [r \in Runs |-> "idle"]
  /\ index = [r \in Runs |-> 0]
  /\ dirty = [r \in Runs |-> "clean"]
  /\ stepDirty = [r \in Runs |-> "clean"]
  /\ answer = [r \in Runs |-> "none"]
  /\ cancelPc = [c \in Cancels |-> "idle"]
  /\ cancelOf = [c \in Cancels |-> NoOne]
  /\ crashes = 0

goto(r, from, to) == pc[r] = from /\ pc' = [pc EXCEPT ![r] = to]

(* Faulty: the move is checked and not made.                               *)
transition_unassigned(r, from, state, to) ==
  /\ \/ goto(r, from, to) /\ Allowed(task[r], state)
     \/ goto(r, from, "illegal") /\ ~Allowed(task[r], state)
  /\ UNCHANGED dirty

(***************************************************************************)
(* TaskStateService.transition on the row as the session has just read it: *)
(* the new state stays in the session until the next commit, and an        *)
(* illegal move leaves run() with InvalidTransitionError.                  *)
(***************************************************************************)
transition(r, from, state, to) ==
  \/ /\ goto(r, from, to)
     /\ Allowed(task[r], state)
     /\ dirty' = [dirty EXCEPT ![r] = state]
  \/ /\ goto(r, from, "illegal")
     /\ ~Allowed(task[r], state)
     /\ UNCHANGED dirty

-----------------------------------------------------------------------------
(* Submission: the idempotency lookup that opens run().                    *)

Remembered(r) == key(r) # NoKey /\ record[key(r)] # NoRecord

(* Faulty: the answer is made up again from the task as it is now.         *)
Replay_recomputed(r) ==
  /\ Remembered(r)
  /\ record[key(r)].body = request[r].body
  /\ goto(r, "idle", "replayed")
  /\ \E s \in Runs : /\ key(s) = key(r) /\ task[s] # "absent"
                     /\ answer' = [answer EXCEPT ![r] = task[s]]
  /\ UNCHANGED <<request, db, writer, index, dirty, stepDirty, cancels, crashes>>

Replay(r) ==
  /\ Remembered(r)
  /\ record[key(r)].body = request[r].body
  /\ goto(r, "idle", "replayed")
  /\ answer' = [answer EXCEPT ![r] = record[key(r)].state]
  /\ UNCHANGED <<request, db, writer, index, dirty, stepDirty, cancels, crashes>>

RefuseReusedKey(r) ==
  /\ Remembered(r)
  /\ record[key(r)].body # request[r].body
  /\ goto(r, "idle", "refused")
  /\ UNCHANGED <<request, db, writer, index, dirty, stepDirty, answer, cancels, crashes>>

Accept(r) ==
  /\ ~Remembered(r)
  /\ goto(r, "idle", "intake")
  /\ UNCHANGED <<request, db, writer, index, dirty, stepDirty, answer, cancels, crashes>>

Submit(r) == Replay(r) \/ RefuseReusedKey(r) \/ Accept(r)

-----------------------------------------------------------------------------
(* From the new task to the first step.  A commit needs the write lock.    *)

CanWrite == writer = NoOne

KeyTaken(r) == key(r) # NoKey /\ \E s \in Runs : task[s] # "absent" /\ key(s) = key(r)

(* TaskIntakeService.create.  Task.idempotency_key is UNIQUE: the insert of *)
(* a second task for the key raises IntegrityError.                         *)
Intake(r) ==
  /\ CanWrite
  /\ \/ /\ KeyTaken(r)
        /\ goto(r, "intake", "duplicate")
        /\ UNCHANGED task
     \/ /\ ~KeyTaken(r)
        /\ goto(r, "intake", "created")
        /\ task' = [task EXCEPT ![r] = "CREATED"]
  /\ UNCHANGED <<request, plan, planStep, toolTask, lease, clarification, record,
                 writer, index, dirty, stepDirty, answer, cancels, crashes>>

StartPlanning(r) ==
  /\ transition(r, "created", "PLANNING", "startPlanning")
  /\ UNCHANGED <<request, db, writer, index, stepDirty, answer, cancels, crashes>>

(* The commits that publish PLANNING and, after QUEUED, RUNNING.            *)
CommitState(r, from, to) ==
  /\ CanWrite
  /\ goto(r, from, to)
  /\ task' = [task EXCEPT ![r] = dirty[r]]
  /\ dirty' = [dirty EXCEPT ![r] = "clean"]
  /\ UNCHANGED <<request, plan, planStep, toolTask, lease, clarification, record,
                 writer, index, stepDirty, answer, cancels, crashes>>

CommitPlanning(r) == CommitState(r, "startPlanning", "plan")
CommitRunning(r) == CommitState(r, "startRunning", "loop")

(* The planner or the validator raised.                                     *)
PlanRejected(r) ==
  /\ transition(r, "plan", "FAILED", "close")
  /\ UNCHANGED <<request, db, writer, index, stepDirty, answer, cancels, crashes>>

SavePlan(r) ==
  /\ CanWrite
  /\ \E p \in Plans : /\ validate(p, request[r].workspace)
                      /\ plan' = [plan EXCEPT ![r] = p]
  /\ goto(r, "plan", "saved")
  /\ UNCHANGED <<request, task, planStep, toolTask, lease, clarification, record,
                 writer, index, dirty, stepDirty, answer, cancels, crashes>>

AskClarification(r) ==
  /\ plan[r].needsClarification
  /\ transition(r, "saved", "WAITING_CLARIFICATION", "close")
  /\ UNCHANGED <<request, db, writer, index, stepDirty, answer, cancels, crashes>>

(* QUEUED and RUNNING are set one after the other in the same session, so   *)
(* only the first of the two moves can be refused and only RUNNING is ever  *)
(* committed.                                                               *)
Queue(r) ==
  /\ ~plan[r].needsClarification
  /\ \/ /\ goto(r, "saved", "startRunning")
        /\ Allowed(task[r], "QUEUED")
        /\ dirty' = [dirty EXCEPT ![r] = "RUNNING"]
     \/ /\ goto(r, "saved", "illegal")
        /\ ~Allowed(task[r], "QUEUED")
        /\ UNCHANGED dirty
  /\ UNCHANGED <<request, db, writer, index, stepDirty, answer, cancels, crashes>>

-----------------------------------------------------------------------------
(* The loop over the steps.  index counts the plan steps already started.  *)

(* The policy refuses the next step: task.state is assigned with no check   *)
(* of the state the row has by now.                                         *)
BlockStep(r) ==
  /\ goto(r, "loop", "close")
  /\ decision_for(steps(r)[index[r] + 1]) = "BLOCK"
  /\ dirty' = [dirty EXCEPT ![r] = "FAILED"]
  /\ UNCHANGED <<request, db, writer, index, stepDirty, answer, cancels, crashes>>

(* One commit writes the pending status of the previous step and the row of *)
(* the new one.  The task row is not consulted.                             *)
StartStep(r) ==
  /\ CanWrite
  /\ goto(r, "loop", "lock")
  /\ decision_for(steps(r)[index[r] + 1]) # "BLOCK"
  /\ index' = [index EXCEPT ![r] = @ + 1]
  /\ planStep' = [planStep EXCEPT ![r] =
       [i \in 1..MaxSteps |-> IF i = index[r] + 1 THEN "RUNNING"
                              ELSE IF i = index[r] THEN stepDirty[r] ELSE @[i]]]
  /\ stepDirty' = [stepDirty EXCEPT ![r] = "clean"]
  /\ UNCHANGED <<request, task, plan, toolTask, lease, clarification, record,
                 writer, dirty, answer, cancels, crashes>>

PathsBusy(r) == \E s \in Runs \ {r} : lease[s] \cap held_keys(r) # {}

(* ExecutionLockService.hold, first half: the lookup of other holders.      *)
CheckLeases(r) ==
  /\ pc[r] = "lock"
  /\ ~PathsBusy(r)
  /\ goto(r, "lock", IF held_keys(r) = {} THEN "begin" ELSE "grant")
  /\ UNCHANGED <<request, db, writer, index, dirty, stepDirty, answer, cancels, crashes>>

(* Faulty: the PlanStep keeps RUNNING when its path is busy.               *)
LeaseConflict_leavesStep(r) ==
  /\ pc[r] = "lock"
  /\ PathsBusy(r)
  /\ transition(r, "lock", "FAILED", "close")
  /\ UNCHANGED <<request, db, writer, index, stepDirty, answer, cancels, crashes>>

(* Faulty: wait for the path instead of failing.                           *)
LeaseConflict_waits(r) ==
  pc[r] = "lock" /\ PathsBusy(r) /\ UNCHANGED vars

(* WORKSPACE_PATH_BUSY: the step and the task fail, nothing is executed.    *)
LeaseConflict(r) ==
  /\ pc[r] = "lock"
  /\ PathsBusy(r)
  /\ stepDirty' = [stepDirty EXCEPT ![r] = "FAILED"]
  /\ transition(r, "lock", "FAILED", "close")
  /\ UNCHANGED <<request, db, writer, index, answer, cancels, crashes>>

(* hold, second half: the rows are inserted in a later transaction than the *)
(* lookup and no constraint of the table keeps two holders apart.           *)
GrantLeases(r) ==
  /\ CanWrite
  /\ goto(r, "grant", "begin")
  /\ lease' = [lease EXCEPT ![r] = held_keys(r)]
  /\ UNCHANGED <<request, task, plan, planStep, toolTask, clarification, record,
                 writer, index, dirty, stepDirty, answer, cancels, crashes>>

(* Faulty: the tool's task is not flushed before the tool runs.            *)
BeginTool_unflushed(r) ==
  /\ goto(r, "begin", "running")
  /\ UNCHANGED <<request, db, writer, index, dirty, stepDirty, answer, cancels, crashes>>

(* create_task flushes the row of the tool's task and keeps the write lock. *)
BeginTool(r) ==
  /\ CanWrite
  /\ goto(r, "begin", "running")
  /\ writer' = r
  /\ UNCHANGED <<request, db, index, dirty, stepDirty, answer, cancels, crashes>>

(* The arguments of the step do not make a StructuredTaskRequest.           *)
RefuseArguments(r) ==
  /\ goto(r, "begin", "release")
  /\ UNCHANGED <<request, db, writer, index, dirty, stepDirty, answer, cancels, crashes>>

EndTool(r) ==
  /\ goto(r, "running", "release")
  /\ \E outcome \in ToolOutcomes(current(r)) :
       toolTask' = [toolTask EXCEPT ![r][index[r]] = outcome]
  /\ writer' = NoOne
  /\ UNCHANGED <<request, task, plan, planStep, lease, clarification, record,
                 index, dirty, stepDirty, answer, cancels, crashes>>

(* Faulty: the leases are left to expire.                                  *)
Release_forgotten(r) ==
  /\ goto(r, "release", "attach")
  /\ UNCHANGED <<request, db, writer, index, dirty, stepDirty, answer, cancels, crashes>>

(* The finally clause of hold.                                              *)
Release(r) ==
  /\ goto(r, "release", "attach")
  /\ CanWrite \/ held_keys(r) = {}
  /\ lease' = [lease EXCEPT ![r] = {}]
  /\ UNCHANGED <<request, task, plan, planStep, toolTask, clarification, record,
                 writer, index, dirty, stepDirty, answer, cancels, crashes>>

(* Faulty: the loop goes on after a step that failed.                      *)
Attach_goesOn(r) ==
  /\ pc[r] = "attach"
  /\ \E status \in StepResults(current(r), toolTask[r][index[r]]) :
       stepDirty' = [stepDirty EXCEPT ![r] = status]
  /\ IF index[r] < Len(steps(r))
     THEN goto(r, "attach", "loop") /\ UNCHANGED dirty
     ELSE transition(r, "attach", "COMPLETED", "close")
  /\ UNCHANGED <<request, db, writer, index, answer, cancels, crashes>>

(* The task row is read again by _attach_tool_observation; the status of    *)
(* the step and the next task state are then settled in the session.        *)
Attach(r) ==
  /\ pc[r] = "attach"
  /\ \E status \in StepResults(current(r), toolTask[r][index[r]]) :
       /\ stepDirty' = [stepDirty EXCEPT ![r] = status]
       /\ \/ /\ status = "COMPLETED" /\ index[r] < Len(steps(r))
             /\ goto(r, "attach", "loop")
             /\ UNCHANGED dirty
          \/ /\ status = "COMPLETED" /\ index[r] = Len(steps(r))
             /\ transition(r, "attach", "COMPLETED", "close")
          \/ /\ status = "WAITING_APPROVAL"
             /\ transition(r, "attach", "WAITING_APPROVAL", "close")
          \/ /\ status \notin {"COMPLETED", "WAITING_APPROVAL"}
             /\ transition(r, "attach", "FAILED", "close")
  /\ UNCHANGED <<request, db, writer, index, answer, cancels, crashes>>

-----------------------------------------------------------------------------
(* The end of run(): the commit of what is pending, then the response.     *)

Close(r) ==
  /\ CanWrite
  /\ goto(r, "close", "respond")
  /\ task' = [task EXCEPT ![r] = dirty[r]]
  /\ planStep' = IF stepDirty[r] = "clean" THEN planStep
                 ELSE [planStep EXCEPT ![r][index[r]] = stepDirty[r]]
  /\ clarification' = IF dirty[r] = "WAITING_CLARIFICATION"
                      THEN [clarification EXCEPT ![r] = "WAITING"]
                      ELSE clarification
  /\ dirty' = [dirty EXCEPT ![r] = "clean"]
  /\ stepDirty' = [stepDirty EXCEPT ![r] = "clean"]
  /\ UNCHANGED <<request, plan, toolTask, lease, record, writer, index, answer,
                 cancels, crashes>>

Respond(r) ==
  /\ goto(r, "respond", IF key(r) = NoKey THEN "done" ELSE "remember")
  /\ answer' = [answer EXCEPT ![r] = task[r]]
  /\ UNCHANGED <<request, db, writer, index, dirty, stepDirty, cancels, crashes>>

Remember(r) ==
  /\ CanWrite
  /\ goto(r, "remember", "done")
  /\ record' = IF Remembered(r) THEN record
               ELSE [record EXCEPT ![key(r)] =
                       [body |-> request[r].body, state |-> answer[r]]]
  /\ UNCHANGED <<request, task, plan, planStep, toolTask, lease, clarification,
                 writer, index, dirty, stepDirty, answer, cancels, crashes>>

(* The write lock does not come free within SQLite's five seconds: the      *)
(* session is unusable from here on, and run() ends with an error.          *)
Busy(r) ==
  /\ writer \notin {NoOne, r}
  /\ \/ pc[r] \in {"intake", "startPlanning", "plan", "startRunning", "grant",
                   "begin", "close", "remember"}
     \/ pc[r] = "loop" /\ decision_for(steps(r)[index[r] + 1]) # "BLOCK"
     \/ pc[r] = "release" /\ held_keys(r) # {}
  /\ pc' = [pc EXCEPT ![r] = "locked"]
  /\ dirty' = [dirty EXCEPT ![r] = "clean"]
  /\ stepDirty' = [stepDirty EXCEPT ![r] = "clean"]
  /\ UNCHANGED <<request, db, writer, index, answer, cancels, crashes>>

RunStep(r) ==
  \/ Intake(r) \/ StartPlanning(r) \/ CommitPlanning(r) \/ PlanRejected(r)
  \/ SavePlan(r) \/ AskClarification(r) \/ Queue(r) \/ CommitRunning(r)
  \/ BlockStep(r) \/ StartStep(r) \/ CheckLeases(r) \/ LeaseConflict(r)
  \/ GrantLeases(r) \/ BeginTool(r) \/ RefuseArguments(r) \/ EndTool(r)
  \/ Release(r) \/ Attach(r) \/ Close(r) \/ Respond(r) \/ Remember(r) \/ Busy(r)

-----------------------------------------------------------------------------
(* The rest of the server: cancellation, clarification, time and crashes.  *)

(* CancellationService.cancel reads the task; a settled task is left alone. *)
CancelRead(c, r) ==
  /\ cancelPc[c] = "idle"
  /\ task[r] \notin {"absent", "COMPLETED", "FAILED", "CANCELLED"}
  /\ cancelPc' = [cancelPc EXCEPT ![c] = "commit"]
  /\ cancelOf' = [cancelOf EXCEPT ![c] = r]
  /\ UNCHANGED <<request, db, writer, session, crashes>>

(* CANCELLING and CANCELLED are written by the same transaction.            *)
CancelCommit(c) ==
  /\ CanWrite
  /\ cancelPc[c] = "commit"
  /\ task' = [task EXCEPT ![cancelOf[c]] = "CANCELLED"]
  /\ cancelPc' = [cancelPc EXCEPT ![c] = "idle"]
  /\ cancelOf' = [cancelOf EXCEPT ![c] = NoOne]
  /\ UNCHANGED <<request, plan, planStep, toolTask, lease, clarification, record,
                 writer, session, crashes>>

CancelBusy(c) ==
  /\ ~CanWrite
  /\ cancelPc[c] = "commit"
  /\ cancelPc' = [cancelPc EXCEPT ![c] = "idle"]
  /\ cancelOf' = [cancelOf EXCEPT ![c] = NoOne]
  /\ UNCHANGED <<request, db, writer, session, crashes>>

(* Faulty: an answer resumes the task whatever became of it.               *)
AnswerClarification_resumes(r) ==
  /\ CanWrite
  /\ clarification[r] = "WAITING"
  /\ clarification' = [clarification EXCEPT ![r] = "ANSWERED"]
  /\ task' = [task EXCEPT ![r] = "PLANNING"]
  /\ UNCHANGED <<request, plan, planStep, toolTask, lease, record, writer,
                 session, cancels, crashes>>

(* answer_clarification: the answer is stored, the task is not resumed.     *)
AnswerClarification(r) ==
  /\ CanWrite
  /\ clarification[r] = "WAITING"
  /\ clarification' = [clarification EXCEPT ![r] = "ANSWERED"]
  /\ UNCHANGED <<request, task, plan, planStep, toolTask, lease, record, writer,
                 session, cancels, crashes>>

(* Five minutes pass: the lease no longer counts although its row is HELD.  *)
ExpireLease(r) ==
  /\ LeasesExpire
  /\ lease[r] # {}
  /\ lease' = [lease EXCEPT ![r] = {}]
  /\ UNCHANGED <<request, task, plan, planStep, toolTask, clarification, record,
                 writer, session, cancels, crashes>>

(* The process dies and is started again: every thread is gone, the         *)
(* committed rows stay, and nothing resumes an interrupted task.            *)
Crash ==
  /\ crashes < MaxCrashes
  /\ \E r \in Runs : Active(r)
  /\ crashes' = crashes + 1
  /\ pc' = [r \in Runs |-> IF Active(r) THEN "crashed" ELSE pc[r]]
  /\ writer' = NoOne
  /\ cancelPc' = [c \in Cancels |-> "idle"]
  /\ cancelOf' = [c \in Cancels |-> NoOne]
  /\ dirty' = [r \in Runs |-> "clean"]
  /\ stepDirty' = [r \in Runs |-> "clean"]
  /\ UNCHANGED <<request, db, index, answer>>

Environment ==
  \/ \E c \in Cancels : \/ \E r \in Runs : CancelRead(c, r)
                        \/ CancelCommit(c) \/ CancelBusy(c)
  \/ \E r \in Runs : AnswerClarification(r) \/ ExpireLease(r)
  \/ Crash

Next == (\E r \in Runs : Submit(r) \/ RunStep(r)) \/ Environment

(* A thread that serves a request keeps running: every statement of run()   *)
(* returns, a tool call included, and a wait for the write lock ends after  *)
(* five seconds.  Nothing is assumed of clients, cancellations or time.     *)
Fairness == \A r \in Runs : WF_vars(RunStep(r))

Spec == Init /\ [][Next]_vars
FairSpec == Spec /\ Fairness

-----------------------------------------------------------------------------
(* Type invariant.                                                         *)

ToolStatus == {"COMPLETED", "WAITING_APPROVAL", "BLOCKED", "FAILED"}
Bodies == {q.body : q \in Requests}
Answer == TaskState \cup {"absent", "none"}
Location == {"idle", "intake", "created", "startPlanning", "plan", "saved",
             "startRunning", "loop", "lock", "grant", "begin", "running",
             "release", "attach", "close", "respond", "remember"} \cup Terminal

TypeOK ==
  /\ request \in [Runs -> Requests]
  /\ task \in [Runs -> TaskState \cup {"absent"}]
  /\ plan \in [Runs -> Plans \cup {NoPlan}]
  /\ planStep \in [Runs -> [1..MaxSteps -> ToolStatus \cup {"none", "RUNNING"}]]
  /\ toolTask \in [Runs -> [1..MaxSteps -> ToolStatus \cup {"none"}]]
  /\ lease \in [Runs -> SUBSET Paths]
  /\ clarification \in [Runs -> {"none", "WAITING", "ANSWERED"}]
  /\ record \in [Keys -> [body : Bodies \cup {"none"}, state : Answer]]
  /\ writer \in Runs \cup {NoOne}
  /\ pc \in [Runs -> Location]
  /\ index \in [Runs -> 0..MaxSteps]
  /\ dirty \in [Runs -> TaskState \cup {"clean"}]
  /\ stepDirty \in [Runs -> ToolStatus \cup {"clean"}]
  /\ answer \in [Runs -> Answer]
  /\ cancelPc \in [Cancels -> {"idle", "commit"}]
  /\ cancelOf \in [Cancels -> Runs \cup {NoOne}]
  /\ crashes \in 0..MaxCrashes

-----------------------------------------------------------------------------
(* Safety.                                                                 *)

(* However submissions with the same idempotency key interleave, at most   *)
(* one of them gets a task, so a key's plan is executed once.              *)
KeyExecutesOnce ==
  \A r, s \in Runs :
    task[r] # "absent" /\ task[s] # "absent" /\ key(r) = key(s) /\ key(r) # NoKey
      => r = s

(* A plan step has started only if every earlier one is COMPLETED in the   *)
(* database, and so is the tool's own task: run() never goes on past a     *)
(* step that failed, waits for the user or lost its verification.          *)
StepsInOrder ==
  \A r \in Runs : \A i, j \in 1..MaxSteps :
    i < j /\ planStep[r][j] # "none"
      => planStep[r][i] = "COMPLETED" /\ toolTask[r][i] = "COMPLETED"

(* A task the database calls COMPLETED has a plan all of whose steps are   *)
(* COMPLETED, whatever cancellations and crashes ran beside it.            *)
CompletedMeansAllSteps ==
  \A r \in Runs : task[r] = "COMPLETED" =>
    /\ steps(r) # <<>>
    /\ \A i \in DOMAIN steps(r) :
         planStep[r][i] = "COMPLETED" /\ toolTask[r][i] = "COMPLETED"

(* A task that run() has settled shows no step that is still RUNNING, and  *)
(* one that waits for approval has the waiting step to show for it.        *)
SettledTaskHasSettledSteps ==
  \A r \in Runs :
    /\ task[r] \in {"COMPLETED", "FAILED", "WAITING_APPROVAL", "WAITING_CLARIFICATION"}
         => \A i \in 1..MaxSteps : planStep[r][i] # "RUNNING"
    /\ task[r] = "WAITING_APPROVAL"
         => \E i \in DOMAIN steps(r) : planStep[r][i] = "WAITING_APPROVAL"

(* A response is remembered for a key only once the task it describes has  *)
(* been left in a resting state, so a replay never shows a half-done run.  *)
Settled == {"COMPLETED", "FAILED", "CANCELLED", "WAITING_APPROVAL",
            "WAITING_CLARIFICATION"}

RememberedAnswerIsSettled ==
  \A k \in Keys : record[k] # NoRecord =>
    /\ record[k].state \in Settled
    /\ \E r \in Runs : key(r) = k /\ task[r] # "absent" /\ pc[r] = "done"

(* A run that ends in the ordinary way has given back every path lease; a  *)
(* lease outlives its run only when the run was cut short by a crash or by *)
(* a write lock it could not get.                                          *)
EndedRunHoldsNoLease ==
  \A r \in Runs : lease[r] # {} => pc[r] \in {"begin", "running", "release", "locked", "crashed"}

(* Tools of different runs never execute at the same time: the write lock  *)
(* taken by create_task's first flush serialises them, which is what keeps *)
(* a path safe even when two runs were granted leases on it.               *)
ToolsSerialised ==
  \A r, s \in Runs : pc[r] = "running" /\ pc[s] = "running" => r = s

-----------------------------------------------------------------------------
(* Action properties.                                                      *)

(* A step status other than RUNNING, and the outcome of a tool, are final. *)
StepOutcomesAreFinal ==
  [][\A r \in Runs : \A i \in 1..MaxSteps :
       /\ planStep[r][i] \in ToolStatus => planStep'[r][i] = planStep[r][i]
       /\ toolTask[r][i] # "none" => toolTask'[r][i] = toolTask[r][i]]_vars

(* Once its run is over, nothing brings a cancelled task back.             *)
CancelledStaysCancelled ==
  [][\A r \in Runs : task[r] = "CANCELLED" /\ ~Active(r) => task'[r] = "CANCELLED"]_vars

-----------------------------------------------------------------------------
(* Refinement.                                                             *)

Idempotent == INSTANCE IdempotentSubmission WITH
  Submissions <- Runs,
  Answers <- Settled,
  NoAnswer <- "none",
  keyOf <- [r \in Runs |-> key(r)],
  executed <- {r \in Runs : task[r] # "absent"},
  remembered <- [k \in Keys |-> record[k].state],
  reply <- [r \in Runs |-> IF pc[r] \in {"done", "replayed"} THEN answer[r] ELSE "none"]

(* run() keeps the promise of IdempotentSubmission: a key is executed at   *)
(* most once, and a replay hands out the one answer of that execution.     *)
SubmissionIsIdempotent == Idempotent!Spec

-----------------------------------------------------------------------------
(* Liveness.                                                               *)

(* Every submitted request ends: with a response, a refusal or an error.   *)
(* In particular a busy path or a held write lock never blocks for ever.   *)
EveryRequestSettles == \A r \in Runs : Active(r) ~> pc[r] \in Terminal

-----------------------------------------------------------------------------
(* What the documents say and the code does not do.                        *)

(* docs/TASK_LIFECYCLE.md: "CANCELLED: No further unstarted steps will     *)
(* run."                                                                   *)
CancelledStartsNoStep ==
  [][\A r \in Runs : task[r] = "CANCELLED" => index'[r] = index[r]]_vars
====
