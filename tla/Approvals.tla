----------------------------- MODULE Approvals -----------------------------
(***************************************************************************)
(* High-risk tasks of StructuredTaskService: the approval that create_task *)
(* puts before the user, decide_approval, the backup and the replacement   *)
(* of the file by overwrite_text_with_backup, the undo of an overwrite,    *)
(* and the cancellation of the waiting task.                               *)
(*                                                                         *)
(* decide_approval changes no row before its last commit, so it runs the   *)
(* tool without SQLite's write lock, beside other decisions, beside undo   *)
(* (which does hold the lock) and beside the user's other programs.  A     *)
(* file is read, copied or replaced in one step; everything may happen     *)
(* between two of these steps.  Content stands for its SHA-256.            *)
(***************************************************************************)
EXTENDS Naturals, FiniteSets

CONSTANTS
  Approvals,  \* high-risk tasks, each with its approval
  Deciders,   \* threads that serve POST /approvals/.../decision, one call each
  Undoers,    \* threads that serve POST /undo/..., one call each
  Cancels,    \* threads that serve the cancel endpoint
  Paths,      \* files of the workspace
  Contents,   \* texts a file may hold
  Arguments,  \* [Approvals -> what the approval is asked for]
  NoPath,     \* the tool changes no file (a host or desktop tool)
  Missing,    \* no file
  NoOne,      \* nobody
  OtherTool,  \* a create_task in some other thread
  MaxEdits,   \* bound: how often another program changes a file
  MaxCrashes  \* bound: how often the server process may die

ASSUME ArgumentsAssumption ==
  Arguments \in [Approvals -> [path : Paths \cup {NoPath}, content : Contents]]
ASSUME NamesAssumption ==
  /\ NoPath \notin Paths
  /\ Missing \notin Contents
  /\ Deciders \cap Undoers = {}
  /\ NoOne \notin Undoers \cup Deciders \cup Approvals \cup {OtherTool}
  /\ OtherTool \notin Undoers
ASSUME BoundsAssumption == MaxEdits \in Nat /\ MaxCrashes \in Nat

path(a) == Arguments[a].path
content(a) == Arguments[a].content
Overwrites == {a \in Approvals : path(a) # NoPath}

VARIABLES
  file,      \* [Paths -> Contents \cup {Missing}]
  backup,    \* the file backups/<task>/<name>.<sha256>.bak of each approval
  task,      \* Task.state of the tool's task
  status,    \* Approval.status
  expected,  \* normalized_arguments["expected_sha256"]
  expired,   \* the approvals whose expires_at has passed
  undo,      \* UndoRecord.status of the record each decision made
  post,      \* UndoRecord.postcondition["sha256"]
  writer,    \* who holds SQLite's write lock
  pc,        \* where each thread is
  of,        \* the approval each decision is about
  undoOf,    \* the decision whose record each undo is about
  seen,      \* UndoRecord.status as the undo has read it
  cancelPc, cancelOf,
  acted,     \* history: the decisions whose tool had its effect
  raced,     \* history: the files changed by one while another was between
             \* its check of the file and its last look at it
  edits, crashes

rows == <<task, status, expected, undo, post>>
disk == <<file, backup>>
threads == <<pc, of, undoOf, seen>>
cancels == <<cancelPc, cancelOf>>
history == <<acted, raced>>
bounds == <<edits, crashes>>
vars == <<rows, disk, expired, writer, threads, cancels, history, bounds>>

CommitPoint == {"reject", "expire", "finish", "invalidate"}
Finished == {"refused", "done", "locked", "crashed", "applied", "conflict", "restoreFailed"}
Active(x) == pc[x] \notin Finished \cup {"idle"}
Quiet(a) == \A d \in Deciders : of[d] = a => ~Active(d)

Init ==
  /\ file \in [Paths -> Contents \cup {Missing}]
  /\ backup = [a \in Approvals |-> Missing]
  /\ task = [a \in Approvals |-> "absent"]
  /\ status = [a \in Approvals |-> "none"]
  /\ expected = [a \in Approvals |-> Missing]
  /\ expired = {}
  /\ undo = [d \in Deciders |-> "none"]
  /\ post = [d \in Deciders |-> Missing]
  /\ writer = NoOne
  /\ pc = [x \in Deciders \cup Undoers |-> "idle"]
  /\ of = [d \in Deciders |-> NoOne]
  /\ undoOf = [u \in Undoers |-> NoOne]
  /\ seen = [u \in Undoers |-> "none"]
  /\ cancelPc = [c \in Cancels |-> "idle"]
  /\ cancelOf = [c \in Cancels |-> NoOne]
  /\ acted = {}
  /\ raced = {}
  /\ edits = 0
  /\ crashes = 0

CanWrite == writer = NoOne
goto(x, from, to) == pc[x] = from /\ pc' = [pc EXCEPT ![x] = to]

-----------------------------------------------------------------------------
(* Who changes a file under whose hands.                                   *)

Between(x, p) ==
  \/ /\ x \in Deciders
     /\ pc[x] \in {"backup", "write", "verify"}
     /\ path(of[x]) = p
  \/ /\ x \in Undoers
     /\ pc[x] \in {"undoCopy", "undoVerify"}
     /\ path(of[undoOf[x]]) = p

RaceOn(x, p) ==
  raced' = IF \E y \in (Deciders \cup Undoers) \ {x} : Between(y, p)
           THEN raced \cup {p} ELSE raced

-----------------------------------------------------------------------------
(* create_task for a high-risk task.                                       *)

(* require_overwrite_approval: the content the user is asked about is the   *)
(* one the file has now.  A missing file blocks the task.                   *)
RequestApproval(a) ==
  /\ CanWrite
  /\ task[a] = "absent"
  /\ \/ /\ a \in Overwrites => file[path(a)] # Missing
        /\ task' = [task EXCEPT ![a] = "WAITING_APPROVAL"]
        /\ status' = [status EXCEPT ![a] = "PENDING"]
        /\ expected' = IF a \in Overwrites
                       THEN [expected EXCEPT ![a] = file[path(a)]] ELSE expected
     \/ /\ a \in Overwrites
        /\ file[path(a)] = Missing
        /\ task' = [task EXCEPT ![a] = "BLOCKED"]
        /\ UNCHANGED <<status, expected>>
  /\ UNCHANGED <<undo, post, disk, expired, writer, threads, cancels, history, bounds>>

-----------------------------------------------------------------------------
(* decide_approval.                                                        *)

Open(a) == status[a] = "PENDING" /\ task[a] \notin {"CANCELLED", "FAILED"}

(* Faulty: an approval may be decided again.                               *)
Decide_again(d, a) ==
  /\ pc[d] = "idle"
  /\ status[a] # "none"
  /\ of' = [of EXCEPT ![d] = a]
  /\ goto(d, "idle", IF a \in Overwrites THEN "check" ELSE "act")
  /\ UNCHANGED <<rows, disk, expired, writer, undoOf, seen, cancels, history, bounds>>

(* The rows are read, the request is turned away, rejected, found expired   *)
(* or carried out.  The session keeps what it has read.                     *)
Decide(d, a) ==
  /\ pc[d] = "idle"
  /\ status[a] # "none"
  /\ of' = [of EXCEPT ![d] = a]
  /\ \/ ~Open(a) /\ goto(d, "idle", "refused")
     \/ /\ Open(a)
        /\ \/ goto(d, "idle", "reject")
           \/ a \in expired /\ goto(d, "idle", "expire")
           \/ a \notin expired /\ a \in Overwrites /\ goto(d, "idle", "check")
           \/ a \notin expired /\ a \notin Overwrites /\ goto(d, "idle", "act")
  /\ UNCHANGED <<rows, disk, expired, writer, undoOf, seen, cancels, history, bounds>>

(* One transaction writes the decision, the task and the undo record.       *)
Settle(d, from, decision, state) ==
  /\ CanWrite
  /\ goto(d, from, "done")
  /\ status' = [status EXCEPT ![of[d]] = decision]
  /\ task' = [task EXCEPT ![of[d]] = state]
  /\ UNCHANGED <<expected, post, disk, expired, writer, of, undoOf, seen, cancels,
                 history, bounds>>

(* Faulty: the rejected task is left waiting.                              *)
Reject_keepsTask(d) ==
  Settle(d, "reject", "REJECTED", task[of[d]]) /\ UNCHANGED undo

Reject(d) == Settle(d, "reject", "REJECTED", "BLOCKED") /\ UNCHANGED undo
Expire(d) == Settle(d, "expire", "EXPIRED", "BLOCKED") /\ UNCHANGED undo
Invalidate(d) == Settle(d, "invalidate", "INVALIDATED", "BLOCKED") /\ UNCHANGED undo

(* Faulty: the state of the task is stored as that of the approval.        *)
Finish_asTask(d) == Settle(d, "finish", "COMPLETED", "COMPLETED") /\ UNCHANGED undo

(* Faulty: the undo record is not created.                                 *)
Finish_withoutUndo(d) == Settle(d, "finish", "APPROVED", "COMPLETED") /\ UNCHANGED undo

(* complete_from_result.  Only a host or desktop tool may report a failure. *)
Finish(d) ==
  \/ /\ Settle(d, "finish", "APPROVED", "COMPLETED")
     /\ undo' = IF of[d] \in Overwrites THEN [undo EXCEPT ![d] = "PENDING"] ELSE undo
  \/ /\ of[d] \notin Overwrites
     /\ Settle(d, "finish", "APPROVED", "FAILED")
     /\ UNCHANGED undo

-----------------------------------------------------------------------------
(* The tool, run by decide_approval.                                       *)

(* A host or desktop tool acts, or raises, before it has had an effect or   *)
(* after it.                                                               *)
Act(d) ==
  /\ \/ goto(d, "act", "finish") /\ acted' = acted \cup {d}
     \/ goto(d, "act", "invalidate") /\ acted' \in {acted, acted \cup {d}}
  /\ UNCHANGED <<rows, disk, expired, writer, of, undoOf, seen, cancels, raced, bounds>>

(* Faulty: the file is not compared with the one approved.                 *)
Check_unchecked(d) ==
  /\ goto(d, "check", IF file[path(of[d])] = Missing THEN "invalidate" ELSE "backup")
  /\ UNCHANGED <<rows, disk, expired, writer, of, undoOf, seen, cancels, history, bounds>>

(* overwrite_text_with_backup: FILE_CHANGED_WHILE_WAITING, or go on.        *)
Check(d) ==
  /\ goto(d, "check", IF file[path(of[d])] = expected[of[d]] THEN "backup" ELSE "invalidate")
  /\ UNCHANGED <<rows, disk, expired, writer, of, undoOf, seen, cancels, history, bounds>>

(* Faulty: the new text is saved instead of the old one.                   *)
Backup_late(d) ==
  /\ goto(d, "backup", "write")
  /\ backup' = [backup EXCEPT ![of[d]] = content(of[d])]
  /\ UNCHANGED <<rows, file, expired, writer, of, undoOf, seen, cancels, history, bounds>>

(* copyfile: whatever the file holds by now goes to the backup, which has   *)
(* the same name for every decision of this approval.                       *)
Backup(d) ==
  /\ \/ /\ goto(d, "backup", "invalidate")
        /\ file[path(of[d])] = Missing
        /\ UNCHANGED backup
     \/ /\ goto(d, "backup", "write")
        /\ file[path(of[d])] # Missing
        /\ backup' = [backup EXCEPT ![of[d]] = file[path(of[d])]]
  /\ UNCHANGED <<rows, file, expired, writer, of, undoOf, seen, cancels, history, bounds>>

(* atomic_write: a temporary file replaces the target.                      *)
Write(d) ==
  /\ goto(d, "write", "verify")
  /\ file' = [file EXCEPT ![path(of[d])] = content(of[d])]
  /\ acted' = acted \cup {d}
  /\ RaceOn(d, path(of[d]))
  /\ UNCHANGED <<rows, backup, expired, writer, of, undoOf, seen, cancels, bounds>>

(* The hash of the file as it is now becomes the postcondition of the undo  *)
(* record, which is not stored before Finish.                               *)
Verify(d) ==
  /\ goto(d, "verify", IF file[path(of[d])] = Missing THEN "invalidate" ELSE "finish")
  /\ post' = [post EXCEPT ![d] = file[path(of[d])]]
  /\ UNCHANGED <<task, status, expected, undo, disk, expired, writer, of, undoOf, seen,
                 cancels, history, bounds>>

(* Faulty: the commit is tried again until the lock is free.               *)
DecisionLocked_retries(d) ==
  /\ ~CanWrite
  /\ pc[d] \in CommitPoint
  /\ goto(d, pc[d], pc[d])
  /\ UNCHANGED <<rows, disk, expired, writer, of, undoOf, seen, cancels, history, bounds>>

(* The write lock does not come free within five seconds: the commit fails  *)
(* after the tool has run, and nothing is stored.                           *)
DecisionLocked(d) ==
  /\ ~CanWrite
  /\ pc[d] \in CommitPoint
  /\ goto(d, pc[d], "locked")
  /\ UNCHANGED <<rows, disk, expired, writer, of, undoOf, seen, cancels, history, bounds>>

DecisionStep(d) ==
  \/ Reject(d) \/ Expire(d) \/ Invalidate(d) \/ Finish(d) \/ Act(d)
  \/ Check(d) \/ Backup(d) \/ Write(d) \/ Verify(d) \/ DecisionLocked(d)

-----------------------------------------------------------------------------
(* undo of an overwrite.  Its own task is flushed first, so it holds the   *)
(* write lock from before it looks at the file until it commits.           *)

target(u) == path(of[undoOf[u]])

(* The undo record is read before the lock is there, and not again.         *)
Undo(u, d) ==
  /\ undo[d] # "none"
  /\ goto(u, "idle", "flush")
  /\ undoOf' = [undoOf EXCEPT ![u] = d]
  /\ seen' = [seen EXCEPT ![u] = undo[d]]
  /\ UNCHANGED <<rows, disk, expired, writer, of, cancels, history, bounds>>

UndoFlush(u) ==
  /\ CanWrite
  /\ goto(u, "flush", IF seen[u] = "APPLIED" THEN "undoBlocked" ELSE "undoCheck")
  /\ writer' = u
  /\ UNCHANGED <<rows, disk, expired, of, undoOf, seen, cancels, history, bounds>>

UndoLocked(u) ==
  /\ ~CanWrite
  /\ goto(u, "flush", "locked")
  /\ UNCHANGED <<rows, disk, expired, writer, of, undoOf, seen, cancels, history, bounds>>

(* UNDO_BACKUP_MISSING, UNDO_CONFLICT_FILE_CHANGED, or go on.               *)
UndoCheck(u) ==
  /\ goto(u, "undoCheck",
          IF backup[of[undoOf[u]]] # Missing /\ file[target(u)] = post[undoOf[u]]
          THEN "undoCopy" ELSE "undoBlocked")
  /\ UNCHANGED <<rows, disk, expired, writer, of, undoOf, seen, cancels, history, bounds>>

UndoCopy(u) ==
  /\ goto(u, "undoCopy", "undoVerify")
  /\ file' = [file EXCEPT ![target(u)] = backup[of[undoOf[u]]]]
  /\ RaceOn(u, target(u))
  /\ UNCHANGED <<rows, backup, expired, writer, of, undoOf, seen, cancels, acted, bounds>>

(* UNDO_POSTCONDITION_RESTORE_FAILED when the file is not the old one.      *)
UndoVerify(u) ==
  /\ goto(u, "undoVerify",
          IF file[target(u)] = expected[of[undoOf[u]]] THEN "undoApplied" ELSE "undoFailed")
  /\ UNCHANGED <<rows, disk, expired, writer, of, undoOf, seen, cancels, history, bounds>>

UndoCommit(u) ==
  /\ \/ goto(u, "undoApplied", "applied") /\ undo' = [undo EXCEPT ![undoOf[u]] = "APPLIED"]
     \/ goto(u, "undoBlocked", "conflict") /\ UNCHANGED undo
     \/ goto(u, "undoFailed", "restoreFailed") /\ UNCHANGED undo
  /\ writer' = NoOne
  /\ UNCHANGED <<task, status, expected, post, disk, expired, of, undoOf, seen, cancels,
                 history, bounds>>

UndoStep(u) ==
  \/ UndoFlush(u) \/ UndoLocked(u) \/ UndoCheck(u) \/ UndoCopy(u)
  \/ UndoVerify(u) \/ UndoCommit(u)

-----------------------------------------------------------------------------
(* CancellationService.cancel, called for the waiting task.                *)

CancelRead(c, a) ==
  /\ cancelPc[c] = "idle"
  /\ task[a] \notin {"absent", "COMPLETED", "FAILED", "CANCELLED"}
  /\ cancelPc' = [cancelPc EXCEPT ![c] = "commit"]
  /\ cancelOf' = [cancelOf EXCEPT ![c] = a]
  /\ UNCHANGED <<rows, disk, expired, writer, threads, history, bounds>>

CancelEnds(c) ==
  /\ cancelPc[c] = "commit"
  /\ cancelPc' = [cancelPc EXCEPT ![c] = "idle"]
  /\ cancelOf' = [cancelOf EXCEPT ![c] = NoOne]
  /\ \/ CanWrite /\ task' = [task EXCEPT ![cancelOf[c]] = "CANCELLED"]
     \/ ~CanWrite /\ UNCHANGED task
  /\ UNCHANGED <<status, expected, undo, post, disk, expired, writer, threads, history,
                 bounds>>

-----------------------------------------------------------------------------
(* Time, other programs, other tasks, and crashes.                         *)

(* Ten minutes have passed since the approval was asked for.  Nobody looks  *)
(* at the time once it is decided.                                          *)
ApprovalExpires(a) ==
  /\ status[a] = "PENDING"
  /\ a \notin expired
  /\ expired' = expired \cup {a}
  /\ UNCHANGED <<rows, disk, writer, threads, cancels, history, bounds>>

(* The user saves or deletes the file in some other program.                *)
Edit(p, c) ==
  /\ edits < MaxEdits
  /\ file[p] # c
  /\ file' = [file EXCEPT ![p] = c]
  /\ RaceOn(NoOne, p)
  /\ edits' = edits + 1
  /\ UNCHANGED <<rows, backup, expired, writer, threads, cancels, acted, crashes>>

(* A tool of another task holds the write lock while it runs.               *)
OtherTask ==
  /\ \/ writer = NoOne /\ writer' = OtherTool
     \/ writer = OtherTool /\ writer' = NoOne
  /\ UNCHANGED <<rows, disk, expired, threads, cancels, history, bounds>>

(* The process dies and is started again; what was not committed is gone.   *)
Crash ==
  /\ crashes < MaxCrashes
  /\ \E x \in Deciders \cup Undoers : Active(x)
  /\ crashes' = crashes + 1
  /\ pc' = [x \in Deciders \cup Undoers |-> IF Active(x) THEN "crashed" ELSE pc[x]]
  /\ writer' = NoOne
  /\ cancelPc' = [c \in Cancels |-> "idle"]
  /\ cancelOf' = [c \in Cancels |-> NoOne]
  /\ UNCHANGED <<rows, disk, expired, of, undoOf, seen, history, edits>>

Environment ==
  \/ \E a \in Approvals : RequestApproval(a) \/ ApprovalExpires(a)
  \/ \E c \in Cancels : CancelEnds(c) \/ \E a \in Approvals : CancelRead(c, a)
  \/ \E p \in Paths, c \in Contents \cup {Missing} : Edit(p, c)
  \/ OtherTask
  \/ Crash

Next ==
  \/ \E d \in Deciders : DecisionStep(d) \/ \E a \in Approvals : Decide(d, a)
  \/ \E u \in Undoers : UndoStep(u) \/ \E d \in Deciders : Undo(u, d)
  \/ Environment

(* A thread that serves a request keeps running.                           *)
Fairness ==
  /\ \A d \in Deciders : WF_vars(DecisionStep(d))
  /\ \A u \in Undoers : WF_vars(UndoStep(u))

Spec == Init /\ [][Next]_vars
FairSpec == Spec /\ Fairness

-----------------------------------------------------------------------------
(* Type invariant.                                                         *)

Text == Contents \cup {Missing}
Location ==
  {"idle", "check", "backup", "write", "verify", "act", "flush", "undoCheck", "undoCopy",
   "undoVerify", "undoApplied", "undoBlocked", "undoFailed"} \cup CommitPoint \cup Finished

TypeOK ==
  /\ file \in [Paths -> Text]
  /\ backup \in [Approvals -> Text]
  /\ task \in [Approvals -> {"absent", "WAITING_APPROVAL", "COMPLETED", "FAILED", "BLOCKED", "CANCELLED"}]
  /\ status \in [Approvals -> {"none", "PENDING", "REJECTED", "EXPIRED", "INVALIDATED", "APPROVED"}]
  /\ expected \in [Approvals -> Text]
  /\ expired \in SUBSET Approvals
  /\ undo \in [Deciders -> {"none", "PENDING", "APPLIED"}]
  /\ post \in [Deciders -> Text]
  /\ writer \in Undoers \cup {NoOne, OtherTool}
  /\ pc \in [Deciders \cup Undoers -> Location]
  /\ of \in [Deciders -> Approvals \cup {NoOne}]
  /\ undoOf \in [Undoers -> Deciders \cup {NoOne}]
  /\ seen \in [Undoers -> {"none", "PENDING", "APPLIED"}]
  /\ cancelPc \in [Cancels -> {"idle", "commit"}]
  /\ cancelOf \in [Cancels -> Approvals \cup {NoOne}]
  /\ acted \in SUBSET Deciders
  /\ raced \in SUBSET Paths
  /\ edits \in 0..MaxEdits
  /\ crashes \in 0..MaxCrashes

-----------------------------------------------------------------------------
(* Safety.                                                                 *)

(* Unless somebody changed the file between a decision's check and its last *)
(* look, every undo record knows the text that was written and has the text *)
(* the user was asked about behind it, whatever crashed, expired, was busy  *)
(* or was decided twice.                                                    *)
UndoRecordsAreGood ==
  \A d \in Deciders : undo[d] # "none" =>
    /\ backup[of[d]] # Missing
    /\ path(of[d]) \notin raced =>
         backup[of[d]] = expected[of[d]] /\ post[d] = content(of[d])

(* An undo that reports a conflict has left the file alone; one that ends  *)
(* with RESTORE_FAILED, after it has changed the file, needs such a race.   *)
UndoIsAllOrNothing ==
  \A u \in Undoers : pc[u] = "restoreFailed" => target(u) \in raced

(* The approval and its task are decided together, in whatever order        *)
(* decisions, cancellations and failures come.                              *)
StatusMatchesTask ==
  \A a \in Approvals :
    task[a] # "CANCELLED" =>
      CASE status[a] = "none" -> task[a] \in {"absent", "BLOCKED"}
        [] status[a] = "PENDING" -> task[a] = "WAITING_APPROVAL"
        [] status[a] = "APPROVED" -> task[a] \in {"COMPLETED", "FAILED"}
        [] OTHER -> task[a] = "BLOCKED"

(* An overwrite the database calls approved can be undone: its record and  *)
(* its backup exist.                                                        *)
ApprovedOverwriteHasUndo ==
  \A a \in Overwrites : status[a] = "APPROVED" =>
    /\ backup[a] # Missing
    /\ \E d \in Deciders : of[d] = a /\ undo[d] # "none"

-----------------------------------------------------------------------------
(* Action properties.                                                      *)

(* The text an overwrite replaces is the one the user was asked about, or  *)
(* the file was changed under its hands.                                   *)
OnlyApprovedTextIsReplaced ==
  [][\A d \in Deciders : d \in acted' \ acted /\ of[d] \in Overwrites =>
       file[path(of[d])] = expected[of[d]] \/ path(of[d]) \in raced]_vars

(* Once nobody is deciding it, an approval that was decided, or whose task  *)
(* was cancelled, stays as it is, and nobody carries it out again.          *)
AtRest(a) == Quiet(a) /\ (status[a] \notin {"none", "PENDING"} \/ task[a] = "CANCELLED")
DecidedApprovalsRest ==
  [][\A a \in Approvals :
       AtRest(a) => AtRest(a)' /\ status'[a] = status[a]]_vars

-----------------------------------------------------------------------------
(* The promise of ApprovalGate.                                            *)

Gate == INSTANCE ApprovalGate WITH
  asked <- {a \in Approvals : task[a] # "absent"},
  open <- {a \in Approvals : Open(a)},
  came <- {d \in Deciders : pc[d] # "idle"},
  inside <- [d \in Deciders |-> IF Active(d) THEN of[d] ELSE NoOne]

(* decide_approval, run by any number of threads that fail or die anywhere *)
(* beside undo, cancellation and other programs, keeps the promise of      *)
(* ApprovalGate: a tool runs, at most once for each request, only for who  *)
(* came while the approval was open, what is stored of a request is what   *)
(* it did, and an approval nobody is deciding any more stays as it is.     *)
DecisionsAreGated == Gate!Spec

-----------------------------------------------------------------------------
(* Liveness.                                                               *)

(* Every decision and every undo comes to an end, also while other tasks   *)
(* keep SQLite's write lock for as long as they like.                       *)
EveryDecisionEnds == \A x \in Deciders \cup Undoers : Active(x) ~> pc[x] \in Finished

-----------------------------------------------------------------------------
(* What the documents say and the code does not do.                        *)

(* docs/HUMAN_ACCEPTANCE_BACKLOG.md: "Rejected approval leaves the original *)
(* file unchanged."  Said here only of approvals nobody is deciding.        *)
RejectedLeavesFile ==
  \A d \in Deciders : d \in acted /\ Quiet(of[d]) => status[of[d]] # "REJECTED"
====
