--------------------------- MODULE CommandRunner ---------------------------
(***************************************************************************)
(* One ENGINEERING_RUN task, from its request over its approval to the end *)
(* of EngineeringCommandRunner.run: the fingerprint that binds the approval *)
(* to a script, the PowerShell process with the processes it starts, the    *)
(* thread that drains their output, the timeout and the end of the tree.    *)
(*                                                                         *)
(* The script is a file of the workspace that anybody may edit.  What the   *)
(* tree does is its own: it starts processes, writes and ends when it       *)
(* likes, or never.  The other ways to decide an approval are in Approvals. *)
(***************************************************************************)
EXTENDS Naturals

CONSTANTS
  Versions,         \* texts the script may have
  Missing,          \* there is no such file
  None,             \* no text
  PowerShell,       \* the process run() starts
  Helpers,          \* the processes below it
  ChunkSize,        \* what the reader asks for: 8192 bytes
  MAX_OUTPUT_BYTES, \* what it keeps
  MaxWritten,       \* bound: how much the tree writes
  MaxEdits          \* bound: how often the script is edited

ASSUME NamesAssumption == Missing \notin Versions /\ None \notin Versions \cup {Missing}
ASSUME ProcessesAssumption == PowerShell \notin Helpers
ASSUME BoundsAssumption ==
  /\ ChunkSize \in Nat \ {0}
  /\ MAX_OUTPUT_BYTES \in Nat
  /\ MaxWritten \in Nat
  /\ MaxEdits \in Nat

Processes == Helpers \cup {PowerShell}

VARIABLES
  script,     \* the text of the file
  edits,
  approved,   \* the script whose fingerprint the approval holds
  checked,    \* the script whose fingerprint run() has compared
  ran,        \* the text PowerShell has read
  raced,      \* history: edited between these two
  pc,         \* where the task is
  timedOut,   \* run() is in its except branch
  proc,       \* each process
  ancestors,  \* the processes above each helper
  returncode,
  todo,       \* children(recursive=True) still to be killed
  slipped,    \* history: processes that psutil cannot show, or is kept from killing
  written,    \* output of the tree, in bytes
  taken,      \* what the reader has read of it
  captured,   \* what it has kept
  output_truncated,
  reader,     \* the thread: off, reading, ended
  joined,     \* how reader.join returned
  result      \* what the response and the evidence say

file == <<script, edits>>
check == <<approved, checked>>
tree == <<proc, ancestors, returncode>>
pipe == <<taken, captured, output_truncated, reader>>
vars == <<file, check, ran, raced, pc, timedOut, tree, todo, slipped, written, pipe, joined, result>>

NoResult == [output |-> 0, truncated |-> FALSE]

Init ==
  /\ script \in Versions \cup {Missing}
  /\ edits = 0
  /\ approved = None /\ checked = None /\ ran = None /\ raced = FALSE
  /\ pc = "request" /\ timedOut = FALSE
  /\ proc = [p \in Processes |-> "unborn"]
  /\ ancestors = [h \in Helpers |-> {}]
  /\ returncode = "none"
  /\ todo = {} /\ slipped = {}
  /\ written = 0 /\ taken = 0 /\ captured = 0
  /\ output_truncated = FALSE
  /\ reader = "off" /\ joined = "no"
  /\ result = NoResult

rest == <<file, check, ran, raced, timedOut, tree, todo, slipped, written, pipe, joined, result>>

goto(from, to) == pc = from /\ pc' = to
pass(from, to) == goto(from, to) /\ UNCHANGED rest

Alive(p) == proc[p] = "alive"
\* a process holds the pipe until the system has taken it down
Holders == {p \in Processes : proc[p] \in {"alive", "dying"}}
Listed == {"kill", "killRoot"}

-----------------------------------------------------------------------------
(* Request and approval.                                                   *)

(* create_task up to require_overwrite_approval: prepare() hashes the       *)
(* script, the approval holds its fingerprint.                              *)
Request ==
  /\ IF script = Missing
       THEN goto("request", "refused") /\ UNCHANGED approved
       ELSE goto("request", "waiting") /\ approved' = script
  /\ UNCHANGED <<file, checked, ran, raced, timedOut, tree, todo, slipped, written, pipe,
                 joined, result>>

(* decide_approval(approve=True) up to the call of run().                  *)
Approve == pass("waiting", "prepare")

(* Faulty: the script is hashed for the evidence, but not compared.         *)
Prepare_uncompared ==
  /\ IF script = Missing
       THEN goto("prepare", "invalidated") /\ UNCHANGED checked
       ELSE goto("prepare", "resolve") /\ checked' = script
  /\ UNCHANGED <<file, approved, ran, raced, timedOut, tree, todo, slipped, written, pipe,
                 joined, result>>

(* run() prepares again; another fingerprint, or no script, raises, and     *)
(* decide_approval makes the approval INVALIDATED.                          *)
Prepare ==
  /\ IF script = approved
       THEN goto("prepare", "resolve") /\ checked' = script
       ELSE goto("prepare", "invalidated") /\ UNCHANGED checked
  /\ UNCHANGED <<file, approved, ran, raced, timedOut, tree, todo, slipped, written, pipe,
                 joined, result>>

(* The paths of the script and of powershell.exe; either may raise.         *)
Resolve ==
  \/ script # Missing /\ pass("resolve", "start")
  \/ pass("resolve", "invalidated")

-----------------------------------------------------------------------------
(* run().                                                                  *)

Start ==
  /\ goto("start", "wait")
  /\ proc' = [proc EXCEPT ![PowerShell] = "alive"]
  /\ reader' = "reading"
  /\ UNCHANGED <<file, check, ran, raced, timedOut, ancestors, returncode, todo, slipped,
                 written, taken, captured, output_truncated, joined, result>>

(* Popen raises OSError: a result of its own, not an exception.            *)
StartFails == pass("start", "unavailable")

WaitReturns ==
  /\ proc[PowerShell] = "gone"
  /\ pass("wait", "join")

WaitExpires ==
  /\ proc[PowerShell] # "gone"
  /\ goto("wait", "list")
  /\ timedOut' = TRUE
  /\ UNCHANGED <<file, check, ran, raced, tree, todo, slipped, written, pipe, joined, result>>

(* What psutil finds below a process: it goes from parent to child, so a    *)
(* process below one that is gone is not found.                             *)
children == {h \in Helpers : /\ proc[h] \in {"alive", "dying"}
                             /\ \A p \in ancestors[h] : proc[p] # "gone"}

(* Faulty: recursive=True is forgotten.                                    *)
ListTree_flat ==
  /\ IF proc[PowerShell] = "gone"
       THEN goto("list", "killRoot") /\ UNCHANGED todo
       ELSE goto("list", "kill") /\ todo' = {h \in children : ancestors[h] = {PowerShell}}
  /\ UNCHANGED <<file, check, ran, raced, timedOut, tree, slipped, written, pipe, joined,
                 result>>

(* psutil.Process raises when PowerShell has just ended by itself.         *)
ListTree ==
  /\ IF proc[PowerShell] = "gone"
       THEN goto("list", "killRoot") /\ UNCHANGED todo
       ELSE goto("list", "kill") /\ todo' = children
  /\ UNCHANGED <<file, check, ran, raced, timedOut, tree, slipped, written, pipe, joined,
                 result>>

(* reversed(children): no process before those below it.                   *)
KillChild(h) ==
  /\ h \in todo
  /\ \A k \in todo : h \notin ancestors[k]
  /\ proc[h] # "gone"
  /\ goto("kill", "kill")
  /\ proc' = [proc EXCEPT ![h] = "dying"]
  /\ todo' = todo \ {h}
  /\ UNCHANGED <<file, check, ran, raced, timedOut, ancestors, returncode, slipped, written,
                 pipe, joined, result>>

(* child.kill() raises NoSuchProcess for one that has just ended: the rest  *)
(* of the list is left alone.                                               *)
KillRaises(h) ==
  /\ h \in todo
  /\ \A k \in todo : h \notin ancestors[k]
  /\ proc[h] = "gone"
  /\ pass("kill", "killRoot")

(* Or AccessDenied, for one the runtime has no right to kill.              *)
KillDenied(h) ==
  /\ h \in todo
  /\ \A k \in todo : h \notin ancestors[k]
  /\ proc[h] # "gone"
  /\ goto("kill", "killRoot")
  /\ slipped' = slipped \cup todo
  /\ UNCHANGED <<file, check, ran, raced, timedOut, tree, todo, written, pipe, joined, result>>

(* wait_procs returns when all are gone, or after three seconds.           *)
WaitProcs ==
  /\ todo = {}
  /\ pass("kill", "killRoot")

(* Popen.kill does nothing for a process that has ended.                   *)
KillRoot ==
  /\ goto("killRoot", "waitAgain")
  /\ proc' = [proc EXCEPT ![PowerShell] = IF Alive(PowerShell) THEN "dying" ELSE @]
  /\ UNCHANGED <<file, check, ran, raced, timedOut, ancestors, returncode, todo, slipped,
                 written, pipe, joined, result>>

(* A PermissionError is an OSError, and run() reports it as if PowerShell   *)
(* could not be started.                                                   *)
KillRootDenied ==
  /\ proc[PowerShell] # "gone"
  /\ pass("killRoot", "unavailable")

WaitAgain ==
  /\ proc[PowerShell] = "gone"
  /\ pass("waitAgain", "join")

(* The second TimeoutExpired is nobody's: it leaves run(), and              *)
(* decide_approval makes the approval INVALIDATED.                          *)
WaitAgainExpires ==
  /\ proc[PowerShell] # "gone"
  /\ pass("waitAgain", "invalidated")

JoinReturns ==
  /\ reader = "ended"
  /\ goto("join", "output")
  /\ joined' = "ended"
  /\ UNCHANGED <<file, check, ran, raced, timedOut, tree, todo, slipped, written, pipe, result>>

(* Faulty: join without a timeout.                                         *)
JoinExpires_never == FALSE /\ UNCHANGED vars

(* Five seconds are enough to empty a pipe nobody writes to any more; so    *)
(* they pass only while a process still holds it.                           *)
JoinExpires ==
  /\ reader # "ended" /\ Holders # {}
  /\ goto("join", "output")
  /\ joined' = "expired"
  /\ UNCHANGED <<file, check, ran, raced, timedOut, tree, todo, slipped, written, pipe, result>>

(* The parts are put together here, output_truncated is read after it.     *)
TakeOutput ==
  /\ goto("output", "report")
  /\ result' = [result EXCEPT !.output = captured]
  /\ UNCHANGED <<file, check, ran, raced, timedOut, tree, todo, slipped, written, pipe, joined>>

(* _result and complete_from_result: the task is COMPLETED when PowerShell  *)
(* has ended by itself, in time, with exit code 0.                          *)
Report ==
  /\ goto("report", IF ~timedOut /\ returncode = "zero" THEN "completed" ELSE "failed")
  /\ result' = [result EXCEPT !.truncated = output_truncated]
  /\ UNCHANGED <<file, check, ran, raced, timedOut, tree, todo, slipped, written, pipe, joined>>

RunStep ==
  \/ Prepare \/ Resolve \/ Start \/ StartFails \/ WaitReturns \/ WaitExpires
  \/ ListTree \/ (\E h \in Helpers : KillChild(h) \/ KillRaises(h) \/ KillDenied(h))
  \/ WaitProcs \/ KillRoot \/ KillRootDenied \/ WaitAgain \/ WaitAgainExpires \/ JoinReturns \/ JoinExpires
  \/ TakeOutput \/ Report

-----------------------------------------------------------------------------
(* drain_output.                                                           *)

Lesser(m, n) == IF m < n THEN m ELSE n
(* What is still to be read; read(n) waits for n bytes or the end of file.  *)
Pending == written - taken
Chunk == Lesser(ChunkSize, Pending)

(* Faulty: a chunk that just fits counts as cut off.                       *)
ReadChunk_atLimit ==
  /\ reader = "reading"
  /\ Pending > 0
  /\ Pending >= ChunkSize \/ Holders = {}
  /\ LET remaining == MAX_OUTPUT_BYTES - captured
     IN /\ captured' = captured + Lesser(Chunk, remaining)
        /\ output_truncated' = (output_truncated \/ Chunk >= remaining)
  /\ taken' = taken + Chunk
  /\ UNCHANGED <<file, check, ran, raced, pc, timedOut, tree, todo, slipped, written, reader,
                 joined, result>>

(* Faulty: the cap is forgotten.                                           *)
ReadChunk_uncapped ==
  /\ reader = "reading"
  /\ Pending > 0
  /\ Pending >= ChunkSize \/ Holders = {}
  /\ captured' = captured + Chunk
  /\ taken' = taken + Chunk
  /\ UNCHANGED <<file, check, ran, raced, pc, timedOut, tree, todo, slipped, written, reader,
                 output_truncated, joined, result>>

ReadChunk ==
  /\ reader = "reading"
  /\ Pending > 0
  /\ Pending >= ChunkSize \/ Holders = {}
  /\ LET remaining == MAX_OUTPUT_BYTES - captured
     IN /\ captured' = captured + Lesser(Chunk, remaining)
        /\ output_truncated' = (output_truncated \/ Chunk > remaining)
  /\ taken' = taken + Chunk
  /\ UNCHANGED <<file, check, ran, raced, pc, timedOut, tree, todo, slipped, written, reader,
                 joined, result>>

ReadEnd ==
  /\ reader = "reading"
  /\ Pending = 0 /\ Holders = {}
  /\ reader' = "ended"
  /\ UNCHANGED <<file, check, ran, raced, pc, timedOut, tree, todo, slipped, written, taken,
                 captured, output_truncated, joined, result>>

ReaderStep == ReadChunk \/ ReadEnd

-----------------------------------------------------------------------------
(* The processes, and whoever edits the script.                            *)

unmoved == <<check, pc, timedOut, todo, pipe, joined, result>>

(* PowerShell -File reads the script once, and ends when there is none.    *)
ReadScript ==
  /\ Alive(PowerShell) /\ ran = None
  /\ ran' = script
  /\ UNCHANGED <<file, raced, tree, slipped, written, unmoved>>

(* A process started while the others are being killed is in no list, nor   *)
(* is one below a process that slipped through.                             *)
Spawn(p, h) ==
  /\ Alive(p) /\ ran \in Versions
  /\ proc[h] = "unborn"
  /\ proc' = [proc EXCEPT ![h] = "alive"]
  /\ ancestors' = [ancestors EXCEPT ![h] = {p} \cup IF p = PowerShell THEN {} ELSE ancestors[p]]
  /\ slipped' = IF p \in slipped \/ pc \in Listed THEN slipped \cup {h} ELSE slipped
  /\ UNCHANGED <<file, ran, raced, returncode, written, unmoved>>

Write(p) ==
  /\ Alive(p) /\ ran \in Versions
  /\ written < MaxWritten
  /\ written' = written + 1
  /\ UNCHANGED <<file, ran, raced, tree, slipped, unmoved>>

(* A process ends.  What lives below it is cut off from the tree; one that  *)
(* was about to be killed makes the killing stop.                           *)
Exit(p) ==
  /\ Alive(p)
  /\ proc' = [proc EXCEPT ![p] = "gone"]
  /\ slipped' = slipped \cup {h \in Helpers : Alive(h) /\ p \in ancestors[h]}
                        \cup IF p \in todo THEN todo ELSE {}
  /\ IF p = PowerShell
       THEN /\ ran # None
            /\ returncode' \in IF ran = Missing THEN {"other"} ELSE {"zero", "other"}
       ELSE UNCHANGED returncode
  /\ UNCHANGED <<file, ran, raced, ancestors, written, unmoved>>

(* TerminateProcess only asks: the process is gone some time later.        *)
Die(p) ==
  /\ proc[p] = "dying"
  /\ proc' = [proc EXCEPT ![p] = "gone"]
  /\ UNCHANGED <<file, ran, raced, ancestors, returncode, slipped, written, unmoved>>

Edit(text) ==
  /\ edits < MaxEdits
  /\ text # script
  /\ script' = text
  /\ edits' = edits + 1
  /\ raced' = (raced \/ (checked # None /\ ran = None))
  /\ UNCHANGED <<ran, tree, slipped, written, unmoved>>

-----------------------------------------------------------------------------
Next ==
  \/ Request \/ Approve \/ RunStep \/ ReaderStep
  \/ ReadScript
  \/ \E p \in Processes : (\E h \in Helpers : Spawn(p, h)) \/ Write(p) \/ Exit(p) \/ Die(p)
  \/ \E text \in Versions \cup {Missing} : Edit(text)

Spec == Init /\ [][Next]_vars

(* The steps of the two threads of the runtime are taken, and its timers go *)
(* off.  Nothing is assumed of the script and the processes it starts.      *)
FairSpec == Spec /\ WF_vars(RunStep) /\ WF_vars(ReaderStep)

-----------------------------------------------------------------------------
Places == {"request", "waiting", "prepare", "resolve", "start", "wait", "list", "kill",
           "killRoot", "waitAgain", "join", "output", "report",
           "refused", "invalidated", "unavailable", "completed", "failed"}
Ended == {"invalidated", "unavailable", "completed", "failed"}

TypeOK ==
  /\ script \in Versions \cup {Missing}
  /\ edits \in 0..MaxEdits
  /\ approved \in Versions \cup {None} /\ checked \in Versions \cup {None}
  /\ ran \in Versions \cup {Missing, None}
  /\ raced \in BOOLEAN /\ timedOut \in BOOLEAN
  /\ pc \in Places
  /\ proc \in [Processes -> {"unborn", "alive", "dying", "gone"}]
  /\ ancestors \in [Helpers -> SUBSET Processes]
  /\ returncode \in {"none", "zero", "other"}
  /\ todo \subseteq Helpers /\ slipped \subseteq Helpers
  /\ written \in 0..MaxWritten /\ taken \in 0..written
  /\ captured \in 0..MAX_OUTPUT_BYTES
  /\ output_truncated \in BOOLEAN
  /\ reader \in {"off", "reading", "ended"}
  /\ joined \in {"no", "ended", "expired"}
  /\ result \in [output : 0..MAX_OUTPUT_BYTES, truncated : BOOLEAN]

(* Only the script the user has approved is run, unless it was edited after *)
(* run() had compared it and before PowerShell read it; and the evidence    *)
(* names the approved one.                                                  *)
OnlyApprovedScriptRuns ==
  ran # None => checked = approved /\ (ran = approved \/ raced)

(* When a command is going to be reported as timed out, PowerShell is not   *)
(* running any more, and of the processes below it only those that psutil   *)
(* could not know of, that the runtime has no right to kill, or that such a *)
(* process or one which ended by itself has kept it from killing.           *)
TimeoutKillsTree ==
  timedOut /\ pc \in {"join", "output", "report", "failed"} =>
    \A p \in Processes : Alive(p) => p \in slipped

(* The output of a result whose reader had come to the end of the file is   *)
(* all that was written up to the cap, and it says truncated exactly when   *)
(* there was more; any result has at most what was written, and does not    *)
(* say truncated for nothing.                                               *)
OutputIsAccountedFor ==
  pc \in {"completed", "failed"} /\ joined # "no" =>
    /\ result.output <= Lesser(written, MAX_OUTPUT_BYTES)
    /\ result.truncated => written > MAX_OUTPUT_BYTES
    /\ joined = "ended" => /\ result.output = Lesser(written, MAX_OUTPUT_BYTES)
                           /\ result.truncated <=> written > MAX_OUTPUT_BYTES

(* Once approved, a command comes to an end, even with a script that never  *)
(* ends and with processes that cannot be killed or keep the pipe open.     *)
EveryRunEnds == pc = "prepare" ~> pc \in Ended
====
