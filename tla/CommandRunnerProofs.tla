------------------------ MODULE CommandRunnerProofs ------------------------
(***************************************************************************)
(* Safety of CommandRunner for every set of scripts and of processes, every *)
(* size of chunk, output and cap, and every number of edits.               *)
(*                                                                         *)
(* The invariant says what is known of the script from the comparison on;   *)
(* which processes may be alive and unknown at each point of the killing;   *)
(* and that what the reader keeps is a function of what it has read.        *)
(***************************************************************************)
EXTENDS CommandRunner, TLAPS

Early == {"request", "waiting", "refused", "prepare", "resolve", "start"}
Killing == {"list", "kill", "killRoot", "waitAgain"}
Late == {"join", "output", "report", "invalidated", "unavailable", "completed", "failed"}

(* The approval, the comparison and the script PowerShell has read.        *)
ApprovalInv ==
  /\ checked # None => checked = approved
  /\ pc \in {"resolve", "start"} => checked # None
  /\ proc[PowerShell] # "unborn" => checked # None
  /\ pc \in {"request", "waiting", "prepare"} => checked = None
  /\ checked # None /\ ran = None => script = checked \/ raced
  /\ ran # None => checked # None /\ (ran = approved \/ raced)

(* Where the task may be when it has timed out and when it has not.        *)
PlaceInv ==
  /\ timedOut => pc \in Killing \cup Late
  /\ ~timedOut => pc \notin Killing
  /\ reader # "off" => pc \notin Early
  /\ joined # "no" => pc \in {"output", "report", "completed", "failed"}

(* Nothing is taken down before the killing, and every process is below     *)
(* PowerShell.                                                             *)
FamilyInv ==
  /\ ~timedOut \/ pc = "list" => \A p \in Processes : proc[p] # "dying"
  /\ \A h \in Helpers : proc[h] # "unborn" => PowerShell \in ancestors[h]

(* A process is cut off from the tree only when it is counted as slipped;   *)
(* then it is alive only when it is in the list, or counted as slipped,     *)
(* unless PowerShell itself could not be killed.                           *)
KillInv ==
  /\ ~timedOut \/ pc = "list" =>
       \A h \in Helpers : Alive(h) /\ h \notin slipped =>
         \A p \in ancestors[h] : proc[p] # "gone"
  /\ pc = "kill" =>
       /\ \A h \in Helpers : Alive(h) => h \in todo \cup slipped
       /\ \A h \in todo : proc[h] \in {"alive", "gone"}
       /\ (\E h \in todo : proc[h] = "gone") => todo \subseteq slipped
  /\ timedOut /\ pc \notin {"list", "kill", "unavailable"} =>
       \A h \in Helpers : Alive(h) => h \in slipped
  /\ timedOut /\ pc \notin {"list", "kill", "killRoot", "unavailable"} => ~Alive(PowerShell)

(* What the reader keeps; it ends when there is nothing left and nobody to  *)
(* write any more.                                                         *)
PipeInv ==
  /\ captured = Lesser(taken, MAX_OUTPUT_BYTES)
  /\ output_truncated <=> taken > MAX_OUTPUT_BYTES
  /\ reader = "ended" => taken = written /\ Holders = {}
  /\ joined = "ended" => reader = "ended"

ResultInv ==
  /\ result.output <= Lesser(written, MAX_OUTPUT_BYTES)
  /\ result.truncated => written > MAX_OUTPUT_BYTES
  /\ joined = "ended" /\ pc \in {"report", "completed", "failed"} =>
       result.output = Lesser(written, MAX_OUTPUT_BYTES)
  /\ joined = "ended" /\ pc \in {"completed", "failed"} =>
       (result.truncated <=> written > MAX_OUTPUT_BYTES)

Inv == TypeOK /\ ApprovalInv /\ PlaceInv /\ FamilyInv /\ KillInv /\ PipeInv /\ ResultInv

(* Everything but the processes' own steps: the two threads of the runtime, *)
(* and the request.                                                        *)
TaskStep == Request \/ Approve \/ RunStep
TreeStep ==
  \/ ReadScript
  \/ \E p \in Processes : (\E h \in Helpers : Spawn(p, h)) \/ Write(p) \/ Exit(p) \/ Die(p)

LEMMA NextSteps ==
  Next <=> \/ TaskStep \/ ReaderStep \/ TreeStep
           \/ \E text \in Versions \cup {Missing} : Edit(text)
BY DEF Next, TaskStep, TreeStep

(* Keeping the least of what is read and of what is left of the cap keeps   *)
(* the least of all that was read and of the cap.                          *)
LEMMA KeepingFacts ==
  ASSUME NEW t \in Nat, NEW n \in Nat \ {0}, NEW cap \in Nat
  PROVE  /\ Lesser(t, cap) + Lesser(n, cap - Lesser(t, cap)) = Lesser(t + n, cap)
         /\ t > cap \/ n > cap - Lesser(t, cap) <=> t + n > cap
BY DEF Lesser

-----------------------------------------------------------------------------
(* Types.                                                                  *)

LEMMA TypeTask ==
  ASSUME TypeOK, PipeInv, TaskStep
  PROVE  TypeOK'
<1> USE NamesAssumption, ProcessesAssumption, BoundsAssumption DEF TypeOK, Places, Processes, goto, pass, rest, unmoved, file, check, tree, pipe
<1>1. CASE Request
  BY <1>1 DEF Request
<1>2. CASE Approve
  BY <1>2 DEF Approve
<1>3. CASE Prepare
  BY <1>3 DEF Prepare
<1>4. CASE Resolve
  BY <1>4 DEF Resolve
<1>5. CASE Start
  BY <1>5 DEF Start
<1>6. CASE StartFails
  BY <1>6 DEF StartFails
<1>7. CASE WaitReturns
  BY <1>7 DEF WaitReturns
<1>8. CASE WaitExpires
  BY <1>8 DEF WaitExpires
<1>9. CASE ListTree
  BY <1>9 DEF ListTree, children
<1>10. ASSUME NEW h \in Helpers, KillChild(h) PROVE TypeOK'
  BY <1>10 DEF KillChild
<1>11. ASSUME NEW h \in Helpers, KillRaises(h) PROVE TypeOK'
  BY <1>11 DEF KillRaises
<1>12. CASE WaitProcs
  BY <1>12 DEF WaitProcs
<1>13. CASE KillRoot
  BY <1>13 DEF KillRoot
<1>14. CASE WaitAgain
  BY <1>14 DEF WaitAgain
<1>15. CASE WaitAgainExpires
  BY <1>15 DEF WaitAgainExpires
<1>16. CASE JoinReturns
  BY <1>16 DEF JoinReturns
<1>17. CASE JoinExpires
  BY <1>17 DEF JoinExpires
<1>18. CASE TakeOutput
  <2>1. result' \in [output : 0..MAX_OUTPUT_BYTES, truncated : BOOLEAN]
    BY <1>18 DEF TakeOutput
  <2> QED
    BY <1>18, <2>1 DEF TakeOutput
<1>19. CASE Report
  <2>1. result' \in [output : 0..MAX_OUTPUT_BYTES, truncated : BOOLEAN]
    BY <1>19 DEF Report
  <2> QED
    BY <1>19, <2>1 DEF Report
<1>20. ASSUME NEW h \in Helpers, KillDenied(h) PROVE TypeOK'
  BY <1>20 DEF KillDenied
<1>21. CASE KillRootDenied
  BY <1>21 DEF KillRootDenied
<1> QED
  BY <1>1, <1>2, <1>3, <1>4, <1>5, <1>6, <1>7, <1>8, <1>9, <1>10, <1>11, <1>12, <1>13, <1>14, <1>15, <1>16, <1>17, <1>18, <1>19, <1>20, <1>21 DEF TaskStep, RunStep

LEMMA TypeReader ==
  ASSUME TypeOK, PipeInv, ReaderStep
  PROVE  TypeOK'
<1> USE NamesAssumption, ProcessesAssumption, BoundsAssumption DEF TypeOK, Places, Processes, goto, pass, rest, unmoved, file, check, tree, pipe
<1>1. CASE ReadChunk
  <2>1. Pending \in Nat \ {0} /\ Chunk \in 1..Pending
    BY <1>1 DEF ReadChunk, Pending, Chunk, Lesser
  <2>2. taken' \in 0..written
    BY <1>1, <2>1 DEF ReadChunk, Pending
  <2>3. captured' \in 0..MAX_OUTPUT_BYTES /\ output_truncated' \in BOOLEAN
    BY <1>1, <2>1 DEF ReadChunk, Lesser
  <2> QED
    BY <1>1, <2>2, <2>3 DEF ReadChunk
<1>2. CASE ReadEnd
  BY <1>2 DEF ReadEnd
<1> QED
  BY <1>1, <1>2 DEF ReaderStep

LEMMA TypeTree ==
  ASSUME TypeOK, PipeInv, TreeStep
  PROVE  TypeOK'
<1> USE NamesAssumption, ProcessesAssumption, BoundsAssumption DEF TypeOK, Places, Processes, goto, pass, rest, unmoved, file, check, tree, pipe
<1>1. CASE ReadScript
  BY <1>1 DEF ReadScript
<1>2. ASSUME NEW p \in Processes, NEW h \in Helpers, Spawn(p, h) PROVE TypeOK'
  BY <1>2 DEF Spawn
<1>3. ASSUME NEW p \in Processes, Write(p) PROVE TypeOK'
  BY <1>3 DEF Write
<1>4. ASSUME NEW p \in Processes, Exit(p) PROVE TypeOK'
  BY <1>4 DEF Exit
<1>5. ASSUME NEW p \in Processes, Die(p) PROVE TypeOK'
  BY <1>5 DEF Die
<1> QED
  BY <1>1, <1>2, <1>3, <1>4, <1>5 DEF TreeStep

LEMMA TypeRest ==
  ASSUME TypeOK, PipeInv,
         (\E text \in Versions \cup {Missing} : Edit(text)) \/ UNCHANGED vars
  PROVE  TypeOK'
<1> USE NamesAssumption, ProcessesAssumption, BoundsAssumption DEF TypeOK, Places, Processes, goto, pass, rest, unmoved, file, check, tree, pipe
<1>1. ASSUME NEW text \in Versions \cup {Missing}, Edit(text) PROVE TypeOK'
  BY <1>1 DEF Edit
<1>2. CASE UNCHANGED vars
  BY <1>2 DEF vars
<1> QED
  BY <1>1, <1>2

-----------------------------------------------------------------------------
(* The approval.                                                           *)

LEMMA ApprovalTask ==
  ASSUME TypeOK, ApprovalInv, TaskStep
  PROVE  ApprovalInv'
<1> USE NamesAssumption, ProcessesAssumption, BoundsAssumption DEF TypeOK, ApprovalInv, Processes, Alive, goto, pass, rest, unmoved, file, check, tree, pipe
<1>1. CASE Request
  BY <1>1 DEF Request
<1>2. CASE Approve
  BY <1>2 DEF Approve
<1>3. CASE Prepare
  BY <1>3 DEF Prepare
<1>4. CASE Resolve
  BY <1>4 DEF Resolve
<1>5. CASE Start
  BY <1>5 DEF Start
<1>6. CASE StartFails
  BY <1>6 DEF StartFails
<1>7. CASE WaitReturns
  BY <1>7 DEF WaitReturns
<1>8. CASE WaitExpires
  BY <1>8 DEF WaitExpires
<1>9. CASE ListTree
  BY <1>9 DEF ListTree
<1>10. ASSUME NEW h \in Helpers, KillChild(h) PROVE ApprovalInv'
  BY <1>10 DEF KillChild
<1>11. ASSUME NEW h \in Helpers, KillRaises(h) PROVE ApprovalInv'
  BY <1>11 DEF KillRaises
<1>12. CASE WaitProcs
  BY <1>12 DEF WaitProcs
<1>13. CASE KillRoot
  BY <1>13 DEF KillRoot
<1>14. CASE WaitAgain
  BY <1>14 DEF WaitAgain
<1>15. CASE WaitAgainExpires
  BY <1>15 DEF WaitAgainExpires
<1>16. CASE JoinReturns
  BY <1>16 DEF JoinReturns
<1>17. CASE JoinExpires
  BY <1>17 DEF JoinExpires
<1>18. CASE TakeOutput
  BY <1>18 DEF TakeOutput
<1>19. CASE Report
  BY <1>19 DEF Report
<1>20. ASSUME NEW h \in Helpers, KillDenied(h) PROVE ApprovalInv'
  BY <1>20 DEF KillDenied
<1>21. CASE KillRootDenied
  BY <1>21 DEF KillRootDenied
<1> QED
  BY <1>1, <1>2, <1>3, <1>4, <1>5, <1>6, <1>7, <1>8, <1>9, <1>10, <1>11, <1>12, <1>13, <1>14, <1>15, <1>16, <1>17, <1>18, <1>19, <1>20, <1>21 DEF TaskStep, RunStep

LEMMA ApprovalReader ==
  ASSUME TypeOK, ApprovalInv, ReaderStep
  PROVE  ApprovalInv'
<1> USE NamesAssumption, ProcessesAssumption, BoundsAssumption DEF TypeOK, ApprovalInv, Processes, Alive, goto, pass, rest, unmoved, file, check, tree, pipe
<1>1. CASE ReadChunk
  BY <1>1 DEF ReadChunk
<1>2. CASE ReadEnd
  BY <1>2 DEF ReadEnd
<1> QED
  BY <1>1, <1>2 DEF ReaderStep

LEMMA ApprovalTree ==
  ASSUME TypeOK, ApprovalInv, TreeStep
  PROVE  ApprovalInv'
<1> USE NamesAssumption, ProcessesAssumption, BoundsAssumption DEF TypeOK, ApprovalInv, Processes, Alive, goto, pass, rest, unmoved, file, check, tree, pipe
<1>1. CASE ReadScript
  BY <1>1 DEF ReadScript
<1>2. ASSUME NEW p \in Processes, NEW h \in Helpers, Spawn(p, h) PROVE ApprovalInv'
  BY <1>2 DEF Spawn
<1>3. ASSUME NEW p \in Processes, Write(p) PROVE ApprovalInv'
  BY <1>3 DEF Write
<1>4. ASSUME NEW p \in Processes, Exit(p) PROVE ApprovalInv'
  BY <1>4 DEF Exit
<1>5. ASSUME NEW p \in Processes, Die(p) PROVE ApprovalInv'
  BY <1>5 DEF Die
<1> QED
  BY <1>1, <1>2, <1>3, <1>4, <1>5 DEF TreeStep

LEMMA ApprovalRest ==
  ASSUME TypeOK, ApprovalInv,
         (\E text \in Versions \cup {Missing} : Edit(text)) \/ UNCHANGED vars
  PROVE  ApprovalInv'
<1> USE NamesAssumption, ProcessesAssumption, BoundsAssumption DEF TypeOK, ApprovalInv, Processes, Alive, goto, pass, rest, unmoved, file, check, tree, pipe
<1>1. ASSUME NEW text \in Versions \cup {Missing}, Edit(text) PROVE ApprovalInv'
  BY <1>1 DEF Edit
<1>2. CASE UNCHANGED vars
  BY <1>2 DEF vars
<1> QED
  BY <1>1, <1>2

-----------------------------------------------------------------------------
(* Places.                                                                 *)

LEMMA PlaceTask ==
  ASSUME TypeOK, PlaceInv, TaskStep
  PROVE  PlaceInv'
<1> USE DEF TypeOK, PlaceInv, Early, Killing, Late, goto, pass, rest, unmoved, file, check, tree, pipe
<1>1. CASE Request
  BY <1>1 DEF Request
<1>2. CASE Approve
  BY <1>2 DEF Approve
<1>3. CASE Prepare
  BY <1>3 DEF Prepare
<1>4. CASE Resolve
  BY <1>4 DEF Resolve
<1>5. CASE Start
  BY <1>5 DEF Start
<1>6. CASE StartFails
  BY <1>6 DEF StartFails
<1>7. CASE WaitReturns
  BY <1>7 DEF WaitReturns
<1>8. CASE WaitExpires
  BY <1>8 DEF WaitExpires
<1>9. CASE ListTree
  BY <1>9 DEF ListTree
<1>10. ASSUME NEW h \in Helpers, KillChild(h) PROVE PlaceInv'
  BY <1>10 DEF KillChild
<1>11. ASSUME NEW h \in Helpers, KillRaises(h) PROVE PlaceInv'
  BY <1>11 DEF KillRaises
<1>12. CASE WaitProcs
  BY <1>12 DEF WaitProcs
<1>13. CASE KillRoot
  BY <1>13 DEF KillRoot
<1>14. CASE WaitAgain
  BY <1>14 DEF WaitAgain
<1>15. CASE WaitAgainExpires
  BY <1>15 DEF WaitAgainExpires
<1>16. CASE JoinReturns
  BY <1>16 DEF JoinReturns
<1>17. CASE JoinExpires
  BY <1>17 DEF JoinExpires
<1>18. CASE TakeOutput
  BY <1>18 DEF TakeOutput
<1>19. CASE Report
  BY <1>19 DEF Report
<1>20. ASSUME NEW h \in Helpers, KillDenied(h) PROVE PlaceInv'
  BY <1>20 DEF KillDenied
<1>21. CASE KillRootDenied
  BY <1>21 DEF KillRootDenied
<1> QED
  BY <1>1, <1>2, <1>3, <1>4, <1>5, <1>6, <1>7, <1>8, <1>9, <1>10, <1>11, <1>12, <1>13, <1>14, <1>15, <1>16, <1>17, <1>18, <1>19, <1>20, <1>21 DEF TaskStep, RunStep

LEMMA PlaceReader ==
  ASSUME TypeOK, PlaceInv, ReaderStep
  PROVE  PlaceInv'
<1> USE DEF TypeOK, PlaceInv, Early, Killing, Late, goto, pass, rest, unmoved, file, check, tree, pipe
<1>1. CASE ReadChunk
  BY <1>1 DEF ReadChunk
<1>2. CASE ReadEnd
  BY <1>2 DEF ReadEnd
<1> QED
  BY <1>1, <1>2 DEF ReaderStep

LEMMA PlaceTree ==
  ASSUME TypeOK, PlaceInv, TreeStep
  PROVE  PlaceInv'
<1> USE DEF TypeOK, PlaceInv, Early, Killing, Late, goto, pass, rest, unmoved, file, check, tree, pipe
<1>1. CASE ReadScript
  BY <1>1 DEF ReadScript
<1>2. ASSUME NEW p \in Processes, NEW h \in Helpers, Spawn(p, h) PROVE PlaceInv'
  BY <1>2 DEF Spawn
<1>3. ASSUME NEW p \in Processes, Write(p) PROVE PlaceInv'
  BY <1>3 DEF Write
<1>4. ASSUME NEW p \in Processes, Exit(p) PROVE PlaceInv'
  BY <1>4 DEF Exit
<1>5. ASSUME NEW p \in Processes, Die(p) PROVE PlaceInv'
  BY <1>5 DEF Die
<1> QED
  BY <1>1, <1>2, <1>3, <1>4, <1>5 DEF TreeStep

LEMMA PlaceRest ==
  ASSUME TypeOK, PlaceInv,
         (\E text \in Versions \cup {Missing} : Edit(text)) \/ UNCHANGED vars
  PROVE  PlaceInv'
<1> USE DEF TypeOK, PlaceInv, Early, Killing, Late, goto, pass, rest, unmoved, file, check, tree, pipe
<1>1. ASSUME NEW text \in Versions \cup {Missing}, Edit(text) PROVE PlaceInv'
  BY <1>1 DEF Edit
<1>2. CASE UNCHANGED vars
  BY <1>2 DEF vars
<1> QED
  BY <1>1, <1>2

-----------------------------------------------------------------------------
(* The family of processes.                                                *)

LEMMA FamilyTask ==
  ASSUME TypeOK, PlaceInv, FamilyInv, KillInv, TaskStep
  PROVE  FamilyInv'
<1> USE ProcessesAssumption DEF TypeOK, PlaceInv, FamilyInv, Early, Killing, Late, Processes, Alive, goto, pass, rest, unmoved, file, check, tree, pipe
<1>1. CASE Request
  BY <1>1 DEF Request
<1>2. CASE Approve
  BY <1>2 DEF Approve
<1>3. CASE Prepare
  BY <1>3 DEF Prepare
<1>4. CASE Resolve
  BY <1>4 DEF Resolve
<1>5. CASE Start
  BY <1>5 DEF Start
<1>6. CASE StartFails
  BY <1>6 DEF StartFails
<1>7. CASE WaitReturns
  BY <1>7 DEF WaitReturns
<1>8. CASE WaitExpires
  BY <1>8 DEF WaitExpires
<1>9. CASE ListTree
  BY <1>9 DEF ListTree
<1>10. ASSUME NEW h \in Helpers, KillChild(h) PROVE FamilyInv'
  BY <1>10 DEF KillChild, KillInv
<1>11. ASSUME NEW h \in Helpers, KillRaises(h) PROVE FamilyInv'
  BY <1>11 DEF KillRaises
<1>12. CASE WaitProcs
  BY <1>12 DEF WaitProcs
<1>13. CASE KillRoot
  BY <1>13 DEF KillRoot
<1>14. CASE WaitAgain
  BY <1>14 DEF WaitAgain
<1>15. CASE WaitAgainExpires
  BY <1>15 DEF WaitAgainExpires
<1>16. CASE JoinReturns
  BY <1>16 DEF JoinReturns
<1>17. CASE JoinExpires
  BY <1>17 DEF JoinExpires
<1>18. CASE TakeOutput
  BY <1>18 DEF TakeOutput
<1>19. CASE Report
  BY <1>19 DEF Report
<1>20. ASSUME NEW h \in Helpers, KillDenied(h) PROVE FamilyInv'
  BY <1>20 DEF KillDenied
<1>21. CASE KillRootDenied
  BY <1>21 DEF KillRootDenied
<1> QED
  BY <1>1, <1>2, <1>3, <1>4, <1>5, <1>6, <1>7, <1>8, <1>9, <1>10, <1>11, <1>12, <1>13, <1>14, <1>15, <1>16, <1>17, <1>18, <1>19, <1>20, <1>21 DEF TaskStep, RunStep

LEMMA FamilyReader ==
  ASSUME TypeOK, PlaceInv, FamilyInv, KillInv, ReaderStep
  PROVE  FamilyInv'
<1> USE ProcessesAssumption DEF TypeOK, PlaceInv, FamilyInv, Early, Killing, Late, Processes, Alive, goto, pass, rest, unmoved, file, check, tree, pipe
<1>1. CASE ReadChunk
  BY <1>1 DEF ReadChunk
<1>2. CASE ReadEnd
  BY <1>2 DEF ReadEnd
<1> QED
  BY <1>1, <1>2 DEF ReaderStep

LEMMA FamilyTree ==
  ASSUME TypeOK, PlaceInv, FamilyInv, KillInv, TreeStep
  PROVE  FamilyInv'
<1> USE ProcessesAssumption DEF TypeOK, PlaceInv, FamilyInv, Early, Killing, Late, Processes, Alive, goto, pass, rest, unmoved, file, check, tree, pipe
<1>1. CASE ReadScript
  BY <1>1 DEF ReadScript
<1>2. ASSUME NEW p \in Processes, NEW h \in Helpers, Spawn(p, h) PROVE FamilyInv'
  BY <1>2 DEF Spawn
<1>3. ASSUME NEW p \in Processes, Write(p) PROVE FamilyInv'
  BY <1>3 DEF Write
<1>4. ASSUME NEW p \in Processes, Exit(p) PROVE FamilyInv'
  BY <1>4 DEF Exit
<1>5. ASSUME NEW p \in Processes, Die(p) PROVE FamilyInv'
  BY <1>5 DEF Die
<1> QED
  BY <1>1, <1>2, <1>3, <1>4, <1>5 DEF TreeStep

LEMMA FamilyRest ==
  ASSUME TypeOK, PlaceInv, FamilyInv, KillInv,
         (\E text \in Versions \cup {Missing} : Edit(text)) \/ UNCHANGED vars
  PROVE  FamilyInv'
<1> USE ProcessesAssumption DEF TypeOK, PlaceInv, FamilyInv, Early, Killing, Late, Processes, Alive, goto, pass, rest, unmoved, file, check, tree, pipe
<1>1. ASSUME NEW text \in Versions \cup {Missing}, Edit(text) PROVE FamilyInv'
  BY <1>1 DEF Edit
<1>2. CASE UNCHANGED vars
  BY <1>2 DEF vars
<1> QED
  BY <1>1, <1>2

-----------------------------------------------------------------------------
(* The killing.                                                            *)

LEMMA KillTask ==
  ASSUME TypeOK, PlaceInv, FamilyInv, KillInv, TaskStep
  PROVE  KillInv'
<1> USE ProcessesAssumption DEF TypeOK, PlaceInv, FamilyInv, KillInv, Early, Killing, Late, Processes, Alive, Listed, goto, pass, rest, unmoved, file, check, tree, pipe
<1>1. CASE Request
  BY <1>1 DEF Request
<1>2. CASE Approve
  BY <1>2 DEF Approve
<1>3. CASE Prepare
  BY <1>3 DEF Prepare
<1>4. CASE Resolve
  BY <1>4 DEF Resolve
<1>5. CASE Start
  BY <1>5 DEF Start
<1>6. CASE StartFails
  BY <1>6 DEF StartFails
<1>7. CASE WaitReturns
  BY <1>7 DEF WaitReturns
<1>8. CASE WaitExpires
  BY <1>8 DEF WaitExpires
<1>9. CASE ListTree
  BY <1>9 DEF ListTree, children
<1>10. ASSUME NEW h \in Helpers, KillChild(h) PROVE KillInv'
  BY <1>10 DEF KillChild
<1>11. ASSUME NEW h \in Helpers, KillRaises(h) PROVE KillInv'
  BY <1>11 DEF KillRaises
<1>12. CASE WaitProcs
  BY <1>12 DEF WaitProcs
<1>13. CASE KillRoot
  BY <1>13 DEF KillRoot
<1>14. CASE WaitAgain
  BY <1>14 DEF WaitAgain
<1>15. CASE WaitAgainExpires
  BY <1>15 DEF WaitAgainExpires
<1>16. CASE JoinReturns
  BY <1>16 DEF JoinReturns
<1>17. CASE JoinExpires
  BY <1>17 DEF JoinExpires
<1>18. CASE TakeOutput
  BY <1>18 DEF TakeOutput
<1>19. CASE Report
  BY <1>19 DEF Report
<1>20. ASSUME NEW h \in Helpers, KillDenied(h) PROVE KillInv'
  BY <1>20 DEF KillDenied
<1>21. CASE KillRootDenied
  BY <1>21 DEF KillRootDenied
<1> QED
  BY <1>1, <1>2, <1>3, <1>4, <1>5, <1>6, <1>7, <1>8, <1>9, <1>10, <1>11, <1>12, <1>13, <1>14, <1>15, <1>16, <1>17, <1>18, <1>19, <1>20, <1>21 DEF TaskStep, RunStep

LEMMA KillReader ==
  ASSUME TypeOK, PlaceInv, FamilyInv, KillInv, ReaderStep
  PROVE  KillInv'
<1> USE ProcessesAssumption DEF TypeOK, PlaceInv, FamilyInv, KillInv, Early, Killing, Late, Processes, Alive, Listed, goto, pass, rest, unmoved, file, check, tree, pipe
<1>1. CASE ReadChunk
  BY <1>1 DEF ReadChunk
<1>2. CASE ReadEnd
  BY <1>2 DEF ReadEnd
<1> QED
  BY <1>1, <1>2 DEF ReaderStep

LEMMA KillTree ==
  ASSUME TypeOK, PlaceInv, FamilyInv, KillInv, TreeStep
  PROVE  KillInv'
<1> USE ProcessesAssumption DEF TypeOK, PlaceInv, FamilyInv, KillInv, Early, Killing, Late, Processes, Alive, Listed, goto, pass, rest, unmoved, file, check, tree, pipe
<1>1. CASE ReadScript
  BY <1>1 DEF ReadScript
<1>2. ASSUME NEW p \in Processes, NEW h \in Helpers, Spawn(p, h) PROVE KillInv'
  BY <1>2 DEF Spawn
<1>3. ASSUME NEW p \in Processes, Write(p) PROVE KillInv'
  BY <1>3 DEF Write
<1>4. ASSUME NEW p \in Processes, Exit(p) PROVE KillInv'
  BY <1>4 DEF Exit
<1>5. ASSUME NEW p \in Processes, Die(p) PROVE KillInv'
  BY <1>5 DEF Die
<1> QED
  BY <1>1, <1>2, <1>3, <1>4, <1>5 DEF TreeStep

LEMMA KillRest ==
  ASSUME TypeOK, PlaceInv, FamilyInv, KillInv,
         (\E text \in Versions \cup {Missing} : Edit(text)) \/ UNCHANGED vars
  PROVE  KillInv'
<1> USE ProcessesAssumption DEF TypeOK, PlaceInv, FamilyInv, KillInv, Early, Killing, Late, Processes, Alive, Listed, goto, pass, rest, unmoved, file, check, tree, pipe
<1>1. ASSUME NEW text \in Versions \cup {Missing}, Edit(text) PROVE KillInv'
  BY <1>1 DEF Edit
<1>2. CASE UNCHANGED vars
  BY <1>2 DEF vars
<1> QED
  BY <1>1, <1>2

-----------------------------------------------------------------------------
(* The output.                                                             *)

LEMMA PipeTask ==
  ASSUME TypeOK, PlaceInv, KillInv, PipeInv, TaskStep
  PROVE  PipeInv'
<1> USE BoundsAssumption, ProcessesAssumption DEF TypeOK, PlaceInv, PipeInv, Early, Killing, Late, Processes, Alive, Holders, Lesser, goto, pass, rest, unmoved, file, check, tree, pipe
<1>1. CASE Request
  BY <1>1 DEF Request
<1>2. CASE Approve
  BY <1>2 DEF Approve
<1>3. CASE Prepare
  BY <1>3 DEF Prepare
<1>4. CASE Resolve
  BY <1>4 DEF Resolve
<1>5. CASE Start
  BY <1>5 DEF Start
<1>6. CASE StartFails
  BY <1>6 DEF StartFails
<1>7. CASE WaitReturns
  BY <1>7 DEF WaitReturns
<1>8. CASE WaitExpires
  BY <1>8 DEF WaitExpires
<1>9. CASE ListTree
  BY <1>9 DEF ListTree
<1>10. ASSUME NEW h \in Helpers, KillChild(h) PROVE PipeInv'
  BY <1>10 DEF KillChild, KillInv
<1>11. ASSUME NEW h \in Helpers, KillRaises(h) PROVE PipeInv'
  BY <1>11 DEF KillRaises
<1>12. CASE WaitProcs
  BY <1>12 DEF WaitProcs
<1>13. CASE KillRoot
  BY <1>13 DEF KillRoot
<1>14. CASE WaitAgain
  BY <1>14 DEF WaitAgain
<1>15. CASE WaitAgainExpires
  BY <1>15 DEF WaitAgainExpires
<1>16. CASE JoinReturns
  BY <1>16 DEF JoinReturns
<1>17. CASE JoinExpires
  BY <1>17 DEF JoinExpires
<1>18. CASE TakeOutput
  BY <1>18 DEF TakeOutput
<1>19. CASE Report
  BY <1>19 DEF Report
<1>20. ASSUME NEW h \in Helpers, KillDenied(h) PROVE PipeInv'
  BY <1>20 DEF KillDenied
<1>21. CASE KillRootDenied
  BY <1>21 DEF KillRootDenied
<1> QED
  BY <1>1, <1>2, <1>3, <1>4, <1>5, <1>6, <1>7, <1>8, <1>9, <1>10, <1>11, <1>12, <1>13, <1>14, <1>15, <1>16, <1>17, <1>18, <1>19, <1>20, <1>21 DEF TaskStep, RunStep

LEMMA PipeReader ==
  ASSUME TypeOK, PlaceInv, KillInv, PipeInv, ReaderStep
  PROVE  PipeInv'
<1> USE BoundsAssumption, ProcessesAssumption DEF TypeOK, PlaceInv, PipeInv, Early, Killing, Late, Processes, Alive, Holders, Lesser, goto, pass, rest, unmoved, file, check, tree, pipe
<1>1. CASE ReadChunk
  <2>1. Chunk \in Nat \ {0}
    BY <1>1 DEF ReadChunk, Pending, Chunk
  <2>2. captured' = Lesser(taken', MAX_OUTPUT_BYTES)
    BY <1>1, <2>1, KeepingFacts DEF ReadChunk
  <2>3. output_truncated' <=> taken > MAX_OUTPUT_BYTES \/ Chunk > MAX_OUTPUT_BYTES - captured
    BY <1>1 DEF ReadChunk
  <2>4. output_truncated' <=> taken' > MAX_OUTPUT_BYTES
    BY <1>1, <2>1, <2>3, KeepingFacts DEF ReadChunk
  <2> QED
    BY <1>1, <2>2, <2>4 DEF ReadChunk
<1>2. CASE ReadEnd
  BY <1>2 DEF ReadEnd, Pending
<1> QED
  BY <1>1, <1>2 DEF ReaderStep

LEMMA PipeTree ==
  ASSUME TypeOK, PlaceInv, KillInv, PipeInv, TreeStep
  PROVE  PipeInv'
<1> USE BoundsAssumption, ProcessesAssumption DEF TypeOK, PlaceInv, PipeInv, Early, Killing, Late, Processes, Alive, Holders, Lesser, goto, pass, rest, unmoved, file, check, tree, pipe
<1>1. CASE ReadScript
  BY <1>1 DEF ReadScript
<1>2. ASSUME NEW p \in Processes, NEW h \in Helpers, Spawn(p, h) PROVE PipeInv'
  BY <1>2 DEF Spawn
<1>3. ASSUME NEW p \in Processes, Write(p) PROVE PipeInv'
  BY <1>3 DEF Write
<1>4. ASSUME NEW p \in Processes, Exit(p) PROVE PipeInv'
  BY <1>4 DEF Exit
<1>5. ASSUME NEW p \in Processes, Die(p) PROVE PipeInv'
  BY <1>5 DEF Die
<1> QED
  BY <1>1, <1>2, <1>3, <1>4, <1>5 DEF TreeStep

LEMMA PipeRest ==
  ASSUME TypeOK, PlaceInv, KillInv, PipeInv,
         (\E text \in Versions \cup {Missing} : Edit(text)) \/ UNCHANGED vars
  PROVE  PipeInv'
<1> USE BoundsAssumption, ProcessesAssumption DEF TypeOK, PlaceInv, PipeInv, Early, Killing, Late, Processes, Alive, Holders, Lesser, goto, pass, rest, unmoved, file, check, tree, pipe
<1>1. ASSUME NEW text \in Versions \cup {Missing}, Edit(text) PROVE PipeInv'
  BY <1>1 DEF Edit
<1>2. CASE UNCHANGED vars
  BY <1>2 DEF vars
<1> QED
  BY <1>1, <1>2

-----------------------------------------------------------------------------
(* The result.                                                             *)

LEMMA ResultTask ==
  ASSUME TypeOK, PlaceInv, PipeInv, ResultInv, TaskStep
  PROVE  ResultInv'
<1> USE BoundsAssumption DEF TypeOK, PlaceInv, PipeInv, ResultInv, Early, Killing, Late, Processes, Alive, Holders, Lesser, goto, pass, rest, unmoved, file, check, tree, pipe
<1>1. CASE Request
  BY <1>1 DEF Request
<1>2. CASE Approve
  BY <1>2 DEF Approve
<1>3. CASE Prepare
  BY <1>3 DEF Prepare
<1>4. CASE Resolve
  BY <1>4 DEF Resolve
<1>5. CASE Start
  BY <1>5 DEF Start
<1>6. CASE StartFails
  BY <1>6 DEF StartFails
<1>7. CASE WaitReturns
  BY <1>7 DEF WaitReturns
<1>8. CASE WaitExpires
  BY <1>8 DEF WaitExpires
<1>9. CASE ListTree
  BY <1>9 DEF ListTree
<1>10. ASSUME NEW h \in Helpers, KillChild(h) PROVE ResultInv'
  BY <1>10 DEF KillChild
<1>11. ASSUME NEW h \in Helpers, KillRaises(h) PROVE ResultInv'
  BY <1>11 DEF KillRaises
<1>12. CASE WaitProcs
  BY <1>12 DEF WaitProcs
<1>13. CASE KillRoot
  BY <1>13 DEF KillRoot
<1>14. CASE WaitAgain
  BY <1>14 DEF WaitAgain
<1>15. CASE WaitAgainExpires
  BY <1>15 DEF WaitAgainExpires
<1>16. CASE JoinReturns
  BY <1>16 DEF JoinReturns
<1>17. CASE JoinExpires
  BY <1>17 DEF JoinExpires
<1>18. CASE TakeOutput
  BY <1>18 DEF TakeOutput
<1>19. CASE Report
  BY <1>19 DEF Report
<1>20. ASSUME NEW h \in Helpers, KillDenied(h) PROVE ResultInv'
  BY <1>20 DEF KillDenied
<1>21. CASE KillRootDenied
  BY <1>21 DEF KillRootDenied
<1> QED
  BY <1>1, <1>2, <1>3, <1>4, <1>5, <1>6, <1>7, <1>8, <1>9, <1>10, <1>11, <1>12, <1>13, <1>14, <1>15, <1>16, <1>17, <1>18, <1>19, <1>20, <1>21 DEF TaskStep, RunStep

LEMMA ResultReader ==
  ASSUME TypeOK, PlaceInv, PipeInv, ResultInv, ReaderStep
  PROVE  ResultInv'
<1> USE BoundsAssumption DEF TypeOK, PlaceInv, PipeInv, ResultInv, Early, Killing, Late, Processes, Alive, Holders, Lesser, goto, pass, rest, unmoved, file, check, tree, pipe
<1>1. CASE ReadChunk
  BY <1>1 DEF ReadChunk
<1>2. CASE ReadEnd
  BY <1>2 DEF ReadEnd
<1> QED
  BY <1>1, <1>2 DEF ReaderStep

LEMMA ResultTree ==
  ASSUME TypeOK, PlaceInv, PipeInv, ResultInv, TreeStep
  PROVE  ResultInv'
<1> USE BoundsAssumption DEF TypeOK, PlaceInv, PipeInv, ResultInv, Early, Killing, Late, Processes, Alive, Holders, Lesser, goto, pass, rest, unmoved, file, check, tree, pipe
<1>1. CASE ReadScript
  BY <1>1 DEF ReadScript
<1>2. ASSUME NEW p \in Processes, NEW h \in Helpers, Spawn(p, h) PROVE ResultInv'
  BY <1>2 DEF Spawn
<1>3. ASSUME NEW p \in Processes, Write(p) PROVE ResultInv'
  BY <1>3 DEF Write
<1>4. ASSUME NEW p \in Processes, Exit(p) PROVE ResultInv'
  BY <1>4 DEF Exit
<1>5. ASSUME NEW p \in Processes, Die(p) PROVE ResultInv'
  BY <1>5 DEF Die
<1> QED
  BY <1>1, <1>2, <1>3, <1>4, <1>5 DEF TreeStep

LEMMA ResultRest ==
  ASSUME TypeOK, PlaceInv, PipeInv, ResultInv,
         (\E text \in Versions \cup {Missing} : Edit(text)) \/ UNCHANGED vars
  PROVE  ResultInv'
<1> USE BoundsAssumption DEF TypeOK, PlaceInv, PipeInv, ResultInv, Early, Killing, Late, Processes, Alive, Holders, Lesser, goto, pass, rest, unmoved, file, check, tree, pipe
<1>1. ASSUME NEW text \in Versions \cup {Missing}, Edit(text) PROVE ResultInv'
  BY <1>1 DEF Edit
<1>2. CASE UNCHANGED vars
  BY <1>2 DEF vars
<1> QED
  BY <1>1, <1>2

-----------------------------------------------------------------------------
(* The theorems.                                                           *)

LEMMA InitInv == Init => Inv
<1> SUFFICES ASSUME Init PROVE Inv
  OBVIOUS
<1> USE NamesAssumption, ProcessesAssumption, BoundsAssumption
    DEF Init, Processes, Alive, NoResult
<1>1. TypeOK
  <2>1. /\ ancestors \in [Helpers -> SUBSET Processes]
        /\ proc \in [Processes -> {"unborn", "alive", "dying", "gone"}]
    OBVIOUS
  <2>2. result \in [output : 0..MAX_OUTPUT_BYTES, truncated : BOOLEAN]
    OBVIOUS
  <2> QED
    <3>1. /\ taken \in 0..written /\ written \in 0..MaxWritten
          /\ captured \in 0..MAX_OUTPUT_BYTES /\ edits \in 0..MaxEdits
      OBVIOUS
    <3>2. pc \in Places
      BY DEF Places
    <3> QED
      BY <2>1, <2>2, <3>1, <3>2 DEF TypeOK
<1>2. ApprovalInv /\ PlaceInv /\ FamilyInv /\ KillInv
  BY DEF ApprovalInv, PlaceInv, FamilyInv, KillInv, Killing
<1>3. PipeInv /\ ResultInv
  BY DEF PipeInv, ResultInv, Lesser
<1> QED
  BY <1>1, <1>2, <1>3 DEF Inv

LEMMA StepInv == Inv /\ [Next]_vars => Inv'
<1> SUFFICES ASSUME Inv, [Next]_vars PROVE Inv'
  OBVIOUS
<1> USE DEF Inv
<1>1. CASE TaskStep
  BY <1>1, TypeTask, ApprovalTask, PlaceTask, FamilyTask, KillTask, PipeTask, ResultTask
<1>2. CASE ReaderStep
  BY <1>2, TypeReader, ApprovalReader, PlaceReader, FamilyReader, KillReader, PipeReader,
     ResultReader
<1>3. CASE TreeStep
  BY <1>3, TypeTree, ApprovalTree, PlaceTree, FamilyTree, KillTree, PipeTree, ResultTree
<1>4. CASE (\E text \in Versions \cup {Missing} : Edit(text)) \/ UNCHANGED vars
  BY <1>4, TypeRest, ApprovalRest, PlaceRest, FamilyRest, KillRest, PipeRest, ResultRest
<1> QED
  BY <1>1, <1>2, <1>3, <1>4, NextSteps

LEMMA Invariance == Spec => []Inv
BY InitInv, StepInv, PTL DEF Spec

(* Types: above all, that the reader never keeps more than the cap.        *)
THEOREM Types == Spec => []TypeOK
<1>1. Inv => TypeOK
  BY DEF Inv
<1> QED
  BY <1>1, Invariance, PTL

(* Only the approved script is run, unless it was edited between the        *)
(* comparison and PowerShell's reading it.                                 *)
THEOREM ApprovedScript == Spec => []OnlyApprovedScriptRuns
<1>1. Inv => OnlyApprovedScriptRuns
  BY DEF Inv, ApprovalInv, OnlyApprovedScriptRuns
<1> QED
  BY <1>1, Invariance, PTL

(* After a timeout nothing of the tree is alive but what psutil could not   *)
(* know of, or was kept from killing.                                      *)
THEOREM TreeIsKilled == Spec => []TimeoutKillsTree
<1>1. Inv => TimeoutKillsTree
  BY DEF Inv, KillInv, TimeoutKillsTree, Processes
<1> QED
  BY <1>1, Invariance, PTL

(* What a result says of the output is so, with any chunk and any cap.     *)
THEOREM OutputAccounted == Spec => []OutputIsAccountedFor
<1>1. Inv => OutputIsAccountedFor
  BY DEF Inv, ResultInv, PlaceInv, OutputIsAccountedFor
<1> QED
  BY <1>1, Invariance, PTL
====
