------------------------- MODULE OrchestratorProofs -------------------------
(***************************************************************************)
(* Safety of Orchestrator for every set of runs, keys, paths and plans,    *)
(* and every bound.  The inductive invariant Inv ties the progress of a    *)
(* run (pc, index) to what its session still has pending (dirty,           *)
(* stepDirty) and to what the database shows of it.                        *)
(***************************************************************************)
EXTENDS Orchestrator, TLAPS

NotTaken == {"idle", "intake", "replayed", "refused", "duplicate"}
Before == {"created", "startPlanning", "plan", "saved", "startRunning"}
InStep == {"lock", "grant", "begin", "running", "release", "attach"}
Over == {"respond", "remember", "done", "locked", "crashed"}
Rest == Settled \ {"CANCELLED"}

(* Which task and which pending change a run has at each point of run().   *)
StageInv(r) ==
  /\ pc[r] \in NotTaken => task[r] = "absent"
  /\ pc[r] \notin NotTaken \cup {"locked", "crashed"} => task[r] # "absent"
  /\ pc[r] = "startPlanning" => dirty[r] = "PLANNING"
  /\ pc[r] = "startRunning" => dirty[r] = "RUNNING"
  /\ pc[r] = "close" => dirty[r] \in Rest
  /\ pc[r] = "respond" => task[r] \in Settled
  /\ pc[r] = "remember" => answer[r] \in Settled /\ key(r) # NoKey
  /\ pc[r] = "running" => writer = r
  /\ task[r] \in Rest => pc[r] \in Over

(* How far the plan has come.                                              *)
IndexInv(r) ==
  /\ Len(steps(r)) \in 0..MaxSteps
  /\ index[r] \in 0..Len(steps(r))
  /\ pc[r] \in NotTaken \cup Before => index[r] = 0
  /\ pc[r] = "saved" /\ ~plan[r].needsClarification => Len(steps(r)) > 0
  /\ pc[r] = "startRunning" => Len(steps(r)) > 0
  /\ pc[r] = "loop" => index[r] < Len(steps(r))
  /\ pc[r] \in InStep => index[r] > 0

(* What the database shows of the steps, and what is pending of the last.  *)
StepInv(r) ==
  /\ \A i \in 1..MaxSteps : i > index[r] =>
       planStep[r][i] = "none" /\ toolTask[r][i] = "none"
  /\ \A i \in 1..MaxSteps : i < index[r] =>
       planStep[r][i] = "COMPLETED" /\ toolTask[r][i] = "COMPLETED"
  /\ pc[r] \in InStep \cup {"loop", "close"} /\ index[r] > 0 =>
       planStep[r][index[r]] = "RUNNING"
  /\ pc[r] \in {"lock", "grant", "begin", "running"} => toolTask[r][index[r]] = "none"
  /\ pc[r] = "loop" /\ index[r] > 0 =>
       stepDirty[r] = "COMPLETED" /\ toolTask[r][index[r]] = "COMPLETED"
  /\ pc[r] = "close" /\ index[r] > 0 => stepDirty[r] # "clean"
  /\ pc[r] = "close" /\ dirty[r] = "COMPLETED" =>
       /\ index[r] = Len(steps(r)) /\ index[r] > 0
       /\ stepDirty[r] = "COMPLETED" /\ toolTask[r][index[r]] = "COMPLETED"
  /\ pc[r] = "close" /\ dirty[r] = "WAITING_APPROVAL" =>
       index[r] > 0 /\ stepDirty[r] = "WAITING_APPROVAL"
  /\ task[r] = "COMPLETED" =>
       /\ index[r] = Len(steps(r)) /\ index[r] > 0
       /\ planStep[r][index[r]] = "COMPLETED" /\ toolTask[r][index[r]] = "COMPLETED"
  /\ task[r] = "WAITING_APPROVAL" =>
       index[r] > 0 /\ planStep[r][index[r]] = "WAITING_APPROVAL"
  /\ task[r] \in Rest /\ index[r] > 0 => planStep[r][index[r]] # "RUNNING"

(* A cancellation under way has found a task.                              *)
CancelInv ==
  \A c \in Cancels : cancelPc[c] = "commit" =>
    cancelOf[c] \in Runs /\ task[cancelOf[c]] # "absent"

Inv ==
  /\ TypeOK
  /\ \A r \in Runs : StageInv(r) /\ IndexInv(r) /\ StepInv(r)
  /\ CancelInv
  /\ KeyExecutesOnce
  /\ RememberedAnswerIsSettled
  /\ EndedRunHoldsNoLease

-----------------------------------------------------------------------------
(* Facts about the sets the definitions are built from.                    *)

LEMMA StateFacts ==
  /\ {"CREATED", "PLANNING", "RUNNING", "FAILED", "CANCELLED", "COMPLETED",
      "WAITING_APPROVAL", "WAITING_CLARIFICATION"} \subseteq TaskState
  /\ "absent" \notin TaskState /\ "clean" \notin TaskState
  /\ Settled \subseteq TaskState /\ Rest \subseteq Settled
BY DEF TaskState, Settled, Rest

LEMMA LocationFacts ==
  {"intake", "created", "startPlanning", "plan", "saved", "startRunning", "loop",
   "lock", "grant", "begin", "running", "release", "attach", "close", "respond",
   "remember", "done", "replayed", "refused", "duplicate", "illegal", "locked",
   "crashed"} \subseteq Location
BY DEF Location, Terminal

LEMMA PlanFacts ==
  /\ \A p \in Plans \cup {NoPlan} : Len(p.steps) \in Nat
  /\ \A p \in Plans \cup {NoPlan} : p.steps # <<>> => Len(p.steps) > 0
  /\ Len(NoPlan.steps) = 0
BY PlansAssumption DEF NoPlan, Plan, Step

LEMMA PlanSteps == \A p \in Plans \cup {NoPlan} : p.steps \in Seq(Step)
<1>1. \A p \in Plan : p.steps \in Seq(Step)
  BY DEF Plan
<1>2. NoPlan.steps \in Seq(Step)
  BY DEF NoPlan
<1> QED
  BY <1>1, <1>2, PlansAssumption

LEMMA HeldKeysFacts ==
  ASSUME TypeOK, NEW r \in Runs, IndexInv(r), pc[r] \in InStep
  PROVE  held_keys(r) \subseteq Paths
<1>1. NoPlan \in Plan
  BY DEF NoPlan, Plan
<1>2. plan[r] \in Plan
  BY <1>1, PlansAssumption DEF TypeOK
<1>3. current(r) \in Step
  BY <1>2 DEF IndexInv, current, steps, Plan, InStep
<1> QED
  BY <1>3 DEF held_keys, lock_keys, Step

LEMMA ResultFacts ==
  ASSUME NEW s, NEW outcome \in ToolStatus \cup {"none"}
  PROVE  /\ StepResults(s, outcome) \subseteq ToolStatus
         /\ ToolOutcomes(s) \subseteq ToolStatus
         /\ "COMPLETED" \in StepResults(s, outcome) => outcome = "COMPLETED"
BY DEF StepResults, ToolOutcomes, ToolStatus

LEMMA KeyFacts ==
  ASSUME TypeOK, NEW r \in Runs
  PROVE  /\ key(r) \in Keys \cup {NoKey}
         /\ key(r) # NoKey => key(r) \in Keys
         /\ request[r].body \in Bodies
BY RequestsAssumption, KeysAssumption DEF TypeOK, key, Bodies

-----------------------------------------------------------------------------
(* Inv is inductive.                                                       *)

LEMMA InitInv == Init => Inv
<1> SUFFICES ASSUME Init PROVE Inv
  OBVIOUS
<1> USE DEF Init
<1>1. TypeOK
  BY BoundsAssumption, RequestsAssumption
     DEF TypeOK, NoRecord, Answer, Location, Terminal, NoPlan
<1>2. \A r \in Runs : StageInv(r) /\ IndexInv(r) /\ StepInv(r)
  BY PlanFacts, BoundsAssumption
     DEF StageInv, IndexInv, StepInv, steps, NoPlan, NotTaken, Before, InStep, Rest, Settled
<1>3. CancelInv
  BY DEF CancelInv
<1>4. KeyExecutesOnce /\ RememberedAnswerIsSettled /\ EndedRunHoldsNoLease
  BY DEF KeyExecutesOnce, RememberedAnswerIsSettled, EndedRunHoldsNoLease
<1> QED
  BY <1>1, <1>2, <1>3, <1>4 DEF Inv

LEMMA TransitionType ==
  ASSUME TypeOK, NEW r \in Runs, NEW from, NEW state \in TaskState, NEW to \in Location,
         transition(r, from, state, to)
  PROVE  /\ pc' \in [Runs -> Location]
         /\ dirty' \in [Runs -> TaskState \cup {"clean"}]
<1>1. CASE goto(r, from, to) /\ dirty' = [dirty EXCEPT ![r] = state]
  BY <1>1 DEF TypeOK, goto
<1>2. CASE goto(r, from, "illegal") /\ UNCHANGED dirty
  BY <1>2, LocationFacts DEF TypeOK, goto
<1> QED
  BY <1>1, <1>2 DEF transition

LEMMA TypeStep ==
  ASSUME Inv, NEW r \in Runs, Submit(r) \/ RunStep(r)
  PROVE  TypeOK'
<1> USE DEF TypeOK, db, cancels, goto
<1>0. TypeOK /\ StageInv(r) /\ IndexInv(r) /\ StepInv(r)
  BY DEF Inv
<1>1. CASE Replay(r)
  BY <1>0, <1>1, LocationFacts, KeyFacts DEF Replay, Remembered
<1>2. CASE RefuseReusedKey(r)
  BY <1>0, <1>2, LocationFacts, StateFacts DEF RefuseReusedKey
<1>3. CASE Accept(r)
  BY <1>0, <1>3, LocationFacts, StateFacts DEF Accept
<1>4. CASE Intake(r)
  <2>1. CASE task' = [task EXCEPT ![r] = "CREATED"] /\ goto(r, "intake", "created")
    BY <1>0, <1>4, <2>1, LocationFacts, StateFacts DEF Intake
  <2>2. CASE UNCHANGED task /\ goto(r, "intake", "duplicate")
    BY <1>0, <1>4, <2>2, LocationFacts DEF Intake
  <2> QED
    BY <1>4, <2>1, <2>2 DEF Intake
<1>5. CASE StartPlanning(r)
  BY <1>0, <1>5, LocationFacts, StateFacts, TransitionType DEF StartPlanning
<1>6. CASE CommitPlanning(r)
  BY <1>0, <1>6, LocationFacts, StateFacts DEF CommitPlanning, CommitState, StageInv
<1>7. CASE PlanRejected(r)
  BY <1>0, <1>7, LocationFacts, StateFacts, TransitionType DEF PlanRejected
<1>8. CASE SavePlan(r)
  BY <1>0, <1>8, LocationFacts, StateFacts DEF SavePlan
<1>9. CASE AskClarification(r)
  BY <1>0, <1>9, LocationFacts, StateFacts, TransitionType DEF AskClarification
<1>10. CASE Queue(r)
  <2>1. CASE dirty' = [dirty EXCEPT ![r] = "RUNNING"] /\ goto(r, "saved", "startRunning")
    BY <1>0, <1>10, <2>1, LocationFacts, StateFacts DEF Queue
  <2>2. CASE UNCHANGED dirty /\ goto(r, "saved", "illegal")
    BY <1>0, <1>10, <2>2, LocationFacts DEF Queue
  <2> QED
    BY <1>10, <2>1, <2>2 DEF Queue
<1>11. CASE CommitRunning(r)
  BY <1>0, <1>11, LocationFacts, StateFacts DEF CommitRunning, CommitState, StageInv
<1>12. CASE BlockStep(r)
  BY <1>0, <1>12, LocationFacts, StateFacts DEF BlockStep
<1>13. CASE StartStep(r)
  <2>1. planStep' \in [Runs -> [1..MaxSteps -> ToolStatus \cup {"none", "RUNNING"}]]
    <3>1. \A i \in 1..MaxSteps : i = index[r] => stepDirty[r] \in ToolStatus
      BY <1>0, <1>13 DEF StartStep, IndexInv, StepInv, ToolStatus
    <3> DEFINE row == [i \in 1..MaxSteps |-> IF i = index[r] + 1 THEN "RUNNING"
                         ELSE IF i = index[r] THEN stepDirty[r] ELSE planStep[r][i]]
    <3>2. planStep[r] \in [1..MaxSteps -> ToolStatus \cup {"none", "RUNNING"}]
      BY <1>0
    <3>4. row \in [1..MaxSteps -> ToolStatus \cup {"none", "RUNNING"}]
      BY <3>1, <3>2
    <3>3. planStep' = [planStep EXCEPT ![r] = row]
      BY <1>0, <1>13 DEF StartStep
    <3> HIDE DEF row
    <3> QED
      BY <1>0, <3>4, <3>3
  <2>2. index' \in [Runs -> 0..MaxSteps]
    BY <1>0, <1>13, BoundsAssumption DEF StartStep, IndexInv
  <2> QED
    BY <1>0, <1>13, <2>1, <2>2, LocationFacts DEF StartStep
<1>14. CASE CheckLeases(r)
  BY <1>0, <1>14, LocationFacts, StateFacts DEF CheckLeases
<1>15. CASE LeaseConflict(r)
  BY <1>0, <1>15, LocationFacts, StateFacts, TransitionType DEF LeaseConflict, ToolStatus
<1>16. CASE GrantLeases(r)
  BY <1>0, <1>16, LocationFacts, HeldKeysFacts DEF GrantLeases, InStep
<1>17. CASE BeginTool(r)
  BY <1>0, <1>17, LocationFacts, StateFacts DEF BeginTool
<1>18. CASE RefuseArguments(r)
  BY <1>0, <1>18, LocationFacts, StateFacts DEF RefuseArguments
<1>19. CASE EndTool(r)
  <2>1. PICK outcome \in ToolOutcomes(current(r)) :
           toolTask' = [toolTask EXCEPT ![r][index[r]] = outcome]
    BY <1>19 DEF EndTool
  <2>2. outcome \in ToolStatus
    BY ResultFacts
  <2>3. toolTask' \in [Runs -> [1..MaxSteps -> ToolStatus \cup {"none"}]]
    BY <1>0, <2>1, <2>2
  <2> QED
    BY <1>0, <1>19, <2>3, LocationFacts DEF EndTool
<1>20. CASE Release(r)
  BY <1>0, <1>20, LocationFacts, StateFacts DEF Release
<1>21. CASE Attach(r)
  <2>1. PICK status \in StepResults(current(r), toolTask[r][index[r]]) :
           /\ stepDirty' = [stepDirty EXCEPT ![r] = status]
           /\ \/ goto(r, "attach", "loop") /\ UNCHANGED dirty
              \/ transition(r, "attach", "COMPLETED", "close")
              \/ transition(r, "attach", "WAITING_APPROVAL", "close")
              \/ transition(r, "attach", "FAILED", "close")
    BY <1>21 DEF Attach
  <2>2. toolTask[r][index[r]] \in ToolStatus \cup {"none"}
    <3>1. pc[r] = "attach"
      BY <1>21 DEF Attach
    <3>2. index[r] \in 1..MaxSteps
      BY <1>0, <3>1, BoundsAssumption DEF IndexInv, InStep
    <3>3. toolTask[r] \in [1..MaxSteps -> ToolStatus \cup {"none"}]
      BY <1>0
    <3> QED
      BY <3>2, <3>3
  <2>3. status \in ToolStatus
    BY <2>1, <2>2, ResultFacts
  <2>4. pc' \in [Runs -> Location] /\ dirty' \in [Runs -> TaskState \cup {"clean"}]
    <3>1. CASE goto(r, "attach", "loop") /\ UNCHANGED dirty
      BY <1>0, <3>1, LocationFacts
    <3>2. CASE transition(r, "attach", "COMPLETED", "close")
      BY <1>0, <3>2, LocationFacts, StateFacts, TransitionType
    <3>3. CASE transition(r, "attach", "WAITING_APPROVAL", "close")
      BY <1>0, <3>3, LocationFacts, StateFacts, TransitionType
    <3>4. CASE transition(r, "attach", "FAILED", "close")
      BY <1>0, <3>4, LocationFacts, StateFacts, TransitionType
    <3> QED
      BY <2>1, <3>1, <3>2, <3>3, <3>4
  <2> QED
    BY <1>0, <1>21, <2>1, <2>3, <2>4 DEF Attach
<1>22. CASE Close(r)
  BY <1>0, <1>22, LocationFacts, StateFacts DEF Close, StageInv
<1>23. CASE Respond(r)
  BY <1>0, <1>23, LocationFacts DEF Respond, Answer
<1>24. CASE Remember(r)
  BY <1>0, <1>24, LocationFacts, KeyFacts DEF Remember, Remembered
<1>25. CASE Busy(r)
  BY <1>0, <1>25, LocationFacts, StateFacts DEF Busy
<1> QED
  BY <1>1, <1>2, <1>3, <1>4, <1>5, <1>6, <1>7, <1>8, <1>9, <1>10, <1>11, <1>12,
     <1>13, <1>14, <1>15, <1>16, <1>17, <1>18, <1>19, <1>20, <1>21, <1>22, <1>23,
     <1>24, <1>25 DEF Submit, RunStep

(* A step of one run leaves the session and the rows of every other alone. *)

LEMMA FrameStep ==
  ASSUME Inv, NEW r \in Runs, Submit(r) \/ RunStep(r)
  PROVE  \A s \in Runs \ {r} :
           /\ task'[s] = task[s] /\ plan'[s] = plan[s] /\ planStep'[s] = planStep[s]
           /\ toolTask'[s] = toolTask[s] /\ lease'[s] = lease[s]
           /\ pc'[s] = pc[s] /\ index'[s] = index[s] /\ dirty'[s] = dirty[s]
           /\ stepDirty'[s] = stepDirty[s] /\ answer'[s] = answer[s]
           /\ request' = request
           /\ writer = s => writer' = s
<1> USE DEF TypeOK, db, goto, transition
<1>0. TypeOK /\ StageInv(r)
  BY DEF Inv
<1>1. CASE Replay(r)
  BY <1>0, <1>1 DEF Replay
<1>2. CASE RefuseReusedKey(r)
  BY <1>0, <1>2 DEF RefuseReusedKey
<1>3. CASE Accept(r)
  BY <1>0, <1>3 DEF Accept
<1>4. CASE Intake(r)
  BY <1>0, <1>4 DEF Intake
<1>5. CASE StartPlanning(r)
  BY <1>0, <1>5 DEF StartPlanning
<1>6. CASE CommitPlanning(r)
  BY <1>0, <1>6 DEF CommitPlanning, CommitState
<1>7. CASE PlanRejected(r)
  BY <1>0, <1>7 DEF PlanRejected
<1>8. CASE SavePlan(r)
  BY <1>0, <1>8 DEF SavePlan
<1>9. CASE AskClarification(r)
  BY <1>0, <1>9 DEF AskClarification
<1>10. CASE Queue(r)
  BY <1>0, <1>10 DEF Queue
<1>11. CASE CommitRunning(r)
  BY <1>0, <1>11 DEF CommitRunning, CommitState
<1>12. CASE BlockStep(r)
  BY <1>0, <1>12 DEF BlockStep
<1>13. CASE StartStep(r)
  BY <1>0, <1>13 DEF StartStep
<1>14. CASE CheckLeases(r)
  BY <1>0, <1>14 DEF CheckLeases
<1>15. CASE LeaseConflict(r)
  BY <1>0, <1>15 DEF LeaseConflict
<1>16. CASE GrantLeases(r)
  BY <1>0, <1>16 DEF GrantLeases
<1>17. CASE BeginTool(r)
  BY <1>0, <1>17, RunsAssumption DEF BeginTool, CanWrite
<1>18. CASE RefuseArguments(r)
  BY <1>0, <1>18 DEF RefuseArguments
<1>19. CASE EndTool(r)
  BY <1>0, <1>19 DEF EndTool, StageInv
<1>20. CASE Release(r)
  BY <1>0, <1>20 DEF Release
<1>21. CASE Attach(r)
  BY <1>0, <1>21 DEF Attach
<1>22. CASE Close(r)
  BY <1>0, <1>22 DEF Close
<1>23. CASE Respond(r)
  BY <1>0, <1>23 DEF Respond
<1>24. CASE Remember(r)
  BY <1>0, <1>24 DEF Remember
<1>25. CASE Busy(r)
  BY <1>0, <1>25 DEF Busy
<1> QED
  BY <1>1, <1>2, <1>3, <1>4, <1>5, <1>6, <1>7, <1>8, <1>9, <1>10, <1>11, <1>12,
     <1>13, <1>14, <1>15, <1>16, <1>17, <1>18, <1>19, <1>20, <1>21, <1>22, <1>23,
     <1>24, <1>25 DEF Submit, RunStep

(* The stage, the index and the steps of the run that takes the step.      *)

LEMMA StageStep ==
  ASSUME Inv, NEW r \in Runs, Submit(r) \/ RunStep(r)
  PROVE  StageInv(r)'
<1> USE DEF TypeOK, StageInv, db, goto, transition, key, NotTaken, Over, Rest, Settled
<1>0. TypeOK /\ StageInv(r) /\ IndexInv(r) /\ StepInv(r)
  BY DEF Inv
<1>1. CASE Replay(r)
  BY <1>0, <1>1, StateFacts DEF Replay
<1>2. CASE RefuseReusedKey(r)
  BY <1>0, <1>2, StateFacts DEF RefuseReusedKey
<1>3. CASE Accept(r)
  BY <1>0, <1>3, StateFacts DEF Accept
<1>4. CASE Intake(r)
  BY <1>0, <1>4, StateFacts DEF Intake
<1>5. CASE StartPlanning(r)
  BY <1>0, <1>5, StateFacts DEF StartPlanning
<1>6. CASE CommitPlanning(r)
  BY <1>0, <1>6, StateFacts DEF CommitPlanning, CommitState
<1>7. CASE PlanRejected(r)
  BY <1>0, <1>7, StateFacts DEF PlanRejected
<1>8. CASE SavePlan(r)
  BY <1>0, <1>8, PlanFacts DEF SavePlan
<1>9. CASE AskClarification(r)
  BY <1>0, <1>9, StateFacts DEF AskClarification
<1>10. CASE Queue(r)
  BY <1>0, <1>10, StateFacts DEF Queue
<1>11. CASE CommitRunning(r)
  BY <1>0, <1>11, StateFacts DEF CommitRunning, CommitState
<1>12. CASE BlockStep(r)
  BY <1>0, <1>12, StateFacts DEF BlockStep
<1>13. CASE StartStep(r)
  BY <1>0, <1>13, StateFacts DEF StartStep
<1>14. CASE CheckLeases(r)
  BY <1>0, <1>14, StateFacts DEF CheckLeases
<1>15. CASE LeaseConflict(r)
  BY <1>0, <1>15, StateFacts DEF LeaseConflict
<1>16. CASE GrantLeases(r)
  BY <1>0, <1>16, StateFacts DEF GrantLeases
<1>17. CASE BeginTool(r)
  BY <1>0, <1>17, StateFacts DEF BeginTool
<1>18. CASE RefuseArguments(r)
  BY <1>0, <1>18, StateFacts DEF RefuseArguments
<1>19. CASE EndTool(r)
  BY <1>0, <1>19, StateFacts DEF EndTool
<1>20. CASE Release(r)
  BY <1>0, <1>20, StateFacts DEF Release
<1>21. CASE Attach(r)
  BY <1>0, <1>21, StateFacts DEF Attach
<1>22. CASE Close(r)
  BY <1>0, <1>22, StateFacts DEF Close
<1>23. CASE Respond(r)
  BY <1>0, <1>23, StateFacts DEF Respond
<1>24. CASE Remember(r)
  BY <1>0, <1>24, StateFacts DEF Remember
<1>25. CASE Busy(r)
  BY <1>0, <1>25, StateFacts DEF Busy
<1> QED
  BY <1>1, <1>2, <1>3, <1>4, <1>5, <1>6, <1>7, <1>8, <1>9, <1>10, <1>11, <1>12,
     <1>13, <1>14, <1>15, <1>16, <1>17, <1>18, <1>19, <1>20, <1>21, <1>22, <1>23,
     <1>24, <1>25 DEF Submit, RunStep

LEMMA IndexStep ==
  ASSUME Inv, NEW r \in Runs, Submit(r) \/ RunStep(r)
  PROVE  IndexInv(r)'
<1> USE DEF TypeOK, IndexInv, db, goto, transition, steps, NotTaken, Before, InStep
<1>0. TypeOK /\ StageInv(r) /\ IndexInv(r) /\ StepInv(r)
  BY DEF Inv
<1> USE BoundsAssumption
<1>1. CASE Replay(r)
  BY <1>0, <1>1 DEF Replay
<1>2. CASE RefuseReusedKey(r)
  BY <1>0, <1>2 DEF RefuseReusedKey
<1>3. CASE Accept(r)
  BY <1>0, <1>3 DEF Accept
<1>4. CASE Intake(r)
  BY <1>0, <1>4 DEF Intake
<1>5. CASE StartPlanning(r)
  BY <1>0, <1>5 DEF StartPlanning
<1>6. CASE CommitPlanning(r)
  BY <1>0, <1>6 DEF CommitPlanning, CommitState
<1>7. CASE PlanRejected(r)
  BY <1>0, <1>7 DEF PlanRejected
<1>8. CASE SavePlan(r)
  BY <1>0, <1>8, PlanFacts DEF SavePlan, validate
<1>9. CASE AskClarification(r)
  BY <1>0, <1>9 DEF AskClarification
<1>10. CASE Queue(r)
  BY <1>0, <1>10 DEF Queue
<1>11. CASE CommitRunning(r)
  BY <1>0, <1>11 DEF CommitRunning, CommitState
<1>12. CASE BlockStep(r)
  BY <1>0, <1>12 DEF BlockStep
<1>13. CASE StartStep(r)
  BY <1>0, <1>13 DEF StartStep
<1>14. CASE CheckLeases(r)
  BY <1>0, <1>14 DEF CheckLeases
<1>15. CASE LeaseConflict(r)
  BY <1>0, <1>15 DEF LeaseConflict
<1>16. CASE GrantLeases(r)
  BY <1>0, <1>16 DEF GrantLeases
<1>17. CASE BeginTool(r)
  BY <1>0, <1>17 DEF BeginTool
<1>18. CASE RefuseArguments(r)
  BY <1>0, <1>18 DEF RefuseArguments
<1>19. CASE EndTool(r)
  BY <1>0, <1>19 DEF EndTool
<1>20. CASE Release(r)
  BY <1>0, <1>20 DEF Release
<1>21. CASE Attach(r)
  BY <1>0, <1>21 DEF Attach
<1>22. CASE Close(r)
  BY <1>0, <1>22 DEF Close
<1>23. CASE Respond(r)
  BY <1>0, <1>23 DEF Respond
<1>24. CASE Remember(r)
  BY <1>0, <1>24 DEF Remember
<1>25. CASE Busy(r)
  BY <1>0, <1>25 DEF Busy
<1> QED
  BY <1>1, <1>2, <1>3, <1>4, <1>5, <1>6, <1>7, <1>8, <1>9, <1>10, <1>11, <1>12,
     <1>13, <1>14, <1>15, <1>16, <1>17, <1>18, <1>19, <1>20, <1>21, <1>22, <1>23,
     <1>24, <1>25 DEF Submit, RunStep

LEMMA StepStep ==
  ASSUME Inv, NEW r \in Runs, Submit(r) \/ RunStep(r)
  PROVE  StepInv(r)'
<1> USE DEF TypeOK, StepInv, StageInv, IndexInv, db, goto, transition, steps,
       NotTaken, Before, InStep, Over, Rest, Settled
<1>0. TypeOK /\ StageInv(r) /\ IndexInv(r) /\ StepInv(r)
  BY DEF Inv
<1> USE BoundsAssumption
<1>1. CASE Replay(r)
  BY <1>0, <1>1 DEF Replay
<1>2. CASE RefuseReusedKey(r)
  BY <1>0, <1>2 DEF RefuseReusedKey
<1>3. CASE Accept(r)
  BY <1>0, <1>3 DEF Accept
<1>4. CASE Intake(r)
  BY <1>0, <1>4 DEF Intake
<1>5. CASE StartPlanning(r)
  BY <1>0, <1>5 DEF StartPlanning
<1>6. CASE CommitPlanning(r)
  BY <1>0, <1>6 DEF CommitPlanning, CommitState
<1>7. CASE PlanRejected(r)
  BY <1>0, <1>7 DEF PlanRejected
<1>8. CASE SavePlan(r)
  BY <1>0, <1>8, PlanFacts DEF SavePlan, validate
<1>9. CASE AskClarification(r)
  BY <1>0, <1>9 DEF AskClarification
<1>10. CASE Queue(r)
  BY <1>0, <1>10 DEF Queue
<1>11. CASE CommitRunning(r)
  BY <1>0, <1>11 DEF CommitRunning, CommitState
<1>12. CASE BlockStep(r)
  BY <1>0, <1>12 DEF BlockStep
<1>13. CASE StartStep(r)
  BY <1>0, <1>13 DEF StartStep
<1>14. CASE CheckLeases(r)
  BY <1>0, <1>14 DEF CheckLeases
<1>15. CASE LeaseConflict(r)
  BY <1>0, <1>15 DEF LeaseConflict
<1>16. CASE GrantLeases(r)
  BY <1>0, <1>16 DEF GrantLeases
<1>17. CASE BeginTool(r)
  BY <1>0, <1>17 DEF BeginTool
<1>18. CASE RefuseArguments(r)
  BY <1>0, <1>18 DEF RefuseArguments
<1>19. CASE EndTool(r)
  BY <1>0, <1>19 DEF EndTool
<1>20. CASE Release(r)
  BY <1>0, <1>20 DEF Release
<1>21. CASE Attach(r)
  <2>1. PICK status \in StepResults(current(r), toolTask[r][index[r]]) :
           /\ stepDirty' = [stepDirty EXCEPT ![r] = status]
           /\ \/ /\ status = "COMPLETED" /\ index[r] < Len(steps(r))
                 /\ goto(r, "attach", "loop") /\ UNCHANGED dirty
              \/ /\ status = "COMPLETED" /\ index[r] = Len(steps(r))
                 /\ transition(r, "attach", "COMPLETED", "close")
              \/ /\ status = "WAITING_APPROVAL"
                 /\ transition(r, "attach", "WAITING_APPROVAL", "close")
              \/ /\ status \notin {"COMPLETED", "WAITING_APPROVAL"}
                 /\ transition(r, "attach", "FAILED", "close")
    BY <1>21 DEF Attach
  <2>2. /\ pc[r] = "attach" /\ index[r] \in 1..MaxSteps
        /\ toolTask[r] \in [1..MaxSteps -> ToolStatus \cup {"none"}]
    BY <1>0, <1>21 DEF Attach
  <2>3. toolTask[r][index[r]] \in ToolStatus \cup {"none"}
    BY <2>2
  <2>4. status = "COMPLETED" => toolTask[r][index[r]] = "COMPLETED"
    BY <2>1, <2>3, ResultFacts
  <2>5. status # "clean"
    BY <2>1, <2>3, ResultFacts DEF ToolStatus
  <2>6. UNCHANGED <<request, task, plan, planStep, toolTask, index>>
    BY <1>21 DEF Attach
  <2>7. stepDirty'[r] = status
    BY <1>0, <2>1
  <2> QED
    BY <1>0, <2>1, <2>2, <2>4, <2>5, <2>6, <2>7
<1>22. CASE Close(r)
  <2>1. /\ pc[r] = "close" /\ pc'[r] = "respond" /\ task'[r] = dirty[r]
        /\ UNCHANGED <<plan, toolTask, index>>
    BY <1>0, <1>22 DEF Close
  <2>2. planStep[r] \in [1..MaxSteps -> ToolStatus \cup {"none", "RUNNING"}]
    BY <1>0
  <2>3. \A i \in 1..MaxSteps : planStep'[r][i] =
          IF i = index[r] /\ stepDirty[r] # "clean" THEN stepDirty[r] ELSE planStep[r][i]
    BY <1>0, <2>2, <1>22 DEF Close
  <2>4. stepDirty[r] # "RUNNING"
    BY <1>0 DEF ToolStatus
  <2>5. index[r] > 0 => index[r] \in 1..MaxSteps
    BY <1>0
  <2>6. index[r] > 0 => planStep'[r][index[r]] = stepDirty[r]
    BY <1>0, <2>1, <2>3, <2>5
  <2>7. \A i \in 1..MaxSteps : i # index[r] => planStep'[r][i] = planStep[r][i]
    BY <2>3
  <2> HIDE DEF TypeOK
  <2>8. /\ \A i \in 1..MaxSteps : i > index'[r] =>
             planStep'[r][i] = "none" /\ toolTask'[r][i] = "none"
        /\ \A i \in 1..MaxSteps : i < index'[r] =>
             planStep'[r][i] = "COMPLETED" /\ toolTask'[r][i] = "COMPLETED"
    BY <1>0, <2>1, <2>7
  <2>9. task'[r] = "COMPLETED" =>
          /\ index'[r] = Len(steps(r)') /\ index'[r] > 0
          /\ planStep'[r][index'[r]] = "COMPLETED"
          /\ toolTask'[r][index'[r]] = "COMPLETED"
    BY <1>0, <2>1, <2>6
  <2>10. task'[r] = "WAITING_APPROVAL" =>
           index'[r] > 0 /\ planStep'[r][index'[r]] = "WAITING_APPROVAL"
    BY <1>0, <2>1, <2>6
  <2>11. index'[r] > 0 => planStep'[r][index'[r]] # "RUNNING"
    BY <1>0, <2>1, <2>4, <2>6
  <2> QED
    BY <2>1, <2>8, <2>9, <2>10, <2>11
<1>23. CASE Respond(r)
  BY <1>0, <1>23 DEF Respond
<1>24. CASE Remember(r)
  BY <1>0, <1>24 DEF Remember
<1>25. CASE Busy(r)
  BY <1>0, <1>25 DEF Busy
<1> QED
  BY <1>1, <1>2, <1>3, <1>4, <1>5, <1>6, <1>7, <1>8, <1>9, <1>10, <1>11, <1>12,
     <1>13, <1>14, <1>15, <1>16, <1>17, <1>18, <1>19, <1>20, <1>21, <1>22, <1>23,
     <1>24, <1>25 DEF Submit, RunStep

(* Tasks are created by Intake only, for a key that has none, and they do  *)
(* not go away.                                                            *)

LEMMA TaskStep ==
  ASSUME Inv, NEW r \in Runs, Submit(r) \/ RunStep(r)
  PROVE  /\ \A s \in Runs : task[s] # "absent" => task'[s] # "absent"
         /\ \A s \in Runs : pc[s] = "done" => pc'[s] = "done"
         /\ UNCHANGED <<request, cancels>>
         /\ KeyExecutesOnce' 
<1> USE DEF TypeOK, StageInv, db, goto, transition, key, NotTaken, Rest
<1>0. TypeOK /\ StageInv(r) /\ KeyExecutesOnce
  BY DEF Inv
<1> USE DEF KeyExecutesOnce
<1>1. CASE Replay(r)
  BY <1>0, <1>1 DEF Replay
<1>2. CASE RefuseReusedKey(r)
  BY <1>0, <1>2 DEF RefuseReusedKey
<1>3. CASE Accept(r)
  BY <1>0, <1>3 DEF Accept
<1>4. CASE Intake(r)
  <2>1. CASE task' = [task EXCEPT ![r] = "CREATED"] /\ ~KeyTaken(r)
    <3>1. \A s \in Runs : task[s] # "absent" /\ request[s].key = request[r].key
                            => request[r].key = NoKey
      BY <2>1 DEF KeyTaken
    <3>2. \A s \in Runs : s # r => task'[s] = task[s]
      BY <1>0, <2>1
    <3>3. UNCHANGED request
      BY <1>4 DEF Intake
    <3>4. KeyExecutesOnce'
      <4> HIDE DEF TypeOK, StageInv
      <4>1. SUFFICES ASSUME NEW a \in Runs, NEW b \in Runs, task'[a] # "absent",
                            task'[b] # "absent", request[a].key = request[b].key,
                            request[a].key # NoKey, a # b
                     PROVE  FALSE
        BY <3>3
      <4>2. CASE a # r /\ b # r
        BY <1>0, <3>2, <4>1, <4>2
      <4>3. CASE a = r \/ b = r
        BY <3>1, <3>2, <4>1, <4>3
      <4> QED
        BY <4>2, <4>3
    <3> QED
      BY <1>0, <1>4, <2>1, <3>4 DEF Intake
  <2>2. CASE UNCHANGED task
    BY <1>0, <1>4, <2>2 DEF Intake
  <2> QED
    BY <1>4, <2>1, <2>2 DEF Intake
<1>5. CASE StartPlanning(r)
  BY <1>0, <1>5 DEF StartPlanning
<1>6. CASE CommitPlanning(r)
  BY <1>0, <1>6, StateFacts DEF CommitPlanning, CommitState
<1>7. CASE PlanRejected(r)
  BY <1>0, <1>7 DEF PlanRejected
<1>8. CASE SavePlan(r)
  BY <1>0, <1>8 DEF SavePlan
<1>9. CASE AskClarification(r)
  BY <1>0, <1>9 DEF AskClarification
<1>10. CASE Queue(r)
  BY <1>0, <1>10 DEF Queue
<1>11. CASE CommitRunning(r)
  BY <1>0, <1>11, StateFacts DEF CommitRunning, CommitState
<1>12. CASE BlockStep(r)
  BY <1>0, <1>12 DEF BlockStep
<1>13. CASE StartStep(r)
  BY <1>0, <1>13 DEF StartStep
<1>14. CASE CheckLeases(r)
  BY <1>0, <1>14 DEF CheckLeases
<1>15. CASE LeaseConflict(r)
  BY <1>0, <1>15 DEF LeaseConflict
<1>16. CASE GrantLeases(r)
  BY <1>0, <1>16 DEF GrantLeases
<1>17. CASE BeginTool(r)
  BY <1>0, <1>17 DEF BeginTool
<1>18. CASE RefuseArguments(r)
  BY <1>0, <1>18 DEF RefuseArguments
<1>19. CASE EndTool(r)
  BY <1>0, <1>19 DEF EndTool
<1>20. CASE Release(r)
  BY <1>0, <1>20 DEF Release
<1>21. CASE Attach(r)
  BY <1>0, <1>21 DEF Attach
<1>22. CASE Close(r)
  BY <1>0, <1>22, StateFacts DEF Close
<1>23. CASE Respond(r)
  BY <1>0, <1>23 DEF Respond
<1>24. CASE Remember(r)
  BY <1>0, <1>24 DEF Remember
<1>25. CASE Busy(r)
  BY <1>0, <1>25 DEF Busy
<1> QED
  BY <1>1, <1>2, <1>3, <1>4, <1>5, <1>6, <1>7, <1>8, <1>9, <1>10, <1>11, <1>12,
     <1>13, <1>14, <1>15, <1>16, <1>17, <1>18, <1>19, <1>20, <1>21, <1>22, <1>23,
     <1>24, <1>25 DEF Submit, RunStep

(* Leases are taken for a step and given back after it.                    *)

LEMMA LeaseStep ==
  ASSUME Inv, NEW r \in Runs, Submit(r) \/ RunStep(r)
  PROVE  lease'[r] # {} => pc'[r] \in {"begin", "running", "release", "locked", "crashed"}
<1> USE DEF TypeOK, EndedRunHoldsNoLease, db, goto, transition
<1>0. TypeOK /\ EndedRunHoldsNoLease
  BY DEF Inv
<1>1. CASE Replay(r)
  BY <1>0, <1>1 DEF Replay
<1>2. CASE RefuseReusedKey(r)
  BY <1>0, <1>2 DEF RefuseReusedKey
<1>3. CASE Accept(r)
  BY <1>0, <1>3 DEF Accept
<1>4. CASE Intake(r)
  BY <1>0, <1>4 DEF Intake
<1>5. CASE StartPlanning(r)
  BY <1>0, <1>5 DEF StartPlanning
<1>6. CASE CommitPlanning(r)
  BY <1>0, <1>6 DEF CommitPlanning, CommitState
<1>7. CASE PlanRejected(r)
  BY <1>0, <1>7 DEF PlanRejected
<1>8. CASE SavePlan(r)
  BY <1>0, <1>8 DEF SavePlan
<1>9. CASE AskClarification(r)
  BY <1>0, <1>9 DEF AskClarification
<1>10. CASE Queue(r)
  BY <1>0, <1>10 DEF Queue
<1>11. CASE CommitRunning(r)
  BY <1>0, <1>11 DEF CommitRunning, CommitState
<1>12. CASE BlockStep(r)
  BY <1>0, <1>12 DEF BlockStep
<1>13. CASE StartStep(r)
  BY <1>0, <1>13 DEF StartStep
<1>14. CASE CheckLeases(r)
  BY <1>0, <1>14 DEF CheckLeases
<1>15. CASE LeaseConflict(r)
  BY <1>0, <1>15 DEF LeaseConflict
<1>16. CASE GrantLeases(r)
  BY <1>0, <1>16 DEF GrantLeases
<1>17. CASE BeginTool(r)
  BY <1>0, <1>17 DEF BeginTool
<1>18. CASE RefuseArguments(r)
  BY <1>0, <1>18 DEF RefuseArguments
<1>19. CASE EndTool(r)
  BY <1>0, <1>19 DEF EndTool
<1>20. CASE Release(r)
  BY <1>0, <1>20 DEF Release
<1>21. CASE Attach(r)
  BY <1>0, <1>21 DEF Attach
<1>22. CASE Close(r)
  BY <1>0, <1>22 DEF Close
<1>23. CASE Respond(r)
  BY <1>0, <1>23 DEF Respond
<1>24. CASE Remember(r)
  BY <1>0, <1>24 DEF Remember
<1>25. CASE Busy(r)
  BY <1>0, <1>25 DEF Busy
<1> QED
  BY <1>1, <1>2, <1>3, <1>4, <1>5, <1>6, <1>7, <1>8, <1>9, <1>10, <1>11, <1>12,
     <1>13, <1>14, <1>15, <1>16, <1>17, <1>18, <1>19, <1>20, <1>21, <1>22, <1>23,
     <1>24, <1>25 DEF Submit, RunStep

(* What is remembered for a key is the settled answer of the run that got  *)
(* its task.                                                               *)
LEMMA RecordStep ==
  ASSUME Inv, NEW r \in Runs, Submit(r) \/ RunStep(r)
  PROVE  RememberedAnswerIsSettled'
<1> USE DEF RememberedAnswerIsSettled, key
<1>0. TypeOK /\ StageInv(r) /\ RememberedAnswerIsSettled
  BY DEF Inv
<1>1. /\ \A s \in Runs : task[s] # "absent" => task'[s] # "absent"
      /\ \A s \in Runs : pc[s] = "done" => pc'[s] = "done"
      /\ UNCHANGED request
  BY TaskStep
<1>2. CASE UNCHANGED record
  BY <1>0, <1>1, <1>2
<1>3. CASE Remember(r) /\ ~UNCHANGED record
  <2>1. /\ record' = [record EXCEPT ![key(r)] = [body |-> request[r].body, state |-> answer[r]]]
        /\ pc[r] = "remember" /\ pc'[r] = "done"
    BY <1>0, <1>3 DEF Remember, goto, TypeOK
  <2>2. /\ task'[r] # "absent" /\ answer[r] \in Settled
    BY <1>0, <1>1, <2>1 DEF StageInv, NotTaken
  <2>3. SUFFICES ASSUME NEW k \in Keys, record'[k] # NoRecord
                 PROVE  /\ record'[k].state \in Settled
                        /\ \E s \in Runs : key(s) = k /\ task'[s] # "absent" /\ pc'[s] = "done"
    BY <1>1
  <2>4. CASE k = key(r)
    BY <1>0, <2>1, <2>2, <2>4 DEF TypeOK
  <2>5. CASE k # key(r)
    <3>1. record'[k] = record[k]
      BY <1>0, <2>1, <2>5 DEF TypeOK
    <3> QED
      BY <1>0, <1>1, <2>3, <3>1
  <2> QED
    BY <2>4, <2>5
<1>4. UNCHANGED record \/ Remember(r)
  BY DEF Submit, RunStep, db, Replay, RefuseReusedKey, Accept, Intake, StartPlanning,
         CommitPlanning, CommitRunning, CommitState, PlanRejected, SavePlan,
         AskClarification, Queue, BlockStep, StartStep, CheckLeases, LeaseConflict,
         GrantLeases, BeginTool, RefuseArguments, EndTool, Release, Attach, Close,
         Respond, Busy
<1> QED
  BY <1>2, <1>3, <1>4

(* A step of a run keeps Inv: its own part by the lemmas above, the part   *)
(* of every other run because nothing of it changes.                       *)
LEMMA RunStepInv ==
  ASSUME Inv, NEW r \in Runs, Submit(r) \/ RunStep(r)
  PROVE  Inv'
<1>1. TypeOK'
  BY TypeStep
<1>2. ASSUME NEW s \in Runs
      PROVE  StageInv(s)' /\ IndexInv(s)' /\ StepInv(s)'
  <2>1. CASE s = r
    BY <2>1, StageStep, IndexStep, StepStep
  <2>2. CASE s # r
    <3>1. StageInv(s) /\ IndexInv(s) /\ StepInv(s)
      BY DEF Inv
    <3>2. /\ task'[s] = task[s] /\ plan'[s] = plan[s] /\ planStep'[s] = planStep[s]
          /\ toolTask'[s] = toolTask[s]
          /\ pc'[s] = pc[s] /\ index'[s] = index[s] /\ dirty'[s] = dirty[s]
          /\ stepDirty'[s] = stepDirty[s] /\ answer'[s] = answer[s]
          /\ request' = request
          /\ writer = s => writer' = s
      BY <2>2, FrameStep
    <3>3. StageInv(s)'
      BY <3>1, <3>2 DEF StageInv, key
    <3>4. IndexInv(s)' /\ StepInv(s)'
      BY <3>1, <3>2 DEF IndexInv, StepInv, steps
    <3> QED
      BY <3>3, <3>4
  <2> QED
    BY <2>1, <2>2
<1>3. CancelInv' /\ KeyExecutesOnce'
  BY TaskStep DEF Inv, CancelInv, cancels
<1>4. RememberedAnswerIsSettled'
  BY RecordStep
<1>5. EndedRunHoldsNoLease'
  BY LeaseStep, FrameStep DEF Inv, EndedRunHoldsNoLease
<1> QED
  BY <1>1, <1>2, <1>3, <1>4, <1>5 DEF Inv

(* So do cancellations, answers to a question, time, and a crash.          *)
LEMMA EnvironmentInv == Inv /\ Environment => Inv'
<1> SUFFICES ASSUME Inv, Environment PROVE Inv'
  OBVIOUS
<1> USE DEF db, session, cancels
<1>0. /\ TypeOK /\ CancelInv /\ KeyExecutesOnce /\ RememberedAnswerIsSettled
      /\ EndedRunHoldsNoLease
      /\ \A s \in Runs : StageInv(s) /\ IndexInv(s) /\ StepInv(s)
  BY DEF Inv
<1>1. ASSUME NEW c \in Cancels, NEW r \in Runs, CancelRead(c, r) PROVE Inv'
  <2>1. TypeOK' /\ CancelInv'
    BY <1>0, <1>1 DEF CancelRead, TypeOK, CancelInv
  <2> QED
    BY <1>0, <1>1, <2>1 DEF CancelRead, Inv, StageInv, IndexInv, StepInv, KeyExecutesOnce,
       RememberedAnswerIsSettled, EndedRunHoldsNoLease, key, steps
<1>2. ASSUME NEW c \in Cancels, CancelCommit(c) PROVE Inv'
  <2>1. PICK r \in Runs : task[r] # "absent" /\ task' = [task EXCEPT ![r] = "CANCELLED"]
    BY <1>0, <1>2 DEF CancelCommit, CancelInv
  <2>2. TypeOK'
    <3>1. task' \in [Runs -> TaskState \cup {"absent"}]
      BY <1>0, <2>1, StateFacts DEF TypeOK
    <3>2. /\ cancelPc' \in [Cancels -> {"idle", "commit"}]
          /\ cancelOf' \in [Cancels -> Runs \cup {NoOne}]
      BY <1>0, <1>2 DEF CancelCommit, TypeOK
    <3> QED
      BY <1>0, <1>2, <3>1, <3>2 DEF CancelCommit, TypeOK
  <2>3. \A s \in Runs : /\ task'[s] = task[s] \/ (task[s] # "absent" /\ task'[s] = "CANCELLED")
                        /\ task[s] # "absent" <=> task'[s] # "absent"
    BY <1>0, <2>1 DEF TypeOK
  <2>4. CancelInv'
    BY <1>0, <1>2, <2>3 DEF CancelCommit, CancelInv, TypeOK
  <2>5. \A s \in Runs : StageInv(s)' /\ IndexInv(s)' /\ StepInv(s)'
    BY <1>0, <1>2, <2>3 DEF CancelCommit, StageInv, IndexInv, StepInv, key, steps,
       Rest, Settled, NotTaken
  <2>6. KeyExecutesOnce' /\ RememberedAnswerIsSettled' /\ EndedRunHoldsNoLease'
    BY <1>0, <1>2, <2>3 DEF CancelCommit, KeyExecutesOnce, RememberedAnswerIsSettled,
       EndedRunHoldsNoLease, key
  <2> QED
    BY <2>2, <2>4, <2>5, <2>6 DEF Inv
<1>3. ASSUME NEW c \in Cancels, CancelBusy(c) PROVE Inv'
  <2>1. TypeOK' /\ CancelInv'
    BY <1>0, <1>3 DEF CancelBusy, TypeOK, CancelInv
  <2> QED
    BY <1>0, <1>3, <2>1 DEF CancelBusy, Inv, StageInv, IndexInv, StepInv, KeyExecutesOnce,
       RememberedAnswerIsSettled, EndedRunHoldsNoLease, key, steps
<1>4. ASSUME NEW r \in Runs, AnswerClarification(r) PROVE Inv'
  <2>1. TypeOK' /\ CancelInv'
    BY <1>0, <1>4 DEF AnswerClarification, TypeOK, CancelInv
  <2> QED
    BY <1>0, <1>4, <2>1 DEF AnswerClarification, Inv, StageInv, IndexInv, StepInv,
       KeyExecutesOnce, RememberedAnswerIsSettled, EndedRunHoldsNoLease, key, steps
<1>5. ASSUME NEW r \in Runs, ExpireLease(r) PROVE Inv'
  <2>1. TypeOK' /\ CancelInv' /\ EndedRunHoldsNoLease'
    BY <1>0, <1>5 DEF ExpireLease, TypeOK, CancelInv, EndedRunHoldsNoLease
  <2> QED
    BY <1>0, <1>5, <2>1 DEF ExpireLease, Inv, StageInv, IndexInv, StepInv,
       KeyExecutesOnce,
       RememberedAnswerIsSettled, key, steps
<1>6. CASE Crash
  <2>1. \A s \in Runs : \/ pc'[s] = "crashed" /\ pc[s] \notin Terminal \cup {"idle"}
                        \/ pc'[s] = pc[s] /\ pc[s] \in Terminal \cup {"idle"}
    BY <1>6 DEF Crash, Active
  <2>2. TypeOK'
    <3>1. pc' \in [Runs -> Location]
      BY <1>0, <1>6, LocationFacts DEF Crash, TypeOK
    <3> QED
      BY <1>0, <1>6, <3>1, BoundsAssumption DEF Crash, TypeOK
  <2>3. CancelInv'
    BY <1>6 DEF Crash, CancelInv
  <2>4. \A s \in Runs : StageInv(s)'
    BY <1>0, <1>6, <2>1 DEF Crash, StageInv, key, NotTaken, Over, Terminal
  <2>5. \A s \in Runs : IndexInv(s)' /\ StepInv(s)'
    BY <1>0, <1>6, <2>1 DEF Crash, IndexInv, StepInv, steps, NotTaken, Before,
       InStep, Terminal
  <2>6. KeyExecutesOnce' /\ RememberedAnswerIsSettled' /\ EndedRunHoldsNoLease'
    BY <1>0, <1>6, <2>1 DEF Crash, KeyExecutesOnce, RememberedAnswerIsSettled,
       EndedRunHoldsNoLease, key, Terminal
  <2> QED
    BY <2>2, <2>3, <2>4, <2>5, <2>6 DEF Inv
<1> QED
  BY <1>1, <1>2, <1>3, <1>4, <1>5, <1>6 DEF Environment

LEMMA StutterInv == Inv /\ UNCHANGED vars => Inv'
BY DEF vars, db, session, cancels, Inv, TypeOK, StageInv, IndexInv, StepInv, CancelInv,
       KeyExecutesOnce, RememberedAnswerIsSettled, EndedRunHoldsNoLease, key, steps

(* The inductive invariant.                                                *)
THEOREM Invariance == Spec => []Inv
<1>1. Inv /\ [Next]_vars => Inv'
  BY RunStepInv, EnvironmentInv, StutterInv DEF Next
<1> QED
  BY InitInv, <1>1, PTL DEF Spec

-----------------------------------------------------------------------------
(* What follows from it.                                                   *)

(* Type correctness: in every reachable state each row and each session    *)
(* variable holds a value of its type; a commit never writes a pending     *)
(* state that is not there.                                                *)
THEOREM TypeCorrect == Spec => []TypeOK
BY Invariance, PTL DEF Inv

(* A key's plan is executed once, for any number of concurrent requests.   *)
THEOREM KeyExecutedOnce == Spec => []KeyExecutesOnce
BY Invariance, PTL DEF Inv

(* run() never goes on past a step that is not COMPLETED.                  *)
THEOREM StepsRunInOrder == Spec => []StepsInOrder
<1>1. Inv => StepsInOrder
  <2> SUFFICES ASSUME Inv, NEW r \in Runs, NEW i \in 1..MaxSteps, NEW j \in 1..MaxSteps,
                      i < j, planStep[r][j] # "none"
               PROVE  planStep[r][i] = "COMPLETED" /\ toolTask[r][i] = "COMPLETED"
    BY DEF StepsInOrder
  <2>1. IndexInv(r) /\ StepInv(r)
    BY DEF Inv
  <2>2. index[r] \in Nat /\ ~(j > index[r])
    BY <2>1, BoundsAssumption DEF IndexInv, StepInv
  <2> QED
    BY <2>1, <2>2, BoundsAssumption DEF StepInv
<1> QED
  BY Invariance, <1>1, PTL

(* A COMPLETED task has only COMPLETED steps.                              *)
THEOREM CompletedTasksAreComplete == Spec => []CompletedMeansAllSteps
<1>1. Inv => CompletedMeansAllSteps
  <2> SUFFICES ASSUME Inv, NEW r \in Runs, task[r] = "COMPLETED"
               PROVE  /\ steps(r) # <<>>
                      /\ \A i \in DOMAIN steps(r) :
                           planStep[r][i] = "COMPLETED" /\ toolTask[r][i] = "COMPLETED"
    BY DEF CompletedMeansAllSteps
  <2>1. IndexInv(r) /\ StepInv(r) /\ TypeOK
    BY DEF Inv
  <2>2. steps(r) \in Seq(Step)
    BY <2>1, PlanSteps DEF TypeOK, steps
  <2>3. Len(steps(r)) > 0 /\ index[r] = Len(steps(r))
    BY <2>1 DEF IndexInv, StepInv
  <2>4. DOMAIN steps(r) = 1..index[r] /\ index[r] \in 1..MaxSteps
    BY <2>1, <2>2, <2>3, BoundsAssumption DEF IndexInv
  <2>5. \A i \in 1..index[r] : i \in 1..MaxSteps /\ (i < index[r] \/ i = index[r])
    BY <2>4, BoundsAssumption
  <2>6. \A i \in 1..index[r] : planStep[r][i] = "COMPLETED" /\ toolTask[r][i] = "COMPLETED"
    BY <2>1, <2>5 DEF StepInv
  <2> QED
    BY <2>2, <2>3, <2>4, <2>6
<1> QED
  BY Invariance, <1>1, PTL

(* A settled task shows no running step, a waiting one its waiting step.   *)
THEOREM SettledTasksAreSettled == Spec => []SettledTaskHasSettledSteps
<1>1. Inv => SettledTaskHasSettledSteps
  <2> SUFFICES ASSUME Inv, NEW r \in Runs
               PROVE  /\ task[r] \in Rest => \A i \in 1..MaxSteps : planStep[r][i] # "RUNNING"
                      /\ task[r] = "WAITING_APPROVAL"
                           => \E i \in DOMAIN steps(r) : planStep[r][i] = "WAITING_APPROVAL"
    BY DEF SettledTaskHasSettledSteps, Rest, Settled
  <2>1. IndexInv(r) /\ StepInv(r) /\ TypeOK
    BY DEF Inv
  <2>2. steps(r) \in Seq(Step)
    BY <2>1, PlanSteps DEF TypeOK, steps
  <2>3. DOMAIN steps(r) = 1..Len(steps(r)) /\ index[r] \in 0..Len(steps(r))
    BY <2>1, <2>2 DEF IndexInv
  <2>4. \A i \in 1..MaxSteps : i > index[r] \/ i < index[r] \/ i = index[r]
    BY <2>3, BoundsAssumption
  <2>5. task[r] \in Rest => \A i \in 1..MaxSteps : planStep[r][i] # "RUNNING"
    BY <2>1, <2>3, <2>4 DEF StepInv
  <2>6. task[r] = "WAITING_APPROVAL" =>
          index[r] \in DOMAIN steps(r) /\ planStep[r][index[r]] = "WAITING_APPROVAL"
    BY <2>1, <2>2, <2>3 DEF StepInv
  <2> QED
    BY <2>5, <2>6
<1> QED
  BY Invariance, <1>1, PTL

(* Only settled answers are remembered, each with the run that earned it.  *)
THEOREM RememberedAnswersAreSettled == Spec => []RememberedAnswerIsSettled
BY Invariance, PTL DEF Inv

(* An ordinary end of a run leaves no lease behind.                        *)
THEOREM LeasesAreReturned == Spec => []EndedRunHoldsNoLease
BY Invariance, PTL DEF Inv

(* Tools never overlap, leases or not.                                     *)
THEOREM ToolsAreSerialised == Spec => []ToolsSerialised
<1>1. Inv => ToolsSerialised
  BY DEF Inv, StageInv, ToolsSerialised
<1> QED
  BY Invariance, <1>1, PTL

-----------------------------------------------------------------------------
(* Action properties.                                                      *)

LEMMA OutcomeStep ==
  ASSUME Inv, NEW r \in Runs, Submit(r) \/ RunStep(r)
  PROVE  \A i \in 1..MaxSteps :
           /\ planStep[r][i] \in ToolStatus => planStep'[r][i] = planStep[r][i]
           /\ toolTask[r][i] # "none" => toolTask'[r][i] = toolTask[r][i]
<1> USE DEF TypeOK, StepInv, IndexInv, db, goto, InStep
<1>0. TypeOK /\ IndexInv(r) /\ StepInv(r)
  BY DEF Inv
<1> USE BoundsAssumption
<1>1. CASE Replay(r)
  BY <1>0, <1>1 DEF Replay
<1>2. CASE RefuseReusedKey(r)
  BY <1>0, <1>2 DEF RefuseReusedKey
<1>3. CASE Accept(r)
  BY <1>0, <1>3 DEF Accept
<1>4. CASE Intake(r)
  BY <1>0, <1>4 DEF Intake
<1>5. CASE StartPlanning(r)
  BY <1>0, <1>5 DEF StartPlanning
<1>6. CASE CommitPlanning(r)
  BY <1>0, <1>6 DEF CommitPlanning, CommitState
<1>7. CASE PlanRejected(r)
  BY <1>0, <1>7 DEF PlanRejected
<1>8. CASE SavePlan(r)
  BY <1>0, <1>8 DEF SavePlan
<1>9. CASE AskClarification(r)
  BY <1>0, <1>9 DEF AskClarification
<1>10. CASE Queue(r)
  BY <1>0, <1>10 DEF Queue
<1>11. CASE CommitRunning(r)
  BY <1>0, <1>11 DEF CommitRunning, CommitState
<1>12. CASE BlockStep(r)
  BY <1>0, <1>12 DEF BlockStep
<1>13. CASE StartStep(r)
  <2>1. /\ pc[r] = "loop" /\ toolTask' = toolTask
        /\ \A i \in 1..MaxSteps : planStep'[r][i] # planStep[r][i] => i \in {index[r], index[r] + 1}
    BY <1>0, <1>13 DEF StartStep
  <2>2. \A i \in 1..MaxSteps : i \in {index[r], index[r] + 1}
          => planStep[r][i] \in {"none", "RUNNING"}
    BY <1>0, <2>1
  <2> QED
    BY <2>1, <2>2 DEF ToolStatus
<1>14. CASE CheckLeases(r)
  BY <1>0, <1>14 DEF CheckLeases
<1>15. CASE LeaseConflict(r)
  BY <1>0, <1>15 DEF LeaseConflict
<1>16. CASE GrantLeases(r)
  BY <1>0, <1>16 DEF GrantLeases
<1>17. CASE BeginTool(r)
  BY <1>0, <1>17 DEF BeginTool
<1>18. CASE RefuseArguments(r)
  BY <1>0, <1>18 DEF RefuseArguments
<1>19. CASE EndTool(r)
  <2>1. /\ pc[r] = "running" /\ planStep' = planStep
        /\ \A i \in 1..MaxSteps : toolTask'[r][i] # toolTask[r][i] => i = index[r]
    BY <1>0, <1>19 DEF EndTool
  <2> QED
    BY <1>0, <2>1
<1>20. CASE Release(r)
  BY <1>0, <1>20 DEF Release
<1>21. CASE Attach(r)
  BY <1>0, <1>21 DEF Attach
<1>22. CASE Close(r)
  <2>1. /\ pc[r] = "close" /\ toolTask' = toolTask
        /\ \A i \in 1..MaxSteps : planStep'[r][i] # planStep[r][i] => i = index[r]
    BY <1>0, <1>22 DEF Close
  <2>2. \A i \in 1..MaxSteps : i = index[r] => planStep[r][i] = "RUNNING"
    BY <1>0, <2>1
  <2> QED
    BY <2>1, <2>2 DEF ToolStatus
<1>23. CASE Respond(r)
  BY <1>0, <1>23 DEF Respond
<1>24. CASE Remember(r)
  BY <1>0, <1>24 DEF Remember
<1>25. CASE Busy(r)
  BY <1>0, <1>25 DEF Busy
<1> QED
  BY <1>1, <1>2, <1>3, <1>4, <1>5, <1>6, <1>7, <1>8, <1>9, <1>10, <1>11, <1>12,
     <1>13, <1>14, <1>15, <1>16, <1>17, <1>18, <1>19, <1>20, <1>21, <1>22, <1>23,
     <1>24, <1>25 DEF Submit, RunStep

(* A recorded step status and the outcome of a tool are never revised.     *)
THEOREM StepOutcomesFinal == Spec => StepOutcomesAreFinal
<1>1. Inv /\ [Next]_vars =>
        [\A r \in Runs : \A i \in 1..MaxSteps :
           /\ planStep[r][i] \in ToolStatus => planStep'[r][i] = planStep[r][i]
           /\ toolTask[r][i] # "none" => toolTask'[r][i] = toolTask[r][i]]_vars
  <2> SUFFICES ASSUME Inv, Next, NEW r \in Runs, NEW i \in 1..MaxSteps
               PROVE  /\ planStep[r][i] \in ToolStatus => planStep'[r][i] = planStep[r][i]
                      /\ toolTask[r][i] # "none" => toolTask'[r][i] = toolTask[r][i]
    OBVIOUS
  <2>1. ASSUME NEW s \in Runs, Submit(s) \/ RunStep(s), s # r
        PROVE  planStep'[r] = planStep[r] /\ toolTask'[r] = toolTask[r]
    BY <2>1, FrameStep
  <2>2. CASE Submit(r) \/ RunStep(r)
    BY <2>2, OutcomeStep
  <2>3. CASE Environment
    BY <2>3 DEF Environment, CancelRead, CancelCommit, CancelBusy, AnswerClarification,
       ExpireLease, Crash, db
  <2> QED
    BY <2>1, <2>2, <2>3 DEF Next
<1> QED
  BY Invariance, <1>1, PTL DEF Spec, StepOutcomesAreFinal


LEMMA IdleRunKeepsTask ==
  ASSUME Inv, NEW r \in Runs, Submit(r) \/ RunStep(r)
  PROVE  ~Active(r) => task'[r] = task[r]
<1> USE DEF Active, Terminal, db, goto, transition
<1>1. CASE Replay(r)
  BY <1>1 DEF Replay
<1>2. CASE RefuseReusedKey(r)
  BY <1>2 DEF RefuseReusedKey
<1>3. CASE Accept(r)
  BY <1>3 DEF Accept
<1>4. CASE Intake(r)
  BY <1>4 DEF Intake
<1>5. CASE StartPlanning(r)
  BY <1>5 DEF StartPlanning
<1>6. CASE CommitPlanning(r)
  BY <1>6 DEF CommitPlanning, CommitState
<1>7. CASE PlanRejected(r)
  BY <1>7 DEF PlanRejected
<1>8. CASE SavePlan(r)
  BY <1>8 DEF SavePlan
<1>9. CASE AskClarification(r)
  BY <1>9 DEF AskClarification
<1>10. CASE Queue(r)
  BY <1>10 DEF Queue
<1>11. CASE CommitRunning(r)
  BY <1>11 DEF CommitRunning, CommitState
<1>12. CASE BlockStep(r)
  BY <1>12 DEF BlockStep
<1>13. CASE StartStep(r)
  BY <1>13 DEF StartStep
<1>14. CASE CheckLeases(r)
  BY <1>14 DEF CheckLeases
<1>15. CASE LeaseConflict(r)
  BY <1>15 DEF LeaseConflict
<1>16. CASE GrantLeases(r)
  BY <1>16 DEF GrantLeases
<1>17. CASE BeginTool(r)
  BY <1>17 DEF BeginTool
<1>18. CASE RefuseArguments(r)
  BY <1>18 DEF RefuseArguments
<1>19. CASE EndTool(r)
  BY <1>19 DEF EndTool
<1>20. CASE Release(r)
  BY <1>20 DEF Release
<1>21. CASE Attach(r)
  BY <1>21 DEF Attach
<1>22. CASE Close(r)
  BY <1>22 DEF Close
<1>23. CASE Respond(r)
  BY <1>23 DEF Respond
<1>24. CASE Remember(r)
  BY <1>24 DEF Remember
<1>25. CASE Busy(r)
  BY <1>25 DEF Busy
<1> QED
  BY <1>1, <1>2, <1>3, <1>4, <1>5, <1>6, <1>7, <1>8, <1>9, <1>10, <1>11, <1>12,
     <1>13, <1>14, <1>15, <1>16, <1>17, <1>18, <1>19, <1>20, <1>21, <1>22, <1>23,
     <1>24, <1>25 DEF Submit, RunStep

(* Once its run is over a cancelled task stays cancelled.                  *)
THEOREM CancelledTasksStayCancelled == Spec => CancelledStaysCancelled
<1>1. Inv /\ [Next]_vars =>
        [\A r \in Runs : task[r] = "CANCELLED" /\ ~Active(r) => task'[r] = "CANCELLED"]_vars
  <2> SUFFICES ASSUME Inv, Next, NEW r \in Runs, task[r] = "CANCELLED", ~Active(r)
               PROVE  task'[r] = "CANCELLED"
    OBVIOUS
  <2>1. ASSUME NEW s \in Runs, Submit(s) \/ RunStep(s), s # r
        PROVE  task'[r] = task[r]
    BY <2>1, FrameStep
  <2>2. CASE Submit(r) \/ RunStep(r)
    BY <2>2, IdleRunKeepsTask
  <2>3. CASE Environment
    <3>1. task \in [Runs -> TaskState \cup {"absent"}]
      BY DEF Inv, TypeOK
    <3> QED
      BY <2>3, <3>1 DEF Environment, CancelRead, CancelCommit, CancelBusy,
         AnswerClarification, ExpireLease, Crash, db
  <2> QED
    BY <2>1, <2>2, <2>3 DEF Next
<1> QED
  BY Invariance, <1>1, PTL DEF Spec, CancelledStaysCancelled

-----------------------------------------------------------------------------
(* Refinement of IdempotentSubmission.                                     *)

(* The steps that the client does not see.                                 *)
LEMMA SilentStep ==
  ASSUME Inv, NEW r \in Runs, Submit(r) \/ RunStep(r),
         ~Replay(r), ~Intake(r), ~Respond(r), ~Remember(r)
  PROVE  /\ \A s \in Runs : task'[s] = "absent" <=> task[s] = "absent"
         /\ \A s \in Runs : pc'[s] \in {"done", "replayed"} <=> pc[s] \in {"done", "replayed"}
         /\ UNCHANGED <<request, record, answer>>
<1> USE DEF TypeOK, StageInv, db, goto, transition, NotTaken, Rest
<1>0. TypeOK /\ StageInv(r)
  BY DEF Inv
<1>1. CASE RefuseReusedKey(r)
  BY <1>0, <1>1 DEF RefuseReusedKey
<1>2. CASE Accept(r)
  BY <1>0, <1>2 DEF Accept
<1>3. CASE StartPlanning(r)
  BY <1>0, <1>3 DEF StartPlanning
<1>4. CASE CommitPlanning(r)
  BY <1>0, <1>4, StateFacts DEF CommitPlanning, CommitState
<1>5. CASE PlanRejected(r)
  BY <1>0, <1>5 DEF PlanRejected
<1>6. CASE SavePlan(r)
  BY <1>0, <1>6 DEF SavePlan
<1>7. CASE AskClarification(r)
  BY <1>0, <1>7 DEF AskClarification
<1>8. CASE Queue(r)
  BY <1>0, <1>8 DEF Queue
<1>9. CASE CommitRunning(r)
  BY <1>0, <1>9, StateFacts DEF CommitRunning, CommitState
<1>10. CASE BlockStep(r)
  BY <1>0, <1>10 DEF BlockStep
<1>11. CASE StartStep(r)
  BY <1>0, <1>11 DEF StartStep
<1>12. CASE CheckLeases(r)
  BY <1>0, <1>12 DEF CheckLeases
<1>13. CASE LeaseConflict(r)
  BY <1>0, <1>13 DEF LeaseConflict
<1>14. CASE GrantLeases(r)
  BY <1>0, <1>14 DEF GrantLeases
<1>15. CASE BeginTool(r)
  BY <1>0, <1>15 DEF BeginTool
<1>16. CASE RefuseArguments(r)
  BY <1>0, <1>16 DEF RefuseArguments
<1>17. CASE EndTool(r)
  BY <1>0, <1>17 DEF EndTool
<1>18. CASE Release(r)
  BY <1>0, <1>18 DEF Release
<1>19. CASE Attach(r)
  BY <1>0, <1>19 DEF Attach
<1>20. CASE Close(r)
  BY <1>0, <1>20, StateFacts DEF Close
<1>21. CASE Busy(r)
  BY <1>0, <1>21 DEF Busy
<1> QED
  BY <1>1, <1>2, <1>3, <1>4, <1>5, <1>6, <1>7, <1>8, <1>9, <1>10, <1>11, <1>12,
     <1>13, <1>14, <1>15, <1>16, <1>17, <1>18, <1>19, <1>20, <1>21 DEF Submit, RunStep

Executed == {r \in Runs : task[r] # "absent"}
Remembers == [k \in Keys |-> record[k].state]
Reply == [r \in Runs |-> IF pc[r] \in {"done", "replayed"} THEN answer[r] ELSE "none"]
KeyOf == [r \in Runs |-> key(r)]

(* A run that is about to remember its answer finds none for its key.      *)
LEMMA NothingRemembered ==
  ASSUME Inv, NEW r \in Runs, pc[r] = "remember"
  PROVE  key(r) \in Keys /\ record[key(r)] = NoRecord
<1>1. key(r) \in Keys /\ task[r] # "absent"
  BY KeyFacts DEF Inv, StageInv, NotTaken
<1>2. ASSUME record[key(r)] # NoRecord PROVE FALSE
  <2>1. PICK s \in Runs : key(s) = key(r) /\ task[s] # "absent" /\ pc[s] = "done"
    BY <1>1, <1>2 DEF Inv, RememberedAnswerIsSettled
  <2>2. key(r) # NoKey
    BY <1>1, KeysAssumption
  <2>3. s = r
    BY <1>1, <2>1, <2>2 DEF Inv, KeyExecutesOnce
  <2> QED
    BY <2>1, <2>3
<1> QED
  BY <1>1, <1>2

LEMMA RunStepRefines ==
  ASSUME Inv, NEW r \in Runs, Submit(r) \/ RunStep(r)
  PROVE  Idempotent!Next \/ UNCHANGED <<KeyOf, Executed, Remembers, Reply>>
<1> USE DEF KeyOf, Executed, Remembers, Reply
<1>0. TypeOK /\ StageInv(r) /\ RememberedAnswerIsSettled
  BY DEF Inv
<1>1. CASE Replay(r)
  <2>1. /\ request' = request /\ record' = record /\ task' = task
        /\ pc[r] = "idle" /\ pc' = [pc EXCEPT ![r] = "replayed"]
        /\ answer' = [answer EXCEPT ![r] = record[key(r)].state]
        /\ key(r) # NoKey /\ record[key(r)] # NoRecord
    BY <1>1 DEF Replay, Remembered, goto, db
  <2>2. key(r) \in Keys /\ task[r] = "absent"
    BY <1>0, <2>1, KeyFacts DEF StageInv, NotTaken
  <2>3. Remembers[key(r)] # "none"
    BY <1>0, <2>1, <2>2 DEF RememberedAnswerIsSettled, Settled
  <2>4. Reply' = [Reply EXCEPT ![r] = Remembers[key(r)]]
    BY <1>0, <2>1, <2>2 DEF TypeOK
  <2>5. UNCHANGED <<KeyOf, Executed, Remembers>>
    BY <2>1 DEF key
  <2> HIDE DEF Remembers, Reply
  <2>6. Idempotent!Replay(r)
    BY <2>1, <2>2, <2>3, <2>4, <2>5 DEF Idempotent!Replay, Remembers, Reply
  <2> QED
    BY <2>6 DEF Idempotent!Next
<1>2. CASE Intake(r)
  <2>1. request' = request /\ record' = record /\ answer' = answer
    BY <1>2 DEF Intake
  <2>2. UNCHANGED <<KeyOf, Remembers>>
    BY <2>1 DEF key
  <2>3. UNCHANGED Reply
    BY <1>0, <1>2, <2>1 DEF Intake, goto, TypeOK
  <2>4. CASE task' = task
    BY <2>2, <2>3, <2>4
  <2>5. CASE ~KeyTaken(r) /\ task' = [task EXCEPT ![r] = "CREATED"]
    <3>1. task[r] = "absent"
      BY <1>0, <1>2 DEF Intake, goto, StageInv, NotTaken
    <3>2. Executed' = Executed \cup {r}
      BY <1>0, <2>5, StateFacts DEF TypeOK
    <3>3. \A t \in Executed : KeyOf[r] = KeyOf[t] => KeyOf[r] = NoKey
      BY <2>5 DEF KeyTaken
    <3>4. Idempotent!Execute(r)
      BY <2>2, <2>3, <3>1, <3>2, <3>3 DEF Idempotent!Execute
    <3> QED
      BY <3>4 DEF Idempotent!Next
  <2> QED
    BY <1>2, <2>4, <2>5 DEF Intake
<1>3. CASE Respond(r)
  <2>1. /\ request' = request /\ record' = record /\ task' = task
        /\ pc[r] = "respond" /\ answer' = [answer EXCEPT ![r] = task[r]]
        /\ pc' = [pc EXCEPT ![r] = IF key(r) = NoKey THEN "done" ELSE "remember"]
    BY <1>3 DEF Respond, goto, db
  <2>2. UNCHANGED <<KeyOf, Executed, Remembers>>
    BY <2>1 DEF key
  <2>3. CASE key(r) # NoKey
    BY <1>0, <2>1, <2>2, <2>3 DEF TypeOK
  <2>4. CASE key(r) = NoKey
    <3>1. task[r] \in Settled /\ task[r] # "absent"
      BY <1>0, <2>1 DEF StageInv, NotTaken
    <3>2. Reply[r] = "none" /\ Reply' = [Reply EXCEPT ![r] = task[r]]
      BY <1>0, <2>1, <2>4 DEF TypeOK
    <3>3. Idempotent!Answer(r)
      BY <2>2, <2>4, <3>1, <3>2 DEF Idempotent!Answer
    <3> QED
      BY <3>3 DEF Idempotent!Next
  <2> QED
    BY <2>3, <2>4
<1>4. CASE Remember(r)
  <2>1. pc[r] = "remember" /\ pc' = [pc EXCEPT ![r] = "done"]
    BY <1>4 DEF Remember, goto
  <2>2. key(r) \in Keys /\ record[key(r)] = NoRecord
    BY <2>1, NothingRemembered
  <2>3. /\ request' = request /\ task' = task /\ answer' = answer
        /\ record' = [record EXCEPT ![key(r)] = [body |-> request[r].body, state |-> answer[r]]]
    BY <1>4, <2>2 DEF Remember, Remembered
  <2>4. /\ answer[r] \in Settled /\ task[r] # "absent" /\ key(r) # NoKey
    BY <1>0, <2>1 DEF StageInv, NotTaken
  <2>5. UNCHANGED <<KeyOf, Executed>>
    BY <2>3 DEF key
  <2>6. Remembers[key(r)] = "none" /\ Remembers' = [Remembers EXCEPT ![key(r)] = answer[r]]
    <3>1. record \in [Keys -> [body : Bodies \cup {"none"}, state : Answer]]
      BY <1>0 DEF TypeOK
    <3>2. \A k \in Keys : record'[k].state = IF k = key(r) THEN answer[r] ELSE record[k].state
      BY <2>2, <2>3, <3>1
    <3>3. Remembers' = [k \in Keys |-> IF k = key(r) THEN answer[r] ELSE record[k].state]
      BY <3>2
    <3>4. Remembers[key(r)] = "none"
      BY <2>2 DEF NoRecord
    <3>5. [Remembers EXCEPT ![key(r)] = answer[r]] =
            [k \in Keys |-> IF k = key(r) THEN answer[r] ELSE record[k].state]
      BY Zenon
    <3> QED
      BY <3>3, <3>4, <3>5
  <2>7. Reply[r] = "none" /\ Reply' = [Reply EXCEPT ![r] = answer[r]]
    BY <1>0, <2>1, <2>3 DEF TypeOK
  <2>8. Idempotent!Answer(r)
    BY <2>4, <2>5, <2>6, <2>7 DEF Idempotent!Answer
  <2> QED
    BY <2>8 DEF Idempotent!Next
<1>5. CASE ~Replay(r) /\ ~Intake(r) /\ ~Respond(r) /\ ~Remember(r)
  BY <1>5, SilentStep DEF key
<1> QED
  BY <1>1, <1>2, <1>3, <1>4, <1>5

(* For every set of runs, keys and plans run() implements the promise of   *)
(* IdempotentSubmission: one execution per key, one answer, faithfully     *)
(* replayed, through every interleaving, cancellation and crash.           *)
THEOREM Refinement == Spec => SubmissionIsIdempotent
<1>1. Init => Idempotent!Init
  BY KeyFacts, InitInv DEF Init, Idempotent!Init, Inv, NoRecord
<1>2. Inv /\ [Next]_vars => [Idempotent!Next]_(Idempotent!vars)
  <2> SUFFICES ASSUME Inv, [Next]_vars
               PROVE  Idempotent!Next \/ UNCHANGED <<KeyOf, Executed, Remembers, Reply>>
    BY DEF Idempotent!vars, KeyOf, Executed, Remembers, Reply
  <2>1. CASE UNCHANGED vars
    BY <2>1 DEF vars, db, session, KeyOf, Executed, Remembers, Reply, key
  <2>2. ASSUME NEW r \in Runs, Submit(r) \/ RunStep(r)
        PROVE  Idempotent!Next \/ UNCHANGED <<KeyOf, Executed, Remembers, Reply>>
    BY <2>2, RunStepRefines
  <2>3. CASE Environment
    <3>1. UNCHANGED <<request, record, answer>>
      BY <2>3 DEF Environment, CancelRead, CancelCommit, CancelBusy, AnswerClarification,
         ExpireLease, Crash, db, session
    <3>2. \A r \in Runs : task'[r] = "absent" <=> task[r] = "absent"
      BY <2>3 DEF Environment, CancelRead, CancelCommit, CancelBusy, AnswerClarification,
         ExpireLease, Crash, db, Inv, TypeOK, CancelInv
    <3>3. \A r \in Runs : pc'[r] \in {"done", "replayed"} <=> pc[r] \in {"done", "replayed"}
      BY <2>3 DEF Environment, CancelRead, CancelCommit, CancelBusy, AnswerClarification,
         ExpireLease, Crash, session, Active, Terminal
    <3> QED
      BY <3>1, <3>2, <3>3 DEF KeyOf, Executed, Remembers, Reply, key
  <2> QED
    BY <2>1, <2>2, <2>3 DEF Next
<1> QED
  BY Invariance, <1>1, <1>2, PTL DEF Spec, SubmissionIsIdempotent, Idempotent!Spec
====
