----------------------------- MODULE TaskStates -----------------------------
(***************************************************************************)
(* The task states and the transition table of TaskStateService.           *)
(*                                                                         *)
(* The table is consulted only by TaskStateService.transition.  Other      *)
(* writers of Task.state (CancellationService, the policy branch of the    *)
(* orchestrator, StructuredTaskService) assign the column directly.        *)
(***************************************************************************)

TaskState ==
  {"CREATED", "PLANNING", "WAITING_CLARIFICATION", "QUEUED", "RUNNING",
   "WAITING_APPROVAL", "RETRYING", "CANCELLING", "CANCELLED", "COMPLETED",
   "FAILED", "NEEDS_REVIEW", "RECEIVED", "ANALYZING", "NEEDS_INPUT",
   "PLANNED", "VERIFYING", "BLOCKED"}

ALLOWED_TRANSITIONS == [s \in TaskState |->
  CASE s = "CREATED" -> {"PLANNING", "QUEUED", "CANCELLING", "FAILED"}
    [] s = "PLANNING" -> {"WAITING_CLARIFICATION", "QUEUED", "RUNNING",
                          "FAILED", "CANCELLING"}
    [] s = "WAITING_CLARIFICATION" -> {"PLANNING", "CANCELLING", "CANCELLED",
                                       "FAILED"}
    [] s = "QUEUED" -> {"RUNNING", "CANCELLING", "CANCELLED", "FAILED"}
    [] s = "RUNNING" -> {"WAITING_APPROVAL", "RETRYING", "CANCELLING",
                         "COMPLETED", "FAILED", "NEEDS_REVIEW"}
    [] s = "WAITING_APPROVAL" -> {"RUNNING", "CANCELLING", "CANCELLED",
                                  "BLOCKED", "FAILED"}
    [] s = "RETRYING" -> {"RUNNING", "CANCELLING", "FAILED", "NEEDS_REVIEW"}
    [] s = "CANCELLING" -> {"CANCELLED", "NEEDS_REVIEW"}
    [] s = "NEEDS_REVIEW" -> {"RUNNING", "CANCELLED", "FAILED"}
    [] s = "RECEIVED" -> {"PLANNING", "RUNNING", "FAILED", "BLOCKED"}
    [] s = "ANALYZING" -> {"RUNNING", "COMPLETED", "FAILED", "BLOCKED",
                           "WAITING_APPROVAL"}
    [] s = "NEEDS_INPUT" -> {"PLANNING", "CANCELLED"}
    [] s = "PLANNED" -> {"QUEUED", "RUNNING", "CANCELLED"}
    [] s = "VERIFYING" -> {"COMPLETED", "FAILED", "NEEDS_REVIEW"}
    [] OTHER -> {}]

(***************************************************************************)
(* The test of transition(): a state may be re-entered, otherwise the move *)
(* has to be in the table; InvalidTransitionError is raised when it is not.*)
(***************************************************************************)
Allowed(from, to) == from = to \/ to \in ALLOWED_TRANSITIONS[from]
====
