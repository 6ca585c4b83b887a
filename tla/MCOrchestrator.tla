--------------------------- MODULE MCOrchestrator ---------------------------
(***************************************************************************)
(* Small instances of Orchestrator for TLC.                                *)
(***************************************************************************)
EXTENDS Orchestrator, TLC

CONSTANTS r1, r2, k1, p1, p2

step(tool, keys) == [tool |-> tool, keys |-> keys]
plan_of(ss) == [needsClarification |-> FALSE, steps |-> ss]

\* one plan for each way through the loop
MCPlans == {
  [needsClarification |-> TRUE, steps |-> <<>>],
  plan_of(<<step("filesystem.move", {p1})>>),
  plan_of(<<step("filesystem.read_text", {p1}), step("filesystem.overwrite_text", {p1})>>),
  plan_of(<<step("filesystem.batch_move", {p1, p2}), step("host.clipboard_write_text", {})>>) }

\* the same request twice, another request with its key, one without a key
MCRequests == {
  [key |-> k1, body |-> "b1", workspace |-> TRUE],
  [key |-> k1, body |-> "b2", workspace |-> TRUE],
  [key |-> NoKey, body |-> "b1", workspace |-> TRUE] }

\* the two runs are interchangeable
MCSymmetry == Permutations({r1, r2})

\* for liveness: a step after which the loop goes on, then a writer of one path
MCLivePlans == {
  plan_of(<<step("host.system_info", {}), step("filesystem.move", {p1})>>) }

MCLiveRequests == {[key |-> k1, body |-> "b1", workspace |-> TRUE],
                   [key |-> NoKey, body |-> "b1", workspace |-> TRUE]}
====
