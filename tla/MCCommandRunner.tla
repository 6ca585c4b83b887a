-------------------------- MODULE MCCommandRunner --------------------------
(***************************************************************************)
(* A small instance of CommandRunner for TLC.                              *)
(***************************************************************************)
EXTENDS CommandRunner

CONSTANTS v1, v2, ps, h1, h2
====
