---------------------------- MODULE MCApprovals ----------------------------
(***************************************************************************)
(* Small instances of Approvals for TLC.                                   *)
(***************************************************************************)
EXTENDS Approvals, TLC

CONSTANTS a1, a2, a3, p1, before, after, d1, d2, u1, u2

\* two overwrites of one file, and a host tool
MCArguments ==
  [a \in Approvals |->
     CASE a = a1 -> [path |-> p1, content |-> after]
       [] a = a2 -> [path |-> p1, content |-> before]
       [] a = a3 -> [path |-> NoPath, content |-> before]]

MCSymmetry == Permutations({d1, d2})
====
