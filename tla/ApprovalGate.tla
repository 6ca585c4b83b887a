---------------------------- MODULE ApprovalGate ----------------------------
(***************************************************************************)
(* What an approval promises the user, without saying what is done with    *)
(* it: a tool runs, and a decision is stored, only for a request that came *)
(* while the approval was open; each such request runs the tool once and   *)
(* stores one decision at most; it stores a refusal only if it has done    *)
(* nothing, and a consent only if it has.  The gate shuts with the first   *)
(* decision or a cancellation, but not behind those who are inside: the    *)
(* last of them has the last word.                                         *)
(***************************************************************************)
CONSTANTS Approvals, Deciders, NoOne

VARIABLES
  asked,  \* the approvals that were asked for, or should have been
  status, \* what is stored of each
  open,   \* those that may be decided
  came,   \* the requests to decide that have come, one of each decider
  inside, \* the approval each of them is let in to decide
  acted   \* those whose tool has run

vars == <<asked, status, open, came, inside, acted>>

Init ==
  /\ asked = {}
  /\ status = [a \in Approvals |-> "none"]
  /\ open = {}
  /\ came = {}
  /\ inside = [d \in Deciders |-> NoOne]
  /\ acted = {}

(* Somebody else may turn down the request before the user sees it.        *)
Ask(a) ==
  /\ a \notin asked
  /\ asked' = asked \cup {a}
  /\ \/ status' = [status EXCEPT ![a] = "PENDING"] /\ open' = open \cup {a}
     \/ UNCHANGED <<status, open>>
  /\ UNCHANGED <<came, inside, acted>>

Shut(a) ==
  /\ a \in open
  /\ open' = open \ {a}
  /\ UNCHANGED <<asked, status, came, inside, acted>>

Come(d, a) ==
  /\ d \notin came
  /\ came' = came \cup {d}
  /\ \/ a \in open /\ inside' = [inside EXCEPT ![d] = a]
     \/ UNCHANGED inside
  /\ UNCHANGED <<asked, status, open, acted>>

Act(d) ==
  /\ inside[d] # NoOne
  /\ d \notin acted
  /\ acted' = acted \cup {d}
  /\ UNCHANGED <<asked, status, open, came, inside>>

Store(d, decision) ==
  /\ inside[d] # NoOne
  /\ decision \in {"REJECTED", "EXPIRED"} => d \notin acted
  /\ decision = "APPROVED" => d \in acted
  /\ status' = [status EXCEPT ![inside[d]] = decision]
  /\ open' = open \ {inside[d]}
  /\ inside' = [inside EXCEPT ![d] = NoOne]
  /\ UNCHANGED <<asked, came, acted>>

(* Any number of them go without a word: an error, or the end of the server.*)
Leave(S) ==
  /\ inside' = [d \in Deciders |-> IF d \in S THEN NoOne ELSE inside[d]]
  /\ UNCHANGED <<asked, status, open, came, acted>>

Next ==
  \/ \E a \in Approvals : Ask(a) \/ Shut(a)
  \/ \E d \in Deciders :
       \/ \E a \in Approvals : Come(d, a)
       \/ Act(d)
       \/ \E decision \in {"APPROVED", "REJECTED", "EXPIRED", "INVALIDATED"} : Store(d, decision)
  \/ \E S \in SUBSET Deciders : Leave(S)

Spec == Init /\ [][Next]_vars
====
