------------------------ MODULE IdempotentSubmission ------------------------
(***************************************************************************)
(* What the idempotency key of a request promises to its client, without   *)
(* saying how: the submissions of one key share a single execution, that   *)
(* execution yields one answer, and a submission that is not the executed  *)
(* one is either given this very answer or no answer at all.               *)
(***************************************************************************)
CONSTANTS Submissions, Keys, NoKey, Answers, NoAnswer

VARIABLES
  keyOf,      \* [Submissions -> Keys \cup {NoKey}]
  executed,   \* the submissions that are carried out
  remembered, \* the answer kept for each key
  reply       \* the answer each submission got

vars == <<keyOf, executed, remembered, reply>>

Init ==
  /\ keyOf \in [Submissions -> Keys \cup {NoKey}]
  /\ executed = {}
  /\ remembered = [k \in Keys |-> NoAnswer]
  /\ reply = [s \in Submissions |-> NoAnswer]

Execute(s) ==
  /\ s \notin executed
  /\ \A t \in executed : keyOf[s] = keyOf[t] => keyOf[s] = NoKey
  /\ executed' = executed \cup {s}
  /\ UNCHANGED <<keyOf, remembered, reply>>

Answer(s) ==
  /\ s \in executed
  /\ reply[s] = NoAnswer
  /\ \E a \in Answers :
       /\ reply' = [reply EXCEPT ![s] = a]
       /\ \/ keyOf[s] = NoKey /\ UNCHANGED remembered
          \/ /\ keyOf[s] # NoKey
             /\ remembered[keyOf[s]] = NoAnswer
             /\ remembered' = [remembered EXCEPT ![keyOf[s]] = a]
  /\ UNCHANGED <<keyOf, executed>>

Replay(s) ==
  /\ s \notin executed
  /\ keyOf[s] # NoKey
  /\ remembered[keyOf[s]] # NoAnswer
  /\ reply' = [reply EXCEPT ![s] = remembered[keyOf[s]]]
  /\ UNCHANGED <<keyOf, executed, remembered>>

Next == \E s \in Submissions : Execute(s) \/ Answer(s) \/ Replay(s)

Spec == Init /\ [][Next]_vars
====
