--------------------------- MODULE SchemaUpgrade ---------------------------
(***************************************************************************)
(* What the migration of the database promises to the rest of the program, *)
(* without saying how: one worker at a time changes the schema, only after *)
(* what the user had is saved, and one version after the other; a worker   *)
(* that dies over it leaves the upgrade to nobody; and who serves has      *)
(* found the last version, which nobody changes any more.                  *)
(***************************************************************************)
EXTENDS Naturals

CONSTANTS
  Workers,
  Head,      \* the last version
  Baselines, \* the versions a schema without a version may turn out to have
  Nobody

VARIABLES
  version,   \* 0: none is recorded
  changed,   \* whether the schema is another than the user had
  saved,     \* whether what the user had is safe, or was nothing
  holder,    \* the worker at work on the schema
  abandoned, \* whether one has died over it
  serving    \* the workers that serve or are about to

vars == <<version, changed, saved, holder, abandoned, serving>>

Init ==
  /\ version \in 0..Head
  /\ changed = FALSE
  /\ saved \in BOOLEAN
  /\ holder = Nobody
  /\ abandoned = FALSE
  /\ serving = {}

Begin(w) ==
  /\ holder = Nobody
  /\ ~abandoned
  /\ w \notin serving
  /\ holder' = w
  /\ UNCHANGED <<version, changed, saved, abandoned, serving>>

Save(w) ==
  /\ holder = w
  /\ saved' = TRUE
  /\ UNCHANGED <<version, changed, holder, abandoned, serving>>

(* A change may be a part of a version, and a later worker goes on with it. *)
Change(w) ==
  /\ holder = w
  /\ saved
  /\ version < Head
  /\ changed' = TRUE
  /\ \/ UNCHANGED version
     \/ version' = version + 1
     \/ version = 0 /\ version' \in Baselines
  /\ UNCHANGED <<saved, holder, abandoned, serving>>

(* At the last version, or with an error at any other.                     *)
End(w) ==
  /\ holder = w
  /\ holder' = Nobody
  /\ UNCHANGED <<version, changed, saved, abandoned, serving>>

Die(w) ==
  /\ holder = w
  /\ holder' = Nobody
  /\ abandoned' = TRUE
  /\ UNCHANGED <<version, changed, saved, serving>>

Serve(w) ==
  /\ holder # w
  /\ w \notin serving
  /\ version = Head
  /\ serving' = serving \cup {w}
  /\ UNCHANGED <<version, changed, saved, holder, abandoned>>

Leave(w) ==
  /\ w \in serving
  /\ serving' = serving \ {w}
  /\ UNCHANGED <<version, changed, saved, holder, abandoned>>

Next ==
  \E w \in Workers :
    \/ Begin(w) \/ Save(w) \/ Change(w) \/ End(w) \/ Die(w) \/ Serve(w) \/ Leave(w)

Spec == Init /\ [][Next]_vars
====
