-------------------------- MODULE ApprovalsProofs --------------------------
(***************************************************************************)
(* Safety of Approvals for every set of approvals, files and threads and   *)
(* every number of edits and crashes.  The inductive invariant Inv follows *)
(* a decision from its check to its undo record and says, at each point,   *)
(* what is known of the file, the backup and the record, as long as nobody *)
(* has raced on that file.                                                 *)
(***************************************************************************)
EXTENDS Approvals, TLAPS

Threads == Deciders \cup Undoers
Changing == {"check", "backup", "write", "verify"}

(* The approval a decision is about, and what it has stored so far.        *)
PlaceInv(d) ==
  /\ pc[d] # "idle" => of[d] \in Approvals /\ status[of[d]] # "none"
  /\ pc[d] \in Changing => of[d] \in Overwrites
  /\ pc[d] = "act" => of[d] \notin Overwrites
  /\ undo[d] # "none" => pc[d] = "done" /\ of[d] \in Overwrites

(* The decision is about to make, or has made, its undo record.            *)
Recorded(d) == pc[d] = "finish" \/ undo[d] # "none"

BackupInv(d) ==
  of[d] \in Overwrites /\ (pc[d] \in {"write", "verify"} \/ Recorded(d)) =>
    /\ backup[of[d]] # Missing
    /\ path(of[d]) \notin raced => backup[of[d]] = expected[of[d]]

(* What the file holds between the check and the last look, and the record *)
(* from then on.                                                           *)
FileInv(d) ==
  of[d] \in Overwrites /\ path(of[d]) \notin raced =>
    /\ pc[d] \in {"backup", "write"} => file[path(of[d])] = expected[of[d]]
    /\ pc[d] = "verify" => file[path(of[d])] = content(of[d])
    /\ Recorded(d) => post[d] = content(of[d])

DecisionInv(d) == PlaceInv(d) /\ BackupInv(d) /\ FileInv(d)

UndoInv(u) ==
  /\ pc[u] # "idle" => undoOf[u] \in Deciders /\ undo[undoOf[u]] # "none"
  /\ pc[u] = "undoVerify" /\ target(u) \notin raced =>
       file[target(u)] = expected[of[undoOf[u]]]
  /\ pc[u] \in {"undoFailed", "restoreFailed"} => target(u) \in raced

Inv ==
  /\ TypeOK
  /\ StatusMatchesTask
  /\ ApprovedOverwriteHasUndo
  /\ \A d \in Deciders : DecisionInv(d)
  /\ \A u \in Undoers : UndoInv(u)

-----------------------------------------------------------------------------
(* Facts about constants.                                                  *)

LEMMA ArgumentFacts ==
  \A a \in Overwrites : a \in Approvals /\ path(a) \in Paths /\ content(a) \in Contents
BY ArgumentsAssumption DEF Overwrites, path, content

LEMMA LocationFacts ==
  /\ {"check", "backup", "write", "verify", "act", "flush", "undoCheck", "undoCopy",
      "undoVerify", "undoApplied", "undoBlocked", "undoFailed", "reject", "expire",
      "finish", "invalidate", "refused", "done", "locked", "crashed", "applied",
      "conflict", "restoreFailed"} \subseteq Location
  /\ CommitPoint = {"reject", "expire", "finish", "invalidate"}
  /\ "idle" \notin CommitPoint
BY DEF Location, CommitPoint, Finished

-----------------------------------------------------------------------------
(* Types.                                                                  *)

LEMMA TypeInit == Init => TypeOK
BY BoundsAssumption DEF Init, TypeOK, Text, Location

LEMMA TypeDecision ==
  ASSUME TypeOK, NEW d \in Deciders, PlaceInv(d),
         DecisionStep(d) \/ \E a \in Approvals : Decide(d, a)
  PROVE  TypeOK'
<1> USE LocationFacts, ArgumentFacts DEF TypeOK, goto, rows, disk, threads, cancels,
      history, bounds, Text, RaceOn
<1>1. ASSUME NEW a \in Approvals, Decide(d, a) PROVE TypeOK'
  BY <1>1 DEF Decide
<1>2. CASE Reject(d)
  BY <1>2 DEF Reject, Settle
<1>3. CASE Expire(d)
  BY <1>3 DEF Expire, Settle
<1>4. CASE Invalidate(d)
  BY <1>4 DEF Invalidate, Settle
<1>5. CASE Finish(d)
  BY <1>5 DEF Finish, Settle
<1>6. CASE Act(d)
  BY <1>6 DEF Act
<1>7. CASE Check(d)
  BY <1>7 DEF Check
<1>8. CASE Backup(d)
  BY <1>8 DEF Backup, PlaceInv, Changing
<1>9. CASE Write(d)
  BY <1>9 DEF Write, PlaceInv, Changing
<1>10. CASE Verify(d)
  BY <1>10 DEF Verify, PlaceInv, Changing
<1>11. CASE DecisionLocked(d)
  BY <1>11 DEF DecisionLocked
<1> QED
  BY <1>1, <1>2, <1>3, <1>4, <1>5, <1>6, <1>7, <1>8, <1>9, <1>10, <1>11 DEF DecisionStep

LEMMA TypeUndo ==
  ASSUME TypeOK, NEW u \in Undoers, UndoInv(u), \A d \in Deciders : PlaceInv(d),
         UndoStep(u) \/ \E d \in Deciders : Undo(u, d)
  PROVE  TypeOK'
<1> USE LocationFacts, ArgumentFacts DEF TypeOK, goto, rows, disk, threads, cancels,
      history, bounds, Text
<1>1. ASSUME NEW d \in Deciders, Undo(u, d) PROVE TypeOK'
  BY <1>1 DEF Undo
<1>2. CASE UndoFlush(u)
  BY <1>2 DEF UndoFlush
<1>3. CASE UndoLocked(u)
  BY <1>3 DEF UndoLocked
<1>4. CASE UndoCheck(u)
  BY <1>4 DEF UndoCheck
<1>5. CASE UndoCopy(u)
  <2>1. undoOf[u] \in Deciders /\ of[undoOf[u]] \in Overwrites
    BY <1>5 DEF UndoCopy, UndoInv, PlaceInv
  <2> QED
    BY <1>5, <2>1 DEF UndoCopy, RaceOn, target
<1>6. CASE UndoVerify(u)
  BY <1>6 DEF UndoVerify
<1>7. CASE UndoCommit(u)
  BY <1>7 DEF UndoCommit
<1> QED
  BY <1>1, <1>2, <1>3, <1>4, <1>5, <1>6, <1>7 DEF UndoStep

LEMMA TypeEnvironment ==
  ASSUME TypeOK, Environment
  PROVE  TypeOK'
<1> USE LocationFacts, ArgumentFacts, BoundsAssumption
    DEF TypeOK, rows, disk, threads, cancels, history, bounds, Text
<1>1. ASSUME NEW a \in Approvals, RequestApproval(a) PROVE TypeOK'
  BY <1>1 DEF RequestApproval
<1>2. ASSUME NEW a \in Approvals, ApprovalExpires(a) PROVE TypeOK'
  BY <1>2 DEF ApprovalExpires
<1>3. ASSUME NEW c \in Cancels, CancelEnds(c) PROVE TypeOK'
  BY <1>3 DEF CancelEnds
<1>4. ASSUME NEW c \in Cancels, NEW a \in Approvals, CancelRead(c, a) PROVE TypeOK'
  BY <1>4 DEF CancelRead
<1>5. ASSUME NEW p \in Paths, NEW c \in Contents \cup {Missing}, Edit(p, c) PROVE TypeOK'
  BY <1>5 DEF Edit, RaceOn
<1>6. CASE OtherTask
  BY <1>6 DEF OtherTask
<1>7. CASE Crash
  BY <1>7 DEF Crash
<1> QED
  BY <1>1, <1>2, <1>3, <1>4, <1>5, <1>6, <1>7 DEF Environment

-----------------------------------------------------------------------------
(* What a step leaves to a decision that does not itself move.             *)

(* Nobody changes the file between its check and its last look unnoticed.  *)
LEMMA FileUndisturbed ==
  ASSUME TypeOK, Next, NEW x \in Threads, NEW p, Between(x, p),
         pc'[x] = pc[x], p \notin raced'
  PROVE  file'[p] = file[p]
<1>1. ASSUME NEW e \in Deciders, Write(e) PROVE file'[p] = file[p]
  <2>1. e # x
    BY <1>1 DEF Write, goto, TypeOK
  <2>2. path(of[e]) # p
    BY <1>1, <2>1 DEF Write, RaceOn, Threads
  <2> QED
    BY <1>1, <2>2 DEF Write, TypeOK
<1>2. ASSUME NEW u \in Undoers, UndoCopy(u) PROVE file'[p] = file[p]
  <2>1. u # x
    BY <1>2 DEF UndoCopy, goto, TypeOK
  <2>2. target(u) # p
    BY <1>2, <2>1 DEF UndoCopy, RaceOn, Threads
  <2> QED
    BY <1>2, <2>2 DEF UndoCopy, TypeOK
<1>3. ASSUME NEW q \in Paths, NEW c \in Contents \cup {Missing}, Edit(q, c)
      PROVE  file'[p] = file[p]
  <2>1. q # p
    BY <1>3, NamesAssumption DEF Edit, RaceOn, Threads
  <2> QED
    BY <1>3, <2>1 DEF Edit, TypeOK
<1>4. ASSUME NEW e \in Deciders, DecisionStep(e), ~Write(e) PROVE UNCHANGED file
  BY <1>4 DEF DecisionStep, Reject, Expire, Invalidate, Finish, Settle, Act, Check, Backup,
     Verify, DecisionLocked, disk
<1>5. ASSUME NEW u \in Undoers, UndoStep(u), ~UndoCopy(u) PROVE UNCHANGED file
  BY <1>5 DEF UndoStep, UndoFlush, UndoLocked, UndoCheck, UndoVerify, UndoCommit, disk
<1>6. ASSUME NEW e \in Deciders, NEW a \in Approvals, Decide(e, a) PROVE UNCHANGED file
  BY <1>6 DEF Decide, disk
<1>7. ASSUME NEW u \in Undoers, NEW e \in Deciders, Undo(u, e) PROVE UNCHANGED file
  BY <1>7 DEF Undo, disk
<1>8. ASSUME Environment, ~\E q \in Paths, c \in Contents \cup {Missing} : Edit(q, c)
      PROVE  UNCHANGED file
  BY <1>8 DEF Environment, RequestApproval, ApprovalExpires, CancelEnds, CancelRead,
     OtherTask, Crash, disk
<1> QED
  BY <1>1, <1>2, <1>3, <1>4, <1>5, <1>6, <1>7, <1>8 DEF Next

(* The rows of an approval that was asked for, and of a decision, change   *)
(* only as the decision itself, its undo or another decision changes them. *)
Undisturbed ==
  /\ raced \subseteq raced'
  /\ \A a \in Approvals : status[a] # "none" =>
       status'[a] # "none" /\ expected'[a] = expected[a]
  /\ \A d \in Deciders : pc'[d] = pc[d] =>
       /\ of'[d] = of[d]
       /\ post'[d] = post[d]
       /\ undo'[d] = "none" <=> undo[d] = "none"
  /\ \A a \in Approvals : backup'[a] = backup[a] \/
       \E e \in Deciders : /\ pc[e] = "backup" /\ of[e] = a
                           /\ backup'[a] = file[path(a)]
                           /\ file[path(a)] # Missing

LEMMA RowsUndisturbed ==
  ASSUME Inv, Next
  PROVE  Undisturbed
<1>0. TypeOK /\ \A u \in Undoers : UndoInv(u)
  BY DEF Inv
<1>a. \A a \in Approvals : task[a] = "absent" => status[a] = "none"
  BY DEF Inv, StatusMatchesTask
<1>b. \A d \in Deciders : pc[d] \in Location /\ d \notin Undoers
  BY <1>0, NamesAssumption DEF TypeOK
<1> USE <1>0, <1>b DEF TypeOK, goto, rows, disk, threads, cancels, history, bounds, RaceOn,
      Undisturbed
<1>1. ASSUME NEW d \in Deciders, NEW a \in Approvals, Decide(d, a) PROVE Undisturbed
  BY <1>1 DEF Decide
<1>2. ASSUME NEW d \in Deciders, DecisionStep(d) PROVE Undisturbed
  <2>1. CASE Reject(d)
    BY <2>1 DEF Reject, Settle
  <2>2. CASE Expire(d)
    BY <2>2 DEF Expire, Settle
  <2>3. CASE Invalidate(d)
    BY <2>3 DEF Invalidate, Settle
  <2>4. CASE Finish(d)
    BY <2>4 DEF Finish, Settle
  <2>5. CASE Act(d)
    BY <2>5 DEF Act
  <2>6. CASE Check(d)
    BY <2>6 DEF Check
  <2>7. CASE Backup(d)
    BY <2>7 DEF Backup
  <2>8. CASE Write(d)
    BY <2>8 DEF Write
  <2>9. CASE Verify(d)
    BY <2>9 DEF Verify
  <2>10. CASE DecisionLocked(d)
    BY <2>10 DEF DecisionLocked
  <2> QED
    BY <1>2, <2>1, <2>2, <2>3, <2>4, <2>5, <2>6, <2>7, <2>8, <2>9, <2>10 DEF DecisionStep
<1>3. ASSUME NEW u \in Undoers, NEW d \in Deciders, Undo(u, d) PROVE Undisturbed
  BY <1>3 DEF Undo
<1>4. ASSUME NEW u \in Undoers, UndoStep(u) PROVE Undisturbed
  <2>1. CASE UndoCopy(u)
    BY <2>1 DEF UndoCopy
  <2>2. CASE UndoCommit(u)
    BY <2>2 DEF UndoCommit, UndoInv
  <2>3. CASE UndoFlush(u) \/ UndoLocked(u) \/ UndoCheck(u) \/ UndoVerify(u)
    BY <2>3 DEF UndoFlush, UndoLocked, UndoCheck, UndoVerify
  <2> QED
    BY <1>4, <2>1, <2>2, <2>3 DEF UndoStep
<1>5. CASE Environment
  <2>1. ASSUME NEW a \in Approvals, RequestApproval(a) PROVE Undisturbed
    BY <1>a, <2>1 DEF RequestApproval
  <2>2. ASSUME NEW p \in Paths, NEW c \in Contents \cup {Missing}, Edit(p, c)
        PROVE  Undisturbed
    BY <2>2 DEF Edit
  <2>3. ASSUME NEW a \in Approvals, ApprovalExpires(a) PROVE Undisturbed
    BY <2>3 DEF ApprovalExpires
  <2>4. ASSUME NEW c \in Cancels, CancelEnds(c) \/ \E a \in Approvals : CancelRead(c, a)
        PROVE  Undisturbed
    BY <2>4 DEF CancelEnds, CancelRead
  <2>5. CASE OtherTask \/ Crash
    BY <2>5 DEF OtherTask, Crash
  <2> QED
    BY <1>5, <2>1, <2>2, <2>3, <2>4, <2>5 DEF Environment
<1> QED
  BY <1>1, <1>2, <1>3, <1>4, <1>5 DEF Next

-----------------------------------------------------------------------------
(* A decision keeps its invariant.                                         *)

LEMMA DecisionAtRest ==
  ASSUME Inv, Next, NEW d \in Deciders, pc'[d] = pc[d]
  PROVE  DecisionInv(d)'
<1>0. Undisturbed
  BY RowsUndisturbed
<1>1. DecisionInv(d) /\ TypeOK
  BY DEF Inv
<1>2. PlaceInv(d)'
  BY <1>0, <1>1 DEF DecisionInv, PlaceInv, Undisturbed
<1>3. BackupInv(d)'
  <2> SUFFICES ASSUME of[d] \in Overwrites, pc[d] \in {"write", "verify"} \/ Recorded(d)
               PROVE  /\ backup'[of[d]] # Missing
                      /\ path(of[d]) \notin raced' => backup'[of[d]] = expected'[of[d]]
    BY <1>0 DEF BackupInv, Undisturbed, Recorded
  <2>1. of[d] \in Approvals /\ expected'[of[d]] = expected[of[d]]
    BY <1>0, <1>1 DEF DecisionInv, PlaceInv, Undisturbed, Recorded
  <2>2. CASE backup'[of[d]] = backup[of[d]]
    BY <1>0, <1>1, <2>1, <2>2 DEF DecisionInv, BackupInv, Undisturbed
  <2>3. CASE backup'[of[d]] # backup[of[d]]
    <3>1. PICK e \in Deciders : /\ pc[e] = "backup" /\ of[e] = of[d]
                                /\ backup'[of[d]] = file[path(of[d])]
                                /\ file[path(of[d])] # Missing
      BY <1>0, <2>1, <2>3 DEF Undisturbed
    <3>2. path(of[d]) \notin raced' => file[path(of[d])] = expected[of[d]]
      BY <1>0, <3>1 DEF Inv, DecisionInv, FileInv, Undisturbed
    <3> QED
      BY <2>1, <3>1, <3>2
  <2> QED
    BY <2>2, <2>3
<1>4. FileInv(d)'
  <2> SUFFICES ASSUME of[d] \in Overwrites, path(of[d]) \notin raced'
               PROVE  /\ pc[d] \in {"backup", "write"} =>
                           file'[path(of[d])] = expected'[of[d]]
                      /\ pc[d] = "verify" => file'[path(of[d])] = content(of[d])
                      /\ Recorded(d) => post[d] = content(of[d])
    BY <1>0 DEF FileInv, Undisturbed, Recorded
  <2>1. pc[d] # "idle" => expected'[of[d]] = expected[of[d]]
    BY <1>0, <1>1 DEF DecisionInv, PlaceInv, Undisturbed
  <2>2. pc[d] \in {"backup", "write", "verify"} => file'[path(of[d])] = file[path(of[d])]
    BY <1>1, FileUndisturbed DEF Between, Threads
  <2> QED
    BY <1>0, <1>1, <2>1, <2>2 DEF DecisionInv, FileInv, Undisturbed
<1> QED
  BY <1>2, <1>3, <1>4 DEF DecisionInv

LEMMA DecisionMoves ==
  ASSUME Inv, Next, NEW d \in Deciders, pc'[d] # pc[d]
  PROVE  DecisionInv(d)'
<1>1. TypeOK /\ DecisionInv(d) /\ Undisturbed /\ d \notin Undoers
  BY RowsUndisturbed, NamesAssumption DEF Inv
<1> USE <1>1 DEF TypeOK, goto, DecisionInv, PlaceInv, BackupInv, FileInv, Recorded, Changing,
      disk, rows, threads
<1>2. ASSUME NEW a \in Approvals, Decide(d, a) PROVE DecisionInv(d)'
  BY <1>2 DEF Decide
<1>3. CASE Reject(d) \/ Expire(d) \/ Invalidate(d)
  BY <1>3 DEF Reject, Expire, Invalidate, Settle, Undisturbed
<1>4. CASE Finish(d)
  BY <1>4 DEF Finish, Settle, Undisturbed
<1>5. CASE Act(d)
  BY <1>5 DEF Act
<1>6. CASE Check(d)
  BY <1>6 DEF Check, history
<1>7. CASE Backup(d)
  BY <1>7, ArgumentFacts DEF Backup, history
<1>8. CASE Write(d)
  BY <1>8, ArgumentFacts DEF Write, Undisturbed
<1>9. CASE Verify(d)
  BY <1>9, ArgumentFacts DEF Verify, history
<1>10. CASE DecisionLocked(d)
  BY <1>10, LocationFacts DEF DecisionLocked, history
<1>11. CASE Crash
  BY <1>11 DEF Crash, Active, Finished, history
<1>12. CASE Environment /\ ~Crash
  <2>1. UNCHANGED pc
    BY <1>12 DEF Environment, RequestApproval, ApprovalExpires, CancelEnds, CancelRead,
       Edit, OtherTask, threads
  <2> QED
    BY <2>1
<1>13. ASSUME NEW e \in Deciders, DecisionStep(e) \/ \E a \in Approvals : Decide(e, a), e # d
       PROVE  FALSE
  BY <1>13 DEF DecisionStep, Reject, Expire, Invalidate, Finish, Settle, Act, Check, Backup,
     Write, Verify, DecisionLocked, Decide
<1>14. ASSUME NEW u \in Undoers, UndoStep(u) \/ \E e \in Deciders : Undo(u, e)
       PROVE  FALSE
  BY <1>14 DEF UndoStep, UndoFlush, UndoLocked, UndoCheck, UndoCopy, UndoVerify, UndoCommit,
     Undo
<1> QED
  BY <1>2, <1>3, <1>4, <1>5, <1>6, <1>7, <1>8, <1>9, <1>10, <1>11, <1>12, <1>13, <1>14
     DEF Next, DecisionStep

-----------------------------------------------------------------------------
(* An undo keeps its invariant.                                            *)

LEMMA DoneStays ==
  ASSUME TypeOK, Next, NEW d \in Deciders, pc[d] = "done"
  PROVE  pc'[d] = "done"
<1> USE DEF TypeOK, goto, threads
<1>1. ASSUME NEW e \in Deciders, DecisionStep(e) \/ \E a \in Approvals : Decide(e, a)
      PROVE  pc'[d] = "done"
  BY <1>1 DEF DecisionStep, Reject, Expire, Invalidate, Finish, Settle, Act, Check, Backup,
     Write, Verify, DecisionLocked, Decide, CommitPoint
<1>2. ASSUME NEW u \in Undoers, UndoStep(u) \/ \E e \in Deciders : Undo(u, e)
      PROVE  pc'[d] = "done"
  BY <1>2 DEF UndoStep, UndoFlush, UndoLocked, UndoCheck, UndoCopy, UndoVerify, UndoCommit,
     Undo
<1>3. CASE Environment
  BY <1>3 DEF Environment, RequestApproval, ApprovalExpires, CancelEnds, CancelRead,
     Edit, OtherTask, Crash, Active, Finished
<1> QED
  BY <1>1, <1>2, <1>3 DEF Next

(* What an undo record is about stays as it was when the record was made.  *)
LEMMA RecordStays ==
  ASSUME Inv, Next, NEW d \in Deciders, undo[d] # "none"
  PROVE  /\ of[d] \in Overwrites
         /\ undo'[d] # "none" /\ of'[d] = of[d]
         /\ expected'[of[d]] = expected[of[d]]
<1>1. Undisturbed /\ pc[d] = "done" /\ of[d] \in Overwrites
  BY RowsUndisturbed DEF Inv, DecisionInv, PlaceInv
<1>2. pc'[d] = pc[d]
  BY <1>1, DoneStays DEF Inv
<1>3. status[of[d]] # "none"
  BY <1>1 DEF Inv, DecisionInv, PlaceInv
<1> QED
  BY <1>1, <1>2, <1>3, ArgumentFacts DEF Undisturbed

LEMMA UndoMoves ==
  ASSUME Inv, Next, NEW u \in Undoers
  PROVE  UndoInv(u)'
<1>1. TypeOK /\ UndoInv(u) /\ Undisturbed /\ u \notin Deciders
  BY RowsUndisturbed, NamesAssumption DEF Inv
<1> USE <1>1 DEF TypeOK, goto, disk, rows, threads
<1>2. ASSUME UndoStep(u) PROVE undoOf' = undoOf /\ pc[u] # "idle"
  BY <1>2 DEF UndoStep, UndoFlush, UndoLocked, UndoCheck, UndoCopy, UndoVerify, UndoCommit
<1>3. ASSUME pc'[u] = pc[u] PROVE UndoInv(u)'
  <2>1. undoOf'[u] = undoOf[u]
    <3>1. ASSUME NEW v \in Undoers, NEW e \in Deciders, Undo(v, e) PROVE v # u
      BY <1>3, <3>1 DEF Undo
    <3>2. ASSUME NEW v \in Undoers, UndoStep(v) PROVE undoOf' = undoOf
      BY <3>2 DEF UndoStep, UndoFlush, UndoLocked, UndoCheck, UndoCopy, UndoVerify, UndoCommit
    <3>3. ASSUME NEW e \in Deciders, DecisionStep(e) \/ \E a \in Approvals : Decide(e, a)
          PROVE  undoOf' = undoOf
      BY <3>3 DEF DecisionStep, Reject, Expire, Invalidate, Finish, Settle, Act, Check,
         Backup, Write, Verify, DecisionLocked, Decide
    <3>4. CASE Environment
      BY <3>4 DEF Environment, RequestApproval, ApprovalExpires, CancelEnds, CancelRead,
         Edit, OtherTask, Crash
    <3>5. ASSUME NEW v \in Undoers, NEW e \in Deciders, Undo(v, e)
          PROVE  undoOf'[u] = undoOf[u]
      BY <3>1, <3>5 DEF Undo
    <3> QED
      BY <3>2, <3>3, <3>4, <3>5 DEF Next
  <2>2. CASE pc[u] = "idle"
    BY <1>3, <2>2 DEF UndoInv
  <2>3. CASE pc[u] # "idle"
    <3> DEFINE d == undoOf[u]
    <3>1. /\ d \in Deciders /\ of[d] \in Overwrites
          /\ undo'[d] # "none" /\ of'[d] = of[d] /\ expected'[of[d]] = expected[of[d]]
      BY <2>3, RecordStays DEF UndoInv
    <3>2. pc[u] = "undoVerify" /\ target(u) \notin raced' => file'[target(u)] = file[target(u)]
      BY <1>3, FileUndisturbed DEF Between, Threads, target
    <3> QED
      BY <1>3, <2>1, <2>3, <3>1, <3>2 DEF UndoInv, target, Undisturbed
  <2> QED
    BY <2>2, <2>3
<1>4. ASSUME NEW d \in Deciders, Undo(u, d) PROVE UndoInv(u)'
  BY <1>4 DEF Undo, UndoInv
<1>5. ASSUME UndoStep(u) PROVE UndoInv(u)'
  <2> DEFINE d == undoOf[u]
  <2>1. /\ d \in Deciders /\ undo[d] # "none" /\ undo'[d] # "none"
        /\ of[d] \in Overwrites /\ of'[d] = of[d] /\ expected'[of[d]] = expected[of[d]]
    BY <1>2, <1>5, RecordStays DEF UndoInv
  <2>2. undoOf'[u] = d
    BY <1>2, <1>5
  <2>3. CASE UndoCopy(u)
    <3>1. target(u) \notin raced' => backup[of[d]] = expected[of[d]]
      BY <2>1 DEF Inv, DecisionInv, BackupInv, Recorded, target, Undisturbed
    <3> QED
      BY <2>1, <2>2, <2>3, <3>1, ArgumentFacts DEF UndoCopy, UndoInv, target
  <2>4. CASE UndoVerify(u)
    BY <2>1, <2>2, <2>4 DEF UndoVerify, UndoInv, target, history
  <2>5. CASE UndoCommit(u)
    BY <2>1, <2>2, <2>5 DEF UndoCommit, UndoInv, target, history
  <2>6. CASE UndoFlush(u) \/ UndoLocked(u) \/ UndoCheck(u)
    BY <2>1, <2>2, <2>6 DEF UndoFlush, UndoLocked, UndoCheck, UndoInv, target, history
  <2> QED
    BY <1>5, <2>3, <2>4, <2>5, <2>6 DEF UndoStep
<1>6. CASE Crash
  <2>1. undoOf' = undoOf /\ pc'[u] \in {pc[u], "crashed"} /\ (pc[u] = "idle" => pc'[u] = "idle")
    BY <1>6 DEF Crash, Active
  <2>2. CASE pc'[u] # pc[u]
    <3>1. undoOf[u] \in Deciders /\ undo'[undoOf[u]] # "none"
      BY <2>1, <2>2, RecordStays DEF UndoInv
    <3> QED
      BY <2>1, <2>2, <3>1 DEF UndoInv
  <2> QED
    BY <1>3, <2>2
<1>7. ASSUME NEW v \in Undoers, v # u, UndoStep(v) \/ \E e \in Deciders : Undo(v, e)
      PROVE  pc'[u] = pc[u]
  BY <1>7 DEF UndoStep, UndoFlush, UndoLocked, UndoCheck, UndoCopy, UndoVerify, UndoCommit,
     Undo
<1>8. ASSUME NEW e \in Deciders, DecisionStep(e) \/ \E a \in Approvals : Decide(e, a)
      PROVE  pc'[u] = pc[u]
  BY <1>8 DEF DecisionStep, Reject, Expire, Invalidate, Finish, Settle, Act, Check, Backup,
     Write, Verify, DecisionLocked, Decide
<1>9. ASSUME Environment, ~Crash PROVE pc'[u] = pc[u]
  BY <1>9 DEF Environment, RequestApproval, ApprovalExpires, CancelEnds, CancelRead, Edit,
     OtherTask
<1> QED
  BY <1>3, <1>4, <1>5, <1>6, <1>7, <1>8, <1>9 DEF Next

-----------------------------------------------------------------------------
(* An approval and its task.                                               *)

LEMMA StatusStep ==
  ASSUME TypeOK, StatusMatchesTask, Next, \A d \in Deciders : PlaceInv(d)
  PROVE  StatusMatchesTask'
<1> USE DEF TypeOK, goto, rows, threads, StatusMatchesTask, CommitPoint
<1>1. ASSUME NEW d \in Deciders, DecisionStep(d) PROVE StatusMatchesTask'
  <2>1. CASE Reject(d) \/ Expire(d) \/ Invalidate(d)
    BY <2>1 DEF Reject, Expire, Invalidate, Settle
  <2>2. CASE Finish(d)
    BY <2>2 DEF Finish, Settle
  <2>3. CASE Act(d) \/ Check(d) \/ Backup(d) \/ Write(d) \/ Verify(d) \/ DecisionLocked(d)
    BY <2>3 DEF Act, Check, Backup, Write, Verify, DecisionLocked
  <2> QED
    BY <1>1, <2>1, <2>2, <2>3 DEF DecisionStep
<1>2. ASSUME NEW d \in Deciders, NEW a \in Approvals, Decide(d, a) PROVE StatusMatchesTask'
  BY <1>2 DEF Decide
<1>3. ASSUME NEW u \in Undoers, UndoStep(u) \/ \E d \in Deciders : Undo(u, d)
      PROVE  StatusMatchesTask'
  BY <1>3 DEF UndoStep, UndoFlush, UndoLocked, UndoCheck, UndoCopy, UndoVerify, UndoCommit,
     Undo
<1>4. CASE Environment
  <2>1. ASSUME NEW a \in Approvals, RequestApproval(a) PROVE StatusMatchesTask'
    BY <2>1 DEF RequestApproval
  <2>2. ASSUME NEW c \in Cancels, CancelEnds(c) PROVE StatusMatchesTask'
    BY <2>2 DEF CancelEnds
  <2>3. ASSUME UNCHANGED <<task, status>> PROVE StatusMatchesTask'
    BY <2>3
  <2> QED
    BY <1>4, <2>1, <2>2, <2>3 DEF Environment, ApprovalExpires, CancelRead, Edit, OtherTask,
       Crash
<1> QED
  BY <1>1, <1>2, <1>3, <1>4 DEF Next

LEMMA ApprovedStep ==
  ASSUME Inv, Next
  PROVE  ApprovedOverwriteHasUndo'
<1>1. TypeOK /\ Undisturbed
  BY RowsUndisturbed DEF Inv
<1>2. ASSUME NEW a \in Overwrites, status[a] = "APPROVED"
      PROVE  backup'[a] # Missing /\ \E d \in Deciders : of'[d] = a /\ undo'[d] # "none"
  <2>1. PICK d \in Deciders : of[d] = a /\ undo[d] # "none"
    BY <1>2 DEF Inv, ApprovedOverwriteHasUndo
  <2>2. backup[a] # Missing
    BY <1>2 DEF Inv, ApprovedOverwriteHasUndo
  <2> QED
    BY <1>1, <2>1, <2>2, RecordStays, ArgumentFacts DEF Undisturbed
<1>3. ASSUME NEW a \in Overwrites, status[a] # "APPROVED", status'[a] = "APPROVED"
      PROVE  backup'[a] # Missing /\ \E d \in Deciders : of'[d] = a /\ undo'[d] # "none"
  <2>1. ASSUME NEW d \in Deciders, DecisionStep(d), ~Finish(d) PROVE FALSE
    BY <1>1, <1>3, <2>1, ArgumentFacts DEF DecisionStep, Reject, Expire, Invalidate, Settle,
       Act, Check, Backup, Write, Verify, DecisionLocked, rows, TypeOK
  <2>2. ASSUME NEW d \in Deciders, Finish(d)
        PROVE  backup'[a] # Missing /\ \E e \in Deciders : of'[e] = a /\ undo'[e] # "none"
    <3>1. of[d] = a /\ pc[d] = "finish" /\ UNCHANGED <<of, backup>>
      BY <1>1, <1>3, <2>2, ArgumentFacts DEF Finish, Settle, disk, TypeOK, goto
    <3>2. backup[a] # Missing
      BY <1>3, <3>1 DEF Inv, DecisionInv, BackupInv, Recorded
    <3>3. undo'[d] # "none"
      BY <1>1, <1>3, <2>2, <3>1 DEF Finish, TypeOK
    <3> QED
      BY <3>1, <3>2, <3>3
  <2>3. ASSUME NEW d \in Deciders, NEW b \in Approvals, Decide(d, b) PROVE FALSE
    BY <1>3, <2>3 DEF Decide, rows
  <2>4. ASSUME NEW u \in Undoers, UndoStep(u) \/ \E d \in Deciders : Undo(u, d) PROVE FALSE
    BY <1>3, <2>4 DEF UndoStep, UndoFlush, UndoLocked, UndoCheck, UndoCopy, UndoVerify,
       UndoCommit, Undo, rows
  <2>5. CASE Environment
    BY <1>1, <1>3, <2>5, ArgumentFacts DEF Environment, RequestApproval, ApprovalExpires,
       CancelEnds, CancelRead, Edit, OtherTask, Crash, rows, TypeOK
  <2> QED
    BY <2>1, <2>2, <2>3, <2>4, <2>5 DEF Next
<1> QED
  BY <1>2, <1>3 DEF ApprovedOverwriteHasUndo

-----------------------------------------------------------------------------
(* Inv is inductive.                                                       *)

LEMMA InitInv == Init => Inv
<1> SUFFICES ASSUME Init PROVE Inv
  OBVIOUS
<1>1. TypeOK
  BY TypeInit
<1>2. StatusMatchesTask /\ ApprovedOverwriteHasUndo
  BY ArgumentFacts DEF Init, StatusMatchesTask, ApprovedOverwriteHasUndo
<1>3. ASSUME NEW d \in Deciders PROVE DecisionInv(d)
  BY DEF Init, DecisionInv, PlaceInv, BackupInv, FileInv, Recorded, Changing
<1>4. ASSUME NEW u \in Undoers PROVE UndoInv(u)
  BY DEF Init, UndoInv
<1> QED
  BY <1>1, <1>2, <1>3, <1>4 DEF Inv

LEMMA NextInv == Inv /\ [Next]_vars => Inv'
<1>1. ASSUME Inv, Next PROVE Inv'
  <2>1. TypeOK'
    BY <1>1, TypeDecision, TypeUndo, TypeEnvironment DEF Next, Inv, DecisionInv
  <2>2. StatusMatchesTask'
    BY <1>1, StatusStep DEF Inv, DecisionInv
  <2>3. ApprovedOverwriteHasUndo'
    BY <1>1, ApprovedStep
  <2>4. ASSUME NEW d \in Deciders PROVE DecisionInv(d)'
    BY <1>1, DecisionAtRest, DecisionMoves
  <2>5. ASSUME NEW u \in Undoers PROVE UndoInv(u)'
    BY <1>1, UndoMoves
  <2> QED
    BY <2>1, <2>2, <2>3, <2>4, <2>5 DEF Inv
<1>2. ASSUME Inv, UNCHANGED vars PROVE Inv'
  BY <1>2 DEF vars, rows, disk, threads, cancels, history, bounds, Inv, TypeOK,
     StatusMatchesTask, ApprovedOverwriteHasUndo, DecisionInv, PlaceInv, BackupInv, FileInv,
     Recorded, UndoInv, target
<1> QED
  BY <1>1, <1>2

(* The invariant the theorems below rest on, at every reachable state.     *)
THEOREM Invariance == Spec => []Inv
BY InitInv, NextInv, PTL DEF Spec

(* Every variable keeps its type, whatever the threads do.                 *)
THEOREM TypeCorrectness == Spec => []TypeOK
<1>1. Inv => TypeOK
  BY DEF Inv
<1> QED
  BY Invariance, <1>1, PTL

(* An approval and its task are decided together.                          *)
THEOREM DecidedTogether == Spec => []StatusMatchesTask
<1>1. Inv => StatusMatchesTask
  BY DEF Inv
<1> QED
  BY Invariance, <1>1, PTL

(* An overwrite that is approved in the database can be undone.            *)
THEOREM ApprovedCanBeUndone == Spec => []ApprovedOverwriteHasUndo
<1>1. Inv => ApprovedOverwriteHasUndo
  BY DEF Inv
<1> QED
  BY Invariance, <1>1, PTL

(* A file nobody raced on can be restored from every record about it.      *)
THEOREM GoodRecords == Spec => []UndoRecordsAreGood
<1>1. Inv => UndoRecordsAreGood
  <2> SUFFICES ASSUME Inv, NEW d \in Deciders, undo[d] # "none"
               PROVE  /\ backup[of[d]] # Missing
                      /\ path(of[d]) \notin raced =>
                           backup[of[d]] = expected[of[d]] /\ post[d] = content(of[d])
    BY DEF UndoRecordsAreGood
  <2> QED
    BY DEF Inv, DecisionInv, PlaceInv, BackupInv, FileInv, Recorded
<1> QED
  BY Invariance, <1>1, PTL

(* An undo changes the file to what it was, or not at all, unless somebody *)
(* raced on it.                                                            *)
THEOREM AllOrNothing == Spec => []UndoIsAllOrNothing
<1>1. Inv => UndoIsAllOrNothing
  BY DEF Inv, UndoInv, UndoIsAllOrNothing
<1> QED
  BY Invariance, <1>1, PTL

-----------------------------------------------------------------------------
(* Action properties.                                                      *)

(* An overwrite replaces the very text its approval was asked for.         *)
THEOREM ApprovedTextOnly == Spec => OnlyApprovedTextIsReplaced
<1> DEFINE Replaces ==
      \A d \in Deciders : d \in acted' \ acted /\ of[d] \in Overwrites =>
        file[path(of[d])] = expected[of[d]] \/ path(of[d]) \in raced
<1>1. Inv /\ [Next]_vars => [Replaces]_vars
  <2> SUFFICES ASSUME Inv, Next, NEW d \in Deciders, d \in acted' \ acted,
                      of[d] \in Overwrites
               PROVE  file[path(of[d])] = expected[of[d]] \/ path(of[d]) \in raced
    OBVIOUS
  <2>1. ASSUME NEW e \in Deciders, DecisionStep(e)
        PROVE  e = d /\ (Write(d) \/ Act(d))
    BY <2>1 DEF DecisionStep, Reject, Expire, Invalidate, Finish, Settle, Act, Check, Backup,
       Write, Verify, DecisionLocked, history
  <2>2. ASSUME NEW e \in Deciders, NEW a \in Approvals, Decide(e, a) PROVE FALSE
    BY <2>2 DEF Decide, history
  <2>3. ASSUME NEW u \in Undoers, UndoStep(u) \/ \E e \in Deciders : Undo(u, e) PROVE FALSE
    BY <2>3 DEF UndoStep, UndoFlush, UndoLocked, UndoCheck, UndoCopy, UndoVerify, UndoCommit,
       Undo, history
  <2>4. CASE Environment
    BY <2>4 DEF Environment, RequestApproval, ApprovalExpires, CancelEnds, CancelRead, Edit,
       OtherTask, Crash, history
  <2>5. CASE Write(d)
    BY <2>5 DEF Write, goto, Inv, DecisionInv, FileInv
  <2>6. CASE Act(d)
    BY <2>6 DEF Act, goto, Inv, DecisionInv, PlaceInv
  <2> QED
    BY <2>1, <2>2, <2>3, <2>4, <2>5, <2>6 DEF Next
<1> QED
  BY Invariance, <1>1, PTL DEF Spec, OnlyApprovedTextIsReplaced

(* A decided approval nobody is working on is left alone for ever.         *)
THEOREM DecidedOnce == Spec => DecidedApprovalsRest
<1> DEFINE Rests ==
      \A a \in Approvals : AtRest(a) => AtRest(a)' /\ status'[a] = status[a]
<1>1. Inv /\ [Next]_vars => [Rests]_vars
  <2> SUFFICES ASSUME Inv, Next, NEW a \in Approvals, AtRest(a)
               PROVE  AtRest(a)' /\ status'[a] = status[a]
    OBVIOUS
  <2>0. TypeOK /\ task[a] # "absent" /\ ~(status[a] = "PENDING" /\ task[a] \notin {"CANCELLED", "FAILED"})
    BY DEF Inv, AtRest, StatusMatchesTask
  <2> USE <2>0 DEF TypeOK, AtRest, Quiet, Active, goto, rows, threads, CommitPoint, Finished
  <2>1. ASSUME NEW d \in Deciders, DecisionStep(d)
        PROVE  AtRest(a)' /\ status'[a] = status[a]
    <3>1. of[d] # a
      BY <2>1 DEF DecisionStep, Reject, Expire, Invalidate, Finish, Settle, Act, Check,
         Backup, Write, Verify, DecisionLocked
    <3>2. UNCHANGED of /\ \A e \in Deciders : e # d => pc'[e] = pc[e]
      BY <2>1 DEF DecisionStep, Reject, Expire, Invalidate, Finish, Settle, Act, Check,
         Backup, Write, Verify, DecisionLocked
    <3>3. status'[a] = status[a] /\ task'[a] = task[a]
      BY <2>1, <3>1 DEF DecisionStep, Reject, Expire, Invalidate, Finish, Settle, Act, Check,
         Backup, Write, Verify, DecisionLocked
    <3> QED
      BY <3>1, <3>2, <3>3
  <2>2. ASSUME NEW d \in Deciders, NEW b \in Approvals, Decide(d, b)
        PROVE  AtRest(a)' /\ status'[a] = status[a]
    BY <2>2 DEF Decide, Open
  <2>3. ASSUME NEW u \in Undoers, UndoStep(u) \/ \E e \in Deciders : Undo(u, e)
        PROVE  AtRest(a)' /\ status'[a] = status[a]
    <3>1. UNCHANGED <<of, status, task>> /\ \A e \in Deciders : pc'[e] = pc[e]
      BY <2>3, NamesAssumption DEF UndoStep, UndoFlush, UndoLocked, UndoCheck, UndoCopy, UndoVerify,
         UndoCommit, Undo
    <3> QED
      BY <3>1
  <2>4. CASE Environment
    BY <2>4 DEF Environment, RequestApproval, ApprovalExpires, CancelEnds, CancelRead, Edit,
       OtherTask, Crash
  <2> QED
    BY <2>1, <2>2, <2>3, <2>4 DEF Next
<1> QED
  BY Invariance, <1>1, PTL DEF Spec, DecidedApprovalsRest

-----------------------------------------------------------------------------
(* How far a rejection is to be relied on.                                 *)

Overruled(a) == \E e \in Deciders \ acted : of[e] = a /\ pc[e] = "done"

(* Whoever stores a rejection has done nothing.                            *)
RejectInv ==
  /\ \A d \in Deciders :
       pc[d] \in {"idle", "check", "backup", "write", "act", "reject", "expire"} => d \notin acted
  /\ \A a \in Approvals : status[a] \in {"REJECTED", "EXPIRED"} => Overruled(a)

LEMMA RejectStep == Inv /\ RejectInv /\ [Next]_vars => RejectInv'
<1> SUFFICES ASSUME Inv, RejectInv, [Next]_vars PROVE RejectInv'
  OBVIOUS
<1>0. TypeOK /\ Deciders \cap Undoers = {} /\ \A d \in Deciders : PlaceInv(d)
  BY NamesAssumption DEF Inv, DecisionInv
<1> USE <1>0 DEF TypeOK, RejectInv, Overruled, goto, rows, disk, threads, cancels, history, bounds
<1>1. ASSUME NEW d \in Deciders, Reject(d) \/ Expire(d) PROVE RejectInv'
  <2>1. /\ d \notin acted /\ pc' = [pc EXCEPT ![d] = "done"] /\ UNCHANGED <<of, acted>>
        /\ \A a \in Approvals : a # of[d] => status'[a] = status[a]
    BY <1>1 DEF Reject, Expire, Settle
  <2> QED
    BY <2>1
<1>2. ASSUME NEW d \in Deciders, Invalidate(d) \/ Finish(d) PROVE RejectInv'
  <2>1. /\ pc' = [pc EXCEPT ![d] = "done"] /\ UNCHANGED <<of, acted>>
        /\ \A a \in Approvals : status'[a] \in {"REJECTED", "EXPIRED"} => status'[a] = status[a]
    BY <1>2 DEF Invalidate, Finish, Settle
  <2> QED
    BY <2>1
<1>3. ASSUME NEW d \in Deciders, Act(d) \/ Check(d) \/ Backup(d) \/ Write(d) \/ Verify(d) \/ DecisionLocked(d)
      PROVE  RejectInv'
  <2>1. /\ pc[d] # "done" /\ UNCHANGED <<of, status>>
        /\ \E to \in Location \ {"idle", "act", "reject", "expire"} :
             pc' = [pc EXCEPT ![d] = to]
        /\ acted' = acted \/ (acted' = acted \cup {d} /\ pc'[d] \in {"finish", "verify", "invalidate"})
        /\ pc'[d] \in {"check", "backup", "write"} => d \notin acted'
    BY <1>3, LocationFacts DEF Act, Check, Backup, Write, Verify, DecisionLocked
  <2> QED
    BY <2>1
<1>4. ASSUME NEW d \in Deciders, NEW a \in Approvals, Decide(d, a) PROVE RejectInv'
  <2>1. /\ d \notin acted /\ UNCHANGED <<status, acted>> /\ of' = [of EXCEPT ![d] = a]
        /\ pc[d] = "idle" /\ \E to \in Location : pc' = [pc EXCEPT ![d] = to]
    BY <1>4, LocationFacts DEF Decide
  <2> QED
    BY <2>1
<1>5. ASSUME NEW u \in Undoers, UndoStep(u) \/ \E d \in Deciders : Undo(u, d) PROVE RejectInv'
  <2>1. UNCHANGED <<status, acted, of>> /\ \A d \in Deciders : pc'[d] = pc[d]
    BY <1>5 DEF UndoStep, UndoFlush, UndoLocked, UndoCheck, UndoCopy, UndoVerify, UndoCommit, Undo
  <2> QED
    BY <2>1
<1>6. CASE Environment
  <2>1. UNCHANGED <<acted, of>>
    BY <1>6 DEF Environment, RequestApproval, ApprovalExpires, CancelEnds, CancelRead, Edit,
       OtherTask, Crash
  <2>2. \A d \in Deciders : pc'[d] = pc[d] \/ (pc[d] # "done" /\ pc'[d] = "crashed")
    BY <1>6 DEF Environment, RequestApproval, ApprovalExpires, CancelEnds, CancelRead, Edit,
       OtherTask, Crash, Active, Finished
  <2>3. \A a \in Approvals : status'[a] \in {"REJECTED", "EXPIRED"} => status'[a] = status[a]
    BY <1>6 DEF Environment, RequestApproval, ApprovalExpires, CancelEnds, CancelRead, Edit,
       OtherTask, Crash
  <2> QED
    BY <2>1, <2>2, <2>3
<1>7. CASE UNCHANGED vars
  BY <1>7 DEF vars
<1> QED
  BY <1>1, <1>2, <1>3, <1>4, <1>5, <1>6, <1>7 DEF Next, DecisionStep

(* A tool whose approval ends up rejected or expired has run only when a    *)
(* second request, which did nothing else, decided the same approval while *)
(* the first was at work: one decision alone is what it is recorded to be. *)
THEOREM RejectionNeedsAnother ==
  Spec => [](\A d \in acted : status[of[d]] \in {"REJECTED", "EXPIRED"} =>
               \E e \in Deciders \ acted : of[e] = of[d] /\ pc[e] = "done")
<1>1. Init => RejectInv
  BY DEF Init, RejectInv
<1>2. Inv /\ RejectInv => \A d \in acted : status[of[d]] \in {"REJECTED", "EXPIRED"} =>
        \E e \in Deciders \ acted : of[e] = of[d] /\ pc[e] = "done"
  <2> SUFFICES ASSUME Inv, RejectInv, NEW d \in acted, status[of[d]] \in {"REJECTED", "EXPIRED"}
               PROVE  Overruled(of[d])
    BY DEF Overruled
  <2>1. pc[d] # "idle" /\ d \in Deciders
    BY DEF Inv, TypeOK, RejectInv
  <2>2. of[d] \in Approvals
    BY <2>1 DEF Inv, DecisionInv, PlaceInv
  <2> QED
    BY <2>2 DEF RejectInv
<1> QED
  BY Invariance, RejectStep, <1>1, <1>2, PTL DEF Spec
-----------------------------------------------------------------------------
(* The promise of ApprovalGate.  Told names what the gate shows of a state. *)

Asked == {a \in Approvals : task[a] # "absent"}
Opened == {a \in Approvals : Open(a)}
Came == {d \in Deciders : pc[d] # "idle"}
Inside == [d \in Deciders |-> IF Active(d) THEN of[d] ELSE NoOne]
Told == <<Asked, status, Opened, Came, Inside, acted>>

(* Whoever stores a consent has acted, and a task that is being cancelled   *)
(* was asked for.                                                           *)
ActedInv ==
  /\ \A d \in Deciders : pc[d] \in {"verify", "finish"} => d \in acted
  /\ \A c \in Cancels : cancelPc[c] = "commit" =>
       cancelOf[c] \in Approvals /\ task[cancelOf[c]] # "absent"

LEMMA ActedStep == Inv /\ ActedInv /\ [Next]_vars => ActedInv'
<1> SUFFICES ASSUME Inv, ActedInv, [Next]_vars PROVE ActedInv'
  OBVIOUS
<1>0. TypeOK /\ Deciders \cap Undoers = {}
  BY NamesAssumption DEF Inv
<1> USE <1>0 DEF TypeOK, ActedInv, goto, rows, disk, threads, cancels, history, bounds
<1>1. ASSUME NEW d \in Deciders, Reject(d) \/ Expire(d) \/ Invalidate(d) \/ Finish(d)
      PROVE  ActedInv'
  <2>1. /\ pc' = [pc EXCEPT ![d] = "done"] /\ UNCHANGED <<cancelPc, cancelOf, acted>>
        /\ \A a \in Approvals : task'[a] = "absent" => task[a] = "absent"
    <3>1. CASE Reject(d) \/ Expire(d) \/ Invalidate(d)
      BY <3>1 DEF Reject, Expire, Invalidate, Settle
    <3>2. CASE Finish(d)
      BY <3>2 DEF Finish, Settle
    <3> QED
      BY <1>1, <3>1, <3>2
  <2> QED
    BY <2>1
<1>2. ASSUME NEW d \in Deciders,
             Act(d) \/ Check(d) \/ Backup(d) \/ Write(d) \/ Verify(d) \/ DecisionLocked(d)
      PROVE  ActedInv'
  <2>1. /\ UNCHANGED <<task, cancelPc, cancelOf>>
        /\ \E to \in Location : pc' = [pc EXCEPT ![d] = to]
        /\ acted \subseteq acted'
        /\ pc'[d] \in {"verify", "finish"} => d \in acted'
    BY <1>2, LocationFacts DEF Act, Check, Backup, Write, Verify, DecisionLocked
  <2> QED
    BY <2>1
<1>3. ASSUME NEW d \in Deciders, NEW a \in Approvals, Decide(d, a) PROVE ActedInv'
  <2>1. /\ UNCHANGED <<task, cancelPc, cancelOf, acted>>
        /\ \E to \in Location \ {"verify", "finish"} : pc' = [pc EXCEPT ![d] = to]
    BY <1>3, LocationFacts DEF Decide
  <2> QED
    BY <2>1
<1>4. ASSUME NEW u \in Undoers, UndoStep(u) \/ \E d \in Deciders : Undo(u, d) PROVE ActedInv'
  <2>1. UNCHANGED <<task, cancelPc, cancelOf, acted>> /\ \A d \in Deciders : pc'[d] = pc[d]
    BY <1>4 DEF UndoStep, UndoFlush, UndoLocked, UndoCheck, UndoCopy, UndoVerify, UndoCommit, Undo
  <2> QED
    BY <2>1
<1>5. CASE Environment
  <2>1. ASSUME NEW a \in Approvals, RequestApproval(a) PROVE ActedInv'
    BY <2>1 DEF RequestApproval
  <2>2. ASSUME NEW c \in Cancels, CancelEnds(c) PROVE ActedInv'
    BY <2>2 DEF CancelEnds
  <2>3. ASSUME NEW c \in Cancels, NEW a \in Approvals, CancelRead(c, a) PROVE ActedInv'
    BY <2>3 DEF CancelRead
  <2>4. CASE Crash
    BY <2>4 DEF Crash, Active, Finished
  <2>5. ASSUME UNCHANGED <<task, pc, cancelPc, cancelOf, acted>> PROVE ActedInv'
    BY <2>5
  <2> QED
    BY <1>5, <2>1, <2>2, <2>3, <2>4, <2>5 DEF Environment, ApprovalExpires, Edit, OtherTask
<1>6. CASE UNCHANGED vars
  BY <1>6 DEF vars
<1> QED
  BY <1>1, <1>2, <1>3, <1>4, <1>5, <1>6 DEF Next, DecisionStep

(* What neither decides nor moves a decision from one side of the gate to  *)
(* the other is not seen there.                                            *)
LEMMA Untold ==
  ASSUME UNCHANGED <<task, status, acted, of>>,
         \A d \in Deciders : (pc'[d] = "idle" <=> pc[d] = "idle") /\ (Active(d)' <=> Active(d))
  PROVE  UNCHANGED Told
<1>1. UNCHANGED <<Asked, Opened>>
  BY DEF Asked, Opened, Open
<1>2. UNCHANGED <<Came, Inside>>
  BY DEF Came, Inside
<1> QED
  BY <1>1, <1>2 DEF Told

LEMMA SettleTold ==
  ASSUME Inv, RejectInv, ActedInv, NEW d \in Deciders,
         Reject(d) \/ Expire(d) \/ Invalidate(d) \/ Finish(d)
  PROVE  Gate!Next
<1>0. TypeOK /\ Deciders \cap Undoers = {}
  BY NamesAssumption DEF Inv
<1>1. of[d] \in Approvals /\ task[of[d]] # "absent" /\ of[d] # NoOne
  <2>1. pc[d] # "idle"
    BY DEF Reject, Expire, Invalidate, Finish, Settle, goto
  <2>2. of[d] \in Approvals /\ status[of[d]] # "none"
    BY <2>1 DEF Inv, DecisionInv, PlaceInv
  <2> QED
    BY <2>2, NamesAssumption DEF Inv, StatusMatchesTask
<1>2. PICK decision \in {"APPROVED", "REJECTED", "EXPIRED", "INVALIDATED"} :
        /\ status' = [status EXCEPT ![of[d]] = decision]
        /\ decision \in {"REJECTED", "EXPIRED"} => d \notin acted
        /\ decision = "APPROVED" => d \in acted
  <2>1. CASE Reject(d)
    BY <2>1 DEF Reject, Settle, goto, RejectInv
  <2>2. CASE Expire(d)
    BY <2>2 DEF Expire, Settle, goto, RejectInv
  <2>3. CASE Invalidate(d)
    BY <2>3 DEF Invalidate, Settle
  <2>4. CASE Finish(d)
    BY <2>4 DEF Finish, Settle, goto, ActedInv
  <2> QED
    BY <2>1, <2>2, <2>3, <2>4
<1>3. PICK from \in CommitPoint, state \in {"COMPLETED", "FAILED", "BLOCKED"} :
        /\ pc[d] = from /\ pc' = [pc EXCEPT ![d] = "done"]
        /\ task' = [task EXCEPT ![of[d]] = state]
        /\ UNCHANGED <<of, acted>>
  BY DEF Reject, Expire, Invalidate, Finish, Settle, goto, CommitPoint, threads, history
<1>4. Inside[d] = of[d] /\ Inside' = [Inside EXCEPT ![d] = NoOne]
  BY <1>0, <1>3 DEF Inside, Active, Finished, CommitPoint, TypeOK
<1>5. Came' = Came
  BY <1>0, <1>3 DEF Came, CommitPoint, TypeOK
<1>6. Asked' = Asked
  BY <1>0, <1>1, <1>3 DEF Asked, TypeOK
<1>7. Opened' = Opened \ {of[d]}
  BY <1>0, <1>1, <1>2, <1>3 DEF Opened, Open, TypeOK
<1>8. Gate!Store(d, decision)
  BY <1>1, <1>2, <1>3, <1>4, <1>5, <1>6, <1>7
     DEF Gate!Store, Asked, Opened, Came, Inside
<1> QED
  BY <1>8 DEF Gate!Next

LEMMA ToolTold ==
  ASSUME Inv, RejectInv, NEW d \in Deciders,
         Act(d) \/ Check(d) \/ Backup(d) \/ Write(d) \/ Verify(d) \/ DecisionLocked(d)
  PROVE  Gate!Next \/ UNCHANGED Told
<1>0. TypeOK /\ Deciders \cap Undoers = {}
  BY NamesAssumption DEF Inv
<1>1. UNCHANGED <<task, status, of>>
  BY DEF Act, Check, Backup, Write, Verify, DecisionLocked, rows
<1>2. CASE DecisionLocked(d)
  <2>1. pc[d] \in CommitPoint /\ pc' = [pc EXCEPT ![d] = "locked"] /\ acted' = acted
    BY <1>2 DEF DecisionLocked, goto, history
  <2>2. UNCHANGED <<Asked, Opened>>
    BY <1>1 DEF Asked, Opened, Open
  <2>3. Came' = Came
    BY <1>0, <2>1 DEF Came, CommitPoint, TypeOK
  <2>4. Inside' = [e \in Deciders |-> IF e \in {d} THEN NoOne ELSE Inside[e]]
    BY <1>0, <1>1, <2>1 DEF Inside, Active, Finished, TypeOK
  <2>5. Gate!Leave({d})
    BY <1>1, <2>1, <2>2, <2>3, <2>4 DEF Gate!Leave, Asked, Opened, Came, Inside
  <2> QED
    BY <2>5 DEF Gate!Next
<1>3. CASE ~DecisionLocked(d)
  <2>1. /\ ~(pc[d] \in Finished \cup {"idle"})
        /\ \E to \in Location \ (Finished \cup {"idle"}) : pc' = [pc EXCEPT ![d] = to]
    BY <1>3, LocationFacts DEF Act, Check, Backup, Write, Verify, goto, Finished
  <2>2. \A e \in Deciders : (pc'[e] = "idle" <=> pc[e] = "idle") /\ (Active(e)' <=> Active(e))
    BY <1>0, <2>1 DEF Active, TypeOK
  <2>3. CASE acted' = acted
    BY <1>1, <2>2, <2>3, Untold
  <2>4. CASE acted' # acted
    <3>1. acted' = acted \cup {d} /\ d \notin acted
      BY <1>3, <2>4 DEF Act, Check, Backup, Write, Verify, history, goto, RejectInv
    <3>2. UNCHANGED <<Asked, Opened>>
      BY <1>1 DEF Asked, Opened, Open
    <3>3. UNCHANGED <<Came, Inside>>
      BY <1>1, <2>2 DEF Came, Inside
    <3>4. Inside[d] = of[d] /\ of[d] # NoOne
      BY <2>1, NamesAssumption DEF Inside, Active, Inv, DecisionInv, PlaceInv
    <3>5. Gate!Act(d)
      BY <1>1, <3>1, <3>2, <3>3, <3>4 DEF Gate!Act, Asked, Opened, Came, Inside
    <3> QED
      BY <3>5 DEF Gate!Next
  <2> QED
    BY <2>3, <2>4
<1> QED
  BY <1>2, <1>3

LEMMA DecideTold ==
  ASSUME Inv, NEW d \in Deciders, NEW a \in Approvals, Decide(d, a)
  PROVE  Gate!Next
<1>0. TypeOK /\ Deciders \cap Undoers = {}
  BY NamesAssumption DEF Inv
<1>1. UNCHANGED <<task, status, acted>> /\ pc[d] = "idle" /\ of' = [of EXCEPT ![d] = a]
  BY DEF Decide, rows, history
<1>2. UNCHANGED <<Asked, Opened>>
  BY <1>1 DEF Asked, Opened, Open
<1>3. PICK to \in Location : to # "idle" /\ pc' = [pc EXCEPT ![d] = to] /\ (to = "refused" \/ a \in Opened)
  BY LocationFacts DEF Decide, goto, Opened, Open
<1>4. d \notin Came /\ Came' = Came \cup {d}
  BY <1>0, <1>1, <1>3 DEF Came, TypeOK
<1>5. Inside' = [Inside EXCEPT ![d] = IF to \in Finished THEN NoOne ELSE a]
  BY <1>0, <1>1, <1>3 DEF Inside, Active, TypeOK
<1>6. Inside[d] = NoOne
  BY <1>1 DEF Inside, Active
<1>7. Inside' = Inside \/ (a \in Opened /\ Inside' = [Inside EXCEPT ![d] = a])
  <2>1. CASE to \in Finished
    BY <1>5, <1>6, <2>1 DEF Inside
  <2>2. CASE to \notin Finished
    BY <1>3, <1>5, <2>2 DEF Finished
  <2> QED
    BY <2>1, <2>2
<1>8. Gate!Come(d, a)
  BY <1>1, <1>2, <1>4, <1>7 DEF Gate!Come, Asked, Opened, Came, Inside
<1> QED
  BY <1>8 DEF Gate!Next

LEMMA OtherTold ==
  ASSUME Inv, ActedInv,
         Environment \/ \E u \in Undoers : UndoStep(u) \/ \E d \in Deciders : Undo(u, d)
  PROVE  Gate!Next \/ UNCHANGED Told
<1>0. TypeOK /\ Deciders \cap Undoers = {}
  BY NamesAssumption DEF Inv
<1>1. ASSUME NEW u \in Undoers, UndoStep(u) \/ \E d \in Deciders : Undo(u, d)
      PROVE  UNCHANGED Told
  <2>1. UNCHANGED <<task, status, acted, of>> /\ \A d \in Deciders : pc'[d] = pc[d]
    BY <1>0, <1>1 DEF UndoStep, UndoFlush, UndoLocked, UndoCheck, UndoCopy, UndoVerify,
       UndoCommit, Undo, goto, TypeOK, rows, history
  <2> QED
    BY <2>1, Untold DEF Active
<1>2. ASSUME NEW a \in Approvals, RequestApproval(a) PROVE Gate!Next
  <2>1. UNCHANGED <<pc, of, acted>>
    BY <1>2 DEF RequestApproval, threads, history
  <2>2. UNCHANGED <<Came, Inside>>
    BY <2>1 DEF Came, Inside, Active
  <2>3. a \notin Asked /\ Asked' = Asked \cup {a}
    BY <1>0, <1>2 DEF RequestApproval, Asked, TypeOK
  <2>4. \/ status' = [status EXCEPT ![a] = "PENDING"] /\ Opened' = Opened \cup {a}
        \/ UNCHANGED <<status, Opened>>
    <3>1. status[a] = "none"
      BY <1>0, <1>2 DEF RequestApproval, Inv, StatusMatchesTask, TypeOK
    <3> QED
      BY <1>0, <1>2, <3>1 DEF RequestApproval, Opened, Open, TypeOK
  <2>5. Gate!Ask(a)
    BY <2>1, <2>2, <2>3, <2>4 DEF Gate!Ask, Asked, Opened, Came, Inside
  <2> QED
    BY <2>5 DEF Gate!Next
<1>3. ASSUME NEW c \in Cancels, CancelEnds(c) PROVE Gate!Next \/ UNCHANGED Told
  <2>0. /\ cancelOf[c] \in Approvals /\ task[cancelOf[c]] # "absent"
        /\ UNCHANGED <<pc, of, acted, status>>
        /\ task' = [task EXCEPT ![cancelOf[c]] = "CANCELLED"] \/ task' = task
    BY <1>3 DEF CancelEnds, ActedInv, threads, history
  <2> DEFINE a == cancelOf[c]
  <2>1. UNCHANGED <<Came, Inside>>
    BY <2>0 DEF Came, Inside, Active
  <2>2. Asked' = Asked
    BY <1>0, <2>0 DEF Asked, TypeOK
  <2>3. Opened' = Opened \/ (a \in Opened /\ Opened' = Opened \ {a})
    BY <1>0, <2>0 DEF Opened, Open, TypeOK
  <2>4. CASE Opened' = Opened
    BY <2>0, <2>1, <2>2, <2>4 DEF Told
  <2>5. CASE a \in Opened /\ Opened' = Opened \ {a}
    <3>1. Gate!Shut(a)
      BY <2>0, <2>1, <2>2, <2>5 DEF Gate!Shut, Asked, Opened, Came, Inside
    <3> QED
      BY <2>0, <3>1 DEF Gate!Next
  <2> QED
    BY <2>3, <2>4, <2>5
<1>4. CASE Crash
  <2>1. /\ UNCHANGED <<task, status, acted, of>>
        /\ pc' = [x \in Deciders \cup Undoers |-> IF Active(x) THEN "crashed" ELSE pc[x]]
    BY <1>4 DEF Crash, rows, history
  <2>2. UNCHANGED <<Asked, Opened>>
    BY <2>1 DEF Asked, Opened, Open
  <2>3. Came' = Came
    BY <2>1 DEF Came, Active
  <2> PICK S \in SUBSET Deciders : S = {d \in Deciders : Active(d)}
    OBVIOUS
  <2>4. \A d \in Deciders : ~Active(d)'
    BY <2>1 DEF Active, Finished
  <2>5. Inside' = [d \in Deciders |-> IF d \in S THEN NoOne ELSE Inside[d]]
    BY <2>4 DEF Inside
  <2>6. Gate!Leave(S)
    BY <2>1, <2>2, <2>3, <2>5 DEF Gate!Leave, Asked, Opened, Came, Inside
  <2> QED
    BY <2>6 DEF Gate!Next
<1>5. ASSUME UNCHANGED <<task, status, acted, of, pc>> PROVE UNCHANGED Told
  BY <1>5, Untold DEF Active
<1> QED
  BY <1>1, <1>2, <1>3, <1>4, <1>5 DEF Environment, ApprovalExpires, CancelRead, Edit, OtherTask,
     rows, history, threads

(* Decisions keep the promise of ApprovalGate, for any number of approvals  *)
(* and of threads that decide, undo and cancel, wherever they fail or die.  *)
THEOREM Refinement == Spec => DecisionsAreGated
<1>1. Init => RejectInv /\ ActedInv
  BY DEF Init, RejectInv, ActedInv
<1>2. Init => Gate!Init
  <2> SUFFICES ASSUME Init PROVE Gate!Init
    OBVIOUS
  <2>1. Asked = {} /\ Opened = {} /\ Came = {}
    BY DEF Init, Asked, Opened, Open, Came
  <2>2. Inside = [d \in Deciders |-> NoOne]
    BY DEF Init, Inside, Active
  <2> QED
    BY <2>1, <2>2 DEF Init, Gate!Init, Asked, Opened, Came, Inside
<1>3. Inv /\ RejectInv /\ ActedInv /\ [Next]_vars => [Gate!Next]_(Gate!vars)
  <2> SUFFICES ASSUME Inv, RejectInv, ActedInv, [Next]_vars
               PROVE  Gate!Next \/ UNCHANGED Told
    BY DEF Gate!vars, Told, Asked, Opened, Came, Inside
  <2>1. CASE UNCHANGED vars
    BY <2>1, Untold DEF vars, rows, threads, history, Active
  <2>2. ASSUME NEW d \in Deciders, DecisionStep(d) PROVE Gate!Next \/ UNCHANGED Told
    BY <2>2, SettleTold, ToolTold DEF DecisionStep
  <2>3. ASSUME NEW d \in Deciders, NEW a \in Approvals, Decide(d, a) PROVE Gate!Next
    BY <2>3, DecideTold
  <2> QED
    BY <2>1, <2>2, <2>3, OtherTold DEF Next
<1> QED
  BY Invariance, RejectStep, ActedStep, <1>1, <1>2, <1>3, PTL DEF Spec, DecisionsAreGated, Gate!Spec
====
