------------------------------- MODULE Files -------------------------------
(***************************************************************************)
(* The file tools of file_tools.py, as StructuredTaskService runs them:    *)
(* create_task and, for what needs an approval, decide_approval; batches   *)
(* and their manifests; the recovery bin; and the undo of each of them.    *)
(*                                                                         *)
(* A call works through the items of its request.  Each item is checked,   *)
(* carried out and verified, and something else may happen between any two *)
(* of these steps: another program edits a file, or a second call runs.    *)
(* CREATE_ZIP is a write of one new file here, and RENAME_FILE a move.      *)
(* create_task flushes its task first and so keeps SQLite's write lock for *)
(* the whole call; a call that was approved takes the lock only when it    *)
(* stores what it did.  A text is a sequence of pieces and stands for its  *)
(* SHA-256 as well.                                                        *)
(***************************************************************************)
EXTENDS Naturals, Sequences, FiniteSets, SequencesExt

CONSTANTS
  Calls,      \* threads that run a file tool, one call each
  Undoers,    \* threads that serve POST /undo/..., one call each
  Paths,      \* files of the workspace
  Slots,      \* recovery_bin/<workspace>/<recovery_item_id>
  Pieces,     \* what texts are made of
  Requests,   \* the requests clients may send
  MaxItems,   \* most items of a request
  BATCH_APPROVAL_ITEM_THRESHOLD,
  Workspace,  \* [Paths \cup Slots -> text]: the files at the beginning
  Edited,     \* the texts another program may save; Missing: it deletes the file
  Missing,    \* no file
  NoRequest,
  NoOne,      \* nobody
  MaxEdits,   \* bound: how often another program changes a file
  MaxCrashes  \* bound: how often the server process may die

Places == Paths \cup Slots
Text == Seq(Pieces) \cup {Missing}
Tool == {"write", "append", "copy", "move", "batch_copy", "batch_move", "extract",
         "store", "restore"}
Item == [source : Places, destination : Places, text : Seq(Pieces)]
Request == [tool : Tool, items : Seq(Item)]

(* Only batches and archives have several items; a text is written to one   *)
(* path.                                                                   *)
ASSUME RequestsAssumption ==
  \A r \in Requests :
    /\ r \in Request /\ Len(r.items) \in 1..MaxItems
    /\ r.tool \notin {"batch_copy", "batch_move", "extract"} => Len(r.items) = 1
    /\ r.tool \in {"write", "append", "extract"} =>
         \A i \in DOMAIN r.items : r.items[i].source = r.items[i].destination
ASSUME NamesAssumption ==
  /\ Missing \notin Seq(Pieces)
  /\ NoRequest \notin Requests
  /\ Calls \cap Undoers = {}
  /\ NoOne \notin Calls \cup Undoers
ASSUME BoundsAssumption ==
  /\ {MaxItems, MaxEdits, MaxCrashes, BATCH_APPROVAL_ITEM_THRESHOLD} \subseteq Nat
  /\ MaxItems > 0
  /\ Workspace \in [Places -> Text]
  /\ Edited \subseteq Text

Index == 1..MaxItems

(* What a tool does to one item.                                            *)
Batches == {"batch_copy", "batch_move"}
kind(tool) ==
  CASE tool \in {"write", "extract"} -> "write"
    [] tool = "append" -> "append"
    [] tool \in {"copy", "batch_copy"} -> "copy"
    [] OTHER -> "move"

(* HIGH_RISK_TASKS, and batches of more items than the threshold.           *)
needs_approval(r) ==
  \/ r.tool \in {"extract", "store"}
  \/ r.tool \in Batches /\ Len(r.items) > BATCH_APPROVAL_ITEM_THRESHOLD

VARIABLES
  file,      \* [Places -> Text]
  recovery,  \* RecoveryItem.status
  undo,      \* UndoRecord.status of the record of each item
  writer,    \* who holds SQLite's write lock
  request,   \* what each call was asked
  manifest,  \* source_hash of the BatchManifestItems; Missing: status FAILED
  pc,        \* where each thread is
  item,      \* the item each call is at
  before,    \* the text an item began with
  after,     \* the text it was verified with: the record's postcondition
  succeeded, \* the items that were carried out and verified
  noted,     \* the items whose undo record is in the session
  undoOf,    \* the call and item whose record each undo is about
  seen,      \* UndoRecord.status as the undo has read it
  changed,   \* history: the items of each call that changed a file
  undid,     \* history: the undos that changed a file
  raced,     \* history: the places changed under the hands of another
  interrupted, \* history: the undos whose file somebody without the write lock
               \* has changed after they looked at it
  edits, crashes

rows == <<recovery, undo, manifest>>
calls == <<request, item, before, after, succeeded, noted>>
undos == <<undoOf, seen>>
history == <<changed, undid, raced, interrupted>>
bounds == <<edits, crashes>>
vars == <<file, rows, writer, pc, calls, undos, history, bounds>>

Finished == {"completed", "failed", "duplicate", "locked", "crashed", "applied",
             "conflict", "restoreFailed"}
Active(x) == pc[x] \notin Finished \cup {"idle", "waiting"}

Init ==
  /\ file = Workspace
  /\ recovery = [s \in Slots |-> "none"]
  /\ undo = [c \in Calls |-> [i \in Index |-> "none"]]
  /\ manifest = [c \in Calls |-> [i \in Index |-> Missing]]
  /\ writer = NoOne
  /\ request = [c \in Calls |-> NoRequest]
  /\ pc = [x \in Calls \cup Undoers |-> "idle"]
  /\ item = [c \in Calls |-> 1]
  /\ before = [c \in Calls |-> [i \in Index |-> Missing]]
  /\ after = [c \in Calls |-> [i \in Index |-> Missing]]
  /\ succeeded = [c \in Calls |-> {}]
  /\ noted = [c \in Calls |-> {}]
  /\ undoOf = [u \in Undoers |-> <<NoOne, 1>>]
  /\ seen = [u \in Undoers |-> "none"]
  /\ changed = [c \in Calls |-> {}]
  /\ undid = {}
  /\ raced = {}
  /\ interrupted = {}
  /\ edits = 0
  /\ crashes = 0

goto(x, from, to) == pc[x] = from /\ pc' = [pc EXCEPT ![x] = to]

tool(c) == request[c].tool
items(c) == request[c].items
source(c, i) == items(c)[i].source
destination(c, i) == items(c)[i].destination
current(c) == items(c)[item[c]]

(* What the record of an undo says.                                         *)
undoCall(u) == undoOf[u][1]
undoItem(u) == undoOf[u][2]
undoSource(u) == source(undoCall(u), undoItem(u))
undoDestination(u) == destination(undoCall(u), undoItem(u))
undoKind(u) == kind(tool(undoCall(u)))
precondition(u) == before[undoCall(u)][undoItem(u)]
postcondition(u) == after[undoCall(u)][undoItem(u)]

HasLock(x) == writer \in {NoOne, x}

-----------------------------------------------------------------------------
(* Who changes a file under whose hands.                                   *)

Touches(x, p) ==
  \/ /\ x \in Calls
     /\ pc[x] \in {"check", "act", "verify", "record"}
     /\ \E i \in DOMAIN items(x) : p \in {source(x, i), destination(x, i)}
  \/ /\ x \in Undoers
     /\ pc[x] \in {"undoAct", "undoVerify"}
     /\ p \in {undoSource(x), undoDestination(x)}

RaceOn(x, places) ==
  raced' = raced \cup
    {p \in places : \E y \in (Calls \cup Undoers) \ {x} : Touches(y, p)}

(* Another program, or a call that was approved, which has no lock while it *)
(* works on the files, comes between the look of an undo and its act.       *)
Interrupt(x) ==
  interrupted' = interrupted \cup
    {u \in Undoers : /\ x \notin Calls \/ needs_approval(request[x])
                     /\ pc[u] = "undoAct"
                     /\ \E p \in {undoSource(u), undoDestination(u)} : file'[p] # file[p]}

-----------------------------------------------------------------------------
(* create_task and decide_approval, up to the first item.                  *)

(* create_batch_manifest: the hash each source has now, or status FAILED.   *)
ManifestOf(r) ==
  [i \in Index |-> IF i \in DOMAIN r.items THEN file[r.items[i].source] ELSE Missing]

(* What needs no approval starts at once; the rest is put before the user,  *)
(* a batch with its manifest.                                               *)
Start(c, r) ==
  /\ goto(c, "idle", IF needs_approval(r) THEN "waiting" ELSE "begin")
  /\ needs_approval(r) => HasLock(c)
  /\ request' = [request EXCEPT ![c] = r]
  /\ manifest' = IF needs_approval(r) /\ r.tool \in Batches
                 THEN [manifest EXCEPT ![c] = ManifestOf(r)] ELSE manifest
  /\ UNCHANGED <<file, recovery, undo, writer, item, before, after, succeeded, noted, undos,
                 history, bounds>>

(* Faulty: the manifest is not compared with the files.                    *)
Approve_unvalidated(c) ==
  /\ goto(c, "waiting", "check")
  /\ UNCHANGED <<file, rows, writer, calls, undos, history, bounds>>

(* validate_batch_manifest: the rows that had a source must still have the  *)
(* same one.  FAILED rows are passed over.                                  *)
Approve(c) ==
  /\ goto(c, "waiting",
          IF \A i \in DOMAIN items(c) : manifest[c][i] \in {Missing, file[source(c, i)]}
          THEN "check" ELSE "failing")
  /\ UNCHANGED <<file, rows, writer, calls, undos, history, bounds>>

(* The first flush of create_task.  A small batch has a manifest too, whose *)
(* rows are not flushed yet and so are not compared with anything.          *)
Begin(c) ==
  /\ \/ HasLock(c) /\ goto(c, "begin", "check") /\ writer' = c
     \/ ~HasLock(c) /\ goto(c, "begin", "locked") /\ UNCHANGED writer
  /\ UNCHANGED <<file, rows, calls, undos, history, bounds>>

-----------------------------------------------------------------------------
(* One item: check, act, verify.                                           *)

(* A batch notes the failure and goes on; every other tool raises.          *)
ItemEnds(c, from, ok) ==
  /\ succeeded' = IF ok THEN [succeeded EXCEPT ![c] = @ \cup {item[c]}] ELSE succeeded
  /\ IF ~ok /\ tool(c) \notin Batches
     THEN goto(c, from, "failing") /\ UNCHANGED item
     ELSE IF item[c] = Len(items(c))
     THEN goto(c, from, "record") /\ item' = [item EXCEPT ![c] = 1]
     ELSE goto(c, from, "check") /\ item' = [item EXCEPT ![c] = @ + 1]

Present(c) == file[current(c).source] # Missing
Free(c) == file[current(c).destination] = Missing

(* Faulty: the destination may exist.                                      *)
Check_overwrites(c) ==
  /\ pc[c] = "check"
  /\ before' = [before EXCEPT ![c][item[c]] = file[current(c).source]]
  /\ IF kind(tool(c)) = "write" \/ Present(c)
     THEN goto(c, "check", "act") /\ UNCHANGED <<item, succeeded>>
     ELSE ItemEnds(c, "check", FALSE)
  /\ UNCHANGED <<file, rows, writer, request, after, noted, undos, history, bounds>>

(* DESTINATION_EXISTS, RECOVERY_ITEM_EXISTS, no such file, or go on with    *)
(* the text the source has now.                                             *)
Check(c) ==
  /\ pc[c] = "check"
  /\ before' = [before EXCEPT ![c][item[c]] = file[current(c).source]]
  /\ IF /\ kind(tool(c)) # "write" => Present(c)
        /\ kind(tool(c)) # "append" => Free(c)
     THEN goto(c, "check", "act") /\ UNCHANGED <<item, succeeded>>
     ELSE ItemEnds(c, "check", FALSE)
  /\ UNCHANGED <<file, rows, writer, request, after, noted, undos, history, bounds>>

Appended(text, tail) == IF text = Missing THEN tail ELSE text \o tail

(* The file operation itself.  Whatever is at the destination by now is     *)
(* replaced, and a source that is gone by now raises.                       *)
Effect(c) ==
  LET s == current(c).source
      d == current(c).destination
  IN CASE kind(tool(c)) = "write" -> [file EXCEPT ![d] = current(c).text]
       [] kind(tool(c)) = "append" -> [file EXCEPT ![d] = Appended(@, current(c).text)]
       [] kind(tool(c)) = "copy" -> [file EXCEPT ![d] = file[s]]
       [] OTHER -> [file EXCEPT ![d] = file[s], ![s] = Missing]

Act(c) ==
  /\ pc[c] = "act"
  /\ IF kind(tool(c)) \in {"copy", "move"} /\ ~Present(c)
     THEN ItemEnds(c, "act", FALSE) /\ UNCHANGED <<file, changed, raced, interrupted>>
     ELSE /\ goto(c, "act", "verify")
          /\ file' = Effect(c)
          /\ changed' = [changed EXCEPT ![c] = @ \cup {item[c]}]
          /\ RaceOn(c, {p \in Places : file'[p] # file[p]})
          /\ Interrupt(c)
          /\ UNCHANGED <<item, succeeded>>
  /\ UNCHANGED <<rows, writer, request, before, after, noted, undos, undid, bounds>>

(* The postcondition: the copy equals its source, the moved file what it    *)
(* was and its source is gone, the appended file is not what it was.  A     *)
(* batch compares a copy with what its source was, and a restore does not   *)
(* look at the slot again.                                                  *)
Verified(c) ==
  LET s == current(c).source
      d == current(c).destination
      was == before[c][item[c]]
  IN /\ file[d] # Missing
     /\ tool(c) = "append" /\ current(c).text # <<>> => file[d] # was
     /\ tool(c) = "copy" => file[d] = file[s]
     /\ tool(c) \in Batches \cup {"move", "store", "restore"} => file[d] = was
     /\ tool(c) \in {"move", "batch_move", "store"} => file[s] = Missing

Verify(c) ==
  /\ pc[c] = "verify"
  /\ after' = [after EXCEPT ![c][item[c]] = file[current(c).destination]]
  /\ ItemEnds(c, "verify", Verified(c))
  /\ UNCHANGED <<file, rows, writer, request, before, noted, undos, history, bounds>>

-----------------------------------------------------------------------------
(* The undo records, and the commit.                                       *)

(* A destination that is gone by now raises, and the source of a copy too.  *)
StillThere(c) ==
  /\ tool(c) # "store" => file[current(c).destination] # Missing
  /\ tool(c) = "copy" => Present(c)

(* A batch flushes the action of the item first, so an approved one takes   *)
(* the write lock here.                                                     *)
NoteItem(c) ==
  /\ pc[c] = "record"
  /\ item[c] \in succeeded[c]
  /\ tool(c) \in Batches => HasLock(c)
  /\ writer' = IF tool(c) \in Batches THEN c ELSE writer
  /\ IF ~StillThere(c)
     THEN goto(c, "record", "failing") /\ UNCHANGED <<item, noted>>
     ELSE /\ noted' = [noted EXCEPT ![c] = @ \cup {item[c]}]
          /\ goto(c, "record", IF item[c] = Len(items(c)) THEN "commit" ELSE "record")
          /\ item' = [item EXCEPT ![c] = IF @ = Len(items(c)) THEN @ ELSE @ + 1]
  /\ UNCHANGED <<file, rows, request, before, after, succeeded, undos, history, bounds>>

PassOver(c) ==
  /\ pc[c] = "record"
  /\ item[c] \notin succeeded[c]
  /\ goto(c, "record", IF item[c] = Len(items(c)) THEN "commit" ELSE "record")
  /\ item' = [item EXCEPT ![c] = IF @ = Len(items(c)) THEN @ ELSE @ + 1]
  /\ UNCHANGED <<file, rows, writer, request, before, after, succeeded, noted, undos,
                 history, bounds>>

(* Faulty: the records of a batch are left out when one of its items failed. *)
RecordsOf_allOrNothing(c) ==
  IF succeeded[c] = DOMAIN items(c) THEN noted[c] ELSE {}

RecordsOf(c) == noted[c]

(* RecoveryItem.id is the primary key: the row of a second move to the same *)
(* slot is refused, and with it everything the session holds.               *)
Reused(c) ==
  pc[c] = "commit" /\ tool(c) = "store" /\ recovery[current(c).destination] # "none"

(* One transaction; the records noted before an error are stored as well.   *)
Commit(c) ==
  /\ HasLock(c)
  /\ ~Reused(c)
  /\ \/ goto(c, "commit", "completed")
     \/ goto(c, "failing", "failed")
  /\ undo' = [undo EXCEPT ![c] = [i \in Index |-> IF i \in RecordsOf(c) THEN "PENDING" ELSE @[i]]]
  /\ recovery' =
       CASE pc[c] = "commit" /\ tool(c) = "store" ->
              [recovery EXCEPT ![current(c).destination] = "STORED"]
         [] pc[c] = "commit" /\ tool(c) = "restore" /\ recovery[current(c).source] # "none" ->
              [recovery EXCEPT ![current(c).source] = "RESTORED"]
         [] OTHER -> recovery
  /\ writer' = NoOne
  /\ UNCHANGED <<file, manifest, calls, undos, history, bounds>>

DuplicateSlot(c) ==
  /\ HasLock(c)
  /\ Reused(c)
  /\ goto(c, "commit", "duplicate")
  /\ UNCHANGED <<file, rows, writer, calls, undos, history, bounds>>

(* An approved call does not get the lock in time: its files are changed,   *)
(* and nothing is stored.                                                   *)
CallLocked(c) ==
  /\ ~HasLock(c)
  /\ \/ pc[c] \in {"commit", "failing"}
     \/ pc[c] = "record" /\ tool(c) \in Batches /\ item[c] \in succeeded[c]
  /\ goto(c, pc[c], "locked")
  /\ UNCHANGED <<file, rows, writer, calls, undos, history, bounds>>

CallStep(c) ==
  \/ Begin(c) \/ Check(c) \/ Act(c) \/ Verify(c) \/ NoteItem(c) \/ PassOver(c)
  \/ Commit(c) \/ DuplicateSlot(c) \/ CallLocked(c)

-----------------------------------------------------------------------------
(* undo and apply_undo.  Its own task is flushed first, so it holds the    *)
(* write lock from before it looks at the files until it commits.          *)

(* The undo record is read before the lock is there, and not again.         *)
Undo(u, c, i) ==
  /\ undo[c][i] # "none"
  /\ goto(u, "idle", "flush")
  /\ undoOf' = [undoOf EXCEPT ![u] = <<c, i>>]
  /\ seen' = [seen EXCEPT ![u] = undo[c][i]]
  /\ UNCHANGED <<file, rows, writer, calls, history, bounds>>

UndoFlush(u) ==
  /\ \/ /\ HasLock(u)
        /\ goto(u, "flush", IF seen[u] = "APPLIED" THEN "undoConflict" ELSE "undoCheck")
        /\ writer' = u
     \/ ~HasLock(u) /\ goto(u, "flush", "locked") /\ UNCHANGED writer
  /\ UNCHANGED <<file, rows, calls, undos, history, bounds>>

(* Faulty: the file is not compared with the postcondition.                *)
UndoCheck_unchecked(u) ==
  /\ goto(u, "undoCheck", IF file[undoDestination(u)] # Missing THEN "undoAct" ELSE "undoConflict")
  /\ UNCHANGED <<file, rows, writer, calls, undos, history, bounds>>

(* UNDO_CONFLICT_...: the destination is not what the call has left, or     *)
(* something is where the moved file came from.                             *)
UndoCheck(u) ==
  /\ goto(u, "undoCheck",
          IF /\ file[undoDestination(u)] # Missing
             /\ file[undoDestination(u)] = postcondition(u)
             /\ undoKind(u) = "move" => file[undoSource(u)] = Missing
          THEN "undoAct" ELSE "undoConflict")
  /\ UNCHANGED <<file, rows, writer, calls, undos, history, bounds>>

(* Faulty: one piece too much is kept.                                     *)
Truncated_inclusive(text, size) ==
  SubSeq(text, 1, IF size < Len(text) THEN size + 1 ELSE Len(text))

Truncated(text, size) == SubSeq(text, 1, IF size < Len(text) THEN size ELSE Len(text))

UndoEffect(u) ==
  CASE undoKind(u) \in {"write", "copy"} -> [file EXCEPT ![undoDestination(u)] = Missing]
    [] undoKind(u) = "append" ->
         [file EXCEPT ![undoDestination(u)] = Truncated(@, Len(precondition(u)))]
    [] OTHER -> [file EXCEPT ![undoSource(u)] = file[undoDestination(u)],
                             ![undoDestination(u)] = Missing]

(* Unlink, move back or truncate; a file that is gone by now raises.        *)
UndoAct(u) ==
  /\ pc[u] = "undoAct"
  /\ IF file[undoDestination(u)] = Missing
     THEN goto(u, "undoAct", "undoConflict") /\ UNCHANGED <<file, undid, raced>>
     ELSE /\ goto(u, "undoAct", "undoVerify")
          /\ file' = UndoEffect(u)
          /\ undid' = undid \cup {u}
          /\ RaceOn(u, {p \in Places : file'[p] # file[p]})
  /\ UNCHANGED <<rows, writer, calls, undos, changed, interrupted, bounds>>

UndoVerified(u) ==
  CASE undoKind(u) \in {"write", "copy"} -> file[undoDestination(u)] = Missing
    [] undoKind(u) = "append" -> file[undoDestination(u)] = precondition(u)
    [] OTHER -> file[undoSource(u)] # Missing /\ file[undoDestination(u)] = Missing

UndoVerify(u) ==
  /\ goto(u, "undoVerify", IF UndoVerified(u) THEN "undoApplied" ELSE "undoFailed")
  /\ UNCHANGED <<file, rows, writer, calls, undos, history, bounds>>

(* Faulty: the record gets the status of a recovery item.                  *)
UndoCommit_restored(u) ==
  /\ \/ /\ goto(u, "undoApplied", "applied")
        /\ undo' = [undo EXCEPT ![undoCall(u)][undoItem(u)] = "RESTORED"]
     \/ goto(u, "undoConflict", "conflict") /\ UNCHANGED undo
     \/ goto(u, "undoFailed", "restoreFailed") /\ UNCHANGED undo
  /\ writer' = NoOne
  /\ UNCHANGED <<file, recovery, manifest, calls, undos, history, bounds>>

UndoCommit(u) ==
  /\ \/ /\ goto(u, "undoApplied", "applied")
        /\ undo' = [undo EXCEPT ![undoCall(u)][undoItem(u)] = "APPLIED"]
     \/ goto(u, "undoConflict", "conflict") /\ UNCHANGED undo
     \/ goto(u, "undoFailed", "restoreFailed") /\ UNCHANGED undo
  /\ writer' = NoOne
  /\ UNCHANGED <<file, recovery, manifest, calls, undos, history, bounds>>

UndoStep(u) ==
  UndoFlush(u) \/ UndoCheck(u) \/ UndoAct(u) \/ UndoVerify(u) \/ UndoCommit(u)

-----------------------------------------------------------------------------
(* Other programs, and crashes.                                            *)

(* The user saves or deletes a file of the workspace in some other program. *)
Edit(p, text) ==
  /\ edits < MaxEdits
  /\ file[p] # text
  /\ file' = [file EXCEPT ![p] = text]
  /\ RaceOn(NoOne, {p})
  /\ Interrupt(NoOne)
  /\ edits' = edits + 1
  /\ UNCHANGED <<rows, writer, pc, calls, undos, changed, undid, crashes>>

(* The process dies and is started again; what was not committed is gone.   *)
Crash ==
  /\ crashes < MaxCrashes
  /\ \E x \in Calls \cup Undoers : Active(x)
  /\ crashes' = crashes + 1
  /\ pc' = [x \in Calls \cup Undoers |-> IF Active(x) THEN "crashed" ELSE pc[x]]
  /\ writer' = NoOne
  /\ UNCHANGED <<file, rows, calls, undos, history, edits>>

Next ==
  \/ \E c \in Calls : CallStep(c) \/ Approve(c) \/ \E r \in Requests : Start(c, r)
  \/ \E u \in Undoers : UndoStep(u) \/ \E c \in Calls, i \in Index : Undo(u, c, i)
  \/ \E p \in Paths, text \in Edited : Edit(p, text)
  \/ Crash

Spec == Init /\ [][Next]_vars

-----------------------------------------------------------------------------
(* Type invariant.                                                         *)

Location ==
  {"idle", "waiting", "begin", "check", "act", "verify", "record", "commit", "failing",
   "flush", "undoCheck", "undoAct", "undoVerify", "undoApplied", "undoConflict",
   "undoFailed"} \cup Finished

TypeOK ==
  /\ file \in [Places -> Text]
  /\ recovery \in [Slots -> {"none", "STORED", "RESTORED"}]
  /\ undo \in [Calls -> [Index -> {"none", "PENDING", "APPLIED"}]]
  /\ manifest \in [Calls -> [Index -> Text]]
  /\ writer \in Calls \cup Undoers \cup {NoOne}
  /\ request \in [Calls -> Requests \cup {NoRequest}]
  /\ pc \in [Calls \cup Undoers -> Location]
  /\ item \in [Calls -> Index]
  /\ before \in [Calls -> [Index -> Text]]
  /\ after \in [Calls -> [Index -> Text]]
  /\ succeeded \in [Calls -> SUBSET Index]
  /\ noted \in [Calls -> SUBSET Index]
  /\ undoOf \in [Undoers -> (Calls \cup {NoOne}) \X Index]
  /\ seen \in [Undoers -> {"none", "PENDING", "APPLIED"}]
  /\ changed \in [Calls -> SUBSET Index]
  /\ undid \in SUBSET Undoers
  /\ raced \in SUBSET Places
  /\ interrupted \in SUBSET Undoers
  /\ edits \in 0..MaxEdits
  /\ crashes \in 0..MaxCrashes

-----------------------------------------------------------------------------
(* Safety.                                                                 *)

PlacesOf(c, i) == {source(c, i), destination(c, i)}
AllPlacesOf(c) == UNION {PlacesOf(c, i) : i \in DOMAIN items(c)}

(* What an item makes of a text when nobody interferes.                     *)
Expected(c, i) ==
  CASE kind(tool(c)) = "write" -> items(c)[i].text
    [] kind(tool(c)) = "append" -> before[c][i] \o items(c)[i].text
    [] OTHER -> before[c][i]

(* An item of a batch is moved on by a later item of the same batch.       *)
Chained(c) ==
  tool(c) = "batch_move" /\
    \E i, j \in DOMAIN items(c) : i < j /\ source(c, j) = destination(c, i)

(* The undo records of a call are exactly what it did: every record is     *)
(* about an item that was carried out and knows the text it left, and      *)
(* every item that changed a file has its record, unless somebody changed  *)
(* one of the files meanwhile, an extraction was cut short, or a batch has *)
(* moved a file twice.                                                     *)
UndoRecordsAreExact ==
  \A c \in Calls :
    /\ \A i \in Index : undo[c][i] # "none" =>
         /\ i \in changed[c]
         /\ PlacesOf(c, i) \cap raced = {} => after[c][i] = Expected(c, i)
    /\ pc[c] \in {"completed", "failed"} => \A i \in changed[c] :
         \/ undo[c][i] # "none"
         \/ AllPlacesOf(c) \cap raced # {}
         \/ tool(c) = "extract" /\ pc[c] = "failed"
         \/ Chained(c)

(* An undo that fails after it has changed a file needs such a race.       *)
UndoIsAllOrNothing ==
  \A u \in Undoers : pc[u] = "restoreFailed" =>
    PlacesOf(undoCall(u), undoItem(u)) \cap raced # {}

(* No text of the workspace is lost by any tools and undos, in whatever    *)
(* order and however they are cut short: unless another program changes a  *)
(* file, two steps race, or one record is undone twice.                    *)
UndoneOnce == \A u, v \in undid : undoOf[u] = undoOf[v] => u = v
NoTextIsLost ==
  edits = 0 /\ raced = {} /\ UndoneOnce =>
    \A p \in Paths : Workspace[p] # Missing =>
      \E x \in Places : file[x] # Missing /\ IsPrefix(Workspace[p], file[x])

-----------------------------------------------------------------------------
(* Action properties.                                                      *)

(* No tool and no undo replaces a text that is there: it is only appended  *)
(* to, cut back or taken away, or the file was changed under its hands.    *)
NothingIsReplaced ==
  [][\A p \in Places : file[p] # Missing /\ file'[p] \notin {Missing, file[p]} =>
       \/ edits' # edits
       \/ p \in raced
       \/ IsPrefix(file[p], file'[p])
       \/ IsPrefix(file'[p], file[p])]_vars

(* An undo takes away only a text equal to the one its own call has left    *)
(* there, and moves it back only to a free place: no other undo and no tool *)
(* that needs no approval comes between its look at the files and its act,  *)
(* because it holds the write lock.  What can come between is another      *)
(* program, or a tool that was approved.                                   *)
UndoTakesOnlyItsOwn ==
  [][\A u \in undid' \ undid :
       \/ u \in interrupted
       \/ /\ file[undoDestination(u)] = postcondition(u)
          /\ undoKind(u) = "move" => file[undoSource(u)] = Missing]_vars

(* An approved batch carries out an item with the text its manifest has    *)
(* for it, or the file was changed after the manifest was compared, by      *)
(* somebody else or by an earlier item of the same batch.                   *)
Carries(c, i) == i \in changed'[c] \ changed[c] /\ tool(c) \in Batches /\ needs_approval(request[c])
Rebuilt(c, i) == \E j \in DOMAIN items(c) : j < i /\ destination(c, j) = source(c, i)

ManifestTextsOnly ==
  [][\A c \in Calls, i \in Index : Carries(c, i) =>
       \/ manifest[c][i] \in {Missing, file[source(c, i)]}
       \/ source(c, i) \in raced
       \/ Rebuilt(c, i)]_vars

-----------------------------------------------------------------------------
(* What the documents say and the code does not do.                        *)

(* ARCHITECTURE.md: "Each successful item receives its own action,          *)
(* observation, and undo record; partial failures are reported as partial   *)
(* results".  Here even without anybody else at work.                       *)
SuccessfulItemHasUndo ==
  \A c \in Calls :
    raced = {} /\ pc[c] \in {"completed", "failed"} /\ tool(c) \in Batches =>
      \A i \in succeeded[c] : undo[c][i] # "none"
====
