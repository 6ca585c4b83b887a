---------------------------- MODULE FilesProofs ----------------------------
(***************************************************************************)
(* Files for every set of calls, undos, paths and texts, every request of   *)
(* any number of items, and any number of edits and crashes.               *)
(*                                                                         *)
(* The invariant says what each call knows of the item it is at and of the  *)
(* items it has done, what holds of the files until somebody else changes   *)
(* them, and what an undo knows of its record.  That no text is lost needs  *)
(* more: files are counted, by an injection from the texts that have to be  *)
(* there, the original ones and those items have added, to the files.      *)
(***************************************************************************)
EXTENDS Files, FunctionTheorems, TLAPS

Working == {"check", "act", "verify", "record"}
CallPlaces == {"idle", "waiting", "begin", "commit", "failing", "completed", "failed",
               "duplicate", "locked", "crashed"} \cup Working
UndoPlaces == {"idle", "flush", "undoCheck", "undoAct", "undoVerify", "undoApplied",
               "undoConflict", "undoFailed", "applied", "conflict", "restoreFailed",
               "locked", "crashed"}

(* Where threads are, and what they are about.                             *)
WhereInv ==
  /\ \A c \in Calls :
       /\ pc[c] \in CallPlaces
       /\ pc[c] # "idle" => request[c] \in Requests /\ item[c] \in DOMAIN items(c)
       /\ pc[c] = "idle" => item[c] = 1
       /\ pc[c] = "begin" => ~ needs_approval(request[c])
       /\ pc[c] \in {"check", "act", "verify", "waiting", "begin"} => noted[c] = {}
  /\ \A u \in Undoers :
       /\ pc[u] \in UndoPlaces
       /\ pc[u] # "idle" => /\ undoOf[u] \in Calls \X Index
                            /\ undo[undoCall(u)][undoItem(u)] # "none"

(* A record is noted for an item that succeeded, which changed a file; the  *)
(* items are worked through in order.                                      *)
OrderInv ==
  \A c \in Calls :
    /\ \A i \in Index : undo[c][i] # "none" => i \in noted[c]
    /\ noted[c] \subseteq succeeded[c]
    /\ succeeded[c] \subseteq changed[c]
    /\ pc[c] \in {"idle", "waiting", "begin"} => changed[c] = {}
    /\ pc[c] # "idle" => changed[c] \subseteq DOMAIN items(c)
    /\ pc[c] \in {"check", "act"} => \A i \in changed[c] : i < item[c]
    /\ pc[c] = "verify" => /\ item[c] \in changed[c] \ succeeded[c]
                           /\ \A i \in changed[c] : i <= item[c]

Unraced(c, i) == PlacesOf(c, i) \cap raced = {}

(* What has been found of an item's source before anything was done to it.  *)
FoundText(c, i) ==
  /\ kind(tool(c)) # "write" => before[c][i] # Missing
  /\ kind(tool(c)) \in {"copy", "move"} => source(c, i) # destination(c, i)

(* The item a call is at: the files are as its last step has left them.     *)
CurrentInv ==
  \A c \in Calls :
    /\ pc[c] = "act" =>
         /\ FoundText(c, item[c])
         /\ \/ file[source(c, item[c])] = before[c][item[c]]
            \/ source(c, item[c]) \in raced
         /\ kind(tool(c)) # "append" =>
              \/ file[destination(c, item[c])] = Missing
              \/ destination(c, item[c]) \in raced
    /\ pc[c] = "verify" =>
         /\ FoundText(c, item[c])
         /\ Unraced(c, item[c]) =>
              /\ file[destination(c, item[c])] = Expected(c, item[c])
              /\ kind(tool(c)) = "copy" => file[source(c, item[c])] = before[c][item[c]]
              /\ kind(tool(c)) = "move" => file[source(c, item[c])] = Missing

(* The items that succeeded, as their records will say.                    *)
DoneInv ==
  \A c \in Calls : \A i \in succeeded[c] :
    /\ FoundText(c, i)
    /\ after[c][i] # Missing
    /\ Unraced(c, i) => after[c][i] = Expected(c, i)

(* Every item that changed a file gets its record, or is excused.          *)
Excused(c) == AllPlacesOf(c) \cap raced # {} \/ Chained(c)
RecordInv ==
  \A c \in Calls : pc[c] # "idle" =>
    \/ Excused(c)
    \/ /\ pc[c] \in Working =>
            /\ \A i \in changed[c] : i \in succeeded[c] \/ (pc[c] = "verify" /\ i = item[c])
            /\ \A i \in succeeded[c] :
                 /\ file[destination(c, i)] # Missing
                 /\ tool(c) = "copy" => file[source(c, i)] # Missing
       /\ pc[c] = "record" => \A i \in succeeded[c] : i \in noted[c] \/ i >= item[c]
       /\ pc[c] = "commit" => changed[c] \subseteq noted[c]
       /\ pc[c] = "failing" => changed[c] \subseteq noted[c] \/ tool(c) = "extract"
       /\ pc[c] = "completed" => \A i \in changed[c] : undo[c][i] # "none"
       /\ pc[c] = "failed" =>
            tool(c) = "extract" \/ \A i \in changed[c] : undo[c][i] # "none"

(* The manifest of an approved batch, for the items still to come.         *)
ManifestInv ==
  \A c \in Calls :
    pc[c] \in {"check", "act", "verify"} /\ tool(c) \in Batches /\ needs_approval(request[c]) =>
      \A i \in DOMAIN items(c) : i > item[c] \/ (i = item[c] /\ pc[c] # "verify") =>
        \/ manifest[c][i] \in {Missing, file[source(c, i)]}
        \/ file[source(c, i)] = Missing
        \/ source(c, i) \in raced
        \/ Rebuilt(c, i)

(* What an undo knows of the files of its record.                          *)
UndoInv ==
  \A u \in Undoers :
    /\ pc[u] = "undoAct" =>
         /\ \/ file[undoDestination(u)] = postcondition(u)
            \/ undoDestination(u) \in raced
         /\ undoKind(u) = "move" =>
              file[undoSource(u)] = Missing \/ undoSource(u) \in raced
    /\ pc[u] = "undoVerify" => UndoVerified(u) \/ ~Unraced(undoCall(u), undoItem(u))
    /\ pc[u] \in {"undoFailed", "restoreFailed"} => ~Unraced(undoCall(u), undoItem(u))

Inv == /\ TypeOK /\ WhereInv /\ OrderInv /\ CurrentInv /\ DoneInv /\ RecordInv /\ ManifestInv
       /\ UndoInv

-----------------------------------------------------------------------------
(* Requests.                                                               *)

LEMMA RequestFacts ==
  ASSUME NEW r \in Requests
  PROVE  /\ r.tool \in Tool /\ r.items \in Seq(Item)
         /\ Len(r.items) \in 1..MaxItems /\ DOMAIN r.items = 1..Len(r.items)
         /\ DOMAIN r.items \subseteq Index
         /\ \A i \in DOMAIN r.items : /\ r.items[i].source \in Places
                                      /\ r.items[i].destination \in Places
                                      /\ r.items[i].text \in Seq(Pieces)
<1>1. r \in Request /\ Len(r.items) \in 1..MaxItems /\ MaxItems \in Nat
  BY RequestsAssumption, BoundsAssumption
<1>2. r.tool \in Tool /\ r.items \in Seq(Item)
  BY <1>1 DEF Request
<1>3. DOMAIN r.items = 1..Len(r.items) /\ DOMAIN r.items \subseteq Index
  BY <1>1, <1>2 DEF Index
<1>4. \A i \in DOMAIN r.items : r.items[i] \in Item
  BY <1>2
<1> QED
  BY <1>1, <1>2, <1>3, <1>4 DEF Item

(* What a call that has begun is about.                                    *)
LEMMA CallFacts ==
  ASSUME WhereInv, NEW c \in Calls, pc[c] # "idle"
  PROVE  /\ request[c] \in Requests
         /\ tool(c) \in Tool /\ Len(items(c)) \in 1..MaxItems
         /\ DOMAIN items(c) = 1..Len(items(c)) /\ DOMAIN items(c) \subseteq Index
         /\ item[c] \in DOMAIN items(c)
         /\ \A i \in DOMAIN items(c) : /\ source(c, i) \in Places /\ destination(c, i) \in Places
                                       /\ items(c)[i].text \in Seq(Pieces)
BY RequestFacts DEF WhereInv, tool, items, source, destination

LEMMA KindFacts ==
  \A t \in Tool : /\ kind(t) \in {"write", "append", "copy", "move"}
                  /\ kind(t) = "append" <=> t = "append"
                  /\ kind(t) = "copy" <=> t \in {"copy", "batch_copy"}
                  /\ kind(t) = "write" <=> t \in {"write", "extract"}
                  /\ kind(t) = "move" <=> t \in {"move", "batch_move", "store", "restore"}
BY DEF Tool, kind

(* What a text is written to is one path, and only batches and archives     *)
(* have more than one item.                                                *)
LEMMA OnePath ==
  ASSUME WhereInv, NEW c \in Calls, pc[c] # "idle"
  PROVE  /\ kind(tool(c)) \in {"write", "append"} =>
              \A i \in DOMAIN items(c) : source(c, i) = destination(c, i)
         /\ tool(c) \notin Batches \cup {"extract"} => Len(items(c)) = 1
<1>1. request[c] \in Requests /\ tool(c) \in Tool
  BY CallFacts
<1>2. kind(tool(c)) \in {"write", "append"} => tool(c) \in {"write", "append", "extract"}
  BY <1>1, KindFacts
<1> QED
  BY <1>1, <1>2, RequestsAssumption DEF tool, items, source, destination, Batches

LEMMA TextFacts ==
  ASSUME NEW s \in Seq(Pieces), NEW t \in Seq(Pieces), NEW n \in Nat
  PROVE  /\ s \o t \in Seq(Pieces) /\ IsPrefix(s, s \o t)
         /\ Truncated(s, n) \in Seq(Pieces) /\ IsPrefix(Truncated(s, n), s)
         /\ Truncated(s \o t, Len(s)) = s
         /\ t # <<>> => s \o t # s
<1>1. s \o t \in Seq(Pieces) /\ IsPrefix(s, s \o t)
  BY DEF IsPrefix
<1>2. Truncated(s, n) \in Seq(Pieces) /\ IsPrefix(Truncated(s, n), s)
  BY DEF IsPrefix, Truncated
<1>3. Truncated(s \o t, Len(s)) = s
  BY DEF Truncated
<1>4. t # <<>> => s \o t # s
  <2>1. Len(s \o t) = Len(s) + Len(t)
    OBVIOUS
  <2>2. t # <<>> => Len(t) > 0
    OBVIOUS
  <2> QED
    BY <2>1, <2>2
<1> QED
  BY <1>1, <1>2, <1>3, <1>4


LEMMA ExpectedFacts ==
  ASSUME NEW c, NEW i
  PROVE  /\ kind(tool(c)) = "write" => Expected(c, i) = items(c)[i].text
         /\ kind(tool(c)) = "append" => Expected(c, i) = before[c][i] \o items(c)[i].text
         /\ kind(tool(c)) \in {"copy", "move"} => Expected(c, i) = before[c][i]
<1>1. kind(tool(c)) = "write" => Expected(c, i) = items(c)[i].text
  BY DEF Expected
<1>2. kind(tool(c)) = "append" => Expected(c, i) = before[c][i] \o items(c)[i].text
  BY DEF Expected
<1>3. kind(tool(c)) \in {"copy", "move"} => Expected(c, i) = before[c][i]
  BY DEF Expected
<1> QED
  BY <1>1, <1>2, <1>3
-----------------------------------------------------------------------------
(* Types.                                                                  *)

LEMMA FileTypes ==
  /\ TypeOK => /\ pc \in [Calls \cup Undoers -> Location]
               /\ file \in [Places -> Text]
  /\ \A t \in Text : t # Missing => t \in Seq(Pieces)
  /\ Seq(Pieces) \subseteq Text /\ Missing \in Text
BY DEF TypeOK, Text

(* The step ItemEnds takes, whatever it is taken for.                      *)
LEMMA ItemEndsFacts ==
  ASSUME TypeOK, WhereInv, NEW c \in Calls, NEW from, NEW ok \in BOOLEAN,
         from # "idle", ItemEnds(c, from, ok)
  PROVE  /\ pc' \in [Calls \cup Undoers -> Location] /\ item' \in [Calls -> Index]
         /\ succeeded' \in [Calls -> SUBSET Index]
         /\ pc[c] = from
         /\ \E to \in {"failing", "record", "check"} : pc' = [pc EXCEPT ![c] = to]
         /\ \E n \in DOMAIN items(c) : item' = [item EXCEPT ![c] = n]
         /\ succeeded' = IF ok THEN [succeeded EXCEPT ![c] = @ \cup {item[c]}] ELSE succeeded
         /\ pc'[c] = "failing" <=> ~ok /\ tool(c) \notin Batches
         /\ pc'[c] = "failing" => item'[c] = item[c]
         /\ pc'[c] = "record" => item'[c] = 1 /\ item[c] = Len(items(c))
         /\ pc'[c] = "check" => item'[c] = item[c] + 1
<1>1. pc[c] = from
  BY DEF ItemEnds, goto
<1>2. /\ item[c] \in 1..Len(items(c)) /\ DOMAIN items(c) = 1..Len(items(c))
      /\ Len(items(c)) \in Nat \ {0}
  BY <1>1, CallFacts, BoundsAssumption
<1>3. /\ pc \in [Calls \cup Undoers -> Location] /\ item \in [Calls -> Index]
      /\ succeeded \in [Calls -> SUBSET Index]
      /\ {"failing", "record", "check"} \subseteq Location
      /\ DOMAIN items(c) \subseteq Index
  BY <1>1, CallFacts DEF TypeOK, Location
<1>7. succeeded' \in [Calls -> SUBSET Index]
  BY <1>2, <1>3 DEF ItemEnds
<1>4. CASE ~ok /\ tool(c) \notin Batches
  BY <1>1, <1>2, <1>3, <1>4 DEF ItemEnds, goto
<1>5. CASE (ok \/ tool(c) \in Batches) /\ item[c] = Len(items(c))
  BY <1>1, <1>2, <1>3, <1>5 DEF ItemEnds, goto
<1>6. CASE (ok \/ tool(c) \in Batches) /\ item[c] # Len(items(c))
  <2>1. item[c] + 1 \in DOMAIN items(c)
    BY <1>2, <1>6
  <2> QED
    BY <1>1, <1>2, <1>3, <1>6, <2>1 DEF ItemEnds, goto
<1> QED
  BY <1>4, <1>5, <1>6, <1>7

(* What the file operation of a tool makes of the files.                   *)
LEMMA EffectFacts ==
  ASSUME TypeOK, WhereInv, NEW c \in Calls, pc[c] = "act",
         kind(tool(c)) \in {"copy", "move"} => Present(c)
  PROVE  /\ Effect(c) \in [Places -> Text]
         /\ \A p \in Places \ PlacesOf(c, item[c]) : Effect(c)[p] = file[p]
         /\ kind(tool(c)) = "write" =>
              Effect(c)[destination(c, item[c])] = items(c)[item[c]].text
         /\ kind(tool(c)) = "append" =>
              Effect(c)[destination(c, item[c])] =
                Appended(file[destination(c, item[c])], items(c)[item[c]].text)
         /\ kind(tool(c)) # "move" =>
              \A p \in Places \ {destination(c, item[c])} : Effect(c)[p] = file[p]
         /\ kind(tool(c)) = "copy" =>
              Effect(c)[destination(c, item[c])] = file[source(c, item[c])]
         /\ kind(tool(c)) = "move" =>
              /\ Effect(c)[source(c, item[c])] = Missing
              /\ source(c, item[c]) # destination(c, item[c]) =>
                   Effect(c)[destination(c, item[c])] = file[source(c, item[c])]
<1> DEFINE s == source(c, item[c])
           d == destination(c, item[c])
           t == items(c)[item[c]].text
<1>1. /\ s \in Places /\ d \in Places /\ t \in Seq(Pieces) /\ tool(c) \in Tool
      /\ current(c).source = s /\ current(c).destination = d /\ current(c).text = t
  BY CallFacts DEF current, source, destination
<1>2. file \in [Places -> Text] /\ t \in Text /\ Missing \in Text
  BY <1>1, FileTypes
<1>3. Appended(file[d], t) \in Text
  <2>1. CASE file[d] = Missing
    BY <1>2, <2>1 DEF Appended
  <2>2. CASE file[d] # Missing
    <3>1. file[d] \in Seq(Pieces)
      BY <1>1, <1>2, <2>2, FileTypes
    <3>2. file[d] \o t \in Seq(Pieces)
      BY <1>1, <3>1, TextFacts
    <3> QED
      BY <2>2, <3>2 DEF Appended, Text
  <2> QED
    BY <2>1, <2>2
<1>4. kind(tool(c)) \in {"write", "append", "copy", "move"}
  BY <1>1, KindFacts
<1>5. PlacesOf(c, item[c]) = {s, d}
  BY DEF PlacesOf
<1> HIDE DEF s, d, t
<1>6. CASE kind(tool(c)) = "write"
  <2>1. Effect(c) = [file EXCEPT ![d] = t]
    BY <1>1, <1>6 DEF Effect
  <2> QED
    BY <1>1, <1>2, <1>5, <1>6, <2>1 DEF s, d, t
<1>7. CASE kind(tool(c)) = "append"
  <2>1. Effect(c) = [file EXCEPT ![d] = Appended(file[d], t)]
    BY <1>1, <1>2, <1>7 DEF Effect
  <2> QED
    BY <1>1, <1>2, <1>3, <1>5, <1>7, <2>1 DEF s, d, t
<1>8. CASE kind(tool(c)) = "copy"
  <2>1. Effect(c) = [file EXCEPT ![d] = file[s]]
    BY <1>1, <1>8 DEF Effect
  <2> QED
    BY <1>1, <1>2, <1>5, <1>8, <2>1 DEF s, d, t
<1>9. CASE kind(tool(c)) = "move"
  <2>1. Effect(c) = [file EXCEPT ![d] = file[s], ![s] = Missing]
    BY <1>1, <1>9 DEF Effect
  <2> QED
    BY <1>1, <1>2, <1>5, <1>9, <2>1 DEF s, d, t
<1> QED
  BY <1>4, <1>6, <1>7, <1>8, <1>9

(* The record an undo is about.                                            *)
LEMMA UndoFacts ==
  ASSUME TypeOK, WhereInv, OrderInv, NEW u \in Undoers, pc[u] # "idle"
  PROVE  /\ undoCall(u) \in Calls /\ undoItem(u) \in Index
         /\ pc[undoCall(u)] # "idle"
         /\ undoItem(u) \in succeeded[undoCall(u)]
         /\ undoItem(u) \in DOMAIN items(undoCall(u))
         /\ undoSource(u) = source(undoCall(u), undoItem(u))
         /\ undoDestination(u) = destination(undoCall(u), undoItem(u))
         /\ undoSource(u) \in Places /\ undoDestination(u) \in Places
         /\ tool(undoCall(u)) \in Tool
<1>1. undoCall(u) \in Calls /\ undoItem(u) \in Index /\ undo[undoCall(u)][undoItem(u)] # "none"
  BY DEF WhereInv, undoCall, undoItem
<1>2. undoItem(u) \in succeeded[undoCall(u)] /\ undoItem(u) \in changed[undoCall(u)]
  BY <1>1 DEF OrderInv
<1>3. pc[undoCall(u)] # "idle"
  BY <1>1, <1>2 DEF OrderInv
<1>4. undoItem(u) \in DOMAIN items(undoCall(u))
  BY <1>1, <1>2, <1>3 DEF OrderInv
<1> QED
  BY <1>1, <1>2, <1>3, <1>4, CallFacts DEF undoSource, undoDestination

LEMMA UndoEffectFacts ==
  ASSUME TypeOK, WhereInv, OrderInv, DoneInv, NEW u \in Undoers, pc[u] # "idle",
         file[undoDestination(u)] # Missing
  PROVE  /\ UndoEffect(u) \in [Places -> Text]
         /\ \A p \in Places \ {undoSource(u), undoDestination(u)} : UndoEffect(u)[p] = file[p]
         /\ undoKind(u) \in {"write", "copy"} =>
              /\ UndoEffect(u)[undoDestination(u)] = Missing
              /\ \A p \in Places \ {undoDestination(u)} : UndoEffect(u)[p] = file[p]
         /\ undoKind(u) = "append" =>
              /\ precondition(u) \in Seq(Pieces)
              /\ UndoEffect(u)[undoDestination(u)] =
                   Truncated(file[undoDestination(u)], Len(precondition(u)))
              /\ \A p \in Places \ {undoDestination(u)} : UndoEffect(u)[p] = file[p]
         /\ undoKind(u) = "move" =>
              /\ undoSource(u) # undoDestination(u)
              /\ UndoEffect(u)[undoDestination(u)] = Missing
              /\ UndoEffect(u)[undoSource(u)] = file[undoDestination(u)]
<1> DEFINE s == undoSource(u)
           d == undoDestination(u)
<1>1. s \in Places /\ d \in Places /\ undoKind(u) \in {"write", "append", "copy", "move"}
  BY UndoFacts, KindFacts DEF undoKind
<1>2. file \in [Places -> Text] /\ Missing \in Text /\ file[d] \in Seq(Pieces)
  BY <1>1, FileTypes
<1>3. FoundText(undoCall(u), undoItem(u))
  BY UndoFacts DEF DoneInv
<1>4. undoKind(u) = "append" => precondition(u) \in Seq(Pieces)
  <2>1. before[undoCall(u)][undoItem(u)] \in Text
    BY UndoFacts DEF TypeOK
  <2> QED
    BY <1>3, <2>1, FileTypes DEF FoundText, precondition, undoKind
<1>5. undoKind(u) = "move" => s # d
  BY <1>3, UndoFacts DEF FoundText, undoKind
<1> HIDE DEF s, d
<1>6. CASE undoKind(u) \in {"write", "copy"}
  <2>1. UndoEffect(u) = [file EXCEPT ![d] = Missing]
    BY <1>6 DEF UndoEffect, d
  <2> QED
    BY <1>1, <1>2, <1>6, <2>1 DEF s, d
<1>7. CASE undoKind(u) = "append"
  <2>1. UndoEffect(u) = [file EXCEPT ![d] = Truncated(file[d], Len(precondition(u)))]
    BY <1>1, <1>2, <1>7 DEF UndoEffect, d
  <2>2. Truncated(file[d], Len(precondition(u))) \in Text
    <3>1. Len(precondition(u)) \in Nat
      BY <1>4, <1>7
    <3> QED
      BY <1>2, <3>1, TextFacts DEF Text
  <2> QED
    BY <1>1, <1>2, <1>4, <1>7, <2>1, <2>2 DEF s, d
<1>8. CASE undoKind(u) = "move"
  <2>1. UndoEffect(u) = [file EXCEPT ![s] = file[d], ![d] = Missing]
    BY <1>8 DEF UndoEffect, s, d
  <2> QED
    BY <1>1, <1>2, <1>5, <1>8, <2>1 DEF s, d
<1> QED
  BY <1>1, <1>6, <1>7, <1>8

(* Races are never forgotten.                                              *)
LEMMA RaceType ==
  ASSUME raced \in SUBSET Places, NEW x, NEW S, S \subseteq Places, RaceOn(x, S)
  PROVE  /\ raced' \in SUBSET Places /\ raced \subseteq raced'
         /\ \A y \in (Calls \cup Undoers) \ {x} : \A p \in S : Touches(y, p) => p \in raced'
BY DEF RaceOn

LEMMA TypeCall ==
  ASSUME TypeOK, WhereInv, OrderInv, NEW c \in Calls, CallStep(c)
  PROVE  TypeOK'
<1>0. pc[c] # "idle"
  BY DEF CallStep, Begin, Check, Act, Verify, NoteItem, PassOver, Commit, DuplicateSlot,
         CallLocked, Reused, goto
<1> DEFINE r == request[c]
<1>1. /\ item[c] \in Index /\ DOMAIN items(c) \subseteq Index
      /\ source(c, item[c]) \in Places /\ destination(c, item[c]) \in Places
      /\ current(c).source = source(c, item[c])
      /\ current(c).destination = destination(c, item[c])
  BY <1>0, CallFacts DEF current, source, destination
<1>2. file[current(c).source] \in Text /\ file[current(c).destination] \in Text
  BY <1>1 DEF TypeOK
<1> USE DEF TypeOK, rows, calls, undos, history, bounds
<1>3. CASE Begin(c)
  BY <1>3 DEF Begin, goto, Location, Finished
<1>4. CASE Check(c)
  <2>1. before' \in [Calls -> [Index -> Text]]
    BY <1>1, <1>2, <1>4 DEF Check
  <2>2. CASE ItemEnds(c, "check", FALSE)
    <3>1. /\ pc' \in [Calls \cup Undoers -> Location] /\ item' \in [Calls -> Index]
          /\ succeeded' \in [Calls -> SUBSET Index]
      BY <2>2, ItemEndsFacts
    <3> QED
      BY <1>4, <2>1, <3>1 DEF Check
  <2>3. CASE goto(c, "check", "act") /\ UNCHANGED <<item, succeeded>>
    BY <1>4, <2>1, <2>3 DEF Check, goto, Location
  <2> QED
    BY <1>4, <2>2, <2>3 DEF Check
<1>5. CASE Act(c)
  <2>1. CASE ItemEnds(c, "act", FALSE) /\ UNCHANGED <<file, changed, raced, interrupted>>
    <3>1. /\ pc' \in [Calls \cup Undoers -> Location] /\ item' \in [Calls -> Index]
          /\ succeeded' \in [Calls -> SUBSET Index]
      BY <2>1, ItemEndsFacts
    <3> QED
      BY <1>5, <2>1, <3>1 DEF Act
  <2>2. CASE /\ kind(tool(c)) \in {"copy", "move"} => Present(c)
             /\ goto(c, "act", "verify") /\ file' = Effect(c)
             /\ changed' = [changed EXCEPT ![c] = @ \cup {item[c]}]
             /\ RaceOn(c, {p \in Places : file'[p] # file[p]})
             /\ Interrupt(c)
             /\ UNCHANGED <<item, succeeded>>
    <3>1. file' \in [Places -> Text]
      BY <1>5, <2>2, EffectFacts DEF Act
    <3>2. raced' \in SUBSET Places
      BY <2>2, RaceType
    <3>3. pc' \in [Calls \cup Undoers -> Location]
      BY <2>2 DEF goto, Location
    <3>4. changed' \in [Calls -> SUBSET Index]
      BY <1>1, <2>2
    <3>5. interrupted' \in SUBSET Undoers
      BY <2>2 DEF Interrupt
    <3> QED
      BY <1>5, <2>2, <3>1, <3>2, <3>3, <3>4, <3>5 DEF Act
  <2> QED
    BY <1>5, <2>1, <2>2 DEF Act
<1>6. CASE Verify(c)
  <2>1. Verified(c) \in BOOLEAN
    BY DEF Verified
  <2>2. /\ pc' \in [Calls \cup Undoers -> Location] /\ item' \in [Calls -> Index]
        /\ succeeded' \in [Calls -> SUBSET Index]
    <3>1. ItemEnds(c, "verify", Verified(c))
      BY <1>6 DEF Verify
    <3> QED
      BY <2>1, <3>1, ItemEndsFacts
  <2>3. after' \in [Calls -> [Index -> Text]]
    BY <1>1, <1>2, <1>6 DEF Verify
  <2> QED
    BY <1>6, <2>2, <2>3 DEF Verify
<1>7. CASE NoteItem(c) \/ PassOver(c)
  <2>1. item' \in [Calls -> Index]
    <3>1. item[c] \in 1..Len(items(c)) /\ Len(items(c)) \in 1..MaxItems /\ MaxItems \in Nat
      BY <1>0, CallFacts, BoundsAssumption
    <3>2. item[c] # Len(items(c)) => item[c] + 1 \in Index
      BY <3>1 DEF Index
    <3> QED
      BY <1>7, <1>1, <3>2 DEF NoteItem, PassOver
  <2>2. noted' \in [Calls -> SUBSET Index]
    BY <1>1, <1>7 DEF NoteItem, PassOver
  <2>3. pc' \in [Calls \cup Undoers -> Location]
    BY <1>7 DEF NoteItem, PassOver, goto, Location
  <2>4. writer' \in Calls \cup Undoers \cup {NoOne}
    BY <1>7 DEF NoteItem, PassOver
  <2> QED
    BY <1>7, <2>1, <2>2, <2>3, <2>4 DEF NoteItem, PassOver
<1>8. CASE Commit(c)
  <2>4. \E to \in {"completed", "failed"} : pc' = [pc EXCEPT ![c] = to]
    BY <1>8 DEF Commit, goto
  <2>1. pc' \in [Calls \cup Undoers -> Location]
    BY <2>4 DEF Location, Finished
  <2>2. undo' \in [Calls -> [Index -> {"none", "PENDING", "APPLIED"}]]
    BY <1>8 DEF Commit
  <2>3. recovery' \in [Slots -> {"none", "STORED", "RESTORED"}]
    BY <1>8 DEF Commit
  <2> QED
    BY <1>8, <2>1, <2>2, <2>3 DEF Commit
<1>9. CASE DuplicateSlot(c) \/ CallLocked(c)
  BY <1>9 DEF DuplicateSlot, CallLocked, goto, Location, Finished
<1> QED
  BY <1>3, <1>4, <1>5, <1>6, <1>7, <1>8, <1>9 DEF CallStep

LEMMA TypeStart ==
  ASSUME TypeOK, NEW c \in Calls,
         Approve(c) \/ \E r \in Requests : Start(c, r)
  PROVE  TypeOK'
<1> USE DEF TypeOK, rows, calls, undos, history, bounds, goto, Location
<1>1. CASE Approve(c)
  BY <1>1 DEF Approve
<1>2. ASSUME NEW r \in Requests, Start(c, r) PROVE TypeOK'
  <2>1. ManifestOf(r) \in [Index -> Text]
    BY RequestFacts, FileTypes DEF ManifestOf
  <2>2. manifest' \in [Calls -> [Index -> Text]]
    BY <1>2, <2>1 DEF Start
  <2>3. pc' \in [Calls \cup Undoers -> Location]
    BY <1>2 DEF Start
  <2> QED
    BY <1>2, <2>2, <2>3 DEF Start
<1> QED
  BY <1>1, <1>2

LEMMA TypeUndo ==
  ASSUME TypeOK, WhereInv, OrderInv, DoneInv, NEW u \in Undoers,
         UndoStep(u) \/ \E c \in Calls, i \in Index : Undo(u, c, i)
  PROVE  TypeOK'
<1> USE DEF TypeOK, rows, calls, undos, history, bounds, goto, Location, Finished
<1>1. ASSUME NEW c \in Calls, NEW i \in Index, Undo(u, c, i) PROVE TypeOK'
  BY <1>1 DEF Undo
<1>2. CASE UndoFlush(u)
  BY <1>2 DEF UndoFlush
<1>3. CASE UndoCheck(u) \/ UndoVerify(u)
  BY <1>3 DEF UndoCheck, UndoVerify
<1>4. CASE UndoAct(u)
  <2>1. CASE goto(u, "undoAct", "undoConflict") /\ UNCHANGED <<file, undid, raced>>
    BY <1>4, <2>1 DEF UndoAct
  <2>2. CASE /\ file[undoDestination(u)] # Missing
             /\ goto(u, "undoAct", "undoVerify") /\ file' = UndoEffect(u)
             /\ undid' = undid \cup {u}
             /\ RaceOn(u, {p \in Places : file'[p] # file[p]})
    <3>1. file' \in [Places -> Text]
      BY <2>2, UndoEffectFacts
    <3>2. raced' \in SUBSET Places
      BY <2>2, RaceType
    <3> QED
      BY <1>4, <2>2, <3>1, <3>2 DEF UndoAct
  <2> QED
    BY <1>4, <2>1, <2>2 DEF UndoAct
<1>5. CASE UndoCommit(u)
  <2>1. undoCall(u) \in Calls /\ undoItem(u) \in Index
    BY <1>5, UndoFacts DEF UndoCommit
  <2>2. undo' \in [Calls -> [Index -> {"none", "PENDING", "APPLIED"}]]
    <3>1. CASE undo' = undo
      BY <3>1
    <3>2. CASE undo' = [undo EXCEPT ![undoCall(u)] =
                          [undo[undoCall(u)] EXCEPT ![undoItem(u)] = "APPLIED"]]
      BY <2>1, <3>2
    <3> QED
      BY <1>5, <3>1, <3>2 DEF UndoCommit
  <2>3. \E to \in {"applied", "conflict", "restoreFailed"} : pc' = [pc EXCEPT ![u] = to]
    BY <1>5 DEF UndoCommit
  <2>4. pc' \in [Calls \cup Undoers -> Location]
    BY <2>3
  <2> QED
    BY <1>5, <2>2, <2>4 DEF UndoCommit
<1> QED
  BY <1>1, <1>2, <1>3, <1>4, <1>5 DEF UndoStep

LEMMA TypeOthers ==
  ASSUME TypeOK,
         Crash \/ UNCHANGED vars \/ \E p \in Paths, text \in Edited : Edit(p, text)
  PROVE  TypeOK'
<1> USE BoundsAssumption DEF TypeOK, rows, calls, undos, history, bounds
<1>1. CASE Crash
  BY <1>1 DEF Crash, Location, Finished
<1>2. CASE UNCHANGED vars
  BY <1>2 DEF vars
<1>3. ASSUME NEW p \in Paths, NEW text \in Edited, Edit(p, text) PROVE TypeOK'
  <2>1. raced' \in SUBSET Places
    BY <1>3, RaceType DEF Edit, Places
  <2>2. file' \in [Places -> Text]
    BY <1>3 DEF Edit
  <2>3. interrupted' \in SUBSET Undoers
    BY <1>3 DEF Edit, Interrupt
  <2> QED
    BY <1>3, <2>1, <2>2, <2>3 DEF Edit
<1> QED
  BY <1>1, <1>2, <1>3

-----------------------------------------------------------------------------
(* Who moves, and what the others keep.                                    *)

OwnCall(c) == CallStep(c) \/ Approve(c) \/ \E r \in Requests : Start(c, r)
OwnUndo(u) == UndoStep(u) \/ \E c \in Calls, i \in Index : Undo(u, c, i)
OtherStep == Crash \/ UNCHANGED vars \/ \E p \in Paths, text \in Edited : Edit(p, text)

LEMMA NextSteps ==
  [Next]_vars <=> \/ \E c \in Calls : OwnCall(c)
                  \/ \E u \in Undoers : OwnUndo(u)
                  \/ OtherStep
BY DEF Next, OwnCall, OwnUndo, OtherStep

LEMMA TypeStep ==
  ASSUME TypeOK, WhereInv, OrderInv, DoneInv, [Next]_vars
  PROVE  TypeOK'
<1>1. ASSUME NEW c \in Calls, OwnCall(c) PROVE TypeOK'
  BY <1>1, TypeCall, TypeStart DEF OwnCall
<1>2. ASSUME NEW u \in Undoers, OwnUndo(u) PROVE TypeOK'
  BY <1>2, TypeUndo DEF OwnUndo
<1>3. CASE OtherStep
  BY <1>3, TypeOthers DEF OtherStep
<1> QED
  BY <1>1, <1>2, <1>3, NextSteps

(* Everything a call keeps to itself.                                      *)
Own(c) == <<request[c], item[c], before[c], after[c], succeeded[c], noted[c], changed[c],
            manifest[c]>>
(* A step of x changes files only under protest.                           *)
Protests(x) ==
  /\ raced \subseteq raced'
  /\ \A p \in Places : file'[p] # file[p] =>
       \A y \in (Calls \cup Undoers) \ {x} : Touches(y, p) => p \in raced'

LEMMA Protested ==
  ASSUME raced \in SUBSET Places, NEW x, RaceOn(x, {p \in Places : file'[p] # file[p]})
  PROVE  Protests(x)
<1> DEFINE S == {p \in Places : file'[p] # file[p]}
<1>1. S \subseteq Places /\ RaceOn(x, S)
  OBVIOUS
<1>2. \A p \in Places : file'[p] # file[p] <=> p \in S
  OBVIOUS
<1> HIDE DEF S
<1>3. /\ raced \subseteq raced'
      /\ \A y \in (Calls \cup Undoers) \ {x} : \A p \in S : Touches(y, p) => p \in raced'
  BY <1>1, RaceType
<1> QED
  BY <1>2, <1>3 DEF Protests

LEMMA CallFrame ==
  ASSUME TypeOK, WhereInv, NEW c \in Calls, OwnCall(c)
  PROVE  /\ \A d \in Calls \ {c} : UNCHANGED <<Own(d), undo[d], pc[d]>>
         /\ \A u \in Undoers : pc'[u] = pc[u]
         /\ UNCHANGED <<undoOf, undid>>
         /\ Protests(c)
         /\ \A i \in Index : undo[c][i] # "none" => undo'[c][i] # "none"
<1> USE DEF rows, calls, undos, history, bounds
<1>1. c \notin Undoers
  BY NamesAssumption
<1>2. UNCHANGED <<undoOf, undid>>
  BY DEF OwnCall, CallStep, Begin, Check, Act, Verify, NoteItem, PassOver, Commit,
         DuplicateSlot, CallLocked, Approve, Start
<1>3. \A x \in (Calls \cup Undoers) \ {c} : pc'[x] = pc[x]
  BY DEF OwnCall, CallStep, Begin, Check, Act, Verify, NoteItem, PassOver, Commit, ItemEnds,
         DuplicateSlot, CallLocked, Approve, Start, goto, TypeOK
<1>4. Protests(c)
  <2>1. CASE UNCHANGED <<file, raced>>
    BY <2>1 DEF Protests
  <2>2. CASE Act(c) /\ ~ UNCHANGED <<file, raced>>
    <3>1. RaceOn(c, {p \in Places : file'[p] # file[p]})
      BY <2>2 DEF Act
    <3> QED
      BY <3>1, Protested DEF TypeOK
  <2>3. Act(c) \/ UNCHANGED <<file, raced>>
    BY DEF OwnCall, CallStep, Begin, Check, Verify, NoteItem, PassOver, Commit,
         DuplicateSlot, CallLocked, Approve, Start
  <2> QED
    BY <2>1, <2>2, <2>3
<1>5. /\ \A d \in Calls \ {c} : UNCHANGED undo[d]
      /\ \A i \in Index : undo[c][i] # "none" => undo'[c][i] # "none"
  <2>1. CASE Commit(c)
    BY <2>1 DEF Commit, TypeOK
  <2>2. CASE UNCHANGED undo
    BY <2>2
  <2> QED
    BY <2>1, <2>2 DEF OwnCall, CallStep, Begin, Check, Act, Verify, NoteItem, PassOver,
         DuplicateSlot, CallLocked, Approve, Start
<1>6. \A d \in Calls \ {c} : UNCHANGED <<request[d], before[d], after[d], noted[d], changed[d],
                                        manifest[d]>>
  BY DEF OwnCall, CallStep, Begin, Check, Act, Verify, NoteItem, PassOver, Commit,
         DuplicateSlot, CallLocked, Approve, Start, TypeOK
<1>7. \A d \in Calls \ {c} : UNCHANGED <<item[d], succeeded[d]>>
  BY DEF OwnCall, CallStep, Begin, Check, Act, Verify, NoteItem, PassOver, Commit, ItemEnds,
         DuplicateSlot, CallLocked, Approve, Start, TypeOK
<1> QED
  BY <1>1, <1>2, <1>3, <1>4, <1>5, <1>6, <1>7 DEF Own

LEMMA UndoFrame ==
  ASSUME TypeOK, WhereInv, OrderInv, NEW u \in Undoers, OwnUndo(u)
  PROVE  /\ UNCHANGED <<calls, changed, manifest>>
         /\ \A x \in (Calls \cup Undoers) \ {u} : pc'[x] = pc[x]
         /\ \A v \in Undoers \ {u} : undoOf'[v] = undoOf[v]
         /\ Protests(u)
         /\ \A c \in Calls, i \in Index : undo'[c][i] # "none" <=> undo[c][i] # "none"
<1> USE DEF rows, undos, history, bounds
<1>1. UNCHANGED <<calls, changed, manifest>>
  BY DEF OwnUndo, UndoStep, Undo, UndoFlush, UndoCheck, UndoAct, UndoVerify, UndoCommit
<1>2. \A x \in (Calls \cup Undoers) \ {u} : pc'[x] = pc[x]
  BY DEF OwnUndo, UndoStep, Undo, UndoFlush, UndoCheck, UndoAct, UndoVerify, UndoCommit, goto,
         TypeOK
<1>3. \A v \in Undoers \ {u} : undoOf'[v] = undoOf[v]
  BY DEF OwnUndo, UndoStep, Undo, UndoFlush, UndoCheck, UndoAct, UndoVerify, UndoCommit, TypeOK
<1>4. Protests(u)
  <2>1. CASE UNCHANGED <<file, raced>>
    BY <2>1 DEF Protests
  <2>2. CASE UndoAct(u) /\ ~ UNCHANGED <<file, raced>>
    <3>1. RaceOn(u, {p \in Places : file'[p] # file[p]})
      BY <2>2 DEF UndoAct
    <3> QED
      BY <3>1, Protested DEF TypeOK
  <2>3. UndoAct(u) \/ UNCHANGED <<file, raced>>
    BY DEF OwnUndo, UndoStep, Undo, UndoFlush, UndoCheck, UndoVerify, UndoCommit
  <2> QED
    BY <2>1, <2>2, <2>3
<1>5. \A c \in Calls, i \in Index : undo'[c][i] # "none" <=> undo[c][i] # "none"
  <2>1. CASE UNCHANGED undo
    BY <2>1
  <2>2. CASE UndoCommit(u)
    <3>1. /\ undoCall(u) \in Calls /\ undoItem(u) \in Index
          /\ undo[undoCall(u)][undoItem(u)] # "none"
      BY <2>2, UndoFacts DEF UndoCommit, goto, WhereInv
    <3>2. CASE undo' = [undo EXCEPT ![undoCall(u)] =
                          [undo[undoCall(u)] EXCEPT ![undoItem(u)] = "APPLIED"]]
      BY <3>1, <3>2 DEF TypeOK
    <3> QED
      BY <2>1, <2>2, <3>2 DEF UndoCommit
  <2> QED
    BY <2>1, <2>2 DEF OwnUndo, UndoStep, Undo, UndoFlush, UndoCheck, UndoAct, UndoVerify
<1> QED
  BY <1>1, <1>2, <1>3, <1>4, <1>5

LEMMA OtherFrame ==
  ASSUME TypeOK, OtherStep
  PROVE  /\ UNCHANGED <<calls, undoOf, rows, changed, undid>>
         /\ \A x \in Calls \cup Undoers : \/ pc'[x] = pc[x]
                                          \/ pc'[x] = "crashed" /\ Active(x)
         /\ Protests(NoOne)
<1> USE DEF rows, calls, undos, history, bounds
<1>1. CASE Crash
  BY <1>1 DEF Crash, Protests
<1>2. CASE UNCHANGED vars
  BY <1>2 DEF vars, Protests
<1>3. ASSUME NEW p \in Paths, NEW text \in Edited, Edit(p, text)
      PROVE  /\ UNCHANGED <<calls, undoOf, rows, changed, undid, pc>>
             /\ Protests(NoOne)
  <2>1. RaceOn(NoOne, {p}) /\ {p} \subseteq Places /\ \A q \in Places \ {p} : file'[q] = file[q]
    BY <1>3 DEF Edit, Places, TypeOK
  <2>2. raced \subseteq raced'
        /\ \A y \in (Calls \cup Undoers) \ {NoOne} : Touches(y, p) => p \in raced'
    BY <2>1, RaceType DEF TypeOK
  <2>3. Protests(NoOne)
    BY <2>1, <2>2 DEF Protests
  <2> QED
    BY <1>3, <2>3 DEF Edit
<1> QED
  BY <1>1, <1>2, <1>3 DEF OtherStep

(* What a call finds unchanged when another thread has moved.              *)
LEMMA CallKeeps ==
  ASSUME TypeOK, WhereInv, OrderInv, [Next]_vars, NEW c \in Calls, ~OwnCall(c)
  PROVE  /\ UNCHANGED Own(c)
         /\ (pc'[c] = pc[c] \/ (pc'[c] = "crashed" /\ Active(c)))
         /\ \A i \in Index : undo'[c][i] # "none" <=> undo[c][i] # "none"
         /\ raced \subseteq raced'
         /\ \A p \in Places : Touches(c, p) => file'[p] = file[p] \/ p \in raced'
<1>1. c \notin Undoers /\ c # NoOne
  BY NamesAssumption
<1>2. ASSUME NEW d \in Calls, OwnCall(d)
      PROVE  /\ UNCHANGED <<Own(c), undo[c], pc[c]>> /\ Protests(d) /\ c # d
  BY <1>2, CallFrame
<1>3. ASSUME NEW u \in Undoers, OwnUndo(u)
      PROVE  /\ UNCHANGED <<Own(c), pc[c]>> /\ Protests(u) /\ c # u
             /\ \A i \in Index : undo'[c][i] # "none" <=> undo[c][i] # "none"
  BY <1>1, <1>3, UndoFrame DEF Own, calls
<1>4. CASE OtherStep
  <2>1. UNCHANGED <<Own(c), undo>> /\ Protests(NoOne)
    BY <1>4, OtherFrame DEF Own, calls, rows
  <2> QED
    BY <1>1, <1>4, <2>1, OtherFrame DEF Protests
<1> QED
  BY <1>2, <1>3, <1>4, NextSteps DEF Protests

LEMMA UndoKeeps ==
  ASSUME TypeOK, WhereInv, OrderInv, [Next]_vars, NEW u \in Undoers, ~OwnUndo(u)
  PROVE  /\ undoOf'[u] = undoOf[u]
         /\ (pc'[u] = pc[u] \/ (pc'[u] = "crashed" /\ Active(u)))
         /\ raced \subseteq raced'
         /\ \A p \in Places : Touches(u, p) => file'[p] = file[p] \/ p \in raced'
<1>1. u \notin Calls /\ u # NoOne
  BY NamesAssumption
<1>2. ASSUME NEW c \in Calls, OwnCall(c)
      PROVE  undoOf'[u] = undoOf[u] /\ pc'[u] = pc[u] /\ Protests(c) /\ u # c
  BY <1>1, <1>2, CallFrame
<1>3. ASSUME NEW v \in Undoers, OwnUndo(v)
      PROVE  undoOf'[u] = undoOf[u] /\ pc'[u] = pc[u] /\ Protests(v) /\ u # v
  BY <1>3, UndoFrame
<1>4. CASE OtherStep
  BY <1>1, <1>4, OtherFrame DEF Protests
<1> QED
  BY <1>2, <1>3, <1>4, NextSteps DEF Protests

(* A record stays, and with it the texts its item began and ended with.     *)
LEMMA RecordStays ==
  ASSUME TypeOK, WhereInv, OrderInv, [Next]_vars, NEW c \in Calls
  PROVE  /\ \A i \in Index : undo[c][i] # "none" => undo'[c][i] # "none"
         /\ pc[c] # "idle" => pc'[c] # "idle" /\ request'[c] = request[c]
         /\ \A i \in succeeded[c] : /\ i \in succeeded'[c]
                                    /\ before'[c][i] = before[c][i]
                                    /\ after'[c][i] = after[c][i]
         /\ raced \subseteq raced'
<1>1. CASE ~OwnCall(c)
  BY <1>1, CallKeeps DEF Own, Active
<1>2. CASE OwnCall(c)
  <2>1. /\ \A i \in Index : undo[c][i] # "none" => undo'[c][i] # "none"
        /\ raced \subseteq raced'
    BY <1>2, CallFrame DEF Protests
  <2>2. pc[c] # "idle" => pc'[c] # "idle" /\ request'[c] = request[c]
    <3> USE DEF calls, TypeOK
    <3> QED
      BY <1>2 DEF OwnCall, CallStep, Begin, Check, Act, Verify, NoteItem, PassOver, Commit,
           ItemEnds, DuplicateSlot, CallLocked, Approve, Start, goto
  <2>3. \A i \in succeeded[c] : i \in succeeded'[c]
    BY <1>2 DEF OwnCall, CallStep, Begin, Check, Act, Verify, NoteItem, PassOver, Commit,
         ItemEnds, DuplicateSlot, CallLocked, Approve, Start, calls, TypeOK
  <2>4. \A i \in succeeded[c] : before'[c][i] = before[c][i]
    <3>1. CASE Check(c)
      <4>1. \A i \in succeeded[c] : i # item[c]
        <5>1. \A i \in succeeded[c] : i < item[c]
          BY <3>1 DEF OrderInv, Check
        <5> QED
          BY <5>1 DEF TypeOK, Index
      <4> QED
        BY <3>1, <4>1 DEF Check, TypeOK
    <3>2. CASE UNCHANGED before
      BY <3>2
    <3> QED
      BY <1>2, <3>1, <3>2 DEF OwnCall, CallStep, Begin, Act, Verify, NoteItem, PassOver, Commit,
           DuplicateSlot, CallLocked, Approve, Start, calls
  <2>5. \A i \in succeeded[c] : after'[c][i] = after[c][i]
    <3>1. CASE Verify(c)
      <4>1. \A i \in succeeded[c] : i # item[c]
        BY <3>1 DEF OrderInv, Verify, ItemEnds, goto
      <4> QED
        BY <3>1, <4>1 DEF Verify, TypeOK
    <3>2. CASE UNCHANGED after
      BY <3>2
    <3> QED
      BY <1>2, <3>1, <3>2 DEF OwnCall, CallStep, Begin, Check, Act, NoteItem, PassOver, Commit,
           DuplicateSlot, CallLocked, Approve, Start, calls
  <2> QED
    BY <2>1, <2>2, <2>3, <2>4, <2>5
<1> QED
  BY <1>1, <1>2

-----------------------------------------------------------------------------
(* Each part of the invariant is kept.                                     *)

(* ItemEnds, for the call that takes it.                                   *)
Ends(c, from, ok) ==
  /\ pc[c] = from
  /\ succeeded'[c] = IF ok THEN succeeded[c] \cup {item[c]} ELSE succeeded[c]
  /\ \/ pc'[c] = "failing" /\ item'[c] = item[c] /\ ~ok /\ tool(c) \notin Batches
     \/ pc'[c] = "record" /\ item'[c] = 1 /\ item[c] = Len(items(c))
     \/ pc'[c] = "check" /\ item'[c] = item[c] + 1 /\ item[c] < Len(items(c))

LEMMA EndsAt ==
  ASSUME TypeOK, WhereInv, NEW c \in Calls, NEW from, NEW ok \in BOOLEAN,
         from # "idle", ItemEnds(c, from, ok)
  PROVE  Ends(c, from, ok)
<1>1. /\ item[c] \in 1..Len(items(c)) /\ Len(items(c)) \in Nat
  BY CallFacts, BoundsAssumption DEF ItemEnds, goto
<1> QED
  BY <1>1 DEF ItemEnds, Ends, goto, TypeOK

LEMMA WhereStep ==
  ASSUME TypeOK, WhereInv, OrderInv, [Next]_vars
  PROVE  WhereInv'
<1> USE DEF calls, rows, undos, history, bounds
<1> DEFINE
  At(c) == /\ pc[c] \in CallPlaces
           /\ pc[c] # "idle" => request[c] \in Requests /\ item[c] \in DOMAIN items(c)
           /\ pc[c] = "idle" => item[c] = 1
           /\ pc[c] = "begin" => ~ needs_approval(request[c])
           /\ pc[c] \in {"check", "act", "verify", "waiting", "begin"} => noted[c] = {}
  AtUndo(u) == /\ pc[u] \in UndoPlaces
               /\ pc[u] # "idle" => /\ undoOf[u] \in Calls \X Index
                                    /\ undo[undoCall(u)][undoItem(u)] # "none"
<1>1. ASSUME NEW c \in Calls, ~OwnCall(c) PROVE At(c)'
  <2>1. /\ UNCHANGED Own(c)
        /\ pc'[c] = pc[c] \/ (pc'[c] = "crashed" /\ Active(c))
    BY <1>1, CallKeeps
  <2>2. At(c)
    BY DEF WhereInv
  <2> QED
    BY <2>1, <2>2 DEF Own, CallPlaces, items, Active
<1>2. ASSUME NEW c \in Calls, OwnCall(c) PROVE At(c)'
  <2>1. At(c)
    BY DEF WhereInv
  <2>2. ASSUME NEW r \in Requests, Start(c, r) PROVE At(c)'
    <3>1. request'[c] = r /\ pc[c] = "idle" /\ item'[c] = 1 /\ noted'[c] = noted[c]
      BY <2>1, <2>2 DEF Start, goto, TypeOK
    <3>2. pc'[c] = IF needs_approval(r) THEN "waiting" ELSE "begin"
      BY <2>2 DEF Start, goto, TypeOK
    <3>3. noted[c] = {}
      BY <3>1 DEF OrderInv
    <3>4. 1 \in DOMAIN r.items
      BY RequestFacts, BoundsAssumption
    <3> QED
      BY <3>1, <3>2, <3>3, <3>4 DEF CallPlaces, items
  <2>3. CASE Approve(c) \/ Begin(c) \/ Commit(c) \/ DuplicateSlot(c) \/ CallLocked(c)
    <3>1. UNCHANGED <<request, item, noted>> /\ pc[c] # "idle"
      BY <2>3 DEF Approve, Begin, Commit, DuplicateSlot, CallLocked, goto, Reused
    <3>2. pc'[c] \in CallPlaces \ {"idle", "begin", "waiting", "act", "verify"}
      BY <2>3 DEF Approve, Begin, Commit, DuplicateSlot, CallLocked, goto, TypeOK, CallPlaces,
                  Working
    <3>3. pc'[c] = "check" => pc[c] \in {"waiting", "begin"}
      BY <2>3 DEF Approve, Begin, Commit, DuplicateSlot, CallLocked, goto, TypeOK
    <3> QED
      BY <2>1, <3>1, <3>2, <3>3 DEF items
  <2>4. CASE Check(c) \/ Act(c) \/ Verify(c)
    <3>1. UNCHANGED <<request, noted>> /\ pc[c] \in {"check", "act", "verify"}
      BY <2>4, EndsAt DEF Check, Act, Verify, ItemEnds, goto
    <3>2. CASE \E from \in {"check", "act", "verify"}, ok \in BOOLEAN : Ends(c, from, ok)
      <4>1. /\ item[c] \in 1..Len(items(c)) /\ DOMAIN items(c) = 1..Len(items(c))
            /\ Len(items(c)) \in Nat
        BY <3>1, CallFacts, BoundsAssumption
      <4>2. item'[c] \in DOMAIN items(c) /\ pc'[c] \in {"failing", "record", "check"}
        BY <3>2, <4>1 DEF Ends
      <4> QED
        BY <2>1, <3>1, <4>2 DEF CallPlaces, Working, items
    <3>3. CASE UNCHANGED item /\ \E to \in {"act", "verify"} : pc' = [pc EXCEPT ![c] = to]
      BY <2>1, <3>1, <3>3 DEF CallPlaces, Working, items, TypeOK
    <3>4. Verified(c) \in BOOLEAN
      BY DEF Verified
    <3> QED
      BY <2>4, <3>2, <3>3, <3>4, EndsAt DEF Check, Act, Verify, goto
  <2>5. CASE NoteItem(c) \/ PassOver(c)
    <3>1. UNCHANGED request /\ pc[c] = "record"
      BY <2>5 DEF NoteItem, PassOver
    <3>2. /\ item[c] \in 1..Len(items(c)) /\ DOMAIN items(c) = 1..Len(items(c))
          /\ Len(items(c)) \in Nat
      BY <3>1, CallFacts, BoundsAssumption
    <3>3. item'[c] \in DOMAIN items(c)
      BY <2>5, <3>2 DEF NoteItem, PassOver, TypeOK
    <3>4. pc'[c] \in {"failing", "record", "commit"}
      BY <2>5 DEF NoteItem, PassOver, TypeOK, goto
    <3> QED
      BY <2>1, <3>1, <3>3, <3>4 DEF CallPlaces, Working, items
  <2> QED
    BY <1>2, <2>2, <2>3, <2>4, <2>5 DEF OwnCall, CallStep
<1>3. ASSUME NEW u \in Undoers PROVE AtUndo(u)'
  <2>1. AtUndo(u) /\ undoOf[u] \in (Calls \cup {NoOne}) \X Index
    BY DEF WhereInv, TypeOK
  <2>2. ASSUME NEW c \in Calls, NEW i \in Index, Undo(u, c, i) PROVE AtUndo(u)'
    <3>1. pc'[u] = "flush" /\ undoOf'[u] = <<c, i>> /\ undo' = undo /\ undo[c][i] # "none"
      BY <2>2 DEF Undo, goto, TypeOK
    <3> QED
      BY <3>1 DEF UndoPlaces, undoCall, undoItem
  <2>3. ASSUME ~ \E c \in Calls, i \in Index : Undo(u, c, i)
        PROVE  /\ undoOf'[u] = undoOf[u]
               /\ pc'[u] = pc[u] \/ (pc[u] # "idle" /\ pc'[u] \in UndoPlaces)
    <3>1. CASE OwnUndo(u)
      <4>1. UndoStep(u)
        BY <2>3, <3>1 DEF OwnUndo
      <4>2. undoOf' = undoOf /\ pc[u] # "idle"
        BY <4>1 DEF UndoStep, UndoFlush, UndoCheck, UndoAct, UndoVerify, UndoCommit, goto
      <4>3. pc'[u] \in UndoPlaces
        BY <4>1 DEF UndoStep, UndoFlush, UndoCheck, UndoAct, UndoVerify, UndoCommit, goto,
                    UndoPlaces, TypeOK
      <4> QED
        BY <4>2, <4>3
    <3>2. CASE ~OwnUndo(u)
      BY <3>2, UndoKeeps DEF Active, UndoPlaces
    <3> QED
      BY <3>1, <3>2
  <2>4. CASE ~ \E c \in Calls, i \in Index : Undo(u, c, i)
    <3>1. pc[u] = "idle" => pc'[u] = "idle"
      BY <2>3, <2>4
    <3>2. pc[u] # "idle" => undo'[undoCall(u)][undoItem(u)] # "none"
      BY <2>1, RecordStays DEF undoCall, undoItem
    <3> QED
      BY <2>1, <2>3, <2>4, <3>1, <3>2 DEF undoCall, undoItem
  <2> QED
    BY <2>2, <2>4
<1> QED
  BY <1>1, <1>2, <1>3 DEF WhereInv

LEMMA OrderStep ==
  ASSUME TypeOK, WhereInv, OrderInv, [Next]_vars
  PROVE  OrderInv'
<1> USE DEF calls, rows, undos, history, bounds
<1> DEFINE
  In(c) == /\ \A i \in Index : undo[c][i] # "none" => i \in noted[c]
           /\ noted[c] \subseteq succeeded[c]
           /\ succeeded[c] \subseteq changed[c]
           /\ pc[c] \in {"idle", "waiting", "begin"} => changed[c] = {}
           /\ pc[c] # "idle" => changed[c] \subseteq DOMAIN items(c)
           /\ pc[c] \in {"check", "act"} => \A i \in changed[c] : i < item[c]
           /\ pc[c] = "verify" => /\ item[c] \in changed[c] \ succeeded[c]
                                  /\ \A i \in changed[c] : i <= item[c]
<1>0. ASSUME NEW c \in Calls PROVE In(c)
  BY DEF OrderInv
<1>1. ASSUME NEW c \in Calls, ~OwnCall(c) PROVE In(c)'
  BY <1>0, <1>1, CallKeeps DEF Own, items, Active
<1>2. ASSUME NEW c \in Calls, OwnCall(c) PROVE In(c)'
  <2>1. In(c)
    BY <1>0
  <2>0. ASSUME pc[c] # "idle"
        PROVE  /\ item[c] \in 1..Len(items(c)) /\ DOMAIN items(c) = 1..Len(items(c))
               /\ Len(items(c)) \in Nat /\ changed[c] \subseteq Nat
    BY <2>1, <2>0, CallFacts, BoundsAssumption
  <2>2. ASSUME NEW r \in Requests, Start(c, r) PROVE In(c)'
    <3>1. /\ pc[c] = "idle" /\ pc'[c] \in {"waiting", "begin"}
          /\ UNCHANGED <<undo, noted, succeeded, changed>>
      BY <2>2 DEF Start, goto, TypeOK
    <3> QED
      BY <2>1, <3>1
  <2>3. CASE Approve(c) \/ Begin(c)
    <3>1. /\ UNCHANGED <<request, item, noted, succeeded, changed, undo>>
          /\ pc[c] \in {"waiting", "begin"} /\ pc'[c] \in {"check", "failing", "locked"}
      BY <2>3 DEF Approve, Begin, goto, TypeOK
    <3> QED
      BY <2>1, <3>1 DEF items
  <2>4. CASE DuplicateSlot(c) \/ CallLocked(c)
    <3>1. /\ UNCHANGED <<request, item, noted, succeeded, changed, undo>>
          /\ pc[c] # "idle" /\ pc'[c] \in {"duplicate", "locked"}
      BY <2>4 DEF DuplicateSlot, CallLocked, goto, Reused, TypeOK
    <3> QED
      BY <2>1, <3>1 DEF items
  <2>5. CASE Commit(c)
    <3>1. /\ UNCHANGED <<request, item, noted, succeeded, changed>>
          /\ pc[c] # "idle" /\ pc'[c] \in {"completed", "failed"}
      BY <2>5 DEF Commit, goto, TypeOK
    <3>2. \A i \in Index : undo'[c][i] # "none" => i \in noted[c]
      BY <2>1, <2>5 DEF Commit, RecordsOf, TypeOK
    <3> QED
      BY <2>1, <3>1, <3>2 DEF items
  <2>6. CASE Check(c)
    <3>1. UNCHANGED <<request, noted, changed, undo>> /\ pc[c] = "check"
      BY <2>6 DEF Check
    <3>2. CASE Ends(c, "check", FALSE)
      BY <2>0, <2>1, <3>1, <3>2 DEF Ends, items
    <3>3. CASE UNCHANGED <<item, succeeded>> /\ goto(c, "check", "act")
      <4>1. pc'[c] = "act"
        BY <3>3 DEF goto, TypeOK
      <4> QED
        BY <2>1, <3>1, <3>3, <4>1 DEF items
    <3> QED
      BY <2>6, <3>2, <3>3, EndsAt DEF Check
  <2>7. CASE Act(c)
    <3>1. UNCHANGED <<request, noted, undo>> /\ pc[c] = "act"
      BY <2>7 DEF Act
    <3>2. CASE Ends(c, "act", FALSE) /\ UNCHANGED changed
      BY <2>0, <2>1, <3>1, <3>2 DEF Ends, items
    <3>3. CASE /\ UNCHANGED <<item, succeeded>> /\ goto(c, "act", "verify")
               /\ changed' = [changed EXCEPT ![c] = @ \cup {item[c]}]
      <4>1. pc'[c] = "verify" /\ changed'[c] = changed[c] \cup {item[c]}
        BY <3>3 DEF goto, TypeOK
      <4>2. item[c] \notin succeeded[c]
        BY <2>0, <2>1, <3>1
      <4> QED
        BY <2>0, <2>1, <3>1, <3>3, <4>1, <4>2 DEF items
    <3> QED
      BY <2>7, <3>2, <3>3, EndsAt DEF Act
  <2>8. CASE Verify(c)
    <3>1. UNCHANGED <<request, noted, changed, undo>> /\ pc[c] = "verify"
      BY <2>8 DEF Verify, ItemEnds, goto
    <3>2. Ends(c, "verify", Verified(c))
      BY <2>8, EndsAt DEF Verify, Verified
    <3> QED
      BY <2>0, <2>1, <3>1, <3>2 DEF Ends, items
  <2>9. CASE NoteItem(c) \/ PassOver(c)
    <3>1. UNCHANGED <<request, succeeded, changed, undo>> /\ pc[c] = "record"
      BY <2>9 DEF NoteItem, PassOver
    <3>2. pc'[c] \in {"failing", "record", "commit"}
      BY <2>9 DEF NoteItem, PassOver, goto, TypeOK
    <3>3. noted'[c] = noted[c] \/ (noted'[c] = noted[c] \cup {item[c]} /\ item[c] \in succeeded[c])
      BY <2>9 DEF NoteItem, PassOver, TypeOK
    <3> QED
      BY <2>1, <3>1, <3>2, <3>3 DEF items
  <2> QED
    BY <1>2, <2>2, <2>3, <2>4, <2>5, <2>6, <2>7, <2>8, <2>9 DEF OwnCall, CallStep
<1> QED
  BY <1>1, <1>2 DEF OrderInv

LEMMA CurrentStep ==
  ASSUME TypeOK, WhereInv, OrderInv, CurrentInv, [Next]_vars
  PROVE  CurrentInv'
<1> USE DEF calls, rows, undos, history, bounds
<1> DEFINE
  AtAct(c) == /\ FoundText(c, item[c])
              /\ \/ file[source(c, item[c])] = before[c][item[c]]
                 \/ source(c, item[c]) \in raced
              /\ kind(tool(c)) # "append" =>
                   \/ file[destination(c, item[c])] = Missing
                   \/ destination(c, item[c]) \in raced
  AtVerify(c) == /\ FoundText(c, item[c])
                 /\ Unraced(c, item[c]) =>
                      /\ file[destination(c, item[c])] = Expected(c, item[c])
                      /\ kind(tool(c)) = "copy" => file[source(c, item[c])] = before[c][item[c]]
                      /\ kind(tool(c)) = "move" => file[source(c, item[c])] = Missing
<1>1. ASSUME NEW c \in Calls, ~OwnCall(c), pc'[c] \in {"act", "verify"}
      PROVE  (pc'[c] = "act" => AtAct(c)') /\ (pc'[c] = "verify" => AtVerify(c)')
  <2>1. /\ UNCHANGED <<request[c], item[c], before[c], pc[c]>> /\ raced \subseteq raced'
        /\ \A p \in Places : Touches(c, p) => file'[p] = file[p] \/ p \in raced'
    BY <1>1, CallKeeps DEF Own
  <2>2. /\ source(c, item[c]) \in Places /\ destination(c, item[c]) \in Places
        /\ item[c] \in DOMAIN items(c)
    BY <1>1, <2>1, CallFacts
  <2>3. Touches(c, source(c, item[c])) /\ Touches(c, destination(c, item[c]))
    BY <1>1, <2>1, <2>2 DEF Touches
  <2>4. /\ file'[source(c, item[c])] = file[source(c, item[c])]
           \/ source(c, item[c]) \in raced'
        /\ file'[destination(c, item[c])] = file[destination(c, item[c])]
           \/ destination(c, item[c]) \in raced'
    BY <2>1, <2>2, <2>3
  <2>5. UNCHANGED <<source(c, item[c]), destination(c, item[c]), tool(c), before[c][item[c]],
                    Expected(c, item[c]), FoundText(c, item[c])>>
    BY <2>1 DEF source, destination, tool, items, Expected, FoundText
  <2>6. pc[c] = "act" => AtAct(c)'
    <3>1. pc[c] = "act" => AtAct(c)
      BY DEF CurrentInv
    <3> QED
      BY <2>1, <2>4, <2>5, <3>1
  <2>7. pc[c] = "verify" => AtVerify(c)'
    <3>1. pc[c] = "verify" => AtVerify(c)
      BY DEF CurrentInv
    <3> QED
      BY <2>1, <2>4, <2>5, <3>1 DEF Unraced, PlacesOf
  <2> QED
    BY <2>1, <2>6, <2>7
<1>2. ASSUME NEW c \in Calls, OwnCall(c), pc'[c] = "act" PROVE AtAct(c)'
  <2>1. Check(c) /\ goto(c, "check", "act") /\ UNCHANGED <<item, succeeded>>
    <3>1. Check(c) \/ pc'[c] # "act"
      <4>1. ASSUME NEW r \in Requests, Start(c, r) PROVE pc'[c] # "act"
        BY <4>1 DEF Start, goto, TypeOK
      <4>2. CASE Approve(c) \/ Begin(c) \/ Commit(c) \/ DuplicateSlot(c) \/ CallLocked(c)
                 \/ NoteItem(c) \/ PassOver(c)
        BY <4>2 DEF Approve, Begin, Commit, DuplicateSlot, CallLocked, NoteItem, PassOver, goto,
                    TypeOK
      <4>3. CASE Act(c) \/ Verify(c)
        BY <4>3, EndsAt DEF Act, Verify, Verified, Ends, goto, TypeOK
      <4> QED
        BY <1>2, <4>1, <4>2, <4>3 DEF OwnCall, CallStep
    <3>2. ~ Ends(c, "check", FALSE)
      BY <1>2 DEF Ends
    <3> QED
      BY <1>2, <3>1, <3>2, EndsAt DEF Check
  <2>2. /\ source(c, item[c]) \in Places /\ destination(c, item[c]) \in Places
        /\ item[c] \in DOMAIN items(c) /\ item[c] \in Index /\ tool(c) \in Tool
    BY <2>1, CallFacts DEF goto
  <2>3. /\ UNCHANGED <<request, item, file, raced>>
        /\ before'[c][item[c]] = file[source(c, item[c])]
    BY <2>1, <2>2 DEF Check, TypeOK, current, source
  <2>4. /\ kind(tool(c)) # "write" => file[source(c, item[c])] # Missing
        /\ kind(tool(c)) # "append" => file[destination(c, item[c])] = Missing
    BY <1>2, <2>1, <2>2 DEF Check, Present, Free, current, source, destination, Ends, ItemEnds,
       goto, TypeOK
  <2>5. FoundText(c, item[c])'
    <3>1. kind(tool(c)) \in {"copy", "move"} =>
            source(c, item[c]) # destination(c, item[c])
      BY <2>4
    <3> QED
      BY <2>2, <2>3, <2>4, <3>1 DEF FoundText, source, destination, tool, items
  <2> QED
    BY <2>3, <2>4, <2>5 DEF source, destination, tool, items
<1>3. ASSUME NEW c \in Calls, OwnCall(c), pc'[c] = "verify" PROVE AtVerify(c)'
  <2>1. /\ Act(c) /\ goto(c, "act", "verify") /\ UNCHANGED <<item, succeeded, before, request>>
        /\ file' = Effect(c)
        /\ kind(tool(c)) \in {"copy", "move"} => Present(c)
        /\ RaceOn(c, {p \in Places : file'[p] # file[p]})
    <3>1. Act(c) \/ pc'[c] # "verify"
      <4>1. ASSUME NEW r \in Requests, Start(c, r) PROVE pc'[c] # "verify"
        BY <4>1 DEF Start, goto, TypeOK
      <4>2. CASE Approve(c) \/ Begin(c) \/ Commit(c) \/ DuplicateSlot(c) \/ CallLocked(c)
                 \/ NoteItem(c) \/ PassOver(c)
        BY <4>2 DEF Approve, Begin, Commit, DuplicateSlot, CallLocked, NoteItem, PassOver, goto,
                    TypeOK
      <4>3. CASE Check(c) \/ Verify(c)
        BY <4>3, EndsAt DEF Check, Verify, Verified, Ends, goto, TypeOK
      <4> QED
        BY <1>3, <4>1, <4>2, <4>3 DEF OwnCall, CallStep
    <3>2. ~ Ends(c, "act", FALSE)
      BY <1>3 DEF Ends
    <3> QED
      BY <1>3, <3>1, <3>2, EndsAt DEF Act
  <2>2. /\ pc[c] = "act" /\ AtAct(c)
    BY <2>1 DEF CurrentInv, goto
  <2>3. /\ source(c, item[c]) \in Places /\ destination(c, item[c]) \in Places
        /\ item[c] \in DOMAIN items(c) /\ tool(c) \in Tool
    BY <2>2, CallFacts
  <2>4. raced \subseteq raced'
    BY <2>1 DEF RaceOn
  <2>5. UNCHANGED <<source(c, item[c]), destination(c, item[c]), tool(c), before[c][item[c]],
                    Expected(c, item[c]), FoundText(c, item[c])>>
    BY <2>1 DEF source, destination, tool, items, Expected, FoundText
  <2>7. kind(tool(c)) \in {"copy", "move"} => Present(c)
    BY <2>1
  <2>8. /\ kind(tool(c)) = "write" => file'[destination(c, item[c])] = items(c)[item[c]].text
        /\ kind(tool(c)) = "append" =>
             file'[destination(c, item[c])] =
               Appended(file[destination(c, item[c])], items(c)[item[c]].text)
        /\ kind(tool(c)) # "move" =>
             \A p \in Places \ {destination(c, item[c])} : file'[p] = file[p]
        /\ kind(tool(c)) = "copy" =>
             file'[destination(c, item[c])] = file[source(c, item[c])]
        /\ kind(tool(c)) = "move" =>
             /\ file'[source(c, item[c])] = Missing
             /\ source(c, item[c]) # destination(c, item[c]) =>
                  file'[destination(c, item[c])] = file[source(c, item[c])]
    <3>1. file' = Effect(c) /\ pc[c] = "act"
      BY <2>1, <2>2
    <3> QED
      BY <2>7, <3>1, EffectFacts
  <2>9. /\ kind(tool(c)) = "write" => Expected(c, item[c]) = items(c)[item[c]].text
        /\ kind(tool(c)) = "append" =>
             Expected(c, item[c]) = before[c][item[c]] \o items(c)[item[c]].text
        /\ kind(tool(c)) \in {"copy", "move"} => Expected(c, item[c]) = before[c][item[c]]
    BY ExpectedFacts
  <2>6. ASSUME Unraced(c, item[c])'
        PROVE  /\ file[source(c, item[c])] = before[c][item[c]]
               /\ file'[destination(c, item[c])] = Expected(c, item[c])
               /\ kind(tool(c)) = "copy" => file'[source(c, item[c])] = before[c][item[c]]
               /\ kind(tool(c)) = "move" => file'[source(c, item[c])] = Missing
    <3>1. file[source(c, item[c])] = before[c][item[c]]
      BY <2>2, <2>4, <2>5, <2>6 DEF Unraced, PlacesOf
    <3>2. CASE kind(tool(c)) = "write"
      BY <2>8, <2>9, <3>1, <3>2
    <3>3. CASE kind(tool(c)) = "append"
      <4>1. source(c, item[c]) = destination(c, item[c])
        BY <2>2, <2>3, <3>3, OnePath
      <4>2. file[destination(c, item[c])] = before[c][item[c]] /\ before[c][item[c]] # Missing
        BY <2>2, <3>1, <3>3, <4>1 DEF FoundText
      <4> QED
        BY <2>8, <2>9, <3>1, <3>3, <4>2 DEF Appended
    <3>4. CASE kind(tool(c)) = "copy"
      <4>1. source(c, item[c]) # destination(c, item[c])
        BY <2>2, <3>4 DEF FoundText
      <4> QED
        BY <2>3, <2>8, <2>9, <3>1, <3>4, <4>1
    <3>5. CASE kind(tool(c)) = "move"
      <4>1. source(c, item[c]) # destination(c, item[c])
        BY <2>2, <3>5 DEF FoundText
      <4> QED
        BY <2>8, <2>9, <3>1, <3>5, <4>1
    <3> QED
      BY <2>3, <3>1, <3>2, <3>3, <3>4, <3>5, KindFacts
  <2> QED
    BY <2>1, <2>2, <2>5, <2>6
<1> QED
  BY <1>1, <1>2, <1>3 DEF CurrentInv

(* The item a call is at, with the records and tuples of its request gone.  *)
LEMMA CurrentFacts ==
  ASSUME WhereInv, NEW c \in Calls, pc[c] # "idle"
  PROVE  /\ current(c).source = source(c, item[c])
         /\ current(c).destination = destination(c, item[c])
         /\ current(c).text = items(c)[item[c]].text
BY DEF current, source, destination

(* What Verify finds of an item nobody has interfered with is right.        *)
LEMMA VerifiedFacts ==
  ASSUME TypeOK, WhereInv, CurrentInv, NEW c \in Calls, pc[c] = "verify"
  PROVE  /\ Verified(c) \in BOOLEAN
         /\ Verified(c) => file[destination(c, item[c])] # Missing
         /\ Unraced(c, item[c]) => Verified(c)
<1>1. Verified(c) \in BOOLEAN
  BY DEF Verified
<1>2. Verified(c) => file[destination(c, item[c])] # Missing
  BY CurrentFacts DEF Verified
<1>3. ASSUME Unraced(c, item[c]) PROVE Verified(c)
  <2> DEFINE was == before[c][item[c]]
             tail == items(c)[item[c]].text
  <2>1. /\ FoundText(c, item[c])
        /\ file[destination(c, item[c])] = Expected(c, item[c])
        /\ kind(tool(c)) = "copy" => file[source(c, item[c])] = was
        /\ kind(tool(c)) = "move" => file[source(c, item[c])] = Missing
    BY <1>3 DEF CurrentInv
  <2>2. was \in Text /\ tail \in Seq(Pieces) /\ tool(c) \in Tool
    BY CallFacts DEF TypeOK
  <2>3. /\ kind(tool(c)) = "write" => Expected(c, item[c]) = tail
        /\ kind(tool(c)) = "append" => Expected(c, item[c]) = was \o tail
        /\ kind(tool(c)) \in {"copy", "move"} => Expected(c, item[c]) = was
    BY ExpectedFacts
  <2>4. kind(tool(c)) # "write" => was # Missing /\ was \in Seq(Pieces)
    BY <2>1, <2>2, FileTypes DEF FoundText
  <2>5. tail # Missing
    BY <2>2, NamesAssumption
  <2> HIDE DEF was, tail
  <2>6. kind(tool(c)) = "append" => /\ was \o tail \in Seq(Pieces)
                                    /\ tail # <<>> => was \o tail # was
    BY <2>2, <2>4, TextFacts
  <2>7. kind(tool(c)) = "append" => was \o tail # Missing
    BY <2>6, NamesAssumption
  <2>8. kind(tool(c)) \in {"write", "append", "copy", "move"}
    BY <2>2, KindFacts
  <2>9. file[destination(c, item[c])] # Missing
    BY <2>1, <2>3, <2>4, <2>5, <2>7, <2>8
  <2>10. tool(c) = "append" /\ tail # <<>> => file[destination(c, item[c])] # was
    BY <2>1, <2>2, <2>3, <2>6, KindFacts
  <2>11. tool(c) = "copy" => file[destination(c, item[c])] = file[source(c, item[c])]
    BY <2>1, <2>2, <2>3, KindFacts
  <2>12. tool(c) \in Batches \cup {"move", "store", "restore"} =>
           file[destination(c, item[c])] = was
    BY <2>1, <2>2, <2>3, KindFacts DEF Batches
  <2>13. tool(c) \in {"move", "batch_move", "store"} => file[source(c, item[c])] = Missing
    BY <2>1, <2>2, KindFacts
  <2> QED
    BY <2>9, <2>10, <2>11, <2>12, <2>13, CurrentFacts DEF Verified, was, tail
<1> QED
  BY <1>1, <1>2, <1>3

(* Only Verify adds to the items that succeeded.                           *)
LEMMA Succeeds ==
  ASSUME TypeOK, WhereInv, [Next]_vars, OrderInv, NEW c \in Calls, succeeded'[c] # succeeded[c]
  PROVE  /\ Verify(c) /\ Verified(c) /\ pc[c] = "verify"
         /\ succeeded'[c] = succeeded[c] \cup {item[c]}
<1> USE DEF calls, rows, undos, history, bounds
<1>1. OwnCall(c)
  BY CallKeeps DEF Own
<1>2. Verify(c)
  <2>1. ~ Ends(c, "check", FALSE) /\ ~ Ends(c, "act", FALSE)
    BY DEF Ends
  <2> QED
    BY <1>1, <2>1, EndsAt DEF OwnCall, CallStep, Start, Approve, Begin, Check, Act, NoteItem,
       PassOver, Commit, DuplicateSlot, CallLocked
<1>3. Ends(c, "verify", Verified(c))
  BY <1>2, EndsAt DEF Verify, Verified
<1> QED
  BY <1>2, <1>3 DEF Ends

LEMMA DoneStep ==
  ASSUME TypeOK, WhereInv, OrderInv, CurrentInv, DoneInv, [Next]_vars
  PROVE  DoneInv'
<1> SUFFICES ASSUME NEW c \in Calls, NEW i \in succeeded'[c]
             PROVE  /\ FoundText(c, i)'
                    /\ after'[c][i] # Missing
                    /\ Unraced(c, i)' => after'[c][i] = Expected(c, i)'
  BY DEF DoneInv
<1>1. CASE i \in succeeded[c]
  <2>1. /\ FoundText(c, i) /\ after[c][i] # Missing
        /\ Unraced(c, i) => after[c][i] = Expected(c, i)
    BY <1>1 DEF DoneInv
  <2>2. /\ pc[c] # "idle"
        /\ before'[c][i] = before[c][i] /\ after'[c][i] = after[c][i]
        /\ raced \subseteq raced'
    BY <1>1, RecordStays DEF OrderInv
  <2>3. request'[c] = request[c]
    BY <2>2, RecordStays
  <2>4. UNCHANGED <<FoundText(c, i), Expected(c, i), PlacesOf(c, i)>>
    BY <2>2, <2>3 DEF FoundText, Expected, PlacesOf, source, destination, items, tool
  <2> QED
    BY <2>1, <2>2, <2>4 DEF Unraced
<1>2. CASE i \notin succeeded[c]
  <2>1. Verify(c) /\ Verified(c) /\ pc[c] = "verify" /\ i = item[c]
    BY <1>2, Succeeds
  <2>2. /\ FoundText(c, i)
        /\ file[destination(c, i)] # Missing
        /\ Unraced(c, i) => file[destination(c, i)] = Expected(c, i)
    BY <2>1, VerifiedFacts DEF CurrentInv
  <2>3. UNCHANGED <<request, before, raced>> /\ i \in Index
    BY <2>1 DEF Verify, calls, history, TypeOK
  <2>4. UNCHANGED <<FoundText(c, i), Expected(c, i), PlacesOf(c, i)>>
    BY <2>3 DEF FoundText, Expected, PlacesOf, source, destination, items, tool
  <2>5. after'[c][i] = file[destination(c, i)]
    BY <2>1, <2>3, CurrentFacts DEF Verify, TypeOK
  <2> QED
    BY <2>2, <2>3, <2>4, <2>5 DEF Unraced
<1> QED
  BY <1>1, <1>2

LEMMA ManifestStep ==
  ASSUME TypeOK, WhereInv, OrderInv, CurrentInv, ManifestInv, [Next]_vars
  PROVE  ManifestInv'
<1> USE DEF calls, rows, undos, history, bounds
<1> DEFINE
  Known(c, i) == \/ manifest[c][i] \in {Missing, file[source(c, i)]}
                 \/ file[source(c, i)] = Missing
                 \/ source(c, i) \in raced
                 \/ Rebuilt(c, i)
  Ahead(c, i) == i > item[c] \/ (i = item[c] /\ pc[c] # "verify")
<1> SUFFICES ASSUME NEW c \in Calls, pc'[c] \in {"check", "act", "verify"},
                    tool(c)' \in Batches, needs_approval(request[c])',
                    NEW i \in DOMAIN items(c)', Ahead(c, i)'
             PROVE  Known(c, i)'
  BY DEF ManifestInv
<1>0. ASSUME pc[c] \in {"check", "act", "verify"}, request'[c] = request[c]
      PROVE  Ahead(c, i) => Known(c, i)
  BY <1>0 DEF ManifestInv, tool, items
<1>1. CASE ~OwnCall(c)
  <2>1. /\ UNCHANGED <<request[c], item[c], manifest[c], pc[c]>> /\ raced \subseteq raced'
        /\ \A p \in Places : Touches(c, p) => file'[p] = file[p] \/ p \in raced'
    BY <1>1, CallKeeps DEF Own
  <2>2. i \in DOMAIN items(c) /\ source(c, i) \in Places
    BY <2>1, CallFacts DEF items
  <2>3. Touches(c, source(c, i))
    BY <2>1, <2>2 DEF Touches
  <2>4. Ahead(c, i)
    BY <2>1
  <2>5. UNCHANGED <<source(c, i), Rebuilt(c, i)>>
    BY <2>1 DEF source, Rebuilt, items, destination
  <2> HIDE DEF Ahead
  <2> QED
    BY <1>0, <2>1, <2>2, <2>3, <2>4, <2>5
<1>2. CASE OwnCall(c)
  <2>1. UNCHANGED <<request[c], manifest[c]>> /\ pc[c] # "idle"
        /\ (Approve(c) \/ Begin(c) \/ Check(c) \/ Act(c) \/ Verify(c))
    <3>1. ASSUME NEW r \in Requests, Start(c, r) PROVE pc'[c] \in {"waiting", "begin"}
      BY <3>1 DEF Start, goto, TypeOK
    <3>2. CASE Commit(c) \/ DuplicateSlot(c) \/ CallLocked(c) \/ NoteItem(c) \/ PassOver(c)
      BY <3>2 DEF Commit, DuplicateSlot, CallLocked, NoteItem, PassOver, goto, TypeOK
    <3>3. CASE Approve(c) \/ Begin(c) \/ Check(c) \/ Act(c) \/ Verify(c)
      BY <3>3 DEF Approve, Begin, Check, Act, Verify, ItemEnds, goto
    <3> QED
      BY <1>2, <3>1, <3>2, <3>3 DEF OwnCall, CallStep
  <2>2. UNCHANGED <<source(c, i), Rebuilt(c, i), tool(c), items(c)>> /\ i \in DOMAIN items(c)
    BY <2>1 DEF source, Rebuilt, items, destination, tool
  <2>3. tool(c) \in Batches /\ needs_approval(request[c])
    BY <2>1, <2>2
  <2>4. item[c] \in 1..Len(items(c)) /\ Len(items(c)) \in Nat /\ i \in Nat
    BY <2>1, <2>2, CallFacts, BoundsAssumption
  <2>5. CASE Approve(c)
    <3>1. \A j \in DOMAIN items(c) : manifest[c][j] \in {Missing, file[source(c, j)]}
      BY <2>5 DEF Approve, goto, TypeOK
    <3> QED
      BY <2>1, <2>2, <2>5, <3>1 DEF Approve
  <2>6. CASE Begin(c)
    BY <2>3, <2>6 DEF Begin, WhereInv, goto
  <2>7. CASE Check(c) \/ Verify(c)
    <3>1. UNCHANGED <<file, raced>> /\ pc[c] \in {"check", "verify"}
      BY <2>7 DEF Check, Verify, ItemEnds, goto
    <3>2. Ahead(c, i)
      <4>1. CASE \E from \in {"check", "verify"}, ok \in BOOLEAN : Ends(c, from, ok)
        <5>1. item'[c] = item[c] + 1
          BY <4>1 DEF Ends
        <5> QED
          BY <2>4, <5>1
      <4>2. CASE pc[c] = "check" /\ UNCHANGED item
        BY <4>2
      <4> QED
        BY <2>7, <4>1, <4>2, EndsAt DEF Check, Verify, Verified
    <3> HIDE DEF Ahead
    <3> QED
      BY <1>0, <2>1, <2>2, <3>1, <3>2
  <2>8. CASE Act(c)
    <3>1. pc[c] = "act"
      BY <2>8 DEF Act
    <3>2. CASE Ends(c, "act", FALSE) /\ UNCHANGED <<file, raced>>
      <4>1. item'[c] = item[c] + 1
        BY <3>2 DEF Ends
      <4>2. Ahead(c, i)
        BY <2>4, <4>1
      <4> HIDE DEF Ahead
      <4> QED
        BY <1>0, <2>1, <2>2, <3>1, <3>2, <4>2
    <3>3. CASE /\ goto(c, "act", "verify") /\ UNCHANGED item
               /\ file' = Effect(c)
               /\ RaceOn(c, {p \in Places : file'[p] # file[p]})
               /\ (kind(tool(c)) \in {"copy", "move"} => Present(c))
      <4>1. pc'[c] = "verify" /\ i > item[c]
        BY <3>3 DEF goto, TypeOK
      <4>2. Known(c, i)
        BY <1>0, <2>1, <3>1, <4>1
      <4>3. raced \subseteq raced'
        BY <3>3 DEF RaceOn
      <4>4. \/ source(c, i) = destination(c, item[c])
            \/ source(c, i) = source(c, item[c])
            \/ source(c, i) \notin PlacesOf(c, item[c])
        BY DEF PlacesOf
      <4>5. CASE source(c, i) = destination(c, item[c])
        <5>1. Rebuilt(c, i)
          BY <2>4, <4>1, <4>5, CallFacts, <2>1 DEF Rebuilt
        <5> QED
          BY <2>2, <5>1
      <4>6. CASE source(c, i) # destination(c, item[c])
        <5>1. file'[source(c, i)] = file[source(c, i)] \/ file'[source(c, i)] = Missing
          <6>1. source(c, i) \in Places
            BY <2>1, <2>2, CallFacts
          <6>2. /\ \A p \in Places \ PlacesOf(c, item[c]) : file'[p] = file[p]
                /\ kind(tool(c)) # "move" =>
                     \A p \in Places \ {destination(c, item[c])} : file'[p] = file[p]
                /\ kind(tool(c)) = "move" => file'[source(c, item[c])] = Missing
            BY <3>1, <3>3, EffectFacts
          <6> QED
            BY <4>4, <4>6, <6>1, <6>2
        <5> QED
          BY <2>1, <2>2, <4>2, <4>3, <5>1
      <4> QED
        BY <4>5, <4>6
    <3> QED
      BY <2>8, <3>2, <3>3, EndsAt DEF Act
  <2> QED
    BY <2>1, <2>5, <2>6, <2>7, <2>8
<1> QED
  BY <1>1, <1>2

LEMMA UndoVerifiedFacts ==
  ASSUME NEW u
  PROVE  /\ undoKind(u) \in {"write", "copy"} =>
              (UndoVerified(u) <=> file[undoDestination(u)] = Missing)
         /\ undoKind(u) = "append" =>
              (UndoVerified(u) <=> file[undoDestination(u)] = precondition(u))
         /\ undoKind(u) = "move" =>
              (UndoVerified(u) <=> /\ file[undoSource(u)] # Missing
                                   /\ file[undoDestination(u)] = Missing)
<1>1. undoKind(u) \in {"write", "copy"} =>
        (UndoVerified(u) <=> file[undoDestination(u)] = Missing)
  BY DEF UndoVerified
<1>2. undoKind(u) = "append" =>
        (UndoVerified(u) <=> file[undoDestination(u)] = precondition(u))
  BY DEF UndoVerified
<1>3. undoKind(u) = "move" =>
        (UndoVerified(u) <=> /\ file[undoSource(u)] # Missing
                             /\ file[undoDestination(u)] = Missing)
  BY DEF UndoVerified
<1> QED
  BY <1>1, <1>2, <1>3

(* Nothing of the record an undo is about changes meanwhile.               *)
LEMMA RecordFrame ==
  ASSUME TypeOK, WhereInv, OrderInv, [Next]_vars, NEW u \in Undoers, pc[u] # "idle",
         undoOf'[u] = undoOf[u]
  PROVE  /\ UNCHANGED <<undoCall(u), undoItem(u), undoSource(u), undoDestination(u), undoKind(u),
                        precondition(u), postcondition(u),
                        PlacesOf(undoCall(u), undoItem(u)),
                        Expected(undoCall(u), undoItem(u))>>
         /\ raced \subseteq raced'
<1>1. /\ undoCall(u) \in Calls /\ pc[undoCall(u)] # "idle"
      /\ undoItem(u) \in succeeded[undoCall(u)]
  BY UndoFacts
<1>2. undoCall(u)' = undoCall(u) /\ undoItem(u)' = undoItem(u)
  BY DEF undoCall, undoItem
<1>3. /\ request'[undoCall(u)] = request[undoCall(u)]
      /\ before'[undoCall(u)][undoItem(u)] = before[undoCall(u)][undoItem(u)]
      /\ after'[undoCall(u)][undoItem(u)] = after[undoCall(u)][undoItem(u)]
      /\ raced \subseteq raced'
  BY <1>1, RecordStays
<1> QED
  BY <1>2, <1>3 DEF undoSource, undoDestination, undoKind, precondition, postcondition, PlacesOf,
     Expected, source, destination, items, tool

LEMMA UndoInvStep ==
  ASSUME TypeOK, WhereInv, OrderInv, DoneInv, UndoInv, [Next]_vars
  PROVE  UndoInv'
<1> USE DEF calls, rows, undos, history, bounds
<1> DEFINE
  AtAct(u) == /\ \/ file[undoDestination(u)] = postcondition(u)
                 \/ undoDestination(u) \in raced
              /\ undoKind(u) = "move" =>
                   file[undoSource(u)] = Missing \/ undoSource(u) \in raced
  Calm(u) == Unraced(undoCall(u), undoItem(u))
  Sound(u) == /\ pc[u] = "undoAct" => AtAct(u)
              /\ pc[u] = "undoVerify" => UndoVerified(u) \/ ~Calm(u)
              /\ pc[u] \in {"undoFailed", "restoreFailed"} => ~Calm(u)
<1>0. ASSUME NEW u \in Undoers PROVE Sound(u)
  BY DEF UndoInv
<1>1. ASSUME NEW u \in Undoers, ~OwnUndo(u), pc[u] # "idle" PROVE Sound(u)'
  <2>1. /\ undoOf'[u] = undoOf[u] /\ (pc'[u] = pc[u] \/ pc'[u] = "crashed")
        /\ raced \subseteq raced'
        /\ \A p \in Places : Touches(u, p) => file'[p] = file[p] \/ p \in raced'
    BY <1>1, UndoKeeps
  <2>2. UNCHANGED <<undoCall(u), undoItem(u), undoSource(u), undoDestination(u), undoKind(u),
                    precondition(u), postcondition(u), PlacesOf(undoCall(u), undoItem(u))>>
    BY <1>1, <2>1, RecordFrame
  <2>3. /\ undoSource(u) \in Places /\ undoDestination(u) \in Places
        /\ PlacesOf(undoCall(u), undoItem(u)) = {undoSource(u), undoDestination(u)}
        /\ tool(undoCall(u)) \in Tool
    BY <1>1, UndoFacts DEF PlacesOf
  <2>4. pc[u] \in {"undoAct", "undoVerify"} =>
          Touches(u, undoSource(u)) /\ Touches(u, undoDestination(u))
    BY DEF Touches, undoSource, undoDestination, undoCall, undoItem
  <2>5. Calm(u)' => Calm(u)
    BY <2>1, <2>2 DEF Unraced
  <2>6. pc[u] = "undoAct" => AtAct(u)'
    BY <1>0, <2>1, <2>2, <2>3, <2>4
  <2>7. pc[u] = "undoVerify" => (UndoVerified(u) \/ ~Calm(u))'
    <3>1. undoKind(u) \in {"write", "append", "copy", "move"}
      BY <2>3, KindFacts DEF undoKind
    <3>2. pc[u] = "undoVerify" /\ Calm(u)' =>
            /\ file'[undoSource(u)] = file[undoSource(u)]
            /\ file'[undoDestination(u)] = file[undoDestination(u)]
      BY <2>1, <2>2, <2>3, <2>4 DEF Unraced
    <3>3. pc[u] = "undoVerify" /\ Calm(u)' => UndoVerified(u)
      BY <1>0, <2>5
    <3>4. ASSUME pc[u] = "undoVerify", Calm(u)' PROVE UndoVerified(u)'
      <4>1. CASE undoKind(u) \in {"write", "copy"}
        BY <2>2, <3>2, <3>3, <3>4, <4>1 DEF UndoVerified
      <4>2. CASE undoKind(u) = "append"
        BY <2>2, <3>2, <3>3, <3>4, <4>2 DEF UndoVerified
      <4>3. CASE undoKind(u) = "move"
        BY <2>2, <3>2, <3>3, <3>4, <4>3 DEF UndoVerified
      <4> QED
        BY <3>1, <4>1, <4>2, <4>3
    <3> QED
      BY <3>4
  <2> HIDE DEF AtAct, Calm
  <2>8. pc[u] \in {"undoFailed", "restoreFailed"} => ~Calm(u)'
    BY <1>0, <2>5
  <2> QED
    BY <2>1, <2>6, <2>7, <2>8
<1>2. ASSUME NEW u \in Undoers, ~OwnUndo(u), pc[u] = "idle" PROVE Sound(u)'
  BY <1>2, UndoKeeps DEF Active
<1>3. ASSUME NEW u \in Undoers, OwnUndo(u) PROVE Sound(u)'
  <2>1. ASSUME NEW c \in Calls, NEW i \in Index, Undo(u, c, i) PROVE Sound(u)'
    BY <2>1 DEF Undo, goto, TypeOK
  <2>2. CASE UndoFlush(u)
    BY <2>2 DEF UndoFlush, goto, TypeOK
  <2>3. ASSUME pc[u] # "idle", UNCHANGED undoOf
        PROVE  /\ UNCHANGED <<undoCall(u), undoItem(u), undoSource(u), undoDestination(u),
                              undoKind(u), precondition(u), postcondition(u),
                              PlacesOf(undoCall(u), undoItem(u))>>
               /\ undoSource(u) \in Places /\ undoDestination(u) \in Places
               /\ PlacesOf(undoCall(u), undoItem(u)) = {undoSource(u), undoDestination(u)}
               /\ undoKind(u) \in {"write", "append", "copy", "move"}
               /\ raced \subseteq raced'
               /\ Calm(u)' => Calm(u)
    <3>1. /\ UNCHANGED <<undoCall(u), undoItem(u), undoSource(u), undoDestination(u),
                         undoKind(u), precondition(u), postcondition(u),
                         PlacesOf(undoCall(u), undoItem(u))>>
          /\ raced \subseteq raced'
      BY <2>3, RecordFrame
    <3> QED
      BY <2>3, <3>1, UndoFacts, KindFacts DEF PlacesOf, undoKind, Unraced
  <2>4. CASE UndoCheck(u)
    <3>1. UNCHANGED <<file, raced, undoOf>> /\ pc[u] # "idle"
      BY <2>4 DEF UndoCheck, goto
    <3>2. /\ pc'[u] \in {"undoAct", "undoConflict"}
          /\ pc'[u] = "undoAct" =>
               /\ file[undoDestination(u)] = postcondition(u)
               /\ undoKind(u) = "move" => file[undoSource(u)] = Missing
      BY <2>4 DEF UndoCheck, goto, TypeOK
    <3> QED
      BY <2>3, <3>1, <3>2
  <2>5. CASE UndoAct(u)
    <3>1. UNCHANGED undoOf /\ pc[u] = "undoAct"
      BY <2>5 DEF UndoAct
    <3>2. CASE goto(u, "undoAct", "undoConflict")
      BY <3>2 DEF goto, TypeOK
    <3>3. CASE /\ file[undoDestination(u)] # Missing /\ goto(u, "undoAct", "undoVerify")
               /\ file' = UndoEffect(u)
      <4>1. pc'[u] = "undoVerify"
        BY <3>3 DEF goto, TypeOK
      <4>2. AtAct(u)
        BY <1>0, <3>1
      <4>3. /\ undoKind(u) \in {"write", "copy"} => file'[undoDestination(u)] = Missing
            /\ undoKind(u) = "append" =>
                 file'[undoDestination(u)] =
                   Truncated(file[undoDestination(u)], Len(precondition(u)))
            /\ undoKind(u) = "append" => precondition(u) \in Seq(Pieces)
            /\ undoKind(u) = "move" =>
                 /\ file'[undoDestination(u)] = Missing
                 /\ file'[undoSource(u)] = file[undoDestination(u)]
        BY <3>1, <3>3, UndoEffectFacts
      <4>4. ASSUME Calm(u)' PROVE UndoVerified(u)'
        <5>1. CASE undoKind(u) \in {"write", "copy"}
          BY <2>3, <3>1, <4>3, <5>1 DEF UndoVerified
        <5>2. CASE undoKind(u) = "move"
          BY <2>3, <3>1, <3>3, <4>3, <5>2 DEF UndoVerified
        <5>3. CASE undoKind(u) = "append"
          <6>1. Calm(u) /\ undoDestination(u) \notin raced
            BY <2>3, <3>1, <4>4 DEF Unraced
          <6>2. /\ undoCall(u) \in Calls /\ undoItem(u) \in succeeded[undoCall(u)]
                /\ pc[undoCall(u)] # "idle" /\ undoItem(u) \in DOMAIN items(undoCall(u))
            BY <3>1, UndoFacts
          <6>3. postcondition(u) = Expected(undoCall(u), undoItem(u))
            BY <6>1, <6>2 DEF DoneInv, postcondition
          <6>4. Expected(undoCall(u), undoItem(u)) =
                  precondition(u) \o items(undoCall(u))[undoItem(u)].text
            BY <5>3, ExpectedFacts DEF undoKind, precondition
          <6>5. items(undoCall(u))[undoItem(u)].text \in Seq(Pieces)
            BY <6>2, CallFacts
          <6>6. Truncated(precondition(u) \o items(undoCall(u))[undoItem(u)].text,
                          Len(precondition(u))) = precondition(u)
            BY <4>3, <5>3, <6>5, TextFacts
          <6>7. file'[undoDestination(u)] = precondition(u)
            BY <4>2, <4>3, <5>3, <6>1, <6>3, <6>4, <6>6
          <6> QED
            BY <2>3, <3>1, <5>3, <6>7 DEF UndoVerified
        <5> QED
          BY <2>3, <3>1, <5>1, <5>2, <5>3
      <4> QED
        BY <4>1, <4>4
    <3> QED
      BY <2>5, <3>2, <3>3 DEF UndoAct
  <2>6. CASE UndoVerify(u)
    <3>1. /\ UNCHANGED undoOf /\ pc[u] = "undoVerify"
          /\ pc'[u] \in {"undoApplied", "undoFailed"}
          /\ pc'[u] = "undoFailed" => ~UndoVerified(u)
      BY <2>6 DEF UndoVerify, goto, TypeOK
    <3> QED
      BY <1>0, <2>3, <3>1
  <2>7. CASE UndoCommit(u)
    <3>1. /\ UNCHANGED undoOf /\ pc[u] \in {"undoApplied", "undoConflict", "undoFailed"}
          /\ pc'[u] \in {"applied", "conflict", "restoreFailed"}
          /\ pc'[u] = "restoreFailed" => pc[u] = "undoFailed"
      BY <2>7 DEF UndoCommit, goto, TypeOK
    <3> QED
      BY <1>0, <2>3, <3>1
  <2> QED
    BY <1>3, <2>1, <2>2, <2>4, <2>5, <2>6, <2>7 DEF OwnUndo, UndoStep
<1>4. ASSUME NEW u \in Undoers PROVE Sound(u)'
  BY <1>1, <1>2, <1>3
<1> QED
  BY <1>4 DEF UndoInv

(* A file operation leaves a text at its destination, and takes one away    *)
(* only from where it moved it.                                            *)
LEMMA EffectLeaves ==
  ASSUME TypeOK, WhereInv, CurrentInv, NEW c \in Calls, pc[c] = "act",
         kind(tool(c)) \in {"copy", "move"} => Present(c)
  PROVE  /\ Effect(c)[destination(c, item[c])] # Missing
         /\ \A p \in Places : file[p] # Missing /\ Effect(c)[p] = Missing =>
              kind(tool(c)) = "move" /\ p = source(c, item[c])
<1> DEFINE s == source(c, item[c])
           d == destination(c, item[c])
           t == items(c)[item[c]].text
<1>1. /\ s \in Places /\ d \in Places /\ t \in Seq(Pieces) /\ tool(c) \in Tool
      /\ file \in [Places -> Text]
  BY CallFacts, FileTypes
<1>2. FoundText(c, item[c])
  BY DEF CurrentInv
<1>3. kind(tool(c)) \in {"copy", "move"} => file[s] # Missing
  BY CurrentFacts DEF Present
<1>4. kind(tool(c)) = "move" => s # d
  BY <1>2 DEF FoundText
<1>5. /\ \A p \in Places \ PlacesOf(c, item[c]) : Effect(c)[p] = file[p]
      /\ kind(tool(c)) = "write" => Effect(c)[d] = t
      /\ kind(tool(c)) = "append" => Effect(c)[d] = Appended(file[d], t)
      /\ kind(tool(c)) # "move" => \A p \in Places \ {d} : Effect(c)[p] = file[p]
      /\ kind(tool(c)) = "copy" => Effect(c)[d] = file[s]
      /\ kind(tool(c)) = "move" => Effect(c)[s] = Missing /\ Effect(c)[d] = file[s]
  BY <1>4, EffectFacts
<1>6. PlacesOf(c, item[c]) = {s, d}
  BY DEF PlacesOf
<1> HIDE DEF s, d, t
<1>7. t # Missing /\ Appended(file[d], t) # Missing
  <2>1. CASE file[d] = Missing
    BY <1>1, <2>1, NamesAssumption DEF Appended
  <2>2. CASE file[d] # Missing
    <3>1. file[d] \in Seq(Pieces)
      BY <1>1, <2>2, FileTypes
    <3>2. file[d] \o t \in Seq(Pieces)
      BY <1>1, <3>1, TextFacts
    <3> QED
      BY <1>1, <2>2, <3>2, NamesAssumption DEF Appended
  <2> QED
    BY <2>1, <2>2
<1>8. Effect(c)[d] # Missing
  BY <1>1, <1>3, <1>5, <1>7, KindFacts
<1>9. \A p \in Places : file[p] # Missing /\ Effect(c)[p] = Missing =>
        kind(tool(c)) = "move" /\ p = s
  BY <1>1, <1>5, <1>6, <1>8
<1> QED
  BY <1>8, <1>9 DEF s, d

LEMMA RecordStep ==
  ASSUME Inv, [Next]_vars
  PROVE  RecordInv'
<1> USE DEF calls, rows, undos, history, bounds
<1> DEFINE
  W(c) == pc[c] \in Working =>
            /\ \A i \in changed[c] : i \in succeeded[c] \/ (pc[c] = "verify" /\ i = item[c])
            /\ \A i \in succeeded[c] :
                 /\ file[destination(c, i)] # Missing
                 /\ tool(c) = "copy" => file[source(c, i)] # Missing
  R(c) == pc[c] = "record" => \A i \in succeeded[c] : i \in noted[c] \/ i >= item[c]
  S(c) == pc[c] = "commit" => changed[c] \subseteq noted[c]
  F(c) == pc[c] = "failing" => changed[c] \subseteq noted[c] \/ tool(c) = "extract"
  E(c) == /\ pc[c] = "completed" => \A i \in changed[c] : undo[c][i] # "none"
          /\ pc[c] = "failed" =>
               tool(c) = "extract" \/ \A i \in changed[c] : undo[c][i] # "none"
  Good(c) == W(c) /\ R(c) /\ S(c) /\ F(c) /\ E(c)
<1>0. TypeOK /\ WhereInv /\ OrderInv /\ CurrentInv /\ DoneInv /\ RecordInv
  BY DEF Inv
<1> SUFFICES ASSUME NEW c \in Calls, pc'[c] # "idle", ~Excused(c)'
             PROVE  Good(c)'
  BY DEF RecordInv
<1>1. ASSUME pc[c] # "idle"
      PROVE  /\ request'[c] = request[c] /\ raced \subseteq raced'
             /\ UNCHANGED <<tool(c), items(c), Chained(c), AllPlacesOf(c)>>
             /\ \A i \in DOMAIN items(c) : UNCHANGED <<source(c, i), destination(c, i)>>
             /\ ~Excused(c) /\ Good(c)
  <2>1. request'[c] = request[c] /\ raced \subseteq raced'
    BY <1>0, <1>1, RecordStays
  <2>2. UNCHANGED <<tool(c), items(c)>>
    BY <2>1 DEF tool, items
  <2>3. UNCHANGED <<Chained(c), AllPlacesOf(c)>>
    BY <2>1 DEF Chained, AllPlacesOf, PlacesOf, source, destination, tool, items
  <2>4. ~Excused(c)
    BY <2>1, <2>3 DEF Excused
  <2>5. Good(c)
    BY <1>0, <1>1, <2>4 DEF RecordInv
  <2> QED
    BY <2>1, <2>2, <2>3, <2>4, <2>5 DEF source, destination
<1>2. ASSUME pc[c] # "idle"
      PROVE  /\ item[c] \in 1..Len(items(c)) /\ DOMAIN items(c) = 1..Len(items(c))
             /\ Len(items(c)) \in Nat /\ tool(c) \in Tool
             /\ changed[c] \subseteq DOMAIN items(c) /\ succeeded[c] \subseteq changed[c]
             /\ changed[c] \subseteq Nat
             /\ \A i \in DOMAIN items(c) : PlacesOf(c, i) \cap raced' = {}
             /\ tool(c) \notin Batches \cup {"extract"} => Len(items(c)) = 1
  <2>1. /\ item[c] \in 1..Len(items(c)) /\ DOMAIN items(c) = 1..Len(items(c))
        /\ Len(items(c)) \in Nat /\ tool(c) \in Tool
    BY <1>0, <1>2, CallFacts, BoundsAssumption
  <2>2. changed[c] \subseteq DOMAIN items(c) /\ succeeded[c] \subseteq changed[c]
    BY <1>0, <1>2 DEF OrderInv
  <2>3. \A i \in DOMAIN items(c) : PlacesOf(c, i) \cap raced' = {}
    <3>1. AllPlacesOf(c) \cap raced' = {}
      BY <1>1, <1>2 DEF Excused
    <3> QED
      BY <3>1 DEF AllPlacesOf
  <2>4. tool(c) \notin Batches \cup {"extract"} => Len(items(c)) = 1
    BY <1>0, <1>2, OnePath
  <2> QED
    BY <2>1, <2>2, <2>3, <2>4
<1>3. CASE ~OwnCall(c)
  <2>1. /\ UNCHANGED Own(c) /\ (pc'[c] = pc[c] \/ (pc'[c] = "crashed" /\ Active(c)))
        /\ \A i \in Index : undo'[c][i] # "none" <=> undo[c][i] # "none"
        /\ \A p \in Places : Touches(c, p) => file'[p] = file[p] \/ p \in raced'
    BY <1>0, <1>3, CallKeeps
  <2>2. pc[c] # "idle"
    BY <2>1 DEF Active
  <2>3. UNCHANGED <<item[c], succeeded[c], noted[c], changed[c]>>
    BY <2>1 DEF Own
  <2>4. CASE pc'[c] = pc[c]
    <3>1. W(c)'
      <4>1. ASSUME pc[c] \in Working, NEW i \in succeeded[c]
            PROVE  file'[destination(c, i)] = file[destination(c, i)]
                   /\ file'[source(c, i)] = file[source(c, i)]
        <5>1. i \in DOMAIN items(c)
          BY <1>2, <2>2
        <5>2. Touches(c, source(c, i)) /\ Touches(c, destination(c, i))
          BY <4>1, <5>1 DEF Touches, Working
        <5>3. /\ source(c, i) \in Places /\ destination(c, i) \in Places
              /\ source(c, i) \notin raced' /\ destination(c, i) \notin raced'
          BY <1>0, <1>2, <2>2, <5>1, CallFacts DEF PlacesOf
        <5> QED
          BY <2>1, <5>2, <5>3
      <4>2. W(c) /\ succeeded[c] \subseteq DOMAIN items(c)
        BY <1>1, <1>2, <2>2
      <4> QED
        BY <1>1, <2>2, <2>3, <2>4, <4>1, <4>2
    <3>2. R(c)' /\ S(c)' /\ F(c)'
      BY <1>1, <2>2, <2>3, <2>4
    <3>3. changed[c] \subseteq Index
      BY <1>0 DEF TypeOK
    <3>4. E(c)'
      BY <1>1, <2>1, <2>2, <2>3, <2>4, <3>3
    <3> QED
      BY <3>1, <3>2, <3>4
  <2>5. CASE pc'[c] = "crashed"
    BY <2>5 DEF Working
  <2> QED
    BY <2>1, <2>4, <2>5
<1>4. ASSUME NEW r \in Requests, Start(c, r) PROVE Good(c)'
  <2>1. pc'[c] \in {"waiting", "begin"}
    BY <1>0, <1>4 DEF Start, goto, TypeOK
  <2> QED
    BY <2>1 DEF Working
<1>5. CASE Approve(c) \/ Begin(c)
  <2>1. /\ UNCHANGED <<item, succeeded, noted, changed, undo, file>>
        /\ pc[c] \in {"waiting", "begin"} /\ pc'[c] \in {"check", "failing", "locked"}
    BY <1>0, <1>5 DEF Approve, Begin, goto, TypeOK
  <2>2. changed[c] = {} /\ succeeded[c] \subseteq changed[c]
    BY <1>0, <2>1 DEF OrderInv
  <2> QED
    BY <2>1, <2>2
<1>6. CASE DuplicateSlot(c) \/ CallLocked(c)
  <2>1. pc'[c] \in {"duplicate", "locked"}
    BY <1>0, <1>6 DEF DuplicateSlot, CallLocked, goto, TypeOK
  <2> QED
    BY <2>1 DEF Working
<1>7. CASE Commit(c)
  <2>1. /\ UNCHANGED <<noted, changed>>
        /\ pc'[c] = "completed" => pc[c] = "commit"
        /\ pc'[c] = "failed" => pc[c] = "failing"
        /\ pc'[c] \in {"completed", "failed"} /\ pc[c] # "idle"
    BY <1>0, <1>7 DEF Commit, goto, TypeOK
  <2>2. \A i \in noted[c] : undo'[c][i] # "none"
    BY <1>0, <1>7 DEF Commit, RecordsOf, TypeOK
  <2> QED
    BY <1>1, <2>1, <2>2 DEF Working
(* An item that is not there stops a call of one item before it has done anything. *)
<1>8. ASSUME NEW from \in {"check", "act"}, Ends(c, from, FALSE),
             UNCHANGED <<changed, noted, file>>
      PROVE  Good(c)'
  <2>1. pc[c] = from /\ pc[c] # "idle" /\ succeeded'[c] = succeeded[c]
    BY <1>8 DEF Ends
  <2>2. \A i \in changed[c] : i < item[c]
    BY <1>0, <2>1 DEF OrderInv
  <2>3. W(c)'
    <3>1. W(c) /\ pc[c] \in Working /\ pc[c] # "verify"
      BY <1>1, <2>1 DEF Working
    <3>2. succeeded[c] \subseteq DOMAIN items(c)
      BY <1>2, <2>1
    <3> QED
      BY <1>1, <1>8, <2>1, <3>1, <3>2
  <2>4. CASE pc'[c] = "failing"
    <3>1. tool(c) = "extract" \/ changed[c] = {}
      BY <1>2, <1>8, <2>1, <2>2, <2>4 DEF Ends
    <3> QED
      BY <1>1, <1>8, <2>1, <2>3, <2>4, <3>1
  <2>5. CASE pc'[c] = "record"
    BY <1>2, <1>8, <2>1, <2>3, <2>5 DEF Ends
  <2>6. CASE pc'[c] = "check"
    BY <2>3, <2>6
  <2> QED
    BY <1>8, <2>4, <2>5, <2>6 DEF Ends
<1>9. CASE Check(c)
  <2>1. UNCHANGED <<changed, noted, file>> /\ pc[c] = "check"
    BY <1>9 DEF Check
  <2>2. CASE UNCHANGED <<item, succeeded>> /\ goto(c, "check", "act")
    <3>1. pc'[c] = "act"
      BY <1>0, <2>2 DEF goto, TypeOK
    <3>2. W(c) /\ succeeded[c] \subseteq DOMAIN items(c)
      BY <1>1, <1>2, <2>1
    <3> QED
      BY <1>1, <2>1, <2>2, <3>1, <3>2 DEF Working
  <2> QED
    BY <1>0, <1>8, <1>9, <2>1, <2>2, EndsAt DEF Check
<1>10. CASE Act(c)
  <2>1. UNCHANGED noted /\ pc[c] = "act"
    BY <1>10 DEF Act
  <2>2. CASE /\ UNCHANGED <<item, succeeded>> /\ goto(c, "act", "verify")
             /\ changed' = [changed EXCEPT ![c] = @ \cup {item[c]}]
             /\ file' = Effect(c)
             /\ (kind(tool(c)) \in {"copy", "move"} => Present(c))
    <3>1. pc'[c] = "verify" /\ changed'[c] = changed[c] \cup {item[c]}
      BY <1>0, <2>2 DEF goto, TypeOK
    <3>2. W(c) /\ pc[c] \in Working /\ \A i \in succeeded[c] : i < item[c]
      BY <1>0, <1>1, <2>1 DEF Working, OrderInv
    <3>3. /\ file'[destination(c, item[c])] # Missing
          /\ \A p \in Places : file[p] # Missing /\ file'[p] = Missing =>
               kind(tool(c)) = "move" /\ p = source(c, item[c])
      BY <1>0, <2>1, <2>2, EffectLeaves
    <3>4. ASSUME NEW i \in succeeded[c]
          PROVE  /\ file'[destination(c, i)] # Missing
                 /\ tool(c) = "copy" => file'[source(c, i)] # Missing
      <4>1. /\ i \in DOMAIN items(c) /\ i < item[c] /\ item[c] \in DOMAIN items(c)
            /\ Len(items(c)) # 1
        BY <1>2, <2>1, <3>2
      <4>2. tool(c) \in Batches \cup {"extract"}
        BY <1>2, <2>1, <4>1
      <4>3. kind(tool(c)) = "move" => tool(c) = "batch_move"
        BY <4>2 DEF Batches, kind
      <4>4. ~Chained(c)
        BY <1>1, <2>1 DEF Excused
      <4>5. kind(tool(c)) = "move" => source(c, item[c]) # destination(c, i)
        BY <4>1, <4>3, <4>4 DEF Chained
      <4>6. destination(c, i) \in Places /\ file[destination(c, i)] # Missing
        BY <1>0, <2>1, <3>2, <4>1, CallFacts
      <4> QED
        BY <3>3, <4>2, <4>5, <4>6 DEF Batches
    <3>5. W(c)'
      BY <1>1, <1>2, <2>1, <2>2, <3>1, <3>2, <3>4
    <3> QED
      BY <3>1, <3>5
  <2> QED
    BY <1>0, <1>8, <1>10, <2>1, <2>2, EndsAt DEF Act
<1>11. CASE Verify(c)
  <2>1. UNCHANGED <<noted, changed, file, raced, before>> /\ pc[c] = "verify" /\ pc[c] # "idle"
    BY <1>11 DEF Verify, ItemEnds, goto
  <2>2. Unraced(c, item[c])
    BY <1>2, <2>1 DEF Unraced
  <2>3. Ends(c, "verify", TRUE)
    <3>1. Verified(c) \in BOOLEAN /\ Verified(c)
      BY <1>0, <2>1, <2>2, VerifiedFacts
    <3>2. Ends(c, "verify", Verified(c))
      BY <1>0, <1>11, <3>1, EndsAt DEF Verify
    <3> QED
      BY <3>1, <3>2 DEF Ends
  <2>4. /\ file[destination(c, item[c])] # Missing
        /\ tool(c) = "copy" => file[source(c, item[c])] # Missing
    <3>1. Verified(c)
      BY <1>0, <2>1, <2>2, VerifiedFacts
    <3> QED
      BY <1>0, <2>1, <3>1, CurrentFacts DEF Verified
  <2>5. W(c) /\ pc[c] \in Working /\ item[c] \in DOMAIN items(c)
        /\ succeeded[c] \subseteq DOMAIN items(c)
    BY <1>1, <1>2, <2>1 DEF Working
  <2>6. succeeded'[c] = succeeded[c] \cup {item[c]} /\ pc'[c] \in {"record", "check"}
    BY <2>3 DEF Ends
  <2>7. W(c)'
    BY <1>1, <2>1, <2>4, <2>5, <2>6
  <2>8. R(c)'
    <3>1. pc'[c] = "record" => item'[c] = 1
      BY <2>3 DEF Ends
    <3> QED
      BY <1>2, <2>1, <2>6, <3>1
  <2> QED
    BY <2>6, <2>7, <2>8
<1>12. CASE NoteItem(c) \/ PassOver(c)
  <2>1. /\ UNCHANGED <<changed, succeeded, file>> /\ pc[c] = "record" /\ pc[c] # "idle"
        /\ pc[c] \in Working
    BY <1>12 DEF NoteItem, PassOver, Working
  <2>2. /\ W(c) /\ R(c) /\ item[c] \in DOMAIN items(c)
        /\ succeeded[c] \subseteq DOMAIN items(c)
    BY <1>1, <1>2, <2>1
  <2>3. \A i \in changed[c] : i \in succeeded[c] /\ i \in 1..Len(items(c))
    BY <1>2, <2>1, <2>2
  <2>4. item[c] \in succeeded[c] => StillThere(c)
    BY <1>0, <2>1, <2>2, CurrentFacts DEF StillThere, Present
  <2>5. /\ \/ pc'[c] = "commit" /\ item[c] = Len(items(c))
           \/ pc'[c] = "record" /\ item[c] # Len(items(c)) /\ item'[c] = item[c] + 1
        /\ \/ noted'[c] = noted[c] \cup {item[c]}
           \/ noted'[c] = noted[c] /\ item[c] \notin succeeded[c]
    BY <1>0, <1>12, <2>4 DEF NoteItem, PassOver, goto, TypeOK
  <2>6. \A i \in succeeded[c] : i \in noted'[c] \/ i > item[c]
    BY <1>2, <2>1, <2>2, <2>5
  <2>7. W(c)'
    BY <1>1, <2>1, <2>2, <2>5 DEF Working
  <2>8. R(c)' /\ S(c)'
    BY <1>2, <2>1, <2>3, <2>5, <2>6
  <2> QED
    BY <2>5, <2>7, <2>8
<1> QED
  BY <1>3, <1>4, <1>5, <1>6, <1>7, <1>9, <1>10, <1>11, <1>12 DEF OwnCall, CallStep

-----------------------------------------------------------------------------
(* The invariant, and what follows from it.                                *)

LEMMA InitInv == Init => Inv
<1> SUFFICES ASSUME Init PROVE Inv
  OBVIOUS
<1>1. ASSUME NEW c \in Calls PROVE pc[c] = "idle" /\ item[c] = 1 /\ noted[c] = {}
                                   /\ succeeded[c] = {} /\ changed[c] = {}
  BY <1>1 DEF Init
<1>2. ASSUME NEW u \in Undoers PROVE pc[u] = "idle"
  BY <1>2 DEF Init
<1>3. ASSUME NEW c \in Calls, NEW i \in Index PROVE undo[c][i] = "none"
  BY <1>3 DEF Init
<1>4. TypeOK
  <2>1. Missing \in Text /\ 1 \in Index
    BY BoundsAssumption DEF Text, Index
  <2> QED
    BY <2>1, BoundsAssumption DEF Init, TypeOK, Location
<1>5. WhereInv /\ OrderInv /\ CurrentInv /\ DoneInv
  BY <1>1, <1>2, <1>3 DEF WhereInv, OrderInv, CurrentInv, DoneInv, CallPlaces, UndoPlaces
<1>6. RecordInv /\ ManifestInv /\ UndoInv
  BY <1>1, <1>2 DEF RecordInv, ManifestInv, UndoInv
<1> QED
  BY <1>4, <1>5, <1>6 DEF Inv

LEMMA InvStep == Inv /\ [Next]_vars => Inv'
<1> SUFFICES ASSUME Inv, [Next]_vars PROVE Inv'
  OBVIOUS
<1>1. TypeOK'
  BY TypeStep DEF Inv
<1>2. WhereInv' /\ OrderInv'
  BY WhereStep, OrderStep DEF Inv
<1>3. CurrentInv' /\ DoneInv'
  BY CurrentStep, DoneStep DEF Inv
<1>4. RecordInv'
  BY RecordStep
<1>5. ManifestInv' /\ UndoInv'
  BY ManifestStep, UndoInvStep DEF Inv
<1> QED
  BY <1>1, <1>2, <1>3, <1>4, <1>5 DEF Inv

LEMMA Invariance == Spec => []Inv
BY InitInv, InvStep, PTL DEF Spec

(* Types of the file tools, for every set of calls, undos, paths, texts and *)
(* requests.                                                               *)
THEOREM Types == Spec => []TypeOK
<1>1. Inv => TypeOK
  BY DEF Inv
<1> QED
  BY <1>1, Invariance, PTL

(* However many items a request has and whoever else is at work, the undo   *)
(* records of a call are exactly what it did, with the exceptions the       *)
(* property names: a race, a cut extraction, a file a batch has moved on.   *)
THEOREM RecordsExact == Spec => []UndoRecordsAreExact
<1>1. Inv => UndoRecordsAreExact
  <2> SUFFICES ASSUME Inv, NEW c \in Calls
               PROVE  /\ \A i \in Index : undo[c][i] # "none" =>
                           /\ i \in changed[c]
                           /\ PlacesOf(c, i) \cap raced = {} => after[c][i] = Expected(c, i)
                      /\ pc[c] \in {"completed", "failed"} => \A i \in changed[c] :
                           \/ undo[c][i] # "none"
                           \/ AllPlacesOf(c) \cap raced # {}
                           \/ tool(c) = "extract" /\ pc[c] = "failed"
                           \/ Chained(c)
    BY DEF UndoRecordsAreExact
  <2>1. \A i \in Index : undo[c][i] # "none" => i \in succeeded[c] /\ i \in changed[c]
    BY DEF Inv, OrderInv
  <2>2. \A i \in succeeded[c] :
          PlacesOf(c, i) \cap raced = {} => after[c][i] = Expected(c, i)
    BY DEF Inv, DoneInv, Unraced
  <2>3. pc[c] \in {"completed", "failed"} => \A i \in changed[c] :
          \/ undo[c][i] # "none"
          \/ AllPlacesOf(c) \cap raced # {}
          \/ tool(c) = "extract" /\ pc[c] = "failed"
          \/ Chained(c)
    BY DEF Inv, RecordInv, Excused
  <2> QED
    BY <2>1, <2>2, <2>3
<1> QED
  BY <1>1, Invariance, PTL

(* An undo that reports a failed restore after changing a file has been     *)
(* interfered with: undone by itself, every record undoes completely.       *)
THEOREM UndoAllOrNothing == Spec => []UndoIsAllOrNothing
<1>1. Inv => UndoIsAllOrNothing
  BY DEF Inv, UndoInv, Unraced, UndoIsAllOrNothing
<1> QED
  BY <1>1, Invariance, PTL

(* What changes a file: an item being carried out, an undo, another program. *)
LEMMA WhoChanges ==
  ASSUME Inv, [Next]_vars, file' # file \/ changed' # changed \/ undid' # undid
  PROVE  \/ \E c \in Calls :
              /\ pc[c] = "act" /\ file' = Effect(c) /\ undid' = undid
              /\ (kind(tool(c)) \in {"copy", "move"} => Present(c))
              /\ changed' = [changed EXCEPT ![c] = @ \cup {item[c]}]
         \/ \E u \in Undoers :
              /\ pc[u] = "undoAct" /\ file' = UndoEffect(u) /\ changed' = changed
              /\ file[undoDestination(u)] # Missing
              /\ undid' = undid \cup {u}
         \/ edits' = edits + 1 /\ changed' = changed /\ undid' = undid
<1> USE DEF calls, rows, undos, history, bounds
<1>1. ASSUME NEW c \in Calls, OwnCall(c) PROVE Act(c)
  BY <1>1 DEF OwnCall, CallStep, Start, Approve, Begin, Check, Verify, NoteItem, PassOver, Commit,
     DuplicateSlot, CallLocked
<1>2. ASSUME NEW u \in Undoers, OwnUndo(u) PROVE UndoAct(u)
  BY <1>2 DEF OwnUndo, UndoStep, Undo, UndoFlush, UndoCheck, UndoVerify, UndoCommit
<1>3. CASE OtherStep
  BY <1>3 DEF OtherStep, Crash, Edit, vars
<1>4. ASSUME NEW c \in Calls, Act(c)
      PROVE  /\ pc[c] = "act" /\ file' = Effect(c) /\ undid' = undid
             /\ (kind(tool(c)) \in {"copy", "move"} => Present(c))
             /\ changed' = [changed EXCEPT ![c] = @ \cup {item[c]}]
  BY <1>4 DEF Act
<1>5. ASSUME NEW u \in Undoers, UndoAct(u)
      PROVE  /\ pc[u] = "undoAct" /\ file' = UndoEffect(u) /\ changed' = changed
             /\ file[undoDestination(u)] # Missing
             /\ undid' = undid \cup {u}
  BY <1>5 DEF UndoAct
<1> QED
  BY <1>1, <1>2, <1>3, <1>4, <1>5, NextSteps

-----------------------------------------------------------------------------
(* The write lock, and what it keeps away from an undo.                    *)

CallHolds == Working \cup {"commit", "failing"}
UndoHolds == {"undoCheck", "undoAct", "undoVerify", "undoApplied", "undoConflict", "undoFailed"}
LockInv ==
  /\ \A c \in Calls :
       /\ pc[c] = "waiting" => needs_approval(request[c])
       /\ pc[c] \in CallHolds /\ ~ needs_approval(request[c]) => writer = c
  /\ \A u \in Undoers : pc[u] \in UndoHolds => writer = u

(* What an undo has seen is still so, or somebody without the lock came by. *)
SightInv ==
  \A u \in Undoers : pc[u] = "undoAct" =>
    \/ u \in interrupted
    \/ /\ file[undoDestination(u)] = postcondition(u)
       /\ undoKind(u) = "move" => file[undoSource(u)] = Missing

(* What a call makes of the lock.                                          *)
LEMMA CallLocks ==
  ASSUME TypeOK, WhereInv, LockInv, NEW c \in Calls, OwnCall(c)
  PROVE  /\ writer' = writer \/ writer \in {NoOne, c}
         /\ pc'[c] = "waiting" => needs_approval(request'[c])
         /\ pc'[c] \in CallHolds /\ ~ needs_approval(request'[c]) => writer' = c
<1> USE DEF rows, calls, undos, history, bounds
<1>1. CASE Approve(c)
  <2>1. pc[c] = "waiting" /\ UNCHANGED <<writer, request>> /\ pc'[c] # "waiting"
    BY <1>1 DEF Approve, goto, TypeOK
  <2> QED
    BY <2>1 DEF LockInv
<1>2. ASSUME NEW r \in Requests, Start(c, r) PROVE /\ UNCHANGED writer
                                                   /\ pc'[c] \in {"waiting", "begin"}
                                                   /\ pc'[c] = "waiting" => needs_approval(request'[c])
  BY <1>2 DEF Start, goto, TypeOK
<1>3. CASE Begin(c)
  <2>1. /\ pc'[c] \in {"check", "locked"}
        /\ pc'[c] = "check" => writer \in {NoOne, c} /\ writer' = c
        /\ pc'[c] = "locked" => UNCHANGED writer
    BY <1>3 DEF Begin, goto, HasLock, TypeOK
  <2> QED
    BY <2>1 DEF CallHolds, Working
<1>4. ASSUME Check(c) \/ Act(c) \/ Verify(c) \/ PassOver(c)
      PROVE  pc[c] \in CallHolds /\ UNCHANGED <<writer, request>> /\ pc'[c] # "waiting"
  BY <1>4 DEF Check, Act, Verify, PassOver, ItemEnds, goto, CallHolds, Working, TypeOK
<1>5. ASSUME NoteItem(c)
      PROVE  /\ pc[c] \in CallHolds /\ UNCHANGED request /\ pc'[c] # "waiting"
             /\ \/ writer \in {NoOne, c} /\ writer' = c
                \/ UNCHANGED writer
  BY <1>5 DEF NoteItem, goto, CallHolds, Working, HasLock, TypeOK
<1>6. ASSUME Commit(c)
      PROVE  writer \in {NoOne, c} /\ pc'[c] \in {"completed", "failed"}
  BY <1>6 DEF Commit, HasLock, goto, TypeOK
<1>7. ASSUME DuplicateSlot(c) \/ CallLocked(c)
      PROVE  UNCHANGED writer /\ pc'[c] \in {"duplicate", "locked"}
  BY <1>7 DEF DuplicateSlot, CallLocked, goto, TypeOK
<1>8. pc[c] \in CallHolds /\ ~ needs_approval(request[c]) => writer = c
  BY DEF LockInv
<1>9. \A at \in {"begin", "completed", "failed", "duplicate", "locked"} : at \notin CallHolds
  BY DEF CallHolds, Working
<1>10. "waiting" \notin CallHolds
  BY DEF CallHolds, Working
<1>11. CASE \E r \in Requests : Start(c, r)
  BY <1>2, <1>9, <1>10, <1>11
<1>12. CASE Check(c) \/ Act(c) \/ Verify(c) \/ PassOver(c)
  BY <1>4, <1>8, <1>12
<1>13. CASE NoteItem(c)
  BY <1>5, <1>8, <1>13
<1>14. CASE Commit(c)
  BY <1>6, <1>9, <1>14
<1>15. CASE DuplicateSlot(c) \/ CallLocked(c)
  BY <1>7, <1>9, <1>15
<1> QED
  BY <1>1, <1>3, <1>11, <1>12, <1>13, <1>14, <1>15 DEF OwnCall, CallStep

(* What an undo makes of it.                                               *)
LEMMA UndoLocks ==
  ASSUME TypeOK, LockInv, NEW u \in Undoers, OwnUndo(u)
  PROVE  /\ writer' = writer \/ writer \in {NoOne, u}
         /\ pc'[u] \in UndoHolds => writer' = u
<1> USE DEF rows, calls, undos, history, bounds
<1>1. ASSUME NEW c \in Calls, NEW i \in Index, Undo(u, c, i)
      PROVE  UNCHANGED writer /\ pc'[u] = "flush"
  BY <1>1 DEF Undo, goto, TypeOK
<1>2. CASE UndoFlush(u)
  <2>1. \/ writer \in {NoOne, u} /\ writer' = u
        \/ UNCHANGED writer /\ pc'[u] = "locked"
    BY <1>2 DEF UndoFlush, HasLock, goto, TypeOK
  <2> QED
    BY <2>1 DEF UndoHolds
<1>3. CASE UndoCheck(u) \/ UndoAct(u) \/ UndoVerify(u)
  <2>1. pc[u] \in UndoHolds /\ UNCHANGED writer
    BY <1>3 DEF UndoCheck, UndoAct, UndoVerify, goto, UndoHolds
  <2> QED
    BY <2>1 DEF LockInv
<1>4. CASE UndoCommit(u)
  <2>1. pc[u] \in UndoHolds /\ pc'[u] \in {"applied", "conflict", "restoreFailed"}
    BY <1>4 DEF UndoCommit, goto, UndoHolds, TypeOK
  <2> QED
    BY <2>1 DEF LockInv, UndoHolds
<1>5. CASE \E c \in Calls, i \in Index : Undo(u, c, i)
  BY <1>1, <1>5 DEF UndoHolds
<1> QED
  BY <1>2, <1>3, <1>4, <1>5 DEF OwnUndo, UndoStep

LEMMA LockStep ==
  ASSUME TypeOK, WhereInv, OrderInv, LockInv, [Next]_vars
  PROVE  LockInv'
<1>1. /\ \A c \in Calls : c # NoOne /\ c \notin Undoers
      /\ \A u \in Undoers : u # NoOne
  BY NamesAssumption
<1>2. ASSUME NEW c \in Calls, OwnCall(c) PROVE LockInv'
  <2>1. /\ \A d \in Calls \ {c} : request'[d] = request[d] /\ pc'[d] = pc[d]
        /\ \A u \in Undoers : pc'[u] = pc[u]
    BY <1>2, CallFrame DEF Own
  <2>2. /\ writer' = writer \/ writer \in {NoOne, c}
        /\ pc'[c] = "waiting" => needs_approval(request'[c])
        /\ pc'[c] \in CallHolds /\ ~ needs_approval(request'[c]) => writer' = c
    BY <1>2, CallLocks
  <2>3. ASSUME NEW d \in Calls
        PROVE  /\ pc'[d] = "waiting" => needs_approval(request'[d])
               /\ pc'[d] \in CallHolds /\ ~ needs_approval(request'[d]) => writer' = d
    BY <1>1, <2>1, <2>2 DEF LockInv
  <2>4. ASSUME NEW u \in Undoers, pc'[u] \in UndoHolds PROVE writer' = u
    BY <1>1, <2>1, <2>2, <2>4 DEF LockInv
  <2> QED
    BY <2>3, <2>4 DEF LockInv, needs_approval
<1>3. ASSUME NEW u \in Undoers, OwnUndo(u) PROVE LockInv'
  <2>1. /\ UNCHANGED request
        /\ \A x \in (Calls \cup Undoers) \ {u} : pc'[x] = pc[x]
    BY <1>3, UndoFrame DEF calls
  <2>2. /\ writer' = writer \/ writer \in {NoOne, u}
        /\ pc'[u] \in UndoHolds => writer' = u
    BY <1>3, UndoLocks
  <2>3. ASSUME NEW d \in Calls
        PROVE  /\ pc'[d] = "waiting" => needs_approval(request'[d])
               /\ pc'[d] \in CallHolds /\ ~ needs_approval(request'[d]) => writer' = d
    BY <1>1, <2>1, <2>2 DEF LockInv
  <2>4. ASSUME NEW v \in Undoers, pc'[v] \in UndoHolds PROVE writer' = v
    BY <1>1, <2>1, <2>2, <2>4 DEF LockInv
  <2> QED
    BY <2>3, <2>4 DEF LockInv, needs_approval
<1>4. CASE OtherStep
  <2>1. /\ UNCHANGED request
        /\ \A x \in Calls \cup Undoers : \/ pc'[x] = pc[x]
                                         \/ pc'[x] = "crashed"
    BY <1>4, OtherFrame DEF calls
  <2>2. \A x \in Calls \cup Undoers :
          pc'[x] \in CallHolds \cup UndoHolds => writer' = writer /\ pc'[x] = pc[x]
    <3>1. CASE Crash
      <4>1. \A x \in Calls \cup Undoers : Active(x) => pc'[x] = "crashed"
        BY <3>1 DEF Crash
      <4>2. \A x \in Calls \cup Undoers : pc[x] \in CallHolds \cup UndoHolds => Active(x)
        BY DEF Active, CallHolds, Working, UndoHolds, Finished
      <4> QED
        BY <2>1, <4>1, <4>2 DEF CallHolds, Working, UndoHolds
    <3>2. CASE UNCHANGED <<writer, pc>>
      BY <3>2
    <3> QED
      BY <1>4, <3>1, <3>2 DEF OtherStep, vars, Edit
  <2>3. ASSUME NEW d \in Calls
        PROVE  /\ pc'[d] = "waiting" => needs_approval(request'[d])
               /\ pc'[d] \in CallHolds /\ ~ needs_approval(request'[d]) => writer' = d
    BY <2>1, <2>2 DEF LockInv
  <2>4. ASSUME NEW v \in Undoers, pc'[v] \in UndoHolds PROVE writer' = v
    BY <2>1, <2>2, <2>4 DEF LockInv
  <2> QED
    BY <2>3, <2>4 DEF LockInv, needs_approval
<1> QED
  BY <1>2, <1>3, <1>4, NextSteps

(* While an undo is about to act nobody who needs the lock changes a file,  *)
(* and whoever does not need it is noted.                                  *)
LEMMA OnlyInterrupted ==
  ASSUME TypeOK, WhereInv, OrderInv, LockInv, [Next]_vars, NEW u \in Undoers, ~OwnUndo(u),
         pc[u] = "undoAct"
  PROVE  /\ interrupted \subseteq interrupted'
         /\ \/ u \in interrupted'
            \/ \A p \in {undoSource(u), undoDestination(u)} : file'[p] = file[p]
<1> USE DEF calls, rows, undos, history, bounds
<1>1. writer = u /\ u \notin Calls
  BY NamesAssumption DEF LockInv, UndoHolds
<1>2. ASSUME NEW x, Interrupt(x), x \notin Calls \/ needs_approval(request[x])
      PROVE  /\ interrupted \subseteq interrupted'
             /\ \/ u \in interrupted'
                \/ \A p \in {undoSource(u), undoDestination(u)} : file'[p] = file[p]
  BY <1>2 DEF Interrupt
<1>3. ASSUME NEW c \in Calls, Act(c), ~ UNCHANGED <<file, interrupted>>
      PROVE  Interrupt(c) /\ needs_approval(request[c])
  <2>1. pc[c] \in CallHolds /\ Interrupt(c)
    BY <1>3 DEF Act, CallHolds, Working
  <2> QED
    BY <1>1, <2>1 DEF LockInv
<1>4. ASSUME NEW c \in Calls, OwnCall(c) PROVE Act(c) \/ UNCHANGED <<file, interrupted>>
  BY <1>4 DEF OwnCall, CallStep, Start, Approve, Begin, Check, Verify, NoteItem, PassOver, Commit,
     DuplicateSlot, CallLocked
<1>5. ASSUME NEW v \in Undoers, OwnUndo(v) PROVE UNCHANGED <<file, interrupted>>
  <2>1. v # u
    BY <1>5
  <2>2. CASE UndoAct(v)
    <3>1. writer = v
      BY <2>2 DEF UndoAct, LockInv, UndoHolds
    <3> QED
      BY <1>1, <2>1, <3>1
  <2> QED
    BY <1>5, <2>2 DEF OwnUndo, UndoStep, Undo, UndoFlush, UndoCheck, UndoVerify, UndoCommit
<1>6. ASSUME OtherStep PROVE Interrupt(NoOne) \/ UNCHANGED <<file, interrupted>>
  BY <1>6 DEF OtherStep, Crash, Edit, vars
<1>7. NoOne \notin Calls
  BY NamesAssumption
<1> QED
  BY <1>2, <1>3, <1>4, <1>5, <1>6, <1>7, NextSteps

LEMMA SightStep ==
  ASSUME TypeOK, WhereInv, OrderInv, LockInv, SightInv, [Next]_vars
  PROVE  SightInv'
<1> USE DEF calls, rows, undos, history, bounds
<1> DEFINE Seen(u) == /\ file[undoDestination(u)] = postcondition(u)
                      /\ undoKind(u) = "move" => file[undoSource(u)] = Missing
<1> SUFFICES ASSUME NEW u \in Undoers, pc'[u] = "undoAct"
             PROVE  u \in interrupted' \/ Seen(u)'
  BY DEF SightInv
<1>1. CASE ~OwnUndo(u)
  <2>1. pc[u] = "undoAct" /\ undoOf'[u] = undoOf[u]
    BY <1>1, UndoKeeps DEF Active
  <2>2. UNCHANGED <<undoSource(u), undoDestination(u), undoKind(u), postcondition(u)>>
    BY <2>1, RecordFrame
  <2>3. /\ interrupted \subseteq interrupted'
        /\ \/ u \in interrupted'
           \/ \A p \in {undoSource(u), undoDestination(u)} : file'[p] = file[p]
    BY <1>1, <2>1, OnlyInterrupted
  <2>4. u \in interrupted \/ Seen(u)
    BY <2>1 DEF SightInv
  <2> QED
    BY <2>2, <2>3, <2>4
<1>2. CASE OwnUndo(u)
  <2>1. UndoCheck(u)
    BY <1>2 DEF OwnUndo, UndoStep, Undo, UndoFlush, UndoCheck, UndoAct, UndoVerify, UndoCommit, goto,
       TypeOK
  <2>2. pc[u] = "undoCheck" /\ UNCHANGED <<file, undoOf>>
    BY <2>1 DEF UndoCheck, goto
  <2>3. UNCHANGED <<undoSource(u), undoDestination(u), undoKind(u), postcondition(u)>>
    BY <2>2, RecordFrame
  <2>4. Seen(u)
    BY <2>1 DEF UndoCheck, goto, TypeOK
  <2> QED
    BY <2>2, <2>3, <2>4
<1> QED
  BY <1>1, <1>2

LockedInv == Inv /\ LockInv /\ SightInv

LEMMA LockedInvariance == Spec => []LockedInv
<1>1. Init => LockedInv
  <2>1. Init => LockInv /\ SightInv
    BY DEF Init, LockInv, SightInv, CallHolds, Working, UndoHolds
  <2> QED
    BY <2>1, InitInv DEF LockedInv
<1>2. LockedInv /\ [Next]_vars => LockedInv'
  BY InvStep, LockStep, SightStep DEF LockedInv, Inv
<1> QED
  BY <1>1, <1>2, PTL DEF Spec

(* However many calls and undos there are, an undo takes away only a text   *)
(* equal to the one its own call has left there, and moves it back only to  *)
(* a free place, unless another program, or a tool that was approved, has   *)
(* changed the file after the undo looked at it.                           *)
THEOREM UndoTakesOwn == Spec => UndoTakesOnlyItsOwn
<1>1. ASSUME LockedInv, [Next]_vars, NEW u \in undid' \ undid
      PROVE  \/ u \in interrupted
             \/ /\ file[undoDestination(u)] = postcondition(u)
                /\ undoKind(u) = "move" => file[undoSource(u)] = Missing
  <2>1. Inv /\ u \in Undoers
    BY <1>1, InvStep DEF LockedInv, Inv, TypeOK
  <2>2. pc[u] = "undoAct"
    BY <1>1, <2>1, WhoChanges
  <2> QED
    BY <1>1, <2>1, <2>2 DEF LockedInv, SightInv
<1>2. LockedInv /\ [Next]_vars =>
        [\A u \in undid' \ undid :
           \/ u \in interrupted
           \/ /\ file[undoDestination(u)] = postcondition(u)
              /\ undoKind(u) = "move" => file[undoSource(u)] = Missing]_vars
  BY <1>1
<1> QED
  BY <1>2, LockedInvariance, PTL DEF Spec, UndoTakesOnlyItsOwn

(* For batches of any size: an approved batch carries out an item with the  *)
(* text its manifest has for it, unless somebody else or an earlier item of *)
(* the batch has changed the file since.                                   *)
THEOREM ManifestTexts == Spec => ManifestTextsOnly
<1> DEFINE Kept(c, i) == \/ manifest[c][i] \in {Missing, file[source(c, i)]}
                         \/ source(c, i) \in raced
                         \/ Rebuilt(c, i)
<1>1. ASSUME Inv, [Next]_vars, NEW c \in Calls, NEW i \in Index, Carries(c, i)
      PROVE  Kept(c, i)
  <2>1. TypeOK /\ WhereInv
    BY <1>1 DEF Inv
  <2>2. i \in changed'[c] \ changed[c] /\ tool(c) \in Batches /\ needs_approval(request[c])
    BY <1>1 DEF Carries
  <2>3. PICK d \in Calls :
          /\ pc[d] = "act"
          /\ (kind(tool(d)) \in {"copy", "move"} => Present(d))
          /\ changed' = [changed EXCEPT ![d] = @ \cup {item[d]}]
    BY <1>1, <2>2, WhoChanges
  <2>4. d = c /\ i = item[c]
    BY <2>1, <2>2, <2>3 DEF TypeOK
  <2>5. i \in DOMAIN items(c) /\ file[source(c, i)] # Missing
    BY <2>1, <2>2, <2>3, <2>4, CallFacts, CurrentFacts DEF Present, kind, Batches
  <2> QED
    BY <1>1, <2>2, <2>3, <2>4, <2>5 DEF Inv, ManifestInv
<1>2. Inv /\ [Next]_vars => [\A c \in Calls, i \in Index : Carries(c, i) => Kept(c, i)]_vars
  BY <1>1
<1> QED
  BY <1>2, Invariance, PTL DEF Spec, ManifestTextsOnly

(* No tool and no undo replaces a text that is there, unless the file was   *)
(* changed under its hands.                                                *)
THEOREM NothingReplaced == Spec => NothingIsReplaced
<1> DEFINE Allowed(p) == \/ edits' # edits
                         \/ p \in raced
                         \/ IsPrefix(file[p], file'[p])
                         \/ IsPrefix(file'[p], file[p])
<1>1. ASSUME Inv, [Next]_vars, NEW p \in Places, file[p] # Missing,
             file'[p] \notin {Missing, file[p]}
      PROVE  Allowed(p)
  <2>1. TypeOK /\ WhereInv /\ OrderInv /\ DoneInv /\ CurrentInv /\ UndoInv
    BY <1>1 DEF Inv
  <2>2. file[p] \in Seq(Pieces)
    BY <1>1, <2>1, FileTypes
  <2>3. ASSUME NEW c \in Calls, pc[c] = "act", file' = Effect(c),
               kind(tool(c)) \in {"copy", "move"} => Present(c)
        PROVE  Allowed(p)
    <3>1. /\ source(c, item[c]) \in Places /\ destination(c, item[c]) \in Places
          /\ items(c)[item[c]].text \in Seq(Pieces) /\ tool(c) \in Tool
      BY <2>1, <2>3, CallFacts
    <3>2. /\ \A q \in Places \ PlacesOf(c, item[c]) : file'[q] = file[q]
          /\ kind(tool(c)) = "append" =>
               file'[destination(c, item[c])] =
                 Appended(file[destination(c, item[c])], items(c)[item[c]].text)
          /\ kind(tool(c)) # "move" =>
               \A q \in Places \ {destination(c, item[c])} : file'[q] = file[q]
          /\ kind(tool(c)) = "move" => file'[source(c, item[c])] = Missing
      BY <2>1, <2>3, EffectFacts
    <3>3. p = destination(c, item[c])
      BY <1>1, <3>2 DEF PlacesOf
    <3>4. CASE kind(tool(c)) = "append"
      <4>1. file'[p] = file[p] \o items(c)[item[c]].text
        BY <1>1, <3>2, <3>3, <3>4 DEF Appended
      <4> QED
        BY <2>2, <3>1, <4>1, TextFacts
    <3>5. CASE kind(tool(c)) # "append"
      BY <1>1, <2>1, <2>3, <3>3, <3>5 DEF CurrentInv
    <3> QED
      BY <3>4, <3>5
  <2>4. ASSUME NEW u \in Undoers, pc[u] = "undoAct", file' = UndoEffect(u),
               file[undoDestination(u)] # Missing
        PROVE  Allowed(p)
    <3>1. undoKind(u) \in {"write", "append", "copy", "move"}
      BY <2>1, <2>4, UndoFacts, KindFacts DEF undoKind
    <3>2. /\ \A q \in Places \ {undoSource(u), undoDestination(u)} : file'[q] = file[q]
          /\ undoKind(u) \in {"write", "copy"} =>
               /\ file'[undoDestination(u)] = Missing
               /\ \A q \in Places \ {undoDestination(u)} : file'[q] = file[q]
          /\ undoKind(u) = "append" =>
               /\ precondition(u) \in Seq(Pieces)
               /\ file'[undoDestination(u)] =
                    Truncated(file[undoDestination(u)], Len(precondition(u)))
               /\ \A q \in Places \ {undoDestination(u)} : file'[q] = file[q]
          /\ undoKind(u) = "move" => file'[undoDestination(u)] = Missing
      BY <2>1, <2>4, UndoEffectFacts
    <3>3. CASE undoKind(u) \in {"write", "copy"}
      BY <1>1, <3>2, <3>3
    <3>4. CASE undoKind(u) = "append"
      <4>1. /\ p = undoDestination(u) /\ precondition(u) \in Seq(Pieces)
            /\ file'[p] = Truncated(file[p], Len(precondition(u)))
        BY <1>1, <3>2, <3>4
      <4>2. Len(precondition(u)) \in Nat
        BY <4>1
      <4>3. IsPrefix(Truncated(file[p], Len(precondition(u))), file[p])
        BY <2>2, <4>2, TextFacts
      <4> QED
        BY <4>1, <4>3
    <3>5. CASE undoKind(u) = "move"
      <4>1. p = undoSource(u)
        BY <1>1, <3>2, <3>5
      <4> QED
        BY <1>1, <2>1, <2>4, <3>5, <4>1 DEF UndoInv
    <3> QED
      BY <3>1, <3>3, <3>4, <3>5
  <2>5. CASE edits' = edits + 1
    BY <2>1, <2>5, BoundsAssumption DEF TypeOK
  <2> QED
    BY <1>1, <2>3, <2>4, <2>5, WhoChanges
<1>2. Inv /\ [Next]_vars =>
        [\A p \in Places : file[p] # Missing /\ file'[p] \notin {Missing, file[p]} =>
           Allowed(p)]_vars
  BY <1>1
<1> QED
  BY <1>2, Invariance, PTL DEF Spec, NothingIsReplaced

-----------------------------------------------------------------------------
(* No text is lost: an injection from the texts there have to be to the     *)
(* files there are.                                                        *)

LEMMA InjectionMore ==
  ASSUME NEW S, NEW T, ExistsInjection(S, T), NEW s, s \notin S, NEW t, t \notin T
  PROVE  ExistsInjection(S \cup {s}, T \cup {t})
<1>1. PICK h \in Injection(S, T) : TRUE
  BY DEF ExistsInjection
<1>2. h \in [S -> T] /\ \A x, y \in S : h[x] = h[y] => x = y
  BY Fun_InjectionProperties
<1> DEFINE g == [x \in S \cup {s} |-> IF x = s THEN t ELSE h[x]]
<1>3. g \in [S \cup {s} -> T \cup {t}]
  BY <1>2
<1>4. \A x, y \in S \cup {s} : g[x] = g[y] => x = y
  BY <1>2
<1>5. g \in Injection(S \cup {s}, T \cup {t})
  <2> HIDE DEF g
  <2> QED
    BY <1>3, <1>4, Fun_IsInj
<1> QED
  BY <1>5 DEF ExistsInjection

LEMMA InjectionLess ==
  ASSUME NEW S, NEW T, ExistsInjection(S, T), NEW s \in S, NEW t \in T
  PROVE  ExistsInjection(S \ {s}, T \ {t})
<1>1. PICK h \in Injection(S, T) : TRUE
  BY DEF ExistsInjection
<1>2. h \in [S -> T] /\ \A x, y \in S : h[x] = h[y] => x = y
  BY Fun_InjectionProperties
<1> DEFINE g == [x \in S \ {s} |-> IF h[x] = t THEN h[s] ELSE h[x]]
<1>3. g \in [S \ {s} -> T \ {t}]
  BY <1>2
<1>4. \A x, y \in S \ {s} : g[x] = g[y] => x = y
  BY <1>2
<1>5. g \in Injection(S \ {s}, T \ {t})
  <2> HIDE DEF g
  <2> QED
    BY <1>3, <1>4, Fun_IsInj
<1> QED
  BY <1>5 DEF ExistsInjection

LEMMA InjectionMoved ==
  ASSUME NEW S, NEW T, ExistsInjection(S, T), NEW t \in T, NEW u, u \notin T
  PROVE  ExistsInjection(S, (T \ {t}) \cup {u})
<1>1. PICK h \in Injection(S, T) : TRUE
  BY DEF ExistsInjection
<1>2. h \in [S -> T] /\ \A x, y \in S : h[x] = h[y] => x = y
  BY Fun_InjectionProperties
<1> DEFINE g == [x \in S |-> IF h[x] = t THEN u ELSE h[x]]
<1>3. g \in [S -> (T \ {t}) \cup {u}]
  BY <1>2
<1>4. \A x, y \in S : g[x] = g[y] => x = y
  BY <1>2
<1>5. g \in Injection(S, (T \ {t}) \cup {u})
  <2> HIDE DEF g
  <2> QED
    BY <1>3, <1>4, Fun_IsInj
<1> QED
  BY <1>5 DEF ExistsInjection

LEMMA PrefixFacts ==
  ASSUME NEW s \in Seq(Pieces), NEW t \in Seq(Pieces), NEW w \in Seq(Pieces)
  PROVE  /\ IsPrefix(w, w)
         /\ IsPrefix(w, s) => IsPrefix(w, s \o t)
BY DEF IsPrefix

(* Nobody else has changed a file, and no record was undone twice.         *)
Calm == edits = 0 /\ raced = {} /\ UndoneOnce

(* The files that hold the text w, and more may follow it.                 *)
Holders(w) == {p \in Places : file[p] # Missing /\ IsPrefix(w, file[p])}

(* The files that held it at the beginning.                                *)
Originals(w) == {p \in Places : Workspace[p] # Missing /\ IsPrefix(w, Workspace[p])}

(* The items that made one more file hold it, and were not undone since.    *)
Undone(c, i) == \E u \in undid : undoOf[u] = <<c, i>>
Adds(c, i, w) ==
  /\ kind(tool(c)) # "move"
  /\ IsPrefix(w, Expected(c, i))
  /\ kind(tool(c)) = "append" => ~IsPrefix(w, before[c][i])
Counted(c, i, w) == i \in changed[c] /\ ~Undone(c, i) /\ Adds(c, i, w)
Raised(w) == {x \in Calls \X Index : Counted(x[1], x[2], w)}

Owed(w) == ({0} \X Originals(w)) \cup ({1} \X Raised(w))

(* Whoever changed a file had its undo begun; and as long as nobody         *)
(* interferes, every original and every addition has a file of its own.     *)
UndidInv == \A u \in undid : pc[u] \notin {"idle", "flush", "undoCheck", "undoAct"}
LossInv == Calm => \A w \in Seq(Pieces) : ExistsInjection(Owed(w), Holders(w))

LEMMA UndidStep ==
  ASSUME Inv, UndidInv, [Next]_vars
  PROVE  /\ UndidInv'
         /\ undid \subseteq undid'
         /\ \A u \in undid : undoOf'[u] = undoOf[u]
<1> USE DEF undos, history
<1>0. TypeOK /\ WhereInv /\ OrderInv
  BY DEF Inv
<1>1. undid \subseteq Undoers /\ undid \subseteq undid'
  BY <1>0, WhoChanges DEF TypeOK
<1>2. ASSUME NEW u \in undid PROVE undoOf'[u] = undoOf[u]
  <2>1. CASE ~OwnUndo(u)
    BY <1>0, <1>1, <2>1, UndoKeeps
  <2>2. CASE OwnUndo(u)
    BY <1>1, <2>2 DEF UndidInv, OwnUndo, UndoStep, Undo, UndoFlush, UndoCheck, UndoAct,
       UndoVerify, UndoCommit, goto
  <2> QED
    BY <2>1, <2>2
<1>3. ASSUME NEW u \in Undoers, u \in undid'
      PROVE  pc'[u] \notin {"idle", "flush", "undoCheck", "undoAct"}
  <2>1. CASE ~OwnUndo(u) /\ u \in undid
    <3>1. pc'[u] = pc[u] \/ pc'[u] = "crashed"
      BY <1>0, <2>1, UndoKeeps
    <3> QED
      BY <2>1, <3>1 DEF UndidInv
  <2>2. CASE ~OwnUndo(u) /\ u \notin undid
    <3>1. ASSUME NEW v \in Undoers, OwnUndo(v), v # u PROVE FALSE
      BY <1>3, <2>2, <3>1 DEF OwnUndo, UndoStep, Undo, UndoFlush, UndoCheck, UndoAct,
         UndoVerify, UndoCommit
    <3>2. ASSUME NEW c \in Calls, OwnCall(c) PROVE FALSE
      BY <1>0, <1>3, <2>2, <3>2, CallFrame
    <3>3. CASE OtherStep
      BY <1>0, <1>3, <2>2, <3>3, OtherFrame
    <3> QED
      BY <2>2, <3>1, <3>2, <3>3, NextSteps
  <2>3. CASE OwnUndo(u) /\ u \in undid
    BY <1>0, <2>3 DEF UndidInv, OwnUndo, UndoStep, Undo, UndoFlush, UndoCheck, UndoAct,
       UndoVerify, UndoCommit, goto, TypeOK
  <2>4. CASE OwnUndo(u) /\ u \notin undid
    <3>1. UndoAct(u) /\ undid' # undid
      BY <1>3, <2>4 DEF OwnUndo, UndoStep, Undo, UndoFlush, UndoCheck, UndoAct,
         UndoVerify, UndoCommit
    <3>2. goto(u, "undoAct", "undoVerify")
      BY <3>1 DEF UndoAct
    <3> QED
      BY <1>0, <3>2 DEF goto, TypeOK
  <2> QED
    BY <2>1, <2>2, <2>3, <2>4
<1>4. undid' \subseteq Undoers
  <2>1. TypeOK'
    BY TypeStep DEF Inv
  <2> QED
    BY <2>1 DEF TypeOK
<1> QED
  BY <1>1, <1>2, <1>3, <1>4 DEF UndidInv

(* What an item was, once it has changed a file, stays.                    *)
LEMMA ItemStays ==
  ASSUME Inv, [Next]_vars, NEW c \in Calls, NEW i \in changed[c]
  PROVE  /\ request'[c] = request[c]
         /\ before'[c][i] = before[c][i]
         /\ \A w : Adds(c, i, w)' <=> Adds(c, i, w)
<1>0. TypeOK /\ WhereInv /\ OrderInv
  BY DEF Inv
<1>1. pc[c] # "idle"
  BY <1>0 DEF OrderInv
<1>2. request'[c] = request[c]
  BY <1>0, <1>1, RecordStays
<1>3. before'[c][i] = before[c][i]
  <2>1. CASE ~OwnCall(c)
    BY <1>0, <2>1, CallKeeps DEF Own
  <2>2. CASE Check(c)
    <3>1. i < item[c] /\ item[c] \in Nat
      BY <1>0, <2>2 DEF OrderInv, Check, TypeOK, Index
    <3>2. i # item[c]
      BY <3>1
    <3> QED
      BY <1>0, <2>2, <3>2 DEF Check, TypeOK
  <2>3. CASE OwnCall(c) /\ ~Check(c)
    BY <2>3 DEF OwnCall, CallStep, Begin, Act, Verify, NoteItem, PassOver, Commit,
       DuplicateSlot, CallLocked, Approve, Start, calls
  <2> QED
    BY <2>1, <2>2, <2>3
<1> QED
  BY <1>2, <1>3 DEF Adds, Expected, tool, items

LEMMA CalmStep ==
  ASSUME Inv, UndidInv, [Next]_vars, Calm'
  PROVE  Calm
<1>1. /\ raced \subseteq raced' /\ edits \in Nat /\ (edits' = edits \/ edits' = edits + 1)
  <2>0. edits \in Nat
    BY BoundsAssumption DEF Inv, TypeOK
  <2>1. ASSUME NEW c \in Calls, OwnCall(c) PROVE raced \subseteq raced' /\ edits' = edits
    <3>1. raced \subseteq raced'
      BY <2>1, CallFrame DEF Protests, Inv
    <3> QED
      BY <2>1, <3>1 DEF OwnCall, CallStep, Begin, Check, Act, Verify, NoteItem, PassOver, Commit,
         DuplicateSlot, CallLocked, Approve, Start, bounds
  <2>2. ASSUME NEW u \in Undoers, OwnUndo(u) PROVE raced \subseteq raced' /\ edits' = edits
    <3>1. raced \subseteq raced'
      BY <2>2, UndoFrame DEF Protests, Inv
    <3> QED
      BY <2>2, <3>1 DEF OwnUndo, UndoStep, Undo, UndoFlush, UndoCheck, UndoAct, UndoVerify,
         UndoCommit, bounds
  <2>3. CASE OtherStep
    <3>1. raced \subseteq raced'
      BY <2>3, OtherFrame DEF Protests, Inv
    <3>2. CASE Crash
      BY <2>0, <3>1, <3>2 DEF Crash
    <3>3. CASE UNCHANGED vars
      BY <2>0, <3>1, <3>3 DEF vars, bounds
    <3>4. ASSUME NEW p \in Paths, NEW text \in Edited, Edit(p, text) PROVE edits' = edits + 1
      BY <3>4 DEF Edit
    <3> QED
      BY <2>0, <2>3, <3>1, <3>2, <3>3, <3>4 DEF OtherStep
  <2> QED
    BY <2>0, <2>1, <2>2, <2>3, NextSteps
<1>2. edits = 0 /\ raced = {}
  BY <1>1 DEF Calm
<1>3. ASSUME NEW u \in undid, NEW v \in undid, undoOf[u] = undoOf[v] PROVE u = v
  <2>1. u \in undid' /\ v \in undid' /\ undoOf'[u] = undoOf'[v]
    BY <1>3, UndidStep
  <2> QED
    BY <2>1 DEF Calm, UndoneOnce
<1> QED
  BY <1>2, <1>3 DEF Calm, UndoneOnce

(* A step adds to what is counted the item it carries out, and takes off    *)
(* the item it undoes.                                                     *)
LEMMA CountedStep ==
  ASSUME Inv, UndidInv, [Next]_vars, NEW w, NEW c \in Calls, NEW i \in Index
  PROVE  /\ i \in changed[c] =>
              (Counted(c, i, w)' <=> /\ Counted(c, i, w)
                                     /\ \A u \in undid' \ undid : undoOf'[u] # <<c, i>>)
         /\ i \notin changed[c] => ~Undone(c, i) /\ ~Counted(c, i, w)
<1>0. TypeOK /\ WhereInv /\ OrderInv
  BY DEF Inv
<1>1. ASSUME i \in changed[c]
      PROVE  Counted(c, i, w)' <=> /\ Counted(c, i, w)
                                   /\ \A u \in undid' \ undid : undoOf'[u] # <<c, i>>
  <2>1. i \in changed'[c]
    BY <1>0, <1>1, WhoChanges DEF TypeOK
  <2>2. Adds(c, i, w)' <=> Adds(c, i, w)
    BY <1>1, ItemStays
  <2>3. Undone(c, i)' <=> Undone(c, i) \/ \E u \in undid' \ undid : undoOf'[u] = <<c, i>>
    BY UndidStep DEF Undone
  <2> QED
    BY <1>1, <2>1, <2>2, <2>3 DEF Counted
<1>2. ASSUME i \notin changed[c], NEW u \in undid, undoOf[u] = <<c, i>> PROVE FALSE
  <2>1. u \in Undoers /\ pc[u] # "idle"
    BY <1>0 DEF TypeOK, UndidInv
  <2>2. undoItem(u) \in succeeded[undoCall(u)] /\ undoCall(u) = c /\ undoItem(u) = i
    BY <1>0, <1>2, <2>1, UndoFacts DEF undoCall, undoItem
  <2> QED
    BY <1>0, <1>2, <2>2 DEF OrderInv
<1>3. i \notin changed[c] => ~Undone(c, i) /\ ~Counted(c, i, w)
  BY <1>2 DEF Undone, Counted
<1> QED
  BY <1>1, <1>3

(* The injection, when one file more or one file less holds the text.       *)
LEMMA OwedOneMore ==
  ASSUME NEW w, ExistsInjection(Owed(w), Holders(w)),
         NEW c \in Calls, NEW i \in Index, ~Counted(c, i, w), NEW p \in Places, p \notin Holders(w),
         Raised(w)' = Raised(w) \cup {<<c, i>>}, Holders(w)' = Holders(w) \cup {p}
  PROVE  ExistsInjection(Owed(w), Holders(w))'
<1>1. <<1, <<c, i>>>> \notin Owed(w)
  BY DEF Owed, Raised
<1>2. Owed(w)' = Owed(w) \cup {<<1, <<c, i>>>>}
  BY DEF Owed, Originals
<1> QED
  BY <1>1, <1>2, InjectionMore

LEMMA OwedOneLess ==
  ASSUME NEW w, ExistsInjection(Owed(w), Holders(w)),
         NEW c \in Calls, NEW i \in Index, Counted(c, i, w), NEW p \in Holders(w),
         Raised(w)' = Raised(w) \ {<<c, i>>}, Holders(w)' = Holders(w) \ {p}
  PROVE  ExistsInjection(Owed(w), Holders(w))'
<1>1. <<1, <<c, i>>>> \in Owed(w)
  BY DEF Owed, Raised
<1>2. Owed(w)' = Owed(w) \ {<<1, <<c, i>>>>}
  BY DEF Owed, Originals
<1> QED
  BY <1>1, <1>2, InjectionLess

LEMMA OwedMoved ==
  ASSUME NEW w, ExistsInjection(Owed(w), Holders(w)),
         NEW p \in Holders(w), NEW q \in Places, q \notin Holders(w),
         Raised(w)' = Raised(w), Holders(w)' = (Holders(w) \ {p}) \cup {q}
  PROVE  ExistsInjection(Owed(w), Holders(w))'
<1>1. Owed(w)' = Owed(w)
  BY DEF Owed, Originals
<1> QED
  BY <1>1, InjectionMoved

LEMMA OwedSame ==
  ASSUME NEW w, ExistsInjection(Owed(w), Holders(w)),
         Raised(w)' = Raised(w), Holders(w)' = Holders(w)
  PROVE  ExistsInjection(Owed(w), Holders(w))'
BY DEF Owed, Originals

LEMMA LossOfAct ==
  ASSUME Inv, UndidInv, LossInv, Calm, [Next]_vars, NEW c \in Calls, pc[c] = "act",
         NEW i, i = item[c],
         file' = Effect(c), undid' = undid,
         changed' = [changed EXCEPT ![c] = @ \cup {item[c]}],
         kind(tool(c)) \in {"copy", "move"} => Present(c),
         UNCHANGED <<request, before>>,
         NEW w \in Seq(Pieces)
  PROVE  ExistsInjection(Owed(w), Holders(w))'
<1> DEFINE s == source(c, item[c])
           d == destination(c, item[c])
<1>0. TypeOK /\ WhereInv /\ OrderInv /\ CurrentInv /\ raced = {}
  BY DEF Inv, Calm
<1>1. /\ s \in Places /\ d \in Places /\ items(c)[i].text \in Seq(Pieces)
      /\ tool(c) \in Tool /\ i \in DOMAIN items(c) /\ i \in Index
  BY <1>0, CallFacts
<1>2. i \notin changed[c]
  <2>1. \A j \in changed[c] : j < i
    BY <1>0 DEF OrderInv
  <2> QED
    BY <1>1, <2>1 DEF Index
<1>3. /\ file[s] = before[c][i]
      /\ kind(tool(c)) # "append" => file[d] = Missing
      /\ FoundText(c, i)
  BY <1>0 DEF CurrentInv
<1>4. ExistsInjection(Owed(w), Holders(w))
  BY DEF LossInv
<1>5. before[c][i] \in Seq(Pieces) \/ before[c][i] = Missing
  BY <1>0, <1>1, <1>3, FileTypes DEF TypeOK
<1>6. /\ \A p \in Places \ {s, d} : file'[p] = file[p]
      /\ kind(tool(c)) # "move" => \A p \in Places \ {d} : file'[p] = file[p]
  BY <1>0, EffectFacts DEF PlacesOf
(* What is counted afterwards. *)
<1>7. ~Counted(c, i, w) /\ (Counted(c, i, w)' <=> Adds(c, i, w))
  <2>1. ~Counted(c, i, w) /\ ~Undone(c, i)
    BY <1>1, <1>2, CountedStep
  <2>2. Undone(c, i)' <=> Undone(c, i)
    BY UndidStep DEF Undone
  <2>3. i \in changed'[c]
    BY <1>0 DEF TypeOK
  <2>4. Adds(c, i, w)' <=> Adds(c, i, w)
    BY DEF Adds, Expected, tool, items
  <2> QED
    BY <2>1, <2>2, <2>3, <2>4 DEF Counted
<1>8. ASSUME NEW k \in Calls, NEW j \in Index, <<k, j>> # <<c, i>>
      PROVE  Counted(k, j, w)' <=> Counted(k, j, w)
  <2>1. j \in changed'[k] <=> j \in changed[k]
    BY <1>0, <1>8 DEF TypeOK
  <2>2. CASE j \in changed[k]
    BY <2>2, CountedStep
  <2>3. CASE j \notin changed[k]
    BY <2>1, <2>3 DEF Counted
  <2> QED
    BY <2>2, <2>3
<1>9. /\ Adds(c, i, w) => Raised(w)' = Raised(w) \cup {<<c, i>>}
      /\ ~Adds(c, i, w) => Raised(w)' = Raised(w)
  BY <1>1, <1>7, <1>8 DEF Raised
<1> HIDE DEF s, d
<1>10. CASE kind(tool(c)) \in {"write", "copy"}
  <2>1. /\ file'[d] = Expected(c, i) /\ file[d] = Missing
        /\ Expected(c, i) \in Seq(Pieces)
    <3>1. /\ kind(tool(c)) = "write" => file'[d] = items(c)[i].text
          /\ kind(tool(c)) = "copy" => file'[d] = file[s]
      BY <1>0, EffectFacts DEF s, d
    <3>2. kind(tool(c)) = "copy" => before[c][i] \in Seq(Pieces)
      BY <1>3, <1>5 DEF FoundText
    <3> QED
      BY <1>1, <1>3, <1>10, <3>1, <3>2, ExpectedFacts
  <2>2. Adds(c, i, w) <=> IsPrefix(w, Expected(c, i))
    BY <1>10 DEF Adds
  <2>3. d \notin Holders(w) /\ Expected(c, i) # Missing
    BY <2>1, NamesAssumption DEF Holders
  <2>4. /\ Adds(c, i, w) => Holders(w)' = Holders(w) \cup {d}
        /\ ~Adds(c, i, w) => Holders(w)' = Holders(w)
    BY <1>1, <1>6, <1>10, <2>1, <2>2, <2>3 DEF Holders
  <2> QED
    BY <1>1, <1>4, <1>7, <1>9, <2>3, <2>4, OwedOneMore, OwedSame
<1>11. CASE kind(tool(c)) = "append"
  <2>1. /\ s = d /\ before[c][i] \in Seq(Pieces) /\ file[d] = before[c][i]
        /\ file'[d] = before[c][i] \o items(c)[i].text
        /\ Expected(c, i) = before[c][i] \o items(c)[i].text
    <3>1. s = d
      BY <1>0, <1>1, <1>11, OnePath DEF s, d
    <3>2. before[c][i] \in Seq(Pieces) /\ before[c][i] # Missing
      BY <1>3, <1>5, <1>11 DEF FoundText
    <3>3. file'[d] = Appended(file[d], items(c)[i].text)
      BY <1>0, <1>11, EffectFacts DEF d
    <3> QED
      BY <1>3, <1>11, <3>1, <3>2, <3>3, ExpectedFacts DEF Appended
  <2>2. /\ file[d] # Missing /\ file'[d] # Missing
        /\ IsPrefix(w, file[d]) => IsPrefix(w, file'[d])
    <3>1. before[c][i] \o items(c)[i].text \in Seq(Pieces)
      BY <1>1, <2>1, TextFacts
    <3>2. IsPrefix(w, before[c][i]) => IsPrefix(w, before[c][i] \o items(c)[i].text)
      BY <1>1, <2>1, PrefixFacts
    <3> QED
      BY <2>1, <3>1, <3>2, NamesAssumption
  <2>3. Adds(c, i, w) <=> IsPrefix(w, file'[d]) /\ ~IsPrefix(w, file[d])
    BY <1>11, <2>1 DEF Adds
  <2>4. /\ Adds(c, i, w) => Holders(w)' = Holders(w) \cup {d} /\ d \notin Holders(w)
        /\ ~Adds(c, i, w) => Holders(w)' = Holders(w)
    BY <1>1, <1>6, <1>11, <2>2, <2>3 DEF Holders
  <2> QED
    BY <1>1, <1>4, <1>7, <1>9, <2>4, OwedOneMore, OwedSame
<1>12. CASE kind(tool(c)) = "move"
  <2>1. /\ file'[d] = file[s] /\ file'[s] = Missing /\ file[d] = Missing /\ s # d
        /\ file[s] # Missing
    BY <1>0, <1>3, <1>12, EffectFacts DEF s, d, FoundText
  <2>2. Raised(w)' = Raised(w)
    BY <1>9, <1>12 DEF Adds
  <2>3. /\ s \in Holders(w) => Holders(w)' = (Holders(w) \ {s}) \cup {d} /\ d \notin Holders(w)
        /\ s \notin Holders(w) => Holders(w)' = Holders(w)
    BY <1>1, <1>6, <2>1 DEF Holders
  <2> QED
    BY <1>1, <1>4, <2>2, <2>3, OwedMoved, OwedSame
<1> QED
  BY <1>1, <1>10, <1>11, <1>12, KindFacts

LEMMA LossOfUndo ==
  ASSUME Inv, UndidInv, LossInv, Calm, Calm', [Next]_vars, NEW u \in Undoers, pc[u] = "undoAct",
         file' = UndoEffect(u), changed' = changed, undid' = undid \cup {u},
         undoOf' = undoOf, file[undoDestination(u)] # Missing,
         NEW c, c = undoCall(u), NEW i, i = undoItem(u),
         NEW w \in Seq(Pieces)
  PROVE  ExistsInjection(Owed(w), Holders(w))'
<1> DEFINE s == undoSource(u)
           d == undoDestination(u)
<1>0. TypeOK /\ WhereInv /\ OrderInv /\ DoneInv /\ UndoInv /\ raced = {}
  BY DEF Inv, Calm
<1>1. /\ c \in Calls /\ i \in Index /\ i \in changed[c] /\ i \in DOMAIN items(c)
      /\ s \in Places /\ d \in Places /\ tool(c) \in Tool
      /\ s = source(c, i) /\ d = destination(c, i) /\ i \in succeeded[c] /\ pc[c] # "idle"
  BY <1>0, UndoFacts DEF OrderInv
<1>2. undoOf[u] = <<c, i>>
  BY <1>0 DEF TypeOK, undoCall, undoItem
<1>3. u \notin undid
  BY DEF UndidInv
<1>4. ExistsInjection(Owed(w), Holders(w))
  BY DEF LossInv
<1>5. /\ file[d] = Expected(c, i) /\ FoundText(c, i)
      /\ undoKind(u) = "move" => file[s] = Missing
      /\ undoKind(u) = kind(tool(c)) /\ precondition(u) = before[c][i]
  <2>1. file[d] = postcondition(u) /\ (undoKind(u) = "move" => file[s] = Missing)
    BY <1>0 DEF UndoInv
  <2>2. Unraced(c, i)
    BY <1>0 DEF Unraced
  <2> QED
    BY <1>0, <1>1, <2>1, <2>2 DEF DoneInv, postcondition, precondition, undoKind
(* What is counted afterwards. *)
<1>6. Counted(c, i, w) <=> Adds(c, i, w)
  <2>1. ASSUME NEW v \in undid, undoOf[v] = <<c, i>> PROVE FALSE
    <3>1. v \in undid' /\ u \in undid' /\ undoOf'[v] = undoOf'[u]
      BY <1>2, <2>1
    <3>2. u = v
      BY <3>1 DEF Calm, UndoneOnce
    <3> QED
      BY <1>3, <3>2
  <2> QED
    BY <1>1, <2>1 DEF Counted, Undone
<1>7. ASSUME NEW k \in Calls, NEW j \in Index
      PROVE  Counted(k, j, w)' <=> Counted(k, j, w) /\ <<k, j>> # <<c, i>>
  <2>1. \A v : v \in undid' \ undid <=> v = u
    BY <1>3
  <2>2. CASE j \in changed[k]
    BY <1>2, <2>1, <2>2, CountedStep
  <2>3. CASE j \notin changed[k]
    BY <2>3 DEF Counted
  <2> QED
    BY <2>2, <2>3
<1>8. /\ Counted(c, i, w) => Raised(w)' = Raised(w) \ {<<c, i>>}
      /\ ~Counted(c, i, w) => Raised(w)' = Raised(w)
  BY <1>1, <1>7 DEF Raised
<1>9. /\ \A p \in Places \ {s, d} : file'[p] = file[p]
      /\ undoKind(u) # "move" => \A p \in Places \ {d} : file'[p] = file[p]
  BY <1>0, <1>1, <1>5, UndoEffectFacts, KindFacts
<1> HIDE DEF s, d
<1>10. CASE undoKind(u) \in {"write", "copy"}
  <2>1. file'[d] = Missing
    BY <1>0, <1>10, UndoEffectFacts DEF d
  <2>2. Adds(c, i, w) <=> IsPrefix(w, file[d])
    BY <1>5, <1>10 DEF Adds
  <2>3. /\ Adds(c, i, w) => Holders(w)' = Holders(w) \ {d} /\ d \in Holders(w)
        /\ ~Adds(c, i, w) => Holders(w)' = Holders(w)
    BY <1>1, <1>9, <1>10, <2>1, <2>2 DEF Holders, d
  <2> QED
    BY <1>1, <1>4, <1>6, <1>8, <2>3, OwedOneLess, OwedSame
<1>11. CASE undoKind(u) = "append"
  <2>1. /\ before[c][i] \in Seq(Pieces) /\ items(c)[i].text \in Seq(Pieces)
        /\ file[d] = before[c][i] \o items(c)[i].text
    <3>1. items(c)[i].text \in Seq(Pieces)
      BY <1>0, <1>1, CallFacts
    <3>2. before[c][i] \in Seq(Pieces)
      BY <1>0, <1>5, <1>11, UndoEffectFacts
    <3>3. Expected(c, i) = before[c][i] \o items(c)[i].text
      BY <1>5, <1>11, ExpectedFacts
    <3> QED
      BY <1>5, <3>1, <3>2, <3>3
  <2>2. file'[d] = before[c][i]
    <3>1. file'[d] = Truncated(file[d], Len(before[c][i]))
      BY <1>0, <1>5, <1>11, UndoEffectFacts DEF d
    <3>2. \A q, r \in Seq(Pieces) : Truncated(q \o r, Len(q)) = q
      <4>1. 0 \in Nat
        OBVIOUS
      <4> QED
        BY <4>1, TextFacts
    <3>3. Truncated(before[c][i] \o items(c)[i].text, Len(before[c][i])) = before[c][i]
      BY <2>1, <3>2
    <3> QED
      BY <2>1, <3>1, <3>3
  <2>3. /\ file[d] # Missing /\ file'[d] # Missing
        /\ IsPrefix(w, file'[d]) => IsPrefix(w, file[d])
    <3>1. IsPrefix(w, before[c][i]) => IsPrefix(w, before[c][i] \o items(c)[i].text)
      BY <2>1, PrefixFacts
    <3> QED
      BY <2>1, <2>2, <3>1, NamesAssumption DEF d
  <2>4. Adds(c, i, w) <=> IsPrefix(w, file[d]) /\ ~IsPrefix(w, file'[d])
    BY <1>5, <1>11, <2>2 DEF Adds
  <2>5. /\ Adds(c, i, w) => Holders(w)' = Holders(w) \ {d} /\ d \in Holders(w)
        /\ ~Adds(c, i, w) => Holders(w)' = Holders(w)
    BY <1>1, <1>9, <1>11, <2>3, <2>4 DEF Holders
  <2> QED
    BY <1>1, <1>4, <1>6, <1>8, <2>5, OwedOneLess, OwedSame
<1>12. CASE undoKind(u) = "move"
  <2>1. /\ file'[s] = file[d] /\ file'[d] = Missing /\ file[s] = Missing /\ s # d
        /\ file[d] # Missing
    BY <1>0, <1>5, <1>12, UndoEffectFacts DEF s, d
  <2>2. Raised(w)' = Raised(w)
    BY <1>5, <1>6, <1>8, <1>12 DEF Adds
  <2>3. /\ d \in Holders(w) => Holders(w)' = (Holders(w) \ {d}) \cup {s} /\ s \notin Holders(w)
        /\ d \notin Holders(w) => Holders(w)' = Holders(w)
    BY <1>1, <1>9, <2>1 DEF Holders
  <2> QED
    BY <1>1, <1>4, <2>2, <2>3, OwedMoved, OwedSame
<1> QED
  BY <1>1, <1>5, <1>10, <1>11, <1>12, KindFacts

LEMMA LossStep ==
  ASSUME Inv, UndidInv, LossInv, [Next]_vars
  PROVE  LossInv'
<1> SUFFICES ASSUME Calm', NEW w \in Seq(Pieces)
             PROVE  ExistsInjection(Owed(w), Holders(w))'
  BY DEF LossInv
<1>0. Calm /\ TypeOK /\ WhereInv /\ OrderInv
  BY CalmStep DEF Inv
<1>1. ASSUME NEW c \in Calls, OwnCall(c), pc[c] = "act",
             changed' = [changed EXCEPT ![c] = @ \cup {item[c]}], file' = Effect(c),
             undid' = undid, kind(tool(c)) \in {"copy", "move"} => Present(c)
      PROVE  ExistsInjection(Owed(w), Holders(w))'
  <2>1. UNCHANGED <<request, before>>
    BY <1>1 DEF OwnCall, CallStep, Begin, Check, Act, Verify, NoteItem, PassOver, Commit,
       DuplicateSlot, CallLocked, Approve, Start, goto, calls
  <2> QED
    BY <1>0, <1>1, <2>1, LossOfAct
<1>2. ASSUME NEW u \in Undoers, UndoAct(u), undid' # undid
      PROVE  ExistsInjection(Owed(w), Holders(w))'
  <2>1. /\ pc[u] = "undoAct" /\ file' = UndoEffect(u) /\ changed' = changed
        /\ undid' = undid \cup {u} /\ undoOf' = undoOf
        /\ file[undoDestination(u)] # Missing
    BY <1>2 DEF UndoAct, undos, goto
  <2> QED
    BY <1>0, <2>1, LossOfUndo
<1>3. ASSUME file' = file, changed' = changed, undid' = undid
      PROVE  ExistsInjection(Owed(w), Holders(w))'
  <2>1. ASSUME NEW k \in Calls, NEW j \in Index
        PROVE  Counted(k, j, w)' <=> Counted(k, j, w)
    <3>1. CASE j \in changed[k]
      BY <1>3, <3>1, CountedStep
    <3>2. CASE j \notin changed[k]
      BY <1>3, <3>2 DEF Counted
    <3> QED
      BY <3>1, <3>2
  <2>2. Raised(w)' = Raised(w) /\ Holders(w)' = Holders(w)
    BY <1>3, <2>1 DEF Raised, Holders
  <2> QED
    BY <1>0, <2>2, OwedSame DEF LossInv
<1>4. ASSUME NEW c \in Calls, OwnCall(c) PROVE ExistsInjection(Owed(w), Holders(w))'
  <2>1. \/ file' = file /\ changed' = changed /\ undid' = undid
        \/ /\ pc[c] = "act" /\ file' = Effect(c) /\ undid' = undid
           /\ kind(tool(c)) \in {"copy", "move"} => Present(c)
           /\ changed' = [changed EXCEPT ![c] = @ \cup {item[c]}]
    BY <1>4 DEF OwnCall, CallStep, Begin, Check, Act, Verify, NoteItem, PassOver, Commit,
       DuplicateSlot, CallLocked, Approve, Start, history
  <2> QED
    BY <1>1, <1>3, <1>4, <2>1
<1>5. ASSUME NEW u \in Undoers, OwnUndo(u) PROVE ExistsInjection(Owed(w), Holders(w))'
  <2>1. \/ file' = file /\ changed' = changed /\ undid' = undid
        \/ UndoAct(u)
    BY <1>5 DEF OwnUndo, UndoStep, Undo, UndoFlush, UndoCheck, UndoVerify, UndoCommit, history
  <2>2. CASE UndoAct(u)
    <3>1. undid' = undid => file' = file
      BY <1>0, <2>2 DEF UndoAct, UndidInv, goto
    <3> QED
      BY <1>2, <1>3, <2>2, <3>1 DEF UndoAct, history
  <2> QED
    BY <1>3, <2>1, <2>2
<1>6. CASE OtherStep
  <2>1. changed' = changed /\ undid' = undid
    BY <1>0, <1>6, OtherFrame
  <2>2. file' = file
    <3>1. ASSUME NEW p \in Paths, NEW text \in Edited, Edit(p, text) PROVE FALSE
      BY <3>1, <1>0 DEF Edit, Calm
    <3> QED
      BY <1>6, <3>1 DEF OtherStep, Crash, vars
  <2> QED
    BY <1>3, <2>1, <2>2
<1> QED
  BY <1>4, <1>5, <1>6, NextSteps

LEMMA LossInit == Init => UndidInv /\ LossInv
<1> SUFFICES ASSUME Init, NEW w \in Seq(Pieces)
             PROVE  ExistsInjection(Owed(w), Holders(w))
  BY DEF LossInv, UndidInv, Init
<1>1. Raised(w) = {}
  BY DEF Init, Raised, Counted
<1>2. Holders(w) = Originals(w) /\ Owed(w) = {0} \X Originals(w)
  BY <1>1 DEF Init, Holders, Originals, Owed
<1> DEFINE h == [x \in Owed(w) |-> x[2]]
<1>3. h \in [Owed(w) -> Holders(w)] /\ \A x, y \in Owed(w) : h[x] = h[y] => x = y
  BY <1>2
<1>4. h \in Injection(Owed(w), Holders(w))
  <2> HIDE DEF h
  <2> QED
    BY <1>3, Fun_IsInj
<1> QED
  BY <1>4 DEF ExistsInjection

(* However many calls and undos are at work, for any files and any requests *)
(* with any number of items, in whatever order and however cut short: no    *)
(* text of the workspace is lost, unless another program changes a file,    *)
(* two steps race, or one record is undone twice.                          *)
THEOREM NoTextLost == Spec => []NoTextIsLost
<1>1. Inv /\ UndidInv /\ LossInv /\ [Next]_vars => Inv' /\ UndidInv' /\ LossInv'
  BY InvStep, UndidStep, LossStep
<1>2. Inv /\ LossInv => NoTextIsLost
  <2> SUFFICES ASSUME Inv, LossInv, Calm, NEW p \in Paths, Workspace[p] # Missing
               PROVE  \E x \in Places : file[x] # Missing /\ IsPrefix(Workspace[p], file[x])
    BY DEF NoTextIsLost, Calm
  <2> DEFINE w == Workspace[p]
  <2>1. w \in Seq(Pieces) /\ p \in Places
    BY BoundsAssumption DEF Text, Places
  <2>2. ExistsInjection(Owed(w), Holders(w))
    BY <2>1 DEF LossInv
  <2>3. PICK h \in Injection(Owed(w), Holders(w)) : TRUE
    BY <2>2 DEF ExistsInjection
  <2>4. <<0, p>> \in Owed(w)
    BY <2>1, PrefixFacts DEF Owed, Originals
  <2>5. h[<<0, p>>] \in Holders(w)
    BY <2>3, <2>4, Fun_InjectionProperties
  <2> QED
    BY <2>5 DEF Holders
<1> QED
  BY <1>1, <1>2, InitInv, LossInit, InvStep, PTL DEF Spec

(* And more than that: of texts that are there several times, in the        *)
(* workspace or made by the tools, each keeps a file of its own; copies of  *)
(* one text are never merged.                                              *)
THEOREM EveryTextHasItsFile == Spec => []LossInv
<1>1. Inv /\ UndidInv /\ LossInv /\ [Next]_vars => Inv' /\ UndidInv' /\ LossInv'
  BY InvStep, UndidStep, LossStep
<1> QED
  BY <1>1, InitInv, LossInit, PTL DEF Spec
====
