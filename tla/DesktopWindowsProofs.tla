------------------------ MODULE DesktopWindowsProofs ------------------------
(***************************************************************************)
(* DesktopWindows for every set of windows, layouts and requests, whatever  *)
(* the others do to the desktop and however often.                         *)
(*                                                                         *)
(* The invariant says what each place of the task knows: of the target from *)
(* the binding on, of the handle from _wrapper on, and of the control from  *)
(* the inspection on.  It says nothing of what the desktop shows at the     *)
(* time: that is what the properties look at when the task acts.            *)
(***************************************************************************)
EXTENDS DesktopWindows, TLAPS

Holding == {"act", "look", "descend", "locateControl", "use", "readBack", "locateState"}
Bound == Holding \cup {"locate", "recheck"}
Untouched == {"idle", "wait", "asleep", "decide", "bind", "locate", "descend", "act",
              "locateControl", "use"}

(* There is room for the listing of wait_for_window.                       *)
WaitInv == pc \in {"wait", "asleep"} => listings < MaxListings

(* The target has passed _target_from_args and its profile.                *)
BindInv ==
  pc \in Bound =>
    /\ target.fields = target.fingerprint
    /\ kind # "get" => profileAction(kind) \in PROFILES[target.fields.app]

(* _wrapper has found the handle that the target names.                    *)
FoundInv == pc \in Holding => handle = target.fields.handle

(* The control that was resolved fits the request and may be used.         *)
ControlInv == pc \in {"locateControl", "use"} => fits(resolved, wish) /\ usable(resolved)

(* What is to be put into a window.                                        *)
WantedInv ==
  /\ kind = "set" => wanted \in WINDOW_STATES
  /\ kind = "write" => wanted \in Texts

(* Which task is where, and which has done nothing yet.                     *)
KindInv ==
  /\ pc \in {"wait", "asleep"} => kind = "wait"
  /\ pc \in {"look", "locateState"} => kind \in {"get", "set"}
  /\ pc \in {"descend", "locateControl", "use"} => kind \in ControlTasks \cup {"inspect"}
  /\ pc \in {"act", "descend", "locateControl", "use"} => kind # "get"
  /\ pc = "readBack" => kind = "write"
  /\ pc = "recheck" => kind = "close"

DeedInv == pc \in Untouched => deed = None

Inv == TypeOK /\ WaitInv /\ BindInv /\ FoundInv /\ ControlInv /\ WantedInv /\ KindInv /\ DeedInv

(* The part of the types that names what the client has seen.              *)
TargetOK == target \in Targets

LEMMA TargetGrows ==
  ASSUME TypeOK, target' = target, shown \subseteq shown'
  PROVE  TargetOK'
BY DEF TypeOK, TargetOK, Targets

(* Whose steps they are.                                                   *)
ClientStep ==
  \/ List \/ Approve
  \/ \E app \in DOMAIN PROFILES : RequestWait(app)
  \/ \E k \in WindowTasks, t \in Targets : Request(k, t)
OthersStep ==
  \E w \in Windows :
    \/ UserOpens(w) \/ UserCloses(w)
    \/ \E s \in WINDOW_STATES : UserResizes(w, s)
    \/ \E x \in Texts : UserTypes(w, x)
    \/ \E l \in Layouts : Redraw(w, l)

LEMMA NextSteps == Next <=> ClientStep \/ TaskStep \/ OthersStep
BY DEF Next, ClientStep, OthersStep

-----------------------------------------------------------------------------
(* What single steps give.                                                 *)

(* A reading leaves the handle, and an application that may do no more.     *)
LEMMA ReadingFacts ==
  \A w, f : f \in readings(w) => f.handle = w.handle /\ f.app \in {w.app, "generic_readonly"}
BY DEF readings, fingerprint

LEMMA SightFacts ==
  \A sight \in sights : /\ DOMAIN sight \subseteq open
                        /\ \A w \in DOMAIN sight : sight[w] \in readings(w)
BY DEF sights

LEMMA ProfileFacts ==
  \A app \in DOMAIN PROFILES : PROFILES["generic_readonly"] \subseteq PROFILES[app]
BY DEF PROFILES

LEMMA DoneFacts == \A w, c : done(w, c).window = w /\ done(w, c).control = c
BY DEF done

LEMMA ResolveFacts == \A candidates, id : resolve(candidates, id) \subseteq candidates
BY DEF resolve

LEMMA AfterLocateFacts ==
  /\ afterLocate["locate"] \in {"descend", "look", "act"}
  /\ afterLocate["locate"] \in {"act", "descend"} => kind # "get"
  /\ afterLocate["locateControl"] = "use"
  /\ afterLocate["locateState"] = "look"
BY DEF afterLocate, ControlTasks

(* _wrapper finds the window whose fingerprint the target holds, or fails.  *)
LEMMA LocateFacts ==
  ASSUME TypeOK, BindInv, KindInv,
         NEW place \in {"locate", "locateControl", "locateState"}, Locate(place)
  PROVE  /\ pc = place
         /\ UNCHANGED <<desktop, client, request, resolved, artifact, deed>>
         /\ \/ pc' = "failed" /\ UNCHANGED handle
            \/ /\ pc' = afterLocate[place]
               /\ handle' = target.fields.handle
               /\ \E w \in open : w.handle = handle'
         /\ place = "locate" => pc' \in {"descend", "look", "act", "failed"}
         /\ place = "locateControl" => pc' \in {"use", "failed"}
         /\ place = "locateState" => pc' \in {"look", "failed"}
         /\ pc' \in {"act", "descend", "use"} => kind # "get"
<1>1. PICK sight, current :
        /\ sight \in sights
        /\ current = resolve(list_windows(target.fields.app, sight), target.session)
        /\ pc = place /\ UNCHANGED desktop
        /\ \/ \E error : Fail(error)
           \/ \E w \in current :
                IF sight[w] # target.fingerprint THEN Fail("WINDOW_TARGET_CHANGED")
                ELSE /\ goto(afterLocate[place])
                     /\ handle' = w.handle
                     /\ UNCHANGED <<resolved, artifact, deed>>
  BY DEF Locate
<1>2. current \subseteq DOMAIN sight
  BY <1>1, ResolveFacts DEF list_windows
<1>3. CASE \E error : Fail(error)
  BY <1>1, <1>3 DEF Fail, found
<1>4. ASSUME NEW w \in current,
             sight[w] = target.fingerprint,
             goto(afterLocate[place]),
             handle' = w.handle,
             UNCHANGED <<resolved, artifact, deed>>
      PROVE  /\ pc' = afterLocate[place]
             /\ handle' = target.fields.handle
             /\ \E v \in open : v.handle = handle'
             /\ UNCHANGED <<client, request>>
  <2>1. target.fields = target.fingerprint
    BY <1>1 DEF BindInv, Bound, Holding
  <2>2. w \in open /\ sight[w] \in readings(w)
    BY <1>1, <1>2, SightFacts
  <2>3. target.fields.handle = w.handle
    BY <1>4, <2>1, <2>2, ReadingFacts
  <2> QED
    BY <1>4, <2>2, <2>3 DEF goto
<1>5. CASE ~ \E error : Fail(error)
  <2>1. /\ pc' = afterLocate[place]
        /\ handle' = target.fields.handle
        /\ \E v \in open : v.handle = handle'
        /\ UNCHANGED <<client, request, resolved, artifact, deed>>
    BY <1>1, <1>4, <1>5
  <2>2. pc = "locateControl" => kind # "get"
    BY DEF KindInv
  <2> QED
    BY <1>1, <2>1, <2>2, AfterLocateFacts
<1> QED
  BY <1>3, <1>5

(* inspect_controls and ControlResolver.resolve.                           *)
LEMMA DescendFacts ==
  ASSUME TypeOK, NEW w \in Windows, Descend(w)
  PROVE  /\ pc = "descend"
         /\ UNCHANGED <<desktop, client, request, handle, artifact, deed>>
         /\ \/ pc' \in {"completed", "failed"} /\ UNCHANGED resolved
            \/ /\ pc' = "locateControl" /\ kind # "inspect"
               /\ fits(resolved', wish) /\ usable(resolved')
<1>1. pc = "descend" /\ UNCHANGED desktop
  BY DEF Descend
<1>2. CASE kind = "inspect"
  BY <1>1, <1>2 DEF Descend, Complete, found
<1>3. CASE kind # "inspect" /\ Fail("CONTROL_REJECTED")
  BY <1>1, <1>3 DEF Fail, found
<1>4. CASE kind # "inspect" /\ ~Fail("CONTROL_REJECTED")
  <2>1. PICK i \in matches(w) :
          /\ usable(layout[w][i])
          /\ goto("locateControl")
          /\ resolved' = layout[w][i]
          /\ UNCHANGED <<handle, artifact, deed>>
    BY <1>4 DEF Descend
  <2>2. fits(layout[w][i], wish)
    BY DEF matches
  <2> QED
    BY <1>1, <1>4, <2>1, <2>2 DEF goto
<1> QED
  BY <1>2, <1>3, <1>4

(* A control looked up by what was resolved fits what was asked for.        *)
LEMMA FitsThrough ==
  \A c, d, w : fits(c, d) /\ fits(d, w) => fits(c, w)
BY DEF fits

-----------------------------------------------------------------------------
(* The target.                                                             *)

LEMMA TargetClient ==
  ASSUME TypeOK, ClientStep
  PROVE  TargetOK'
<1> USE TargetGrows DEF desktop, client, request, found, goto, Fail, Complete, happens
<1>1. CASE List
  BY <1>1 DEF List
<1>2. CASE Approve
  BY <1>2 DEF Approve
<1>3. ASSUME NEW app \in DOMAIN PROFILES, RequestWait(app)
      PROVE  TargetOK'
  BY <1>3 DEF RequestWait
<1>4. ASSUME NEW k \in WindowTasks, NEW t \in Targets, Request(k, t)
      PROVE  TargetOK'
  BY <1>4 DEF Request, TargetOK, Targets
<1> QED
  BY <1>1, <1>2, <1>3, <1>4 DEF ClientStep

LEMMA TargetTask ==
  ASSUME TypeOK, TaskStep
  PROVE  TargetOK'
<1> USE TargetGrows DEF desktop, client, request, found, goto, Fail, Complete, happens
<1>1. CASE Poll
  BY <1>1 DEF Poll
<1>2. CASE WaitTimesOut
  BY <1>2 DEF WaitTimesOut
<1>3. CASE Bind
  BY <1>3 DEF Bind
<1>4. ASSUME NEW place \in {"locate", "locateControl", "locateState"}, Locate(place)
      PROVE  TargetOK'
  BY <1>4 DEF Locate
<1>5. CASE CallRaises
  BY <1>5 DEF CallRaises
<1>6. CASE Recheck
  BY <1>6 DEF Recheck
<1>7. ASSUME NEW w \in Windows, Act(w)
      PROVE  TargetOK'
  BY <1>7 DEF Act
<1>8. ASSUME NEW w \in Windows, Close(w)
      PROVE  TargetOK'
  BY <1>8 DEF Close
<1>9. ASSUME NEW w \in Windows, Look(w)
      PROVE  TargetOK'
  BY <1>9 DEF Look
<1>10. ASSUME NEW w \in Windows, Descend(w)
      PROVE  TargetOK'
  BY <1>10 DEF Descend
<1>11. ASSUME NEW w \in Windows, NEW size \in 0 .. MAX_CAPTURE_BYTES + 1, Capture(w, size)
      PROVE  TargetOK'
  BY <1>11 DEF Capture
<1>12. ASSUME NEW w \in Windows, NEW i \in DOMAIN layout[w], Use(w, i)
      PROVE  TargetOK'
  BY <1>12 DEF Use
<1>13. ASSUME NEW w \in Windows, NEW i \in DOMAIN layout[w], ReadBack(w, i)
      PROVE  TargetOK'
  BY <1>13 DEF ReadBack
<1> QED
  BY <1>1, <1>2, <1>3, <1>4, <1>5, <1>6, <1>7, <1>8, <1>9, <1>10, <1>11, <1>12, <1>13 DEF TaskStep

LEMMA TargetOthers ==
  ASSUME TypeOK, OthersStep
  PROVE  TargetOK'
<1> USE TargetGrows DEF desktop, client, request, found, goto, Fail, Complete, happens
<1>1. ASSUME NEW w \in Windows, UserOpens(w)
      PROVE  TargetOK'
  BY <1>1 DEF UserOpens
<1>2. ASSUME NEW w \in Windows, UserCloses(w)
      PROVE  TargetOK'
  BY <1>2 DEF UserCloses
<1>3. ASSUME NEW w \in Windows, NEW s \in WINDOW_STATES, UserResizes(w, s)
      PROVE  TargetOK'
  BY <1>3 DEF UserResizes
<1>4. ASSUME NEW w \in Windows, NEW x \in Texts, UserTypes(w, x)
      PROVE  TargetOK'
  BY <1>4 DEF UserTypes
<1>5. ASSUME NEW w \in Windows, NEW l \in Layouts, Redraw(w, l)
      PROVE  TargetOK'
  BY <1>5 DEF Redraw
<1> QED
  BY <1>1, <1>2, <1>3, <1>4, <1>5 DEF OthersStep

LEMMA TargetStutter ==
  ASSUME TypeOK, UNCHANGED vars
  PROVE  TargetOK'
BY TargetGrows DEF vars, desktop, client, request, found, goto, Fail, Complete, happens

-----------------------------------------------------------------------------
(* Types.                                                                  *)

LEMMA TypeClient ==
  ASSUME Inv, ClientStep
  PROVE  TypeOK'
<1> USE BoundsAssumption DEF Inv, TargetOK, TypeOK, Places, desktop, client, request, found, goto, Fail, Complete, happens
<1>0. TargetOK'
  BY TargetClient
<1>1. CASE List
  <2>1. PICK sight \in sights :
          shown' = shown \cup {observation(sight[w], w, listings + 1) : w \in DOMAIN sight}
    BY <1>1 DEF List
  <2>2. /\ listings + 1 \in 1..MaxListings /\ listings' = listings + 1
        /\ UNCHANGED <<desktop, pc, request, found, deed, code>>
    BY <1>1 DEF List
  <2>3. \A w \in DOMAIN sight : w \in Windows /\ sight[w] \in readings(w)
    BY SightFacts
  <2>4. \A s \in shown' : \E v \in Windows, n \in 1..MaxListings :
          \E fields \in readings(v) : s = observation(fields, v, n)
    BY <2>1, <2>2, <2>3
  <2> QED
    BY <1>0, <2>2, <2>4
<1>2. CASE Approve
  BY <1>2, <1>0 DEF Approve
<1>3. ASSUME NEW app \in DOMAIN PROFILES, RequestWait(app)
      PROVE  TypeOK'
  BY <1>3, <1>0 DEF RequestWait
<1>4. ASSUME NEW k \in WindowTasks, NEW t \in Targets, Request(k, t)
      PROVE  TypeOK'
  BY <1>4, <1>0 DEF Request, WindowTasks, ApprovalTasks, ControlTasks, WINDOW_STATES
<1> QED
  BY <1>1, <1>2, <1>3, <1>4 DEF ClientStep

LEMMA TypeTask ==
  ASSUME Inv, TaskStep
  PROVE  TypeOK'
<1> USE BoundsAssumption DEF Inv, TargetOK, TypeOK, Places, desktop, client, request, found, goto, Fail, Complete, happens
<1>0. TargetOK'
  BY TargetTask
<1>1. CASE Poll
  <2>1. CASE UNCHANGED client
    BY <1>0, <1>1, <2>1 DEF Poll
  <2>2. CASE ~UNCHANGED client
    <3>1. PICK sight, w :
            /\ sight \in sights /\ w \in DOMAIN sight
            /\ shown' = shown \cup {observation(sight[w], w, listings + 1)}
            /\ listings' = listings + 1 /\ pc' = "completed"
            /\ UNCHANGED <<desktop, request, found, deed, code>>
      BY <1>1, <2>2 DEF Poll, list_windows
    <3>2. w \in Windows /\ sight[w] \in readings(w)
      BY <3>1, SightFacts
    <3>3. listings + 1 \in 1..MaxListings
      BY <1>1 DEF Poll, WaitInv
    <3>4. \A s \in shown' : \E v \in Windows, n \in 1..MaxListings :
            \E fields \in readings(v) : s = observation(fields, v, n)
      BY <3>1, <3>2, <3>3
    <3> QED
      BY <1>0, <3>1, <3>3, <3>4
  <2> QED
    BY <2>1, <2>2
<1>2. CASE WaitTimesOut
  BY <1>2, <1>0 DEF WaitTimesOut
<1>3. CASE Bind
  BY <1>3, <1>0 DEF Bind
<1>4. ASSUME NEW place \in {"locate", "locateControl", "locateState"}, Locate(place)
      PROVE  TypeOK'
  <2>1. UNCHANGED <<desktop, client, request, resolved, artifact, deed>>
    BY <1>4, <1>0, LocateFacts
  <2>2. pc' \in {"descend", "look", "act", "use", "failed"}
    BY <1>4, <1>0, LocateFacts
  <2>3. handle' \in {w.handle : w \in Windows} \cup {None}
    BY <1>4, <1>0, LocateFacts
  <2> QED
    BY <1>0, <2>1, <2>2, <2>3
<1>5. CASE CallRaises
  BY <1>5, <1>0 DEF CallRaises
<1>6. CASE Recheck
  BY <1>6, <1>0 DEF Recheck
<1>7. ASSUME NEW w \in Windows, Act(w)
      PROVE  TypeOK'
  <2>1. UNCHANGED <<open, text, layout, events, client, request, found>>
    BY <1>7, <1>0 DEF Act
  <2>2. pc' \in Places /\ deed' = done(w, None)
    BY <1>7, <1>0 DEF Act
  <2>3. state' \in [Windows -> WINDOW_STATES]
    <3>1. kind = "set" => wanted \in WINDOW_STATES
      BY DEF WantedInv
    <3> QED
      BY <1>7, <1>0, <3>1 DEF Act
  <2>4. deed'.window \in Windows
    BY <2>2 DEF done
  <2> QED
    BY <1>0, <2>1, <2>2, <2>3, <2>4
<1>8. ASSUME NEW w \in Windows, Close(w)
      PROVE  TypeOK'
  <2>1. UNCHANGED <<state, text, layout, events, client, request, found>>
    BY <1>8, <1>0 DEF Close
  <2>2. pc' \in Places /\ deed' = done(w, None) /\ open' \in SUBSET open
    BY <1>8, <1>0 DEF Close
  <2>3. deed'.window \in Windows
    BY <2>2 DEF done
  <2> QED
    BY <1>0, <2>1, <2>2, <2>3
<1>9. ASSUME NEW w \in Windows, Look(w)
      PROVE  TypeOK'
  BY <1>9, <1>0 DEF Look
<1>10. ASSUME NEW w \in Windows, Descend(w)
      PROVE  TypeOK'
  <2>1. UNCHANGED <<desktop, client, request, handle, artifact, deed>>
    BY <1>10, <1>0, DescendFacts
  <2>2. pc' \in {"locateControl", "completed", "failed"}
    BY <1>10, <1>0, DescendFacts
  <2> QED
    BY <1>0, <2>1, <2>2
<1>11. ASSUME NEW w \in Windows, NEW size \in 0 .. MAX_CAPTURE_BYTES + 1, Capture(w, size)
      PROVE  TypeOK'
  <2>1. UNCHANGED <<desktop, client, request, handle>>
    BY <1>11, <1>0 DEF Capture
  <2>2. pc' \in Places /\ deed' = done(w, None)
    BY <1>11, <1>0 DEF Capture
  <2>3. artifact' \in 0..MAX_CAPTURE_BYTES \cup {None}
    BY <1>11, <1>0 DEF Capture
  <2>4. deed'.window \in Windows
    BY <2>2 DEF done
  <2> QED
    BY <1>0, <2>1, <2>2, <2>3, <2>4
<1>12. ASSUME NEW w \in Windows, NEW i \in DOMAIN layout[w], Use(w, i)
      PROVE  TypeOK'
  <2>1. UNCHANGED <<open, state, layout, events, client, request, found>>
    BY <1>12, <1>0 DEF Use
  <2>2. pc' \in Places /\ deed' = done(w, layout[w][i])
    BY <1>12, <1>0 DEF Use
  <2>3. text' \in [Windows -> Texts]
    BY <1>12, <1>0 DEF Use, WantedInv
  <2>4. deed'.window \in Windows
    BY <2>2 DEF done
  <2> QED
    BY <1>0, <2>1, <2>2, <2>3, <2>4
<1>13. ASSUME NEW w \in Windows, NEW i \in DOMAIN layout[w], ReadBack(w, i)
      PROVE  TypeOK'
  BY <1>13, <1>0 DEF ReadBack
<1> QED
  BY <1>1, <1>2, <1>3, <1>4, <1>5, <1>6, <1>7, <1>8, <1>9, <1>10, <1>11, <1>12, <1>13 DEF TaskStep

LEMMA TypeOthers ==
  ASSUME Inv, OthersStep
  PROVE  TypeOK'
<1> USE BoundsAssumption DEF Inv, TargetOK, TypeOK, Places, desktop, client, request, found, goto, Fail, Complete, happens
<1>0. TargetOK'
  BY TargetOthers
<1>1. ASSUME NEW w \in Windows, UserOpens(w)
      PROVE  TypeOK'
  BY <1>1, <1>0 DEF UserOpens
<1>2. ASSUME NEW w \in Windows, UserCloses(w)
      PROVE  TypeOK'
  BY <1>2, <1>0 DEF UserCloses
<1>3. ASSUME NEW w \in Windows, NEW s \in WINDOW_STATES, UserResizes(w, s)
      PROVE  TypeOK'
  BY <1>3, <1>0 DEF UserResizes
<1>4. ASSUME NEW w \in Windows, NEW x \in Texts, UserTypes(w, x)
      PROVE  TypeOK'
  BY <1>4, <1>0 DEF UserTypes
<1>5. ASSUME NEW w \in Windows, NEW l \in Layouts, Redraw(w, l)
      PROVE  TypeOK'
  BY <1>5, <1>0 DEF Redraw
<1> QED
  BY <1>1, <1>2, <1>3, <1>4, <1>5 DEF OthersStep

LEMMA TypeStutter ==
  ASSUME Inv, UNCHANGED vars
  PROVE  TypeOK'
BY TargetStutter DEF vars, Inv, TargetOK, TypeOK, Places, desktop, client, request, found, goto, Fail, Complete, happens

-----------------------------------------------------------------------------
(* What is wanted.                                                         *)

LEMMA WantedClient ==
  ASSUME Inv, ClientStep
  PROVE  WantedInv'
<1> USE DEF Inv, TypeOK, WantedInv, desktop, client, request, found, goto, Fail, Complete, happens
<1>1. CASE List
  BY <1>1 DEF List
<1>2. CASE Approve
  BY <1>2 DEF Approve
<1>3. ASSUME NEW app \in DOMAIN PROFILES, RequestWait(app)
      PROVE  WantedInv'
  BY <1>3 DEF RequestWait
<1>4. ASSUME NEW k \in WindowTasks, NEW t \in Targets, Request(k, t)
      PROVE  WantedInv'
  BY <1>4 DEF Request
<1> QED
  BY <1>1, <1>2, <1>3, <1>4 DEF ClientStep

LEMMA WantedTask ==
  ASSUME Inv, TaskStep
  PROVE  WantedInv'
<1> USE DEF Inv, TypeOK, WantedInv, desktop, client, request, found, goto, Fail, Complete, happens
<1>1. CASE Poll
  BY <1>1 DEF Poll
<1>2. CASE WaitTimesOut
  BY <1>2 DEF WaitTimesOut
<1>3. CASE Bind
  BY <1>3 DEF Bind
<1>4. ASSUME NEW place \in {"locate", "locateControl", "locateState"}, Locate(place)
      PROVE  WantedInv'
  BY <1>4 DEF Locate
<1>5. CASE CallRaises
  BY <1>5 DEF CallRaises
<1>6. CASE Recheck
  BY <1>6 DEF Recheck
<1>7. ASSUME NEW w \in Windows, Act(w)
      PROVE  WantedInv'
  BY <1>7 DEF Act
<1>8. ASSUME NEW w \in Windows, Close(w)
      PROVE  WantedInv'
  BY <1>8 DEF Close
<1>9. ASSUME NEW w \in Windows, Look(w)
      PROVE  WantedInv'
  BY <1>9 DEF Look
<1>10. ASSUME NEW w \in Windows, Descend(w)
      PROVE  WantedInv'
  BY <1>10 DEF Descend
<1>11. ASSUME NEW w \in Windows, NEW size \in 0 .. MAX_CAPTURE_BYTES + 1, Capture(w, size)
      PROVE  WantedInv'
  BY <1>11 DEF Capture
<1>12. ASSUME NEW w \in Windows, NEW i \in DOMAIN layout[w], Use(w, i)
      PROVE  WantedInv'
  BY <1>12 DEF Use
<1>13. ASSUME NEW w \in Windows, NEW i \in DOMAIN layout[w], ReadBack(w, i)
      PROVE  WantedInv'
  BY <1>13 DEF ReadBack
<1> QED
  BY <1>1, <1>2, <1>3, <1>4, <1>5, <1>6, <1>7, <1>8, <1>9, <1>10, <1>11, <1>12, <1>13 DEF TaskStep

LEMMA WantedOthers ==
  ASSUME Inv, OthersStep
  PROVE  WantedInv'
<1> USE DEF Inv, TypeOK, WantedInv, desktop, client, request, found, goto, Fail, Complete, happens
<1>1. ASSUME NEW w \in Windows, UserOpens(w)
      PROVE  WantedInv'
  BY <1>1 DEF UserOpens
<1>2. ASSUME NEW w \in Windows, UserCloses(w)
      PROVE  WantedInv'
  BY <1>2 DEF UserCloses
<1>3. ASSUME NEW w \in Windows, NEW s \in WINDOW_STATES, UserResizes(w, s)
      PROVE  WantedInv'
  BY <1>3 DEF UserResizes
<1>4. ASSUME NEW w \in Windows, NEW x \in Texts, UserTypes(w, x)
      PROVE  WantedInv'
  BY <1>4 DEF UserTypes
<1>5. ASSUME NEW w \in Windows, NEW l \in Layouts, Redraw(w, l)
      PROVE  WantedInv'
  BY <1>5 DEF Redraw
<1> QED
  BY <1>1, <1>2, <1>3, <1>4, <1>5 DEF OthersStep

LEMMA WantedStutter ==
  ASSUME Inv, UNCHANGED vars
  PROVE  WantedInv'
BY DEF vars, Inv, TypeOK, WantedInv, desktop, client, request, found, goto, Fail, Complete, happens

-----------------------------------------------------------------------------
(* Waiting.                                                                *)

LEMMA WaitClient ==
  ASSUME Inv, ClientStep
  PROVE  WaitInv'
<1> USE DEF Inv, WaitInv, TypeOK, desktop, client, request, found, goto, Fail, Complete, happens
<1>1. CASE List
  BY <1>1 DEF List
<1>2. CASE Approve
  BY <1>2 DEF Approve
<1>3. ASSUME NEW app \in DOMAIN PROFILES, RequestWait(app)
      PROVE  WaitInv'
  BY <1>3 DEF RequestWait
<1>4. ASSUME NEW k \in WindowTasks, NEW t \in Targets, Request(k, t)
      PROVE  WaitInv'
  BY <1>4 DEF Request
<1> QED
  BY <1>1, <1>2, <1>3, <1>4 DEF ClientStep

LEMMA WaitTask ==
  ASSUME Inv, TaskStep
  PROVE  WaitInv'
<1> USE DEF Inv, WaitInv, TypeOK, desktop, client, request, found, goto, Fail, Complete, happens
<1>1. CASE Poll
  BY <1>1 DEF Poll
<1>2. CASE WaitTimesOut
  BY <1>2 DEF WaitTimesOut
<1>3. CASE Bind
  BY <1>3 DEF Bind
<1>4. ASSUME NEW place \in {"locate", "locateControl", "locateState"}, Locate(place)
      PROVE  WaitInv'
  BY <1>4 DEF Locate, afterLocate
<1>5. CASE CallRaises
  BY <1>5 DEF CallRaises
<1>6. CASE Recheck
  BY <1>6 DEF Recheck
<1>7. ASSUME NEW w \in Windows, Act(w)
      PROVE  WaitInv'
  BY <1>7 DEF Act
<1>8. ASSUME NEW w \in Windows, Close(w)
      PROVE  WaitInv'
  BY <1>8 DEF Close
<1>9. ASSUME NEW w \in Windows, Look(w)
      PROVE  WaitInv'
  BY <1>9 DEF Look
<1>10. ASSUME NEW w \in Windows, Descend(w)
      PROVE  WaitInv'
  BY <1>10 DEF Descend
<1>11. ASSUME NEW w \in Windows, NEW size \in 0 .. MAX_CAPTURE_BYTES + 1, Capture(w, size)
      PROVE  WaitInv'
  BY <1>11 DEF Capture
<1>12. ASSUME NEW w \in Windows, NEW i \in DOMAIN layout[w], Use(w, i)
      PROVE  WaitInv'
  BY <1>12 DEF Use
<1>13. ASSUME NEW w \in Windows, NEW i \in DOMAIN layout[w], ReadBack(w, i)
      PROVE  WaitInv'
  BY <1>13 DEF ReadBack
<1> QED
  BY <1>1, <1>2, <1>3, <1>4, <1>5, <1>6, <1>7, <1>8, <1>9, <1>10, <1>11, <1>12, <1>13 DEF TaskStep

LEMMA WaitOthers ==
  ASSUME Inv, OthersStep
  PROVE  WaitInv'
<1> USE DEF Inv, WaitInv, TypeOK, desktop, client, request, found, goto, Fail, Complete, happens
<1>1. ASSUME NEW w \in Windows, UserOpens(w)
      PROVE  WaitInv'
  BY <1>1 DEF UserOpens
<1>2. ASSUME NEW w \in Windows, UserCloses(w)
      PROVE  WaitInv'
  BY <1>2 DEF UserCloses
<1>3. ASSUME NEW w \in Windows, NEW s \in WINDOW_STATES, UserResizes(w, s)
      PROVE  WaitInv'
  BY <1>3 DEF UserResizes
<1>4. ASSUME NEW w \in Windows, NEW x \in Texts, UserTypes(w, x)
      PROVE  WaitInv'
  BY <1>4 DEF UserTypes
<1>5. ASSUME NEW w \in Windows, NEW l \in Layouts, Redraw(w, l)
      PROVE  WaitInv'
  BY <1>5 DEF Redraw
<1> QED
  BY <1>1, <1>2, <1>3, <1>4, <1>5 DEF OthersStep

LEMMA WaitStutter ==
  ASSUME Inv, UNCHANGED vars
  PROVE  WaitInv'
BY DEF vars, Inv, WaitInv, TypeOK, desktop, client, request, found, goto, Fail, Complete, happens

-----------------------------------------------------------------------------
(* The binding.                                                            *)

LEMMA BindClient ==
  ASSUME Inv, ClientStep
  PROVE  BindInv'
<1> USE DEF Inv, TypeOK, BindInv, Bound, Holding, desktop, client, request, found, goto, Fail, Complete, happens
<1>1. CASE List
  BY <1>1 DEF List
<1>2. CASE Approve
  BY <1>2 DEF Approve
<1>3. ASSUME NEW app \in DOMAIN PROFILES, RequestWait(app)
      PROVE  BindInv'
  BY <1>3 DEF RequestWait
<1>4. ASSUME NEW k \in WindowTasks, NEW t \in Targets, Request(k, t)
      PROVE  BindInv'
  BY <1>4 DEF Request
<1> QED
  BY <1>1, <1>2, <1>3, <1>4 DEF ClientStep

LEMMA BindTask ==
  ASSUME Inv, TaskStep
  PROVE  BindInv'
<1> USE DEF Inv, TypeOK, BindInv, Bound, Holding, desktop, client, request, found, goto, Fail, Complete, happens
<1>1. CASE Poll
  BY <1>1 DEF Poll
<1>2. CASE WaitTimesOut
  BY <1>2 DEF WaitTimesOut
<1>3. CASE Bind
  BY <1>3 DEF Bind
<1>4. ASSUME NEW place \in {"locate", "locateControl", "locateState"}, Locate(place)
      PROVE  BindInv'
  BY <1>4 DEF Locate, afterLocate
<1>5. CASE CallRaises
  BY <1>5 DEF CallRaises
<1>6. CASE Recheck
  BY <1>6 DEF Recheck
<1>7. ASSUME NEW w \in Windows, Act(w)
      PROVE  BindInv'
  BY <1>7 DEF Act
<1>8. ASSUME NEW w \in Windows, Close(w)
      PROVE  BindInv'
  BY <1>8 DEF Close
<1>9. ASSUME NEW w \in Windows, Look(w)
      PROVE  BindInv'
  BY <1>9 DEF Look
<1>10. ASSUME NEW w \in Windows, Descend(w)
      PROVE  BindInv'
  BY <1>10 DEF Descend
<1>11. ASSUME NEW w \in Windows, NEW size \in 0 .. MAX_CAPTURE_BYTES + 1, Capture(w, size)
      PROVE  BindInv'
  BY <1>11 DEF Capture
<1>12. ASSUME NEW w \in Windows, NEW i \in DOMAIN layout[w], Use(w, i)
      PROVE  BindInv'
  BY <1>12 DEF Use
<1>13. ASSUME NEW w \in Windows, NEW i \in DOMAIN layout[w], ReadBack(w, i)
      PROVE  BindInv'
  BY <1>13 DEF ReadBack
<1> QED
  BY <1>1, <1>2, <1>3, <1>4, <1>5, <1>6, <1>7, <1>8, <1>9, <1>10, <1>11, <1>12, <1>13 DEF TaskStep

LEMMA BindOthers ==
  ASSUME Inv, OthersStep
  PROVE  BindInv'
<1> USE DEF Inv, TypeOK, BindInv, Bound, Holding, desktop, client, request, found, goto, Fail, Complete, happens
<1>1. ASSUME NEW w \in Windows, UserOpens(w)
      PROVE  BindInv'
  BY <1>1 DEF UserOpens
<1>2. ASSUME NEW w \in Windows, UserCloses(w)
      PROVE  BindInv'
  BY <1>2 DEF UserCloses
<1>3. ASSUME NEW w \in Windows, NEW s \in WINDOW_STATES, UserResizes(w, s)
      PROVE  BindInv'
  BY <1>3 DEF UserResizes
<1>4. ASSUME NEW w \in Windows, NEW x \in Texts, UserTypes(w, x)
      PROVE  BindInv'
  BY <1>4 DEF UserTypes
<1>5. ASSUME NEW w \in Windows, NEW l \in Layouts, Redraw(w, l)
      PROVE  BindInv'
  BY <1>5 DEF Redraw
<1> QED
  BY <1>1, <1>2, <1>3, <1>4, <1>5 DEF OthersStep

LEMMA BindStutter ==
  ASSUME Inv, UNCHANGED vars
  PROVE  BindInv'
BY DEF vars, Inv, TypeOK, BindInv, Bound, Holding, desktop, client, request, found, goto, Fail, Complete, happens

-----------------------------------------------------------------------------
(* The window.                                                             *)

LEMMA FoundClient ==
  ASSUME Inv, ClientStep
  PROVE  FoundInv'
<1> USE DEF Inv, TypeOK, BindInv, FoundInv, Bound, Holding, desktop, client, request, found, goto, Fail, Complete, happens
<1>1. CASE List
  BY <1>1 DEF List
<1>2. CASE Approve
  BY <1>2 DEF Approve
<1>3. ASSUME NEW app \in DOMAIN PROFILES, RequestWait(app)
      PROVE  FoundInv'
  BY <1>3 DEF RequestWait
<1>4. ASSUME NEW k \in WindowTasks, NEW t \in Targets, Request(k, t)
      PROVE  FoundInv'
  BY <1>4 DEF Request
<1> QED
  BY <1>1, <1>2, <1>3, <1>4 DEF ClientStep

LEMMA FoundTask ==
  ASSUME Inv, TaskStep
  PROVE  FoundInv'
<1> USE DEF Inv, TypeOK, BindInv, FoundInv, Bound, Holding, desktop, client, request, found, goto, Fail, Complete, happens
<1>1. CASE Poll
  BY <1>1 DEF Poll
<1>2. CASE WaitTimesOut
  BY <1>2 DEF WaitTimesOut
<1>3. CASE Bind
  BY <1>3 DEF Bind
<1>4. ASSUME NEW place \in {"locate", "locateControl", "locateState"}, Locate(place)
      PROVE  FoundInv'
  BY <1>4, LocateFacts
<1>5. CASE CallRaises
  BY <1>5 DEF CallRaises
<1>6. CASE Recheck
  BY <1>6 DEF Recheck
<1>7. ASSUME NEW w \in Windows, Act(w)
      PROVE  FoundInv'
  BY <1>7 DEF Act
<1>8. ASSUME NEW w \in Windows, Close(w)
      PROVE  FoundInv'
  BY <1>8 DEF Close
<1>9. ASSUME NEW w \in Windows, Look(w)
      PROVE  FoundInv'
  BY <1>9 DEF Look
<1>10. ASSUME NEW w \in Windows, Descend(w)
      PROVE  FoundInv'
  BY <1>10 DEF Descend
<1>11. ASSUME NEW w \in Windows, NEW size \in 0 .. MAX_CAPTURE_BYTES + 1, Capture(w, size)
      PROVE  FoundInv'
  BY <1>11 DEF Capture
<1>12. ASSUME NEW w \in Windows, NEW i \in DOMAIN layout[w], Use(w, i)
      PROVE  FoundInv'
  BY <1>12 DEF Use
<1>13. ASSUME NEW w \in Windows, NEW i \in DOMAIN layout[w], ReadBack(w, i)
      PROVE  FoundInv'
  BY <1>13 DEF ReadBack
<1> QED
  BY <1>1, <1>2, <1>3, <1>4, <1>5, <1>6, <1>7, <1>8, <1>9, <1>10, <1>11, <1>12, <1>13 DEF TaskStep

LEMMA FoundOthers ==
  ASSUME Inv, OthersStep
  PROVE  FoundInv'
<1> USE DEF Inv, TypeOK, BindInv, FoundInv, Bound, Holding, desktop, client, request, found, goto, Fail, Complete, happens
<1>1. ASSUME NEW w \in Windows, UserOpens(w)
      PROVE  FoundInv'
  BY <1>1 DEF UserOpens
<1>2. ASSUME NEW w \in Windows, UserCloses(w)
      PROVE  FoundInv'
  BY <1>2 DEF UserCloses
<1>3. ASSUME NEW w \in Windows, NEW s \in WINDOW_STATES, UserResizes(w, s)
      PROVE  FoundInv'
  BY <1>3 DEF UserResizes
<1>4. ASSUME NEW w \in Windows, NEW x \in Texts, UserTypes(w, x)
      PROVE  FoundInv'
  BY <1>4 DEF UserTypes
<1>5. ASSUME NEW w \in Windows, NEW l \in Layouts, Redraw(w, l)
      PROVE  FoundInv'
  BY <1>5 DEF Redraw
<1> QED
  BY <1>1, <1>2, <1>3, <1>4, <1>5 DEF OthersStep

LEMMA FoundStutter ==
  ASSUME Inv, UNCHANGED vars
  PROVE  FoundInv'
BY DEF vars, Inv, TypeOK, BindInv, FoundInv, Bound, Holding, desktop, client, request, found, goto, Fail, Complete, happens

-----------------------------------------------------------------------------
(* The control.                                                            *)

LEMMA ControlClient ==
  ASSUME Inv, ClientStep
  PROVE  ControlInv'
<1> USE DEF Inv, TypeOK, ControlInv, usable, desktop, client, request, found, goto, Fail, Complete, happens
<1>1. CASE List
  BY <1>1 DEF List
<1>2. CASE Approve
  BY <1>2 DEF Approve
<1>3. ASSUME NEW app \in DOMAIN PROFILES, RequestWait(app)
      PROVE  ControlInv'
  BY <1>3 DEF RequestWait
<1>4. ASSUME NEW k \in WindowTasks, NEW t \in Targets, Request(k, t)
      PROVE  ControlInv'
  BY <1>4 DEF Request
<1> QED
  BY <1>1, <1>2, <1>3, <1>4 DEF ClientStep

LEMMA ControlTask ==
  ASSUME Inv, TaskStep
  PROVE  ControlInv'
<1> USE DEF Inv, TypeOK, ControlInv, usable, desktop, client, request, found, goto, Fail, Complete, happens
<1>1. CASE Poll
  BY <1>1 DEF Poll
<1>2. CASE WaitTimesOut
  BY <1>2 DEF WaitTimesOut
<1>3. CASE Bind
  BY <1>3 DEF Bind
<1>4. ASSUME NEW place \in {"locate", "locateControl", "locateState"}, Locate(place)
      PROVE  ControlInv'
  <2>1. pc' \in {"locateControl", "use"} => pc = "locateControl"
    BY <1>4, LocateFacts
  <2> QED
    BY <1>4, <2>1, LocateFacts
<1>5. CASE CallRaises
  BY <1>5 DEF CallRaises
<1>6. CASE Recheck
  BY <1>6 DEF Recheck
<1>7. ASSUME NEW w \in Windows, Act(w)
      PROVE  ControlInv'
  BY <1>7 DEF Act
<1>8. ASSUME NEW w \in Windows, Close(w)
      PROVE  ControlInv'
  BY <1>8 DEF Close
<1>9. ASSUME NEW w \in Windows, Look(w)
      PROVE  ControlInv'
  BY <1>9 DEF Look
<1>10. ASSUME NEW w \in Windows, Descend(w)
      PROVE  ControlInv'
  <2>1. CASE pc' = "locateControl"
    BY <1>10, <2>1, DescendFacts
  <2>2. CASE pc' # "locateControl"
    BY <1>10, <2>2, DescendFacts
  <2> QED
    BY <2>1, <2>2
<1>11. ASSUME NEW w \in Windows, NEW size \in 0 .. MAX_CAPTURE_BYTES + 1, Capture(w, size)
      PROVE  ControlInv'
  BY <1>11 DEF Capture
<1>12. ASSUME NEW w \in Windows, NEW i \in DOMAIN layout[w], Use(w, i)
      PROVE  ControlInv'
  BY <1>12 DEF Use
<1>13. ASSUME NEW w \in Windows, NEW i \in DOMAIN layout[w], ReadBack(w, i)
      PROVE  ControlInv'
  BY <1>13 DEF ReadBack
<1> QED
  BY <1>1, <1>2, <1>3, <1>4, <1>5, <1>6, <1>7, <1>8, <1>9, <1>10, <1>11, <1>12, <1>13 DEF TaskStep

LEMMA ControlOthers ==
  ASSUME Inv, OthersStep
  PROVE  ControlInv'
<1> USE DEF Inv, TypeOK, ControlInv, usable, desktop, client, request, found, goto, Fail, Complete, happens
<1>1. ASSUME NEW w \in Windows, UserOpens(w)
      PROVE  ControlInv'
  BY <1>1 DEF UserOpens
<1>2. ASSUME NEW w \in Windows, UserCloses(w)
      PROVE  ControlInv'
  BY <1>2 DEF UserCloses
<1>3. ASSUME NEW w \in Windows, NEW s \in WINDOW_STATES, UserResizes(w, s)
      PROVE  ControlInv'
  BY <1>3 DEF UserResizes
<1>4. ASSUME NEW w \in Windows, NEW x \in Texts, UserTypes(w, x)
      PROVE  ControlInv'
  BY <1>4 DEF UserTypes
<1>5. ASSUME NEW w \in Windows, NEW l \in Layouts, Redraw(w, l)
      PROVE  ControlInv'
  BY <1>5 DEF Redraw
<1> QED
  BY <1>1, <1>2, <1>3, <1>4, <1>5 DEF OthersStep

LEMMA ControlStutter ==
  ASSUME Inv, UNCHANGED vars
  PROVE  ControlInv'
BY DEF vars, Inv, TypeOK, ControlInv, usable, desktop, client, request, found, goto, Fail, Complete, happens

-----------------------------------------------------------------------------
(* The deed.                                                               *)

LEMMA DeedClient ==
  ASSUME Inv, ClientStep
  PROVE  DeedInv'
<1> USE DEF Inv, TypeOK, DeedInv, Untouched, desktop, client, request, found, goto, Fail, Complete, happens
<1>1. CASE List
  BY <1>1 DEF List
<1>2. CASE Approve
  BY <1>2 DEF Approve
<1>3. ASSUME NEW app \in DOMAIN PROFILES, RequestWait(app)
      PROVE  DeedInv'
  BY <1>3 DEF RequestWait
<1>4. ASSUME NEW k \in WindowTasks, NEW t \in Targets, Request(k, t)
      PROVE  DeedInv'
  BY <1>4 DEF Request
<1> QED
  BY <1>1, <1>2, <1>3, <1>4 DEF ClientStep

LEMMA DeedTask ==
  ASSUME Inv, TaskStep
  PROVE  DeedInv'
<1> USE DEF Inv, TypeOK, DeedInv, Untouched, desktop, client, request, found, goto, Fail, Complete, happens
<1>1. CASE Poll
  BY <1>1 DEF Poll
<1>2. CASE WaitTimesOut
  BY <1>2 DEF WaitTimesOut
<1>3. CASE Bind
  BY <1>3 DEF Bind
<1>4. ASSUME NEW place \in {"locate", "locateControl", "locateState"}, Locate(place)
      PROVE  DeedInv'
  <2>1. UNCHANGED deed
    BY <1>4, LocateFacts
  <2>2. pc' \in Untouched => pc \in Untouched
    BY <1>4, LocateFacts
  <2> QED
    BY <2>1, <2>2
<1>5. CASE CallRaises
  BY <1>5 DEF CallRaises
<1>6. CASE Recheck
  BY <1>6 DEF Recheck
<1>7. ASSUME NEW w \in Windows, Act(w)
      PROVE  DeedInv'
  BY <1>7 DEF Act
<1>8. ASSUME NEW w \in Windows, Close(w)
      PROVE  DeedInv'
  BY <1>8 DEF Close
<1>9. ASSUME NEW w \in Windows, Look(w)
      PROVE  DeedInv'
  BY <1>9 DEF Look
<1>10. ASSUME NEW w \in Windows, Descend(w)
      PROVE  DeedInv'
  BY <1>10 DEF Descend
<1>11. ASSUME NEW w \in Windows, NEW size \in 0 .. MAX_CAPTURE_BYTES + 1, Capture(w, size)
      PROVE  DeedInv'
  BY <1>11 DEF Capture
<1>12. ASSUME NEW w \in Windows, NEW i \in DOMAIN layout[w], Use(w, i)
      PROVE  DeedInv'
  BY <1>12 DEF Use
<1>13. ASSUME NEW w \in Windows, NEW i \in DOMAIN layout[w], ReadBack(w, i)
      PROVE  DeedInv'
  BY <1>13 DEF ReadBack
<1> QED
  BY <1>1, <1>2, <1>3, <1>4, <1>5, <1>6, <1>7, <1>8, <1>9, <1>10, <1>11, <1>12, <1>13 DEF TaskStep

LEMMA DeedOthers ==
  ASSUME Inv, OthersStep
  PROVE  DeedInv'
<1> USE DEF Inv, TypeOK, DeedInv, Untouched, desktop, client, request, found, goto, Fail, Complete, happens
<1>1. ASSUME NEW w \in Windows, UserOpens(w)
      PROVE  DeedInv'
  BY <1>1 DEF UserOpens
<1>2. ASSUME NEW w \in Windows, UserCloses(w)
      PROVE  DeedInv'
  BY <1>2 DEF UserCloses
<1>3. ASSUME NEW w \in Windows, NEW s \in WINDOW_STATES, UserResizes(w, s)
      PROVE  DeedInv'
  BY <1>3 DEF UserResizes
<1>4. ASSUME NEW w \in Windows, NEW x \in Texts, UserTypes(w, x)
      PROVE  DeedInv'
  BY <1>4 DEF UserTypes
<1>5. ASSUME NEW w \in Windows, NEW l \in Layouts, Redraw(w, l)
      PROVE  DeedInv'
  BY <1>5 DEF Redraw
<1> QED
  BY <1>1, <1>2, <1>3, <1>4, <1>5 DEF OthersStep

LEMMA DeedStutter ==
  ASSUME Inv, UNCHANGED vars
  PROVE  DeedInv'
BY DEF vars, Inv, TypeOK, DeedInv, Untouched, desktop, client, request, found, goto, Fail, Complete, happens

-----------------------------------------------------------------------------
(* Which task is where.                                                    *)

LEMMA KindStep == Inv /\ [Next]_vars => KindInv'
<1> SUFFICES ASSUME Inv, [Next]_vars PROVE KindInv'
  OBVIOUS
<1>0. TypeOK /\ BindInv /\ KindInv
  BY DEF Inv
<1> USE DEF KindInv, desktop, client, request, found, goto, Fail, Complete, happens
<1>1. CASE ClientStep
  <2>1. CASE List \/ Approve
    BY <1>0, <2>1 DEF List, Approve
  <2>2. ASSUME NEW app \in DOMAIN PROFILES, RequestWait(app) PROVE KindInv'
    BY <2>2 DEF RequestWait
  <2>3. ASSUME NEW k \in WindowTasks, NEW t \in Targets, Request(k, t) PROVE KindInv'
    BY <2>3 DEF Request
  <2> QED
    BY <1>1, <2>1, <2>2, <2>3 DEF ClientStep
<1>2. CASE Poll \/ WaitTimesOut \/ Bind \/ CallRaises \/ Recheck
  BY <1>0, <1>2 DEF Poll, WaitTimesOut, Bind, CallRaises, Recheck
<1>3. ASSUME NEW place \in {"locate", "locateControl", "locateState"}, Locate(place)
      PROVE  KindInv'
  <2>1. /\ pc = place /\ kind' = kind
        /\ pc' = "failed" \/ pc' = afterLocate[place]
        /\ pc' \in {"act", "descend", "use"} => kind # "get"
    BY <1>0, <1>3, LocateFacts
  <2> QED
    BY <1>0, <2>1 DEF afterLocate
<1>4. ASSUME NEW w \in Windows, Act(w) \/ Close(w) \/ Look(w) PROVE KindInv'
  BY <1>0, <1>4 DEF Act, Close, Look
<1>5. ASSUME NEW w \in Windows, Descend(w) PROVE KindInv'
  BY <1>0, <1>5, DescendFacts
<1>6. ASSUME NEW w \in Windows, NEW size \in 0 .. MAX_CAPTURE_BYTES + 1, Capture(w, size)
      PROVE  KindInv'
  BY <1>0, <1>6 DEF Capture
<1>7. ASSUME NEW w \in Windows, NEW i \in DOMAIN layout[w], Use(w, i) \/ ReadBack(w, i)
      PROVE  KindInv'
  BY <1>0, <1>7 DEF Use, ReadBack
<1>8. CASE OthersStep
  BY <1>0, <1>8 DEF OthersStep, UserOpens, UserCloses, UserResizes, UserTypes, Redraw
<1>9. CASE UNCHANGED vars
  BY <1>0, <1>9 DEF vars
<1> QED
  BY <1>1, <1>2, <1>3, <1>4, <1>5, <1>6, <1>7, <1>8, <1>9, NextSteps DEF TaskStep

-----------------------------------------------------------------------------
(* The theorems.                                                           *)

LEMMA InitInv == Init => Inv
<1> SUFFICES ASSUME Init PROVE Inv
  OBVIOUS
<1> USE BoundsAssumption DEF Init
<1>1. TypeOK
  <2>1. target \in Targets
    BY DEF Targets
  <2>2. /\ pc \in Places
        /\ state \in [Windows -> WINDOW_STATES]
        /\ text \in [Windows -> Texts]
        /\ layout \in [Windows -> Layouts]
    BY DEF Places, WINDOW_STATES
  <2>3. listings \in 0..MaxListings /\ events \in 0..MaxEvents
    OBVIOUS
  <2>4. /\ open \subseteq Windows /\ shown = {}
        /\ \A v, w \in open : v.handle = w.handle => v = w
    OBVIOUS
  <2>5. kind = "none" /\ wish = None /\ wanted = "none" /\ handle = None /\ artifact = None
        /\ deed = None
    OBVIOUS
  <2> HIDE DEF Init
  <2> QED
    BY <2>1, <2>2, <2>3, <2>4, <2>5 DEF TypeOK
<1>2. WaitInv /\ WantedInv /\ BindInv /\ FoundInv /\ ControlInv /\ KindInv /\ DeedInv
  BY DEF WaitInv, WantedInv, BindInv, FoundInv, ControlInv, KindInv, DeedInv, Bound, Holding
<1> QED
  BY <1>1, <1>2 DEF Inv

LEMMA StepInv == Inv /\ [Next]_vars => Inv'
<1> SUFFICES ASSUME Inv, [Next]_vars PROVE Inv'
  OBVIOUS
<1>0. KindInv'
  BY KindStep
<1>1. CASE ClientStep
  BY <1>0, <1>1, TypeClient, WaitClient, WantedClient, BindClient, FoundClient, ControlClient, DeedClient DEF Inv
<1>2. CASE TaskStep
  BY <1>0, <1>2, TypeTask, WaitTask, WantedTask, BindTask, FoundTask, ControlTask, DeedTask DEF Inv
<1>3. CASE OthersStep
  BY <1>0, <1>3, TypeOthers, WaitOthers, WantedOthers, BindOthers, FoundOthers, ControlOthers, DeedOthers DEF Inv
<1>4. CASE UNCHANGED vars
  BY <1>0, <1>4, TypeStutter, WaitStutter, WantedStutter, BindStutter, FoundStutter, ControlStutter, DeedStutter
  DEF Inv
<1> QED
  BY <1>1, <1>2, <1>3, <1>4, NextSteps

LEMMA Invariance == Spec => []Inv
BY InitInv, StepInv, PTL DEF Spec

(* Types: above all, no two open windows share a handle, every target is    *)
(* put together from what the client has seen, and no image is too large.   *)
THEOREM Types == Spec => []TypeOK
<1>1. Inv => TypeOK
  BY DEF Inv
<1> QED
  BY <1>1, Invariance, PTL

(* Every step that acts takes the window at the handle, and a control that  *)
(* is alone with its name there.                                           *)
LEMMA WhoActs ==
  ASSUME Inv, [Next]_vars, deed' # deed
  PROVE  /\ pc \in Holding /\ kind # "get"
         /\ \E w, c :
              /\ w \in atHandle /\ deed' = done(w, c)
              /\ kind \in ControlTasks =>
                   pc = "use" /\ \E i \in DOMAIN layout[w] : child(w) = {i} /\ c = layout[w][i]
<1>0. TypeOK /\ BindInv /\ KindInv
  BY DEF Inv
<1> USE DEF Holding, desktop, client, request, found, goto, Fail, Complete, happens
<1>1. CASE ClientStep
  BY <1>1 DEF ClientStep, List, Approve, RequestWait, Request
<1>2. CASE Poll \/ WaitTimesOut \/ Bind \/ CallRaises \/ Recheck
  BY <1>2 DEF Poll, WaitTimesOut, Bind, CallRaises, Recheck
<1>3. ASSUME NEW place \in {"locate", "locateControl", "locateState"}, Locate(place)
      PROVE  FALSE
  BY <1>0, <1>3, LocateFacts
<1>4. ASSUME NEW w \in Windows, Act(w) \/ Close(w)
      PROVE  pc = "act" /\ kind \notin ControlTasks \cup {"get"} /\ w \in atHandle /\ deed' = done(w, None)
  BY <1>4 DEF Act, Close, ControlTasks
<1>5. ASSUME NEW w \in Windows, NEW size \in 0 .. MAX_CAPTURE_BYTES + 1, Capture(w, size)
      PROVE  pc = "act" /\ kind \notin ControlTasks \cup {"get"} /\ w \in atHandle /\ deed' = done(w, None)
  BY <1>5 DEF Capture, ControlTasks
<1>6. ASSUME NEW w \in Windows, Look(w) \/ Descend(w) PROVE FALSE
  BY <1>6 DEF Look, Descend
<1>7. ASSUME NEW w \in Windows, NEW i \in DOMAIN layout[w], Use(w, i)
      PROVE  /\ pc = "use" /\ kind # "get" /\ w \in atHandle
             /\ deed' = done(w, layout[w][i]) /\ child(w) = {i}
  BY <1>0, <1>7 DEF Use, KindInv
<1>8. ASSUME NEW w \in Windows, NEW i \in DOMAIN layout[w], ReadBack(w, i) PROVE FALSE
  BY <1>8 DEF ReadBack
<1>9. CASE OthersStep
  BY <1>9 DEF OthersStep, UserOpens, UserCloses, UserResizes, UserTypes, Redraw
<1>10. CASE UNCHANGED vars
  BY <1>10 DEF vars
<1>11. ASSUME NEW w, pc = "act", kind \notin ControlTasks \cup {"get"}, w \in atHandle,
              deed' = done(w, None)
       PROVE  /\ pc \in Holding /\ kind # "get"
              /\ \E v, c :
                   /\ v \in atHandle /\ deed' = done(v, c)
                   /\ kind \in ControlTasks =>
                        pc = "use" /\ \E i \in DOMAIN layout[v] : child(v) = {i} /\ c = layout[v][i]
  BY <1>11
<1>12. ASSUME NEW w, NEW i \in DOMAIN layout[w], pc = "use", kind # "get", w \in atHandle,
              deed' = done(w, layout[w][i]), child(w) = {i}
       PROVE  /\ pc \in Holding /\ kind # "get"
              /\ \E v, c :
                   /\ v \in atHandle /\ deed' = done(v, c)
                   /\ kind \in ControlTasks =>
                        pc = "use" /\ \E k \in DOMAIN layout[v] : child(v) = {k} /\ c = layout[v][k]
  BY <1>12
<1> QED
  BY <1>1, <1>2, <1>3, <1>4, <1>5, <1>6, <1>7, <1>8, <1>9, <1>10, <1>11, <1>12, NextSteps DEF TaskStep

(* An open window of which the target was read has the handle that was       *)
(* found, and no other window has it.                                      *)
LEMMA TargetedWindow ==
  ASSUME Inv, pc \in Holding, NEW w \in atHandle,
         NEW v \in open, target.fields \in readings(v)
  PROVE  v = w
<1>1. TypeOK /\ FoundInv
  BY DEF Inv
<1>2. w \in open /\ w.handle = target.fields.handle
  BY <1>1 DEF atHandle, FoundInv
<1>3. v.handle = target.fields.handle
  BY ReadingFacts
<1> QED
  BY <1>1, <1>2, <1>3 DEF TypeOK

(* A task never acts on another window while the one its request named is    *)
(* open, nor on a control that does not fit, whatever the listings can read *)
(* of the windows, whatever flags the library knows of controls, and with   *)
(* any number of windows that take over each other's handles.              *)
THEOREM BoundTarget == Spec => ActsOnBoundTarget
<1> DEFINE Acted ==
      /\ deed'.window.handle = target.fields.handle
      /\ \A w \in open : target.fields \in readings(w) =>
           deed'.window = w /\ profileAction(kind) \in PROFILES[w.app]
      /\ kind \in ControlTasks =>
           /\ fits(deed'.control, wish)
           /\ \A i \in DOMAIN layout[deed'.window] :
                layout[deed'.window][i] = resolved =>
                  deed'.control = resolved /\ usable(resolved)
<1>1. ASSUME Inv, [Next]_vars, deed' # deed PROVE Acted
  <2>1. PICK w, c :
          /\ w \in atHandle /\ deed' = done(w, c)
          /\ kind \in ControlTasks =>
               pc = "use" /\ \E i \in DOMAIN layout[w] : child(w) = {i} /\ c = layout[w][i]
    BY <1>1, WhoActs
  <2>2. pc \in Holding /\ kind # "get"
    BY <1>1, WhoActs
  <2>3. TypeOK /\ BindInv /\ FoundInv /\ ControlInv
    BY <1>1 DEF Inv
  <2>4. deed'.window = w /\ deed'.control = c
    BY <2>1, DoneFacts
  <2>5. deed'.window.handle = target.fields.handle
    BY <2>1, <2>2, <2>3, <2>4 DEF atHandle, FoundInv
  <2>6. ASSUME NEW v \in open, target.fields \in readings(v)
        PROVE  deed'.window = v /\ profileAction(kind) \in PROFILES[v.app]
    <3>1. v = w
      BY <1>1, <2>1, <2>2, <2>6, TargetedWindow
    <3>2. profileAction(kind) \in PROFILES[target.fields.app]
      BY <2>2, <2>3 DEF BindInv, Bound
    <3>3. target.fields.app \in {v.app, "generic_readonly"}
      BY <2>6, ReadingFacts
    <3>4. v.app \in DOMAIN PROFILES
      BY <2>3, WindowsAssumption DEF TypeOK
    <3> QED
      BY <2>4, <3>1, <3>2, <3>3, <3>4, ProfileFacts
  <2>7. ASSUME kind \in ControlTasks
        PROVE  /\ fits(deed'.control, wish)
               /\ \A i \in DOMAIN layout[deed'.window] :
                    layout[deed'.window][i] = resolved =>
                      deed'.control = resolved /\ usable(resolved)
    <3>1. PICK k \in DOMAIN layout[w] : child(w) = {k} /\ c = layout[w][k]
      BY <2>1, <2>7
    <3>2. fits(c, resolved)
      BY <3>1 DEF child
    <3>3. fits(resolved, wish) /\ usable(resolved)
      BY <2>1, <2>3, <2>7 DEF ControlInv
    <3>4. \A i \in DOMAIN layout[w] : layout[w][i] = resolved => i \in child(w)
      BY DEF child, fits
    <3> QED
      BY <2>4, <3>1, <3>2, <3>3, <3>4, FitsThrough
  <2> QED
    BY <2>5, <2>6, <2>7
<1>2. Inv /\ [Next]_vars => [deed' # deed => Acted]_vars
  BY <1>1
<1> QED
  BY <1>2, InitInv, StepInv, PTL DEF Spec, ActsOnBoundTarget

-----------------------------------------------------------------------------
(* What is completed where.                                                *)

(* A task ends as completed in these steps only, and none of them changes   *)
(* the desktop after it has looked.                                        *)
LEMMA WhoCompletes ==
  ASSUME Inv, [Next]_vars, pc' = "completed", pc # "completed",
         kind \in {"set", "write"}
  PROVE  \/ \E w \in Windows : /\ pc = "look" /\ kind = "set" /\ w \in atHandle
                                /\ state[w] = wanted
         \/ \E w \in Windows : /\ pc = "readBack" /\ kind = "write" /\ w \in atHandle
                                /\ text[w] = wanted
<1>0. TypeOK /\ BindInv /\ KindInv
  BY DEF Inv
<1> USE DEF KindInv, goto, Fail, Complete, happens, client, found, ControlTasks
<1>1. CASE ClientStep
  BY <1>1 DEF ClientStep, List, Approve, RequestWait, Request
<1>2. CASE Poll \/ WaitTimesOut \/ Bind \/ CallRaises
  BY <1>0, <1>2 DEF Poll, WaitTimesOut, Bind, CallRaises
<1>3. CASE Recheck
  BY <1>0, <1>3 DEF Recheck
<1>4. ASSUME NEW place \in {"locate", "locateControl", "locateState"}, Locate(place)
      PROVE  FALSE
  BY <1>0, <1>4, LocateFacts
<1>5. ASSUME NEW w \in Windows, Look(w) PROVE kind = "set" /\ w \in atHandle /\ state[w] = wanted
  BY <1>0, <1>5 DEF Look
<1>6. ASSUME NEW w \in Windows, Act(w) \/ Close(w) \/ Descend(w) PROVE FALSE
  BY <1>6 DEF Act, Close, Descend
<1>7. ASSUME NEW w \in Windows, NEW size \in 0 .. MAX_CAPTURE_BYTES + 1, Capture(w, size)
      PROVE  FALSE
  BY <1>7 DEF Capture
<1>8. ASSUME NEW w \in Windows, NEW i \in DOMAIN layout[w], Use(w, i) PROVE FALSE
  BY <1>0, <1>8 DEF Use
<1>9. ASSUME NEW w \in Windows, NEW i \in DOMAIN layout[w], ReadBack(w, i)
      PROVE  pc = "readBack" /\ kind = "write" /\ w \in atHandle /\ text[w] = wanted
  BY <1>0, <1>9 DEF ReadBack
<1>10. CASE OthersStep
  BY <1>10 DEF OthersStep, UserOpens, UserCloses, UserResizes, UserTypes, Redraw
<1>11. CASE UNCHANGED vars
  BY <1>11 DEF vars
<1>12. \A w : Look(w) => pc = "look"
  BY DEF Look
<1> QED
  BY <1>1, <1>2, <1>3, <1>4, <1>5, <1>6, <1>7, <1>8, <1>9, <1>10, <1>11, <1>12, NextSteps
     DEF TaskStep

(* A task that is reported as completed has been seen to be so on the        *)
(* window its request named, if that is still open, whatever others do to   *)
(* the desktop meanwhile.                                                  *)
THEOREM CompletedIsSo == Spec => CompletionIsObserved
<1> DEFINE Observed ==
      \A w \in open : target.fields \in readings(w) =>
        /\ kind = "set" => state[w] = wanted
        /\ kind = "write" => text[w] = wanted
<1>1. ASSUME Inv, [Next]_vars, pc' = "completed", pc # "completed", kind \in {"set", "write"}
      PROVE  Observed
  <2>1. ASSUME NEW v \in open, target.fields \in readings(v),
               NEW w \in atHandle, pc \in {"look", "readBack"}
        PROVE  v = w
    BY <1>1, <2>1, TargetedWindow DEF Holding
  <2>2. ASSUME NEW w, pc = "look", kind = "set", w \in atHandle, state[w] = wanted
        PROVE  Observed
    BY <2>1, <2>2
  <2>3. ASSUME NEW w, pc = "readBack", kind = "write", w \in atHandle, text[w] = wanted
        PROVE  Observed
    BY <2>1, <2>3
  <2> QED
    BY <1>1, <2>2, <2>3, WhoCompletes
<1>2. Inv /\ [Next]_vars =>
        [pc' = "completed" /\ pc # "completed" /\ kind \in {"set", "write"} => Observed]_vars
  BY <1>1
<1> QED
  BY <1>2, InitInv, StepInv, PTL DEF Spec, CompletionIsObserved

-----------------------------------------------------------------------------
(* Which targets lead to a window.                                         *)

ShownInv == \A s \in shown : \E w \in Windows, n \in 1..listings : s.session = session(w, n)

Led ==
  pc \in Holding \cup {"recheck"} \/ (pc = "completed" /\ kind # "wait") \/ deed # None

SessionInv ==
  /\ ShownInv
  /\ pc = "locate" => target # NoTarget
  /\ Led => target # NoTarget /\ target.session = NoSession

LEMMA ListedResolvesToNothing ==
  ASSUME TypeOK, ShownInv, target # NoTarget, target.session # NoSession,
         NEW candidates
  PROVE  resolve(candidates, target.session) = {}
<1>1. PICK s \in shown : target.session = s.session
  BY DEF TypeOK, Targets
<1>2. PICK v \in Windows, n \in 1..listings : target.session = <<n, v>>
  BY <1>1 DEF ShownInv, session
<1>3. \A w : <<listings + 1, w>> # <<n, v>>
  <2>1. n # listings + 1
    BY DEF TypeOK
  <2> QED
    BY <2>1
<1> QED
  BY <1>2, <1>3 DEF resolve, session

(* _wrapper gets on without a session id only.                             *)
LEMMA LocateSession ==
  ASSUME TypeOK, ShownInv, target # NoTarget,
         NEW place \in {"locate", "locateControl", "locateState"}, Locate(place),
         pc' # "failed"
  PROVE  target.session = NoSession
<1>1. \E sight : resolve(list_windows(target.fields.app, sight), target.session) # {}
  BY DEF Locate, Fail
<1> QED
  BY <1>1, ListedResolvesToNothing

(* What a client is shown comes from a listing it has had.                 *)
LEMMA ShownStep == Inv /\ ShownInv /\ [Next]_vars => ShownInv'
<1> SUFFICES ASSUME Inv, ShownInv, [Next]_vars PROVE ShownInv'
  OBVIOUS
<1>0. TypeOK
  BY DEF Inv
<1>1. \/ shown' = shown /\ listings' = listings
      \/ /\ listings' = listings + 1
         /\ \E sight, seen : /\ sight \in sights /\ seen \subseteq DOMAIN sight
                               /\ shown' = shown \cup {observation(sight[w], w, listings + 1) : w \in seen}
  <2> USE DEF desktop, client, request, found, goto, Fail, Complete, happens
  <2>1. CASE List
    <3>1. PICK sight \in sights :
            shown' = shown \cup {observation(sight[w], w, listings + 1) : w \in DOMAIN sight}
      BY <2>1 DEF List
    <3> QED
      BY <2>1, <3>1 DEF List
  <2>2. CASE Poll
    <3>1. CASE shown' = shown /\ listings' = listings
      BY <3>1
    <3>2. CASE ~(shown' = shown /\ listings' = listings)
      <4>1. PICK sight, w :
              /\ sight \in sights /\ w \in DOMAIN sight
              /\ shown' = shown \cup {observation(sight[w], w, listings + 1)}
              /\ listings' = listings + 1
        BY <2>2, <3>2 DEF Poll, list_windows
      <4>2. {w} \subseteq DOMAIN sight
        BY <4>1
      <4>3. {observation(sight[v], v, listings + 1) : v \in {w}} = {observation(sight[w], w, listings + 1)}
        BY Zenon
      <4> QED
        BY <4>1, <4>2, <4>3
    <3> QED
      BY <3>1, <3>2
  <2>3. CASE ClientStep /\ ~List
    BY <2>3 DEF ClientStep, Approve, RequestWait, Request
  <2>4. CASE TaskStep /\ ~Poll
    BY <2>4 DEF TaskStep, WaitTimesOut, Bind, CallRaises, Recheck, Locate, Act, Close, Look,
       Descend, Capture, Use, ReadBack
  <2>5. CASE OthersStep
    BY <2>5 DEF OthersStep, UserOpens, UserCloses, UserResizes, UserTypes, Redraw
  <2>6. CASE UNCHANGED vars
    BY <2>6 DEF vars
  <2> QED
    BY <2>1, <2>2, <2>3, <2>4, <2>5, <2>6, NextSteps
<1>2. CASE shown' = shown /\ listings' = listings
  BY <1>2 DEF ShownInv
<1>3. ASSUME listings' = listings + 1, NEW sight \in sights, NEW seen, seen \subseteq DOMAIN sight,
             shown' = shown \cup {observation(sight[w], w, listings + 1) : w \in seen}
      PROVE  ShownInv'
  <2>1. SUFFICES ASSUME NEW s \in shown' PROVE \E w \in Windows, n \in 1..listings' : s.session = session(w, n)
    BY DEF ShownInv, session
  <2>2. listings \in Nat /\ seen \subseteq Windows
    BY <1>0, <1>3, SightFacts, BoundsAssumption DEF TypeOK
  <2>3. CASE s \in shown
    <3>1. PICK w \in Windows, n \in 1..listings : s.session = session(w, n)
      BY <2>3 DEF ShownInv
    <3>2. n \in 1..listings'
      BY <1>3, <2>2
    <3> QED
      BY <3>1, <3>2
  <2>4. ASSUME NEW w \in seen, s = observation(sight[w], w, listings + 1)
        PROVE  \E v \in Windows, n \in 1..listings' : s.session = session(v, n)
    <3>1. s.session = session(w, listings + 1)
      BY <2>4 DEF observation
    <3>2. w \in Windows /\ listings + 1 \in 1..listings'
      BY <1>3, <2>2
    <3> QED
      BY <3>1, <3>2
  <2> QED
    BY <1>3, <2>3, <2>4
<1> QED
  BY <1>1, <1>2, <1>3

LEMMA SessionStep == Inv /\ SessionInv /\ [Next]_vars => SessionInv'
<1> SUFFICES ASSUME Inv, SessionInv, [Next]_vars PROVE SessionInv'
  OBVIOUS
<1>0. TypeOK /\ BindInv /\ KindInv /\ DeedInv /\ ShownInv /\ ShownInv'
  BY ShownStep DEF Inv, SessionInv
<1> DEFINE Sound == /\ pc' = "locate" => target' # NoTarget
                    /\ Led' => target' # NoTarget /\ target'.session = NoSession
<1> SUFFICES Sound
  BY <1>0 DEF SessionInv
<1> USE DEF KindInv, SessionInv, Led, Holding, Untouched, DeedInv, desktop, client, request,
            found, goto, Fail, Complete, happens
<1>1. CASE ClientStep
  <2>1. CASE List \/ Approve
    BY <1>0, <2>1 DEF List, Approve
  <2>2. ASSUME NEW app \in DOMAIN PROFILES, RequestWait(app) PROVE Sound
    BY <1>0, <2>2 DEF RequestWait
  <2>3. ASSUME NEW k \in WindowTasks, NEW t \in Targets, Request(k, t) PROVE Sound
    BY <1>0, <2>3 DEF Request
  <2> QED
    BY <1>1, <2>1, <2>2, <2>3 DEF ClientStep
<1>2. CASE Poll \/ WaitTimesOut \/ CallRaises \/ Recheck
  BY <1>0, <1>2 DEF Poll, WaitTimesOut, CallRaises, Recheck
<1>3. CASE Bind
  BY <1>0, <1>3 DEF Bind
<1>4. ASSUME NEW place \in {"locate", "locateControl", "locateState"}, Locate(place)
      PROVE  Sound
  <2>1. pc = place /\ UNCHANGED <<target, kind, deed>>
    BY <1>0, <1>4, LocateFacts
  <2>2. target # NoTarget
    BY <2>1
  <2>3. pc' # "failed" => target.session = NoSession
    BY <1>0, <1>4, <2>2, LocateSession
  <2>4. pc' # "locate"
    BY <1>0, <1>4, LocateFacts
  <2> QED
    BY <2>1, <2>2, <2>3, <2>4
<1>5. ASSUME NEW w \in Windows, Act(w) \/ Close(w) \/ Look(w) PROVE Sound
  BY <1>5 DEF Act, Close, Look
<1>6. ASSUME NEW w \in Windows, Descend(w) PROVE Sound
  BY <1>0, <1>6, DescendFacts
<1>7. ASSUME NEW w \in Windows, NEW size \in 0 .. MAX_CAPTURE_BYTES + 1, Capture(w, size)
      PROVE  Sound
  BY <1>7 DEF Capture
<1>8. ASSUME NEW w \in Windows, NEW i \in DOMAIN layout[w], Use(w, i) \/ ReadBack(w, i)
      PROVE  Sound
  BY <1>8 DEF Use, ReadBack
<1>9. CASE OthersStep
  BY <1>9 DEF OthersStep, UserOpens, UserCloses, UserResizes, UserTypes, Redraw
<1>10. CASE UNCHANGED vars
  BY <1>10 DEF vars
<1> QED
  BY <1>1, <1>2, <1>3, <1>4, <1>5, <1>6, <1>7, <1>8, <1>9, <1>10, NextSteps DEF TaskStep

(* A request that names a window as it was listed, with its session id, has *)
(* no effect and is never reported as completed: the id is of a listing,    *)
(* and revalidation makes a new one.                                       *)
THEOREM ListedTargetsLeadNowhere ==
  Spec => [](target # NoTarget /\ target.session # NoSession =>
               deed = None /\ ~(pc = "completed" /\ kind # "wait"))
<1>1. Init => SessionInv
  BY DEF Init, SessionInv, ShownInv, Led, Holding
<1>2. SessionInv => (target # NoTarget /\ target.session # NoSession =>
                       deed = None /\ ~(pc = "completed" /\ kind # "wait"))
  BY DEF SessionInv, Led
<1> QED
  BY <1>1, <1>2, InitInv, StepInv, SessionStep, PTL DEF Spec
====
