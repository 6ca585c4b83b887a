-------------------------- MODULE DesktopWindows ---------------------------
(***************************************************************************)
(* One desktop task on the real adapter, WindowsUIAutomationAdapter: the    *)
(* windows a client has been shown, the target its request names, and every *)
(* look at the desktop between the request and the end of the task.         *)
(*                                                                         *)
(* The desktop belongs to others.  Windows are opened, closed, redrawn and  *)
(* typed into by the user and other programs; a second task of the runtime  *)
(* is one more of them.                                                    *)
(***************************************************************************)
EXTENDS Naturals, FiniteSets, Sequences

CONSTANTS
  Windows,      \* the windows there may ever be
  Layouts,      \* what a window may show: sequences of controls
  Wishes,       \* the controls a request may name
  Texts,        \* what an edit control may hold
  NoTarget,     \* a request without "window"
  NoSession,    \* an empty windowSessionId
  None,         \* no control, nothing done
  Unread,       \* what a listing could not read
  ElementInfo,  \* which of "is_password" and "offscreen" the library's elements have
  MAX_CONTROLS, \* inspect_controls stops there: 200
  MAX_CAPTURE_BYTES, \* the largest image that is kept: 10 MB
  MaxListings,  \* bound: how often the client lists or waits
  MaxEvents     \* bound: what others do

WINDOW_STATES == {"restore", "minimize", "maximize"}

(* AutomationProfileRegistry.                                              *)
PROFILES ==
  [notepad |-> {"activate", "state", "inspect", "read", "write", "invoke", "close", "capture"},
   explorer |-> {"activate", "state", "inspect", "read", "select", "scroll", "capture"},
   generic_readonly |-> {"activate", "state", "inspect"}]

(* An open window is found by its handle.  A handle is used again when its  *)
(* window is closed, by another process or by the same: to the program, the *)
(* latter is the same window opened again.                                 *)
ASSUME WindowsAssumption ==
  \A w \in Windows : DOMAIN w = {"app", "process", "handle"} /\ w.app \in DOMAIN PROFILES
ASSUME ElementAssumption == ElementInfo \subseteq {"is_password", "offscreen"}
ASSUME BoundsAssumption ==
  /\ MAX_CONTROLS \in Nat /\ MAX_CAPTURE_BYTES \in Nat
  /\ MaxListings \in Nat /\ MaxEvents \in Nat

ControlTasks == {"read", "invoke", "write", "select", "scroll"}
ApprovalTasks == ControlTasks \cup {"close", "capture"}
WindowTasks == {"activate", "get", "set", "inspect"} \cup ApprovalTasks
profileAction(k) == IF k \in {"get", "set"} THEN "state" ELSE k

VARIABLES
  open,      \* the windows that are open
  state,     \* minimized, maximized or neither
  text,      \* what their edit controls hold
  layout,    \* their controls
  events,
  listings,  \* how many listings a client has seen
  shown,     \* the observations in them
  pc,        \* where the task is
  kind,      \* what it is to do
  target,    \* the window named in the request
  wish,      \* the control named in it
  wanted,    \* the state or the text
  handle,    \* what _wrapper has found
  resolved,  \* what ControlResolver has found
  deed,      \* history: the window and the control acted upon
  artifact,  \* the size of the image a capture has left
  code       \* the error of a failed task

desktop == <<open, state, text, layout, events>>
client == <<listings, shown>>
request == <<kind, target, wish, wanted>>
found == <<handle, resolved, artifact>>
vars == <<desktop, client, pc, request, found, deed, code>>

Init ==
  /\ open \in SUBSET Windows
  /\ \A v, w \in open : v.handle = w.handle => v = w
  /\ state = [w \in Windows |-> "restore"]
  /\ \E t \in Texts : text = [w \in Windows |-> t]
  /\ \E l \in Layouts : layout = [w \in Windows |-> l]
  /\ events = 0
  /\ listings = 0 /\ shown = {}
  /\ pc = "idle" /\ kind = "none"
  /\ target = NoTarget /\ wish = None /\ wanted = "none"
  /\ handle = None /\ resolved = None /\ artifact = None
  /\ deed = None /\ code = "none"

-----------------------------------------------------------------------------
(* Identities.                                                             *)

(* argument_hash of app, executable, pid, creation time, handle and runtime *)
(* id.  The executable and the creation time come with the process, and the *)
(* runtime id of a top-level window is made of its handle.                 *)
fingerprint(w) == [app |-> w.app, process |-> w.process, handle |-> w.handle]

(* What a listing may read of a window: all of it; or not the creation time *)
(* or the runtime id, for which _identity has a substitute; or not the      *)
(* executable either, which makes it a window of no application.  A pid may *)
(* be used again, so a process of which only the pid is read may be any.    *)
readings(w) ==
  {fingerprint(w)} \cup
  [app : {w.app, "generic_readonly"}, process : {Unread}, handle : {w.handle}]

(* list_windows passes over a window whose inspection raises.              *)
sights ==
  UNION {{s \in [seen -> UNION {readings(w) : w \in seen}] :
            \A w \in seen : s[w] \in readings(w)} : seen \in SUBSET open}
list_windows(app, sight) == {w \in DOMAIN sight : sight[w].app = app}

(* _identity gives every window a new windowSessionId in every listing.     *)
session(w, n) == <<n, w>>
observation(fields, w, n) ==
  [fields |-> fields, fingerprint |-> fields, session |-> session(w, n)]

(* The runtime keeps no identifier of a listing it makes for itself, so the *)
(* number of the next listing serves for all of these.                     *)
resolve(candidates, id) ==
  IF id = NoSession
    THEN {w \in candidates : candidates = {w}}
    ELSE {w \in candidates : session(w, listings + 1) = id}

-----------------------------------------------------------------------------
(* The client.                                                             *)

(* LIST_WINDOWS of every application.                                      *)
List ==
  /\ pc = "idle" /\ listings < MaxListings
  /\ listings' = listings + 1
  /\ \E sight \in sights :
       shown' = shown \cup {observation(sight[w], w, listings + 1) : w \in DOMAIN sight}
  /\ UNCHANGED <<desktop, pc, request, found, deed, code>>

RequestWait(app) ==
  /\ pc = "idle" /\ listings < MaxListings
  /\ pc' = "wait"
  /\ kind' = "wait" /\ wanted' = app
  /\ UNCHANGED <<desktop, client, target, wish, found, deed, code>>

(* The binding is taken from observations; the client may leave it out, mix *)
(* up two of them or empty the session id, which the fingerprint does not   *)
(* cover.                                                                  *)
Targets ==
  LET fields == {s.fields : s \in shown}
  IN [fields : fields, fingerprint : fields,
      session : {NoSession} \cup {s.session : s \in shown}] \cup {NoTarget}

Request(k, t) ==
  /\ pc = "idle"
  /\ pc' = IF k \in ApprovalTasks THEN "decide" ELSE "bind"
  /\ kind' = k /\ target' = t
  /\ wish' \in IF k \in ControlTasks THEN Wishes ELSE {None}
  /\ wanted' \in IF k = "set" THEN WINDOW_STATES ELSE IF k = "write" THEN Texts ELSE {"none"}
  /\ UNCHANGED <<desktop, client, found, deed, code>>

(* The user approves; nothing of the target is looked at.                  *)
Approve ==
  /\ pc = "decide"
  /\ pc' = "bind"
  /\ UNCHANGED <<desktop, client, request, found, deed, code>>

-----------------------------------------------------------------------------
(* The task.  Fail and Complete are its last commit.                       *)

Fail(error) ==
  /\ pc' = "failed" /\ code' = error
  /\ UNCHANGED <<client, request, found, deed>>

Complete == pc' = "completed" /\ UNCHANGED <<client, request, found, code>>

goto(place) == pc' = place /\ UNCHANGED <<client, request, code>>

(* wait_for_window.                                                        *)
Poll ==
  /\ pc \in {"wait", "asleep"}
  /\ UNCHANGED desktop
  /\ \E sight \in sights :
     LET windows == list_windows(wanted, sight)
     IN \/ windows = {} /\ goto("asleep") /\ UNCHANGED <<found, deed>>
        \/ /\ \E w \in windows :
                 /\ windows = {w}
                 /\ shown' = shown \cup {observation(sight[w], w, listings + 1)}
           /\ listings' = listings + 1
           /\ pc' = "completed"
           /\ UNCHANGED <<request, found, deed, code>>
        \/ Cardinality(windows) > 1 /\ Fail("WINDOW_TARGET_AMBIGUOUS")

WaitTimesOut ==
  /\ pc = "asleep"
  /\ UNCHANGED desktop
  /\ Fail("WINDOW_WAIT_TIMEOUT")

(* _target_from_args and assert_action_allowed, which get_window_state does *)
(* not call.                                                               *)
Bind ==
  /\ pc = "bind"
  /\ UNCHANGED desktop
  /\ IF target = NoTarget THEN Fail("WINDOW_TARGET_BINDING_REQUIRED")
     ELSE IF target.fields # target.fingerprint THEN Fail("WINDOW_TARGET_CHANGED")
     ELSE IF kind # "get" /\ profileAction(kind) \notin PROFILES[target.fields.app]
       THEN Fail("AUTOMATION_PROFILE_ACTION_REJECTED")
     ELSE goto("locate") /\ UNCHANGED <<found, deed>>

(* _wrapper is called once, twice by the control tasks and by "set".        *)
afterLocate ==
  [locate |-> IF kind \in ControlTasks \cup {"inspect"} THEN "descend"
              ELSE IF kind = "get" THEN "look" ELSE "act",
   locateControl |-> "use",
   locateState |-> "look"]

(* Faulty: the window found is taken for the one that was meant.            *)
Locate_unchecked(place) ==
  /\ pc = place
  /\ UNCHANGED desktop
  /\ \E sight \in sights :
     LET windows == list_windows(target.fields.app, sight)
         current == resolve(windows, target.session)
     IN \/ /\ current = {}
           /\ Fail(IF target.session = NoSession /\ windows # {}
                     THEN "WINDOW_TARGET_AMBIGUOUS" ELSE "WINDOW_TARGET_NOT_FOUND")
        \/ \E w \in current :
             /\ goto(afterLocate[place])
             /\ handle' = w.handle
             /\ UNCHANGED <<resolved, artifact, deed>>

(* WindowTargetResolver.revalidate.                                        *)
Locate(place) ==
  /\ pc = place
  /\ UNCHANGED desktop
  /\ \E sight \in sights :
     LET windows == list_windows(target.fields.app, sight)
         current == resolve(windows, target.session)
     IN \/ /\ current = {}
           /\ Fail(IF target.session = NoSession /\ windows # {}
                     THEN "WINDOW_TARGET_AMBIGUOUS" ELSE "WINDOW_TARGET_NOT_FOUND")
        \/ \E w \in current :
             IF sight[w] # target.fingerprint THEN Fail("WINDOW_TARGET_CHANGED")
             ELSE /\ goto(afterLocate[place])
                  /\ handle' = w.handle
                  /\ UNCHANGED <<resolved, artifact, deed>>

(* window(handle=...) is looked up when it is used.                        *)
atHandle == {w \in open : w.handle = handle}
done(w, c) == [window |-> w, control |-> c]

(* Any call into a window may raise, above all when the window is gone.     *)
CallRaises ==
  /\ pc \in {"act", "look", "descend", "use", "readBack"}
  /\ UNCHANGED desktop
  /\ Fail("UIA_ERROR")

(* set_focus, minimize, maximize, restore.                                 *)
Act(w) ==
  /\ pc = "act" /\ kind \in {"activate", "set"}
  /\ w \in atHandle
  /\ deed' = done(w, None)
  /\ IF kind = "set"
       THEN goto("locateState") /\ state' = [state EXCEPT ![w] = wanted] /\ UNCHANGED found
       ELSE Complete /\ UNCHANGED state
  /\ UNCHANGED <<open, text, layout, events>>

(* Faulty: an image that is too large stays on the disk.                   *)
Capture_keeps(w, size) ==
  /\ pc = "act" /\ kind = "capture"
  /\ w \in atHandle
  /\ UNCHANGED desktop
  /\ artifact' = size
  /\ IF size > MAX_CAPTURE_BYTES
       THEN pc' = "failed" /\ code' = "SCREEN_ARTIFACT_TOO_LARGE"
       ELSE pc' = "completed" /\ UNCHANGED code
  /\ deed' = done(w, None)
  /\ UNCHANGED <<client, request, handle, resolved>>

(* capture_window: the image is saved, measured, and deleted if too large.  *)
Capture(w, size) ==
  /\ pc = "act" /\ kind = "capture"
  /\ w \in atHandle
  /\ UNCHANGED desktop
  /\ IF size > MAX_CAPTURE_BYTES
       THEN /\ pc' = "failed" /\ code' = "SCREEN_ARTIFACT_TOO_LARGE"
            /\ UNCHANGED artifact
       ELSE pc' = "completed" /\ artifact' = size /\ UNCHANGED code
  /\ deed' = done(w, None)
  /\ UNCHANGED <<client, request, handle, resolved>>

(* close() asks the window, which may ask the user first.                  *)
Close(w) ==
  /\ pc = "act" /\ kind = "close"
  /\ w \in atHandle
  /\ deed' = done(w, None)
  /\ open' \in {open, open \ {w}}
  /\ goto("recheck")
  /\ UNCHANGED <<state, text, layout, events, found>>

(* Faulty: the state asked for is reported, not the one observed.           *)
Look_reported(w) ==
  /\ pc = "look" /\ w \in atHandle
  /\ UNCHANGED desktop
  /\ Complete /\ UNCHANGED deed

(* get_window_state: is_minimized, is_maximized.                           *)
Look(w) ==
  /\ pc = "look" /\ w \in atHandle
  /\ UNCHANGED desktop
  /\ IF kind = "set" /\ state[w] # wanted
       THEN Fail("POSTCONDITION_WINDOW_STATE_FAILED")
       ELSE Complete /\ UNCHANGED deed

(* close_window wants no window of the application listed, not only not     *)
(* this one.                                                               *)
Recheck ==
  /\ pc = "recheck"
  /\ UNCHANGED desktop
  /\ \E sight \in sights :
       IF list_windows(target.fields.app, sight) = {}
         THEN Complete /\ UNCHANGED deed
         ELSE Fail("POSTCONDITION_CLOSE_FAILED")

-----------------------------------------------------------------------------
(* Controls.                                                               *)

(* _control_metadata: the other two patterns are never noted, and a flag is *)
(* FALSE when the element has no such attribute.                           *)
patterns(c) == {"Invoke"} \cup IF c.editable THEN {"Value"} ELSE {}
flag(c, attribute) == attribute \in ElementInfo /\ c[attribute]

require_pattern ==
  [read |-> "Value", write |-> "Value", invoke |-> "Invoke",
   select |-> "SelectionItem", scroll |-> "Scroll"]

(* ControlResolver.resolve: which control fits, and which one may be used.  *)
usable(c) ==
  /\ ~flag(c, "is_password")
  /\ c.enabled /\ ~flag(c, "offscreen")
  /\ require_pattern[kind] \in patterns(c)

fits(c, w) ==
  /\ c.controlType = w.controlType
  /\ w.name \in {"", c.name}
  /\ w.automationId \in {"", c.automationId}

(* inspect_controls sees the first of them.                                *)
inspected(w) ==
  {i \in DOMAIN layout[w] : i <= MAX_CONTROLS}
matches(w) == {i \in inspected(w) : fits(layout[w][i], wish)}

(* inspect_controls, and ControlResolver.resolve: each control that fits    *)
(* must be usable, and there must be one.                                  *)
Descend(w) ==
  /\ pc = "descend" /\ w \in atHandle
  /\ UNCHANGED desktop
  /\ IF kind = "inspect" THEN Complete /\ UNCHANGED deed
     ELSE IF Cardinality(matches(w)) = 1 /\ \A i \in matches(w) : usable(layout[w][i])
       THEN \E i \in matches(w) :
              /\ goto("locateControl")
              /\ resolved' = layout[w][i]
              /\ UNCHANGED <<handle, artifact, deed>>
       ELSE Fail("CONTROL_REJECTED")

(* child_window is looked up when it is used, by the name, the type and the *)
(* automation id of the control that was resolved, among all there are.     *)
child(w) == {i \in DOMAIN layout[w] : fits(layout[w][i], resolved)}

(* get_value, invoke, set_edit_text, select, scroll.                       *)
Use(w, i) ==
  /\ pc = "use" /\ w \in atHandle
  /\ child(w) = {i}
  /\ deed' = done(w, layout[w][i])
  /\ IF kind = "write"
       THEN goto("readBack") /\ text' = [text EXCEPT ![w] = wanted] /\ UNCHANGED found
       ELSE Complete /\ UNCHANGED text
  /\ UNCHANGED <<open, state, layout, events>>

(* set_control_text reads the value again.                                 *)
ReadBack(w, i) ==
  /\ pc = "readBack" /\ w \in atHandle
  /\ child(w) = {i}
  /\ UNCHANGED desktop
  /\ IF text[w] = wanted
       THEN Complete /\ UNCHANGED deed
       ELSE Fail("POSTCONDITION_SET_TEXT_FAILED")

TaskStep ==
  \/ Poll \/ WaitTimesOut \/ Bind
  \/ \E place \in {"locate", "locateControl", "locateState"} : Locate(place)
  \/ CallRaises \/ Recheck
  \/ \E w \in Windows :
       \/ Act(w) \/ Close(w) \/ Look(w) \/ Descend(w)
       \/ \E size \in 0 .. MAX_CAPTURE_BYTES + 1 : Capture(w, size)
       \/ \E i \in DOMAIN layout[w] : Use(w, i) \/ ReadBack(w, i)

-----------------------------------------------------------------------------
(* The others.  What they do after the end of the task is left out.         *)

happens ==
  /\ pc \notin {"completed", "failed"}
  /\ events < MaxEvents
  /\ events' = events + 1
  /\ UNCHANGED <<client, pc, request, found, deed, code>>

UserOpens(w) ==
  /\ happens
  /\ w \notin open /\ \A v \in open : v.handle # w.handle
  /\ open' = open \cup {w}
  /\ UNCHANGED <<state, text, layout>>

UserCloses(w) ==
  /\ happens
  /\ w \in open
  /\ open' = open \ {w}
  /\ UNCHANGED <<state, text, layout>>

UserResizes(w, s) ==
  /\ happens
  /\ w \in open /\ s # state[w]
  /\ state' = [state EXCEPT ![w] = s]
  /\ UNCHANGED <<open, text, layout>>

UserTypes(w, t) ==
  /\ happens
  /\ w \in open /\ t # text[w]
  /\ text' = [text EXCEPT ![w] = t]
  /\ UNCHANGED <<open, state, layout>>

Redraw(w, l) ==
  /\ happens
  /\ w \in open /\ l # layout[w]
  /\ layout' = [layout EXCEPT ![w] = l]
  /\ UNCHANGED <<open, state, text>>

-----------------------------------------------------------------------------
Next ==
  \/ List \/ Approve \/ TaskStep
  \/ \E app \in DOMAIN PROFILES : RequestWait(app)
  \/ \E k \in WindowTasks, t \in Targets : Request(k, t)
  \/ \E w \in Windows :
       \/ UserOpens(w) \/ UserCloses(w)
       \/ \E s \in WINDOW_STATES : UserResizes(w, s)
       \/ \E t \in Texts : UserTypes(w, t)
       \/ \E l \in Layouts : Redraw(w, l)

Spec == Init /\ [][Next]_vars

-----------------------------------------------------------------------------
Places == {"idle", "wait", "asleep", "decide", "bind", "locate", "act", "recheck", "look",
           "descend", "locateControl", "use", "readBack", "locateState",
           "completed", "failed"}

TypeOK ==
  /\ pc \in Places
  /\ open \subseteq Windows
  /\ \A v, w \in open : v.handle = w.handle => v = w
  /\ state \in [Windows -> WINDOW_STATES]
  /\ text \in [Windows -> Texts]
  /\ layout \in [Windows -> Layouts]
  /\ events \in 0..MaxEvents
  /\ listings \in 0..MaxListings
  /\ \A s \in shown : \E w \in Windows, n \in 1..MaxListings :
       \E fields \in readings(w) : s = observation(fields, w, n)
  /\ kind \in WindowTasks \cup {"none", "wait"}
  /\ target \in Targets
  /\ wish \in Wishes \cup {None}
  /\ wanted \in WINDOW_STATES \cup Texts \cup DOMAIN PROFILES \cup {"none"}
  /\ handle \in {w.handle : w \in Windows} \cup {None}
  /\ artifact \in 0..MAX_CAPTURE_BYTES \cup {None}
  /\ deed # None => deed.window \in Windows

(* A desktop task acts on a window with the handle its request named.  If   *)
(* the window that was named is open then, it is that window, and the       *)
(* profile of its application allows the action, however little of it the   *)
(* listings could read.  A control acted upon fits the request, even if the *)
(* window was redrawn after its controls were inspected; and if the control *)
(* that was resolved is still there, it is that one, and one the resolver   *)
(* admits.  Nothing is said of a handle that has another window when the    *)
(* task comes to use it, nor of a control redrawn under the same name.      *)
ActsOnBoundTarget ==
  [][deed' # deed =>
       /\ deed'.window.handle = target.fields.handle
       /\ \A w \in open : target.fields \in readings(w) =>
            deed'.window = w /\ profileAction(kind) \in PROFILES[w.app]
       /\ kind \in ControlTasks =>
            /\ fits(deed'.control, wish)
            /\ \A i \in DOMAIN layout[deed'.window] :
                 layout[deed'.window][i] = resolved =>
                   deed'.control = resolved /\ usable(resolved)]_vars

(* When a task is reported as completed, the window its request named has   *)
(* the state, or holds the text, if it is still open: a window that others  *)
(* closed while the task was looking at it can have neither.                *)
CompletionIsObserved ==
  [][pc' = "completed" /\ pc # "completed" /\ kind \in {"set", "write"} =>
       \A w \in open : target.fields \in readings(w) =>
         /\ kind = "set" => state[w] = wanted
         /\ kind = "write" => text[w] = wanted]_vars

-----------------------------------------------------------------------------
(* What the documents say and the code does not do.                        *)

(* docs/DESKTOP_AUTOMATION_THREAT_MODEL.md: "Ambiguous, missing, invisible, *)
(* disabled, unsupported, password, or stale controls fail closed."  When   *)
(* nobody else is at work, a control that was used is enabled, visible and  *)
(* no password field, and no other control of its window fits the request.  *)
ControlsFailClosed ==
  kind \in ControlTasks /\ deed # None /\ events = 0 =>
    /\ deed.control.enabled /\ ~deed.control.offscreen /\ ~deed.control.is_password
    /\ \A i, j \in DOMAIN layout[deed.window] :
         fits(layout[deed.window][i], wish) /\ fits(layout[deed.window][j], wish) => i = j
====
