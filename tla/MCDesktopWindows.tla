------------------------- MODULE MCDesktopWindows --------------------------
(***************************************************************************)
(* A small instance of DesktopWindows for TLC: a Notepad with two windows,  *)
(* and an Explorer that may take over the handle of one of them.            *)
(***************************************************************************)
EXTENDS DesktopWindows, TLC

\* no step tells one text from the other
CONSTANTS theirs, ours
MCTexts == {theirs, ours}
TextSymmetry == Permutations(MCTexts)

window(app, process, h) == [app |-> app, process |-> process, handle |-> h]

MCWindows ==
  {window("notepad", 1, 1), window("notepad", 1, 2), window("explorer", 2, 1)}

control(name, id) ==
  [name |-> name, controlType |-> "Edit", automationId |-> id, editable |-> TRUE,
   enabled |-> TRUE, offscreen |-> FALSE, is_password |-> FALSE]

\* a password field next to another control; more controls than are inspected
MCLayouts ==
  {<<[control("a", "2") EXCEPT !.is_password = TRUE], control("a", "1")>>,
   <<control("b", "1"), [control("a", "2") EXCEPT !.offscreen = TRUE],
     [control("a", "1") EXCEPT !.enabled = FALSE]>>}

MCWishes ==
  {[name |-> "a", controlType |-> "Edit", automationId |-> id] : id \in {"", "2"}}
====
