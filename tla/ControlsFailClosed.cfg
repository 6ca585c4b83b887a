CONSTANTS
  Windows <- MCWindows
  Layouts <- MCLayouts
  Wishes <- MCWishes
  theirs = theirs
  ours = ours
  Texts <- MCTexts
  NoTarget = NoTarget
  NoSession = NoSession
  None = None
  Unread = Unread
  ElementInfo = {}
  MAX_CONTROLS = 2
  MAX_CAPTURE_BYTES = 1
  MaxListings = 1
  MaxEvents = 0
SPECIFICATION Spec
INVARIANT ControlsFailClosed
CHECK_DEADLOCK FALSE
