CONSTANTS
  c1 = c1
  c2 = c2
  u1 = u1
  u2 = u2
  p1 = p1
  p2 = p2
  p3 = p3
  s1 = s1
  a = a
  b = b
  n = n
  Missing = Missing
  NoRequest = NoRequest
  NoOne = NoOne
  Calls = {c1, c2}
  Undoers = {u1, u2}
  Paths = {p1, p2, p3}
  Slots = {s1}
  Pieces = {a, b, n}
  Requests <- MCRequests
  MaxItems = 2
  BATCH_APPROVAL_ITEM_THRESHOLD = 1
  Workspace <- MCWorkspace
  Edited <- MCEdited
  MaxEdits = 1
  MaxCrashes = 1
SPECIFICATION Spec
INVARIANTS
  TypeOK
  UndoRecordsAreExact
  UndoIsAllOrNothing
  NoTextIsLost
PROPERTIES
  NothingIsReplaced
  UndoTakesOnlyItsOwn
  ManifestTextsOnly
SYMMETRY MCSymmetry
CHECK_DEADLOCK FALSE
