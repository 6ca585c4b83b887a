CONSTANTS
  a1 = a1
  a2 = a2
  a3 = a3
  p1 = p1
  before = before
  after = after
  d1 = d1
  d2 = d2
  u1 = u1
  u2 = u2
  NoPath = NoPath
  Missing = Missing
  NoOne = NoOne
  OtherTool = OtherTool
  Approvals = {a1, a3}
  Deciders = {d1, d2}
  Undoers = {u1}
  Cancels = {c1}
  Paths = {p1}
  Contents = {before, after}
  Arguments <- MCArguments
  MaxEdits = 0
  MaxCrashes = 1
SPECIFICATION FairSpec
PROPERTIES
  EveryDecisionEnds
CHECK_DEADLOCK FALSE
