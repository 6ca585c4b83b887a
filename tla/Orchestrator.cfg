CONSTANTS
  r1 = r1
  r2 = r2
  k1 = k1
  p1 = p1
  p2 = p2
  NoKey = NoKey
  NoOne = NoOne
  Runs = {r1, r2}
  Cancels = {c1}
  Keys = {k1}
  Paths = {p1, p2}
  Requests <- MCRequests
  Plans <- MCPlans
  MaxSteps = 2
  LeasesExpire = TRUE
  MaxCrashes = 1
SPECIFICATION Spec
INVARIANTS
  TypeOK
  StepsInOrder
  CompletedMeansAllSteps
  SettledTaskHasSettledSteps
  EndedRunHoldsNoLease
  ToolsSerialised
PROPERTIES
  CancelledStaysCancelled
  SubmissionIsIdempotent
SYMMETRY MCSymmetry
CHECK_DEADLOCK FALSE
