CONSTANTS
  r1 = r1
  r2 = r2
  k1 = k1
  p1 = p1
  p2 = p2
  NoKey = NoKey
  NoOne = NoOne
  Runs = {r1, r2}
  Cancels = {c1}
  Keys = {k1}
  Paths = {p1, p2}
  Requests <- MCLiveRequests
  Plans <- MCLivePlans
  MaxSteps = 2
  LeasesExpire = FALSE
  MaxCrashes = 0
SPECIFICATION Spec
PROPERTY CancelledStartsNoStep
CHECK_DEADLOCK FALSE
