CONSTANTS
  v1 = v1
  v2 = v2
  ps = ps
  h1 = h1
  h2 = h2
  Missing = Missing
  None = None
  Versions = {v1, v2}
  PowerShell = ps
  Helpers = {h1, h2}
  ChunkSize = 2
  MAX_OUTPUT_BYTES = 4
  MaxWritten = 5
  MaxEdits = 2
SPECIFICATION FairSpec
INVARIANTS
  TypeOK
  OnlyApprovedScriptRuns
  TimeoutKillsTree
  OutputIsAccountedFor
PROPERTIES
  EveryRunEnds
CHECK_DEADLOCK FALSE
