CONSTANTS
  a1 = a1
  a2 = a2
  a3 = a3
  m1 = m1
  NoOne = NoOne
  Apps = {a1, a2}
  Maintainers = {m1}
  Head = 4
  Guarded = {3}
  Transactional = {3, 4}
  MaxFailures = 1
SPECIFICATION FairSpec
INVARIANTS
  TypeOK
  OneMigrator
  VersionIsTrue
  ServedSchemaIsHead
  AdoptsOwnRuntime
  EndedAppHasNoRuntime
PROPERTIES
  SchemaIsUpgraded
  EveryStartEnds
CHECK_DEADLOCK FALSE
