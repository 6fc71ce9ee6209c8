CONSTANTS
  v1 = v1
  source = source
  lib = lib
  app = app
  Absent = Absent
  Partial = Partial
  None = None
  Torn = Torn
  Task <- MCTask
  Cached = {lib, app}
  Version = {v1, v2}
  Content <- MCContent
  Reads <- MCReads
  Hashed <- MCReads
  Deps <- MCReads
  Build <- MCBuild
  Target <- MCTarget
  MaxBuilds = 3
  MaxEdits = 2
  N = 0
  Name = {a}
SPECIFICATION MCSpec
INVARIANTS
  HitIsFresh
  IncrementalEqualsClean
  SettledBuildOnlySkips
PROPERTIES
  ImplementsOrder
  BuildEnds
CHECK_DEADLOCK FALSE
