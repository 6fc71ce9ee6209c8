CONSTANTS
  v1 = v1
  source = source
  lib = lib
  app = app
  Absent = Absent
  Partial = Partial
  None = None
  Torn = Torn
  Task = {}
  Cached = {}
  Version = {v1, v2}
  Content <- Nothing
  Reads <- Nothing
  Hashed <- Nothing
  Deps <- Nothing
  Build <- MCBuild
  Target <- NoTarget
  MaxBuilds = 0
  MaxEdits = 0
  N = 3
  Name = {a, b, c, d}
SPECIFICATION GraphSpec
INVARIANTS
  GraphTypeOK
  OrderIsRight
  CycleReportIsExact
PROPERTIES
  SortEnds
CHECK_DEADLOCK FALSE
