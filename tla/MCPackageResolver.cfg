CONSTANTS
  v1 = v1
  v2 = v2
  None = None
  N = 3
  Capability = {c}
  Version = {v1, v2}
  Supported <- MCSupported
  Default <- MCDefault
  Native = {3}
  Requests <- MCRequests
  MaxFacts = 3
SPECIFICATION FairSpec
INVARIANTS
  SelectionIsClosure
  VersionsAgree
  RefusalIsJustified
PROPERTIES
  ResolutionEnds
CHECK_DEADLOCK FALSE
