CONSTANTS
  v1 = v1
  v2 = v2
  None = None
  N = 3
  Capability = {c}
  Version = {v1, v2}
  Supported <- MCSupported
  Default <- MCDefault
  Native = {3}
  Requests <- MCRequests
  MaxFacts = 2
SPECIFICATION Spec
INVARIANTS
  DependsAreRequired
CHECK_DEADLOCK FALSE
