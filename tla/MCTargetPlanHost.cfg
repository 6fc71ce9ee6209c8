CONSTANTS
  N = 2
  Capability = {9}
  KindOf <- HostKindOf
  Host <- HostHost
  Provides <- HostProvides
  Needs <- HostNeeds
  UsesSets <- HostUses
  Asked <- HostAsked
  MaxEdits = 0
  MaxFaults = 0
SPECIFICATION Spec
INVARIANTS
  HostToolsArePlanned
