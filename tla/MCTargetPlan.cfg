CONSTANTS
  N = 5
  Capability = {9}
  KindOf <- MCKindOf
  Host <- MCHost
  Provides <- MCProvides
  Needs <- MCNeeds
  UsesSets <- MCUses
  Asked <- MCAsked
  MaxEdits = 1
  MaxFaults = 1
SPECIFICATION Spec
INVARIANTS
  PlanIsReal
  StagesAreFresh
