CONSTANTS
  Kinds <- SomeKinds
  Source = {1, 2}
  Makes <- SomeMakes
  MaxEdits = 2
  MayReplace = TRUE
  Files = {"main.c", "net.c"}
  Entries = {"main.c"}
  Nested = {}
  Online <- AllOnline
  Required = {"client"}
  Supported <- SomeSupported
  Choices <- SomeChoices
  Indexes <- SomeIndexes
  NoIndex = NoIndex
  CutShort = CutShort
  MaxSconsEdits = 2
  MaxFaults = 1
SPECIFICATION MCSpec
INVARIANTS SkippedIsCurrent PackedIsStaged BuildsSettle StagedIsExact
