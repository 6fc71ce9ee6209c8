CONSTANTS
  Process = {"p1", "p2"}
  Release <- MCRelease
  HasLoader = TRUE
  Roots <- MCRoots
  Commands = {"build", "install"}
  MaxFaults = 1
  MaxEdits = 1
  MaxCleans = 1
  Machine = {"m1", "m2"}
  BspOf <- MCBspOf
  Package = {"old", "new", "gone"}
  Index = {"old", "new"}
  Selections <- MCSelections
  Overlays = {"v1", "packages"}
  Sources = {"absent"}
  MaxKernelEdits = 1
  MaxKernelFaults = 2
SPECIFICATION MCSpec
CONSTRAINT MCAlone
INVARIANTS InstalledIsWhole SuccessIsLasting KernelIsExact
PROPERTIES ImplementsShared
