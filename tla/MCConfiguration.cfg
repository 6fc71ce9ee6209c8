CONSTANTS
  Machines <- MCMachines
  Toolchains <- MCToolchains
  FirstToolchain <- MCFirstToolchain
  DefaultMachine = "virt"
  Packages <- MCPackages
  Option <- MCOption
  Profiles <- MCProfiles
  DefaultProfile = "full"
  Boards <- MCBoards
  Line <- MCLine
  Sessions = {s1, s2}
  MaxMenus = 2
  MaxChoices = 1
  MaxKills = 1
  Kinds <- MCKinds
  Revisions = {"r1"}
  Patches <- MCPatches
  Fits <- FitsAt
  Sync <- Synced
  Shipped <- ShippedFiles
  Touches <- TouchedFiles
  MaxSessions = 2
  MaxSourceEdits = 0
  MaxSourceKills = 0
  Order <- ImportOrder
  BuildrootNames <- ImportNames
  NameOf <- ImportNameOf
  Token <- ImportToken
  Underscored <- ImportUnderscored
  Found <- ImportFound
  Unresolved = {"bad"}
  WithoutUrl = {"wget"}
  Depends <- ImportDepends
  UserPackages = {"curl"}
  Earlier <- EarlierImport
  MaxImports = 2
  MaxImportEdits = 1
  MaxImportKills = 1
SPECIFICATION MCSpec
INVARIANTS SavedIsBuilt MachineIsWhole PreparedIsExact ChoiceIsKept
PROPERTIES ImportIsRight
SYMMETRY AnySession
CHECK_DEADLOCK FALSE
