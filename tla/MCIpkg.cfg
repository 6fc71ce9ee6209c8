CONSTANTS
  Path <- MCPath
  Archive <- MCArchive
  Name <- MCName
  Content = {"c", "v1", "v2", "e", "s"}
  PackageName <- MCPackageName
  Members <- MCMembers
  Broken = {"cut"}
  Base <- BaseWithFile
  MaxKills = 2
  MaxErrors = 1
  HeaderSize = 2
  Sizes <- MCSizes
SPECIFICATION MCSpec
INVARIANTS InstalledComplete FilesHaveOwners ReadIsExact
PROPERTIES FailedInstallIsNothingOrAll
