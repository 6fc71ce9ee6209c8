CONSTANTS
  Path <- MCPath
  Package <- MCPackage
  Provides <- MCProvides
  Selections <- MCSelections
  BaseFiles <- MCBaseFiles
  LibraryFiles <- MCLibraryFiles
  Smoker = {s1, s2}
  MaxEdits = 1
  MaxFaults = 1
  \* From nothing to 30000 files, from 256 bytes to 2 MiB, and every size that
  \* the configuration can name: images from 1 MiB to 256 GiB, 512 MiB exactly
  \* among them.
  Files = {0, 1, 3, 40, 300, 5000, 30000}
  FileSizes = {1, 3, 4, 5, 16, 1000, 8192}
  Configured = {1, 4, 8, 16, 32, 64, 128, 256, 512, 1024}
  Machines = {"sd", "virtio"}
  \* Two versions of everything, two edits and two failures.
  Version = {1, 2}
  MaxMakeEdits = 2
  MaxMakeFaults = 2
SPECIFICATION MCSpec
INVARIANTS ImageIsExact SmokeBootsItsImage ImageIsUsable ImageIsCurrent
PROPERTIES SecondBuildSkips
CHECK_DEADLOCK FALSE
