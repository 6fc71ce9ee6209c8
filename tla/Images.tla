-------------------------------- MODULE Images --------------------------------
(***************************************************************************)
(* What a build leaves in images/: the root filesystem and its image       *)
(* (RootfsImage), the image's size (ImageSize), and BusyBox's tree, binary *)
(* and image (Busybox).  They meet in the image, of which they look at     *)
(* different things, and share no state.                                   *)
(***************************************************************************)
EXTENDS RootfsImage

CONSTANTS
  Files, FileSizes, Configured, Machines,
  Version, MaxMakeEdits, MaxMakeFaults

VARIABLES
  machine, kind, mode, configured, files, fileSize, size,
  archive, config, patches, context, tree, dotConfig, marker, install, prepared, built,
  rootfs, image, makePc, command, read, makeEdits, makeFaults, quiet, calm, doubt

Size == INSTANCE ImageSize

Make == INSTANCE Busybox WITH
  MaxEdits <- MaxMakeEdits, MaxFaults <- MaxMakeFaults,
  pc <- makePc, edits <- makeEdits, faults <- makeFaults

ASSUME SizeAssumption == Size!SizeAssumption
ASSUME BusyboxAssumption == Make!BusyboxAssumption

(* An image holds what is staged, and the machine takes its size: see      *)
(* ImageSize.                                                              *)
ImageIsUsable == Size!ImageIsUsable

(* An image is made from what there is now: see Busybox.                   *)
ImageIsCurrent == Make!ImageIsCurrent

(* A second build makes nothing: see Busybox.                              *)
SecondBuildSkips == Make!SecondBuildSkips
=============================================================================
