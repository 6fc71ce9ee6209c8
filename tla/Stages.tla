-------------------------------- MODULE Stages --------------------------------
(***************************************************************************)
(* What the packages' builds leave in their staging directories: those     *)
(* whose backend writes its commands itself (PackageStage), and those that *)
(* RT-Thread's scripts build (SconsPackage).  A package has one backend;   *)
(* the two share no state.                                                 *)
(***************************************************************************)
EXTENDS PackageStage, Sequences

CONSTANTS
  Files, Entries, Nested, Online, Required, Supported, Choices, Indexes,
  NoIndex, CutShort, \* no file, and one that was cut short
  MaxSconsEdits, MaxFaults

VARIABLES
  sconsSource, defconfig, workspace, index, proc, copy, marker, sconsStage, online,
  disturbed, sconsEdits, faults

Scons == INSTANCE SconsPackage WITH
  Package <- Online, None <- NoIndex, Cut <- CutShort, MaxEdits <- MaxSconsEdits,
  source <- sconsSource, stage <- sconsStage, edits <- sconsEdits

ASSUME SconsAssumption == Scons!SconsAssumption

(* A build in RT-Thread's scripts stages what the source, the choices and   *)
(* the index say: see SconsPackage.                                         *)
StagedIsExact == Scons!StagedIsExact
=============================================================================
