----------------------------- MODULE Configuration -----------------------------
(***************************************************************************)
(* What a user chooses and a build takes: the configuration of a machine   *)
(* (Menuconfig), the files that a package's own menu makes, which lie      *)
(* beside its package.yaml (PackageSource), and the packages that are      *)
(* taken over from Buildroot (BuildrootImport).  They are in different     *)
(* files and share no state.                                               *)
(***************************************************************************)
EXTENDS Menuconfig

CONSTANTS
  Kinds, Revisions, Patches, Fits, Sync, Shipped, Touches,
  MaxSessions, MaxSourceEdits, MaxSourceKills

VARIABLES
  declared, version, saved, tree, side, command, sessions, sourceEdits, sourceKills,
  disturbed, choice

Source == INSTANCE PackageSource WITH
  MaxEdits <- MaxSourceEdits, MaxKills <- MaxSourceKills,
  edits <- sourceEdits, kills <- sourceKills

ASSUME SourceAssumption == Source!PackageSourceAssumption

CONSTANTS
  Order, BuildrootNames, NameOf, Token, Underscored, Found, Unresolved, WithoutUrl,
  Depends, UserPackages, Earlier, MaxImports, MaxImportEdits, MaxImportKills

VARIABLES
  packages, registry, index, never, selected, job, imports, importEdits, importKills,
  removed

Import == INSTANCE BuildrootImport WITH
  Names <- BuildrootNames,
  MaxEdits <- MaxImportEdits, MaxKills <- MaxImportKills,
  edits <- importEdits, kills <- importKills

ASSUME ImportAssumption == Import!BuildrootImportAssumption

(* What is compiled is exactly the declared source: see PackageSource.     *)
PreparedIsExact == Source!PreparedIsExact

(* The last session's choice is what every machine builds: see             *)
(* PackageSource.                                                          *)
ChoiceIsKept == Source!ChoiceIsKept

(* What an import promises of the packages it writes, of the others, and   *)
(* of the index of all: see BuildrootImport.                               *)
ImportIsRight == Import!ImportIsRight
=============================================================================
