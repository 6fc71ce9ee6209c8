--------------------------------- MODULE Ipkg ---------------------------------
(***************************************************************************)
(* ipkg packages (smart_build/domains/ipkg.py): the .ipk file that a build *)
(* writes and another command reads (IpkgArchive), and what installing     *)
(* them does to a root filesystem (IpkgRuntime).  The two share no state.  *)
(***************************************************************************)
EXTENDS IpkgRuntime

CONSTANTS HeaderSize, Sizes

VARIABLES written, file, offset, members, result

ReadBack == INSTANCE IpkgArchive

ASSUME ArchiveAssumption == ReadBack!ArchiveAssumption

(* A torn .ipk is refused and a complete one is read: see IpkgArchive.     *)
ReadIsExact == ReadBack!ReadIsExact
=============================================================================
