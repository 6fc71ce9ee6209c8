------------------------------- MODULE Workspace -------------------------------
(***************************************************************************)
(* What all machines of a workspace have in common: the toolchains under   *)
(* downloads/ (ToolchainInstall) and the rt-thread source with the BSPs in *)
(* it (KernelBuild).  The two share no state.                              *)
(***************************************************************************)
EXTENDS ToolchainInstall

CONSTANTS
  Machine, BspOf, Package, Index, Selections, Overlays, Sources,
  MaxKernelEdits, MaxKernelFaults

VARIABLES
  source, clone, defconfig, overlay, bsp, image, kernelProc, beside, kernelEdits, kernelFaults

K == INSTANCE KernelBuild WITH
  MaxEdits <- MaxKernelEdits, MaxFaults <- MaxKernelFaults,
  proc <- kernelProc, edits <- kernelEdits, faults <- kernelFaults

ASSUME KernelConstants == K!KernelAssumption

(* A kernel has the packages that its machine selects: see KernelBuild.    *)
KernelIsExact == K!KernelIsExact

(* rt-thread is put into place once, whole, and stays: see KernelBuild.    *)
ImplementsShared == K!ImplementsShared
=============================================================================
