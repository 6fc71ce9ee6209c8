------------------------------ MODULE MCSources ------------------------------
(* ToolchainInstall and KernelBuild share no state: each behaviour moves one *)
(* of them, part, and leaves the other where it started.  KernelBuild is     *)
(* there twice: machines of one BSP, with edits, and machines of a BSP each, *)
(* which can run at once without sharing more than rt-thread/.               *)
EXTENDS Workspace, TLC

VARIABLE part

kernelVars == <<source, clone, defconfig, overlay, bsp, image, kernelProc, beside,
                kernelEdits, kernelFaults>>

\* The releases of qemu-vexpress-a9: one from Env SDK only, one to download.
R7 == [version |-> "7", package |-> "stable", downloadable |-> FALSE]
R12 == [version |-> "12", package |-> "latest", downloadable |-> TRUE]
MCRelease == {R7, R12}
Torn12 == [Whole(R12) EXCEPT !.has = @ \ {"g++"}]
NoDir == [gcc |-> "none", has |-> {"file"}, dir |-> FALSE]

MCRoots ==
  (<<"custom">> :> {Absent, Whole(R12), NoDir})
    @@ (EnvRoot(R7) :> {Absent, Whole(R7)}) @@ (EnvRoot(R12) :> {Absent, Whole(R12)})
    @@ (InstallRoot(R7) :> {Absent}) @@ (InstallRoot(R12) :> {Absent})
    @@ (LegacyRoot(R7) :> {Absent}) @@ (LegacyRoot(R12) :> {Absent, Torn12})

\* The first kind, in Workspace; "old" and "new" are versions of one package,
\* "gone" is not in the index.
MCBspOf == [m \in Machine |-> "bsp"]
MCSelections == {{"old"}, {"new", "gone"}}

BspEach == INSTANCE KernelBuild WITH
  BspOf <- [m \in Machine |-> m],
  Selections <- {{"old", "gone"}}, Overlays <- {"v1"},
  Sources <- {"absent", "invalid"}, MaxEdits <- 0, MaxFaults <- 2,
  proc <- kernelProc, edits <- kernelEdits, faults <- kernelFaults

ASSUME BspEachConstants == BspEach!KernelAssumption

ToolchainAtRest ==
  /\ config = [release |-> R7, custom |-> FALSE]
  /\ \A d \in Root : root[d] = Absent
  /\ \A r \in Release : archive[r] = "none"

MCInit ==
  /\ part \in {"toolchain", "one BSP", "BSP each"}
  /\ Init
  /\ part # "toolchain" => ToolchainAtRest
  /\ IF part = "one BSP" THEN K!Init ELSE BspEach!Init
  /\ part = "toolchain" => source = "absent"

MCNext ==
  \/ part = "toolchain" /\ Next /\ UNCHANGED <<part, kernelVars>>
  \/ part = "one BSP" /\ K!Next /\ UNCHANGED <<part, vars>>
  \/ part = "BSP each" /\ BspEach!Next /\ UNCHANGED <<part, vars>>

MCSpec == MCInit /\ [][MCNext]_<<part, vars, kernelVars>>

\* Of what follows when two commands use a BSP at once nothing is promised.
MCAlone == beside = {}
=============================================================================
