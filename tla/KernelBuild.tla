----------------------------- MODULE KernelBuild -----------------------------
(***************************************************************************)
(* The RT-Thread source (smart_build/domains/sources.py), the packages of  *)
(* the kernel and the kernel itself (domains/kernel.py, env_packages.py),  *)
(* and `configure kernel`.  All machines share the workspace's rt-thread/; *)
(* machines of one BSP share its directory: .config, packages/, overlays   *)
(* and rtthread.bin.  RT-Thread's own tools are the environment.           *)
(***************************************************************************)
EXTENDS Naturals, FiniteSets

CONSTANTS
  Machine,
  BspOf,       \* BspOf[m]: the BSP of a machine
  Package,     \* a package in a version: the name of its directory
  Index,       \* those that Env's package index knows
  Selections,  \* sets of packages that a kernel_defconfig may select
  Overlays,    \* versions of the overlay file; "packages" is a forbidden one
  Sources,     \* what rt-thread may be in the beginning
  MaxEdits, MaxFaults

\* What the constants have to be; assumed by the module that gives them values.
KernelAssumption ==
  /\ DOMAIN BspOf = Machine
  /\ \A s \in Selections : s \subseteq Package
  /\ Sources \subseteq {"absent", "whole", "invalid"}
  /\ MaxEdits \in Nat /\ MaxFaults \in Nat

VARIABLES
  source,      \* rt-thread/: "absent", "whole" or "invalid"
  clone,       \* clone[m]: the clone beside it
  defconfig,   \* defconfig[m]: the packages that kernel_defconfig selects
  overlay,     \* overlay[m]: kernel-overlay/ of a machine
  bsp,         \* bsp[b]: [config, recorded, errors, installed, overlay, kernel]
  image,       \* image[m]: images/rtthread.bin
  proc,        \* proc[m]: the command that runs for a machine
  beside,      \* history: machines whose BSP another command has used as well
  edits, faults

vars == <<source, clone, defconfig, overlay, bsp, image, proc, beside, edits, faults>>

Bsp == {BspOf[m] : m \in Machine}
\* A package's directory: "torn" has an SConscript but not all files, "bare"
\* has no SConscript; neither is ever recorded.
Installed == {"none", "whole", "torn", "bare"}
None == [selected |-> {}, built |-> {}, overlay |-> "none"]
NoKernel == [None EXCEPT !.overlay = "no kernel"]
Idle == [pc |-> "idle", seen |-> {}, overlay |-> "none"]
Working(m) == proc[m].pc \notin {"idle", "done", "saved", "failed"}

Init ==
  /\ source \in Sources
  /\ clone = [m \in Machine |-> "none"]
  /\ defconfig \in [Machine -> Selections]
  /\ overlay = [m \in Machine |-> "none"]
  /\ bsp = [b \in Bsp |-> [config |-> {}, recorded |-> {}, errors |-> FALSE, overlay |-> "none",
                          installed |-> [p \in Package |-> "none"], kernel |-> NoKernel]]
  /\ image = [m \in Machine |-> NoKernel]
  /\ proc = [m \in Machine |-> Idle]
  /\ beside = {} /\ edits = 0 /\ faults = 0

B(m) == bsp[BspOf[m]]
Goto(m, place) == proc' = [proc EXCEPT ![m].pc = place]
Set(m, value) == bsp' = [bsp EXCEPT ![BspOf[m]] = value]

Begin(m) ==
  /\ ~ Working(m)
  /\ \E place \in {"source", "seed"} : proc' = [proc EXCEPT ![m] = [Idle EXCEPT !.pc = place]]
  /\ LET others == {n \in Machine \ {m} : Working(n) /\ BspOf[n] = BspOf[m]}
     IN  beside' = (beside \ {m}) \cup others \cup (IF others = {} THEN {} ELSE {m})
  /\ UNCHANGED <<source, clone, defconfig, overlay, bsp, image, edits, faults>>

-----------------------------------------------------------------------------
(* source:rt-thread                                                         *)

Source(m) ==
  /\ proc[m].pc = "source"
  /\ CASE source = "whole" -> Goto(m, "packages") /\ clone' = clone
       [] source = "invalid" -> Goto(m, "failed") /\ clone' = clone
       [] OTHER -> Goto(m, "clone") /\ clone' = [clone EXCEPT ![m] = "none"]
  /\ UNCHANGED <<source, defconfig, overlay, bsp, image, beside, edits, faults>>

\* git clone wants a directory that is not there.
Clone(m) ==
  /\ proc[m].pc = "clone"
  /\ IF clone[m] # "none"
     THEN Goto(m, "failed") /\ clone' = clone
     ELSE Goto(m, "rename") /\ clone' = [clone EXCEPT ![m] = "whole"]
  /\ UNCHANGED <<source, defconfig, overlay, bsp, image, beside, edits, faults>>

\* A fault: what is there is removed first.
RenameOver(m) ==
  /\ proc[m].pc = "rename"
  /\ \/ source # "absent" /\ source' = "absent" /\ UNCHANGED <<proc, clone>>
     \/ /\ source = "absent"
        /\ source' = clone[m] /\ Goto(m, "packages") /\ clone' = [clone EXCEPT ![m] = "none"]
  /\ UNCHANGED <<defconfig, overlay, bsp, image, beside, edits, faults>>

\* A rename onto a directory of files fails.
Rename(m) ==
  /\ proc[m].pc = "rename"
  /\ IF source = "absent"
     THEN source' = clone[m] /\ Goto(m, "packages")
     ELSE source' = source /\ Goto(m, "failed")
  /\ clone' = [clone EXCEPT ![m] = "none"]
  /\ UNCHANGED <<defconfig, overlay, bsp, image, beside, edits, faults>>

-----------------------------------------------------------------------------
(* kernel:packages:update                                                   *)

CopyDefconfig(m) ==
  /\ proc[m].pc = "packages"
  /\ Set(m, [B(m) EXCEPT !.config = defconfig[m]])
  /\ proc' = [proc EXCEPT ![m] = [@ EXCEPT !.pc = "normalize", !.seen = defconfig[m]]]
  /\ UNCHANGED <<source, clone, defconfig, overlay, image, beside, edits, faults>>

\* scons --pyconfig-silent: a symbol that the index does not have goes.
Normalize(m) ==
  /\ proc[m].pc = "normalize"
  /\ Set(m, [B(m) EXCEPT !.config = @ \cap Index])
  /\ Goto(m, "before")
  /\ UNCHANGED <<source, clone, defconfig, overlay, image, beside, edits, faults>>

\* Directories with an SConscript would be built; those that pkgs.json does
\* not list are removed.
RemoveUnrecorded(b) ==
  [b EXCEPT !.installed = [p \in Package |->
     IF p \notin b.recorded /\ b.installed[p] \in {"whole", "torn"} THEN "none" ELSE b.installed[p]]]

RemoveBefore(m) ==
  /\ proc[m].pc = "before"
  /\ Set(m, RemoveUnrecorded(B(m)))
  /\ Goto(m, "update")
  /\ UNCHANGED <<source, clone, defconfig, overlay, image, beside, edits, faults>>

\* pkgs --force-update.  What it has dropped may still be there in the end.
Update(m) ==
  /\ proc[m].pc = "update"
  /\ \E left \in SUBSET (B(m).recorded \ B(m).config) :
       Set(m, [B(m) EXCEPT !.recorded = B(m).config \cap Index,
                 !.errors = ~ (B(m).config \subseteq Index),
                 !.installed = [p \in Package |->
                    IF p \in B(m).config \cap Index THEN "whole"
                    ELSE IF p \in B(m).recorded \ left THEN "none" ELSE B(m).installed[p]]])
  /\ Goto(m, "check")
  /\ UNCHANGED <<source, clone, defconfig, overlay, image, beside, edits, faults>>

\* It may fall short of a package, with a status that says so or not, having
\* recorded the others or nothing.
UpdateFails(m) ==
  /\ proc[m].pc = "update" /\ faults < MaxFaults
  /\ faults' = faults + 1
  /\ \E p \in B(m).config \cap Index, left \in {"none", "torn", "bare"}, silent, listed \in BOOLEAN :
       /\ Set(m, [B(m) EXCEPT !.recorded = IF listed THEN (B(m).config \cap Index) \ {p} ELSE @ \ {p},
                    !.errors = ~ silent, !.installed[p] = left])
       /\ Goto(m, IF listed THEN "check" ELSE "failed")
  /\ UNCHANGED <<source, clone, defconfig, overlay, image, beside, edits>>

\* A fault: only reported errors count.
CheckErrors(m) ==
  /\ proc[m].pc = "check"
  /\ Goto(m, IF B(m).errors THEN "failed" ELSE "after")
  /\ UNCHANGED <<source, clone, defconfig, overlay, bsp, image, beside, edits, faults>>

\* read_env_package_state: no errors, every recorded package there, and
\* recorded exactly what .config selects.
CheckState(m) ==
  /\ proc[m].pc = "check"
  /\ Goto(m, IF /\ ~ B(m).errors
                /\ \A p \in B(m).recorded : B(m).installed[p] # "none"
                /\ B(m).recorded = B(m).config
             THEN "after" ELSE "failed")
  /\ UNCHANGED <<source, clone, defconfig, overlay, bsp, image, beside, edits, faults>>

RemoveAfter(m) ==
  /\ proc[m].pc = "after"
  /\ Set(m, RemoveUnrecorded(B(m)))
  /\ Goto(m, "overlay")
  /\ UNCHANGED <<source, clone, defconfig, overlay, image, beside, edits, faults>>

-----------------------------------------------------------------------------
(* kernel:build                                                             *)

\* All overlay files are looked at before the first one is copied.
Overlay(m) ==
  /\ proc[m].pc = "overlay"
  /\ IF overlay[m] = "packages"
     THEN Goto(m, "failed") /\ bsp' = bsp
     ELSE /\ Set(m, [B(m) EXCEPT !.overlay = IF overlay[m] = "none" THEN @ ELSE overlay[m]])
          /\ proc' = [proc EXCEPT ![m] = [@ EXCEPT !.pc = "scons", !.overlay = overlay[m]]]
  /\ UNCHANGED <<source, clone, defconfig, overlay, image, beside, edits, faults>>

\* scons compiles every package directory with an SConscript.
Scons(m) ==
  /\ proc[m].pc = "scons"
  /\ Set(m, [B(m) EXCEPT !.kernel =
       [selected |-> B(m).config, overlay |-> B(m).overlay,
        built |-> {<<p, B(m).installed[p]>> : p \in {q \in Package : B(m).installed[q] \in {"whole", "torn"}}}]])
  /\ Goto(m, "install")
  /\ UNCHANGED <<source, clone, defconfig, overlay, image, beside, edits, faults>>

Install(m) ==
  /\ proc[m].pc = "install"
  /\ IF B(m).kernel = NoKernel
     THEN Goto(m, "failed") /\ image' = image
     ELSE Goto(m, "done") /\ image' = [image EXCEPT ![m] = B(m).kernel]
  /\ UNCHANGED <<source, clone, defconfig, overlay, bsp, beside, edits, faults>>

-----------------------------------------------------------------------------
(* configure kernel: .config is seeded from the defconfig, edited in the    *)
(* BSP and copied back beside and renamed.                                  *)

Seed(m) ==
  /\ proc[m].pc = "seed"
  /\ IF source # "whole"
     THEN Goto(m, "failed") /\ bsp' = bsp
     ELSE Goto(m, "menu") /\ Set(m, [B(m) EXCEPT !.config = defconfig[m]])
  /\ UNCHANGED <<source, clone, defconfig, overlay, image, beside, edits, faults>>

\* The user changes something or not; the menu knows the index's symbols only.
Menu(m) ==
  /\ proc[m].pc = "menu"
  /\ \E selection \in {B(m).config} \cup (IF edits < MaxEdits THEN Selections ELSE {}) :
       /\ edits' = IF selection = B(m).config THEN edits ELSE edits + 1
       /\ Set(m, [B(m) EXCEPT !.config = selection \cap Index])
       /\ proc' = [proc EXCEPT ![m] =
            [@ EXCEPT !.pc = "save",
                      !.seen = Index \cap IF selection = B(m).config THEN defconfig[m] ELSE selection]]
  /\ UNCHANGED <<source, clone, defconfig, overlay, image, beside, faults>>

Save(m) ==
  /\ proc[m].pc = "save"
  /\ defconfig' = [defconfig EXCEPT ![m] = B(m).config]
  /\ Goto(m, "saved")
  /\ UNCHANGED <<source, clone, overlay, bsp, image, beside, edits, faults>>

\* A command that fails, or a kill: what is on disk stays.
Fail(m) ==
  /\ Working(m) /\ faults < MaxFaults
  /\ faults' = faults + 1
  /\ Goto(m, "failed")
  /\ UNCHANGED <<source, clone, defconfig, overlay, bsp, image, beside, edits>>

EditOverlay ==
  /\ edits < MaxEdits
  /\ edits' = edits + 1
  /\ \E m \in Machine, o \in Overlays : overlay' = [overlay EXCEPT ![m] = o]
  /\ UNCHANGED <<source, clone, defconfig, bsp, image, proc, beside, faults>>

Step(m) ==
  \/ Source(m) \/ Clone(m) \/ Rename(m)
  \/ CopyDefconfig(m) \/ Normalize(m) \/ RemoveBefore(m) \/ Update(m) \/ CheckState(m) \/ RemoveAfter(m)
  \/ Overlay(m) \/ Scons(m) \/ Install(m)
  \/ Seed(m) \/ Menu(m) \/ Save(m)

Next == EditOverlay \/ \E m \in Machine : Begin(m) \/ Step(m) \/ UpdateFails(m) \/ Fail(m)

Spec == Init /\ [][Next]_vars

-----------------------------------------------------------------------------
Places ==
  {"idle", "source", "clone", "rename", "packages", "normalize", "before", "update", "check",
   "after", "overlay", "scons", "install", "done", "seed", "menu", "save", "saved", "failed"}
OverlayFiles == Overlays \cup {"none"}
Kernel == [selected : SUBSET Package, built : SUBSET (Package \X Installed),
           overlay : OverlayFiles \cup {"no kernel"}]

TypeOK ==
  /\ source \in {"absent", "whole", "invalid"}
  /\ clone \in [Machine -> {"none", "whole"}]
  /\ defconfig \in [Machine -> SUBSET Package]
  /\ overlay \in [Machine -> OverlayFiles]
  /\ bsp \in [Bsp -> [config : SUBSET Package, recorded : SUBSET (Package \cap Index),
                      errors : BOOLEAN, overlay : OverlayFiles,
                      installed : [Package -> Installed], kernel : Kernel]]
  /\ image \in [Machine -> Kernel]
  /\ proc \in [Machine -> [pc : Places, seen : SUBSET Package, overlay : OverlayFiles]]
  /\ beside \subseteq Machine /\ edits \in 0..MaxEdits /\ faults \in 0..MaxFaults
  \* Only a finished clone is renamed.
  /\ \A m \in Machine : proc[m].pc = "rename" => clone[m] = "whole"

(* A kernel that has been built without another command in its BSP has the  *)
(* packages that its machine's defconfig selects, as far as Env knows them, *)
(* all of them whole, and no other: nothing of an earlier selection, of     *)
(* another machine of the BSP, or of an update that has failed.  An overlay *)
(* of the machine is in it.                                                 *)
KernelIsExact ==
  \A m \in Machine \ beside :
    proc[m].pc = "done" =>
      LET wanted == proc[m].seen \cap Index
      IN  /\ image[m].selected = wanted
          /\ image[m].built = {<<p, "whole">> : p \in wanted}
          /\ proc[m].overlay # "none" => image[m].overlay = proc[m].overlay

BehindSource == {m \in Machine : proc[m].pc \in
  {"packages", "normalize", "before", "update", "check", "after", "overlay", "scons",
   "install", "done"}}
Shared == INSTANCE PublishedOnce WITH
  Users <- Machine, Absent <- "absent", Right <- {"whole"},
  object <- source, using <- BehindSource

(* However many builds clone rt-thread at once and fail at it, it is put    *)
(* into place once, whole, and stays; a build goes on only with that, and   *)
(* what is not a source is left as it is and used by nobody.                *)
ImplementsShared == Shared!Spec

=============================================================================
