----------------------------- MODULE RootfsImage -----------------------------
(***************************************************************************)
(* From packages to a booted image: the root filesystem is staged          *)
(* (smart_build/domains/rootfs.py), made an image that replaces those of   *)
(* other selections (image.py, busybox.py), a launcher is written, and     *)
(* `qemu-smoke` boots a copy of the image (qemu.py).  A build and smoke    *)
(* tests run at the same time: nothing excludes them from each other.      *)
(***************************************************************************)
EXTENDS Naturals, FiniteSets, Sequences

CONSTANTS
  Path, Package,
  Provides,    \* Provides[p]: the files of a package, path -> content
  Selections,  \* [kind, packages]: what the configuration may select
  BaseFiles, LibraryFiles, \* of BusyBox's root filesystem; runtime libraries
  Smoker,      \* smoke tests that run at once
  MaxEdits, MaxFaults

None == "none"
Kinds == {"minimal", "basic", "full"}
Names == {"minirootfs", "busybox-rootfs", "rootfs"}

ASSUME ProvidesAssumption ==
  /\ \A p \in Package : DOMAIN Provides[p] \subseteq Path
  /\ DOMAIN BaseFiles \subseteq Path /\ DOMAIN LibraryFiles \subseteq Path
\* Files that are not a package's have a source of their own in the manifest.
ASSUME SourceAssumption == "busybox" \notin Package /\ "toolchain" \notin Package
ASSUME SelectionAssumption ==
  \A s \in Selections : s.kind \in Kinds /\ s.packages \in Seq(Package)
ASSUME BoundAssumption == MaxEdits \in Nat /\ MaxFaults \in Nat

VARIABLES
  selection,        \* the configuration
  staged, sources,  \* staging/rootfs-minimal: path -> content; what each came from
  manifest,         \* its manifest file
  alias, images,    \* images/: the old name of the minimal image, and the others
  launcher,         \* the default image in run_qemu_nographic.sh
  pc, plan, at,     \* the build at hand, the selection it was planned for
  smoke,            \* smoke[s]: [pc, name, boots, passed] of a smoke test
  copies,           \* the copies that smoke tests boot
  edits, faults,
  busy,             \* history: smoke tests that something ran beside
  left              \* history: images whose copy a test that was stopped has left

disk == <<staged, sources, manifest, alias, images, launcher>>
build == <<pc, plan, at>>
vars == <<selection, disk, build, smoke, copies, edits, faults, busy, left>>

Building == pc \notin {"idle", "done", "failed"}
Image(kind) == CASE kind = "minimal" -> "minirootfs" [] kind = "basic" -> "busybox-rootfs"
                 [] OTHER -> "rootfs"

\* Images are known by the tree they were made from; "zeros" before mke2fs
\* has run, "foreign": a link or another file that the user has put there.
Missing == [is |-> "missing"]
Zeros == [is |-> "zeros"]
Foreign == [is |-> "foreign"]
Whole(i) == i.is \in Kinds
Goto(place) == pc' = place
NoFiles == [p \in {} |-> None]
Over(new, old) == [p \in DOMAIN new \cup DOMAIN old |-> IF p \in DOMAIN new THEN new[p] ELSE old[p]]
Tree(kind) == [is |-> kind, tree |-> staged]

Init ==
  /\ selection \in Selections
  /\ staged = NoFiles /\ sources = NoFiles /\ manifest = [entries |-> NoFiles, sources |-> NoFiles]
  /\ alias \in {None, "own", "linkOfImage", "foreign"}
  /\ images \in [Names -> {Missing, Foreign}]
  /\ Cardinality({n \in Names : images[n] = Foreign}) <= 1
  /\ launcher = None
  /\ pc = "idle" /\ plan = selection /\ at = 1
  /\ smoke = [s \in Smoker |-> [pc |-> "idle", name |-> None, boots |-> Missing, passed |-> FALSE]]
  /\ copies = [n \in Names |-> Missing]
  /\ edits = 0 /\ faults = 0 /\ busy = {} /\ left = {}

Start ==
  /\ ~ Building
  /\ plan' = selection /\ at' = 1
  /\ Goto(IF selection.kind = "basic" THEN "removeOthers" ELSE "stage")
  /\ busy' = {s \in Smoker : smoke[s].pc # "idle"}
  /\ UNCHANGED <<selection, disk, smoke, copies, edits, faults, left>>

-----------------------------------------------------------------------------
(* rootfs:stage                                                             *)

\* A fault: what an earlier build has staged is only added to.
KeepStaged ==
  /\ pc = "stage"
  /\ Goto("base")
  /\ UNCHANGED <<selection, disk, plan, at, smoke, copies, edits, faults, busy, left>>

RemoveStaged ==
  /\ pc = "stage"
  /\ staged' = NoFiles /\ sources' = NoFiles
  /\ Goto("base")
  /\ UNCHANGED <<selection, manifest, alias, images, launcher, plan, at, smoke, copies,
                 edits, faults, busy, left>>

CopyBase ==
  /\ pc = "base"
  /\ LET base == IF plan.kind = "full" THEN BaseFiles ELSE NoFiles
     IN  /\ staged' = Over(base, staged)
         /\ sources' = Over([p \in DOMAIN base |-> "busybox"], sources)
  /\ Goto("libraries")
  /\ UNCHANGED <<selection, manifest, alias, images, launcher, plan, at, smoke, copies,
                 edits, faults, busy, left>>

\* Runtime libraries replace what is there.
CopyLibraries ==
  /\ pc = "libraries"
  /\ staged' = Over(LibraryFiles, staged)
  /\ sources' = Over([p \in DOMAIN LibraryFiles |-> "toolchain"], sources)
  /\ Goto("packages")
  /\ UNCHANGED <<selection, manifest, alias, images, launcher, plan, at, smoke, copies,
                 edits, faults, busy, left>>

\* install_ipkg: files that are there must be the same.
InstallPackage ==
  /\ pc = "packages" /\ at <= Len(plan.packages)
  /\ LET p == plan.packages[at]
         conflict == \E f \in DOMAIN Provides[p] \cap DOMAIN staged : staged[f] # Provides[p][f]
     IN  IF conflict
         THEN Goto("failed") /\ UNCHANGED <<staged, sources, at>>
         ELSE /\ staged' = Over(Provides[p], staged)
              /\ sources' = Over([f \in DOMAIN Provides[p] |-> p], sources)
              /\ at' = at + 1 /\ pc' = pc
  /\ UNCHANGED <<selection, manifest, alias, images, launcher, plan, smoke, copies,
                 edits, faults, busy, left>>

Manifest == [entries |-> staged, sources |-> sources]

WriteManifest ==
  /\ pc = "packages" /\ at > Len(plan.packages)
  /\ manifest' = Manifest
  /\ Goto(IF plan.kind = "minimal" THEN "removeAlias" ELSE "removeOthers")
  /\ UNCHANGED <<selection, staged, sources, alias, images, launcher, plan, at, smoke,
                 copies, edits, faults, busy, left>>

-----------------------------------------------------------------------------
(* minirootfs:image, rootfs:image, busybox-rootfs:image                     *)

\* The minimal image had another name once: that file is removed, and with it
\* the image, if it is a hard link to the same file.
RemoveAlias ==
  /\ pc = "removeAlias"
  /\ IF alias = "foreign"
     THEN Goto("failed") /\ UNCHANGED <<alias, images>>
     ELSE /\ alias' = None
          /\ images' = IF alias = "linkOfImage" /\ images["minirootfs"] # Foreign
                       THEN [images EXCEPT !["minirootfs"] = Missing] ELSE images
          /\ Goto("removeOthers")
  /\ UNCHANGED <<selection, staged, sources, manifest, launcher, plan, at, smoke, copies,
                 edits, faults, busy, left>>

Replaced == IF plan.kind = "basic" THEN {} ELSE Names \ {Image(plan.kind)}

\* Images of the other selections go one by one; a link among them stops the
\* build, after those before it are gone.  BusyBox's image removes none.
RemoveOthers ==
  /\ pc = "removeOthers"
  /\ \/ \E n \in Replaced :
          /\ images[n] \notin {Missing, Foreign}
          /\ images' = [images EXCEPT ![n] = Missing] /\ pc' = pc
     \/ (\E n \in Replaced : images[n] = Foreign) /\ Goto("failed") /\ images' = images
     \/ (\A n \in Replaced : images[n] = Missing) /\ Goto("image") /\ images' = images
  /\ UNCHANGED <<selection, staged, sources, manifest, alias, launcher, plan, at, smoke,
                 copies, edits, faults, busy, left>>

PrepareImage ==
  /\ pc = "image"
  /\ LET n == Image(plan.kind)
     IN  IF images[n] = Foreign
         THEN Goto("failed") /\ images' = images
         ELSE Goto("mke2fs") /\ images' = [images EXCEPT ![n] = Zeros]
  /\ UNCHANGED <<selection, staged, sources, manifest, alias, launcher, plan, at, smoke,
                 copies, edits, faults, busy, left>>

MakeImage ==
  /\ pc = "mke2fs"
  /\ images' = [images EXCEPT ![Image(plan.kind)] =
                  IF plan.kind = "basic" THEN [is |-> "basic", tree |-> BaseFiles]
                  ELSE Tree(plan.kind)]
  /\ Goto("launcher")
  /\ UNCHANGED <<selection, staged, sources, manifest, alias, launcher, plan, at, smoke,
                 copies, edits, faults, busy, left>>

\* qemu-script:generate.
WriteLauncher ==
  /\ pc = "launcher"
  /\ launcher' = Image(plan.kind)
  /\ Goto("done")
  /\ UNCHANGED <<selection, staged, sources, manifest, alias, images, plan, at, smoke,
                 copies, edits, faults, busy, left>>

Fail ==
  /\ Building /\ faults < MaxFaults
  /\ faults' = faults + 1
  /\ Goto("failed")
  /\ UNCHANGED <<selection, disk, plan, at, smoke, copies, edits, busy, left>>

Select ==
  /\ edits < MaxEdits
  /\ edits' = edits + 1
  /\ selection' \in Selections
  /\ UNCHANGED <<disk, build, smoke, copies, faults, busy, left>>

-----------------------------------------------------------------------------
(* qemu-smoke.  The image is the one named, or the configuration's; it is   *)
(* copied, the copy is booted and written to, and removed in the end.       *)

Smoke(s) ==
  /\ smoke[s].pc = "idle" /\ launcher # None
  /\ \E n \in {Image(selection.kind)} \cup Names :
       /\ images[n] \notin {Missing, Foreign}
       /\ smoke' = [smoke EXCEPT ![s] = [pc |-> "copy", name |-> n, boots |-> Missing, passed |-> FALSE]]
  /\ busy' = LET others == {t \in Smoker \ {s} : smoke[t].pc # "idle"}
             IN  (busy \ {s}) \cup others
                   \cup (IF others # {} \/ Building THEN {s} ELSE {})
  /\ UNCHANGED <<selection, disk, build, copies, edits, faults, left>>

\* The image is opened, and the copy, which empties it; a build may have
\* removed the image meanwhile.
CopyImage(s) ==
  /\ smoke[s].pc = "copy"
  /\ LET image == images[smoke[s].name]
     IN  IF image = Missing
         THEN /\ smoke' = [smoke EXCEPT ![s].pc = "idle"]
              /\ copies' = copies
         ELSE /\ smoke' = [smoke EXCEPT ![s].pc = "copying", ![s].boots = image]
              /\ copies' = [copies EXCEPT ![smoke[s].name] = Zeros]
  /\ UNCHANGED <<selection, disk, build, edits, faults, busy, left>>

\* What is copied is the file that was opened; mke2fs may be filling it.  The
\* copy's times are set by its name, which fails when it is removed by then.
Copied(s) ==
  /\ smoke[s].pc = "copying"
  /\ IF copies[smoke[s].name] = Missing
     THEN /\ smoke' = [smoke EXCEPT ![s].pc = "idle"]
          /\ copies' = copies
     ELSE /\ \E image \in {smoke[s].boots}
                         \cup (IF smoke[s].boots = Zeros THEN {images[smoke[s].name]} \ {Missing, Foreign} ELSE {}) :
               copies' = [copies EXCEPT ![smoke[s].name] = image]
          /\ smoke' = [smoke EXCEPT ![s].pc = "boot"]
  /\ UNCHANGED <<selection, disk, build, edits, faults, busy, left>>

\* The copy fails, before the try whose end removes it, or the command is
\* killed: what there is of the copy stays, all of it if only its times fail.
StopSmoke(s) ==
  /\ smoke[s].pc # "idle" /\ faults < MaxFaults
  /\ faults' = faults + 1
  /\ LET name == smoke[s].name
     IN  /\ \/ copies' = copies
            \/ /\ smoke[s].pc = "copying" /\ copies[name] # Missing
               /\ copies' = [copies EXCEPT ![name] = smoke[s].boots]
         /\ left' = left \cup {name}
  /\ smoke' = [smoke EXCEPT ![s].pc = "idle"]
  /\ UNCHANGED <<selection, disk, build, edits, busy>>

\* The launcher wants its image to be there.
Boot(s) ==
  /\ smoke[s].pc = "boot"
  /\ smoke' = [smoke EXCEPT ![s].pc = "cleanup", ![s].boots = copies[smoke[s].name]]
  /\ UNCHANGED <<selection, disk, build, copies, edits, faults, busy, left>>

\* A fault: the verdict comes first, and a failing one leaves at once.
JudgeFirst(s) ==
  /\ smoke[s].pc = "cleanup"
  /\ \E passed \in BOOLEAN :
       /\ copies' = IF passed THEN [copies EXCEPT ![smoke[s].name] = Missing] ELSE copies
       /\ smoke' = [smoke EXCEPT ![s].pc = "idle", ![s].passed = passed]
  /\ left' = left \ {smoke[s].name}
  /\ UNCHANGED <<selection, disk, build, edits, faults, busy>>

\* The verdict is on the output so far, time limit or not.  A kernel that
\* starts prints its banner, whatever its root filesystem; in time or not.
Judge(s) ==
  /\ smoke[s].pc = "cleanup"
  /\ copies' = [copies EXCEPT ![smoke[s].name] = Missing]
  /\ \E banner \in IF smoke[s].boots = Missing THEN {FALSE} ELSE BOOLEAN :
     \E failure \in IF banner THEN BOOLEAN ELSE {FALSE} :
       smoke' = [smoke EXCEPT ![s].pc = "idle", ![s].passed = banner /\ ~ failure]
  /\ left' = left \ {smoke[s].name}
  /\ UNCHANGED <<selection, disk, build, edits, faults, busy>>

Next ==
  \/ Start \/ RemoveStaged \/ CopyBase \/ CopyLibraries \/ InstallPackage \/ WriteManifest
  \/ RemoveAlias \/ RemoveOthers \/ PrepareImage \/ MakeImage \/ WriteLauncher
  \/ Fail \/ Select
  \/ \E s \in Smoker : Smoke(s) \/ CopyImage(s) \/ Copied(s) \/ Boot(s) \/ Judge(s) \/ StopSmoke(s)

Spec == Init /\ [][Next]_vars

-----------------------------------------------------------------------------
TypeOK ==
  /\ selection \in Selections /\ plan \in Selections
  /\ DOMAIN staged \subseteq Path /\ DOMAIN sources = DOMAIN staged
  /\ launcher \in Names \cup {None}
  /\ edits \in 0..MaxEdits /\ faults \in 0..MaxFaults

(* An image that a build has made holds every file of every package it      *)
(* selected, with its own content: neither another package, nor a runtime   *)
(* library, nor BusyBox has replaced one.  A conflict ends the build.       *)
ImageHasEveryPackage ==
  pc = "done" /\ plan.kind # "basic" =>
    \A i \in DOMAIN plan.packages :
      LET files == Provides[plan.packages[i]]
      IN  \A f \in DOMAIN files : images[Image(plan.kind)].tree[f] = files[f]

(* And nothing else: no file of an earlier selection, or of a build that    *)
(* has failed, gets into it; the manifest lists what is in the image, each  *)
(* file with a source that has that content.                                *)
ImageIsAccountedFor ==
  pc = "done" /\ plan.kind # "basic" =>
    LET tree == images[Image(plan.kind)].tree
        origin(s) == CASE s = "busybox" -> IF plan.kind = "full" THEN BaseFiles ELSE NoFiles
                       [] s = "toolchain" -> LibraryFiles
                       [] OTHER -> IF \E i \in DOMAIN plan.packages : plan.packages[i] = s
                                   THEN Provides[s] ELSE NoFiles
    IN  /\ manifest.entries = tree
        /\ \A f \in DOMAIN tree : /\ f \in DOMAIN origin(manifest.sources[f])
                                  /\ origin(manifest.sources[f])[f] = tree[f]

\* What a build ends with: every selected file is in the image, and no other.
ImageIsExact == ImageHasEveryPackage /\ ImageIsAccountedFor

(* A smoke test with nothing beside it boots the very image it was asked    *)
(* for: neither a build nor a test before it, passed, failed or stopped     *)
(* with its copy half made, shows in it.  And when none is at work there is *)
(* no copy but those that stopped tests have left, each until the next test *)
(* of that image.                                                           *)
SmokeBootsItsImage ==
  /\ \A s \in Smoker \ busy :
       smoke[s].pc = "cleanup" => smoke[s].boots = images[smoke[s].name]
  /\ (\A s \in Smoker : smoke[s].pc \in {"idle", "copy"}) =>
       \A n \in Names \ left : copies[n] = Missing
=============================================================================
