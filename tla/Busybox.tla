------------------------------- MODULE Busybox -------------------------------
(***************************************************************************)
(* The BusyBox root filesystem (smart_build/domains/busybox.py): the       *)
(* archive is fetched, extracted, patched and configured, built in its     *)
(* source tree, staged and made an image; `configure busybox` opens the    *)
(* same tree's configuration and saves it (smart_build/configure.py).  A   *)
(* command can fail or be killed at every step, and the user edits the     *)
(* reference files, the toolchain and the SDK in between.                  *)
(*                                                                         *)
(* One command runs at a time.  A tree, a binary and an image are known by *)
(* the versions of what they were made from.                               *)
(***************************************************************************)
EXTENDS Naturals, FiniteSets

CONSTANTS Version,     \* of the saved configuration, the patches, the toolchain
          MaxEdits, MaxFaults

None == [is |-> "none"]
Idle == {"idle", "done", "failed"}

\* What the constants have to be; assumed by the module that gives them values.
BusyboxAssumption ==
  /\ Version \subseteq 1..99 /\ 1 \in Version
  /\ MaxEdits \in Nat /\ MaxFaults \in Nat

VARIABLES
  archive,                 \* in downloads/: "none", "good", "bad"
  config, patches, context, \* the user's: def_config, the two patches, toolchain and SDK
  tree,                    \* the source tree: how many patches it has, of which version
  dotConfig, marker,       \* in it: .config, and .smart-build-prepared.json
  install,                 \* in it too: what `make install` has put there
  prepared, built,         \* the stamps of the tasks busybox:prepare and busybox:build
  rootfs, image,           \* what is staged, and the image's content
  pc, command, read,       \* the command at hand: where it is, "build" or "configure"
  edits, faults,
  quiet,                   \* history: no edit since the command began
  calm,                    \* history: a build has ended well, and nothing happened since
  doubt                    \* history: "tree", "install": made while the user edited;
                           \* "half": a failed build's install tree; "stamp": the
                           \* tree is marked, its stamp an older one; "menu": .config
                           \* comes from a menu, and the tree is not prepared for it

user == <<archive, config, patches, context>>
source == <<tree, dotConfig, marker>>
stamps == <<prepared, built>>
outputs == <<rootfs, image>>
bounds == <<edits, faults>>
history == <<quiet, calm, doubt>>
vars == <<user, source, install, stamps, outputs, pc, command, read, bounds, history>>

\* A fault: the SDK that is linked in is not an input.
BuildSignatureWithoutSdk == [marker |-> marker, dotConfig |-> dotConfig, patches |-> patches,
                             context |-> 0]

\* busybox_prepare_task, busybox_build_task: inputs and cache_extra.
PrepareSignature == [archive |-> archive, config |-> config, patches |-> patches]
BuildSignature == [marker |-> marker, dotConfig |-> dotConfig, patches |-> patches,
                   context |-> context]

PrepareHit == prepared = PrepareSignature /\ tree # None /\ dotConfig # 0 /\ marker # None

BuildHit == built = BuildSignature /\ install # None

Goto(place) == pc' = place

Init ==
  /\ archive \in {"none", "good", "bad"}
  /\ config = 1 /\ patches = 1 /\ context = 1
  /\ tree = None /\ dotConfig = 0 /\ marker = None
  /\ install = None /\ prepared = None /\ built = None
  /\ rootfs = None /\ image = None
  /\ pc = "idle" /\ command = "build" /\ read = context
  /\ edits = 0 /\ faults = 0
  /\ quiet = TRUE /\ calm = FALSE /\ doubt = {}

\* busybox_rootfs_tasks, busybox_configuration: both begin with the same two tasks.
Start(c) ==
  /\ pc \in Idle
  /\ command' = c /\ Goto("fetch")
  /\ quiet' = TRUE /\ calm' = (calm /\ c = "build")
  /\ UNCHANGED <<user, source, install, stamps, outputs, read, bounds, doubt>>

-----------------------------------------------------------------------------
(* busybox:fetch.  A file that is there is verified, never replaced; a      *)
(* download is verified before it gets its name.                            *)

UseArchive ==
  /\ pc = "fetch" /\ archive # "none"
  /\ Goto(IF archive = "good" THEN "prepare" ELSE "failed")
  /\ UNCHANGED <<user, source, install, stamps, outputs, command, read, bounds, history>>

Download ==
  /\ pc = "fetch" /\ archive = "none"
  /\ archive' = "good"
  /\ Goto("prepare")
  /\ UNCHANGED <<config, patches, context, source, install, stamps, outputs, command,
                 read, bounds, history>>

(* busybox:prepare.  The tree is replaced, patched twice, configured, and   *)
(* then marked.                                                             *)

PrepareSkip ==
  /\ pc = "prepare" /\ PrepareHit
  /\ Goto(IF command = "build" THEN "build" ELSE "seed")
  /\ UNCHANGED <<user, source, install, stamps, outputs, command, read, bounds, history>>

\* The old tree, with its install tree, is renamed away before the new one
\* gets its name.
RemoveTree ==
  /\ pc = "prepare" /\ ~ PrepareHit
  /\ tree' = None /\ dotConfig' = 0 /\ marker' = None
  /\ install' = None /\ doubt' = {}
  /\ Goto("extract")
  /\ UNCHANGED <<user, stamps, outputs, command, read, bounds, quiet, calm>>

Extract ==
  /\ pc = "extract"
  /\ tree' = [is |-> "tree", patched |-> 0, patches |-> 0]
  /\ Goto("patch")
  /\ UNCHANGED <<user, dotConfig, marker, install, stamps, outputs, command, read, bounds,
                 history>>

Patch ==
  /\ pc = "patch"
  /\ IF tree.patched = 2
     THEN dotConfig' = config /\ Goto("mark") /\ tree' = tree
     ELSE /\ tree' = [tree EXCEPT !.patched = @ + 1, !.patches = patches]
          /\ Goto("patch") /\ dotConfig' = dotConfig
  /\ UNCHANGED <<user, marker, install, stamps, outputs, command, read, bounds, history>>

Mark ==
  /\ pc = "mark"
  /\ marker' = [is |-> "marker", tree |-> tree, config |-> dotConfig]
  /\ doubt' = doubt \cup {"stamp"}
  /\ Goto("stampPrepared")
  /\ UNCHANGED <<user, tree, dotConfig, install, stamps, outputs, command, read, bounds,
                 quiet, calm>>

StampPrepared ==
  /\ pc = "stampPrepared"
  /\ prepared' = PrepareSignature /\ doubt' = doubt \ {"stamp"}
  /\ Goto(IF command = "build" THEN "build" ELSE "seed")
  /\ UNCHANGED <<user, source, install, built, outputs, command, read, bounds, quiet, calm>>

-----------------------------------------------------------------------------
(* busybox:build                                                            *)

BuildSkip ==
  /\ pc = "build" /\ BuildHit
  /\ Goto("stage")
  /\ UNCHANGED <<user, source, install, stamps, outputs, command, read, bounds, history>>

RemoveInstall ==
  /\ pc = "build" /\ ~ BuildHit
  /\ install' = None /\ read' = context /\ doubt' = doubt \ {"install", "half"}
  /\ Goto("make")
  /\ UNCHANGED <<user, source, stamps, outputs, command, bounds, quiet, calm>>

\* oldconfig rewrites .config: it answers what is new, and dates it.  100 and
\* more: a configuration that oldconfig has been over.
Oldconfig == IF dotConfig < 100 THEN dotConfig + 100 ELSE dotConfig
Settings(c) == c % 100

Make ==
  /\ pc = "make"
  /\ dotConfig' = Oldconfig
  /\ Goto("installing")
  /\ UNCHANGED <<user, tree, marker, install, stamps, outputs, command, read, bounds, history>>

\* The binary first, then the links to it.
Install ==
  /\ pc = "installing"
  /\ install' = [is |-> "install", patches |-> tree.patches, config |-> Settings(dotConfig),
                 context |-> read, complete |-> install # None]
  /\ doubt' = doubt \cup {"half"}
  /\ Goto(IF install # None THEN "stampBuilt" ELSE "installing")
  /\ UNCHANGED <<user, source, stamps, outputs, command, read, bounds, quiet, calm>>

\* A fault: the signature is the one from before make.
StampBefore ==
  /\ pc = "stampBuilt"
  /\ built' = [BuildSignature EXCEPT !.dotConfig = Settings(dotConfig)] /\ doubt' = doubt \ {"half"}
  /\ Goto("stage")
  /\ UNCHANGED <<user, source, install, prepared, outputs, command, read, bounds, quiet,
                 calm>>

StampBuilt ==
  /\ pc = "stampBuilt"
  /\ built' = BuildSignature /\ doubt' = doubt \ {"half"}
  /\ Goto("stage")
  /\ UNCHANGED <<user, source, install, prepared, outputs, command, read, bounds, quiet,
                 calm>>

(* busybox:stage-rootfs and busybox-rootfs:image, executed by every build.  *)

RemoveRootfs ==
  /\ pc = "stage"
  /\ rootfs' = None
  /\ Goto("copy")
  /\ UNCHANGED <<user, source, install, stamps, image, command, read, bounds, history>>

CopyRootfs ==
  /\ pc = "copy"
  /\ rootfs' = install
  /\ Goto("image")
  /\ UNCHANGED <<user, source, install, stamps, image, command, read, bounds, history>>

\* The image is a file of zeros until mke2fs fills it.
RemoveImage ==
  /\ pc = "image"
  /\ image' = [is |-> "zeros"]
  /\ Goto("mke2fs")
  /\ UNCHANGED <<user, source, install, stamps, rootfs, command, read, bounds, history>>

MakeImage ==
  /\ pc = "mke2fs"
  /\ image' = rootfs
  /\ calm' = quiet
  /\ Goto("done")
  /\ UNCHANGED <<user, source, install, stamps, rootfs, command, read, bounds, quiet, doubt>>

-----------------------------------------------------------------------------
(* configure busybox: the tree's .config is the saved one when the menu     *)
(* opens, and becomes the saved one when the menu ends well.                *)

Seed ==
  /\ pc = "seed"
  /\ dotConfig' = config
  /\ doubt' = IF prepared.config = config THEN doubt \ {"menu"} ELSE doubt \cup {"menu"}
  /\ Goto("menu")
  /\ UNCHANGED <<user, tree, marker, install, stamps, outputs, command, read, bounds, quiet,
                 calm>>

\* The menu saves its .config and ends with an error all the same, or well.
Menu ==
  /\ pc = "menu"
  /\ dotConfig' \in Version
  /\ doubt' = doubt \cup {"menu"}
  /\ Goto("save")
  /\ UNCHANGED <<user, tree, marker, install, stamps, outputs, command, read, bounds, quiet,
                 calm>>

Save ==
  /\ pc = "save"
  /\ config' = dotConfig
  /\ doubt' = IF prepared.config = dotConfig THEN doubt \ {"menu"} ELSE doubt
  /\ Goto("idle")
  /\ UNCHANGED <<archive, patches, context, source, install, stamps, outputs, command, read,
                 bounds, quiet, calm>>

-----------------------------------------------------------------------------
(* Everything else: failing commands, kills and full disks at any step; the *)
(* user's edits at any time.                                                *)

Fail ==
  /\ pc \notin Idle /\ faults < MaxFaults
  /\ faults' = faults + 1 /\ calm' = FALSE
  /\ Goto("failed")
  /\ UNCHANGED <<user, source, install, stamps, outputs, command, read, edits, quiet, doubt>>

Edit ==
  /\ edits < MaxEdits
  /\ edits' = edits + 1 /\ quiet' = FALSE /\ calm' = FALSE
  /\ doubt' = doubt \cup
       (IF pc \in {"extract", "patch", "mark", "stampPrepared"} THEN {"tree"}
        ELSE IF pc \in {"make", "installing", "stampBuilt"} THEN {"install"} ELSE {})
  /\ \/ config' \in Version /\ UNCHANGED <<patches, context>>
     \/ patches' \in Version /\ UNCHANGED <<config, context>>
     \/ context' \in Version /\ UNCHANGED <<config, patches>>
  /\ UNCHANGED <<archive, source, install, stamps, outputs, pc, command, read, faults>>

Step ==
  \/ UseArchive \/ Download
  \/ PrepareSkip \/ RemoveTree \/ Extract \/ Patch \/ Mark \/ StampPrepared
  \/ BuildSkip \/ RemoveInstall \/ Make \/ Install \/ StampBuilt
  \/ RemoveRootfs \/ CopyRootfs \/ RemoveImage \/ MakeImage
  \/ Seed \/ Menu \/ Save

Next == Step \/ Fail \/ Edit \/ \E c \in {"build", "configure"} : Start(c)

Spec == Init /\ [][Next]_vars

-----------------------------------------------------------------------------
TypeOK ==
  /\ archive \in {"none", "good", "bad"}
  /\ config \in Version /\ patches \in Version /\ context \in Version
  /\ edits \in 0..MaxEdits /\ faults \in 0..MaxFaults
  /\ Settings(dotConfig) \in Version \cup {0}
  \* Everything in the tree goes with the tree.
  /\ tree = None => dotConfig = 0 /\ marker = None /\ install = None

(* A build that ends well, with no edit while it ran, has made its image    *)
(* from the saved configuration, the patches and the toolchain there are.   *)
(* The exceptions: a menu has failed after saving, or what it saved was     *)
(* taken back before the next build: its .config is built though it is not  *)
(* the saved one; an edit was made while the tree or the binary was, and is *)
(* in their stamps; an edit was taken back after its build had failed, and  *)
(* the old stamp fits what that build has left, a binary or a marked tree.  *)
ImageIsCurrent ==
  pc = "done" /\ quiet /\ doubt = {} =>
    image = [is |-> "install", patches |-> patches, config |-> config,
             context |-> context, complete |-> TRUE]

(* When a build has ended well and nothing is edited, configured or failing *)
(* after it, the next one neither prepares nor makes anything: that make    *)
(* rewrites .config, its own input, does not undo its stamp.                *)
SecondBuildSkips ==
  [][RemoveTree \/ RemoveInstall => ~ calm]_vars

=============================================================================
