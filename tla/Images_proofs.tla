----------------------------- MODULE Images_proofs -----------------------------
(***************************************************************************)
(* What is in an image, for any packages, selections, trees, sizes, edits, *)
(* failures and kills: BusyBox's is made from what there is now, and a     *)
(* second build makes nothing; a root filesystem has every file selected   *)
(* and no other, and a smoke test boots it; an image's size is enough.     *)
(***************************************************************************)
EXTENDS Images, Integers, TLAPS

-----------------------------------------------------------------------------
(* BusyBox, Make.                                                          *)

MakePlaces ==
  {"idle", "fetch", "prepare", "extract", "patch", "mark", "stampPrepared", "build", "make",
   "installing", "stampBuilt", "stage", "copy", "image", "mke2fs", "done", "seed", "menu",
   "save", "failed"}
Configs == Version \cup {v + 100 : v \in Version} \cup {0}
Trees == [is : {"tree"}, patched : 0..2, patches : Version \cup {0}]
Markers == [is : {"marker"}, tree : Trees, config : Version]
Installs == [is : {"install"}, patches : Version \cup {0}, config : Version \cup {0},
             context : Version, complete : BOOLEAN]
Prepared == [archive : {"none", "good", "bad"}, config : Version, patches : Version]
Built == [marker : Markers \cup {Make!None}, dotConfig : Configs, patches : Version,
          context : Version]

\* What each variable of Make may be.
MakeTypes ==
  /\ archive \in {"none", "good", "bad"}
  /\ config \in Version /\ patches \in Version /\ context \in Version /\ read \in Version
  /\ tree \in Trees \cup {Make!None} /\ marker \in Markers \cup {Make!None}
  /\ dotConfig \in Configs
  /\ install \in Installs \cup {Make!None}
  /\ prepared \in Prepared \cup {Make!None} /\ built \in Built \cup {Make!None}
  /\ makePc \in MakePlaces /\ command \in {"build", "configure"}
  /\ makeEdits \in 0..MaxMakeEdits /\ makeFaults \in 0..MaxMakeFaults
  /\ quiet \in BOOLEAN /\ calm \in BOOLEAN
  /\ doubt \subseteq {"tree", "install", "half", "stamp", "menu"}

Behind == {"build", "make", "installing", "stampBuilt", "stage", "copy", "image", "mke2fs"}

\* What there is in the tree at each place of a command.
InTree ==
  /\ tree = Make!None => dotConfig = 0 /\ marker = Make!None /\ install = Make!None
  /\ makePc \in {"extract", "patch", "mark"} => marker = Make!None
  /\ makePc \in {"extract", "patch", "mark", "stampPrepared", "make"} => install = Make!None
  /\ makePc \in {"patch", "mark", "stampPrepared", "seed", "menu", "save"} \cup Behind =>
       tree # Make!None
  /\ makePc \in Behind => command = "build" /\ dotConfig # 0
  /\ makePc \in {"mark", "stampPrepared", "save"} => dotConfig \in Version
  /\ makePc = "stampPrepared" =>
       marker = [is |-> "marker", tree |-> tree, config |-> dotConfig] /\ "stamp" \in doubt
  /\ makePc \in {"installing", "stampBuilt"} /\ install # Make!None => "half" \in doubt
  /\ makePc = "stampBuilt" =>
       install = [is |-> "install", patches |-> tree.patches, complete |-> TRUE,
                  config |-> Make!Settings(dotConfig), context |-> read]

\* What is at work goes with what the user has, but for the edits in doubt.
Current ==
  /\ makePc \in {"patch", "mark", "stampPrepared"} /\ "tree" \notin doubt =>
       (tree.patched > 0 => tree.patches = patches)
  /\ makePc \in {"mark", "stampPrepared"} => tree.patched = 2
  /\ makePc \in {"mark", "stampPrepared"} /\ "tree" \notin doubt => dotConfig = config
  /\ makePc \in {"make", "installing", "stampBuilt"} /\ "install" \notin doubt => read = context

\* What the two stamps say of the tree, whether or not they fit what there is.
PreparedSays ==
  marker # Make!None /\ "tree" \notin doubt /\ "stamp" \notin doubt =>
    /\ tree.patches = prepared.patches
    /\ "menu" \notin doubt => Make!Settings(dotConfig) = prepared.config
BuiltSays ==
  install # Make!None =>
    /\ install.patches = tree.patches
    /\ "install" \notin doubt /\ "half" \notin doubt =>
         /\ install.config = Make!Settings(built.dotConfig)
         /\ install.context = built.context /\ install.complete

Fetched ==
  /\ makePc \notin {"idle", "done", "failed", "fetch"} => archive = "good"
  /\ calm => archive = "good"

\* A build that nobody edits beside finds its own stamps.
Hits ==
  /\ quiet /\ makePc \in Behind => Make!PrepareHit
  /\ quiet /\ makePc \in {"stage", "copy", "image", "mke2fs"} => Make!BuildHit
  /\ calm => /\ Make!PrepareHit /\ Make!BuildHit /\ command = "build"
             /\ makePc \in {"done", "fetch", "prepare", "build", "stage", "copy", "image",
                            "mke2fs"}

Now == [is |-> "install", patches |-> patches, config |-> config, context |-> context,
        complete |-> TRUE]
Result ==
  quiet /\ doubt = {} =>
    /\ makePc \in {"image", "mke2fs"} => rootfs = Now
    /\ makePc = "done" => image = Now

MakeInv == MakeTypes /\ InTree /\ Current /\ PreparedSays /\ BuiltSays /\ Fetched /\ Hits /\ Result

\* A configuration that oldconfig has been over has the same settings.
LEMMA SettingsOf ==
  ASSUME NEW v \in Version
  PROVE  Make!Settings(v) = v /\ Make!Settings(v + 100) = v /\ v < 100 /\ v # 0
<1>1. v \in 1..99
  BY BusyboxAssumption DEF Make!BusyboxAssumption
<1> QED
  BY <1>1 DEF Make!Settings

LEMMA ConfigOf ==
  ASSUME NEW c \in Configs
  PROVE  /\ Make!Settings(c) \in Version \cup {0}
         /\ IF c < 100 THEN c \in Version \cup {0} ELSE \E v \in Version : c = v + 100
         /\ c # 0 => Make!Settings(c) \in Version /\ (c < 100 => c + 100 \in Configs)
<1>1. CASE c = 0
  BY <1>1 DEF Make!Settings
<1>2. CASE c \in Version
  BY <1>2, SettingsOf DEF Configs
<1>3. ASSUME NEW v \in Version, c = v + 100 PROVE Make!Settings(c) \in Version /\ ~ (c < 100)
  <2>1. v \in 1..99
    BY BusyboxAssumption DEF Make!BusyboxAssumption
  <2> QED
    BY <1>3, <2>1, SettingsOf
<1>4. Version \subseteq 1..99
  BY BusyboxAssumption DEF Make!BusyboxAssumption
<1> QED
  BY <1>1, <1>2, <1>3, <1>4 DEF Configs

\* oldconfig answers what is new, and changes nothing else.
LEMMA OldconfigOf ==
  ASSUME dotConfig \in Configs, dotConfig # 0
  PROVE  /\ Make!Oldconfig \in Configs /\ Make!Oldconfig # 0
         /\ Make!Settings(Make!Oldconfig) = Make!Settings(dotConfig)
<1>1. Version \subseteq 1..99
  BY BusyboxAssumption DEF Make!BusyboxAssumption
<1>2. CASE dotConfig < 100
  <2>1. dotConfig \in Version /\ Make!Oldconfig = dotConfig + 100
    BY <1>2, ConfigOf DEF Make!Oldconfig
  <2> QED
    BY <1>1, <2>1, SettingsOf DEF Configs
<1>3. CASE ~ (dotConfig < 100)
  BY <1>3 DEF Make!Oldconfig
<1> QED
  BY <1>2, <1>3

LEMMA NoneOf ==
  /\ \A t \in Trees : t # Make!None
  /\ \A m \in Markers : m # Make!None
  /\ \A i \in Installs : i # Make!None
BY DEF Trees, Markers, Installs, Make!None

LEMMA PatchedTree ==
  ASSUME NEW t \in Trees, t.patched # 2, NEW v \in Version
  PROVE  [t EXCEPT !.patched = @ + 1, !.patches = v] \in Trees
<1>1. t.patched + 1 \in 0..2
  BY DEF Trees
<1> QED
  BY <1>1 DEF Trees

LEMMA MakeInit == Make!Init => MakeInv
<1> SUFFICES ASSUME Make!Init PROVE MakeInv
  OBVIOUS
<1> USE DEF Make!Init
<1>1. 1 \in Version /\ MaxMakeEdits \in Nat /\ MaxMakeFaults \in Nat
  BY BusyboxAssumption DEF Make!BusyboxAssumption
<1>2. MakeTypes
  <2>1. makeEdits \in 0..MaxMakeEdits /\ makeFaults \in 0..MaxMakeFaults
    BY <1>1
  <2>2. /\ config \in Version /\ patches \in Version /\ context \in Version /\ read \in Version
        /\ dotConfig \in Configs /\ makePc \in MakePlaces
    BY <1>1 DEF Configs, MakePlaces
  <2> QED
    BY <2>1, <2>2 DEF MakeTypes
<1>3. InTree /\ Current /\ PreparedSays /\ BuiltSays /\ Fetched /\ Hits /\ Result
  BY DEF InTree, Current, PreparedSays, BuiltSays, Fetched, Hits, Result, Behind
<1> QED
  BY <1>2, <1>3 DEF MakeInv

LEMMA MakeTypesStep ==
  ASSUME MakeTypes, InTree, Make!Next
  PROVE  MakeTypes'
<1> USE DEF Make!user, Make!source, Make!stamps, Make!outputs, Make!bounds, Make!history,
            MakeTypes, MakePlaces, Make!Goto
<1>1. CASE Make!UseArchive
  BY <1>1 DEF Make!UseArchive
<1>2. CASE Make!Download
  BY <1>2 DEF Make!Download
<1>3. CASE Make!PrepareSkip
  BY <1>3 DEF Make!PrepareSkip
<1>4. CASE Make!RemoveTree
  BY <1>4 DEF Make!RemoveTree, Configs
<1>5. CASE Make!Extract
  <2>1. tree' \in Trees
    BY <1>5 DEF Make!Extract, Trees
  <2> QED
    BY <1>5, <2>1 DEF Make!Extract
<1>6. CASE Make!Patch
  <2>1. tree \in Trees
    BY <1>6 DEF Make!Patch, InTree
  <2>2. CASE tree.patched = 2
    BY <1>6, <2>2 DEF Make!Patch, Configs
  <2>3. CASE tree.patched # 2
    <3>1. [tree EXCEPT !.patched = @ + 1, !.patches = patches] \in Trees
      BY <2>1, <2>3, PatchedTree
    <3> QED
      BY <1>6, <2>3, <3>1 DEF Make!Patch
  <2> QED
    BY <2>2, <2>3
<1>7. CASE Make!Mark
  <2>1. tree \in Trees /\ dotConfig \in Version
    BY <1>7 DEF Make!Mark, InTree
  <2>2. marker' \in Markers
    BY <1>7, <2>1 DEF Make!Mark, Markers
  <2> QED
    BY <1>7, <2>2 DEF Make!Mark
<1>8. CASE Make!StampPrepared
  <2>1. prepared' \in Prepared
    BY <1>8 DEF Make!StampPrepared, Make!PrepareSignature, Prepared
  <2> QED
    BY <1>8, <2>1 DEF Make!StampPrepared
<1>9. CASE Make!BuildSkip
  BY <1>9 DEF Make!BuildSkip
<1>10. CASE Make!RemoveInstall
  BY <1>10 DEF Make!RemoveInstall
<1>11. CASE Make!Make
  <2>1. dotConfig' \in Configs
    BY <1>11, OldconfigOf DEF Make!Make, InTree, Behind
  <2> QED
    BY <1>11, <2>1 DEF Make!Make
<1>12. CASE Make!Install
  <2>1. tree \in Trees /\ Make!Settings(dotConfig) \in Version \cup {0}
    BY <1>12, ConfigOf DEF Make!Install, InTree, Behind
  <2>2. install' \in Installs
    BY <1>12, <2>1 DEF Make!Install, Installs, Trees
  <2> QED
    BY <1>12, <2>2 DEF Make!Install
<1>13. CASE Make!StampBuilt
  <2>1. built' \in Built
    BY <1>13 DEF Make!StampBuilt, Make!BuildSignature, Built
  <2> QED
    BY <1>13, <2>1 DEF Make!StampBuilt
<1>14. CASE Make!RemoveRootfs
  BY <1>14 DEF Make!RemoveRootfs
<1>15. CASE Make!CopyRootfs
  BY <1>15 DEF Make!CopyRootfs
<1>16. CASE Make!RemoveImage
  BY <1>16 DEF Make!RemoveImage
<1>17. CASE Make!MakeImage
  BY <1>17 DEF Make!MakeImage
<1>18. CASE Make!Seed
  BY <1>18 DEF Make!Seed, Configs
<1>19. CASE Make!Menu
  BY <1>19 DEF Make!Menu, Configs
<1>20. CASE Make!Save
  BY <1>20 DEF Make!Save, InTree
<1>21. CASE Make!Fail
  <2>1. makeFaults' \in 0..MaxMakeFaults
    BY <1>21, BusyboxAssumption DEF Make!Fail, Make!BusyboxAssumption
  <2> QED
    BY <1>21, <2>1 DEF Make!Fail
<1>22. CASE Make!Edit
  <2>1. makeEdits' \in 0..MaxMakeEdits
    BY <1>22, BusyboxAssumption DEF Make!Edit, Make!BusyboxAssumption
  <2>2. config' \in Version /\ patches' \in Version /\ context' \in Version
    BY <1>22 DEF Make!Edit
  <2>3. doubt' \subseteq {"tree", "install", "half", "stamp", "menu"}
    BY <1>22 DEF Make!Edit
  <2>4. /\ UNCHANGED <<archive, read, tree, marker, dotConfig, install>>
        /\ UNCHANGED <<prepared, built, makePc, command, makeFaults>>
    BY <1>22 DEF Make!Edit
  <2>5. quiet' \in BOOLEAN /\ calm' \in BOOLEAN
    BY <1>22 DEF Make!Edit
  <2> QED
    BY <2>1, <2>2, <2>3, <2>4, <2>5
<1>23. ASSUME NEW c \in {"build", "configure"}, Make!Start(c) PROVE MakeTypes'
  BY <1>23 DEF Make!Start
<1> QED
  BY <1>1, <1>2, <1>3, <1>4, <1>5, <1>6, <1>7, <1>8, <1>9, <1>10, <1>11, <1>12, <1>13, <1>14,
     <1>15, <1>16, <1>17, <1>18, <1>19, <1>20, <1>21, <1>22, <1>23 DEF Make!Next, Make!Step

\* What each step does to what the tree holds.
LEMMA InTreeStep ==
  ASSUME MakeInv, Make!Next
  PROVE  InTree'
<1> USE DEF MakeInv, Make!user, Make!source, Make!stamps, Make!outputs, Make!bounds, Make!history,
            Make!Goto, InTree, Behind
<1>1. CASE Make!UseArchive
  BY <1>1 DEF Make!UseArchive
<1>2. CASE Make!Download
  BY <1>2 DEF Make!Download
<1>3. CASE Make!PrepareSkip
  BY <1>3 DEF Make!PrepareSkip, Make!PrepareHit
<1>4. CASE Make!RemoveTree
  BY <1>4 DEF Make!RemoveTree
<1>5. CASE Make!Extract
  <2>1. tree' # Make!None
    BY <1>5 DEF Make!Extract, Make!None
  <2> QED
    BY <1>5, <2>1 DEF Make!Extract
<1>6. CASE Make!Patch
  <2>1. tree \in Trees
    BY <1>6 DEF Make!Patch, MakeTypes
  <2>2. CASE tree.patched = 2
    BY <1>6, <2>2 DEF Make!Patch, MakeTypes
  <2>3. CASE tree.patched # 2
    <3>1. tree' \in Trees
      BY <1>6, <2>1, <2>3, PatchedTree DEF Make!Patch, MakeTypes
    <3> QED
      BY <1>6, <2>3, <3>1, NoneOf DEF Make!Patch
  <2> QED
    BY <2>2, <2>3
<1>7. CASE Make!Mark
  BY <1>7 DEF Make!Mark
<1>8. CASE Make!StampPrepared
  <2>1. dotConfig # 0
    BY <1>8, SettingsOf DEF Make!StampPrepared
  <2> QED
    BY <1>8, <2>1 DEF Make!StampPrepared, MakeTypes
<1>9. CASE Make!BuildSkip
  BY <1>9 DEF Make!BuildSkip
<1>10. CASE Make!RemoveInstall
  BY <1>10 DEF Make!RemoveInstall
<1>11. CASE Make!Make
  <2>1. dotConfig' # 0
    BY <1>11, OldconfigOf DEF Make!Make, MakeTypes
  <2> QED
    BY <1>11, <2>1 DEF Make!Make
<1>12. CASE Make!Install
  BY <1>12 DEF Make!Install
<1>13. CASE Make!StampBuilt
  BY <1>13 DEF Make!StampBuilt
<1>14. CASE Make!RemoveRootfs
  BY <1>14 DEF Make!RemoveRootfs
<1>15. CASE Make!CopyRootfs
  BY <1>15 DEF Make!CopyRootfs
<1>16. CASE Make!RemoveImage
  BY <1>16 DEF Make!RemoveImage
<1>17. CASE Make!MakeImage
  BY <1>17 DEF Make!MakeImage
<1>18. CASE Make!Seed
  BY <1>18 DEF Make!Seed
<1>19. CASE Make!Menu
  BY <1>19 DEF Make!Menu
<1>20. CASE Make!Save
  BY <1>20 DEF Make!Save
<1>21. CASE Make!Fail
  BY <1>21 DEF Make!Fail
<1>22. CASE Make!Edit
  BY <1>22 DEF Make!Edit
<1>23. ASSUME NEW c \in {"build", "configure"}, Make!Start(c) PROVE InTree'
  BY <1>23 DEF Make!Start
<1> QED
  BY <1>1, <1>2, <1>3, <1>4, <1>5, <1>6, <1>7, <1>8, <1>9, <1>10, <1>11, <1>12, <1>13, <1>14,
     <1>15, <1>16, <1>17, <1>18, <1>19, <1>20, <1>21, <1>22, <1>23 DEF Make!Next, Make!Step

\* Edits beside a step put what it makes in doubt.
LEMMA CurrentStep ==
  ASSUME MakeInv, Make!Next
  PROVE  Current'
<1> USE DEF MakeInv, Make!user, Make!source, Make!stamps, Make!outputs, Make!bounds, Make!history,
            Make!Goto, Current, InTree
<1>1. CASE Make!UseArchive
  BY <1>1 DEF Make!UseArchive
<1>2. CASE Make!Download
  BY <1>2 DEF Make!Download
<1>3. CASE Make!PrepareSkip
  BY <1>3 DEF Make!PrepareSkip
<1>4. CASE Make!RemoveTree
  BY <1>4 DEF Make!RemoveTree
<1>5. CASE Make!Extract
  BY <1>5 DEF Make!Extract
<1>6. CASE Make!Patch
  <2>1. tree \in Trees
    BY <1>6 DEF Make!Patch, MakeTypes
  <2>2. CASE tree.patched = 2
    BY <1>6, <2>2 DEF Make!Patch
  <2>3. CASE tree.patched # 2
    <3>1. tree' = [tree EXCEPT !.patched = @ + 1, !.patches = patches] /\ makePc' = "patch"
      BY <1>6, <2>3 DEF Make!Patch
    <3>2. tree'.patches = patches
      BY <2>1, <3>1 DEF Trees
    <3> QED
      BY <1>6, <3>1, <3>2 DEF Make!Patch
  <2> QED
    BY <2>2, <2>3
<1>7. CASE Make!Mark
  BY <1>7 DEF Make!Mark
<1>8. CASE Make!StampPrepared
  BY <1>8 DEF Make!StampPrepared
<1>9. CASE Make!BuildSkip
  BY <1>9 DEF Make!BuildSkip
<1>10. CASE Make!RemoveInstall
  BY <1>10 DEF Make!RemoveInstall
<1>11. CASE Make!Make
  BY <1>11, OldconfigOf DEF Make!Make
<1>12. CASE Make!Install
  BY <1>12 DEF Make!Install
<1>13. CASE Make!StampBuilt
  BY <1>13 DEF Make!StampBuilt
<1>14. CASE Make!RemoveRootfs
  BY <1>14 DEF Make!RemoveRootfs
<1>15. CASE Make!CopyRootfs
  BY <1>15 DEF Make!CopyRootfs
<1>16. CASE Make!RemoveImage
  BY <1>16 DEF Make!RemoveImage
<1>17. CASE Make!MakeImage
  BY <1>17 DEF Make!MakeImage
<1>18. CASE Make!Seed
  BY <1>18 DEF Make!Seed
<1>19. CASE Make!Menu
  BY <1>19 DEF Make!Menu
<1>20. CASE Make!Save
  BY <1>20 DEF Make!Save
<1>21. CASE Make!Fail
  BY <1>21 DEF Make!Fail
<1>22. CASE Make!Edit
  BY <1>22 DEF Make!Edit
<1>23. ASSUME NEW c \in {"build", "configure"}, Make!Start(c) PROVE Current'
  BY <1>23 DEF Make!Start
<1> QED
  BY <1>1, <1>2, <1>3, <1>4, <1>5, <1>6, <1>7, <1>8, <1>9, <1>10, <1>11, <1>12, <1>13, <1>14,
     <1>15, <1>16, <1>17, <1>18, <1>19, <1>20, <1>21, <1>22, <1>23 DEF Make!Next, Make!Step

\* The stamp of the preparation is true of the tree, whichever tree that is.
LEMMA PreparedSaysStep ==
  ASSUME MakeInv, Make!Next
  PROVE  PreparedSays'
<1> USE DEF MakeInv, Make!user, Make!source, Make!stamps, Make!outputs, Make!bounds, Make!history,
            Make!Goto, PreparedSays, InTree, Current
<1>1. CASE Make!UseArchive
  BY <1>1 DEF Make!UseArchive
<1>2. CASE Make!Download
  BY <1>2 DEF Make!Download
<1>3. CASE Make!PrepareSkip
  BY <1>3 DEF Make!PrepareSkip
<1>4. CASE Make!RemoveTree
  BY <1>4 DEF Make!RemoveTree
<1>5. CASE Make!Extract
  BY <1>5 DEF Make!Extract
<1>6. CASE Make!Patch
  BY <1>6 DEF Make!Patch
<1>7. CASE Make!Mark
  BY <1>7 DEF Make!Mark
<1>8. CASE Make!StampPrepared
  <2>1. prepared'.patches = patches /\ prepared'.config = config
    BY <1>8 DEF Make!StampPrepared, Make!PrepareSignature
  <2>2. tree \in Trees /\ tree.patched > 0
    BY <1>8 DEF Make!StampPrepared, MakeTypes
  <2>3. "tree" \notin doubt => tree.patches = patches /\ Make!Settings(dotConfig) = config
    BY <1>8, <2>2, SettingsOf DEF Make!StampPrepared
  <2> QED
    BY <1>8, <2>1, <2>3 DEF Make!StampPrepared
<1>9. CASE Make!BuildSkip
  BY <1>9 DEF Make!BuildSkip
<1>10. CASE Make!RemoveInstall
  BY <1>10 DEF Make!RemoveInstall
<1>11. CASE Make!Make
  <2>1. Make!Settings(dotConfig') = Make!Settings(dotConfig)
    BY <1>11, OldconfigOf DEF Make!Make, MakeTypes, Behind
  <2> QED
    BY <1>11, <2>1 DEF Make!Make
<1>12. CASE Make!Install
  BY <1>12 DEF Make!Install
<1>13. CASE Make!StampBuilt
  BY <1>13 DEF Make!StampBuilt
<1>14. CASE Make!RemoveRootfs
  BY <1>14 DEF Make!RemoveRootfs
<1>15. CASE Make!CopyRootfs
  BY <1>15 DEF Make!CopyRootfs
<1>16. CASE Make!RemoveImage
  BY <1>16 DEF Make!RemoveImage
<1>17. CASE Make!MakeImage
  BY <1>17 DEF Make!MakeImage
<1>18. CASE Make!Seed
  <2>1. dotConfig' = config /\ Make!Settings(dotConfig') = config
    BY <1>18, SettingsOf DEF Make!Seed, MakeTypes
  <2> QED
    BY <1>18, <2>1 DEF Make!Seed
<1>19. CASE Make!Menu
  BY <1>19 DEF Make!Menu
<1>20. CASE Make!Save
  <2>1. Make!Settings(dotConfig) = dotConfig
    BY <1>20, SettingsOf DEF Make!Save
  <2> QED
    BY <1>20, <2>1 DEF Make!Save
<1>21. CASE Make!Fail
  BY <1>21 DEF Make!Fail
<1>22. CASE Make!Edit
  BY <1>22 DEF Make!Edit
<1>23. ASSUME NEW c \in {"build", "configure"}, Make!Start(c) PROVE PreparedSays'
  BY <1>23 DEF Make!Start
<1> QED
  BY <1>1, <1>2, <1>3, <1>4, <1>5, <1>6, <1>7, <1>8, <1>9, <1>10, <1>11, <1>12, <1>13, <1>14,
     <1>15, <1>16, <1>17, <1>18, <1>19, <1>20, <1>21, <1>22, <1>23 DEF Make!Next, Make!Step

\* So is the stamp of the build, of what is installed.
LEMMA BuiltSaysStep ==
  ASSUME MakeInv, Make!Next
  PROVE  BuiltSays'
<1> USE DEF MakeInv, Make!user, Make!source, Make!stamps, Make!outputs, Make!bounds, Make!history,
            Make!Goto, BuiltSays, InTree, Current, Behind
<1>1. CASE Make!UseArchive
  BY <1>1 DEF Make!UseArchive
<1>2. CASE Make!Download
  BY <1>2 DEF Make!Download
<1>3. CASE Make!PrepareSkip
  BY <1>3 DEF Make!PrepareSkip
<1>4. CASE Make!RemoveTree
  BY <1>4 DEF Make!RemoveTree
<1>5. CASE Make!Extract
  BY <1>5 DEF Make!Extract
<1>6. CASE Make!Patch
  BY <1>6 DEF Make!Patch
<1>7. CASE Make!Mark
  BY <1>7 DEF Make!Mark
<1>8. CASE Make!StampPrepared
  BY <1>8 DEF Make!StampPrepared
<1>9. CASE Make!BuildSkip
  BY <1>9 DEF Make!BuildSkip
<1>10. CASE Make!RemoveInstall
  BY <1>10 DEF Make!RemoveInstall
<1>11. CASE Make!Make
  BY <1>11, OldconfigOf DEF Make!Make
<1>12. CASE Make!Install
  BY <1>12 DEF Make!Install
<1>13. CASE Make!StampBuilt
  <2>1. built'.dotConfig = dotConfig /\ built'.context = context
    BY <1>13 DEF Make!StampBuilt, Make!BuildSignature
  <2> QED
    BY <1>13, <2>1 DEF Make!StampBuilt
<1>14. CASE Make!RemoveRootfs
  BY <1>14 DEF Make!RemoveRootfs
<1>15. CASE Make!CopyRootfs
  BY <1>15 DEF Make!CopyRootfs
<1>16. CASE Make!RemoveImage
  BY <1>16 DEF Make!RemoveImage
<1>17. CASE Make!MakeImage
  BY <1>17 DEF Make!MakeImage
<1>18. CASE Make!Seed
  BY <1>18 DEF Make!Seed
<1>19. CASE Make!Menu
  BY <1>19 DEF Make!Menu
<1>20. CASE Make!Save
  BY <1>20 DEF Make!Save
<1>21. CASE Make!Fail
  BY <1>21 DEF Make!Fail
<1>22. CASE Make!Edit
  BY <1>22 DEF Make!Edit
<1>23. ASSUME NEW c \in {"build", "configure"}, Make!Start(c) PROVE BuiltSays'
  BY <1>23 DEF Make!Start
<1> QED
  BY <1>1, <1>2, <1>3, <1>4, <1>5, <1>6, <1>7, <1>8, <1>9, <1>10, <1>11, <1>12, <1>13, <1>14,
     <1>15, <1>16, <1>17, <1>18, <1>19, <1>20, <1>21, <1>22, <1>23 DEF Make!Next, Make!Step

LEMMA FetchedStep ==
  ASSUME MakeInv, Make!Next
  PROVE  Fetched'
<1> USE DEF MakeInv, Make!user, Make!source, Make!stamps, Make!outputs, Make!bounds, Make!history,
            Make!Goto, Fetched
<1>1. CASE Make!UseArchive
  BY <1>1 DEF Make!UseArchive
<1>2. CASE Make!Download
  BY <1>2 DEF Make!Download
<1>3. CASE Make!PrepareSkip
  BY <1>3 DEF Make!PrepareSkip
<1>4. CASE Make!RemoveTree
  BY <1>4 DEF Make!RemoveTree
<1>5. CASE Make!Extract
  BY <1>5 DEF Make!Extract
<1>6. CASE Make!Patch
  BY <1>6 DEF Make!Patch
<1>7. CASE Make!Mark
  BY <1>7 DEF Make!Mark
<1>8. CASE Make!StampPrepared
  BY <1>8 DEF Make!StampPrepared
<1>9. CASE Make!BuildSkip
  BY <1>9 DEF Make!BuildSkip
<1>10. CASE Make!RemoveInstall
  BY <1>10 DEF Make!RemoveInstall
<1>11. CASE Make!Make
  BY <1>11, OldconfigOf DEF Make!Make
<1>12. CASE Make!Install
  BY <1>12 DEF Make!Install
<1>13. CASE Make!StampBuilt
  BY <1>13 DEF Make!StampBuilt
<1>14. CASE Make!RemoveRootfs
  BY <1>14 DEF Make!RemoveRootfs
<1>15. CASE Make!CopyRootfs
  BY <1>15 DEF Make!CopyRootfs
<1>16. CASE Make!RemoveImage
  BY <1>16 DEF Make!RemoveImage
<1>17. CASE Make!MakeImage
  BY <1>17 DEF Make!MakeImage
<1>18. CASE Make!Seed
  BY <1>18 DEF Make!Seed
<1>19. CASE Make!Menu
  BY <1>19 DEF Make!Menu
<1>20. CASE Make!Save
  BY <1>20 DEF Make!Save
<1>21. CASE Make!Fail
  BY <1>21 DEF Make!Fail
<1>22. CASE Make!Edit
  BY <1>22 DEF Make!Edit
<1>23. ASSUME NEW c \in {"build", "configure"}, Make!Start(c) PROVE Fetched'
  BY <1>23 DEF Make!Start
<1> QED
  BY <1>1, <1>2, <1>3, <1>4, <1>5, <1>6, <1>7, <1>8, <1>9, <1>10, <1>11, <1>12, <1>13, <1>14,
     <1>15, <1>16, <1>17, <1>18, <1>19, <1>20, <1>21, <1>22, <1>23 DEF Make!Next, Make!Step

\* Nothing that a build does after a task undoes that task's stamp.
LEMMA HitsStep ==
  ASSUME MakeInv, Make!Next
  PROVE  Hits'
<1> USE DEF MakeInv, Make!user, Make!source, Make!stamps, Make!outputs, Make!bounds, Make!history,
            Make!Goto, Hits, InTree, Behind, Fetched, Make!PrepareHit, Make!BuildHit, Make!PrepareSignature, Make!BuildSignature
<1>1. CASE Make!UseArchive
  BY <1>1 DEF Make!UseArchive
<1>2. CASE Make!Download
  BY <1>2 DEF Make!Download
<1>3. CASE Make!PrepareSkip
  BY <1>3 DEF Make!PrepareSkip
<1>4. CASE Make!RemoveTree
  BY <1>4 DEF Make!RemoveTree
<1>5. CASE Make!Extract
  BY <1>5 DEF Make!Extract
<1>6. CASE Make!Patch
  BY <1>6 DEF Make!Patch
<1>7. CASE Make!Mark
  BY <1>7 DEF Make!Mark
<1>8. CASE Make!StampPrepared
  <2>1. dotConfig # 0 /\ tree # Make!None /\ marker # Make!None
    BY <1>8, SettingsOf DEF Make!StampPrepared, Make!None
  <2> QED
    BY <1>8, <2>1 DEF Make!StampPrepared
<1>9. CASE Make!BuildSkip
  BY <1>9 DEF Make!BuildSkip
<1>10. CASE Make!RemoveInstall
  BY <1>10 DEF Make!RemoveInstall
<1>11. CASE Make!Make
  <2>1. dotConfig' # 0
    BY <1>11, OldconfigOf DEF Make!Make, MakeTypes
  <2> QED
    BY <1>11, <2>1 DEF Make!Make
<1>12. CASE Make!Install
  BY <1>12 DEF Make!Install
<1>13. CASE Make!StampBuilt
  <2>1. install # Make!None
    BY <1>13 DEF Make!StampBuilt, Make!None
  <2> QED
    BY <1>13, <2>1 DEF Make!StampBuilt
<1>14. CASE Make!RemoveRootfs
  BY <1>14 DEF Make!RemoveRootfs
<1>15. CASE Make!CopyRootfs
  BY <1>15 DEF Make!CopyRootfs
<1>16. CASE Make!RemoveImage
  BY <1>16 DEF Make!RemoveImage
<1>17. CASE Make!MakeImage
  BY <1>17 DEF Make!MakeImage
<1>18. CASE Make!Seed
  BY <1>18 DEF Make!Seed
<1>19. CASE Make!Menu
  BY <1>19 DEF Make!Menu
<1>20. CASE Make!Save
  BY <1>20 DEF Make!Save
<1>21. CASE Make!Fail
  BY <1>21 DEF Make!Fail
<1>22. CASE Make!Edit
  BY <1>22 DEF Make!Edit
<1>23. ASSUME NEW c \in {"build", "configure"}, Make!Start(c) PROVE Hits'
  BY <1>23 DEF Make!Start
<1> QED
  BY <1>1, <1>2, <1>3, <1>4, <1>5, <1>6, <1>7, <1>8, <1>9, <1>10, <1>11, <1>12, <1>13, <1>14,
     <1>15, <1>16, <1>17, <1>18, <1>19, <1>20, <1>21, <1>22, <1>23 DEF Make!Next, Make!Step

\* What both stamps say is what the image is made of.
LEMMA ResultStep ==
  ASSUME MakeInv, Make!Next
  PROVE  Result'
<1> USE DEF MakeInv, Make!user, Make!source, Make!stamps, Make!outputs, Make!bounds, Make!history,
            Make!Goto, Result, Hits, InTree, Behind, PreparedSays, BuiltSays, Make!PrepareHit, Make!BuildHit, Make!PrepareSignature, Make!BuildSignature, Now
<1>1. CASE Make!UseArchive
  BY <1>1 DEF Make!UseArchive
<1>2. CASE Make!Download
  BY <1>2 DEF Make!Download
<1>3. CASE Make!PrepareSkip
  BY <1>3 DEF Make!PrepareSkip
<1>4. CASE Make!RemoveTree
  BY <1>4 DEF Make!RemoveTree
<1>5. CASE Make!Extract
  BY <1>5 DEF Make!Extract
<1>6. CASE Make!Patch
  BY <1>6 DEF Make!Patch
<1>7. CASE Make!Mark
  BY <1>7 DEF Make!Mark
<1>8. CASE Make!StampPrepared
  BY <1>8 DEF Make!StampPrepared
<1>9. CASE Make!BuildSkip
  BY <1>9 DEF Make!BuildSkip
<1>10. CASE Make!RemoveInstall
  BY <1>10 DEF Make!RemoveInstall
<1>11. CASE Make!Make
  BY <1>11, OldconfigOf DEF Make!Make
<1>12. CASE Make!Install
  BY <1>12 DEF Make!Install
<1>13. CASE Make!StampBuilt
  BY <1>13 DEF Make!StampBuilt
<1>14. CASE Make!RemoveRootfs
  BY <1>14 DEF Make!RemoveRootfs
<1>15. CASE Make!CopyRootfs
  <2> SUFFICES ASSUME quiet, doubt = {} PROVE rootfs' = Now
    BY <1>15 DEF Make!CopyRootfs
  <2>1. prepared = Make!PrepareSignature /\ built = Make!BuildSignature /\ install \in Installs
    BY <1>15 DEF Make!CopyRootfs, MakeTypes
  <2>2. prepared.patches = patches /\ prepared.config = config
    BY <2>1
  <2>3. built.dotConfig = dotConfig /\ built.context = context
    BY <2>1
  <2>4. /\ install.patches = patches /\ install.config = config /\ install.context = context
        /\ install.complete = TRUE
    BY <1>15, <2>1, <2>2, <2>3 DEF Make!CopyRootfs, Installs
  <2> QED
    BY <1>15, <2>1, <2>4 DEF Make!CopyRootfs, Installs
<1>16. CASE Make!RemoveImage
  BY <1>16 DEF Make!RemoveImage
<1>17. CASE Make!MakeImage
  BY <1>17 DEF Make!MakeImage
<1>18. CASE Make!Seed
  BY <1>18 DEF Make!Seed
<1>19. CASE Make!Menu
  BY <1>19 DEF Make!Menu
<1>20. CASE Make!Save
  BY <1>20 DEF Make!Save
<1>21. CASE Make!Fail
  BY <1>21 DEF Make!Fail
<1>22. CASE Make!Edit
  BY <1>22 DEF Make!Edit
<1>23. ASSUME NEW c \in {"build", "configure"}, Make!Start(c) PROVE Result'
  BY <1>23 DEF Make!Start
<1> QED
  BY <1>1, <1>2, <1>3, <1>4, <1>5, <1>6, <1>7, <1>8, <1>9, <1>10, <1>11, <1>12, <1>13, <1>14,
     <1>15, <1>16, <1>17, <1>18, <1>19, <1>20, <1>21, <1>22, <1>23 DEF Make!Next, Make!Step

LEMMA MakeStep == MakeInv /\ [Make!Next]_(Make!vars) => MakeInv'
<1>1. ASSUME MakeInv, Make!Next PROVE MakeInv'
  BY <1>1, MakeTypesStep, InTreeStep, CurrentStep, PreparedSaysStep, BuiltSaysStep, FetchedStep,
     HitsStep, ResultStep DEF MakeInv
<1>2. ASSUME MakeInv, UNCHANGED Make!vars PROVE MakeInv'
  <2> USE DEF Make!vars, Make!user, Make!source, Make!stamps, Make!outputs, Make!bounds,
              Make!history, MakeInv
  <2>1. MakeTypes' /\ InTree' /\ Current'
    BY <1>2 DEF MakeTypes, InTree, Current, Behind
  <2>2. PreparedSays' /\ BuiltSays' /\ Fetched' /\ Result'
    BY <1>2 DEF PreparedSays, BuiltSays, Fetched, Result, Now
  <2>3. Hits'
    BY <1>2 DEF Hits, Behind, Make!PrepareHit, Make!BuildHit, Make!PrepareSignature,
                Make!BuildSignature
  <2> QED
    BY <2>1, <2>2, <2>3
<1> QED
  BY <1>1, <1>2

LEMMA MakeInvariant == Make!Spec => []MakeInv
BY MakeInit, MakeStep, PTL DEF Make!Spec

\* Types, and that what is in BusyBox's tree goes with the tree.
THEOREM MakeTypeCorrect == Make!Spec => []Make!TypeOK
<1>1. MakeInv => Make!TypeOK
  BY ConfigOf DEF MakeInv, MakeTypes, InTree, Make!TypeOK
<1> QED
  BY <1>1, MakeInvariant, PTL

\* An image that a build has ended with, nobody editing beside it, was made
\* from the configuration, the patches and the toolchain there are: however
\* many builds, menus, edits, failures and kills came before it.
THEOREM ImageCurrent == Make!Spec => []ImageIsCurrent
<1>1. MakeInv => ImageIsCurrent
  BY DEF MakeInv, Result, Now, ImageIsCurrent, Make!ImageIsCurrent
<1> QED
  BY <1>1, MakeInvariant, PTL

\* A build after one that has ended well, with nothing in between, neither
\* prepares nor makes.
THEOREM SecondSkips == Make!Spec => SecondBuildSkips
<1>1. MakeInv /\ [Make!Next]_(Make!vars) =>
        [Make!RemoveTree \/ Make!RemoveInstall => ~ calm]_(Make!vars)
  BY DEF MakeInv, Hits, Make!RemoveTree, Make!RemoveInstall
<1> QED
  BY <1>1, MakeInvariant, PTL DEF Make!Spec, SecondBuildSkips, Make!SecondBuildSkips

-----------------------------------------------------------------------------
(* The root filesystem and its image.                                      *)

\* Where the content of a file of that source is from.
Origin(s) ==
  IF s = "busybox" THEN (IF plan.kind = "full" THEN BaseFiles ELSE NoFiles)
  ELSE IF s = "toolchain" THEN LibraryFiles
  ELSE IF \E i \in DOMAIN plan.packages : plan.packages[i] = s THEN Provides[s] ELSE NoFiles

\* Every file of the tree has a source that has it with that content.
Accounted(content, from) ==
  /\ DOMAIN from = DOMAIN content
  /\ \A f \in DOMAIN content : /\ f \in DOMAIN Origin(from[f])
                              /\ Origin(from[f])[f] = content[f]

\* The first packages of the plan are in the tree.
Holds(content, n) ==
  \A i \in 1..Len(plan.packages) : i < n =>
    \A f \in DOMAIN Provides[plan.packages[i]] :
      f \in DOMAIN content /\ content[f] = Provides[plan.packages[i]][f]

Placed == {"removeAlias", "removeOthers", "image", "mke2fs", "launcher", "done"}

\* How far the tree is at each place of a build.
StagedRight ==
  /\ at \in Nat \ {0}
  /\ pc \in {"stage", "base", "libraries"} => at = 1
  /\ pc = "base" => staged = NoFiles /\ sources = NoFiles
  /\ pc \in {"libraries", "packages"} \cup Placed /\ plan.kind # "basic" =>
       Accounted(staged, sources)
  /\ pc \in {"packages"} \cup Placed /\ plan.kind # "basic" => Holds(staged, at)
  /\ pc \in Placed /\ plan.kind # "basic" =>
       at > Len(plan.packages) /\ manifest = [entries |-> staged, sources |-> sources]

ImageRight ==
  pc \in {"launcher", "done"} /\ plan.kind # "basic" =>
    images[Image(plan.kind)] = [is |-> plan.kind, tree |-> staged]

RootfsInv ==
  /\ selection \in Selections /\ plan \in Selections
  /\ images = [n \in Names |-> images[n]]
  /\ StagedRight /\ ImageRight

TestState(t) == [pc |-> t.pc, name |-> t.name, boots |-> t.boots, passed |-> t.passed]
TestPlaces == {"idle", "copy", "copying", "boot", "cleanup"}

\* Of a smoke test that nothing has run beside: the build is not at work, no
\* other test is, and the image it was asked for is what it boots.
Alone(s) ==
  s \notin busy =>
    /\ smoke[s].pc # "idle" => ~ Building /\ \A t \in Smoker \ {s} : smoke[t].pc = "idle"
    /\ smoke[s].pc \in {"copying", "cleanup"} => smoke[s].boots = images[smoke[s].name]
    /\ smoke[s].pc = "boot" => copies[smoke[s].name] = images[smoke[s].name]

SmokeTypes ==
  /\ smoke = [s \in Smoker |-> TestState(smoke[s])]
  /\ copies = [n \in Names |-> copies[n]] /\ busy \subseteq Smoker
  /\ \A s \in Smoker : smoke[s].pc \in TestPlaces
  /\ \A s \in Smoker : smoke[s].pc # "idle" => smoke[s].name \in Names

\* A copy is there only while somebody works with it, alone or not, or when a
\* test that was stopped has left it.
CopiesInUse ==
  \A n \in Names \ left : copies[n] # Missing =>
    \E s \in Smoker : smoke[s].name = n /\ smoke[s].pc \in {"copying", "boot", "cleanup"}

SmokeInv == SmokeTypes /\ CopiesInUse /\ \A s \in Smoker : Alone(s)

LEMMA PlanOf ==
  ASSUME NEW s \in Selections
  PROVE  /\ s.kind \in Kinds /\ s.packages \in Seq(Package) /\ Len(s.packages) \in Nat
         /\ DOMAIN s.packages = 1..Len(s.packages)
         /\ \A i \in 1..Len(s.packages) : s.packages[i] \in Package
BY SelectionAssumption

LEMMA ImageOf ==
  ASSUME NEW k \in Kinds
  PROVE  Image(k) \in Names
BY DEF Image, Kinds, Names

LEMMA RootfsInit == Init => RootfsInv
BY DEF Init, RootfsInv, StagedRight, ImageRight, Placed

\* Steps behind the tree, or that end a build, and those of others.
LEMMA StagedKept ==
  ASSUME StagedRight, UNCHANGED <<plan, at, staged, sources, manifest>>,
         pc' = pc \/ pc' = "failed" \/ (pc \in Placed /\ pc' \in Placed)
  PROVE  StagedRight'
<1>1. CASE pc' = "failed"
  BY <1>1 DEF StagedRight, Placed
<1>2. Accounted(staged, sources)' <=> Accounted(staged, sources)
  BY DEF Accounted, Origin
<1>3. Holds(staged, at)' <=> Holds(staged, at)
  BY DEF Holds
<1>4. CASE pc' = pc
  BY <1>2, <1>3, <1>4 DEF StagedRight
<1>5. CASE pc \in Placed /\ pc' \in Placed
  BY <1>2, <1>3, <1>5 DEF StagedRight, Placed
<1> QED
  BY <1>1, <1>4, <1>5

LEMMA StageBegins ==
  ASSUME RootfsInv, Start \/ RemoveStaged
  PROVE  StagedRight'
<1>1. CASE Start
  <2>1. pc' \in {"removeOthers", "stage"} /\ at' = 1 /\ plan' \in Selections
        /\ (pc' = "removeOthers" => plan'.kind = "basic")
    BY <1>1 DEF Start, Goto, RootfsInv
  <2> QED
    BY <2>1 DEF StagedRight, Placed
<1>2. CASE RemoveStaged
  BY <1>2 DEF RemoveStaged, Goto, RootfsInv, StagedRight, Placed, build
<1> QED
  BY <1>1, <1>2

LEMMA BaseCopied ==
  ASSUME RootfsInv, CopyBase
  PROVE  StagedRight'
<1> DEFINE base == IF plan.kind = "full" THEN BaseFiles ELSE NoFiles
<1>1. /\ staged' = Over(base, staged)
      /\ sources' = Over([p \in DOMAIN base |-> "busybox"], sources)
      /\ staged = NoFiles /\ sources = NoFiles
      /\ pc' = "libraries" /\ plan' = plan /\ at' = at /\ at = 1
  BY DEF CopyBase, Goto, RootfsInv, StagedRight
<1>2. DOMAIN staged = {} /\ DOMAIN sources = {}
  BY <1>1 DEF NoFiles
<1>3. DOMAIN staged' = DOMAIN base /\ DOMAIN sources' = DOMAIN base
  BY <1>1, <1>2 DEF Over
<1>4. \A f \in DOMAIN base : staged'[f] = base[f] /\ sources'[f] = "busybox"
  BY <1>1 DEF Over
<1>5. Accounted(staged, sources)'
  BY <1>1, <1>3, <1>4 DEF Accounted, Origin
<1> QED
  BY <1>1, <1>5 DEF StagedRight, Placed, RootfsInv

\* Laying files over the tree that have a source of their own.
LEMMA AccountedOver ==
  ASSUME NEW new, NEW s, Origin(s) = new, Accounted(staged, sources), plan' = plan,
         staged' = Over(new, staged), sources' = Over([f \in DOMAIN new |-> s], sources)
  PROVE  Accounted(staged, sources)'
<1>1. DOMAIN staged' = DOMAIN new \cup DOMAIN staged /\ DOMAIN sources' = DOMAIN staged'
  BY DEF Accounted, Over
<1>2. \A f \in DOMAIN new : staged'[f] = new[f] /\ sources'[f] = s
  BY DEF Over
<1>3. \A f \in DOMAIN staged \ DOMAIN new : staged'[f] = staged[f] /\ sources'[f] = sources[f]
  BY DEF Accounted, Over
<1>4. \A q : Origin(q)' = Origin(q)
  BY DEF Origin
<1>5. \A f \in DOMAIN staged' :
        f \in DOMAIN Origin(sources'[f]) /\ Origin(sources'[f])[f] = staged'[f]
  BY <1>1, <1>2, <1>3 DEF Accounted
<1> QED
  BY <1>1, <1>4, <1>5 DEF Accounted

LEMMA LibrariesCopied ==
  ASSUME RootfsInv, CopyLibraries
  PROVE  StagedRight'
<1>1. /\ staged' = Over(LibraryFiles, staged)
      /\ sources' = Over([f \in DOMAIN LibraryFiles |-> "toolchain"], sources)
      /\ pc = "libraries" /\ pc' = "packages" /\ plan' = plan /\ at' = at /\ at = 1
  BY DEF CopyLibraries, Goto, RootfsInv, StagedRight
<1>2. plan.kind # "basic" => Accounted(staged, sources)'
  <2>1. Origin("toolchain") = LibraryFiles
    BY DEF Origin
  <2> QED
    BY <1>1, <2>1, AccountedOver DEF RootfsInv, StagedRight
<1>3. Holds(staged, at)'
  BY <1>1 DEF Holds
<1> QED
  BY <1>1, <1>2, <1>3 DEF StagedRight, Placed, RootfsInv

LEMMA PackageInstalled ==
  ASSUME RootfsInv, InstallPackage
  PROVE  StagedRight'
<1> DEFINE p == plan.packages[at]
           conflict == \E f \in DOMAIN Provides[p] \cap DOMAIN staged : staged[f] # Provides[p][f]
<1>1. pc = "packages" /\ at <= Len(plan.packages) /\ at \in Nat /\ plan' = plan
      /\ manifest' = manifest
  BY DEF InstallPackage, RootfsInv, StagedRight
<1>2. CASE conflict
  BY <1>1, <1>2, StagedKept DEF InstallPackage, Goto, RootfsInv
<1>3. CASE ~ conflict
  <2>1. /\ staged' = Over(Provides[p], staged)
        /\ sources' = Over([f \in DOMAIN Provides[p] |-> p], sources)
        /\ at' = at + 1 /\ pc' = pc
    BY <1>3 DEF InstallPackage
  <2> SUFFICES ASSUME plan.kind # "basic" PROVE StagedRight'
    BY <1>1, <2>1 DEF StagedRight, Placed
  <2>3. StagedRight'
    <3>1. p \in Package /\ \E i \in DOMAIN plan.packages : plan.packages[i] = p
      BY <1>1, PlanOf DEF RootfsInv, StagedRight
    <3>2. Origin(p) = Provides[p]
      BY <3>1, SourceAssumption DEF Origin
    <3>3. Accounted(staged, sources) /\ Holds(staged, at)
      BY <1>1 DEF RootfsInv, StagedRight
    <3>4. Accounted(staged, sources)'
      BY <1>1, <2>1, <3>2, <3>3, AccountedOver
    <3>5. /\ DOMAIN staged' = DOMAIN Provides[p] \cup DOMAIN staged
          /\ \A f \in DOMAIN Provides[p] : staged'[f] = Provides[p][f]
          /\ \A f \in DOMAIN staged : staged'[f] = staged[f]
      BY <1>3, <2>1 DEF Over
    <3>6. Holds(staged, at)'
      <4> SUFFICES ASSUME NEW i \in 1..Len(plan.packages), i < at + 1,
                          NEW f \in DOMAIN Provides[plan.packages[i]]
                   PROVE  f \in DOMAIN staged' /\ staged'[f] = Provides[plan.packages[i]][f]
        BY <1>1, <2>1 DEF Holds
      <4>1. CASE i = at
        BY <3>5, <4>1
      <4>2. CASE i # at
        <5>1. i < at
          BY <1>1, <4>2, PlanOf DEF RootfsInv
        <5> QED
          BY <3>3, <3>5, <5>1 DEF Holds
      <4> QED
        BY <4>1, <4>2
    <3> QED
      BY <1>1, <2>1, <3>4, <3>6 DEF StagedRight, Placed
  <2> QED
    BY <2>3
<1> QED
  BY <1>2, <1>3

LEMMA ManifestWritten ==
  ASSUME RootfsInv, WriteManifest
  PROVE  StagedRight'
<1>1. Accounted(staged, sources)' <=> Accounted(staged, sources)
  BY DEF WriteManifest, Accounted, Origin
<1>2. Holds(staged, at)' <=> Holds(staged, at)
  BY DEF WriteManifest, Holds
<1> QED
  BY <1>1, <1>2 DEF WriteManifest, Manifest, Goto, RootfsInv, StagedRight, Placed

\* Images are touched by the build alone, and only while it is at work.
LEMMA ImageStep ==
  ASSUME RootfsInv, Next
  PROVE  /\ images' = [n \in Names |-> images'[n]]
         /\ ImageRight'
         /\ ~ Building => images' = images
<1> USE DEF RootfsInv, Goto, disk, build, Building
<1>1. CASE Start \/ RemoveStaged \/ CopyBase \/ CopyLibraries \/ InstallPackage \/ WriteManifest
           \/ Fail
  <2>1. images' = images /\ pc' \notin {"launcher", "done"}
    BY <1>1 DEF Start, RemoveStaged, CopyBase, CopyLibraries, InstallPackage, WriteManifest, Fail
  <2> QED
    BY <2>1 DEF ImageRight
<1>2. CASE RemoveAlias \/ RemoveOthers \/ PrepareImage
  <2>1. pc' \notin {"launcher", "done"} /\ Building
    BY <1>2 DEF RemoveAlias, RemoveOthers, PrepareImage
  <2>2. images' = images \/ \E n, i : images' = [images EXCEPT ![n] = i]
    BY <1>2 DEF RemoveAlias, RemoveOthers, PrepareImage
  <2> QED
    BY <2>1, <2>2 DEF ImageRight
<1>3. CASE MakeImage
  <2>1. Image(plan.kind) \in Names
    BY PlanOf, ImageOf
  <2>2. /\ \E i : images' = [images EXCEPT ![Image(plan.kind)] = i]
        /\ plan.kind # "basic" =>
             images' = [images EXCEPT ![Image(plan.kind)] = [is |-> plan.kind, tree |-> staged]]
        /\ plan' = plan /\ staged' = staged /\ Building
    BY <1>3 DEF MakeImage, Tree
  <2> QED
    BY <2>1, <2>2 DEF ImageRight
<1>4. CASE WriteLauncher
  BY <1>4 DEF WriteLauncher, ImageRight, StagedRight
<1>5. CASE Select
  BY <1>5 DEF Select, ImageRight
<1>6. ASSUME NEW s \in Smoker, Smoke(s) \/ CopyImage(s) \/ Copied(s) \/ Boot(s) \/ Judge(s)
                           \/ StopSmoke(s)
      PROVE  UNCHANGED <<images, pc, plan, staged>>
  BY <1>6 DEF Smoke, CopyImage, Copied, Boot, Judge, StopSmoke
<1> QED
  BY <1>1, <1>2, <1>3, <1>4, <1>5, <1>6 DEF Next, ImageRight

LEMMA StagedStep ==
  ASSUME RootfsInv, Next
  PROVE  StagedRight' /\ selection' \in Selections /\ plan' \in Selections
<1> USE DEF Goto, disk, build
<1>1. StagedRight'
  <2>1. CASE RemoveAlias \/ RemoveOthers \/ PrepareImage \/ MakeImage \/ WriteLauncher \/ Fail
             \/ Select
    <3>1. /\ UNCHANGED <<plan, at, staged, sources, manifest>>
          /\ pc' = pc \/ pc' = "failed" \/ (pc \in Placed /\ pc' \in Placed)
      BY <2>1 DEF RemoveAlias, RemoveOthers, PrepareImage, MakeImage, WriteLauncher, Fail, Select,
                  Placed
    <3> QED
      BY <3>1, StagedKept DEF RootfsInv
  <2>2. ASSUME NEW s \in Smoker, Smoke(s) \/ CopyImage(s) \/ Copied(s) \/ Boot(s) \/ Judge(s)
                             \/ StopSmoke(s)
        PROVE  StagedRight'
    <3>1. UNCHANGED <<plan, at, staged, sources, manifest, pc>>
      BY <2>2 DEF Smoke, CopyImage, Copied, Boot, Judge, StopSmoke
    <3> QED
      BY <3>1, StagedKept DEF RootfsInv
  <2> QED
    BY <2>1, <2>2, StageBegins, BaseCopied, LibrariesCopied, PackageInstalled, ManifestWritten
       DEF Next
<1>2. selection' \in Selections /\ plan' \in Selections
  BY DEF Next, RootfsInv, Start, RemoveStaged, CopyBase, CopyLibraries, InstallPackage,
         WriteManifest, RemoveAlias, RemoveOthers, PrepareImage, MakeImage, WriteLauncher, Fail,
         Select, Smoke, CopyImage, Copied, Boot, Judge, StopSmoke
<1> QED
  BY <1>1, <1>2

LEMMA RootfsStep == RootfsInv /\ [Next]_vars => RootfsInv'
<1>1. ASSUME RootfsInv, Next PROVE RootfsInv'
  BY <1>1, ImageStep, StagedStep DEF RootfsInv
<1>2. ASSUME RootfsInv, UNCHANGED vars PROVE RootfsInv'
  <2>1. StagedRight'
    BY <1>2, StagedKept DEF RootfsInv, vars, disk, build
  <2> QED
    BY <1>2, <2>1 DEF RootfsInv, ImageRight, vars, disk, build
<1> QED
  BY <1>1, <1>2

LEMMA RootfsInvariant == Spec => []RootfsInv
BY RootfsInit, RootfsStep, PTL DEF Spec

LEMMA LaidOver ==
  ASSUME NEW s, NEW new, DOMAIN new \subseteq Path, DOMAIN staged \subseteq Path,
         DOMAIN sources = DOMAIN staged,
         staged' = Over(new, staged), sources' = Over([f \in DOMAIN new |-> s], sources)
  PROVE  DOMAIN staged' \subseteq Path /\ DOMAIN sources' = DOMAIN staged'
<1>1. DOMAIN staged' = DOMAIN new \cup DOMAIN staged
  BY DEF Over
<1>2. DOMAIN sources' = DOMAIN new \cup DOMAIN sources
  BY DEF Over
<1> QED
  BY <1>1, <1>2

\* A tree lies within the paths there are, each of its files has one source.
THEOREM RootfsTypeCorrect == Spec => []TypeOK
<1>1. Init => TypeOK
  BY BoundAssumption DEF Init, TypeOK, NoFiles
<1>2. ASSUME TypeOK, RootfsInv, Next PROVE TypeOK'
  <2>1. selection' \in Selections /\ plan' \in Selections
    BY <1>2, RootfsStep DEF RootfsInv
  <2>2. DOMAIN staged' \subseteq Path /\ DOMAIN sources' = DOMAIN staged'
    <3>1. CASE CopyBase
      <4> DEFINE base == IF plan.kind = "full" THEN BaseFiles ELSE NoFiles
      <4>1. DOMAIN base \subseteq Path
        BY ProvidesAssumption DEF NoFiles
      <4>2. /\ staged' = Over(base, staged)
            /\ sources' = Over([p \in DOMAIN base |-> "busybox"], sources)
        BY <3>1 DEF CopyBase
      <4> HIDE DEF base
      <4> QED
        BY <1>2, <4>1, <4>2, LaidOver DEF TypeOK
    <3>2. CASE CopyLibraries
      BY <1>2, <3>2, LaidOver, ProvidesAssumption DEF CopyLibraries, TypeOK
    <3>3. CASE InstallPackage
      <4> DEFINE p == plan.packages[at]
      <4>1. CASE UNCHANGED <<staged, sources>>
        BY <1>2, <4>1 DEF TypeOK
      <4>2. CASE /\ staged' = Over(Provides[p], staged)
                 /\ sources' = Over([f \in DOMAIN Provides[p] |-> p], sources)
        <5>1. p \in Package
          BY <1>2, <3>3, PlanOf DEF InstallPackage, RootfsInv, StagedRight
        <5>2. DOMAIN Provides[p] \subseteq Path
          BY <5>1, ProvidesAssumption
        <5> QED
          BY <1>2, <4>2, <5>2, LaidOver DEF TypeOK
      <4> QED
        BY <3>3, <4>1, <4>2 DEF InstallPackage
    <3>4. CASE RemoveStaged
      BY <3>4 DEF RemoveStaged, NoFiles
    <3>5. CASE ~ (CopyBase \/ CopyLibraries \/ InstallPackage \/ RemoveStaged)
      <4>1. UNCHANGED <<staged, sources>>
        BY <1>2, <3>5 DEF Next, Start, WriteManifest, RemoveAlias, RemoveOthers, PrepareImage,
                          MakeImage, WriteLauncher, Fail, Select, Smoke, CopyImage, Copied, Boot,
                          Judge, StopSmoke, disk
      <4> QED
        BY <1>2, <4>1 DEF TypeOK
    <3> QED
      BY <3>1, <3>2, <3>3, <3>4, <3>5
  <2>3. launcher' \in Names \cup {None}
    <3>1. CASE WriteLauncher
      <4>1. launcher' = Image(plan.kind) /\ plan.kind \in Kinds
        BY <1>2, <3>1, PlanOf DEF WriteLauncher, RootfsInv
      <4> QED
        BY <4>1, ImageOf
    <3>2. CASE ~ WriteLauncher
      <4>1. launcher' = launcher
        BY <1>2, <3>2 DEF Next, Start, RemoveStaged, CopyBase, CopyLibraries, InstallPackage,
             WriteManifest, RemoveAlias, RemoveOthers, PrepareImage, MakeImage, Fail, Select,
             Smoke, CopyImage, Copied, Boot, Judge, StopSmoke, disk
      <4> QED
        BY <1>2, <4>1 DEF TypeOK
    <3> QED
      BY <3>1, <3>2
  <2>4. /\ edits' = edits \/ (edits < MaxEdits /\ edits' = edits + 1)
        /\ faults' = faults \/ (faults < MaxFaults /\ faults' = faults + 1)
    BY <1>2 DEF Next, Start, RemoveStaged, CopyBase, CopyLibraries, InstallPackage, WriteManifest,
         RemoveAlias, RemoveOthers, PrepareImage, MakeImage, WriteLauncher, Fail, Select, Smoke,
         CopyImage, Copied, Boot, Judge, StopSmoke
  <2>5. edits' \in 0..MaxEdits /\ faults' \in 0..MaxFaults
    BY <1>2, <2>4, BoundAssumption DEF TypeOK
  <2> QED
    BY <2>1, <2>2, <2>3, <2>5 DEF TypeOK
<1>3. TypeOK /\ UNCHANGED vars => TypeOK'
  BY DEF TypeOK, vars, disk, build
<1> QED
  BY <1>1, <1>2, <1>3, RootfsInvariant, PTL DEF Spec

\* An image that a build has made holds every file of every package that was
\* selected and no other, and the manifest says so: for any packages, any
\* selections and whatever failed, was killed or staged before.
THEOREM ImageExact == Spec => []ImageIsExact
<1>1. ASSUME RootfsInv, pc = "done", plan.kind # "basic" PROVE ImageIsExact
  <2>1. /\ images[Image(plan.kind)].tree = staged /\ manifest.entries = staged
        /\ manifest.sources = sources /\ Accounted(staged, sources) /\ Holds(staged, at)
        /\ at > Len(plan.packages) /\ at \in Nat
    BY <1>1 DEF RootfsInv, StagedRight, ImageRight, Placed
  <2>2. ImageHasEveryPackage
    BY <1>1, <2>1, PlanOf DEF ImageHasEveryPackage, Holds, RootfsInv
  <2>3. ImageIsAccountedFor
    BY <1>1, <2>1 DEF ImageIsAccountedFor, Accounted, Origin
  <2> QED
    BY <2>2, <2>3 DEF ImageIsExact
<1>2. RootfsInv => ImageIsExact
  BY <1>1 DEF ImageIsExact, ImageHasEveryPackage, ImageIsAccountedFor
<1> QED
  BY <1>2, RootfsInvariant, PTL

\* Steps of a build: the tests it runs beside are busy.
LEMMA SmokeBesideBuild ==
  ASSUME RootfsInv, SmokeInv,
         Start \/ RemoveStaged \/ CopyBase \/ CopyLibraries \/ InstallPackage \/ WriteManifest
         \/ RemoveAlias \/ RemoveOthers \/ PrepareImage \/ MakeImage \/ WriteLauncher \/ Fail
         \/ Select \/ UNCHANGED vars
  PROVE  SmokeInv'
<1> USE DEF SmokeInv, Goto, disk, build
<1>1. smoke' = smoke /\ copies' = copies /\ left' = left
  BY DEF Start, RemoveStaged, CopyBase, CopyLibraries, InstallPackage, WriteManifest,
         RemoveAlias, RemoveOthers, PrepareImage, MakeImage, WriteLauncher, Fail, Select, vars
<1>2. CASE Start
  <2>1. busy' = {s \in Smoker : smoke[s].pc # "idle"}
    BY <1>2 DEF Start
  <2>2. \A s \in Smoker : Alone(s)'
    BY <1>1, <2>1 DEF Alone
  <2> QED
    BY <1>1, <2>1, <2>2 DEF SmokeTypes, CopiesInUse
<1>3. CASE RemoveStaged \/ CopyBase \/ CopyLibraries \/ InstallPackage \/ WriteManifest
           \/ RemoveAlias \/ RemoveOthers \/ PrepareImage \/ MakeImage \/ WriteLauncher \/ Fail
  <2>1. busy' = busy /\ Building
    BY <1>3 DEF RemoveStaged, CopyBase, CopyLibraries, InstallPackage, WriteManifest,
                RemoveAlias, RemoveOthers, PrepareImage, MakeImage, WriteLauncher, Fail, Building
  <2>2. \A s \in Smoker : s \notin busy => smoke[s].pc = "idle"
    BY <2>1 DEF Alone
  <2>3. \A s \in Smoker : Alone(s)'
    BY <1>1, <2>1, <2>2 DEF Alone
  <2> QED
    BY <1>1, <2>1, <2>3 DEF SmokeTypes, CopiesInUse
<1>4. CASE Select \/ UNCHANGED vars
  <2>1. UNCHANGED <<busy, images, pc>>
    BY <1>4 DEF Select, vars
  <2>2. \A s \in Smoker : Alone(s)'
    BY <1>1, <2>1 DEF Alone, Building
  <2> QED
    BY <1>1, <2>1, <2>2 DEF SmokeTypes, CopiesInUse
<1> QED
  BY <1>2, <1>3, <1>4

LEMMA SmokeStarts ==
  ASSUME SmokeInv, NEW s \in Smoker, Smoke(s)
  PROVE  SmokeInv'
<1> USE DEF SmokeInv
<1> DEFINE others == {t \in Smoker \ {s} : smoke[t].pc # "idle"}
<1>1. PICK n \in {Image(selection.kind)} \cup Names :
        /\ images[n] \notin {Missing, Foreign}
        /\ smoke' = [smoke EXCEPT ![s] = [pc |-> "copy", name |-> n, boots |-> Missing,
                                          passed |-> FALSE]]
  BY DEF Smoke
<1>2. /\ busy' = (busy \ {s}) \cup others \cup (IF others # {} \/ Building THEN {s} ELSE {})
      /\ UNCHANGED <<copies, images, pc, left>> /\ smoke[s].pc = "idle"
  BY DEF Smoke, disk, build
<1>3. n \in Names
  BY DEF Image, Names
<1>4. smoke'[s] = [pc |-> "copy", name |-> n, boots |-> Missing, passed |-> FALSE]
      /\ \A t \in Smoker \ {s} : smoke'[t] = smoke[t]
  BY <1>1 DEF SmokeTypes
<1>5. SmokeTypes'
  BY <1>1, <1>2, <1>3, <1>4 DEF SmokeTypes, TestState, TestPlaces
<1>6. CopiesInUse'
  BY <1>2, <1>4 DEF CopiesInUse
<1>7. ASSUME NEW t \in Smoker PROVE Alone(t)'
  <2>1. CASE t = s
    BY <1>2, <1>4, <2>1 DEF Alone, Building
  <2>2. CASE t # s
    <3>1. t \notin busy' => smoke'[t].pc = "idle"
      BY <1>2, <1>4, <2>2
    <3> QED
      BY <3>1 DEF Alone
  <2> QED
    BY <2>1, <2>2
<1> QED
  BY <1>5, <1>6, <1>7

\* What the three kinds of assignment to a test's record do.
LEMMA TestMoves ==
  ASSUME SmokeTypes, NEW s \in Smoker, NEW place, NEW boots, NEW passed,
         \/ smoke' = [smoke EXCEPT ![s].pc = place] /\ boots = smoke[s].boots
         \/ smoke' = [smoke EXCEPT ![s].pc = place, ![s].boots = boots]
         \/ smoke' = [smoke EXCEPT ![s].pc = place, ![s].passed = passed]
              /\ boots = smoke[s].boots
  PROVE  /\ smoke' = [t \in Smoker |-> TestState(smoke'[t])]
         /\ smoke'[s].pc = place /\ smoke'[s].name = smoke[s].name /\ smoke'[s].boots = boots
         /\ \A t \in Smoker \ {s} : smoke'[t] = smoke[t]
<1> DEFINE old == smoke[s]
<1>1. old = TestState(old) /\ DOMAIN smoke = Smoker /\ \A t \in Smoker : smoke[t] = TestState(smoke[t])
  BY DEF SmokeTypes
<1>2. CASE smoke' = [smoke EXCEPT ![s].pc = place] /\ boots = smoke[s].boots
  <2>1. smoke' = [t \in Smoker |-> IF t = s THEN [old EXCEPT !.pc = place] ELSE smoke[t]]
    BY <1>2, <1>1 DEF SmokeTypes
  <2>2. [old EXCEPT !.pc = place]
          = [pc |-> place, name |-> old.name, boots |-> old.boots, passed |-> old.passed]
    BY <1>1 DEF TestState
  <2> QED
    BY <2>1, <2>2, <1>1, <1>2 DEF TestState
<1>3. CASE smoke' = [smoke EXCEPT ![s].pc = place, ![s].boots = boots]
  <2>1. smoke' = [t \in Smoker |-> IF t = s THEN [old EXCEPT !.pc = place, !.boots = boots]
                                    ELSE smoke[t]]
    BY <1>3, <1>1 DEF SmokeTypes
  <2>2. [old EXCEPT !.pc = place, !.boots = boots]
          = [pc |-> place, name |-> old.name, boots |-> boots, passed |-> old.passed]
    <3> DEFINE half == [old EXCEPT !.pc = place]
    <3>1. half = [pc |-> place, name |-> old.name, boots |-> old.boots, passed |-> old.passed]
      BY <1>1 DEF TestState
    <3>2. [old EXCEPT !.pc = place, !.boots = boots] = [half EXCEPT !.boots = boots]
      BY <1>1 DEF TestState
    <3> HIDE DEF half
    <3> QED
      BY <3>1, <3>2
  <2> QED
    BY <2>1, <2>2, <1>1 DEF TestState
<1>4. CASE smoke' = [smoke EXCEPT ![s].pc = place, ![s].passed = passed] /\ boots = smoke[s].boots
  <2>1. smoke' = [t \in Smoker |-> IF t = s THEN [old EXCEPT !.pc = place, !.passed = passed]
                                    ELSE smoke[t]]
    BY <1>4, <1>1 DEF SmokeTypes
  <2>2. [old EXCEPT !.pc = place, !.passed = passed]
          = [pc |-> place, name |-> old.name, boots |-> old.boots, passed |-> passed]
    <3> DEFINE half == [old EXCEPT !.pc = place]
    <3>1. half = [pc |-> place, name |-> old.name, boots |-> old.boots, passed |-> old.passed]
      BY <1>1 DEF TestState
    <3>2. [old EXCEPT !.pc = place, !.passed = passed] = [half EXCEPT !.passed = passed]
      BY <1>1 DEF TestState
    <3> HIDE DEF half
    <3> QED
      BY <3>1, <3>2
  <2> QED
    BY <2>1, <2>2, <1>1, <1>4 DEF TestState
<1> QED
  BY <1>2, <1>3, <1>4

\* A test goes from one place to another: what has to be shown of it.
LEMMA TestGoes ==
  ASSUME SmokeInv, NEW s \in Smoker, NEW place \in TestPlaces,
         smoke[s].pc # "idle", UNCHANGED <<images, pc, busy>>,
         smoke' = [t \in Smoker |-> TestState(smoke'[t])],
         smoke'[s].pc = place, smoke'[s].name = smoke[s].name,
         \A t \in Smoker \ {s} : smoke'[t] = smoke[t],
         copies' = [n \in Names |-> copies'[n]],
         \A n \in Names \ {smoke[s].name} : copies'[n] = copies[n],
         left \ {smoke[s].name} \subseteq left',
         copies'[smoke[s].name] = Missing \/ left \subseteq left',
         \/ copies'[smoke[s].name] = Missing
         \/ place \in {"copying", "boot", "cleanup"}
         \/ copies' = copies /\ smoke[s].pc = "copy"
         \/ smoke[s].name \in left',
         s \notin busy => 
           /\ place \in {"copying", "cleanup"} => smoke'[s].boots = images[smoke[s].name]
           /\ place = "boot" => copies'[smoke[s].name] = images[smoke[s].name]
  PROVE  SmokeInv'
<1> USE DEF SmokeInv
<1>1. SmokeTypes'
  BY DEF SmokeTypes
<1>2. CopiesInUse'
  <2> SUFFICES ASSUME NEW n \in Names \ left', copies'[n] # Missing
               PROVE  \E t \in Smoker : /\ smoke'[t].name = n
                                        /\ smoke'[t].pc \in {"copying", "boot", "cleanup"}
    BY DEF CopiesInUse
  <2>1. CASE n = smoke[s].name /\ place \in {"copying", "boot", "cleanup"}
    BY <2>1
  <2>2. CASE ~ (n = smoke[s].name /\ place \in {"copying", "boot", "cleanup"})
    <3>1. /\ n \notin left /\ copies[n] # Missing
          /\ n # smoke[s].name \/ smoke[s].pc = "copy"
      BY <2>2
    <3>2. PICK t \in Smoker : smoke[t].name = n /\ smoke[t].pc \in {"copying", "boot", "cleanup"}
      BY <3>1 DEF CopiesInUse
    <3>3. t # s
      BY <3>1, <3>2
    <3> QED
      BY <3>2, <3>3
  <2> QED
    BY <2>1, <2>2
<1>3. ASSUME s \notin busy PROVE Alone(s)'
  <2>1. ~ Building /\ \A t \in Smoker \ {s} : smoke[t].pc = "idle"
    BY <1>3 DEF Alone
  <2>2. Building' = Building
    BY DEF Building
  <2> QED
    BY <1>3, <2>1, <2>2 DEF Alone
<1>4. ASSUME NEW t \in Smoker, t # s PROVE Alone(t)'
  <2>1. t \notin busy => smoke[t].pc = "idle"
    BY <1>4 DEF Alone
  <2> QED
    BY <1>4, <2>1 DEF Alone
<1>5. s \in busy => Alone(s)'
  BY DEF Alone
<1> QED
  BY <1>1, <1>2, <1>3, <1>4, <1>5

\* The four places of a test at work: what its image and its copy become.
LEMMA SmokeGoesOn ==
  ASSUME SmokeInv, NEW s \in Smoker,
         CopyImage(s) \/ Copied(s) \/ Boot(s) \/ Judge(s) \/ StopSmoke(s)
  PROVE  SmokeInv'
<1> DEFINE name == smoke[s].name
<1> DEFINE Goes(place, boots) ==
      /\ smoke' = [t \in Smoker |-> TestState(smoke'[t])]
      /\ smoke'[s].pc = place /\ smoke'[s].name = name /\ smoke'[s].boots = boots
      /\ \A t \in Smoker \ {s} : smoke'[t] = smoke[t]
<1> DEFINE Becomes(copy) ==
      /\ copies' = [n \in Names |-> copies'[n]] /\ copies'[name] = copy
      /\ \A n \in Names \ {name} : copies'[n] = copies[n]
<1>1. SmokeTypes /\ Alone(s)
  BY DEF SmokeInv
<1>2. /\ UNCHANGED <<images, pc, busy>> /\ smoke[s].pc # "idle"
  BY DEF CopyImage, Copied, Boot, Judge, StopSmoke, disk, build
<1>8. /\ CopyImage(s) \/ Copied(s) \/ Boot(s) => left' = left
      /\ Judge(s) => left' = left \ {name}
  BY DEF CopyImage, Copied, Boot, Judge
<1>3. name \in Names /\ copies = [n \in Names |-> copies[n]]
  BY <1>1, <1>2 DEF SmokeTypes
<1>4. CASE CopyImage(s)
  <2>1. CASE images[name] = Missing
    <3>1. smoke[s].pc = "copy" /\ smoke' = [smoke EXCEPT ![s].pc = "idle"] /\ copies' = copies
      BY <1>4, <2>1 DEF CopyImage
    <3>2. Goes("idle", smoke[s].boots)
      BY <1>1, <3>1, TestMoves
    <3>3. Becomes(copies[name])
      BY <1>3, <3>1
    <3> QED
      BY <1>1, <1>2, <1>3, <1>4, <1>8, <3>1, <3>2, <3>3, TestGoes DEF TestPlaces
  <2>2. CASE images[name] # Missing
    <3>1. /\ smoke' = [smoke EXCEPT ![s].pc = "copying", ![s].boots = images[name]]
          /\ copies' = [copies EXCEPT ![name] = Zeros]
      BY <1>4, <2>2 DEF CopyImage
    <3>2. Goes("copying", images[name])
      BY <1>1, <3>1, TestMoves
    <3>3. Becomes(Zeros)
      BY <1>3, <3>1
    <3> QED
      BY <1>1, <1>2, <1>3, <1>4, <1>8, <3>1, <3>2, <3>3, TestGoes DEF TestPlaces
  <2> QED
    BY <2>1, <2>2
<1>5. CASE Copied(s)
  <2>1. CASE copies[name] = Missing
    <3>1. smoke' = [smoke EXCEPT ![s].pc = "idle"] /\ copies' = copies
      BY <1>5, <2>1 DEF Copied
    <3>2. Goes("idle", smoke[s].boots)
      BY <1>1, <3>1, TestMoves
    <3>3. Becomes(copies[name])
      BY <1>3, <3>1
    <3> QED
      BY <1>1, <1>2, <1>3, <1>5, <1>8, <3>1, <2>1, <3>2, <3>3, TestGoes DEF TestPlaces
  <2>2. CASE copies[name] # Missing
    <3>1. PICK booted \in {smoke[s].boots}
                 \cup (IF smoke[s].boots = Zeros THEN {images[name]} \ {Missing, Foreign} ELSE {}) :
            copies' = [copies EXCEPT ![name] = booted]
      BY <1>5, <2>2 DEF Copied
    <3>2. smoke' = [smoke EXCEPT ![s].pc = "boot"]
      BY <1>5, <2>2 DEF Copied
    <3>3. s \notin busy => booted = images[name]
      BY <1>1, <1>5, <3>1 DEF Alone, Copied
    <3>4. Goes("boot", smoke[s].boots)
      BY <1>1, <3>1, <3>2, TestMoves
    <3>5. Becomes(booted)
      BY <1>3, <3>1, <3>2
    <3> QED
      BY <1>1, <1>2, <1>3, <1>5, <1>8, <3>1, <3>2, <3>3, <3>4, <3>5, TestGoes DEF TestPlaces
  <2> QED
    BY <2>1, <2>2
<1>6. CASE Boot(s)
  <2>1. /\ smoke' = [smoke EXCEPT ![s].pc = "cleanup", ![s].boots = copies[name]]
        /\ copies' = copies /\ smoke[s].pc = "boot"
    BY <1>6 DEF Boot
  <2>2. s \notin busy => copies[name] = images[name]
    BY <1>1, <2>1 DEF Alone
  <2>3. Goes("cleanup", copies[name])
    BY <1>1, <2>1, TestMoves
  <2>4. Becomes(copies[name])
    BY <1>3, <2>1
  <2> QED
    BY <1>1, <1>2, <1>3, <1>6, <1>8, <2>1, <2>2, <2>3, <2>4, TestGoes DEF TestPlaces
<1>7. CASE Judge(s)
  <2>1. copies' = [copies EXCEPT ![name] = Missing]
    BY <1>7 DEF Judge
  <2>2. PICK passed : smoke' = [smoke EXCEPT ![s].pc = "idle", ![s].passed = passed]
    BY <1>7 DEF Judge
  <2>3. Goes("idle", smoke[s].boots)
    BY <1>1, <2>1, <2>2, TestMoves
  <2>4. Becomes(Missing)
    BY <1>3, <2>1, <2>2
  <2> QED
    BY <1>1, <1>2, <1>3, <1>7, <1>8, <2>1, <2>2, <2>3, <2>4, TestGoes DEF TestPlaces
<1>9. CASE StopSmoke(s)
  <2>1. /\ smoke' = [smoke EXCEPT ![s].pc = "idle"] /\ left' = left \cup {name}
        /\ \/ copies' = copies
           \/ copies' = [copies EXCEPT ![name] = smoke[s].boots]
    BY <1>9 DEF StopSmoke
  <2>2. Goes("idle", smoke[s].boots)
    BY <1>1, <2>1, TestMoves
  <2>3. \E copy : Becomes(copy)
    BY <1>3, <2>1
  <2> QED
    BY <1>1, <1>2, <1>3, <2>1, <2>2, <2>3, TestGoes DEF TestPlaces
<1> QED
  BY <1>4, <1>5, <1>6, <1>7, <1>9

LEMMA SmokeInvariant == Spec => []SmokeInv
<1>1. Init => SmokeInv
  BY DEF Init, SmokeInv, SmokeTypes, CopiesInUse, Alone, TestState, TestPlaces
<1>2. RootfsInv /\ SmokeInv /\ [Next]_vars => SmokeInv'
  BY SmokeBesideBuild, SmokeStarts, SmokeGoesOn DEF Next
<1> QED
  BY <1>1, <1>2, RootfsInvariant, PTL DEF Spec

\* A smoke test that nothing has run beside boots the image it was asked for,
\* and no copy is left behind but by a test that was stopped: for any number of
\* tests, builds, failing copies and kills.
THEOREM SmokeBoots == Spec => []SmokeBootsItsImage
<1>1. SmokeInv => SmokeBootsItsImage
  BY DEF SmokeInv, SmokeTypes, CopiesInUse, Alone, SmokeBootsItsImage
<1> QED
  BY <1>1, SmokeInvariant, PTL

-----------------------------------------------------------------------------
(* The image's size, Size.                                                 *)

\* The size that the tasks compute; it is what the image has once it is made.
Computed ==
  IF kind = "basic" THEN Size!BusyboxImageSize
  ELSE Size!RootfsImageSize(kind = "full" /\ Size!RequiresPowerOfTwo)

SizeInv ==
  /\ machine \in Machines /\ kind \in {"minimal", "basic", "full"}
  /\ mode \in {"fixed", "expandable"} /\ configured \in Configured
  /\ files \in Files /\ fileSize \in FileSizes
  /\ size = 0 \/ size = Computed

LEMMA SizeInvariant == Size!Spec => []SizeInv
<1>1. Size!Init => SizeInv
  BY DEF Size!Init, SizeInv
<1>2. SizeInv /\ [Size!Next]_(Size!vars) => SizeInv'
  <2> SUFFICES ASSUME SizeInv, [Size!Next]_(Size!vars) PROVE SizeInv'
    OBVIOUS
  <2>1. /\ UNCHANGED <<machine, kind, mode, configured, files, fileSize>>
        /\ size' = size \/ (size = 0 /\ size' = Computed)
    <3>1. CASE Size!MakeRootfs
      BY <3>1 DEF Size!MakeRootfs, Computed, Size!RequiresPowerOfTwo
    <3>2. CASE Size!MakeMinirootfs
      BY <3>2 DEF Size!MakeMinirootfs, Computed
    <3>3. CASE Size!MakeBusybox
      BY <3>3 DEF Size!MakeBusybox, Computed
    <3> QED
      BY <3>1, <3>2, <3>3 DEF Size!Next, Size!vars
  <2>2. Computed' = Computed
    BY <2>1 DEF Computed, Size!RootfsImageSize, Size!BusyboxImageSize, Size!RequiresPowerOfTwo,
                Size!Requested, Size!Content
  <2> QED
    BY <2>1, <2>2 DEF SizeInv
<1> QED
  BY <1>1, <1>2, PTL DEF Size!Spec

\* Rounding to blocks: up, by less than one, and never above a whole number of
\* them that is above what is rounded.
LEMMA RoundedToBlock ==
  ASSUME NEW v \in Nat
  PROVE  /\ Size!RoundToBlock(v) \in Nat /\ Size!RoundToBlock(v) >= v
         /\ \A n \in Nat : v <= n * 4096 => Size!RoundToBlock(v) <= n * 4096
<1> DEFINE q == (v + 4095) \div 4096
<1>1. q \in Nat /\ q * 4096 <= v + 4095 /\ v <= q * 4096
  OBVIOUS
<1>2. Size!RoundToBlock(v) = q * 4096
  BY DEF Size!RoundToBlock, Size!IMAGE_BLOCK
<1>3. ASSUME NEW n \in Nat, v <= n * 4096 PROVE q * 4096 <= n * 4096
  BY <1>1, <1>3
<1> QED
  BY <1>1, <1>2, <1>3

\* Between a number and its double there is a power of two.
LEMMA PowerBetween ==
  ASSUME NEW v \in Nat, v >= 2, v <= Size!MaxSize
  PROVE  \E n \in 0..30 : v <= 2 ^ n /\ 2 ^ n < 2 * v
<1> DEFINE P(n) == v <= 2 ^ n /\ 2 ^ n < 2 * v
<1>1. /\ 2 ^ 0 = 1 /\ 2 ^ 1 = 2 /\ 2 ^ 2 = 4 /\ 2 ^ 3 = 8 /\ 2 ^ 4 = 16 /\ 2 ^ 5 = 32
      /\ 2 ^ 6 = 64 /\ 2 ^ 7 = 128 /\ 2 ^ 8 = 256 /\ 2 ^ 9 = 512 /\ 2 ^ 10 = 1024
  BY SMT
<1>2. /\ 2 ^ 11 = 2048 /\ 2 ^ 12 = 4096 /\ 2 ^ 13 = 8192 /\ 2 ^ 14 = 16384
      /\ 2 ^ 15 = 32768 /\ 2 ^ 16 = 65536 /\ 2 ^ 17 = 131072 /\ 2 ^ 18 = 262144
      /\ 2 ^ 19 = 524288 /\ 2 ^ 20 = 1048576
  BY SMT
<1>3. /\ 2 ^ 21 = 2097152 /\ 2 ^ 22 = 4194304 /\ 2 ^ 23 = 8388608 /\ 2 ^ 24 = 16777216
      /\ 2 ^ 25 = 33554432 /\ 2 ^ 26 = 67108864 /\ 2 ^ 27 = 134217728
      /\ 2 ^ 28 = 268435456 /\ 2 ^ 29 = 536870912 /\ 2 ^ 30 = 1073741824
  BY SMT
<1>4. v <= 2 ^ 10 => \E n \in 0..10 : P(n)
  BY <1>1, SMT
<1>5. v > 2 ^ 10 /\ v <= 2 ^ 20 => \E n \in 11..20 : P(n)
  BY <1>1, <1>2, SMT
<1>6. v > 2 ^ 20 => \E n \in 21..30 : P(n)
  BY <1>2, <1>3, SMT DEF Size!MaxSize
<1>7. 2 ^ 10 \in Nat /\ 2 ^ 20 \in Nat
  BY <1>1, <1>2, SMT
<1> QED
  BY <1>4, <1>5, <1>6, <1>7, SMT

PowerOfTwo(v) == \E n \in 0..30 : v = 2 ^ n

LEMMA RoundedToPower ==
  ASSUME NEW v \in Nat, v >= 2, v <= Size!MaxSize
  PROVE  LET p == Size!RoundPowerOfTwo(v)
         IN  PowerOfTwo(p) /\ p \in Nat /\ p >= v /\ p < 2 * v
<1> DEFINE Powers == {2 ^ n : n \in 0..30}
<1>1. \E p \in Powers : p >= v /\ p < 2 * v
  <2>1. PICK n \in 0..30 : v <= 2 ^ n /\ 2 ^ n < 2 * v
    BY PowerBetween
  <2> QED
    BY <2>1
<1>2. Size!RoundPowerOfTwo(v) = CHOOSE p \in Powers : p >= v /\ p < 2 * v
  BY DEF Size!RoundPowerOfTwo
<1>3. Size!RoundPowerOfTwo(v) \in Powers /\ Size!RoundPowerOfTwo(v) >= v
      /\ Size!RoundPowerOfTwo(v) < 2 * v
  BY <1>1, <1>2
<1>4. \A n \in 0..30 : 2 ^ n \in Int
  OBVIOUS
<1> QED
  BY <1>3, <1>4 DEF PowerOfTwo

\* What is asked for: at least the configured size, and four times the content
\* and 8 MiB; and what can be asked for is bounded.
LEMMA RequestedBounds ==
  ASSUME SizeInv
  PROVE  /\ configured \in Nat /\ configured * 4096 \in Nat /\ configured * 4096 >= 4096
         /\ configured * 4096 <= Size!MaxSize
         /\ files \in Nat /\ fileSize \in Nat \ {0} /\ Size!Content \in Nat
         /\ Size!Requested \in Nat
         /\ Size!Requested >= configured * 4096 /\ Size!Requested >= Size!Content * 4 + 32768
         /\ Size!Requested <= Size!MaxSize
<1>1. configured \in Nat \ {0} /\ files \in Nat /\ fileSize \in Nat \ {0}
  BY SizeAssumption DEF SizeInv, Size!SizeAssumption
<1>2. Size!MaxSize = 262144 * 4096 /\ Size!MaxSize \in Nat
  BY SMT DEF Size!MaxSize
<1>3. configured * 4096 <= Size!MaxSize
  BY <1>2, SizeAssumption DEF SizeInv, Size!SizeAssumption, Size!IMAGE_BLOCK
<1>4. files * fileSize * 4 + 9 * 4096 <= Size!MaxSize
  BY <1>2, SizeAssumption DEF SizeInv, Size!SizeAssumption, Size!IMAGE_BLOCK
<1>5. files * fileSize \in Nat
  BY <1>1
<1>6. configured * 4096 \in Nat /\ configured * 4096 >= 4096
  BY <1>1
<1>7. Size!Content = files * fileSize
  BY DEF Size!Content
<1>8. Size!Requested = IF configured * 4096 > Size!Content * 4 + 8 * 4096 THEN configured * 4096
                       ELSE Size!Content * 4 + 8 * 4096
  BY DEF Size!Requested, Size!Larger, Size!IMAGE_BLOCK
<1> QED
  BY <1>1, <1>2, <1>3, <1>4, <1>5, <1>6, <1>7, <1>8

\* What each task computes is at least what it was asked for.
LEMMA ComputedBounds ==
  ASSUME SizeInv
  PROVE  /\ Computed \in Nat /\ Computed >= configured * 4096
         /\ mode = "expandable" => Computed >= Size!Requested
         /\ kind = "full" /\ machine = "sd" =>
              /\ PowerOfTwo(Computed)
              /\ mode = "fixed" => Computed < 2 * configured * 4096
              /\ mode = "expandable" => Computed < 2 * Size!RoundToBlock(Size!Requested)
<1> DEFINE asked == Size!Requested
           block == Size!RoundToBlock(asked)
           wanted == IF mode = "fixed" THEN configured * 4096 ELSE block
<1>1. /\ configured \in Nat /\ configured * 4096 \in Nat /\ configured * 4096 >= 4096
      /\ configured * 4096 <= Size!MaxSize
      /\ asked \in Nat /\ asked >= configured * 4096 /\ asked <= Size!MaxSize
  BY RequestedBounds
<1>2. block \in Nat /\ block >= asked
  BY <1>1, RoundedToBlock
<1>3. block <= Size!MaxSize
  <2>1. Size!MaxSize = 262144 * 4096 /\ Size!MaxSize \in Nat
    BY SMT DEF Size!MaxSize
  <2> QED
    BY <1>1, <2>1, RoundedToBlock
<1>4. wanted \in Nat /\ wanted >= 2 /\ wanted <= Size!MaxSize /\ wanted >= configured * 4096
  BY <1>1, <1>2, <1>3
<1>5. CASE kind = "full" /\ machine = "sd"
  <2>1. Computed = Size!RoundPowerOfTwo(wanted)
    BY <1>5 DEF Computed, Size!RootfsImageSize, Size!RequiresPowerOfTwo, Size!IMAGE_BLOCK
  <2>2. PowerOfTwo(Computed) /\ Computed >= wanted /\ Computed < 2 * wanted
    BY <1>4, <2>1, RoundedToPower
  <2>3. Computed \in Nat
    BY <1>4, <2>1, RoundedToPower
  <2>4. 2 * configured * 4096 = 2 * (configured * 4096)
    BY <1>1
  <2>5. Computed >= configured * 4096
    BY <1>1, <1>4, <2>2, <2>3
  <2>6. mode = "fixed" => Computed < 2 * configured * 4096
    BY <1>1, <2>2, <2>4
  <2>7. mode = "expandable" => Computed >= asked /\ Computed < 2 * block
    BY <1>1, <1>2, <2>2, <2>3
  <2> QED
    BY <2>2, <2>3, <2>5, <2>6, <2>7
<1>6. CASE kind = "minimal" \/ (kind = "full" /\ machine # "sd")
  <2>1. Computed = wanted
    BY <1>6 DEF Computed, Size!RootfsImageSize, Size!RequiresPowerOfTwo, Size!IMAGE_BLOCK
  <2> QED
    BY <1>1, <1>2, <1>4, <1>6, <2>1
<1>7. CASE kind = "basic"
  <2> DEFINE least == Size!Larger(Size!MIN_IMAGE_SIZE, asked)
  <2>1. least \in Nat /\ least >= asked
    BY <1>1 DEF Size!Larger, Size!MIN_IMAGE_SIZE, Size!IMAGE_BLOCK
  <2>2. Computed = IF mode = "fixed" THEN configured * 4096 ELSE Size!RoundToBlock(least)
    BY <1>7 DEF Computed, Size!BusyboxImageSize, Size!IMAGE_BLOCK
  <2>3. Size!RoundToBlock(least) \in Nat /\ Size!RoundToBlock(least) >= least
    BY <2>1, RoundedToBlock
  <2> QED
    BY <1>1, <1>7, <2>1, <2>2, <2>3
<1> QED
  BY <1>5, <1>6, <1>7 DEF SizeInv

\* A configured size is never undercut.
THEOREM SizeTypeCorrect == Size!Spec => []Size!TypeOK
<1>1. SizeInv => Size!TypeOK
  BY ComputedBounds DEF SizeInv, Size!TypeOK, Size!IMAGE_BLOCK
<1> QED
  BY <1>1, SizeInvariant, PTL

\* Files that fill a block on average take less than twice their size in blocks.
LEMMA SmallBlocksTaken ==
  ASSUME NEW f \in Nat, NEW s \in Nat, s >= 4, NEW k \in Nat, k = (s + 3) \div 4
  PROVE  f * k * 4 <= f * s + 3 * f /\ 4 * f <= f * s
OBVIOUS

LEMMA LargeBlocksTaken ==
  ASSUME NEW f \in Nat, NEW s \in Nat, s >= 16, NEW k \in Nat, k = (s + 15) \div 16
  PROVE  f * k * 16 <= f * s + 15 * f /\ 16 * f <= f * s
OBVIOUS

\* What inodes, journal and descriptors leave of an image is room for that.
LEMMA SmallBlocksLeft ==
  ASSUME NEW c \in Nat, NEW all \in Nat, all >= 4 * c + 32768, NEW x \in Nat, 16 * x <= 7 * c
  PROVE  x <= (((all - (all \div 16)) - (all \div 8)) - (all \div 32)) \div 4
OBVIOUS

LEMMA LargeBlocksLeft ==
  ASSUME NEW c \in Nat, NEW all \in Nat, all >= 4 * c + 32768, NEW x \in Nat, 8 * x <= c
  PROVE  x <= (((all - (all \div 64)) - (all \div 8)) - (all \div 32)) \div 16
OBVIOUS

\* An expandable image holds what is staged, if its files fill a block of it on
\* average, and the image of the machine with an SD card is a power of two, less
\* than twice what was wanted: for any number and size of files and any
\* configured size, with the inodes and blocks mke2fs gives an image of it.
THEOREM ImageUsable == Size!Spec => []ImageIsUsable
<1>1. ASSUME SizeInv, size # 0, mode = "expandable", fileSize >= Size!FsBlock PROVE Size!Fits
  <2>1. /\ files \in Nat /\ fileSize \in Nat /\ files * fileSize \in Nat /\ size \in Nat
        /\ size >= 4 * (files * fileSize) + 32768
    BY <1>1, RequestedBounds, ComputedBounds DEF SizeInv, Size!Content
  <2>2. CASE size < 2097152
    <3>1. Size!FsBlock = 4
      BY <2>2 DEF Size!FsBlock, Size!IMAGE_BLOCK
    <3> DEFINE k == (fileSize + 3) \div 4
    <3>2. k \in Nat
      BY <2>1
    <3>3. files * k * 4 <= files * fileSize + 3 * files /\ 4 * files <= files * fileSize
      BY <1>1, <2>1, <3>1, <3>2, SmallBlocksTaken
    <3>4. files * k \in Nat /\ 16 * (files * k) <= 7 * (files * fileSize)
      BY <2>1, <3>2, <3>3
    <3>5. files * k <= (((size - (size \div 16)) - (size \div 8)) - (size \div 32)) \div 4
      BY <2>1, <3>4, SmallBlocksLeft
    <3>6. files + 11 <= size \div 16
      BY <2>1, <3>3
    <3>7. Size!Inodes = size \div 16
      BY <3>1 DEF Size!Inodes
    <3>8. Size!Blocks = (((size - (size \div 16)) - (size \div 8)) - (size \div 32)) \div 4
      BY <3>1, <3>7 DEF Size!Blocks
    <3>9. Size!BlocksOf(fileSize) = k
      BY <2>1, <3>1 DEF Size!BlocksOf
    <3> QED
      BY <3>5, <3>6, <3>7, <3>8, <3>9 DEF Size!Fits
  <2>3. CASE size >= 2097152
    <3>1. Size!FsBlock = 16
      BY <2>1, <2>3 DEF Size!FsBlock, Size!IMAGE_BLOCK
    <3> DEFINE k == (fileSize + 15) \div 16
    <3>2. k \in Nat
      BY <2>1
    <3>3. files * k * 16 <= files * fileSize + 15 * files /\ 16 * files <= files * fileSize
      BY <1>1, <2>1, <3>1, <3>2, LargeBlocksTaken
    <3>4. files * k \in Nat /\ 8 * (files * k) <= files * fileSize
      BY <2>1, <3>2, <3>3
    <3>5. files * k <= (((size - (size \div 64)) - (size \div 8)) - (size \div 32)) \div 16
      BY <2>1, <3>4, LargeBlocksLeft
    <3>6. files + 11 <= size \div 64
      BY <2>1, <3>3
    <3>7. Size!Inodes = size \div 64
      BY <3>1 DEF Size!Inodes
    <3>8. Size!Blocks = (((size - (size \div 64)) - (size \div 8)) - (size \div 32)) \div 16
      BY <3>1, <3>7 DEF Size!Blocks
    <3>9. Size!BlocksOf(fileSize) = k
      BY <2>1, <3>1 DEF Size!BlocksOf
    <3> QED
      BY <3>5, <3>6, <3>7, <3>8, <3>9 DEF Size!Fits
  <2> QED
    BY <2>1, <2>2, <2>3
<1>2. SizeInv => Size!ExpandableFits
  BY <1>1 DEF Size!ExpandableFits
<1>3. SizeInv => Size!RootfsFitsCard
  BY ComputedBounds DEF SizeInv, PowerOfTwo, Size!RootfsFitsCard, Size!IMAGE_BLOCK
<1>4. SizeInv => ImageIsUsable
  BY <1>2, <1>3 DEF ImageIsUsable, Size!ImageIsUsable
<1> QED
  BY <1>4, SizeInvariant, PTL
=============================================================================
