----------------------------- MODULE PackageStage -----------------------------
(***************************************************************************)
(* One package from its sources to its .ipk (smart_build/domains/package.py*)
(* and the packing half of ipkg.py).  A build plans the package, looking   *)
(* at the stage that an earlier build has left; the executor of its        *)
(* backend empties the stage, runs commands that fill it, collects the     *)
(* declared outputs and checks their architecture; then they are packed.   *)
(* Any step can fail or be killed, and the user edits in between.          *)
(*                                                                         *)
(* Two outputs stand for all: a linked "binary" and a static "archive".    *)
(* A file is known by what it was made from.                               *)
(***************************************************************************)
EXTENDS Naturals, FiniteSets

CONSTANTS Kinds,     \* the backends considered
          Source,    \* versions of the package's files and description
          Makes,     \* Makes[s]: the outputs that a build of version s creates
          MaxEdits,  \* bound: edits, and stages replaced
          MayReplace \* whether the user puts a link in the place of the stage

Output == {"binary", "archive"}

(* What the planner of each backend puts into its task.  expands: declared  *)
(* directories are listed at plan time; signs: what the signature covers    *)
(* beside the package's own files; library: the kind of manifest.           *)
LibraryTask == [expands |-> FALSE, signs |-> {"context"}, library |-> TRUE]
PythonLibraryTask == [expands |-> TRUE, signs |-> {"context", "listing"}, library |-> TRUE]
ExecutableTask == [expands |-> FALSE, signs |-> {"context", "header"}, library |-> FALSE]
PythonExecutableTask == [expands |-> TRUE, signs |-> {"context", "listing"}, library |-> FALSE]
CMakeTask == [expands |-> FALSE, signs |-> {"context"}, library |-> FALSE]
AmentTask(library) == [expands |-> TRUE, signs |-> {}, library |-> library]

(* What its executor does.  validates: the sources are looked for first;    *)
(* copies: outputs are copied from the work directory when the commands are *)
(* through, else the commands write to the stage; requires, checks: the     *)
(* outputs it insists on, and whose architecture it looks at; reads: what   *)
(* is not the package's own files and toolchain.                            *)
LibraryExecutor ==
  [validates |-> TRUE, copies |-> TRUE, requires |-> Output, checks |-> {"binary"}, reads |-> "none"]
PythonLibraryExecutor ==
  [validates |-> TRUE, copies |-> FALSE, requires |-> {}, checks |-> Output, reads |-> "none"]
ExecutableExecutor ==
  [validates |-> TRUE, copies |-> TRUE, requires |-> {"binary"}, checks |-> {"binary"}, reads |-> "header"]
PythonExecutableExecutor ==
  [validates |-> TRUE, copies |-> FALSE, requires |-> {}, checks |-> {"binary"}, reads |-> "none"]
CMakeExecutor ==
  [validates |-> TRUE, copies |-> FALSE, requires |-> {"binary"}, checks |-> {"binary"}, reads |-> "freshBuildDir"]
AmentExecutor ==
  [validates |-> FALSE, copies |-> FALSE, requires |-> {}, checks |-> Output, reads |-> "keptBuildDir"]

\* package_task: which of them a description asks for.
Task == [library |-> LibraryTask, pythonLibrary |-> PythonLibraryTask,
         executable |-> ExecutableTask, pythonExecutable |-> PythonExecutableTask,
         cmake |-> CMakeTask, amentLibrary |-> AmentTask(TRUE),
         amentExecutable |-> AmentTask(FALSE)]
Executor == [library |-> LibraryExecutor, pythonLibrary |-> PythonLibraryExecutor,
             executable |-> ExecutableExecutor, pythonExecutable |-> PythonExecutableExecutor,
             cmake |-> CMakeExecutor, amentLibrary |-> AmentExecutor,
             amentExecutable |-> AmentExecutor]

ASSUME KindAssumption == Kinds \subseteq DOMAIN Task
ASSUME SourceAssumption == 0 \notin Source
ASSUME MakesAssumption == Makes \in [Source -> SUBSET Output]
ASSUME EditAssumption == MaxEdits \in Nat /\ MayReplace \in BOOLEAN

VARIABLES kind, readelf,     \* the package's backend; the toolchain has readelf
          source, context,   \* what there is: the package; toolchain and host SDK
          place, folder, files, \* the stage, the directory of its outputs, and them
          header, headerFor, \* generated header of the host phase, and its stamp
          buildDir,          \* the context CMake's build directory was configured in
          stamp, ipk, ipkStamp,
          pc, plan, read, \* the build at hand
          edits,
          tainted,           \* history: the stage is not what the stamp describes
          calm               \* history: builds that went well since anything changed

world == <<source, context, edits>>
stage == <<place, folder, files>>
host == <<header, headerFor>>
pack == <<ipk, ipkStamp>>
fixed == <<kind, readelf>>
vars == <<fixed, world, stage, host, buildDir, stamp, pack, pc, plan, read, tainted, calm>>

None == [is |-> "none"]
NoFiles == [o \in Output |-> None]
File == [is : {"file"}, source : Source, context : 1..2, with : Source \cup 0..2,
         good : BOOLEAN]
Listed == SUBSET (Output \cup {"declared"})
Made == {o \in Output : files[o] # None}

Expands == Task[kind].expands
Signs == Task[kind].signs
Requires == Executor[kind].requires
Checks == Executor[kind].checks
Reads == Executor[kind].reads
UsesCMake == Reads \in {"freshBuildDir", "keptBuildDir"}
Packaged == IF Expands THEN Made ELSE Requires

\* install_files at plan time: a declared directory is expanded to the files
\* it holds, and stands for itself when there is none.
Listing == IF ~ Expands \/ ~ folder THEN {"declared"} ELSE Made

\* Faults the properties are measured against; not part of the specification.
SignatureOfSource == [source |-> source, header |-> header, context |-> 0, listing |-> {}]

SignatureWithListing ==
  [source |-> source, header |-> header, context |-> plan.context, listing |-> plan.listing]

Signature == [source |-> source,
              header |-> IF "header" \in Signs THEN header ELSE 0,
              context |-> IF "context" \in Signs THEN plan.context ELSE 0,
              listing |-> IF "listing" \in Signs THEN plan.listing ELSE {}]
IsHit == stamp = Signature /\ place # "none"
\* A fault: only the paths of the files are in the signature, not what they hold.
IpkSignatureOfPaths == [content |-> Made, listing |-> plan.listing]
IpkSignature == [content |-> files, listing |-> plan.listing]
Ended == {"idle", "done", "failed", "refused"}

TypeOK ==
  /\ kind \in Kinds /\ readelf \in BOOLEAN
  /\ source \in Source /\ context \in 1..2 /\ edits \in 0..MaxEdits
  /\ place \in {"none", "dir", "foreign"} /\ folder \in BOOLEAN
  /\ files \in [Output -> File \cup {None}]
  /\ header \in Source \cup {0} /\ headerFor \in Source \cup {0}
  /\ buildDir \in 0..2
  /\ pc \in Ended \cup {"host", "generate", "check", "validate", "prepare", "command",
                        "collect", "verify", "stamp", "pack"}
  /\ plan \in [listing : Listed, context : 1..2, packs : BOOLEAN, quiet : BOOLEAN]
  /\ read \in [source : Source, context : 1..2]
  /\ stamp \in {None} \cup
       [source : Source, header : Source \cup {0}, context : 0..2, listing : Listed]
  /\ ipk \in {None} \cup [is : {"ipk"}, files : [Output -> File \cup {None}]]
  /\ ipkStamp \in {None} \cup [content : [Output -> File \cup {None}], listing : Listed]
  /\ tainted \in BOOLEAN /\ calm \in 0..2
  \* Files are in the stage, and only there; it is there while a build fills it.
  /\ Made # {} => place = "dir"
  /\ pc \in {"command", "collect", "verify", "stamp"} => place = "dir"
  /\ ipk # None => ipkStamp # None

Init ==
  /\ kind \in Kinds /\ readelf \in BOOLEAN
  /\ source \in Source /\ context = 1 /\ edits = 0
  /\ place = "none" /\ folder = FALSE /\ files = NoFiles
  /\ header = 0 /\ headerFor = 0 /\ buildDir = 0
  /\ stamp = None /\ ipk = None /\ ipkStamp = None
  /\ pc = "idle" /\ plan = [listing |-> {}, context |-> 1, packs |-> FALSE, quiet |-> TRUE]
  /\ read = [source |-> source, context |-> 1]
  /\ tainted = FALSE /\ calm = 0

Goto(place_) == pc' = place_
Failing == Goto("failed") /\ calm' = 0

-----------------------------------------------------------------------------
(* Planning.  A stage that is a link is refused.  A declared directory that *)
(* is there and empty leaves nothing to pack: an error for a library, and   *)
(* for an executable that is the target itself; any other is left out.      *)

Refused(target) ==
  \/ place = "foreign"
  \/ Listing = {} /\ (Task[kind].library \/ target = "package")

Plan(target) ==
  /\ pc \in Ended
  /\ plan' = [listing |-> Listing, context |-> context, packs |-> Listing # {},
              quiet |-> TRUE]
  /\ read' = [source |-> source, context |-> context]
  /\ IF Refused(target)
     THEN Goto("refused")
     ELSE Goto(IF Reads = "header" THEN "host" ELSE "check")
  /\ calm' = IF Refused(target) THEN 0 ELSE calm
  /\ UNCHANGED <<fixed, world, stage, host, buildDir, stamp, pack, tainted>>

(* The host phase of an executable: a tool that generates a header.         *)

HostSkip ==
  /\ pc = "host"
  /\ headerFor = source /\ header # 0
  /\ Goto("check")
  /\ UNCHANGED <<fixed, world, stage, host, buildDir, stamp, pack, plan, read, tainted, calm>>

HostPrepare ==
  /\ pc = "host"
  /\ headerFor # source \/ header = 0
  /\ header' = 0
  /\ Goto("generate")
  /\ UNCHANGED <<fixed, world, stage, headerFor, buildDir, stamp, pack, plan, read, tainted, calm>>

HostGenerate ==
  /\ pc = "generate"
  /\ header' = source /\ headerFor' = source
  /\ Goto("check")
  /\ UNCHANGED <<fixed, world, stage, buildDir, stamp, pack, plan, read, tainted, calm>>

-----------------------------------------------------------------------------
(* The build task.                                                          *)

Check ==
  /\ pc = "check"
  /\ Goto(IF IsHit THEN "pack" ELSE IF Executor[kind].validates THEN "validate" ELSE "prepare")
  /\ UNCHANGED <<fixed, world, stage, host, buildDir, stamp, pack, plan, read, tainted, calm>>

\* _validate_sources, before anything is touched.
Validate ==
  /\ pc = "validate"
  /\ Reads = "header" => header # 0
  /\ Goto("prepare")
  /\ UNCHANGED <<fixed, world, stage, host, buildDir, stamp, pack, plan, read, tainted, calm>>

\* _prepare_stage; CMake's build directory is removed, ament's is kept.
Prepare ==
  /\ pc = "prepare"
  /\ place # "foreign"
  /\ place' = "dir" /\ folder' = FALSE /\ files' = NoFiles
  /\ buildDir' = IF Reads = "freshBuildDir" THEN 0 ELSE buildDir
  /\ tainted' = TRUE
  /\ Goto("command")
  /\ UNCHANGED <<fixed, world, host, stamp, pack, plan, read, calm>>

Configured == IF buildDir = 0 THEN context ELSE buildDir
Built(good) ==
  [is |-> "file", source |-> source, context |-> context, good |-> good,
   with |-> CASE Reads = "header" -> header [] UsesCMake -> Configured [] OTHER -> 0]

\* The outputs O appear in the stage.
Leave(O, good) ==
  /\ files' = [o \in Output |-> IF o \in O THEN Built(good) ELSE files[o]]
  /\ buildDir' = IF UsesCMake THEN Configured ELSE buildDir

\* A library and an executable are copied from the work directory.
Run ==
  /\ pc = "command"
  /\ \E good \in BOOLEAN :
       Leave(IF Expands THEN Makes[source] ELSE Makes[source] \cap Requires, good)
  /\ folder' = Expands
  /\ read' = [source |-> source, context |-> context]
  /\ Goto("collect")
  /\ UNCHANGED <<fixed, world, place, host, stamp, pack, plan, tainted, calm>>

RunFails ==
  /\ pc = "command"
  /\ \E O \in IF Executor[kind].copies THEN {{}} ELSE SUBSET Output :
       /\ Leave(O, TRUE)
       /\ folder' \in IF ~ Expands THEN {FALSE} ELSE IF O # {} THEN {TRUE} ELSE BOOLEAN
  /\ Failing
  /\ UNCHANGED <<fixed, world, place, host, stamp, pack, plan, read, tainted>>

Collect ==
  /\ pc = "collect"
  /\ IF Requires \subseteq Made THEN Goto("verify") /\ UNCHANGED calm ELSE Failing
  /\ UNCHANGED <<fixed, world, stage, host, buildDir, stamp, pack, plan, read, tainted>>

\* Without readelf the check is recorded as skipped.
Verify ==
  /\ pc = "verify"
  /\ IF readelf /\ \E o \in Checks \cap Made : ~ files[o].good
     THEN Failing
     ELSE Goto("stamp") /\ UNCHANGED calm
  /\ UNCHANGED <<fixed, world, stage, host, buildDir, stamp, pack, plan, read, tainted>>

Stamp ==
  /\ pc = "stamp"
  /\ stamp' = Signature
  /\ tainted' = (read # [source |-> source, context |-> plan.context])
  /\ Goto("pack")
  /\ UNCHANGED <<fixed, world, stage, host, buildDir, pack, plan, read, calm>>

-----------------------------------------------------------------------------
(* Packing, from the files that are in the stage now.                       *)

Succeed ==
  /\ Goto("done")
  /\ calm' = IF ~ plan.quiet THEN 0 ELSE IF calm < 2 THEN calm + 1 ELSE 2
IpkIsHit == ipk # None /\ ipkStamp = IpkSignature

PackNothing ==
  /\ pc = "pack"
  /\ ~ plan.packs \/ IpkIsHit
  /\ Succeed
  /\ UNCHANGED <<fixed, world, stage, host, buildDir, stamp, pack, plan, read, tainted>>

Pack ==
  /\ pc = "pack"
  /\ plan.packs /\ ~ IpkIsHit
  /\ IF Packaged = {} \/ ~ Packaged \subseteq Made
     THEN Failing /\ UNCHANGED pack
     ELSE /\ ipk' = [is |-> "ipk", files |-> [o \in Output |-> IF o \in Packaged THEN files[o] ELSE None]]
          /\ ipkStamp' = IpkSignature
          /\ Succeed
  /\ UNCHANGED <<fixed, world, stage, host, buildDir, stamp, plan, read, tainted>>

-----------------------------------------------------------------------------
(* What goes wrong, and what the user does.                                 *)

Fail ==
  /\ pc \in {"generate", "validate", "prepare", "verify", "pack"}
  /\ Failing
  /\ UNCHANGED <<fixed, world, stage, host, buildDir, stamp, pack, plan, read, tainted>>

Crash ==
  /\ pc \notin Ended
  /\ Failing
  /\ UNCHANGED <<fixed, world, stage, host, buildDir, stamp, pack, plan, read, tainted>>

Edit ==
  /\ edits < MaxEdits
  /\ edits' = edits + 1
  /\ source' \in Source /\ context' \in 1..2
  /\ <<source, context>>' # <<source, context>>
  /\ calm' = 0 /\ plan' = [plan EXCEPT !.quiet = FALSE]
  /\ UNCHANGED <<fixed, stage, host, buildDir, stamp, pack, pc, read, tainted>>

\* Somebody puts a link or a file of his own in the place of the stage.
Replace ==
  /\ MayReplace /\ place = "dir" /\ edits < MaxEdits
  /\ pc \in Ended \cup {"host", "generate", "check", "validate", "prepare"}
  /\ edits' = edits + 1
  /\ place' = "foreign" /\ folder' = FALSE /\ files' = NoFiles
  /\ Goto(IF pc \in Ended THEN "idle" ELSE pc)
  /\ calm' = 0 /\ plan' = [plan EXCEPT !.quiet = FALSE]
  /\ UNCHANGED <<fixed, source, context, host, buildDir, stamp, pack, read, tainted>>

\* smart-build clean
Clean ==
  /\ pc \in Ended
  /\ place' = "none" /\ folder' = FALSE /\ files' = NoFiles
  /\ header' = 0 /\ headerFor' = 0 /\ buildDir' = 0
  /\ stamp' = None /\ ipk' = None /\ ipkStamp' = None
  /\ tainted' = FALSE /\ calm' = 0 /\ Goto("idle")
  /\ UNCHANGED <<fixed, world, plan, read>>

Step ==
  \/ HostSkip \/ HostPrepare \/ HostGenerate \/ Check \/ Validate \/ Prepare
  \/ Run \/ Collect \/ Verify \/ Stamp \/ PackNothing \/ Pack

Next ==
  \/ \E target \in {"package", "rootfs"} : Plan(target)
  \/ Step \/ RunFails \/ Fail \/ Crash \/ Edit \/ Replace \/ Clean

Spec == Init /\ [][Next]_vars

-----------------------------------------------------------------------------

\* A stage that a build would take as it is was made from what is there now,
\* generated header and CMake's configuration included, unless an attempt
\* since has failed on it or raced an edit.  Only ament does not promise it.
SkippedIsCurrent ==
  "context" \in Signs /\ ~ tainted /\ pc = "check" /\ plan.quiet /\ IsHit =>
    \A o \in Made :
      /\ files[o].source = source /\ files[o].context = context
      /\ files[o].with = CASE Reads = "header" -> source
                           [] UsesCMake -> context
                           [] OTHER -> 0

\* What a build that ended well has packed is what is in the stage, also when
\* the package was unpacked from the cache, and files that an earlier listing
\* named are gone.
PackedIsStaged ==
  pc = "done" /\ plan.packs =>
    ipk.files = [o \in Output |-> IF o \in Packaged THEN files[o] ELSE None]

\* While nothing changes, builds settle: everything is skipped the second
\* time, the third time if the listing of the stage is in the signature.
BuildsSettle ==
  /\ pc = "check" /\ (calm = 2 \/ (calm = 1 /\ "listing" \notin Signs)) => IsHit
  /\ pc = "pack" /\ (calm = 2 \/ (calm = 1 /\ ~ Expands)) /\ plan.packs => IpkIsHit

=============================================================================
