----------------------------- MODULE Stages_proofs -----------------------------
(***************************************************************************)
(* For any packages, versions, outputs, edits, failures and kills: that a  *)
(* stage taken as it is was made from what is there, that what is packed   *)
(* is what is staged, that builds settle; and that RT-Thread's scripts     *)
(* stage what the source, the choices and the index say.                   *)
(***************************************************************************)
EXTENDS Stages, TLAPS

-----------------------------------------------------------------------------
(* The backends that write their commands themselves.                      *)


\* All that the proofs need to know of the backends.
LEMMA KindFacts ==
  ASSUME kind \in Kinds
  PROVE  /\ Expands \in BOOLEAN /\ Requires \subseteq Output
         /\ Executor[kind].validates \in BOOLEAN
         /\ "header" \in Signs <=> Reads = "header"
         /\ "listing" \in Signs => Expands /\ Reads = "none"
         /\ "context" \in Signs => Reads # "keptBuildDir"
         /\ Reads \in {"none", "header", "freshBuildDir", "keptBuildDir"}
<1> USE DEF Expands, Requires, Signs, Reads, Task, Executor, LibraryTask, PythonLibraryTask,
            ExecutableTask, PythonExecutableTask, CMakeTask, AmentTask, LibraryExecutor,
            PythonLibraryExecutor, ExecutableExecutor, PythonExecutableExecutor, CMakeExecutor,
            AmentExecutor, Output
<1>1. kind \in {"library", "pythonLibrary", "executable", "pythonExecutable", "cmake",
                "amentLibrary", "amentExecutable"}
  BY KindAssumption
<1>2. CASE kind = "library"
  BY <1>2
<1>3. CASE kind = "pythonLibrary"
  BY <1>3
<1>4. CASE kind = "executable"
  BY <1>4
<1>5. CASE kind = "pythonExecutable"
  BY <1>5
<1>6. CASE kind = "cmake"
  BY <1>6
<1>7. CASE kind = "amentLibrary"
  BY <1>7
<1>8. CASE kind = "amentExecutable"
  BY <1>8
<1> QED
  BY <1>1, <1>2, <1>3, <1>4, <1>5, <1>6, <1>7, <1>8

-----------------------------------------------------------------------------
(* The inductive invariant, in four parts.                                 *)

\* The stage is what a successful build of this version leaves.
Exact ==
  /\ Made = IF Expands THEN Makes[source] ELSE Makes[source] \cap Requires
  /\ folder = Expands

HeaderCurrent == Reads = "header" => header = source /\ headerFor = source

\* What a file was made from, and with.
From(o, src, ctx, hdr) ==
  /\ files[o].source = src /\ files[o].context = ctx
  /\ files[o].with = CASE Reads = "header" -> hdr [] UsesCMake -> ctx [] OTHER -> 0

\* A stage that nothing has touched since it was stamped is as the stamp says.
StampTold ==
  /\ header # 0 => header = headerFor
  /\ pc \in {"host", "generate"} => Reads = "header"
  /\ pc \in {"command", "collect", "verify", "stamp"} => tainted
  /\ pc = "command" => files = NoFiles
  /\ pc = "command" /\ Reads = "freshBuildDir" => buildDir = 0
  /\ "context" \in Signs /\ pc \in {"collect", "verify", "stamp"} =>
       \A o \in Made : From(o, read.source, read.context, header)
  /\ "context" \in Signs /\ ~ tainted =>
       \A o \in Made : From(o, stamp.source, stamp.context, stamp.header)

\* An .ipk has what its signature says, as far as it is packaged.
PackTold ==
  /\ ipk # None =>
       ipk.files = [o \in Output |->
         IF o \in (IF Expands THEN {q \in Output : ipkStamp.content[q] # None} ELSE Requires)
         THEN ipkStamp.content[o] ELSE None]
  /\ PackedIsStaged

\* What a build has found out and still knows while nobody interferes.
Known ==
  /\ place # "foreign" /\ plan.context = context
  /\ pc \notin {"host", "generate"} => HeaderCurrent
  /\ pc \in {"host", "generate", "check", "validate", "prepare"} => plan.listing = Listing
  /\ ~ Expands => plan.listing = {"declared"}
  /\ pc \in {"collect", "verify", "stamp"} => Exact
  /\ pc = "pack" =>
       stamp = Signature /\ place = "dir" /\ (plan.listing = Listing \/ Exact)

Undisturbed ==
  /\ plan.packs = (plan.listing # {})
  /\ plan.quiet /\ pc \notin Ended => Known

\* What one or two such builds in a row have left: a stamp that the next one
\* will compute again, but for the listing of a first build; and, if that one
\* has not changed, the signature of the package.
Left ==
  /\ stamp = [Signature EXCEPT !.listing = stamp.listing]
  /\ IF "listing" \in Signs THEN stamp.listing = Listing \/ (calm = 1 /\ Exact)
     ELSE stamp.listing = {}
  /\ (calm = 2 \/ ~ Expands) /\ Listing # {} =>
       ipk # None /\ ipkStamp = [content |-> files, listing |-> Listing]

\* A second build that finds the listing changed.
Relisted == calm = 1 /\ "listing" \in Signs

Settling ==
  calm # 0 =>
    /\ plan.quiet /\ plan.context = context /\ place = "dir" /\ HeaderCurrent
    /\ pc \notin {"idle", "failed", "refused", "generate"}
    /\ pc \in {"done", "host", "check"} => Left
    /\ pc \in {"validate", "prepare"} => Relisted /\ Exact
    /\ pc \in {"command", "collect", "verify", "stamp"} =>
         Relisted /\ plan.listing = Makes[source]
    /\ pc = "pack" =>
         plan.listing = Listing /\ ((calm = 2 \/ ~ Expands) /\ plan.packs => IpkIsHit)

IInv ==
  /\ TypeOK
  /\ StampTold
  /\ PackTold
  /\ Undisturbed
  /\ Settling

-----------------------------------------------------------------------------
(* Types.                                                                  *)

Places == {"none", "dir", "foreign"}
Steps == Ended \cup {"host", "generate", "check", "validate", "prepare", "command", "collect",
                     "verify", "stamp", "pack"}
Filling == {"command", "collect", "verify", "stamp"}
StagedFiles == [Output -> File \cup {None}]
PlanType == [listing : Listed, context : 1..2, packs : BOOLEAN, quiet : BOOLEAN]
StampType == [source : Source, header : Source \cup {0}, context : 0..2, listing : Listed]

LEMMA NoFilesType == NoFiles \in StagedFiles /\ \A o \in Output : NoFiles[o] = None
BY DEF NoFiles, StagedFiles

LEMMA FileIsSomething == None \notin File
BY DEF None, File

LEMMA ListingType == Listing \in Listed
BY DEF Listing, Listed, Made

LEMMA SignatureType ==
  ASSUME TypeOK
  PROVE  Signature \in StampType
BY DEF TypeOK, Signature, StampType, PlanType, Listed

\* What the commands leave.
LEMMA BuiltType ==
  ASSUME TypeOK, NEW good \in BOOLEAN
  PROVE  Built(good) \in File /\ Configured \in 1..2
<1>1. Configured \in 1..2
  BY DEF TypeOK, Configured
<1> QED
  BY <1>1 DEF TypeOK, Built, File

LEMMA LeaveType ==
  ASSUME TypeOK, NEW O \in SUBSET Output, NEW good \in BOOLEAN, Leave(O, good)
  PROVE  /\ files' \in StagedFiles /\ buildDir' \in 0..2
         /\ pc = "command" /\ StampTold => Made' = O
<1>1. files' = [o \in Output |-> IF o \in O THEN Built(good) ELSE files[o]]
  BY DEF Leave
<1>2. Built(good) \in File /\ Configured \in 1..2
  BY BuiltType
<1>3. files' \in StagedFiles
  BY <1>1, <1>2 DEF TypeOK, StagedFiles
<1>4. buildDir' \in 0..2
  BY <1>2 DEF Leave, TypeOK
<1>5. ASSUME files = NoFiles PROVE Made' = O
  BY <1>1, <1>2, <1>5, NoFilesType, FileIsSomething DEF Made
<1> QED
  BY <1>3, <1>4, <1>5 DEF StampTold

LEMMA InitTypes ==
  ASSUME Init
  PROVE  TypeOK
<1>1. files \in StagedFiles /\ Made = {}
  BY NoFilesType DEF Init, Made
<1>2. plan \in PlanType
  BY DEF Init, PlanType, Listed
<1> QED
  <2>1. /\ kind \in Kinds /\ readelf \in BOOLEAN /\ source \in Source /\ context = 1
        /\ edits = 0 /\ place = "none" /\ folder = FALSE
        /\ header = 0 /\ headerFor = 0 /\ buildDir = 0
    BY DEF Init
  <2>2. /\ pc = "idle" /\ read \in [source : Source, context : 1..2]
        /\ stamp = None /\ ipk = None /\ ipkStamp = None /\ tainted = FALSE /\ calm = 0
    BY DEF Init
  <2>3. edits \in 0..MaxEdits /\ context \in 1..2 /\ buildDir \in 0..2 /\ calm \in 0..2
    BY <2>1, <2>2, EditAssumption
  <2>4. /\ stamp \in {None} \cup StampType
        /\ ipk \in {None} \cup [is : {"ipk"}, files : StagedFiles]
        /\ ipkStamp \in {None} \cup [content : StagedFiles, listing : Listed]
    BY <2>2
  <2> QED
    BY <1>1, <1>2, <2>1, <2>2, <2>3, <2>4 DEF TypeOK, StagedFiles, PlanType, StampType, Ended

LEMMA StepTypes ==
  ASSUME TypeOK, [Next]_vars
  PROVE  TypeOK'
<1>a. /\ source \in Source /\ context \in 1..2 /\ edits \in 0..MaxEdits
      /\ place \in Places /\ folder \in BOOLEAN /\ files \in StagedFiles
      /\ header \in Source \cup {0} /\ headerFor \in Source \cup {0} /\ buildDir \in 0..2
      /\ pc \in Steps /\ plan \in PlanType /\ read \in [source : Source, context : 1..2]
      /\ stamp \in {None} \cup StampType
      /\ ipk \in {None} \cup [is : {"ipk"}, files : StagedFiles]
      /\ ipkStamp \in {None} \cup [content : StagedFiles, listing : Listed]
      /\ tainted \in BOOLEAN /\ calm \in 0..2
      /\ Made # {} => place = "dir"
      /\ pc \in Filling => place = "dir"
      /\ ipk # None => ipkStamp # None
  BY DEF TypeOK, Filling, Places, Steps, StagedFiles, PlanType, StampType
<1>b. ASSUME UNCHANGED fixed,
             source' \in Source, context' \in 1..2, edits' \in 0..MaxEdits,
             place' \in Places, folder' \in BOOLEAN, files' \in StagedFiles,
             header' \in Source \cup {0}, headerFor' \in Source \cup {0}, buildDir' \in 0..2,
             pc' \in Steps, plan' \in PlanType, read' \in [source : Source, context : 1..2],
             stamp' \in {None} \cup StampType,
             ipk' \in {None} \cup [is : {"ipk"}, files : StagedFiles],
             ipkStamp' \in {None} \cup [content : StagedFiles, listing : Listed],
             tainted' \in BOOLEAN, calm' \in 0..2,
             Made' # {} => place' = "dir",
             pc' \in Filling => place' = "dir",
             ipk' # None => ipkStamp' # None
      PROVE  TypeOK'
  BY <1>b DEF TypeOK, Filling, Places, Steps, StagedFiles, PlanType, StampType, fixed
<1>c. UNCHANGED stage => /\ place' \in Places /\ folder' \in BOOLEAN /\ files' \in StagedFiles
                         /\ (Made' # {} => place' = "dir") /\ place' = place
  BY <1>a DEF stage, Made
<1>d. UNCHANGED pack => /\ ipk' \in {None} \cup [is : {"ipk"}, files : StagedFiles]
                        /\ ipkStamp' \in {None} \cup [content : StagedFiles, listing : Listed]
                        /\ ipk' # None => ipkStamp' # None
  BY <1>a DEF pack
<1>e. UNCHANGED world => source' \in Source /\ context' \in 1..2 /\ edits' \in 0..MaxEdits
  BY <1>a DEF world
<1>f. UNCHANGED host => header' \in Source \cup {0} /\ headerFor' \in Source \cup {0}
  BY <1>a DEF host
<1>g. /\ {"host", "generate", "check", "validate", "prepare", "command", "collect",
          "verify", "stamp", "pack"} \subseteq Steps
      /\ {"idle", "done", "failed", "refused"} \subseteq Steps
  BY DEF Steps, Ended
<1>h. NoFiles \in StagedFiles /\ (files' = NoFiles => Made' = {})
  BY NoFilesType DEF Made
<1> USE <1>b, <1>c, <1>d, <1>e, <1>f, <1>g DEF Goto, Failing, Filling
<1>1. ASSUME NEW target \in {"package", "rootfs"}, Plan(target)
      PROVE  TypeOK'
  <2>1. plan' \in PlanType
    BY <1>1, <1>a, ListingType DEF Plan, PlanType
  <2>2. read' \in [source : Source, context : 1..2]
    BY <1>1, <1>a DEF Plan
  <2>3. pc' \in Steps /\ calm' \in 0..2
    BY <1>1, <1>a DEF Plan
  <2> QED
    BY <1>1, <1>a, <2>1, <2>2, <2>3 DEF Plan
<1>2. CASE HostSkip
  BY <1>2, <1>a DEF HostSkip
<1>3. CASE HostPrepare
  BY <1>3, <1>a DEF HostPrepare
<1>4. CASE HostGenerate
  BY <1>4, <1>a DEF HostGenerate
<1>5. CASE Check
  <2>1. pc' \in Steps
    BY <1>5 DEF Check
  <2> QED
    BY <1>5, <1>a, <2>1 DEF Check
<1>6. CASE Validate
  BY <1>6, <1>a DEF Validate
<1>7. CASE Prepare
  <2>1. buildDir' \in 0..2
    BY <1>7, <1>a DEF Prepare
  <2> QED
    BY <1>7, <1>a, <1>h, <2>1 DEF Prepare, Places
<1>8. CASE Run
  <2> DEFINE O == IF Expands THEN Makes[source] ELSE Makes[source] \cap Requires
  <2>1. O \in SUBSET Output
    BY <1>a, MakesAssumption
  <2>2. PICK good \in BOOLEAN : Leave(O, good)
    BY <1>8 DEF Run
  <2>3. files' \in StagedFiles /\ buildDir' \in 0..2
    <3> HIDE DEF O
    <3> QED
      BY <2>1, <2>2, LeaveType
  <2>4. read' \in [source : Source, context : 1..2] /\ folder' \in BOOLEAN
    BY <1>8, <1>a, KindFacts DEF Run, TypeOK
  <2>5. Made' # {} => place' = "dir"
    BY <1>8, <1>a DEF Run
  <2> QED
    BY <1>8, <1>a, <2>3, <2>4, <2>5 DEF Run
<1>9. CASE Collect
  <2>1. pc' \in Steps /\ calm' \in 0..2
    BY <1>9, <1>a DEF Collect
  <2> QED
    BY <1>9, <1>a, <2>1 DEF Collect
<1>10. CASE Verify
  <2>1. pc' \in Steps /\ calm' \in 0..2
    BY <1>10, <1>a DEF Verify
  <2> QED
    BY <1>10, <1>a, <2>1 DEF Verify
<1>11. CASE Stamp
  BY <1>11, <1>a, SignatureType DEF Stamp
<1>12. CASE PackNothing
  <2>1. calm' \in 0..2
    BY <1>12, <1>a DEF PackNothing, Succeed
  <2> QED
    BY <1>12, <1>a, <2>1 DEF PackNothing, Succeed
<1>13. CASE Pack
  <2>1. calm' \in 0..2 /\ pc' \in {"done", "failed"}
    BY <1>13, <1>a DEF Pack, Succeed
  <2>2. CASE UNCHANGED pack
    BY <1>13, <1>a, <2>1, <2>2 DEF Pack
  <2>3. CASE /\ ipk' = [is |-> "ipk",
                        files |-> [o \in Output |-> IF o \in Packaged THEN files[o] ELSE None]]
             /\ ipkStamp' = IpkSignature
    <3>1. [o \in Output |-> IF o \in Packaged THEN files[o] ELSE None] \in StagedFiles
      BY <1>a DEF StagedFiles
    <3>2. ipk' \in [is : {"ipk"}, files : StagedFiles]
      BY <2>3, <3>1
    <3>3. ipkStamp' \in [content : StagedFiles, listing : Listed]
      BY <2>3, <1>a DEF IpkSignature, PlanType
    <3>4. ipkStamp' # None
      BY <2>3 DEF IpkSignature, None
    <3> QED
      BY <1>13, <1>a, <2>1, <3>2, <3>3, <3>4 DEF Pack
  <2> QED
    BY <1>13, <2>2, <2>3 DEF Pack
<1>14. CASE RunFails
  <2>1. PICK O \in SUBSET Output : Leave(O, TRUE)
    BY <1>14 DEF RunFails
  <2>2. files' \in StagedFiles /\ buildDir' \in 0..2
    BY <2>1, LeaveType
  <2>3. folder' \in BOOLEAN
    BY <1>14 DEF RunFails
  <2>4. Made' # {} => place' = "dir"
    BY <1>14, <1>a DEF RunFails
  <2> QED
    BY <1>14, <1>a, <2>2, <2>3, <2>4 DEF RunFails
<1>15. CASE Fail \/ Crash
  BY <1>15, <1>a DEF Fail, Crash
<1>16. CASE Edit
  <2>1. plan' \in PlanType
    BY <1>16, <1>a DEF Edit, PlanType
  <2>2. edits' \in 0..MaxEdits
    BY <1>16, <1>a, EditAssumption DEF Edit
  <2> QED
    BY <1>16, <1>a, <2>1, <2>2 DEF Edit
<1>17. CASE Replace
  <2>1. plan' \in PlanType
    BY <1>17, <1>a DEF Replace, PlanType
  <2>2. edits' \in 0..MaxEdits
    BY <1>17, <1>a, EditAssumption DEF Replace
  <2>3. pc' \in Steps \ Filling /\ calm' \in 0..2
    BY <1>17, <1>a DEF Replace, Ended
  <2>4. place' \in Places /\ folder' \in BOOLEAN /\ files' \in StagedFiles /\ Made' = {}
    BY <1>17, <1>h DEF Replace, Places
  <2> QED
    BY <1>17, <1>a, <2>1, <2>2, <2>3, <2>4 DEF Replace
<1>18. CASE Clean
  <2>1. place' \in Places /\ folder' \in BOOLEAN /\ files' \in StagedFiles /\ Made' = {}
    BY <1>18, <1>h DEF Clean, Places
  <2>2. /\ header' = 0 /\ headerFor' = 0 /\ buildDir' = 0
        /\ UNCHANGED fixed /\ UNCHANGED world /\ plan' = plan /\ read' = read
    BY <1>18 DEF Clean
  <2>3. /\ stamp' = None /\ ipk' = None /\ ipkStamp' = None /\ tainted' = FALSE /\ calm' = 0
        /\ pc' = "idle"
    BY <1>18 DEF Clean
  <2>4. /\ stamp' \in {None} \cup StampType
        /\ ipk' \in {None} \cup [is : {"ipk"}, files : StagedFiles]
        /\ ipkStamp' \in {None} \cup [content : StagedFiles, listing : Listed]
    BY <2>3
  <2>5. pc' \in Steps \ Filling /\ calm' \in 0..2 /\ buildDir' \in 0..2
    BY <2>2, <2>3
  <2>7. tainted' \in BOOLEAN
    BY <1>18 DEF Clean
  <2>8. plan' \in PlanType /\ read' \in [source : Source, context : 1..2]
    BY <1>a, <2>2
  <2>6. ipk' # None => ipkStamp' # None
    BY <2>3
  <2> QED
    BY <1>a, <2>1, <2>2, <2>4, <2>5, <2>6, <2>7, <2>8
<1>19. CASE UNCHANGED vars
  BY <1>19, <1>a DEF vars
<1> QED
  BY <1>1, <1>2, <1>3, <1>4, <1>5, <1>6, <1>7, <1>8, <1>9, <1>10, <1>11, <1>12, <1>13,
     <1>14, <1>15, <1>16, <1>17, <1>18, <1>19 DEF Next, Step

\* For any backends, versions and outputs, the types.
THEOREM TypeCorrect == Spec => []TypeOK
<1>1. Init => TypeOK
  BY InitTypes
<1>2. TypeOK /\ [Next]_vars => TypeOK'
  BY StepTypes
<1> QED
  BY <1>1, <1>2, PTL DEF Spec

-----------------------------------------------------------------------------
(* The first part: what a stage is made from.                              *)

\* A package keeps its backend.
LEMMA KindStays ==
  ASSUME [Next]_vars
  PROVE  /\ kind' = kind /\ readelf' = readelf
         /\ Expands' = Expands /\ Signs' = Signs /\ Requires' = Requires /\ Checks' = Checks
         /\ Reads' = Reads /\ UsesCMake' = UsesCMake
<1>1. UNCHANGED fixed
  BY DEF Next, Step, Plan, HostSkip, HostPrepare, HostGenerate, Check, Validate, Prepare, Run,
         Collect, Verify, Stamp, PackNothing, Pack, RunFails, Fail, Crash, Edit, Replace, Clean,
         vars
<1>2. kind' = kind /\ readelf' = readelf
  BY <1>1 DEF fixed
<1> QED
  BY <1>2 DEF Expands, Signs, Requires, Checks, Reads, UsesCMake

\* From where to where the steps lead that leave the stage as it is.
LEMMA QuietPlaces ==
  ASSUME \/ \E target \in {"package", "rootfs"} : Plan(target)
         \/ HostSkip \/ HostPrepare \/ HostGenerate \/ Check \/ Validate
         \/ PackNothing \/ Pack \/ Fail \/ Crash
  PROVE  /\ pc' \in {"host", "generate", "check", "validate", "prepare", "pack", "done", "failed",
                     "refused"}
         /\ pc' \in {"host", "generate"} => Reads = "header" \/ pc \in {"host", "generate"}
         /\ UNCHANGED <<place, folder, files, stamp, tainted, buildDir>>
         /\ \/ header' = header /\ headerFor' = headerFor
            \/ header' \in {0, headerFor'}
<1> USE DEF Goto, Failing, Succeed, Ended, stage, host
<1>1. ASSUME NEW target \in {"package", "rootfs"}, Plan(target)
      PROVE  /\ pc' \in {"refused", "host", "check"}
             /\ pc' = "host" => Reads = "header"
             /\ UNCHANGED <<place, folder, files, stamp, tainted, buildDir, header, headerFor>>
  BY <1>1 DEF Plan
<1>2. CASE HostSkip \/ HostPrepare \/ HostGenerate
  BY <1>2 DEF HostSkip, HostPrepare, HostGenerate
<1>3. CASE Check \/ Validate
  BY <1>3 DEF Check, Validate
<1>4. CASE PackNothing \/ Pack
  BY <1>4 DEF PackNothing, Pack
<1>5. CASE Fail \/ Crash
  BY <1>5 DEF Fail, Crash
<1> QED
  BY <1>1, <1>2, <1>3, <1>4, <1>5

LEMMA StampTells ==
  ASSUME TypeOK, StampTold, [Next]_vars
  PROVE  StampTold'
<1>k. /\ kind \in Kinds
      /\ Expands' = Expands /\ Signs' = Signs /\ Requires' = Requires /\ Reads' = Reads
      /\ UsesCMake' = UsesCMake
  BY KindStays DEF TypeOK
<1>f. /\ "header" \in Signs <=> Reads = "header"
      /\ "context" \in Signs => Reads # "keptBuildDir"
  BY <1>k, KindFacts
<1> USE <1>k
<1>1. CASE \/ \E target \in {"package", "rootfs"} : Plan(target)
           \/ HostSkip \/ HostPrepare \/ HostGenerate \/ Check \/ Validate
           \/ PackNothing \/ Pack \/ Fail \/ Crash
  BY <1>1, QuietPlaces DEF StampTold, From, Made
<1>2. CASE Prepare
  <2>1. /\ pc' = "command" /\ files' = NoFiles /\ tainted' = TRUE /\ UNCHANGED host
        /\ Reads = "freshBuildDir" => buildDir' = 0
    BY <1>2 DEF Prepare, Goto
  <2> QED
    BY <2>1 DEF StampTold, host
<1>3. CASE Run
  <2>1. PICK good \in BOOLEAN :
          Leave(IF Expands THEN Makes[source] ELSE Makes[source] \cap Requires, good)
    BY <1>3 DEF Run
  <2>2. /\ pc = "command" /\ pc' = "collect" /\ UNCHANGED tainted /\ UNCHANGED host
        /\ read' = [source |-> source, context |-> context]
    BY <1>3 DEF Run, Goto
  <2>3. files = NoFiles /\ tainted /\ (Reads = "freshBuildDir" => buildDir = 0)
    BY <2>2 DEF StampTold
  <2>4. ASSUME "context" \in Signs, NEW o \in Made'
        PROVE  From(o, read.source, read.context, header)'
    <3>1. o \in Output /\ files'[o] # None
      BY <2>4 DEF Made
    <3>2. files'[o] = Built(good)
      BY <2>1, <2>3, <3>1, NoFilesType DEF Leave
    <3>3. UsesCMake => Configured = context
      BY <1>f, <2>3, <2>4 DEF UsesCMake, Configured
    <3> QED
      BY <2>2, <3>2, <3>3 DEF Built, From, host
  <2> QED
    BY <2>2, <2>3, <2>4 DEF StampTold, host
<1>4. CASE Collect \/ Verify
  <2>1. /\ pc \in {"collect", "verify"} /\ pc' \in {"verify", "stamp", "failed"}
        /\ UNCHANGED <<files, stamp, tainted, header, headerFor, read>>
    BY <1>4 DEF Collect, Verify, Goto, Failing, stage, host
  <2> QED
    BY <2>1 DEF StampTold, From, Made
<1>5. CASE Stamp
  <2>1. /\ pc = "stamp" /\ pc' = "pack" /\ stamp' = Signature
        /\ tainted' = (read # [source |-> source, context |-> plan.context])
        /\ UNCHANGED <<files, header, headerFor, read>>
    BY <1>5 DEF Stamp, Goto, stage, host
  <2>2. ASSUME "context" \in Signs, ~ tainted', NEW o \in Made
        PROVE  From(o, Signature.source, Signature.context, Signature.header)
    <3>1. From(o, read.source, read.context, header)
      BY <2>1, <2>2 DEF StampTold
    <3>2. read = [source |-> source, context |-> plan.context]
      BY <2>1, <2>2, Zenon
    <3>3. Signature.source = source /\ Signature.context = plan.context
      BY <2>2 DEF Signature
    <3>4. Reads = "header" => Signature.header = header
      BY <1>f DEF Signature
    <3> QED
      BY <3>1, <3>2, <3>3, <3>4 DEF From
  <2> QED
    BY <2>1, <2>2 DEF StampTold, From, Made
<1>6. CASE RunFails
  <2>1. pc' = "failed" /\ pc = "command" /\ UNCHANGED tainted /\ UNCHANGED host
    BY <1>6 DEF RunFails, Goto, Failing
  <2> QED
    BY <2>1 DEF StampTold, host
<1>7. CASE Edit \/ UNCHANGED vars
  <2>1. UNCHANGED <<pc, files, stamp, tainted, header, headerFor, read, buildDir>>
    BY <1>7 DEF Edit, vars, stage, host
  <2> QED
    BY <2>1 DEF StampTold, From, Made
<1>8. CASE Replace
  <2>1. /\ pc' \in {"idle", "host", "generate", "check", "validate", "prepare"}
        /\ pc' # "idle" => pc' = pc
        /\ files' = NoFiles /\ UNCHANGED <<stamp, tainted, header, headerFor>>
    BY <1>8 DEF Replace, Goto, host
  <2>2. Made' = {}
    BY <2>1, NoFilesType DEF Made
  <2> QED
    BY <2>1, <2>2 DEF StampTold
<1>9. CASE Clean
  <2>1. pc' = "idle" /\ files' = NoFiles /\ header' = 0
    BY <1>9 DEF Clean, Goto
  <2>2. Made' = {}
    BY <2>1, NoFilesType DEF Made
  <2> QED
    BY <2>1, <2>2 DEF StampTold
<1> QED
  BY <1>1, <1>2, <1>3, <1>4, <1>5, <1>6, <1>7, <1>8, <1>9 DEF Next, Step

-----------------------------------------------------------------------------
(* The second: what is packed.                                             *)

LEMMA PackTells ==
  ASSUME TypeOK, PackTold, [Next]_vars
  PROVE  PackTold'
<1>k. /\ kind \in Kinds /\ Expands' = Expands /\ Requires' = Requires
  BY KindStays DEF TypeOK
<1>f. Requires \subseteq Output
  BY <1>k, KindFacts
<1> USE <1>k
<1>1. CASE PackNothing
  <2>1. /\ pc' = "done" /\ UNCHANGED <<ipk, ipkStamp, plan, files>>
        /\ plan.packs => ipk # None /\ ipkStamp = IpkSignature
    BY <1>1 DEF PackNothing, Succeed, Goto, stage, pack, IpkIsHit
  <2>2. plan.packs => ipkStamp.content = files
    BY <2>1 DEF IpkSignature
  <2>3. plan.packs =>
          ipk.files = [o \in Output |-> IF o \in Packaged THEN files[o] ELSE None]
    BY <2>1, <2>2 DEF PackTold, Packaged, Made
  <2> QED
    BY <2>1, <2>3 DEF PackTold, PackedIsStaged, Packaged, Made
<1>2. CASE Pack
  <2>1. /\ UNCHANGED <<files, plan>>
        /\ \/ pc' = "failed" /\ UNCHANGED <<ipk, ipkStamp>>
           \/ /\ ipk' = [is |-> "ipk",
                    files |-> [o \in Output |-> IF o \in Packaged THEN files[o] ELSE None]]
              /\ ipkStamp' = IpkSignature
    BY <1>2 DEF Pack, Goto, Failing, stage, pack
  <2>2. CASE pc' = "failed" /\ UNCHANGED <<ipk, ipkStamp>>
    BY <2>2 DEF PackTold, PackedIsStaged
  <2>3. CASE /\ ipk' = [is |-> "ipk",
                    files |-> [o \in Output |-> IF o \in Packaged THEN files[o] ELSE None]]
             /\ ipkStamp' = IpkSignature
    <3>1. /\ ipk'.files = [o \in Output |-> IF o \in Packaged THEN files[o] ELSE None]
          /\ ipkStamp'.content = files
      BY <2>3 DEF IpkSignature
    <3>2. Packaged' = Packaged
      BY <2>1 DEF Packaged, Made
    <3> QED
      BY <2>1, <3>1, <3>2 DEF PackTold, PackedIsStaged, Packaged, Made
  <2> QED
    BY <2>1, <2>2, <2>3
<1>3. CASE Clean
  BY <1>3 DEF Clean, PackTold, PackedIsStaged, Goto
<1>4. CASE Edit \/ UNCHANGED vars
  <2>1. /\ UNCHANGED <<pc, files, ipk, ipkStamp>> /\ plan'.packs = plan.packs
    BY <1>4 DEF Edit, vars, stage, pack, TypeOK
  <2> QED
    BY <2>1 DEF PackTold, PackedIsStaged, Packaged, Made
<1>5. CASE \/ \E target \in {"package", "rootfs"} : Plan(target)
           \/ HostSkip \/ HostPrepare \/ HostGenerate \/ Check \/ Validate \/ Prepare
           \/ Run \/ Collect \/ Verify \/ Stamp \/ RunFails \/ Fail \/ Crash \/ Replace
  <2>1. pc' # "done" /\ UNCHANGED <<ipk, ipkStamp>>
    BY <1>5 DEF Plan, HostSkip, HostPrepare, HostGenerate, Check, Validate, Prepare, Run,
                Collect, Verify, Stamp, RunFails, Fail, Crash, Replace, Goto, Failing, pack, Ended
  <2> QED
    BY <2>1 DEF PackTold, PackedIsStaged
<1> QED
  BY <1>1, <1>2, <1>3, <1>4, <1>5 DEF Next, Step

-----------------------------------------------------------------------------
(* The third: a build that nobody disturbs.                                *)

LEMMA LearnsPlan ==
  ASSUME TypeOK, Undisturbed, [Next]_vars
  PROVE  plan'.packs = (plan'.listing # {})
<1>1. ASSUME NEW target \in {"package", "rootfs"}, Plan(target)
      PROVE  plan'.packs = (plan'.listing # {})
  BY <1>1 DEF Plan
<1>2. CASE Edit \/ Replace
  <2>1. plan'.packs = plan.packs /\ plan'.listing = plan.listing
    BY <1>2 DEF Edit, Replace, TypeOK
  <2> QED
    BY <2>1 DEF Undisturbed
<1>3. CASE \/ HostSkip \/ HostPrepare \/ HostGenerate \/ Check \/ Validate \/ Prepare
           \/ Run \/ Collect \/ Verify \/ Stamp \/ PackNothing \/ Pack
           \/ RunFails \/ Fail \/ Crash \/ Clean \/ UNCHANGED vars
  <2>1. plan' = plan
    BY <1>3 DEF HostSkip, HostPrepare, HostGenerate, Check, Validate, Prepare, Run, Collect,
         Verify, Stamp, PackNothing, Pack, RunFails, Fail, Crash, Clean, vars
  <2> QED
    BY <2>1 DEF Undisturbed
<1> QED
  BY <1>1, <1>2, <1>3 DEF Next, Step

LEMMA LearnsExact ==
  ASSUME TypeOK, StampTold, Run
  PROVE  Exact'
<1> DEFINE O == IF Expands THEN Makes[source] ELSE Makes[source] \cap Requires
<1>1. O \in SUBSET Output
  BY MakesAssumption DEF TypeOK
<1>2. PICK good \in BOOLEAN : Leave(O, good)
  BY DEF Run
<1>3. pc = "command" /\ folder' = Expands /\ UNCHANGED fixed /\ UNCHANGED world
  BY DEF Run
<1>4. Made' = O
  <2> HIDE DEF O
  <2> QED
    BY <1>1, <1>2, <1>3, LeaveType
<1> QED
  BY <1>3, <1>4 DEF Exact, fixed, world, Expands, Requires

LEMMA Learns ==
  ASSUME TypeOK, StampTold, Undisturbed, [Next]_vars
  PROVE  Undisturbed'
<1>k. /\ kind \in Kinds /\ kind' = kind
      /\ Expands' = Expands /\ Signs' = Signs /\ Requires' = Requires /\ Reads' = Reads
  BY KindStays DEF TypeOK
<1>f. /\ Expands \in BOOLEAN /\ Executor[kind].validates \in BOOLEAN
      /\ "header" \in Signs <=> Reads = "header"
  BY <1>k, KindFacts
<1>g. Ended = {"idle", "done", "failed", "refused"}
  BY DEF Ended
<1>s. /\ source \in Source /\ source # 0
  BY SourceAssumption DEF TypeOK
<1>p. plan'.packs = (plan'.listing # {})
  BY LearnsPlan
<1>u. plan.quiet /\ pc \notin Ended => Known
  BY DEF Undisturbed
<1>q. (plan'.quiet /\ pc' \notin Ended => Known') => Undisturbed'
  BY <1>p DEF Undisturbed
<1> USE <1>k, <1>f, <1>g DEF Known
<1>1. ASSUME NEW target \in {"package", "rootfs"}, Plan(target)
      PROVE  pc' \notin Ended => Known'
  <2>1. /\ plan' = [listing |-> Listing, context |-> context, packs |-> Listing # {},
                    quiet |-> TRUE]
        /\ UNCHANGED <<world, stage, host>>
        /\ pc' \in {"refused", "host", "check"}
        /\ pc' # "refused" => place # "foreign"
        /\ pc' = "check" => Reads # "header"
    BY <1>1 DEF Plan, Goto, Refused
  <2>2. Listing' = Listing /\ plan'.listing = Listing /\ plan'.context = context
    BY <2>1 DEF Listing, Made, stage
  <2>3. ~ Expands => Listing = {"declared"}
    BY DEF Listing
  <2> QED
    BY <2>1, <2>2, <2>3 DEF HeaderCurrent, world, stage
<1>2. CASE HostSkip \/ HostPrepare \/ HostGenerate
  <2>1. /\ pc \in {"host", "generate"} /\ pc' \in {"generate", "check"}
        /\ pc' = "check" => header' = source /\ headerFor' = source
        /\ UNCHANGED <<plan, source, context, stage>>
    BY <1>2 DEF HostSkip, HostPrepare, HostGenerate, Goto, StampTold, world, host
  <2>2. Listing' = Listing
    BY <2>1 DEF Listing, Made, stage
  <2> QED
    BY <1>q, <1>u, <2>1, <2>2 DEF HeaderCurrent, stage
<1>3. CASE Check
  <2>1. /\ pc = "check" /\ pc' \in {"pack", "validate", "prepare"}
        /\ pc' = "pack" => stamp = Signature /\ place # "none"
        /\ UNCHANGED <<plan, source, context, stage, header, headerFor, stamp>>
    BY <1>3 DEF Check, Goto, world, host, IsHit
  <2>2. Listing' = Listing /\ Signature' = Signature
    BY <2>1 DEF Listing, Made, stage, Signature
  <2> QED
    BY <1>q, <1>u, <2>1, <2>2 DEF HeaderCurrent, stage, TypeOK
<1>4. CASE Validate
  <2>1. /\ pc = "validate" /\ pc' = "prepare"
        /\ UNCHANGED <<plan, source, context, stage, header, headerFor, stamp>>
    BY <1>4 DEF Validate, Goto, world, host
  <2>2. Listing' = Listing
    BY <2>1 DEF Listing, Made, stage
  <2> QED
    BY <1>q, <1>u, <2>1, <2>2 DEF HeaderCurrent, stage
<1>5. CASE Prepare
  <2>1. /\ pc = "prepare" /\ pc' = "command" /\ place' = "dir"
        /\ UNCHANGED <<plan, source, context, header, headerFor, stamp>>
    BY <1>5 DEF Prepare, Goto, world, host
  <2> QED
    BY <1>q, <1>u, <2>1 DEF HeaderCurrent
<1>6. CASE Run
  <2>1. /\ pc = "command" /\ pc' = "collect" /\ UNCHANGED place
        /\ UNCHANGED <<plan, source, context, header, headerFor, stamp>>
    BY <1>6 DEF Run, Goto, world, host
  <2>2. Exact'
    BY <1>6, LearnsExact
  <2> QED
    BY <1>q, <1>u, <2>1, <2>2 DEF HeaderCurrent
<1>7. CASE Collect \/ Verify
  <2>1. /\ pc \in {"collect", "verify"} /\ pc' \in {"verify", "stamp", "failed"}
        /\ UNCHANGED <<plan, source, context, header, headerFor, stage>>
    BY <1>7 DEF Collect, Verify, Goto, Failing, world, host
  <2>2. Exact' = Exact
    BY <2>1 DEF Exact, Made, stage
  <2> QED
    BY <1>q, <1>u, <2>1, <2>2 DEF HeaderCurrent, stage
<1>8. CASE Stamp
  <2>1. /\ pc = "stamp" /\ pc' = "pack" /\ stamp' = Signature
        /\ UNCHANGED <<plan, source, context, header, headerFor, stage>>
    BY <1>8 DEF Stamp, Goto, world, host
  <2>2. Exact' = Exact /\ Signature' = Signature /\ place = "dir"
    BY <2>1 DEF Exact, Made, stage, Signature, TypeOK
  <2> QED
    BY <1>q, <1>u, <2>1, <2>2 DEF HeaderCurrent, stage
<1>9. CASE PackNothing \/ Pack \/ RunFails \/ Fail \/ Crash \/ Clean
  <2>1. pc' \in Ended
    BY <1>9 DEF PackNothing, Pack, RunFails, Fail, Crash, Clean, Goto, Failing, Succeed
  <2> QED
    BY <1>q, <2>1
<1>10. CASE Edit \/ Replace
  <2>1. ~ plan'.quiet
    BY <1>10 DEF Edit, Replace, TypeOK
  <2> QED
    BY <1>q, <2>1
<1>11. CASE UNCHANGED vars
  <2>1. UNCHANGED <<kind, plan, source, context, header, headerFor, stage, stamp, pc>>
    BY <1>11 DEF vars, fixed, world, host
  <2>2. Exact' = Exact /\ Signature' = Signature /\ Listing' = Listing
    BY <2>1 DEF Exact, Made, stage, Signature, Listing
  <2> QED
    BY <1>q, <1>u, <2>1, <2>2 DEF HeaderCurrent, stage
<1> QED
  BY <1>q, <1>1, <1>2, <1>3, <1>4, <1>5, <1>6, <1>7, <1>8, <1>9, <1>10, <1>11 DEF Next, Step

-----------------------------------------------------------------------------
(* The fourth: builds in a row.                                            *)

\* Which the next one begins where the last one left off.
LEMMA LeftStays ==
  ASSUME TypeOK, Left, [Next]_vars, calm' = calm, plan'.context = plan.context,
         UNCHANGED <<source, header, files, folder, stamp, ipk, ipkStamp>>
  PROVE  Left'
<1>1. /\ Expands' = Expands /\ Signs' = Signs /\ Requires' = Requires
  BY KindStays
<1>2. /\ Listing' = Listing /\ Exact' = Exact
      /\ Signature'.source = Signature.source /\ Signature'.header = Signature.header
      /\ Signature'.context = Signature.context
  BY <1>1 DEF Listing, Exact, Made, Signature
<1>3. [Signature EXCEPT !.listing = stamp.listing]'
        = [Signature EXCEPT !.listing = stamp.listing]
  BY <1>2 DEF Signature
<1> QED
  BY <1>1, <1>2, <1>3 DEF Left

\* What a build that has gone well leaves.
LEMMA Leaves ==
  ASSUME TypeOK, Undisturbed, Settling, pc = "pack", PackNothing \/ Pack, calm' # 0
  PROVE  /\ pc' = "done" /\ plan.quiet /\ plan.context = context /\ place = "dir" /\ HeaderCurrent
         /\ Left'
<1>1. /\ pc' = "done" /\ plan.quiet
      /\ calm' = IF calm < 2 THEN calm + 1 ELSE 2
      /\ plan.packs => ipk' # None /\ ipkStamp' = IpkSignature
      /\ UNCHANGED <<kind, source, context, place, folder, files, header, stamp, plan>>
  <2>1. CASE PackNothing
    BY <2>1 DEF PackNothing, Succeed, Goto, IpkIsHit, fixed, world, stage, host, pack
  <2>2. CASE Pack
    BY <2>2 DEF Pack, Succeed, Failing, Goto, None, fixed, world, stage, host
  <2> QED
    BY <2>1, <2>2
<1>2. /\ place = "dir" /\ plan.context = context /\ HeaderCurrent /\ stamp = Signature
      /\ plan.listing = Listing \/ Exact
      /\ ~ Expands => plan.listing = {"declared"}
      /\ plan.packs = (plan.listing # {})
  BY <1>1 DEF Undisturbed, Known, Ended
<1>3. calm # 0 => plan.listing = Listing
  BY DEF Settling
<1>4. /\ Listing' = Listing /\ Exact' = Exact /\ Signature' = Signature
      /\ Expands' = Expands /\ Signs' = Signs
  BY <1>1 DEF Listing, Exact, Made, Signature, Expands, Signs, Requires
<1>5. IF calm = 0 THEN calm' = 1 ELSE calm' = 2
  <2>1. calm \in 0..2
    BY DEF TypeOK
  <2> QED
    BY <1>1, <2>1
<1>6. stamp' = [Signature EXCEPT !.listing = stamp.listing]'
  BY <1>1, <1>2, <1>4 DEF Signature
<1>7. IF "listing" \in Signs THEN stamp.listing = plan.listing ELSE stamp.listing = {}
  BY <1>2 DEF Signature
<1>8. IF "listing" \in Signs THEN stamp.listing = Listing \/ (calm' = 1 /\ Exact)
      ELSE stamp.listing = {}
  BY <1>2, <1>3, <1>5, <1>7
<1>9. ASSUME calm' = 2 \/ ~ Expands, Listing # {}
      PROVE  ipk' # None /\ ipkStamp' = [content |-> files, listing |-> Listing]
  <2>1. plan.listing = Listing
    <3>1. CASE ~ Expands
      BY <1>2, <3>1 DEF Listing
    <3> QED
      BY <1>3, <1>5, <1>9, <3>1
  <2> QED
    BY <1>1, <1>2, <1>9, <2>1 DEF IpkSignature
<1> QED
  BY <1>1, <1>2, <1>4, <1>6, <1>8, <1>9 DEF Left

LEMMA Settles ==
  ASSUME TypeOK, StampTold, Undisturbed, Settling, [Next]_vars
  PROVE  Settling'
<1>k. /\ kind \in Kinds /\ kind' = kind
      /\ Expands' = Expands /\ Signs' = Signs /\ Requires' = Requires /\ Reads' = Reads
  BY KindStays DEF TypeOK
<1>f. /\ Expands \in BOOLEAN /\ Executor[kind].validates \in BOOLEAN
      /\ "header" \in Signs <=> Reads = "header"
      /\ "listing" \in Signs => Expands /\ Reads = "none"
  BY <1>k, KindFacts
<1>s. source \in Source /\ source # 0 /\ calm \in 0..2
  BY SourceAssumption DEF TypeOK
<1> USE <1>k, <1>f, <1>s
<1>1. ASSUME NEW target \in {"package", "rootfs"}, Plan(target)
      PROVE  Settling'
  <2> SUFFICES ASSUME calm' # 0
               PROVE  Settling'
    BY DEF Settling
  <2>1. /\ pc \in Ended
        /\ plan' = [listing |-> Listing, context |-> context, packs |-> Listing # {},
                    quiet |-> TRUE]
        /\ pc' \in {"host", "check"} /\ calm' = calm
        /\ UNCHANGED <<source, context, place, folder, files, header, headerFor, stamp, ipk, ipkStamp>>
    BY <1>1 DEF Plan, Goto, world, stage, host, pack
  <2>2. pc = "done" /\ Left /\ plan.context = context /\ place = "dir" /\ HeaderCurrent
    BY <2>1 DEF Settling, Ended
  <2>3. Left'
    BY <2>1, <2>2, LeftStays
  <2> QED
    BY <2>1, <2>2, <2>3 DEF Settling, HeaderCurrent
<1>2. CASE HostSkip \/ HostPrepare \/ HostGenerate
  <2> SUFFICES ASSUME calm' # 0
               PROVE  Settling'
    BY DEF Settling
  <2>1. /\ calm' = calm /\ pc \in {"host", "generate"} /\ pc' \in {"check", "generate"}
        /\ UNCHANGED <<source, context, plan, place, folder, files, stamp, ipk, ipkStamp>>
    BY <1>2 DEF HostSkip, HostPrepare, HostGenerate, Goto, world, stage, pack
  <2>2. pc = "host" /\ Left /\ plan.quiet /\ plan.context = context /\ place = "dir" /\ HeaderCurrent
    BY <2>1 DEF Settling
  <2>3. HostSkip
    <3>1. header = source /\ headerFor = source
      BY <2>2 DEF StampTold, HeaderCurrent
    <3> QED
      BY <1>2, <2>2, <3>1 DEF HostPrepare, HostGenerate
  <2>4. pc' = "check" /\ UNCHANGED <<header, headerFor>>
    BY <2>3 DEF HostSkip, Goto, host
  <2>5. Left'
    BY <2>1, <2>2, <2>4, LeftStays
  <2> QED
    BY <2>1, <2>2, <2>4, <2>5 DEF Settling, HeaderCurrent
<1>3. CASE Check
  <2> SUFFICES ASSUME calm' # 0
               PROVE  Settling'
    BY DEF Settling
  <2>1. /\ calm' = calm /\ pc = "check"
        /\ pc' \in IF IsHit THEN {"pack"} ELSE {"validate", "prepare"}
        /\ UNCHANGED <<kind, source, context, plan, place, folder, files, header, headerFor, stamp,
                       ipk, ipkStamp>>
    BY <1>3 DEF Check, Goto, world, stage, host, pack
  <2>2. /\ Left /\ plan.quiet /\ plan.context = context /\ place = "dir" /\ HeaderCurrent
        /\ plan.listing = Listing /\ plan.packs = (plan.listing # {})
    BY <2>1 DEF Settling, Undisturbed, Known, Ended
  <2>3. Listing' = Listing /\ Exact' = Exact /\ IpkIsHit' = IpkIsHit /\ HeaderCurrent' = HeaderCurrent
    BY <2>1 DEF Listing, Exact, Made, HeaderCurrent, IpkIsHit, IpkSignature
  <2>4. CASE IsHit
    <3>1. (calm = 2 \/ ~ Expands) /\ plan.packs => IpkIsHit
      BY <2>2 DEF Left, IpkIsHit, IpkSignature
    <3> QED
      BY <2>1, <2>2, <2>3, <2>4, <3>1 DEF Settling
  <2>5. CASE ~ IsHit
    <3>1. stamp # Signature
      BY <2>2, <2>5 DEF IsHit
    <3>2. stamp.listing # Signature.listing
      BY <2>2, <3>1 DEF Left, Signature
    <3>3. Relisted /\ Exact
      BY <2>2, <3>2 DEF Left, Signature, Relisted
    <3>4. Relisted'
      BY <2>1, <3>3 DEF Relisted
    <3> QED
      BY <2>1, <2>2, <2>3, <2>5, <3>3, <3>4 DEF Settling
  <2> QED
    BY <2>4, <2>5
<1>4. CASE Validate
  <2>1. /\ calm' = calm /\ pc = "validate" /\ pc' = "prepare"
        /\ UNCHANGED <<source, context, plan, place, folder, files, header, headerFor>>
    BY <1>4 DEF Validate, Goto, world, stage, host
  <2>2. Exact' = Exact /\ Relisted' = Relisted /\ HeaderCurrent' = HeaderCurrent
    BY <2>1 DEF Exact, Made, HeaderCurrent, Relisted
  <2> QED
    BY <2>1, <2>2 DEF Settling
<1>5. CASE Prepare
  <2> SUFFICES ASSUME calm' # 0
               PROVE  Settling'
    BY DEF Settling
  <2>1. /\ calm' = calm /\ pc = "prepare" /\ pc' = "command" /\ place' = "dir"
        /\ UNCHANGED <<source, context, plan, header, headerFor>>
    BY <1>5 DEF Prepare, Goto, world, host
  <2>2. /\ plan.quiet /\ plan.context = context /\ HeaderCurrent /\ Relisted /\ Exact
        /\ plan.listing = Listing
    BY <2>1 DEF Settling, Undisturbed, Known, Ended
  <2>3. plan.listing = Makes[source]
    BY <2>2 DEF Relisted, Exact, Listing
  <2>4. Relisted' = Relisted /\ HeaderCurrent' = HeaderCurrent
    BY <2>1 DEF HeaderCurrent, Relisted
  <2> QED
    BY <2>1, <2>2, <2>3, <2>4 DEF Settling
<1>6. CASE Run \/ Collect \/ Verify
  <2> SUFFICES ASSUME calm' # 0
               PROVE  Settling'
    BY DEF Settling
  <2>1. /\ calm' = calm /\ pc \in {"command", "collect", "verify"}
        /\ pc' \in {"collect", "verify", "stamp"}
        /\ UNCHANGED <<source, context, plan, place, header, headerFor>>
    BY <1>6 DEF Run, Collect, Verify, Goto, Failing, world, host, stage
  <2>2. Relisted' = Relisted /\ HeaderCurrent' = HeaderCurrent
    BY <2>1 DEF HeaderCurrent, Relisted
  <2> QED
    BY <2>1, <2>2 DEF Settling
<1>7. CASE Stamp
  <2> SUFFICES ASSUME calm' # 0
               PROVE  Settling'
    BY DEF Settling
  <2>1. /\ calm' = calm /\ pc = "stamp" /\ pc' = "pack"
        /\ UNCHANGED <<source, context, plan, place, folder, files, header, headerFor>>
    BY <1>7 DEF Stamp, Goto, world, host, stage
  <2>2. /\ plan.quiet /\ plan.context = context /\ place = "dir" /\ HeaderCurrent
        /\ Relisted /\ Exact /\ plan.listing = Makes[source]
    BY <2>1 DEF Settling, Undisturbed, Known, Ended
  <2>3. Listing' = Listing /\ HeaderCurrent' = HeaderCurrent
    BY <2>1 DEF Listing, Made, HeaderCurrent
  <2>4. plan.listing = Listing
    BY <2>2 DEF Exact, Listing, Relisted
  <2> QED
    BY <2>1, <2>2, <2>3, <2>4 DEF Settling, Relisted
<1>8. CASE PackNothing \/ Pack
  <2> SUFFICES ASSUME calm' # 0
               PROVE  Settling'
    BY DEF Settling
  <2>1. /\ pc = "pack"
        /\ UNCHANGED <<source, context, plan, place, header, headerFor>>
    BY <1>8 DEF PackNothing, Pack, world, stage, host
  <2>2. /\ pc' = "done" /\ plan.quiet /\ plan.context = context /\ place = "dir" /\ HeaderCurrent
        /\ Left'
    BY <1>8, <2>1, Leaves
  <2> QED
    BY <2>1, <2>2 DEF Settling, HeaderCurrent
<1>9. CASE RunFails \/ Fail \/ Crash \/ Edit \/ Replace \/ Clean
  <2>1. calm' = 0
    BY <1>9 DEF RunFails, Fail, Crash, Edit, Replace, Clean, Failing
  <2> QED
    BY <2>1 DEF Settling
<1>10. CASE UNCHANGED vars
  <2>1. UNCHANGED <<kind, source, context, plan, place, folder, files, header, headerFor, stamp,
                    ipk, ipkStamp, pc, calm>>
    BY <1>10 DEF vars, fixed, world, stage, host, pack
  <2>2. /\ Listing' = Listing /\ Exact' = Exact /\ IpkIsHit' = IpkIsHit
        /\ HeaderCurrent' = HeaderCurrent /\ Relisted' = Relisted
    BY <2>1 DEF Listing, Exact, Made, HeaderCurrent, IpkIsHit, IpkSignature, Relisted
  <2>3. Left => Left'
    BY <2>1, LeftStays
  <2> QED
    BY <2>1, <2>2, <2>3 DEF Settling
<1> QED
  BY <1>1, <1>2, <1>3, <1>4, <1>5, <1>6, <1>7, <1>8, <1>9, <1>10 DEF Next, Step

-----------------------------------------------------------------------------
(* The theorems.                                                           *)

LEMMA InitInvariant ==
  ASSUME Init
  PROVE  IInv
<1>1. /\ TypeOK /\ files = NoFiles /\ Made = {}
      /\ header = 0 /\ pc = "idle" /\ ipk = None /\ calm = 0
      /\ plan.packs = FALSE /\ plan.listing = {}
  BY InitTypes, NoFilesType DEF Init, Made
<1>2. StampTold
  BY <1>1 DEF StampTold
<1>3. PackTold
  BY <1>1 DEF PackTold, PackedIsStaged
<1>4. Undisturbed
  BY <1>1 DEF Undisturbed, Ended
<1>5. Settling
  BY <1>1 DEF Settling
<1> QED
  BY <1>1, <1>2, <1>3, <1>4, <1>5 DEF IInv

LEMMA Invariant == Spec => []IInv
<1>1. Init => IInv
  BY InitInvariant
<1>2. IInv /\ [Next]_vars => IInv'
  BY StepTypes, StampTells, PackTells, Learns, Settles DEF IInv
<1> QED
  BY <1>1, <1>2, PTL DEF Spec

\* A stage that a build would take as it is was made from the sources, the
\* toolchain, the header and the configuration that are there now.
THEOREM SkipsAreCurrent == Spec => []SkippedIsCurrent
<1>1. IInv => SkippedIsCurrent
  <2> SUFFICES ASSUME IInv, "context" \in Signs, ~ tainted, pc = "check", plan.quiet, IsHit,
                      NEW o \in Made
               PROVE  From(o, source, context, source)
    BY DEF SkippedIsCurrent, From
  <2>1. From(o, stamp.source, stamp.context, stamp.header)
    BY DEF IInv, StampTold
  <2>2. stamp = Signature /\ plan.context = context /\ HeaderCurrent
    BY DEF IsHit, IInv, Undisturbed, Known, Ended
  <2>3. Reads = "header" <=> "header" \in Signs
    BY KindFacts DEF IInv, TypeOK
  <2>4. /\ stamp.source = source /\ stamp.context = context
        /\ Reads = "header" => stamp.header = source
    BY <2>2, <2>3 DEF Signature, HeaderCurrent
  <2> QED
    BY <2>1, <2>4 DEF From
<1> QED
  BY <1>1, Invariant, PTL

\* What a build that ended well has packed is what is in the stage.
THEOREM PacksAreStaged == Spec => []PackedIsStaged
<1>1. IInv => PackedIsStaged
  BY DEF IInv, PackTold
<1> QED
  BY <1>1, Invariant, PTL

\* While nothing changes, the second build skips the package, or the third if
\* the listing of the stage is in the signature; and packing likewise.
THEOREM SecondBuildSkips == Spec => []BuildsSettle
<1>1. IInv => BuildsSettle
  <2> SUFFICES ASSUME IInv
               PROVE  BuildsSettle
    OBVIOUS
  <2>1. ASSUME pc = "check", calm = 2 \/ (calm = 1 /\ "listing" \notin Signs)
        PROVE  IsHit
    <3>1. Left /\ place = "dir" /\ plan.listing = Listing
      BY <2>1 DEF IInv, Settling, Undisturbed, Known, Ended
    <3>2. stamp.listing = Signature.listing
      BY <2>1, <3>1 DEF Left, Signature
    <3>3. stamp = Signature
      BY <3>1, <3>2 DEF Left, Signature
    <3> QED
      BY <3>1, <3>3 DEF IsHit
  <2>2. ASSUME pc = "pack", calm = 2 \/ (calm = 1 /\ ~ Expands), plan.packs
        PROVE  IpkIsHit
    BY <2>2 DEF IInv, Settling
  <2> QED
    BY <2>1, <2>2 DEF BuildsSettle
<1> QED
  BY <1>1, Invariant, PTL

-----------------------------------------------------------------------------
(* A package in RT-Thread's scripts, Scons.                                *)

\* What each variable of Scons may be.
SconsTypes ==
  /\ Scons!TypeOK
  /\ proc = [pc |-> proc.pc, linkage |-> proc.linkage]
  /\ copy = [files |-> copy.files, config |-> copy.config, header |-> copy.header,
             recorded |-> copy.recorded, errors |-> copy.errors, listing |-> copy.listing,
             installed |-> copy.installed]
  /\ disturbed \in BOOLEAN /\ sconsEdits \in 0..MaxSconsEdits
  /\ proc.pc \in {"scons", "inspect"} => marker \subseteq Online

Marked == {"mark", "prepare", "scons"}
Updated == {"check"} \cup Marked
Headed == {"update"} \cup Updated
Written == {"pyconfig"} \cup Headed
Copied == {"config"} \cup Written

SourceCopied == [f \in Files |-> IF f \in Nested THEN Scons!Gone ELSE sconsSource.files[f]]

\* The online packages in the copy are those of its configuration, whole.
ExactlyConfigured ==
  copy.installed = [p \in Online |-> IF p \in copy.config THEN "whole" ELSE "none"]

\* How far the copy is at each place of the command, whatever was edited.
CopyRight ==
  /\ proc.pc = "copy" => copy = Scons!NoCopy
  /\ proc.pc \in Copied \ Updated => copy.recorded = {} /\ copy.installed = Scons!Bare
  /\ proc.pc \in Written => copy.config \subseteq Online
  /\ proc.pc \in Headed => copy.header = copy.config
  /\ proc.pc \in Updated => (Scons!StateIsGood => ExactlyConfigured)
  /\ proc.pc \in Marked => ExactlyConfigured

StageOf(sources, selected, linkage) ==
  [made |-> "exact", files |-> sources, header |-> selected, linkage |-> linkage,
   packages |-> {<<p, "whole">> : p \in selected}]

\* And as long as nothing was.
CopyCurrent ==
  ~ disturbed =>
    /\ proc.pc \in Copied => copy.files = SourceCopied
    /\ proc.pc \in Written => copy.config = Scons!Selects
    /\ Scons!Working => proc.linkage = Scons!SelectLinkage(Scons!Values.mode)
    /\ proc.pc = "done" \/ (proc.pc = "inspect" /\ sconsStage.made = "exact") =>
         sconsStage = StageOf(SourceCopied, Scons!Selects, Scons!SelectLinkage(Scons!Values.mode))

SconsInv == SconsTypes /\ CopyRight /\ CopyCurrent

LEMMA SelectsOnline ==
  ASSUME SconsTypes
  PROVE  Scons!Selects \subseteq Online
<1>1. Required \subseteq Online /\ \A c \in Choices : c.packages \subseteq Online
  BY SconsAssumption DEF Scons!SconsAssumption
<1>2. Scons!Values.packages \subseteq Online
  BY <1>1 DEF SconsTypes, Scons!TypeOK, Scons!Values, Scons!NoChoice
<1> QED
  BY <1>1, <1>2 DEF Scons!Selects

\* What a step of the user, or a failing one, leaves alone.
LEMMA UserSteps ==
  ASSUME SconsInv,
         Scons!EditSource \/ Scons!BuildByHand \/ Scons!Choose \/ Scons!EditIndex
  PROVE  SconsInv'
<1> USE DEF SconsInv
<1>1. /\ disturbed' = TRUE /\ UNCHANGED <<proc, copy, marker, sconsStage, online, faults>>
      /\ sconsEdits < MaxSconsEdits /\ sconsEdits' = sconsEdits + 1
  BY DEF Scons!EditSource, Scons!BuildByHand, Scons!Choose, Scons!EditIndex, Scons!Edit
<1>2. sconsEdits' \in 0..MaxSconsEdits /\ sconsEdits' \in 0..Scons!Gone /\ Scons!Gone \in 0..Scons!Gone
  BY <1>1, SconsAssumption DEF SconsTypes, Scons!SconsAssumption, Scons!Gone
<1>3. sconsSource' \in [files : [Files -> 0..Scons!Gone], local : SUBSET Online]
  <2>1. sconsSource \in [files : [Files -> 0..Scons!Gone], local : SUBSET Online]
    BY DEF SconsTypes, Scons!TypeOK, Scons!Sets
  <2>2. CASE Scons!EditSource
    <3>1. PICK f \in Files : sconsSource' \in {[sconsSource EXCEPT !.files[f] = sconsEdits'],
                                               [sconsSource EXCEPT !.files[f] = Scons!Gone]}
      BY <2>2 DEF Scons!EditSource
    <3>2. PICK e \in 0..Scons!Gone : sconsSource' = [sconsSource EXCEPT !.files[f] = e]
      BY <1>2, <3>1
    <3> QED
      BY <2>1, <3>2
  <2>3. CASE Scons!BuildByHand
    BY <2>1, <2>3 DEF Scons!BuildByHand
  <2>4. CASE Scons!Choose \/ Scons!EditIndex
    BY <2>1, <2>4 DEF Scons!Choose, Scons!EditIndex
  <2> QED
    BY <2>2, <2>3, <2>4
<1>4. defconfig' \in Choices /\ workspace' \in Choices \cup {Scons!NoChoice} /\ index' \in Indexes
  BY DEF Scons!EditSource, Scons!BuildByHand, Scons!Choose, Scons!EditIndex, SconsTypes,
         Scons!TypeOK
<1>5. SconsTypes'
  BY <1>1, <1>2, <1>3, <1>4 DEF SconsTypes, Scons!TypeOK, Scons!Sets
<1>6. CopyRight'
  BY <1>1 DEF CopyRight, Scons!StateIsGood, ExactlyConfigured
<1>7. CopyCurrent'
  BY <1>1 DEF CopyCurrent
<1> QED
  BY <1>5, <1>6, <1>7

\* The steps of the program, one variable of the copy at a time.
LEMMA Going ==
  ASSUME SconsTypes, NEW to, Scons!Goto(to)
  PROVE  proc' = [pc |-> to, linkage |-> proc.linkage]
BY DEF SconsTypes, Scons!Goto

LEMMA PlanStep ==
  ASSUME SconsInv, Scons!Plan
  PROVE  SconsInv'
<1> USE DEF SconsInv
<1>1. /\ UNCHANGED <<sconsSource, defconfig, workspace, index, copy, marker, sconsStage, online,
                     sconsEdits, faults>>
      /\ disturbed' = FALSE
  BY DEF Scons!Plan
<1>2. CASE Scons!Plannable
  <2>1. proc' = [pc |-> "validate", linkage |-> Scons!SelectLinkage(Scons!Values.mode)]
    BY <1>2 DEF Scons!Plan
  <2>2. proc'.linkage \in {"static", "dynamic"}
    BY <1>2, <2>1, SconsAssumption DEF Scons!Plannable, Scons!SconsAssumption
  <2>3. SconsTypes'
    BY <1>1, <2>1, <2>2 DEF SconsTypes, Scons!TypeOK
  <2> QED
    BY <1>1, <2>1, <2>3 DEF CopyRight, CopyCurrent, Copied, Written, Headed, Updated, Marked,
                            Scons!Values
<1>3. CASE ~ Scons!Plannable
  <2>1. proc' = [pc |-> "failed", linkage |-> proc.linkage]
    BY <1>3 DEF Scons!Plan, SconsTypes
  <2>2. SconsTypes'
    BY <1>1, <2>1 DEF SconsTypes, Scons!TypeOK
  <2> QED
    BY <2>1, <2>2 DEF CopyRight, CopyCurrent, Copied, Written, Headed, Updated, Marked,
                      Scons!Working
<1> QED
  BY <1>2, <1>3

\* Wherever a command fails, nothing is claimed of what it leaves.
LEMMA Failed ==
  ASSUME SconsTypes', proc'.pc = "failed"
  PROVE  SconsInv'
BY DEF SconsInv, CopyRight, CopyCurrent, Copied, Written, Headed, Updated, Marked, Scons!Working

SconsPlaces ==
  {"idle", "validate", "remove", "copy", "config", "pyconfig", "update", "check", "mark",
   "prepare", "scons", "inspect", "done", "failed"}
CopyShaped(c) ==
  /\ c = [files |-> c.files, config |-> c.config, header |-> c.header,
          recorded |-> c.recorded, errors |-> c.errors, listing |-> c.listing,
          installed |-> c.installed]
  /\ c.files \in [Files -> 0..Scons!Gone] /\ c.installed \in [Online -> Scons!Installed]
  /\ c.recorded \in SUBSET Online /\ {c.errors, c.listing} \subseteq BOOLEAN
  /\ c.config = NoIndex \/ c.config \in SUBSET Online

\* The types, of a step of the program to a place.
LEMMA TypesOfStep ==
  ASSUME SconsTypes, UNCHANGED Scons!user, NEW to \in SconsPlaces, Scons!Goto(to),
         CopyShaped(copy'),
         marker' \in {NoIndex, CutShort} \/ marker' \in SUBSET Online,
         to \in {"scons", "inspect"} => marker' \subseteq Online,
         sconsStage' = Scons!Nothing \/ sconsStage'.made \in Scons!Made,
         online' \in SUBSET Online
  PROVE  SconsTypes'
BY Going DEF SconsTypes, Scons!TypeOK, Scons!user, Scons!Sets, CopyShaped, SconsPlaces

LEMMA CopyIsShaped ==
  ASSUME SconsTypes
  PROVE  /\ CopyShaped(copy) /\ CopyShaped(Scons!NoCopy)
         /\ marker \in {NoIndex, CutShort} \/ marker \in SUBSET Online
         /\ sconsStage = Scons!Nothing \/ sconsStage.made \in Scons!Made
         /\ online \in SUBSET Online
<1>1. CopyShaped(copy)
  BY DEF SconsTypes, Scons!TypeOK, Scons!Sets, CopyShaped
<1>2. Scons!Gone \in 0..Scons!Gone
  BY SconsAssumption DEF Scons!SconsAssumption, Scons!Gone
<1>3. CopyShaped(Scons!NoCopy)
  BY <1>2 DEF CopyShaped, Scons!NoCopy, Scons!Bare, Scons!Installed
<1> QED
  BY <1>1, <1>3 DEF SconsTypes, Scons!TypeOK, Scons!Sets

\* As long as the user's variables stay, so does what is to be built from them.
LEMMA UserKept ==
  ASSUME UNCHANGED Scons!user
  PROVE  /\ disturbed' = disturbed /\ SourceCopied' = SourceCopied
         /\ Scons!Selects' = Scons!Selects /\ Scons!Values' = Scons!Values
         /\ UNCHANGED <<sconsSource, index>>
BY DEF Scons!user, SourceCopied, Scons!Selects, Scons!Values

LEMMA ValidateStep ==
  ASSUME SconsInv, Scons!Validate \/ Scons!RemoveCopy
  PROVE  SconsInv'
<1> USE DEF SconsInv
<1>1. UNCHANGED Scons!user /\ UNCHANGED <<marker, sconsStage, online>>
  BY DEF Scons!Validate, Scons!RemoveCopy
<1>2. PICK to \in {"failed", "remove", "copy"} :
        /\ Scons!Goto(to) /\ copy' \in {copy, Scons!NoCopy}
        /\ to = "copy" => copy' = Scons!NoCopy
        /\ proc.pc \in {"validate", "remove"}
  BY DEF Scons!Validate, Scons!RemoveCopy
<1>3. SconsTypes'
  BY <1>1, <1>2, CopyIsShaped, TypesOfStep DEF SconsPlaces
<1>4. proc' = [pc |-> to, linkage |-> proc.linkage]
  BY <1>2, Going
<1>5. CopyRight'
  BY <1>2, <1>4 DEF CopyRight, Copied, Written, Headed, Updated, Marked
<1>6. CopyCurrent'
  BY <1>1, <1>2, <1>4, UserKept
     DEF CopyCurrent, Copied, Written, Headed, Updated, Marked, Scons!Working
<1> QED
  BY <1>3, <1>5, <1>6

\* What copytree makes of an empty copy.
LEMMA CopyTree ==
  ASSUME SconsTypes, NEW from \in [Files -> 0..Scons!Gone], copy = Scons!NoCopy
  PROVE  /\ CopyShaped(Scons!CopySource(from))
         /\ Scons!CopySource(from)
              = [copy EXCEPT !.files = [f \in Files |-> IF f \in Nested THEN Scons!Gone ELSE from[f]]]
<1> DEFINE wanted == [f \in Files |-> IF f \in Nested THEN Scons!Gone ELSE from[f]]
<1>1. Scons!Gone \in 0..Scons!Gone
  BY SconsAssumption DEF Scons!SconsAssumption, Scons!Gone
<1>2. wanted \in [Files -> 0..Scons!Gone]
  BY <1>1
<1>3. \A f \in Files : copy.files[f] = Scons!Gone
  BY DEF Scons!NoCopy
<1>4. [f \in Files |-> IF wanted[f] # Scons!Gone THEN wanted[f] ELSE copy.files[f]] = wanted
  BY <1>2, <1>3
<1>5. Scons!CopySource(from) = [copy EXCEPT !.files = wanted]
  BY <1>4 DEF Scons!CopySource, Scons!Onto
<1>6. CopyShaped(copy)
  BY CopyIsShaped
<1> HIDE DEF wanted
<1>7. CopyShaped([copy EXCEPT !.files = wanted])
  BY <1>2, <1>6 DEF CopyShaped
<1> QED
  BY <1>5, <1>7 DEF wanted

LEMMA CopyStep ==
  ASSUME SconsInv, Scons!Copy
  PROVE  SconsInv'
<1> USE DEF SconsInv
<1>1. /\ UNCHANGED Scons!user /\ UNCHANGED <<marker, sconsStage, online>> /\ Scons!Goto("config")
      /\ proc.pc = "copy" /\ copy = Scons!NoCopy
      /\ copy' = Scons!CopySource(sconsSource.files)
  BY DEF Scons!Copy, CopyRight
<1>2. sconsSource.files \in [Files -> 0..Scons!Gone]
  BY DEF SconsTypes, Scons!TypeOK
<1>3. CopyShaped(copy') /\ copy' = [copy EXCEPT !.files = SourceCopied]
  BY <1>1, <1>2, CopyTree DEF SourceCopied
<1>4. SconsTypes'
  BY <1>1, <1>3, CopyIsShaped, TypesOfStep DEF SconsPlaces
<1>5. proc' = [pc |-> "config", linkage |-> proc.linkage]
  BY <1>1, Going
<1>6. copy'.files = SourceCopied /\ copy'.recorded = {} /\ copy'.installed = Scons!Bare
  BY <1>1, <1>3 DEF Scons!NoCopy
<1>7. CopyRight'
  BY <1>5, <1>6 DEF CopyRight, Copied, Written, Headed, Updated, Marked, Scons!Bare
<1>8. CopyCurrent'
  BY <1>1, <1>5, <1>6, UserKept
     DEF CopyCurrent, Copied, Written, Headed, Updated, Marked, Scons!Working
<1> QED
  BY <1>4, <1>7, <1>8

LEMMA CopyBreaksStep ==
  ASSUME SconsInv, Scons!CopyBreaks
  PROVE  SconsInv'
<1> USE DEF SconsInv
<1>1. /\ UNCHANGED Scons!user /\ UNCHANGED <<marker, sconsStage, online>> /\ Scons!Goto("failed")
      /\ copy = Scons!NoCopy
  BY DEF Scons!CopyBreaks, CopyRight
<1>2. PICK some \in SUBSET Files :
        copy' = Scons!CopySource([f \in Files |-> IF f \in some THEN sconsSource.files[f]
                                                 ELSE Scons!Gone])
  BY DEF Scons!CopyBreaks
<1>3. [f \in Files |-> IF f \in some THEN sconsSource.files[f] ELSE Scons!Gone]
        \in [Files -> 0..Scons!Gone]
  BY SconsAssumption DEF SconsTypes, Scons!TypeOK, Scons!SconsAssumption, Scons!Gone
<1>4. CopyShaped(copy')
  BY <1>1, <1>2, <1>3, CopyTree
<1>5. SconsTypes' /\ proc'.pc = "failed"
  BY <1>1, <1>4, CopyIsShaped, TypesOfStep, Going DEF SconsPlaces
<1> QED
  BY <1>5, Failed

LEMMA ConfigStep ==
  ASSUME SconsInv, Scons!WriteConfig
  PROVE  SconsInv'
<1> USE DEF SconsInv
<1>1. UNCHANGED Scons!user /\ UNCHANGED <<marker, sconsStage, online>> /\ proc.pc = "config"
  BY DEF Scons!WriteConfig
<1>2. CASE index = NoIndex
  <2>1. Scons!Goto("failed") /\ copy' = copy
    BY <1>2 DEF Scons!WriteConfig
  <2>2. SconsTypes' /\ proc'.pc = "failed"
    BY <1>1, <2>1, CopyIsShaped, TypesOfStep, Going DEF SconsPlaces
  <2> QED
    BY <2>2, Failed
<1>3. CASE index # NoIndex
  <2>1. Scons!Goto("pyconfig") /\ copy' = [copy EXCEPT !.config = Scons!Selects]
    BY <1>3 DEF Scons!WriteConfig
  <2>2. CopyShaped(copy') /\ copy'.config = Scons!Selects
        /\ copy'.files = copy.files /\ copy'.recorded = copy.recorded
        /\ copy'.installed = copy.installed
    BY <2>1, SelectsOnline, CopyIsShaped DEF CopyShaped
  <2>3. SconsTypes'
    BY <1>1, <2>1, <2>2, CopyIsShaped, TypesOfStep DEF SconsPlaces
  <2>4. proc' = [pc |-> "pyconfig", linkage |-> proc.linkage]
    BY <2>1, Going
  <2>5. CopyRight'
    BY <1>1, <2>2, <2>4, SelectsOnline
       DEF CopyRight, Copied, Written, Headed, Updated, Marked, Scons!Bare
  <2>6. CopyCurrent'
    BY <1>1, <2>2, <2>4, UserKept
       DEF CopyCurrent, Copied, Written, Headed, Updated, Marked, Scons!Working
  <2> QED
    BY <2>3, <2>5, <2>6
<1> QED
  BY <1>2, <1>3

LEMMA PyconfigStep ==
  ASSUME SconsInv, Scons!Pyconfig
  PROVE  SconsInv'
<1> USE DEF SconsInv
<1>1. /\ UNCHANGED Scons!user /\ UNCHANGED <<marker, sconsStage, online>> /\ proc.pc = "pyconfig"
      /\ Scons!Goto("update") /\ copy' = [copy EXCEPT !.header = copy.config]
  BY DEF Scons!Pyconfig
<1>2. CopyShaped(copy') /\ copy'.config = copy.config /\ copy'.header = copy.config
      /\ copy'.files = copy.files /\ copy'.recorded = copy.recorded
      /\ copy'.installed = copy.installed
  BY <1>1, CopyIsShaped DEF CopyShaped
<1>3. SconsTypes'
  BY <1>1, <1>2, CopyIsShaped, TypesOfStep DEF SconsPlaces
<1>4. proc' = [pc |-> "update", linkage |-> proc.linkage]
  BY <1>1, Going
<1>5. CopyRight'
  BY <1>1, <1>2, <1>4 DEF CopyRight, Copied, Written, Headed, Updated, Marked, Scons!Bare
<1>6. CopyCurrent'
  BY <1>1, <1>2, <1>4, UserKept
     DEF CopyCurrent, Copied, Written, Headed, Updated, Marked, Scons!Working
<1> QED
  BY <1>3, <1>5, <1>6

\* pkgs --update on a copy in which nothing is installed yet: either all of the
\* configuration is there, whole, or the state shows what is missing.
LEMMA UpdateStep ==
  ASSUME SconsInv, Scons!Update
  PROVE  SconsInv'
<1> USE DEF SconsInv
<1> DEFINE here == copy.config \cap Scons!Offered
<1>1. /\ UNCHANGED Scons!user /\ UNCHANGED <<marker, sconsStage, online>> /\ proc.pc = "update"
      /\ Scons!Goto("check")
  BY DEF Scons!Update
<1>2. /\ copy.recorded = {} /\ copy.installed = Scons!Bare /\ copy.config \subseteq Online
      /\ copy.header = copy.config
  BY <1>1 DEF CopyRight, Copied, Written, Headed, Updated, Marked
<1>3. copy' = [copy EXCEPT !.recorded = here, !.listing = TRUE,
                 !.errors = ~ (copy.config \subseteq Scons!Offered),
                 !.installed = [p \in Online |-> IF p \in here THEN "whole" ELSE "none"]]
  BY <1>2 DEF Scons!Update, Scons!Bare
<1>4. /\ CopyShaped(copy') /\ copy'.config = copy.config /\ copy'.header = copy.header
      /\ copy'.files = copy.files /\ copy'.recorded = here
      /\ copy'.installed = [p \in Online |-> IF p \in here THEN "whole" ELSE "none"]
  BY <1>2, <1>3, CopyIsShaped DEF CopyShaped, Scons!Installed
<1>5. SconsTypes'
  BY <1>1, <1>4, CopyIsShaped, TypesOfStep DEF SconsPlaces
<1>6. proc' = [pc |-> "check", linkage |-> proc.linkage]
  BY <1>1, Going
<1>7. Scons!StateIsGood' => ExactlyConfigured'
  BY <1>4 DEF Scons!StateIsGood, ExactlyConfigured
<1>8. CopyRight'
  BY <1>2, <1>4, <1>6, <1>7 DEF CopyRight, Copied, Written, Headed, Updated, Marked
<1>9. CopyCurrent'
  BY <1>1, <1>4, <1>6, UserKept
     DEF CopyCurrent, Copied, Written, Headed, Updated, Marked, Scons!Working
<1> QED
  BY <1>5, <1>8, <1>9

LEMMA UpdateFailsStep ==
  ASSUME SconsInv, Scons!UpdateFails
  PROVE  SconsInv'
<1> USE DEF SconsInv
<1> DEFINE here == copy.config \cap Scons!Offered
<1>1. /\ UNCHANGED Scons!user /\ UNCHANGED <<marker, sconsStage, online>> /\ proc.pc = "update"
      /\ copy.config \subseteq Online /\ copy.header = copy.config
  BY DEF Scons!UpdateFails, CopyRight, Copied, Written, Headed, Updated
<1>2. PICK p \in here, left \in {"none", "torn"}, listed \in BOOLEAN, silent \in BOOLEAN,
           listing \in BOOLEAN, says \in BOOLEAN :
        /\ listed => left = "none"
        /\ copy' = [copy EXCEPT !.recorded = here \ (IF listed THEN {} ELSE {p}),
                      !.errors = ~ silent, !.listing = listing,
                      !.installed = [q \in Online |->
                         IF q = p THEN left ELSE IF q \in here THEN "whole" ELSE @[q]]]
        /\ Scons!Goto(IF says THEN "failed" ELSE "check")
  BY DEF Scons!UpdateFails
<1>3. /\ CopyShaped(copy') /\ copy'.config = copy.config /\ copy'.header = copy.header
      /\ copy'.files = copy.files /\ copy'.recorded = here \ (IF listed THEN {} ELSE {p})
      /\ copy'.installed = [q \in Online |->
           IF q = p THEN left ELSE IF q \in here THEN "whole" ELSE copy.installed[q]]
  BY <1>1, <1>2, CopyIsShaped DEF CopyShaped, Scons!Installed
<1>4. SconsTypes'
  BY <1>1, <1>2, <1>3, CopyIsShaped, TypesOfStep DEF SconsPlaces
<1>5. proc' = [pc |-> IF says THEN "failed" ELSE "check", linkage |-> proc.linkage]
  BY <1>2, Going
<1>6. ~ Scons!StateIsGood'
  <2>1. p \in Online /\ p \in copy'.config
    BY <1>1, <1>2, <1>3
  <2>2. CASE listed
    <3>1. p \in copy'.recorded /\ copy'.installed[p] = "none"
      BY <1>2, <1>3, <2>1, <2>2
    <3> QED
      BY <3>1 DEF Scons!StateIsGood
  <2>3. CASE ~ listed
    BY <1>3, <2>1, <2>3 DEF Scons!StateIsGood
  <2> QED
    BY <2>2, <2>3
<1>7. CopyRight'
  BY <1>1, <1>3, <1>5, <1>6 DEF CopyRight, Copied, Written, Headed, Updated, Marked
<1>8. CopyCurrent'
  BY <1>1, <1>3, <1>5, UserKept
     DEF CopyCurrent, Copied, Written, Headed, Updated, Marked, Scons!Working
<1> QED
  BY <1>4, <1>7, <1>8

\* Steps that leave the copy alone: check, mark, prepare, and those that fail.
LEMMA CopyKept ==
  ASSUME SconsInv,
         Scons!CheckState \/ Scons!WriteMarker \/ Scons!MarkerBreaks \/ Scons!Prepare \/ Scons!Fail
  PROVE  SconsInv'
<1> USE DEF SconsInv
<1>1. UNCHANGED Scons!user /\ UNCHANGED <<copy, online>>
  BY DEF Scons!CheckState, Scons!WriteMarker, Scons!MarkerBreaks, Scons!Prepare, Scons!Fail
<1>2. PICK to \in {"failed", "mark", "prepare", "scons"} :
        /\ Scons!Goto(to)
        /\ to # "failed" => \/ proc.pc = "check" /\ to = "mark" /\ Scons!StateIsGood
                            \/ proc.pc = "mark" /\ to = "prepare"
                            \/ proc.pc = "prepare" /\ to = "scons"
        /\ sconsStage' \in {sconsStage, Scons!Nothing}
        /\ marker' \in {marker, CutShort, copy.recorded}
        /\ to = "scons" => marker' = marker /\ marker \notin {NoIndex, CutShort}
  BY DEF Scons!CheckState, Scons!WriteMarker, Scons!MarkerBreaks, Scons!Prepare, Scons!Fail
<1>3. marker' \in {NoIndex, CutShort} \/ marker' \in SUBSET Online
  BY <1>2, CopyIsShaped DEF CopyShaped
<1>4. SconsTypes'
  BY <1>1, <1>2, <1>3, CopyIsShaped, TypesOfStep DEF SconsPlaces
<1>5. proc' = [pc |-> to, linkage |-> proc.linkage]
  BY <1>2, Going
<1>6. CASE to = "failed"
  BY <1>4, <1>5, <1>6, Failed
<1>7. CASE to # "failed"
  <2>1. CopyRight'
    BY <1>1, <1>2, <1>5, <1>7
       DEF CopyRight, Copied, Written, Headed, Updated, Marked, Scons!StateIsGood, ExactlyConfigured
  <2>2. CopyCurrent'
    BY <1>1, <1>2, <1>5, <1>7, UserKept
       DEF CopyCurrent, Copied, Written, Headed, Updated, Marked, Scons!Working
  <2> QED
    BY <1>4, <2>1, <2>2
<1> QED
  BY <1>6, <1>7

LEMMA SconsStep ==
  ASSUME SconsInv, Scons!Scons
  PROVE  SconsInv'
<1> USE DEF SconsInv
<1>1. /\ UNCHANGED Scons!user /\ UNCHANGED <<copy, marker, online>> /\ Scons!Goto("inspect")
      /\ proc.pc = "scons"
  BY DEF Scons!Scons
<1>2. PICK made \in Scons!Made :
        sconsStage' = [made |-> made, files |-> copy.files, header |-> copy.header,
                       linkage |-> proc.linkage,
                       packages |-> {<<p, copy.installed[p]>> :
                                       p \in {q \in Online : copy.installed[q] # "none"}}]
  BY DEF Scons!Scons
<1>3. SconsTypes'
  BY <1>1, <1>2, CopyIsShaped, TypesOfStep DEF SconsPlaces, SconsTypes
<1>4. proc' = [pc |-> "inspect", linkage |-> proc.linkage]
  BY <1>1, Going
<1>5. CopyRight'
  BY <1>4 DEF CopyRight, Copied, Written, Headed, Updated, Marked
<1>6. copy.config \subseteq Online /\ copy.header = copy.config /\ ExactlyConfigured
  BY <1>1 DEF CopyRight, Written, Headed, Updated, Marked
<1>7. {<<p, copy.installed[p]>> : p \in {q \in Online : copy.installed[q] # "none"}}
        = {<<p, "whole">> : p \in copy.config}
  <2>1. {q \in Online : copy.installed[q] # "none"} = copy.config
    BY <1>6 DEF ExactlyConfigured
  <2>2. \A p \in copy.config : copy.installed[p] = "whole"
    BY <1>6 DEF ExactlyConfigured
  <2> QED
    BY <2>1, <2>2
<1>8. ASSUME ~ disturbed, made = "exact"
      PROVE  sconsStage' = StageOf(SourceCopied, Scons!Selects,
                                   Scons!SelectLinkage(Scons!Values.mode))
  <2>1. /\ copy.files = SourceCopied /\ copy.config = Scons!Selects
        /\ proc.linkage = Scons!SelectLinkage(Scons!Values.mode)
    BY <1>1, <1>8 DEF CopyCurrent, Copied, Written, Headed, Updated, Marked, Scons!Working
  <2> QED
    BY <1>2, <1>6, <1>7, <1>8, <2>1 DEF StageOf
<1>9. sconsStage'.made = made
  BY <1>2
<1>10. CopyCurrent'
  BY <1>1, <1>4, <1>8, <1>9, UserKept
     DEF CopyCurrent, Copied, Written, Headed, Updated, Marked, Scons!Working, StageOf,
         Scons!SelectLinkage
<1> QED
  BY <1>3, <1>5, <1>10

LEMMA InspectStep ==
  ASSUME SconsInv, Scons!Inspect
  PROVE  SconsInv'
<1> USE DEF SconsInv
<1>1. UNCHANGED Scons!user /\ UNCHANGED <<copy, marker, sconsStage>> /\ proc.pc = "inspect"
  BY DEF Scons!Inspect
<1>2. PICK to \in {"failed", "done"} :
        /\ Scons!Goto(to) /\ online' \in {online, marker}
        /\ to = "done" => sconsStage.made = "exact"
  BY DEF Scons!Inspect, Scons!Acceptable
<1>3. SconsTypes'
  BY <1>1, <1>2, CopyIsShaped, TypesOfStep DEF SconsPlaces, SconsTypes
<1>4. proc' = [pc |-> to, linkage |-> proc.linkage]
  BY <1>2, Going
<1>5. CopyRight'
  BY <1>2, <1>4 DEF CopyRight, Copied, Written, Headed, Updated, Marked
<1>6. CopyCurrent'
  BY <1>1, <1>2, <1>4, UserKept
     DEF CopyCurrent, Copied, Written, Headed, Updated, Marked, Scons!Working, StageOf,
         Scons!SelectLinkage
<1> QED
  BY <1>3, <1>5, <1>6

LEMMA SconsInvariant == Scons!Spec => []SconsInv
<1>1. Scons!Init => SconsInv
  <2> SUFFICES ASSUME Scons!Init PROVE SconsInv
    OBVIOUS
  <2>1. CopyShaped(Scons!NoCopy)
    <3>1. Scons!Gone \in 0..Scons!Gone
      BY SconsAssumption DEF Scons!SconsAssumption, Scons!Gone
    <3> QED
      BY <3>1 DEF CopyShaped, Scons!NoCopy, Scons!Bare, Scons!Installed
  <2>2. 0 \in 0..Scons!Gone /\ 0 \in 0..MaxSconsEdits
    BY SconsAssumption DEF Scons!SconsAssumption, Scons!Gone
  <2>3. SconsTypes
    BY <2>1, <2>2 DEF Scons!Init, SconsTypes, Scons!TypeOK, Scons!Sets, CopyShaped
  <2> QED
    BY <2>3 DEF Scons!Init, SconsInv, CopyRight, CopyCurrent, Copied, Written, Headed, Updated,
                Marked, Scons!Working
<1>2. SconsInv /\ Scons!Next => SconsInv'
  BY PlanStep, ValidateStep, CopyStep, CopyBreaksStep, ConfigStep, PyconfigStep, UpdateStep,
     UpdateFailsStep, CopyKept, SconsStep, InspectStep, UserSteps
     DEF Scons!Next, Scons!Step, Scons!Faulty
<1>3. SconsInv /\ UNCHANGED Scons!vars => SconsInv'
  <2> SUFFICES ASSUME SconsInv, UNCHANGED Scons!vars PROVE SconsInv'
    OBVIOUS
  <2>1. SconsTypes'
    BY DEF SconsInv, SconsTypes, Scons!TypeOK, Scons!vars
  <2>2. CopyRight'
    BY DEF SconsInv, CopyRight, Scons!vars, Scons!StateIsGood, ExactlyConfigured
  <2>3. CopyCurrent'
    BY DEF SconsInv, CopyCurrent, Scons!vars, SourceCopied, Scons!Selects, Scons!Values,
           Scons!Working
  <2> QED
    BY <2>1, <2>2, <2>3 DEF SconsInv
<1> QED
  BY <1>1, <1>2, <1>3, PTL DEF Scons!Spec

\* Every variable has a value of its kind, whatever was edited or cut short.
THEOREM SconsTypeCorrect == Scons!Spec => []Scons!TypeOK
<1>1. SconsInv => Scons!TypeOK
  BY DEF SconsInv, SconsTypes
<1> QED
  BY <1>1, SconsInvariant, PTL

\* A package in RT-Thread's scripts is built from exactly what there is, if no
\* directory below the top of its source is called like those that are left out.
THEOREM StagedExact ==
  ASSUME Nested = {}
  PROVE  Scons!Spec => []StagedIsExact
<1>1. ASSUME SconsInv PROVE StagedIsExact
  <2>1. SourceCopied = sconsSource.files
    BY <1>1 DEF SourceCopied, SconsInv, SconsTypes, Scons!TypeOK
  <2> QED
    BY <1>1, <2>1 DEF SconsInv, CopyCurrent, StagedIsExact, Scons!StagedIsExact, StageOf
<1> QED
  BY <1>1, SconsInvariant, PTL
=============================================================================
