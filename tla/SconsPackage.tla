----------------------------- MODULE SconsPackage -----------------------------
(***************************************************************************)
(* A package that RT-Thread's own SCons scripts build                      *)
(* (rtthread_scons.py, domains/rtthread_scons_package.py).  Its source     *)
(* lies in the repository.  Every command plans it (linkage), and runs two *)
(* tasks that are never cached: `env-packages` makes a copy of the source, *)
(* writes the saved choices to .config there and has RT-Thread's `pkgs`    *)
(* download the online packages they select; `build` runs scons in the     *)
(* copy and takes exactly the declared files.                              *)
(*                                                                         *)
(* The user edits the source, builds in it by hand, edits the choices and  *)
(* updates the package index at any time.  `pkgs` and scons are the        *)
(* environment.  A machine runs one command at a time, in directories of   *)
(* its own.                                                                *)
(***************************************************************************)
EXTENDS Naturals, Sequences, FiniteSets

CONSTANTS
  Files,       \* the files of the source
  Entries,     \* those that planning asks for: SConstruct, main.c, ...
  Nested,      \* those below a directory "build" or "packages" deeper down
  Package,     \* an online package in a version: the name of its directory
  Required,    \* those that the package's Kconfig symbol selects
  Supported,   \* supported_linkage: a sequence of linkages
  Choices,     \* what may be saved: [packages, mode]
  Indexes,     \* what Env's index may know; None: it is not installed
  None, Cut,   \* no file, and a file that was cut short
  MaxEdits, MaxFaults

\* What the constants have to be; assumed by the module that gives them values.
SconsAssumption ==
  /\ Entries \subseteq Files /\ Nested \subseteq Files \ Entries
  /\ Required \subseteq Package
  /\ Supported # <<>> /\ {Supported[i] : i \in DOMAIN Supported} \subseteq {"static", "dynamic"}
  /\ \A c \in Choices : c.packages \subseteq Package
  /\ \A i \in Indexes : i = None \/ i \subseteq Package
  /\ MaxEdits \in Nat /\ MaxFaults \in Nat

VARIABLES
  source,     \* [files: Files -> edition, local: the packages of a build by hand]
  defconfig,  \* the board's defconfig, a choice
  workspace,  \* build/.config: a choice, or NoChoice if it names another machine
  index,      \* ~/.env/packages/packages
  proc,       \* the command: [pc, linkage]
  copy,       \* the copy of the source, or NoCopy
  marker,     \* <name>-env-packages.json: a set of packages, None or Cut
  stage,      \* what lies in the package's staging directory
  online,     \* the build's manifest: online_packages
  disturbed,  \* history: something was edited since the command has planned
  edits, faults

vars == <<source, defconfig, workspace, index, proc, copy, marker, stage, online,
          disturbed, edits, faults>>
user == <<source, defconfig, workspace, index, disturbed, edits>>

NoChoice == [packages |-> {}, mode |-> "other machine"]
\* A package's directory: "torn" has an SConscript but not all files.
Installed == {"none", "whole", "torn"}
Bare == [p \in Package |-> "none"]
Gone == MaxEdits + 1
\* config: None, or the packages .config selects; header: what pyconfig has
\* made of it; listing: packages/SConscript.
NoCopy == [files |-> [f \in Files |-> Gone], config |-> None, header |-> None,
           recorded |-> {}, errors |-> FALSE, listing |-> FALSE, installed |-> Bare]
Nothing == [made |-> "nothing"]
\* What an installation may leave in the stage, and which of it is accepted.
Made == {"exact", "missing", "undeclared", "link", "foreign"}

Working == proc.pc \notin {"idle", "failed", "done"}
Goto(place) == proc' = [proc EXCEPT !.pc = place]
Fault == faults < MaxFaults /\ faults' = faults + 1

Init ==
  /\ source = [files |-> [f \in Files |-> 0], local |-> {}]
  /\ defconfig \in Choices /\ workspace = NoChoice
  /\ index \in Indexes
  /\ proc = [pc |-> "idle", linkage |-> "static"]
  /\ copy = NoCopy /\ marker = None /\ stage = Nothing /\ online = {}
  /\ disturbed = FALSE /\ edits = 0 /\ faults = 0

-----------------------------------------------------------------------------
(* Planning                                                                 *)

\* The workspace configuration goes before the board's if it names the machine.
Values == IF workspace = NoChoice THEN defconfig ELSE workspace

\* select_linkage: "mixed", and no root filesystem, leave it to the package.
SelectLinkage(mode) ==
  IF mode \in {"mixed", "none"} THEN Supported[1] ELSE mode

Plannable ==
  /\ index # None
  /\ \A f \in Entries : source.files[f] # Gone
  /\ SelectLinkage(Values.mode) \in {Supported[i] : i \in DOMAIN Supported}

\* Planning refuses what does not fit; else toolchain and rt-thread follow.
Plan ==
  /\ ~ Working
  /\ proc' = IF Plannable
             THEN [pc |-> "validate", linkage |-> SelectLinkage(Values.mode)]
             ELSE [proc EXCEPT !.pc = "failed"]
  /\ disturbed' = FALSE
  /\ UNCHANGED <<source, defconfig, workspace, index, copy, marker, stage, online,
                 edits, faults>>

-----------------------------------------------------------------------------
(* package:<name>:env-packages                                              *)

\* The index may have gone since planning.
Validate ==
  /\ proc.pc = "validate"
  /\ Goto(IF index = None THEN "failed" ELSE "remove")
  /\ UNCHANGED <<user, copy, marker, stage, online, faults>>

\* _replace_source_copy: the old copy goes, with all that scons and pkgs made.
RemoveCopy ==
  /\ proc.pc = "remove"
  /\ copy' = NoCopy
  /\ Goto("copy")
  /\ UNCHANGED <<user, marker, stage, online, faults>>

\* The files of the source put on top of what is there.
Onto(old, files) ==
  [old EXCEPT !.files = [f \in Files |-> IF files[f] # Gone THEN files[f] ELSE old.files[f]]]

\* A fault: what a build by hand has left is copied as well.
CopyAll(files) ==
  [Onto(copy, files) EXCEPT
     !.listing = @ \/ source.local # {}, !.recorded = @ \cup source.local,
     !.installed = [p \in Package |-> IF p \in source.local THEN "whole" ELSE @[p]]]

\* _ignore_generated_source_entries looks at a name wherever it is.
CopySource(files) ==
  Onto(copy, [f \in Files |-> IF f \in Nested THEN Gone ELSE files[f]])

\* copytree, and a new build directory.
Copy ==
  /\ proc.pc = "copy"
  /\ copy' = CopySource(source.files)
  /\ Goto("config")
  /\ UNCHANGED <<user, marker, stage, online, faults>>

\* It is killed, or the disk is full.
CopyBreaks ==
  /\ proc.pc = "copy" /\ Fault
  /\ \E some \in SUBSET Files :
       copy' = CopySource([f \in Files |-> IF f \in some THEN source.files[f] ELSE Gone])
  /\ Goto("failed")
  /\ UNCHANGED <<user, marker, stage, online>>

\* A symbol that the index does not define has no value.
Selects == (Required \cup Values.packages) \cap index

\* write_package_config reads the choices, the Kconfig and the index anew.
WriteConfig ==
  /\ proc.pc = "config"
  /\ IF index = None
     THEN Goto("failed") /\ copy' = copy
     ELSE Goto("pyconfig") /\ copy' = [copy EXCEPT !.config = Selects]
  /\ UNCHANGED <<user, marker, stage, online, faults>>

Pyconfig ==
  /\ proc.pc = "pyconfig"
  /\ copy' = [copy EXCEPT !.header = copy.config]
  /\ Goto("update")
  /\ UNCHANGED <<user, marker, stage, online, faults>>

\* Those whose Kconfig the index has now.
Offered == IF index = None THEN {} ELSE index

\* pkgs --update: what the index offers is installed; the rest is an error.
\* What .config has dropped goes, but it may still be there in the end.
Update ==
  /\ proc.pc = "update"
  /\ \E left \in SUBSET (copy.recorded \ copy.config) :
       copy' = [copy EXCEPT !.recorded = copy.config \cap Offered, !.listing = TRUE,
                  !.errors = ~ (copy.config \subseteq Offered),
                  !.installed = [p \in Package |->
                     IF p \in copy.config \cap Offered THEN "whole"
                     ELSE IF p \in copy.recorded \ left THEN "none" ELSE @[p]]]
  /\ Goto("check")
  /\ UNCHANGED <<user, marker, stage, online, faults>>

\* It falls short of a package; some sign says so: the exit code or the closing
\* line ("failed" here), pkgs_error.json, or the record and the directory.
UpdateFails ==
  /\ proc.pc = "update" /\ Fault
  /\ \E p \in copy.config \cap Offered, left \in {"none", "torn"}, listed, silent, listing, says \in BOOLEAN :
       /\ listed => left = "none"
       /\ copy' = [copy EXCEPT !.recorded = (copy.config \cap Offered) \ (IF listed THEN {} ELSE {p}),
                     !.errors = ~ silent, !.listing = listing,
                     !.installed = [q \in Package |->
                        IF q = p THEN left
                        ELSE IF q \in copy.config \cap Offered THEN "whole" ELSE @[q]]]
       /\ Goto(IF says THEN "failed" ELSE "check")
  /\ UNCHANGED <<user, marker, stage, online>>

\* read_env_package_state
StateIsGood ==
  /\ ~ copy.errors /\ copy.listing
  /\ \A p \in copy.recorded : copy.installed[p] # "none"
  /\ copy.recorded = copy.config

CheckState ==
  /\ proc.pc = "check"
  /\ Goto(IF StateIsGood THEN "mark" ELSE "failed")
  /\ UNCHANGED <<user, copy, marker, stage, online, faults>>

WriteMarker ==
  /\ proc.pc = "mark"
  /\ marker' = copy.recorded
  /\ Goto("prepare")
  /\ UNCHANGED <<user, copy, stage, online, faults>>

MarkerBreaks ==
  /\ proc.pc = "mark" /\ Fault
  /\ marker' = Cut
  /\ Goto("failed")
  /\ UNCHANGED <<user, copy, stage, online>>

-----------------------------------------------------------------------------
(* package:<name>:build                                                     *)

\* _read_marker, _validate_prepared_source, and an empty stage.
Prepare ==
  /\ proc.pc = "prepare"
  /\ IF marker \notin {None, Cut} /\ copy.config # None /\ copy.listing
     THEN stage' = Nothing /\ Goto("scons")
     ELSE stage' = stage /\ Goto("failed")
  /\ UNCHANGED <<user, copy, marker, online, faults>>

\* packages/SConscript takes in every directory that has an SConscript.
Scons ==
  /\ proc.pc = "scons"
  /\ \E made \in Made :
       /\ made = "exact" \/ faults < MaxFaults
       /\ faults' = IF made = "exact" THEN faults ELSE faults + 1
       /\ stage' = [made |-> made, files |-> copy.files, header |-> copy.header,
                    linkage |-> proc.linkage,
                    packages |-> {<<p, copy.installed[p]>> :
                                    p \in {q \in Package : copy.installed[q] # "none"}}]
  /\ Goto("inspect")
  /\ UNCHANGED <<user, copy, marker, online>>

\* _require_declared_outputs and _architecture_checks
Acceptable == {"exact"}

Inspect ==
  /\ proc.pc = "inspect"
  /\ IF stage.made \in Acceptable
     THEN Goto("done") /\ online' = marker
     ELSE Goto("failed") /\ online' = online
  /\ UNCHANGED <<user, copy, marker, stage, faults>>

-----------------------------------------------------------------------------
(* What may happen at any time                                              *)

\* A command of the task fails, or the program is killed.
Fail ==
  /\ Working /\ Fault
  /\ Goto("failed")
  /\ UNCHANGED <<user, copy, marker, stage, online>>

Edit ==
  /\ edits < MaxEdits /\ edits' = edits + 1
  /\ disturbed' = TRUE
  /\ UNCHANGED <<proc, copy, marker, stage, online, faults>>

EditSource ==
  /\ Edit
  /\ \E f \in Files : source' \in {[source EXCEPT !.files[f] = edits'],
                                  [source EXCEPT !.files[f] = Gone]}
  /\ UNCHANGED <<defconfig, workspace, index>>

\* A developer runs scons and pkgs in source/ itself.
BuildByHand ==
  /\ Edit
  /\ \E local \in SUBSET Package : source' = [source EXCEPT !.local = local]
  /\ UNCHANGED <<defconfig, workspace, index>>

Choose ==
  /\ Edit
  /\ \/ workspace' \in Choices \cup {NoChoice} /\ defconfig' = defconfig
     \/ defconfig' \in Choices /\ workspace' = workspace
  /\ UNCHANGED <<source, index>>

EditIndex ==
  /\ Edit
  /\ index' \in Indexes
  /\ UNCHANGED <<source, defconfig, workspace>>

Step ==
  \/ Validate \/ RemoveCopy \/ Copy \/ WriteConfig \/ Pyconfig \/ Update
  \/ CheckState \/ WriteMarker \/ Prepare \/ Scons \/ Inspect

Faulty == CopyBreaks \/ UpdateFails \/ MarkerBreaks \/ Fail

Next ==
  \/ Plan \/ Step \/ Faulty
  \/ EditSource \/ BuildByHand \/ Choose \/ EditIndex

Spec == Init /\ [][Next]_vars

-----------------------------------------------------------------------------
(* Properties                                                               *)

Sets == SUBSET Package

\* Every variable has a value of its kind, whatever was edited or cut short.
TypeOK ==
  /\ source \in [files : [Files -> 0..Gone], local : Sets]
  /\ defconfig \in Choices /\ workspace \in Choices \cup {NoChoice}
  /\ index \in Indexes
  /\ proc.linkage \in {"static", "dynamic"}
  /\ proc.pc \in {"idle", "validate", "remove", "copy", "config", "pyconfig", "update", "check",
                  "mark", "prepare", "scons", "inspect", "done", "failed"}
  /\ copy.files \in [Files -> 0..Gone] /\ copy.installed \in [Package -> Installed]
  /\ copy.recorded \in Sets /\ {copy.errors, copy.listing} \subseteq BOOLEAN
  /\ copy.config = None \/ copy.config \in Sets
  /\ marker \in {None, Cut} \/ marker \in Sets
  /\ stage = Nothing \/ stage.made \in Made
  /\ online \in Sets

\* A build during which nothing was edited stages what the source, the choices
\* and the index say now, whatever earlier builds, builds by hand and failures
\* have left: every file in its edition, the chosen online packages, whole, and
\* no other, in the linkage of the root filesystem, and only declared files.
StagedIsExact ==
  proc.pc = "done" /\ ~ disturbed =>
    stage = [made |-> "exact", files |-> source.files, header |-> Selects,
             linkage |-> SelectLinkage(Values.mode),
             packages |-> {<<p, "whole">> : p \in Selects}]

=============================================================================
