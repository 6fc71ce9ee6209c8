----------------------------- MODULE PackageSource -----------------------------
(***************************************************************************)
(* The source tree a package is built from, and the configuration a user   *)
(* makes in it.  Every build prepares the tree again                       *)
(* (domains/package_sources.py: _make_source_executor): the archive is     *)
(* unpacked beside it and copied, or the repository is cloned; the local   *)
(* files are copied in, the patches applied in order, and the saved        *)
(* configuration files are put back.  `configure package:X`                *)
(* (domains/package.py: package_configuration; configure.py:               *)
(* execute_configuration) prepares the tree in the same way, runs the      *)
(* package's own menu in it, and saves the files it made beside            *)
(* package.yaml, which all machines share.  A source of kind "directory"   *)
(* lies in the repository and is never prepared; the board's bootloader    *)
(* (configure.py: _board_configuration) is configured like one.            *)
(*                                                                         *)
(* Each machine runs one command at a time; commands of different machines *)
(* run side by side, any step may fail, and any command may be killed.     *)
(* The archive itself is the subject of ArchiveDownload, and what a build  *)
(* makes of the tree that of PackageStage.                                 *)
(***************************************************************************)
EXTENDS Naturals, Sequences

CONSTANTS
  Machines,      \* the boards
  Kinds,         \* source.type: "archive", "git", or "directory" for none
  Revisions,     \* what source.url and its revision may name
  Patches,       \* the patches in the order of package.yaml
  Fits,          \* [name, version, revision]: this patch applies there
  Sync,          \* configure.sync: a sequence of [source, destination]
  Shipped,       \* [source -> content]: the file the source comes with
  Touches,       \* [patch -> sources it changes]
  MaxSessions,   \* how often the user configures
  MaxEdits,      \* how often files of the package are edited
  MaxKills       \* how many commands are killed

Places == Machines \cup {"tree"}
Names == {Patches[i] : i \in DOMAIN Patches}
Sources == {Sync[i].source : i \in DOMAIN Sync}
Destinations == {Sync[i].destination : i \in DOMAIN Sync}

\* What a file may be: a regular file with what a session chose (0: what is
\* shipped), nothing, or what is refused: a symbolic link, a second hard link.
Regular(n) == [is |-> "regular", of |-> n]
Absent == [is |-> "absent", of |-> 0]
Odd == [is |-> "odd", of |-> 0]
Contents == {Regular(n) : n \in 0..MaxSessions} \cup {Absent, Odd}

\* What the constants have to be; assumed by the module that gives them values.
PackageSourceAssumption ==
  /\ Kinds \subseteq {"archive", "git", "directory"}
  /\ "tree" \notin Machines
  /\ Shipped \in [Sources -> {Regular(0), Absent}]
  /\ Touches \in [Names -> SUBSET Sources]
  /\ Sync \in Seq([source : STRING, destination : STRING]) /\ Patches \in Seq(STRING)
  /\ \A i, j \in DOMAIN Sync :
       Sync[i].destination = Sync[j].destination => i = j

VARIABLES
  declared,    \* package.yaml: [kind, revision]
  version,     \* [Names -> which edition of the patch lies beside it]
  saved,       \* [Destinations -> content]: the saved configuration
  tree,        \* [Places -> source tree]
  side,        \* [Machines -> revisions whose files lie in .X.extract]
  command,     \* [Machines -> the command at work there]
  sessions,    \* configure commands started
  edits,       \* edits made
  kills,       \* commands killed
  disturbed,   \* history: commands beside which an input of theirs changed
  choice       \* history: what the last session saved, or Forgotten

vars == <<declared, version, saved, tree, side, command, sessions, edits,
          kills, disturbed, choice>>

NoTree == [of |-> {}, whole |-> FALSE, local |-> <<>>, applied |-> <<>>,
           config |-> Shipped]
Forgotten == [s \in Sources |-> Odd]
Idle == [pc |-> "idle"]

\* Where the source of a command lies: paths.work_dir is the machine's own.
Place(m) == IF command[m].kind = "directory" THEN "tree" ELSE m

At(m, pc) == command[m].pc = pc
Busy == {m \in Machines : ~At(m, "idle")}

GoTo(m, pc) == command' = [command EXCEPT ![m].pc = pc, ![m].i = 1]
Advance(m) == command' = [command EXCEPT ![m].i = @ + 1]
Stop(m) == command' = [command EXCEPT ![m] = Idle]

-----------------------------------------------------------------------------
(* Preparing the source                                                     *)

\* The command reads package.yaml once, and then plans.
Begin(m, task) ==
  /\ At(m, "idle")
  /\ command' = [command EXCEPT ![m] =
       [task |-> task, i |-> 1, session |-> sessions', kind |-> declared.kind,
        revision |-> declared.revision,
        pc |-> IF declared.kind = "archive" THEN "clear"
               ELSE IF declared.kind = "git" THEN "remove" ELSE task]]
  /\ disturbed' = disturbed \ {m}
  /\ UNCHANGED <<declared, version, saved, tree, side, edits, kills, choice>>

StartBuild(m) == UNCHANGED sessions /\ Begin(m, "compile")

StartConfigure(m) ==
  /\ sessions < MaxSessions
  /\ sessions' = sessions + 1
  /\ Begin(m, "seed")

\* History: a step of m changes what another command has read or will read.
Disturb(m) ==
  disturbed' = disturbed \cup {n \in Busy \ {m} :
    \/ saved' # saved
    \/ command[n].kind = "directory" /\ tree'["tree"].config # tree["tree"].config}

\* The rest of a step of m that saves nothing.
Unchanged(m) ==
  /\ UNCHANGED <<declared, version, saved, sessions, edits, kills, choice>>
  /\ Disturb(m)

\* _extract_archive: the side directory goes away first.
Clear(m) ==
  /\ At(m, "clear")
  /\ side' = [side EXCEPT ![m] = {}]
  /\ GoTo(m, "unpack")
  /\ UNCHANGED tree /\ Unchanged(m)

\* _extract_tar_safely, _extract_zip_safely: unpack it all, or fail; then the
\* side directory is removed again.
Unpack(m) ==
  /\ At(m, "unpack")
  /\ side' = [side EXCEPT ![m] = @ \cup {command[m].revision}]
  /\ GoTo(m, "remove")
  /\ UNCHANGED tree /\ Unchanged(m)

UnpackFails(m) ==
  /\ At(m, "unpack")
  /\ side' = [side EXCEPT ![m] = {}]
  /\ Stop(m)
  /\ UNCHANGED tree /\ Unchanged(m)

\* Mutant: the configuration files survive the old tree.
RemoveAllButConfiguration(m) ==
  /\ At(m, "remove")
  /\ tree' = [tree EXCEPT ![m] = [NoTree EXCEPT !.config = tree[m].config]]
  /\ GoTo(m, IF command[m].kind = "git" THEN "clone" ELSE "copy")
  /\ UNCHANGED side /\ Unchanged(m)

\* _replace_directory, _prepare_git_source: the old tree goes away.
Remove(m) ==
  /\ At(m, "remove")
  /\ tree' = [tree EXCEPT ![m] = NoTree]
  /\ GoTo(m, IF command[m].kind = "git" THEN "clone" ELSE "copy")
  /\ UNCHANGED side /\ Unchanged(m)

Filled(m, revisions) ==
  [tree[m] EXCEPT !.of = @ \cup revisions, !.whole = TRUE]

\* shutil.copytree, then the side directory goes away.
CopyTree(m) ==
  /\ At(m, "copy")
  /\ tree' = [tree EXCEPT ![m] = Filled(m, side[m])]
  /\ side' = [side EXCEPT ![m] = {}]
  /\ GoTo(m, "locals")
  /\ Unchanged(m)

\* git clone --no-checkout and git checkout --detach of the revision.
Clone(m) ==
  /\ At(m, "clone")
  /\ tree' = [tree EXCEPT ![m] = Filled(m, {command[m].revision})]
  /\ GoTo(m, "locals")
  /\ UNCHANGED side /\ Unchanged(m)

\* The clone fails and leaves nothing, or the checkout does and leaves .git.
CloneFails(m) ==
  /\ At(m, "clone")
  /\ \E left \in {{}, {command[m].revision}} :
       tree' = [tree EXCEPT ![m].of = left]
  /\ Stop(m)
  /\ UNCHANGED side /\ Unchanged(m)

\* _copy_local_files: the patches are among the local files.
CopyLocalFiles(m) ==
  /\ At(m, "locals")
  /\ tree' = [tree EXCEPT ![m].local = version]
  /\ GoTo(m, "patch")
  /\ UNCHANGED side /\ Unchanged(m)

\* git apply: the patch, in the edition copied, was made for these files.
Applies(m, name) ==
  /\ [name |-> name, version |-> tree[m].local[name],
      revision |-> command[m].revision] \in Fits
  /\ \A s \in Touches[name] : tree[m].config[s] = Shipped[s]

\* _apply_patches: one at a time; the first that does not apply ends it.
ApplyPatch(m) ==
  /\ At(m, "patch") /\ command[m].i \in DOMAIN Patches
  /\ LET name == Patches[command[m].i] IN
       IF Applies(m, name)
         THEN /\ tree' = [tree EXCEPT ![m].applied =
                            Append(@, <<name, tree[m].local[name]>>)]
              /\ Advance(m)
         ELSE Stop(m) /\ UNCHANGED tree
  /\ UNCHANGED side /\ Unchanged(m)

Patched(m) ==
  /\ At(m, "patch") /\ command[m].i \notin DOMAIN Patches
  /\ GoTo(m, "restore")
  /\ UNCHANGED <<tree, side>> /\ Unchanged(m)

\* One saved file goes to where the source has it, unless there is none; what
\* is not a regular file of one name is refused.
PutBack(m, i) ==
  LET item == Sync[i]
      file == saved[item.destination]
  IN \/ file.is = "absent" /\ Advance(m) /\ UNCHANGED tree
     \/ /\ file.is = "regular" /\ Advance(m)
        /\ tree' = [tree EXCEPT ![Place(m)].config[item.source] = file]
     \/ file.is \notin {"absent", "regular"} /\ Stop(m) /\ UNCHANGED tree

\* restore_configuration_sync.
Restore(m) ==
  /\ At(m, "restore") /\ command[m].i \in DOMAIN Sync
  /\ PutBack(m, command[m].i)
  /\ UNCHANGED side /\ Unchanged(m)

Prepared(m) ==
  /\ At(m, "restore") /\ command[m].i \notin DOMAIN Sync
  /\ GoTo(m, command[m].task)
  /\ UNCHANGED <<tree, side>> /\ Unchanged(m)

\* The build runs in the tree and may leave its products there.
Compile(m) ==
  /\ At(m, "compile")
  /\ tree' = [tree EXCEPT ![Place(m)].of = @ \cup {"products"}]
  /\ Stop(m)
  /\ UNCHANGED side /\ Unchanged(m)

-----------------------------------------------------------------------------
(* Configuring                                                              *)

\* execute_configuration: _seed_configuration.
Seed(m) ==
  /\ At(m, "seed") /\ command[m].i \in DOMAIN Sync
  /\ PutBack(m, command[m].i)
  /\ UNCHANGED side /\ Unchanged(m)

OpenMenu(m) ==
  /\ At(m, "seed") /\ command[m].i \notin DOMAIN Sync
  /\ GoTo(m, "menu")
  /\ UNCHANGED <<tree, side>> /\ Unchanged(m)

\* What the user's session may leave in the tree.
Outcomes(m) ==
  LET config == tree[Place(m)].config
      file   == Regular(command[m].session)
  IN {config, [s \in Sources |-> file]}
       \cup {[config EXCEPT ![s] = c] : s \in Sources, c \in {file, Odd}}

\* The menu ends well, and every file is a regular one.
MenuEnds(m) ==
  /\ At(m, "menu")
  /\ \E config \in Outcomes(m) :
       /\ tree' = [tree EXCEPT ![Place(m)].config = config]
       /\ IF \A s \in Sources : config[s].is = "regular"
            THEN GoTo(m, "save") ELSE Stop(m)
  /\ UNCHANGED side /\ Unchanged(m)

\* The menu's exit code says it failed: nothing is saved.
MenuFails(m) ==
  /\ At(m, "menu")
  /\ \E config \in Outcomes(m) :
       tree' = [tree EXCEPT ![Place(m)].config = config]
  /\ Stop(m)
  /\ UNCHANGED side /\ Unchanged(m)

\* Mutant: the files are saved in one go, and the last is forgotten.
SaveAllButOne(m) ==
  /\ At(m, "save") /\ command[m].i \in DOMAIN Sync
  /\ LET item == Sync[1] IN
       saved' = [saved EXCEPT ![item.destination] =
                   tree[Place(m)].config[item.source]]
  /\ choice' = IF command[m].i = Len(Sync) /\ m \notin disturbed
                 THEN tree[Place(m)].config ELSE Forgotten
  /\ Advance(m)
  /\ UNCHANGED <<declared, version, tree, side, sessions, edits, kills>>
  /\ Disturb(m)

\* _atomic_copy: one file at a time over the saved one, unless that is not a
\* regular file of one name.
Save(m) ==
  /\ At(m, "save") /\ command[m].i \in DOMAIN Sync
  /\ LET item == Sync[command[m].i] IN
       IF saved[item.destination] = Odd
         THEN Stop(m) /\ UNCHANGED <<saved, choice>>
         ELSE /\ saved' = [saved EXCEPT ![item.destination] =
                             tree[Place(m)].config[item.source]]
              /\ choice' = IF command[m].i = Len(Sync) /\ m \notin disturbed
                             THEN tree[Place(m)].config ELSE Forgotten
              /\ Advance(m)
  /\ UNCHANGED <<declared, version, tree, side, sessions, edits, kills>>
  /\ Disturb(m)

Saved(m) ==
  /\ At(m, "save") /\ command[m].i \notin DOMAIN Sync
  /\ Stop(m)
  /\ UNCHANGED <<tree, side>> /\ Unchanged(m)

-----------------------------------------------------------------------------
(* What else may happen                                                     *)

\* The command is killed, or a file operation fails: what it was writing or
\* removing is left in part.
Kill(m) ==
  /\ m \in Busy /\ kills < MaxKills
  /\ kills' = kills + 1
  /\ Stop(m)
  /\ \E began \in BOOLEAN :
       LET written == IF began THEN {command[m].revision} ELSE {} IN
       /\ side' = IF At(m, "unpack")
                    THEN [side EXCEPT ![m] = @ \cup written] ELSE side
       /\ tree' = IF command[m].pc \in {"remove", "copy", "clone"}
                    THEN [tree EXCEPT ![m].of = @ \cup written,
                                      ![m].whole = FALSE]
                    ELSE tree
  /\ UNCHANGED <<declared, version, saved, sessions, edits, disturbed, choice>>

Edit ==
  /\ edits < MaxEdits
  /\ edits' = edits + 1
  /\ UNCHANGED <<tree, side, command, sessions, kills>>

EditDeclaration ==
  /\ Edit
  /\ \E kind \in Kinds, r \in Revisions :
       /\ declared' = [kind |-> kind, revision |-> r]
       /\ declared' # declared
  /\ UNCHANGED <<version, saved, disturbed, choice>>

EditPatch ==
  /\ Edit
  /\ \E name \in Names : version' = [version EXCEPT ![name] = @ + 1]
  /\ disturbed' = Busy
  /\ UNCHANGED <<declared, saved, choice>>

EditSaved ==
  /\ Edit
  /\ \E d \in Destinations, c \in {Absent, Odd} :
       /\ saved[d] # c
       /\ saved' = [saved EXCEPT ![d] = c]
  /\ disturbed' = Busy
  /\ choice' = Forgotten
  /\ UNCHANGED <<declared, version>>

-----------------------------------------------------------------------------
Init ==
  /\ declared \in [kind : Kinds, revision : Revisions]
  /\ version = [name \in Names |-> 1]
  /\ saved = [d \in Destinations |-> Absent]
  /\ tree = [p \in Places |->
                IF p = "tree" THEN [NoTree EXCEPT !.whole = TRUE] ELSE NoTree]
  /\ side = [m \in Machines |-> {}]
  /\ command = [m \in Machines |-> Idle]
  /\ sessions = 0 /\ edits = 0 /\ kills = 0
  /\ disturbed = {}
  /\ choice = Forgotten

\* What goes on by itself once a command has begun.
Proceed(m) ==
  \/ Clear(m) \/ Remove(m) \/ CopyTree(m) \/ CopyLocalFiles(m)
  \/ ApplyPatch(m) \/ Patched(m) \/ Restore(m) \/ Prepared(m) \/ Compile(m)
  \/ Seed(m) \/ OpenMenu(m) \/ Save(m) \/ Saved(m)

Next ==
  \/ \E m \in Machines :
       \/ StartBuild(m) \/ StartConfigure(m)
       \/ Proceed(m)
       \/ Unpack(m) \/ UnpackFails(m) \/ Clone(m) \/ CloneFails(m)
       \/ MenuEnds(m) \/ MenuFails(m)
       \/ Kill(m)
  \/ EditDeclaration \/ EditPatch \/ EditSaved

Spec == Init /\ [][Next]_vars

-----------------------------------------------------------------------------
(* Properties                                                               *)

Trees ==
  [of : SUBSET (Revisions \cup {"products"}), whole : BOOLEAN,
   local : {<<>>} \cup [Names -> 1..(MaxEdits + 1)],
   applied : UNION {[1..n -> Names \X (1..(MaxEdits + 1))] :
                     n \in 0..Len(Patches)},
   config : [Sources -> Contents]]

\* Every variable stays in its type (the shapes of package_sources.py and
\* configure.py: a file saved is regular, and so is what is put back).
TypeOK ==
  /\ declared \in [kind : Kinds, revision : Revisions]
  /\ version \in [Names -> 1..(MaxEdits + 1)]
  /\ saved \in [Destinations -> Contents]
  /\ tree \in [Places -> Trees]
  /\ side \in [Machines -> SUBSET Revisions]
  /\ \A m \in Machines : m \in Busy =>
       /\ command[m] \in
            [task : {"compile", "seed"}, session : 0..MaxSessions,
             kind : Kinds, revision : Revisions, i : 1..10,
             pc : {"clear", "unpack", "remove", "copy", "clone", "locals",
                   "patch", "restore", "compile", "seed", "menu", "save"}]
       /\ command[m].i \in 1..(Len(Patches) + Len(Sync) + 1)
  /\ disturbed \subseteq Machines
  /\ choice \in [Sources -> Contents]

\* What the declaration a command planned with says its tree is.
Exact(m) ==
  [of |-> {command[m].revision}, whole |-> TRUE, local |-> version,
   applied |-> [i \in DOMAIN Patches |-> <<Patches[i], version[Patches[i]]>>],
   config |-> [s \in Sources |->
     LET from == {i \in DOMAIN Sync : /\ Sync[i].source = s
                                      /\ saved[Sync[i].destination] # Absent}
     IN IF from = {} THEN Shipped[s]
        ELSE saved[Sync[CHOOSE i \in from : \A j \in from : j <= i]
                     .destination]]]

\* What is compiled is exactly the declared source: one revision and nothing
\* that an earlier build, an earlier revision, a killed command or an abandoned
\* menu left, with the local files as they are, every patch in its order, and
\* the saved configuration over it.  Only an edit or a save beside the command
\* excuses it.  (package_sources.py:143-173)
PreparedIsExact ==
  \A m \in Machines :
    /\ At(m, "compile") /\ command[m].kind # "directory"
    /\ m \notin disturbed
    => tree[m] = Exact(m)

\* The choice of the last session that saved all its files is what every
\* machine then compiles with, and what the next menu opens with, whatever
\* failed, was killed or was abandoned since.  The build of a source in the
\* repository is left out: nothing restores its configuration, and it takes
\* what an abandoned menu left.  (configure.py:109-140, 223-233)
ChoiceIsKept ==
  \A m \in Machines :
    /\ \/ At(m, "menu")
       \/ At(m, "compile") /\ command[m].kind # "directory"
    /\ m \notin disturbed
    /\ choice # Forgotten
    => tree[Place(m)].config = choice

=============================================================================
