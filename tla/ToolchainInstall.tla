--------------------------- MODULE ToolchainInstall ---------------------------
(***************************************************************************)
(* Finding a cross toolchain and installing it                             *)
(* (smart_build/domains/toolchain.py and the toolchain command of cli.py). *)
(* A toolchain of a release is looked for in several places; the first one *)
(* that exists decides.  When there is none, an archive is downloaded,     *)
(* unpacked beside and renamed into downloads/, which all machines and all *)
(* commands share without a lock, and which download-clean removes.        *)
(***************************************************************************)
EXTENDS Naturals, Sequences

CONSTANTS
  Process,
  Release,     \* [version, package, downloadable]: what the board declares
  HasLoader,   \* whether the board's toolchain has a shared C library
  Roots,       \* [Root -> set of what may be there in the beginning]
  Commands,    \* of "build" and "install"
  MaxFaults, MaxEdits, MaxCleans

ASSUME ReleaseAssumption ==
  \A r, q \in Release : r.version = q.version => r = q
ASSUME BoundAssumption == MaxFaults \in Nat /\ MaxEdits \in Nat /\ MaxCleans \in Nat

VARIABLES
  config,      \* [release, custom]: the selection, whether TOOLCHAIN_PATH is set
  root,        \* what is at each root
  archive,     \* downloads/toolchains/archives, by release
  proc,        \* proc[p]: a command
  cleaning,    \* download-clean is at work
  cleans, faults, edits

vars == <<config, root, archive, proc, cleaning, cleans, faults, edits>>

Absent == [gcc |-> "none", has |-> {}, dir |-> FALSE]
Exists(c) == c # Absent

Compilers == {"gcc", "g++"}
Runtime == {"libc", "loader", "crt1", "libgcc_s", "libstdc++"}
Required == Compilers \cup {"libgcc.a"} \cup (IF HasLoader THEN Runtime ELSE {})
Whole(r) == [gcc |-> r.version, has |-> Required \cup {"headers"}, dir |-> TRUE]

\* Toolchain.validate: what is required is there, for the right target and of
\* the right version.  Nothing looks for the headers.
Valid(c, r) == c.dir /\ Required \subseteq c.has /\ c.gcc = r.version

-----------------------------------------------------------------------------
EnvRoot(r) == <<"env", r.package>>
InstallRoot(r) == <<"downloads", r.package, r.version>>
LegacyRoot(r) == <<"downloads", r.package>>
Root == DOMAIN Roots
Downloads == {d \in Root : d[1] = "downloads"}

\* "none" is the version of no release; a file may be in a directory's place.
Content ==
  [gcc : {"none"} \cup {r.version : r \in Release},
   has : SUBSET (Required \cup {"headers", "file"}), dir : BOOLEAN]

\* In the beginning only an earlier install has written where installs go.
ASSUME RootAssumption ==
  /\ \A d \in Root : Roots[d] \subseteq Content
  /\ \A r \in Release :
       /\ {<<"custom">>, EnvRoot(r), InstallRoot(r), LegacyRoot(r)} \subseteq Root
       /\ Roots[InstallRoot(r)] \subseteq {Absent, Whole(r)}

\* A fault: an installed toolchain is only known by its old place.
CandidatesOld(r, custom) ==
  (IF custom THEN <<(<<"custom">>)>> ELSE <<>>) \o <<EnvRoot(r), LegacyRoot(r)>>

Candidates(r, custom) ==
  (IF custom THEN <<(<<"custom">>)>> ELSE <<>>)
    \o <<EnvRoot(r), InstallRoot(r), LegacyRoot(r)>>

\* The first candidate that exists, valid or not.
Found(r, custom) ==
  LET all == Candidates(r, custom)
      there == {i \in DOMAIN all : Exists(root[all[i]])}
  IN  IF there = {} THEN <<>> ELSE all[CHOOSE i \in there : \A j \in there : i <= j]

Idle == [pc |-> "idle", command |-> "build", release |-> CHOOSE r \in Release : TRUE,
         used |-> <<>>, temp |-> "none", tree |-> Absent]

Init ==
  /\ \E r \in Release, custom \in BOOLEAN : config = [release |-> r, custom |-> custom]
  /\ root \in {f \in [Root -> UNION {Roots[d] : d \in Root}] : \A d \in Root : f[d] \in Roots[d]}
  /\ archive \in {a \in [Release -> {"none", "good", "bad"}] :
                    \A r \in Release : a[r] # "none" => r.downloadable}
  /\ proc = [p \in Process |-> Idle]
  /\ cleaning = FALSE /\ cleans = 0 /\ faults = 0 /\ edits = 0

Goto(p, place) == proc' = [proc EXCEPT ![p].pc = place]

\* An error: what is temporary is removed.
Fail(p) == proc' = [proc EXCEPT ![p] = [@ EXCEPT !.pc = "failed", !.temp = "none", !.tree = Absent]]
Use(p, d) == proc' = [proc EXCEPT ![p] = [@ EXCEPT !.pc = "done", !.used = d]]
Resolved(p, d) == IF Valid(root[d], proc[p].release) THEN Use(p, d) ELSE Fail(p)

-----------------------------------------------------------------------------
Begin(p) ==
  /\ proc[p].pc \in {"idle", "failed", "done"}
  /\ \E command \in Commands, r \in Release :
       /\ command = "build" => r = config.release
       /\ proc' = [proc EXCEPT ![p] = [Idle EXCEPT !.pc = "resolve", !.command = command, !.release = r]]
  /\ UNCHANGED <<config, root, archive, cleaning, cleans, faults, edits>>

\* resolve_toolchain; when nothing is found and the release has a download,
\* the user is asked (--yes in scripts).
Resolve(p) ==
  /\ proc[p].pc = "resolve"
  /\ LET r == proc[p].release
         d == Found(r, config.custom)
     IN  \/ d # <<>> /\ Resolved(p, d)
         \/ d = <<>> /\ r.downloadable /\ Goto(p, "install")
         \/ d = <<>> /\ Fail(p)
  /\ UNCHANGED <<config, root, archive, cleaning, cleans, faults, edits>>

\* install_toolchain looks again, TOOLCHAIN_PATH or not.
Install(p) ==
  /\ proc[p].pc = "install"
  /\ LET d == Found(proc[p].release, FALSE)
     IN  IF d # <<>> THEN Resolved(p, d) ELSE Goto(p, "archive")
  /\ UNCHANGED <<config, root, archive, cleaning, cleans, faults, edits>>

CheckArchive(p) ==
  /\ proc[p].pc = "archive"
  /\ CASE archive[proc[p].release] = "none" -> Goto(p, "download")
       [] archive[proc[p].release] = "good" -> Goto(p, "extract")
       [] OTHER -> Fail(p)
  /\ UNCHANGED <<config, root, archive, cleaning, cleans, faults, edits>>

Download(p) ==
  /\ proc[p].pc = "download"
  /\ \/ /\ proc' = [proc EXCEPT ![p] = [@ EXCEPT !.pc = "verify", !.temp = "good"]]
        /\ faults' = faults
     \/ /\ faults < MaxFaults /\ faults' = faults + 1
        /\ proc' = [proc EXCEPT ![p] = [@ EXCEPT !.pc = "verify", !.temp = "bad"]]
  /\ UNCHANGED <<config, root, archive, cleaning, cleans, edits>>

KeepDownload(p) ==
  /\ proc[p].pc = "verify"
  /\ IF proc[p].temp = "good"
     THEN /\ archive' = [archive EXCEPT ![proc[p].release] = "good"]
          /\ proc' = [proc EXCEPT ![p] = [@ EXCEPT !.pc = "extract", !.temp = "none"]]
     ELSE Fail(p) /\ archive' = archive
  /\ UNCHANGED <<config, root, cleaning, cleans, faults, edits>>

\* A fault: unpacked where it is used.
ExtractInPlace(p) ==
  /\ proc[p].pc = "extract"
  /\ IF archive[proc[p].release] = "none"
     THEN Fail(p) /\ root' = root
     ELSE /\ root' = [root EXCEPT ![InstallRoot(proc[p].release)] =
                        [Whole(proc[p].release) EXCEPT !.has = Compilers]]
          /\ Goto(p, "extracting")
  /\ UNCHANGED <<config, archive, cleaning, cleans, faults, edits>>

\* Unpacked in a directory of its own, file by file.
Extract(p) ==
  /\ proc[p].pc = "extract"
  /\ IF archive[proc[p].release] = "none"
     THEN Fail(p)
     ELSE proc' = [proc EXCEPT ![p] = [@ EXCEPT !.pc = "extracting",
                     !.tree = [Whole(proc[p].release) EXCEPT !.has = Compilers]]]
  /\ UNCHANGED <<config, root, archive, cleaning, cleans, faults, edits>>

Extracted(p) ==
  /\ proc[p].pc = "extracting"
  /\ IF proc[p].tree = Absent
     THEN Fail(p)
     ELSE proc' = [proc EXCEPT ![p] = [@ EXCEPT !.pc = "check",
                     !.tree = IF archive[proc[p].release] = "bad"
                              THEN [proc[p].tree EXCEPT !.has = Required]
                              ELSE Whole(proc[p].release)]]
  /\ UNCHANGED <<config, root, archive, cleaning, cleans, faults, edits>>

CheckTree(p) ==
  /\ proc[p].pc = "check"
  /\ IF Valid(proc[p].tree, proc[p].release) /\ ~ Exists(root[InstallRoot(proc[p].release)])
     THEN Goto(p, "rename") ELSE Fail(p)
  /\ UNCHANGED <<config, root, archive, cleaning, cleans, faults, edits>>

\* Another command may have been here since: a directory that is not empty is
\* not replaced.
Rename(p) ==
  /\ proc[p].pc = "rename"
  /\ LET d == InstallRoot(proc[p].release)
     IN  IF Exists(root[d]) \/ proc[p].tree = Absent
         THEN Fail(p) /\ root' = root
         ELSE /\ root' = [root EXCEPT ![d] = proc[p].tree]
              /\ proc' = [proc EXCEPT ![p] = [@ EXCEPT !.pc = "installed", !.tree = Absent]]
  /\ UNCHANGED <<config, archive, cleaning, cleans, faults, edits>>

Installed(p) ==
  /\ proc[p].pc = "installed"
  /\ Resolved(p, InstallRoot(proc[p].release))
  /\ UNCHANGED <<config, root, archive, cleaning, cleans, faults, edits>>

Working(p) == proc[p].pc \notin {"idle", "failed", "done"}

\* A kill: what is temporary stays, under a name that nobody looks at.
Kill(p) ==
  /\ Working(p) /\ faults < MaxFaults
  /\ faults' = faults + 1
  /\ proc' = [proc EXCEPT ![p] = Idle]
  /\ UNCHANGED <<config, root, archive, cleaning, cleans, edits>>

Configure ==
  /\ edits < MaxEdits
  /\ edits' = edits + 1
  /\ \E r \in Release, custom \in BOOLEAN : config' = [release |-> r, custom |-> custom]
  /\ UNCHANGED <<root, archive, proc, cleaning, cleans, faults>>

-----------------------------------------------------------------------------
(* download-clean: _remove_tree on downloads/, one file after the other, in *)
(* any order, whoever uses them; it may be killed.                          *)

StartClean ==
  /\ ~ cleaning /\ cleans < MaxCleans
  /\ cleaning' = TRUE /\ cleans' = cleans + 1
  /\ UNCHANGED <<config, root, archive, proc, faults, edits>>

Torn(c) == IF "headers" \in c.has THEN [c EXCEPT !.has = @ \ {"headers"}] ELSE Absent

Clean ==
  /\ cleaning
  /\ \/ /\ \E d \in Downloads : Exists(root[d]) /\ root' = [root EXCEPT ![d] = Torn(@)]
        /\ UNCHANGED <<archive, proc, cleaning>>
     \/ /\ \E r \in Release : archive[r] # "none" /\ archive' = [archive EXCEPT ![r] = "none"]
        /\ UNCHANGED <<root, proc, cleaning>>
     \/ /\ \E p \in Process :
             \/ /\ proc[p].temp # "none"
                /\ proc' = [proc EXCEPT ![p].temp = "none"]
             \/ /\ proc[p].tree # Absent
                /\ proc' = [proc EXCEPT ![p].tree = Torn(@)]
        /\ UNCHANGED <<root, archive, cleaning>>
     \/ cleaning' = FALSE /\ UNCHANGED <<root, archive, proc>>
  /\ UNCHANGED <<config, cleans, faults, edits>>

Step(p) ==
  \/ Resolve(p) \/ Install(p) \/ CheckArchive(p) \/ Download(p) \/ KeepDownload(p)
  \/ Extract(p) \/ Extracted(p) \/ CheckTree(p) \/ Rename(p) \/ Installed(p)

Next == StartClean \/ Clean \/ Configure \/ \E p \in Process : Begin(p) \/ Step(p) \/ Kill(p)

Spec == Init /\ [][Next]_vars

-----------------------------------------------------------------------------
\* From where nothing was found to where it is.
Installing ==
  {"install", "archive", "download", "verify", "extract", "extracting", "check", "rename",
   "installed"}

TypeOK ==
  /\ config \in [release : Release, custom : BOOLEAN]
  /\ root \in [Root -> Content]
  /\ archive \in [Release -> {"none", "good", "bad"}]
  /\ proc \in
       [Process -> [pc : {"idle", "failed", "done", "resolve"} \cup Installing,
                    command : {"build"} \cup Commands, release : Release,
                    used : Root \cup {<<>>}, temp : {"none", "good", "bad"}, tree : Content]]
  /\ \A p \in Process :
       /\ proc[p].tree # Absent => proc[p].pc \in {"extracting", "check", "rename"}
       /\ proc[p].temp # "none" => proc[p].pc = "verify"
  /\ cleaning \in BOOLEAN
  /\ faults \in 0..MaxFaults /\ edits \in 0..MaxEdits /\ cleans \in 0..MaxCleans

(* What is installed is the whole toolchain of its release, however many    *)
(* commands install it at once, wherever one is killed and whatever a       *)
(* download brings; only download-clean leaves less.                        *)
InstalledIsWhole ==
  cleans = 0 => \A r \in Release : root[InstallRoot(r)] \in {Absent, Whole(r)}

(* A command that has succeeded leaves the next one the same toolchain: as  *)
(* long as nobody edits the configuration or cleans, a lookup of the same   *)
(* release finds what it has used, valid, whatever others have installed.   *)
SuccessIsLasting ==
  cleans = 0 /\ edits = 0 =>
    \A p \in Process :
      proc[p].pc = "done" =>
        /\ Found(proc[p].release, config.custom) = proc[p].used
        /\ Valid(root[proc[p].used], proc[p].release)

=============================================================================
