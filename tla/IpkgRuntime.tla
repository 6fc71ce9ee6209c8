----------------------------- MODULE IpkgRuntime -----------------------------
(***************************************************************************)
(* Installing and removing packages in a root filesystem, and the status   *)
(* database beside it (smart_build/domains/ipkg.py, install_ipkg_runtime,  *)
(* remove_ipkg_runtime, IpkgDatabase).  Files are written one by one;      *)
(* failures are rolled back, a kill is not.                                *)
(***************************************************************************)
EXTENDS Naturals, FiniteSets, Sequences, SequencesExt

CONSTANTS Path, Archive, Name,
          Content,      \* what regular files hold
          PackageName,  \* PackageName[a] of an archive
          Members,      \* Members[a]: sequence of [path, content]
          Broken,       \* archives whose last member is refused: a link, a cut-off payload
          Base,         \* what the root filesystem starts with
          MaxKills, MaxErrors

None == "none"
Torn == "torn"   \* written in part, or without its mode

ASSUME PackageNameAssumption == PackageName \in [Archive -> Name] /\ None \notin Archive
ASSUME MembersAssumption ==
  Members \in [Archive -> Seq([path : Path, content : Content])]
ASSUME ContentAssumption == Content \cap {None, Torn, "dir", "link"} = {}
ASSUME BrokenAssumption == Broken \subseteq Archive
ASSUME BaseAssumption == Base \in [Path -> Content \cup {None, "dir", "link"}]
ASSUME BoundAssumption == MaxKills \in Nat /\ MaxErrors \in Nat

VARIABLES
  rootfs, probes,      \* files, and the temporary ones that contents are compared with
  status, list,        \* the database: the installed archive of a name; paths in its .list
  pc, job, at, made, todo, \* the call at hand, its member, the files it has created
  kills, errors,
  before,              \* history: the root filesystem when the call began
  debris,              \* history: paths of files that no .list can name any more
  taken,               \* history: paths removed with one package while another had them
  leaving              \* history: installed packages whose removal has begun

db == <<status, list>>
call == <<job, at, made, todo>>
history == <<before, debris, taken, leaving>>
vars == <<rootfs, probes, db, pc, call, kills, errors, history>>

Paths(a) == {Members[a][i].path : i \in DOMAIN Members[a]}
Member == Members[job][at]
Idle == pc = "idle"
Installing == {"member", "written", "compare", "rollback", "commitList"}
Removing == {"removeFiles", "dropList"}

Init ==
  /\ rootfs = Base /\ probes = {}
  /\ status = [n \in Name |-> None] /\ list = [n \in Name |-> {}]
  /\ pc = "idle" /\ job = None /\ at = 0 /\ made = <<>> /\ todo = {}
  /\ kills = 0 /\ errors = 0
  /\ before = Base /\ debris = {} /\ taken = {} /\ leaving = {}

-----------------------------------------------------------------------------
(* install_ipkg_runtime                                                     *)

Install(a) ==
  /\ Idle
  /\ pc' = "member" /\ job' = a /\ at' = 1 /\ made' = <<>> /\ before' = rootfs
  /\ UNCHANGED <<rootfs, probes, db, todo, kills, errors, debris, taken, leaving>>

\* A member that is not there yet is written, and gets its mode afterwards.
WriteMember ==
  /\ pc = "member" /\ at \in DOMAIN Members[job]
  /\ ~ (job \in Broken /\ at = Len(Members[job]))
  /\ rootfs[Member.path] = None
  /\ rootfs' = [rootfs EXCEPT ![Member.path] = Torn]
  /\ pc' = "written"
  /\ UNCHANGED <<probes, db, call, kills, errors, history>>

MemberWritten ==
  /\ pc = "written"
  /\ rootfs' = [rootfs EXCEPT ![Member.path] = Member.content]
  /\ made' = Append(made, Member.path) /\ at' = at + 1
  /\ pc' = "member"
  /\ UNCHANGED <<probes, db, job, todo, kills, errors, history>>

\* An error at a member, or when the last one is read again for its record:
\* the file being written is removed, and then the others.
WriteFails ==
  /\ pc \in {"member", "written"} /\ errors < MaxErrors
  /\ errors' = errors + 1
  /\ rootfs' = IF pc = "written" THEN [rootfs EXCEPT ![Member.path] = None] ELSE rootfs
  /\ pc' = "rollback"
  /\ UNCHANGED <<probes, db, call, kills, history>>

\* A file that is there is compared with a temporary one beside it.  One that
\* a killed install has left is an error, and is removed then.
Probe ==
  /\ pc = "member" /\ at \in DOMAIN Members[job]
  /\ ~ (job \in Broken /\ at = Len(Members[job]))
  /\ rootfs[Member.path] \notin {None, "link", "dir"}
  /\ IF Member.path \in probes
     THEN probes' = probes \ {Member.path} /\ pc' = "rollback"
     ELSE probes' = probes \cup {Member.path} /\ pc' = "compare"
  /\ UNCHANGED <<rootfs, db, call, kills, errors, history>>

\* A fault: an identical file that was there counts as created.
CompareAndOwn ==
  /\ pc = "compare"
  /\ probes' = probes \ {Member.path}
  /\ IF rootfs[Member.path] = Member.content
     THEN pc' = "member" /\ at' = at + 1 /\ made' = Append(made, Member.path)
     ELSE pc' = "rollback" /\ UNCHANGED <<at, made>>
  /\ UNCHANGED <<rootfs, db, job, todo, kills, errors, history>>

Compare ==
  /\ pc = "compare"
  /\ probes' = probes \ {Member.path}
  /\ IF rootfs[Member.path] = Member.content
     THEN pc' = "member" /\ at' = at + 1
     ELSE pc' = "rollback" /\ at' = at
  /\ UNCHANGED <<rootfs, db, job, made, todo, kills, errors, history>>

\* A link or a directory in the member's place, a member that is a link, data
\* that ends too early.
RefuseMember ==
  /\ pc = "member" /\ at \in DOMAIN Members[job]
  /\ \/ rootfs[Member.path] \in {"link", "dir"}
     \/ job \in Broken /\ at = Len(Members[job])
  /\ pc' = "rollback"
  /\ UNCHANGED <<rootfs, probes, db, call, kills, errors, history>>

\* A fault: only the last file is taken back.
RollBackLast ==
  /\ pc = "rollback" /\ made # <<>>
  /\ rootfs' = [rootfs EXCEPT ![Last(made)] = None]
  /\ made' = <<>>
  /\ UNCHANGED <<probes, db, pc, job, at, todo, kills, errors, history>>

RollBack ==
  /\ pc = "rollback" /\ made # <<>>
  /\ rootfs' = [rootfs EXCEPT ![Last(made)] = None]
  /\ made' = Front(made)
  /\ UNCHANGED <<probes, db, pc, job, at, todo, kills, errors, history>>

InstallFails ==
  /\ pc = "rollback" /\ made = <<>>
  /\ pc' = "idle"
  /\ UNCHANGED <<rootfs, probes, db, call, kills, errors, history>>

\* IpkgDatabase.commit: the status file, and then the list of paths.
CommitStatus ==
  /\ pc = "member" /\ at > Len(Members[job])
  /\ status' = [status EXCEPT ![PackageName[job]] = job]
  /\ leaving' = leaving \ {PackageName[job]}
  /\ pc' = "commitList"
  /\ UNCHANGED <<rootfs, probes, list, call, kills, errors, before, debris, taken>>

\* The status or the list cannot be written, or the status not read: the
\* install has failed, but the files it has written stay, and no list has them.
CommitFails ==
  /\ \/ pc = "member" /\ at > Len(Members[job])
     \/ pc = "commitList"
  /\ errors < MaxErrors
  /\ errors' = errors + 1
  /\ pc' = "idle"
  /\ debris' = debris \cup Range(made)
  /\ UNCHANGED <<rootfs, probes, db, call, kills, before, taken, leaving>>

\* A fault: only the files that this install has created are listed.
CommitListOfNew ==
  /\ pc = "commitList"
  /\ list' = [list EXCEPT ![PackageName[job]] = Range(made)]
  /\ debris' = (debris \cup list[PackageName[job]]) \ Paths(job)
  /\ pc' = "idle"
  /\ UNCHANGED <<rootfs, probes, status, call, kills, errors, before, taken, leaving>>

\* Paths of the version before that this one does not have are nobody's now;
\* what a failed attempt has left of the same files is owned again.
CommitList ==
  /\ pc = "commitList"
  /\ list' = [list EXCEPT ![PackageName[job]] = Paths(job)]
  /\ debris' = (debris \cup list[PackageName[job]]) \ Paths(job)
  /\ pc' = "idle"
  /\ UNCHANGED <<rootfs, probes, status, call, kills, errors, before, taken, leaving>>

-----------------------------------------------------------------------------
(* remove_ipkg_runtime                                                      *)

RemovePackage(n) ==
  /\ Idle /\ status[n] # None
  /\ todo' = list[n] /\ job' = n /\ pc' = "removeFiles"
  /\ before' = rootfs /\ leaving' = leaving \cup {n}
  /\ UNCHANGED <<rootfs, probes, db, at, made, kills, errors, debris, taken>>

RemoveFile ==
  /\ pc = "removeFiles"
  /\ \E p \in todo :
       /\ todo' = todo \ {p}
       /\ rootfs' = [rootfs EXCEPT ![p] = None]
       /\ taken' = IF \E n \in Name \ {job} : status[n] # None /\ p \in Paths(status[n])
                   THEN taken \cup {p} ELSE taken
  /\ UNCHANGED <<probes, db, pc, job, at, made, kills, errors, before, debris, leaving>>

DropStatus ==
  /\ pc = "removeFiles" /\ todo = {}
  /\ status' = [status EXCEPT ![job] = None]
  /\ leaving' = leaving \ {job}
  /\ pc' = "dropList"
  /\ UNCHANGED <<rootfs, probes, list, call, kills, errors, before, debris, taken>>

DropList ==
  /\ pc = "dropList"
  /\ list' = [list EXCEPT ![job] = {}]
  /\ pc' = "idle"
  /\ UNCHANGED <<rootfs, probes, status, call, kills, errors, history>>

\* The call is killed, or stopped by an error that nothing catches, while it
\* takes files back or removes them.  Installs leave what they have written;
\* before the list is there, even a package in the database has files that
\* no list names.
Kill ==
  /\ ~ Idle /\ kills < MaxKills
  /\ kills' = kills + 1
  /\ pc' = "idle"
  /\ debris' = CASE pc = "written" -> debris \cup Range(made) \cup {Member.path}
                 [] pc \in Installing \ {"written"} -> debris \cup Range(made)
                 [] OTHER -> debris
  /\ UNCHANGED <<rootfs, probes, db, call, errors, before, taken, leaving>>

Next ==
  \/ \E a \in Archive : Install(a)
  \/ \E n \in Name : RemovePackage(n)
  \/ WriteMember \/ MemberWritten \/ WriteFails \/ Probe \/ Compare \/ RefuseMember
  \/ RollBack \/ InstallFails \/ CommitStatus \/ CommitList \/ CommitFails
  \/ RemoveFile \/ DropStatus \/ DropList
  \/ Kill

Spec == Init /\ [][Next]_vars

-----------------------------------------------------------------------------
File == Content \cup {None, Torn, "dir", "link"}

TypeOK ==
  /\ rootfs \in [Path -> File] /\ before \in [Path -> File]
  /\ probes \subseteq Path
  /\ status \in [Name -> Archive \cup {None}]
  /\ list \in [Name -> SUBSET Path]
  /\ pc \in Installing \cup Removing \cup {"idle"}
  /\ pc \in Installing => job \in Archive /\ at \in 1..(Len(Members[job]) + 1)
  /\ pc \in {"written", "compare"} => at \in DOMAIN Members[job]
  /\ pc \in Removing => job \in Name
  /\ made \in Seq(Path)
  /\ todo \subseteq Path /\ debris \subseteq Path /\ taken \subseteq Path
  /\ leaving \subseteq Name
  /\ kills \in 0..MaxKills /\ errors \in 0..MaxErrors
  \* A temporary file outlives its call only after a kill.
  /\ kills = 0 => probes = IF pc = "compare" THEN {Member.path} ELSE {}

(* A failing install changes nothing or leaves everything: at a member, the *)
(* root filesystem ends as it was, the files that were there and that the   *)
(* package has too included; at the database, every member is in place and  *)
(* no other file has changed.                                               *)
FailedInstallIsNothingOrAll ==
  [][/\ InstallFails => rootfs = before
     /\ CommitFails =>
          /\ \A i \in DOMAIN Members[job] :
               rootfs[Members[job][i].path] = Members[job][i].content
          /\ \A p \in Path \ Paths(job) : rootfs[p] = before[p]]_vars

(* Every file of a package in the database is there with its content, until *)
(* removing another package that has the same file takes it, or its own     *)
(* removal has begun: no rollback, no later install and no kill takes or    *)
(* changes it.                                                              *)
InstalledComplete ==
  \A n \in Name : status[n] # None =>
    \A i \in DOMAIN Members[status[n]] :
      LET m == Members[status[n]][i]
      IN  \/ rootfs[m.path] = m.content
          \/ m.path \in taken
          \/ n \in leaving

(* Every file in the root filesystem was there from the start, is in the    *)
(* list of an installed package, belongs to the call at hand, or was left   *)
(* over by an upgrade, by a kill or by an install whose database entry      *)
(* failed, until an install of the same files succeeds.                     *)
FilesHaveOwners ==
  \A p \in Path :
    \/ rootfs[p] \in {None, Base[p]}
    \/ p \in debris
    \/ \E n \in Name : status[n] # None /\ p \in list[n]
    \/ ~ Idle

=============================================================================
