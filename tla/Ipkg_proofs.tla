------------------------------- MODULE Ipkg_proofs -------------------------------
(***************************************************************************)
(* For any archives, root filesystem, kills and errors: the types; that a  *)
(* failing install changes nothing or leaves everything; that an installed *)
(* package is complete until something is removed; that every file has an  *)
(* owner or is known debris; and that an archive is read as it was         *)
(* written, or not at all.                                                 *)
(***************************************************************************)
EXTENDS Ipkg, SequenceTheorems, TLAPS

LEMMA RangeOfAppend ==
  ASSUME NEW s \in Seq(Path), NEW p \in Path
  PROVE  /\ Append(s, p) \in Seq(Path)
         /\ Range(Append(s, p)) = Range(s) \cup {p}
<1>1. /\ Append(s, p) \in Seq(Path) /\ DOMAIN Append(s, p) = 1..(Len(s) + 1)
      /\ \A i \in 1..Len(s) : Append(s, p)[i] = s[i]
      /\ Append(s, p)[Len(s) + 1] = p
      /\ DOMAIN s = 1..Len(s) /\ Len(s) \in Nat
  OBVIOUS
<1> QED
  BY <1>1 DEF Range

\* What is taken back first is what was made last.
LEMMA RangeOfFront ==
  ASSUME NEW s \in Seq(Path), s # <<>>
  PROVE  /\ Last(s) \in Path /\ Last(s) \in Range(s)
         /\ Front(s) \in Seq(Path)
         /\ Range(Front(s)) \subseteq Range(s)
         /\ Range(s) = Range(Front(s)) \cup {Last(s)}
<1>1. Len(s) \in Nat \ {0} /\ DOMAIN s = 1..Len(s)
  OBVIOUS
<1>2. /\ Front(s) \in Seq(Path) /\ Len(Front(s)) = Len(s) - 1
      /\ \A i \in 1..(Len(s) - 1) : Front(s)[i] = s[i]
  BY <1>1 DEF Front
<1> QED
  BY <1>1, <1>2 DEF Last, Range

LEMMA MemberType ==
  ASSUME NEW a \in Archive, NEW i \in DOMAIN Members[a]
  PROVE  /\ i \in 1..Len(Members[a]) /\ Len(Members[a]) \in Nat
         /\ Members[a][i].path \in Path
         /\ Members[a][i].content \in Content
         /\ Members[a][i].path \in Paths(a)
<1> DEFINE M == [path : Path, content : Content]
<1> HIDE DEF M
<1>1. Members[a] \in Seq(M)
  BY MembersAssumption DEF M
<1>2. /\ DOMAIN Members[a] = 1..Len(Members[a]) /\ Len(Members[a]) \in Nat
      /\ Members[a][i] \in M
  BY <1>1
<1>3. Members[a][i].path \in Path /\ Members[a][i].content \in Content
  BY <1>2 DEF M
<1> QED
  BY <1>2, <1>3 DEF Paths

LEMMA InitTypes == Init => TypeOK
BY BaseAssumption, BoundAssumption DEF Init, TypeOK, File, Installing, Removing, None

\* Every step to the install or the removal of an archive.
LEMMA StepTypes ==
  ASSUME TypeOK, [Next]_vars
  PROVE  TypeOK'
<1> USE BoundAssumption DEF TypeOK, File, Installing, Removing, db, call, history
<1>1. ASSUME NEW a \in Archive, Install(a) PROVE TypeOK'
  <2>1. Len(Members[a]) \in Nat
    BY MembersAssumption
  <2> QED
    BY <1>1, <2>1 DEF Install, Idle
<1>2. CASE WriteMember
  BY <1>2, MemberType DEF WriteMember, Member, Torn
<1>3. CASE MemberWritten
  BY <1>3, MemberType, RangeOfAppend DEF MemberWritten, Member
<1>4. CASE WriteFails
  BY <1>4, MemberType DEF WriteFails, Member, None
<1>18. CASE CommitFails
  <2>1. Range(made) \subseteq Path
    BY RangeOfSeq
  <2> QED
    BY <1>18, <2>1 DEF CommitFails
<1>5. CASE Probe
  BY <1>5, MemberType DEF Probe, Member
<1>6. CASE Compare
  BY <1>6, MemberType DEF Compare, Member
<1>7. CASE RefuseMember
  BY <1>7 DEF RefuseMember
<1>8. CASE RollBack
  BY <1>8, RangeOfFront DEF RollBack, None
<1>9. CASE InstallFails
  BY <1>9 DEF InstallFails
<1>10. CASE CommitStatus
  BY <1>10, PackageNameAssumption DEF CommitStatus
<1>11. CASE CommitList
  <2>1. Paths(job) \subseteq Path
    BY <1>11, MemberType DEF CommitList, Paths
  <2> QED
    BY <1>11, <2>1, PackageNameAssumption DEF CommitList
<1>12. ASSUME NEW n \in Name, RemovePackage(n) PROVE TypeOK'
  BY <1>12 DEF RemovePackage, Idle
<1>13. CASE RemoveFile
  BY <1>13 DEF RemoveFile, None
<1>14. CASE DropStatus
  BY <1>14 DEF DropStatus
<1>15. CASE DropList
  BY <1>15 DEF DropList
<1>16. CASE Kill
  <2>1. debris' \subseteq Path
    <3>1. Range(made) \subseteq Path
      BY RangeOfSeq
    <3>2. pc = "written" => Member.path \in Path
      BY MemberType DEF Member
    <3> QED
      BY <1>16, <3>1, <3>2 DEF Kill
  <2> QED
    BY <1>16, <2>1 DEF Kill, Idle
<1>17. CASE UNCHANGED vars
  BY <1>17 DEF vars, Member
<1> QED
  BY <1>1, <1>2, <1>3, <1>4, <1>5, <1>6, <1>7, <1>8, <1>9, <1>10, <1>11, <1>12, <1>13,
     <1>14, <1>15, <1>16, <1>17, <1>18 DEF Next

\* Every variable keeps its type, and without a kill no temporary file
\* outlives its call.
THEOREM TypeCorrect == Spec => []TypeOK
<1>1. TypeOK /\ [Next]_vars => TypeOK'
  BY StepTypes
<1> QED
  BY <1>1, InitTypes, PTL DEF Spec

-----------------------------------------------------------------------------
(* The inductive invariant.                                                *)

\* Places from which an install can still be rolled back, and the files that
\* the rollback takes back.
Undoable == {"member", "written", "compare", "rollback"}
Mine == Range(made) \cup (IF pc = "written" THEN {Member.path} ELSE {})

\* The root filesystem is what it was, but for files that were not there.
Traced ==
  /\ \A p \in Path \ Mine : rootfs[p] = before[p]
  /\ \A p \in Mine : before[p] = None
  /\ pc = "written" => rootfs[Member.path] = Torn

\* The members that the install has passed are in place.
Placed ==
  \A i \in DOMAIN Members[job] :
    i < at => rootfs[Members[job][i].path] = Members[job][i].content

\* InstalledComplete and FilesHaveOwners, of any root filesystem.
CompleteIn(fs) ==
  \A n \in Name : status[n] # None =>
    \A i \in DOMAIN Members[status[n]] :
      LET m == Members[status[n]][i]
      IN  fs[m.path] = m.content \/ m.path \in taken \/ n \in leaving
Owned(fs, p) ==
  \/ fs[p] \in {None, Base[p]}
  \/ p \in debris
  \/ \E n \in Name : status[n] # None /\ p \in list[n]

IInv ==
  /\ TypeOK
  /\ InstalledComplete
  /\ pc \in Undoable =>
       CompleteIn(before) /\ \A p \in Path : Owned(before, p)
  /\ pc \in Undoable \cup {"commitList"} => Traced
  /\ pc \in (Undoable \cup {"commitList"}) \ {"rollback"} => Placed
  /\ pc \in Undoable \cup {"commitList"} => Range(made) \subseteq Paths(job)
  /\ pc \in Removing \cup {"idle"} => \A p \in Path : Owned(rootfs, p)
  /\ pc = "commitList" =>
       /\ status[PackageName[job]] = job /\ at > Len(Members[job])
       /\ \A p \in Path \ Mine : Owned(rootfs, p)
  /\ pc = "removeFiles" => job \in leaving /\ \A p \in list[job] \ todo : rootfs[p] = None
  /\ pc = "dropList" => status[job] = None

\* While a rollback is possible, what held of the root filesystem before the
\* call holds of it now, for every file that is not the call's own.
LEMMA FromBefore ==
  ASSUME TypeOK, pc \in Undoable, Traced,
         CompleteIn(before), \A p \in Path : Owned(before, p)
  PROVE  InstalledComplete /\ \A p \in Path \ Mine : Owned(rootfs, p)
<1>1. ASSUME NEW n \in Name, status[n] # None, NEW i \in DOMAIN Members[status[n]],
             Members[status[n]][i].path \notin taken, n \notin leaving
      PROVE  rootfs[Members[status[n]][i].path] = Members[status[n]][i].content
  <2> DEFINE m == Members[status[n]][i]
  <2>1. m.path \in Path /\ m.content \in Content
    BY <1>1, MemberType DEF TypeOK
  <2>2. before[m.path] = m.content
    BY <1>1 DEF CompleteIn
  <2>3. before[m.path] # None
    BY <2>1, <2>2, ContentAssumption
  <2> QED
    BY <2>1, <2>2, <2>3 DEF Traced
<1>2. \A p \in Path \ Mine : Owned(rootfs, p)
  BY DEF Traced, Owned
<1> QED
  BY <1>1, <1>2 DEF InstalledComplete

\* The steps that look at a member, write it, or take back what was written.
LEMMA UndoableStep ==
  ASSUME IInv, WriteMember \/ MemberWritten \/ WriteFails \/ Probe \/ Compare \/ RefuseMember
               \/ RollBack
  PROVE  /\ pc' \in Undoable /\ Traced'
         /\ pc' # "rollback" => Placed'
         /\ Range(made)' \subseteq Paths(job)
         /\ UNCHANGED <<before, db, taken, leaving, debris, job>>
<1> USE DEF Undoable, Traced, Placed, Mine, call, db, history
<1>a. /\ TypeOK /\ pc \in Undoable
      /\ rootfs \in [Path -> File] /\ made \in Seq(Path) /\ job \in Archive
      /\ \A i \in DOMAIN Members[job] :
           Members[job][i].path \in Path /\ Members[job][i].content \in Content
      /\ Traced /\ Range(made) \subseteq Paths(job)
      /\ pc # "rollback" => Placed
  <2>1. pc \in Undoable
    BY DEF WriteMember, MemberWritten, WriteFails, Probe, Compare, RefuseMember, RollBack
  <2>2. job \in Archive
    BY <2>1 DEF IInv, TypeOK, Installing
  <2> QED
    BY <2>1, <2>2, MemberType DEF IInv, TypeOK
<1>b. None \notin Content /\ Torn \notin Content
  BY ContentAssumption
<1>1. CASE WriteMember
  <2>1. /\ pc = "member" /\ pc' = "written" /\ at \in DOMAIN Members[job]
        /\ rootfs[Member.path] = None
        /\ rootfs' = [rootfs EXCEPT ![Member.path] = Torn]
        /\ UNCHANGED <<probes, db, call, kills, errors, history>>
    BY <1>1 DEF WriteMember
  <2>2. Member' = Member /\ Member.path \in Path
    BY <1>a, <2>1 DEF Member
  <2>3. Member.path \notin Range(made)' => before[Member.path] = None
    BY <1>a, <2>1, <2>2
  <2>4. Traced'
    BY <1>a, <2>1, <2>2, <2>3
  <2>5. Placed'
    <3> SUFFICES ASSUME NEW i \in DOMAIN Members[job], i < at
                 PROVE  rootfs'[Members[job][i].path] = Members[job][i].content
      BY <2>1
    <3>1. rootfs[Members[job][i].path] = Members[job][i].content
      BY <1>a, <2>1
    <3>2. Members[job][i].path # Member.path
      BY <1>a, <1>b, <2>1, <3>1
    <3> QED
      BY <1>a, <2>1, <2>2, <3>1, <3>2
  <2> QED
    BY <1>a, <2>1, <2>4, <2>5
<1>2. CASE MemberWritten
  <2>1. /\ pc = "written" /\ pc' = "member" /\ at' = at + 1
        /\ rootfs' = [rootfs EXCEPT ![Member.path] = Member.content]
        /\ made' = Append(made, Member.path)
        /\ UNCHANGED <<probes, db, job, todo, kills, errors, history>>
    BY <1>2 DEF MemberWritten
  <2>2. /\ at \in DOMAIN Members[job] /\ Member.path \in Path /\ Member.content \in Content
        /\ Member.path \in Paths(job) /\ Member = Members[job][at]
    BY <1>a, <2>1 DEF TypeOK, Member, Paths
  <2>3. Range(made') = Range(made) \cup {Member.path} /\ Mine' = Mine
    BY <1>a, <2>1, <2>2, RangeOfAppend
  <2>4. Traced'
    BY <1>a, <2>1, <2>2, <2>3
  <2>5. Placed'
    <3> SUFFICES ASSUME NEW i \in DOMAIN Members[job], i < at + 1
                 PROVE  rootfs'[Members[job][i].path] = Members[job][i].content
      BY <2>1
    <3>1. i \in Nat /\ at \in Nat
      BY <1>a, <2>2, MemberType
    <3>2. CASE i = at
      BY <1>a, <2>1, <2>2, <3>2
    <3>3. CASE i < at
      <4>1. rootfs[Members[job][i].path] = Members[job][i].content
        BY <1>a, <2>1, <3>3
      <4>2. Members[job][i].path # Member.path
        BY <1>a, <1>b, <2>1, <4>1
      <4> QED
        BY <1>a, <2>1, <2>2, <4>1, <4>2
    <3> QED
      BY <3>1, <3>2, <3>3
  <2> QED
    BY <1>a, <2>1, <2>2, <2>3, <2>4, <2>5
<1>3. CASE WriteFails
  <2>1. /\ pc \in {"member", "written"} /\ pc' = "rollback"
        /\ rootfs' = IF pc = "written" THEN [rootfs EXCEPT ![Member.path] = None] ELSE rootfs
        /\ UNCHANGED <<probes, db, call, kills, history>>
    BY <1>3 DEF WriteFails
  <2>2. CASE pc = "member"
    BY <1>a, <2>1, <2>2
  <2>3. CASE pc = "written"
    <3>1. Member.path \in Path
      BY <1>a, <2>3 DEF TypeOK, Member
    <3>2. before[Member.path] = None
      BY <1>a, <2>3
    <3> QED
      BY <1>a, <2>1, <2>3, <3>1, <3>2
  <2> QED
    BY <2>1, <2>2, <2>3
<1>4. CASE Probe
  BY <1>4, <1>a DEF Probe
<1>5. CASE Compare
  <2>1. /\ pc = "compare" /\ pc' \in {"member", "rollback"} /\ UNCHANGED <<rootfs, made, job>>
        /\ pc' = "member" => at' = at + 1 /\ rootfs[Member.path] = Member.content
        /\ UNCHANGED <<db, history>>
    BY <1>5 DEF Compare
  <2>2. pc' = "member" => Placed'
    <3> SUFFICES ASSUME pc' = "member", NEW i \in DOMAIN Members[job], i < at + 1
                 PROVE  rootfs[Members[job][i].path] = Members[job][i].content
      BY <2>1
    <3>1. i \in Nat /\ at \in Nat
      BY <1>a, <2>1, MemberType DEF TypeOK
    <3> QED
      BY <1>a, <2>1, <3>1 DEF Member
  <2> QED
    BY <1>a, <2>1, <2>2
<1>6. CASE RefuseMember
  BY <1>6, <1>a DEF RefuseMember
<1>7. CASE RollBack
  <2>1. /\ pc = "rollback" /\ pc' = "rollback" /\ made # <<>>
        /\ rootfs' = [rootfs EXCEPT ![Last(made)] = None] /\ made' = Front(made)
        /\ UNCHANGED <<probes, db, job, at, todo, kills, errors, history>>
    BY <1>7 DEF RollBack
  <2>2. /\ Last(made) \in Path /\ Last(made) \in Range(made)
        /\ Range(made') \subseteq Range(made)
        /\ Range(made) = Range(made') \cup {Last(made)}
    BY <1>a, <2>1, RangeOfFront
  <2> QED
    BY <1>a, <2>1, <2>2
<1> QED
  BY <1>1, <1>2, <1>3, <1>4, <1>5, <1>6, <1>7

LEMMA UndoableKeepsInv ==
  ASSUME IInv, TypeOK',
         WriteMember \/ MemberWritten \/ WriteFails \/ Probe \/ Compare \/ RefuseMember \/ RollBack
  PROVE  IInv'
<1>1. /\ pc' \in Undoable /\ Traced' /\ (pc' # "rollback" => Placed')
      /\ Range(made)' \subseteq Paths(job)
      /\ UNCHANGED <<before, db, taken, leaving, debris, job>>
  BY UndoableStep
<1>2. pc \in Undoable
  BY DEF WriteMember, MemberWritten, WriteFails, Probe, Compare, RefuseMember, RollBack, Undoable
<1>3. CompleteIn(before)' /\ \A p \in Path : Owned(before, p)'
  BY <1>1, <1>2 DEF IInv, CompleteIn, Owned, db
<1>4. InstalledComplete'
  <2>1. TypeOK' /\ (pc \in Undoable)' /\ Traced' /\ CompleteIn(before)'
        /\ (\A p \in Path : Owned(before, p))' => InstalledComplete'
    BY FromBefore, PTL
  <2> QED
    BY <1>1, <1>3, <2>1
<1> QED
  BY <1>1, <1>3, <1>4 DEF IInv, Undoable, Removing

\* A rollback that has come to its end has left the files as they were.
LEMMA RolledBack ==
  ASSUME IInv, InstallFails
  PROVE  rootfs = before
<1>1. pc = "rollback" /\ made = <<>>
  BY DEF InstallFails
<1>2. Mine = {} /\ Traced
  BY <1>1 DEF Mine, Range, IInv, Undoable
<1>3. rootfs \in [Path -> File] /\ before \in [Path -> File]
  BY DEF IInv, TypeOK
<1> QED
  BY <1>2, <1>3 DEF Traced

LEMMA InstallKeepsInv ==
  ASSUME IInv, TypeOK', (\E a \in Archive : Install(a)) \/ InstallFails
  PROVE  IInv'
<1> USE DEF db, call, history
<1>1. ASSUME NEW a \in Archive, Install(a) PROVE IInv'
  <2>1. /\ pc = "idle" /\ pc' = "member" /\ job' = a /\ at' = 1 /\ made' = <<>>
        /\ before' = rootfs
        /\ UNCHANGED <<rootfs, probes, db, todo, kills, errors, debris, taken, leaving>>
    BY <1>1 DEF Install, Idle
  <2>2. InstalledComplete' /\ CompleteIn(before)'
    BY <2>1 DEF IInv, InstalledComplete, CompleteIn
  <2>3. \A p \in Path : Owned(before, p)'
    BY <2>1 DEF IInv, Owned
  <2>4. Range(made)' = {}
    BY <2>1 DEF Range
  <2>5. Mine' = {}
    BY <2>1, <2>4 DEF Mine
  <2>6. Traced'
    BY <2>1, <2>5 DEF Traced
  <2>7. Placed'
    <3>1. \A i \in DOMAIN Members[a] : ~ (i < 1)
      BY MemberType
    <3> QED
      BY <2>1, <3>1 DEF Placed
  <2> QED
    BY <2>1, <2>2, <2>3, <2>4, <2>6, <2>7 DEF IInv, Undoable, Removing
<1>2. CASE InstallFails
  <2>1. pc = "rollback" /\ pc' = "idle" /\ UNCHANGED <<rootfs, probes, db, call, kills, errors, history>>
    BY <1>2 DEF InstallFails
  <2>2. \A p \in Path : Owned(rootfs, p)
    BY <1>2, <2>1, RolledBack DEF IInv, Undoable
  <2>3. InstalledComplete' /\ \A p \in Path : Owned(rootfs, p)'
    BY <2>1, <2>2 DEF IInv, InstalledComplete, Owned
  <2> QED
    BY <2>1, <2>3 DEF IInv, Undoable
<1> QED
  BY <1>1, <1>2

\* The database gets what is in place; until the list is there, nothing names
\* the files, and what the list had and the archive has not becomes debris.
LEMMA CommitKeepsInv ==
  ASSUME IInv, TypeOK', CommitStatus \/ CommitList \/ CommitFails
  PROVE  IInv'
<1> USE DEF db, call, history
<1>a. job \in Archive /\ PackageName[job] \in Name /\ job # None
  BY PackageNameAssumption DEF CommitStatus, CommitList, CommitFails, IInv, TypeOK, Installing
<1>b. status \in [Name -> Archive \cup {None}] /\ list \in [Name -> SUBSET Path]
  BY DEF IInv, TypeOK
<1>1. CASE CommitStatus
  <2>1. /\ pc = "member" /\ pc' = "commitList" /\ at > Len(Members[job])
        /\ status' = [status EXCEPT ![PackageName[job]] = job]
        /\ leaving' = leaving \ {PackageName[job]}
        /\ UNCHANGED <<rootfs, probes, list, call, kills, errors, before, debris, taken>>
    BY <1>1 DEF CommitStatus
  <2>2. InstalledComplete'
    <3> SUFFICES ASSUME NEW n \in Name, status'[n] # None, NEW i \in DOMAIN Members[status'[n]],
                        Members[status'[n]][i].path \notin taken, n \notin leaving'
                 PROVE  rootfs[Members[status'[n]][i].path] = Members[status'[n]][i].content
      BY <2>1 DEF InstalledComplete
    <3>1. CASE n = PackageName[job]
      <4>1. status'[n] = job
        BY <1>a, <1>b, <2>1, <3>1
      <4>2. i \in 1..Len(Members[job]) /\ Len(Members[job]) \in Nat /\ at \in Nat
        BY <1>a, <2>1, <4>1, MemberType DEF IInv, TypeOK, Installing
      <4>3. Placed /\ i < at
        BY <2>1, <4>2 DEF IInv, Undoable
      <4> QED
        BY <4>1, <4>3 DEF Placed
    <3>2. CASE n # PackageName[job]
      <4>1. status'[n] = status[n] /\ n \notin leaving
        BY <1>b, <2>1, <3>2
      <4> QED
        BY <4>1 DEF IInv, InstalledComplete
    <3> QED
      BY <3>1, <3>2
  <2>3. \A p \in Path \ Mine : Owned(rootfs, p)
    BY <2>1, FromBefore DEF IInv, Undoable
  <2>4. \A p \in Path \ Mine' : Owned(rootfs, p)'
    <3>1. \A n \in Name : status[n] # None => status'[n] # None
      BY <1>a, <1>b, <2>1
    <3>2. Mine' = Mine
      BY <2>1 DEF Mine
    <3> QED
      BY <2>1, <2>3, <3>1, <3>2 DEF Owned
  <2>5. Range(made)' \subseteq Paths(job)
    BY <2>1 DEF IInv, Undoable
  <2>6. status'[PackageName[job]] = job
    BY <1>a, <1>b, <2>1
  <2>7. Traced' /\ Placed'
    <3>1. Traced /\ Placed
      BY <2>1 DEF IInv, Undoable
    <3> QED
      BY <2>1, <3>1 DEF Traced, Placed, Mine
  <2> QED
    BY <2>1, <2>2, <2>4, <2>5, <2>6, <2>7 DEF IInv, Undoable, Removing, Paths
<1>2. CASE CommitList
  <2>1. /\ pc = "commitList" /\ pc' = "idle"
        /\ list' = [list EXCEPT ![PackageName[job]] = Paths(job)]
        /\ debris' = (debris \cup list[PackageName[job]]) \ Paths(job)
        /\ UNCHANGED <<rootfs, probes, status, call, kills, errors, before, taken, leaving>>
    BY <1>2 DEF CommitList
  <2>2. InstalledComplete'
    BY <2>1 DEF IInv, InstalledComplete
  <2>3. ASSUME NEW p \in Path PROVE Owned(rootfs, p)'
    <3>1. CASE p \in Paths(job)
      <4>1. p \in list'[PackageName[job]]
        BY <1>a, <1>b, <2>1, <3>1
      <4>2. status'[PackageName[job]] # None
        BY <1>a, <2>1 DEF IInv
      <4> QED
        BY <1>a, <4>1, <4>2 DEF Owned
    <3>2. CASE p \notin Paths(job)
      <4>1. Owned(rootfs, p)
        BY <2>1, <3>2 DEF IInv, Mine
      <4>2. CASE p \in list[PackageName[job]]
        BY <2>1, <3>2, <4>2 DEF Owned
      <4>3. CASE p \notin list[PackageName[job]]
        <5>1. \A n \in Name : p \in list[n] => p \in list'[n]
          BY <1>b, <2>1, <4>3
        <5> QED
          BY <2>1, <3>2, <4>1, <5>1 DEF Owned
      <4> QED
        BY <4>2, <4>3
    <3> QED
      BY <3>1, <3>2
  <2> QED
    BY <2>1, <2>2, <2>3 DEF IInv, Undoable, Removing
<1>3. CASE CommitFails
  <2>1. /\ (pc = "member" /\ at > Len(Members[job])) \/ pc = "commitList"
        /\ pc' = "idle" /\ debris' = debris \cup Range(made)
        /\ UNCHANGED <<rootfs, probes, db, call, kills, before, taken, leaving>>
    BY <1>3 DEF CommitFails
  <2>2. InstalledComplete'
    BY <2>1 DEF IInv, InstalledComplete
  <2>3. \A p \in Path \ Range(made) : Owned(rootfs, p)
    BY <2>1, FromBefore DEF IInv, Undoable, Mine
  <2>4. \A p \in Path : Owned(rootfs, p)'
    BY <2>1, <2>3 DEF Owned
  <2> QED
    BY <2>1, <2>2, <2>4 DEF IInv, Undoable, Removing
<1> QED
  BY <1>1, <1>2, <1>3

\* What is removed is known to be going, or to be taken from another package.
LEMMA RemovalKeepsInv ==
  ASSUME IInv, TypeOK',
         (\E n \in Name : RemovePackage(n)) \/ RemoveFile \/ DropStatus \/ DropList
  PROVE  IInv'
<1> USE DEF db, call, history
<1>a. /\ status \in [Name -> Archive \cup {None}] /\ list \in [Name -> SUBSET Path]
      /\ rootfs \in [Path -> File] /\ todo \subseteq Path
      /\ pc \in Removing => job \in Name
  BY DEF IInv, TypeOK
<1>1. ASSUME NEW n \in Name, RemovePackage(n) PROVE IInv'
  <2>1. /\ pc = "idle" /\ pc' = "removeFiles" /\ job' = n /\ todo' = list[n]
        /\ leaving' = leaving \cup {n}
        /\ UNCHANGED <<rootfs, probes, db, at, made, kills, errors, debris, taken>>
    BY <1>1 DEF RemovePackage, Idle
  <2>2. InstalledComplete'
    BY <2>1 DEF IInv, InstalledComplete
  <2>3. \A p \in Path : Owned(rootfs, p)'
    BY <2>1 DEF IInv, Owned
  <2> QED
    BY <2>1, <2>2, <2>3 DEF IInv, Undoable, Removing
<1>2. CASE RemoveFile
  <2>1. PICK p \in todo :
          /\ todo' = todo \ {p}
          /\ rootfs' = [rootfs EXCEPT ![p] = None]
          /\ taken' = IF \E n \in Name \ {job} : status[n] # None /\ p \in Paths(status[n])
                      THEN taken \cup {p} ELSE taken
    BY <1>2 DEF RemoveFile
  <2>2. /\ pc = "removeFiles" /\ pc' = "removeFiles" /\ p \in Path
        /\ UNCHANGED <<probes, db, pc, job, at, made, kills, errors, before, debris, leaving>>
    BY <1>2, <1>a DEF RemoveFile
  <2>3. InstalledComplete'
    <3> SUFFICES ASSUME NEW n \in Name, status[n] # None, NEW i \in DOMAIN Members[status[n]],
                        Members[status[n]][i].path \notin taken', n \notin leaving
                 PROVE  rootfs'[Members[status[n]][i].path] = Members[status[n]][i].content
      BY <2>2 DEF InstalledComplete
    <3> DEFINE m == Members[status[n]][i]
    <3>1. m.path \in Path /\ m.path \in Paths(status[n])
      BY <1>a, MemberType
    <3>2. n # job
      BY <2>2 DEF IInv
    <3>3. m.path # p /\ m.path \notin taken
      BY <2>1, <3>1, <3>2
    <3>4. rootfs[m.path] = m.content
      BY <3>3 DEF IInv, InstalledComplete
    <3> QED
      BY <1>a, <2>1, <3>1, <3>3, <3>4
  <2>4. \A q \in Path : Owned(rootfs, q)'
    <3>1. \A q \in Path : rootfs'[q] \in {None, rootfs[q]} /\ Owned(rootfs, q)
      BY <1>a, <2>1, <2>2 DEF IInv, Removing
    <3> QED
      BY <2>2, <3>1 DEF Owned
  <2>5. job \in leaving /\ \A q \in list[job] \ todo' : rootfs'[q] = None
    <3>1. job \in leaving /\ \A q \in list[job] \ todo : rootfs[q] = None
      BY <2>2 DEF IInv
    <3>2. list[job] \subseteq Path
      BY <1>a, <2>2 DEF Removing
    <3> QED
      BY <1>a, <2>1, <2>2, <3>1, <3>2
  <2> QED
    BY <2>2, <2>3, <2>4, <2>5 DEF IInv, Undoable, Removing
<1>3. CASE DropStatus
  <2>1. /\ pc = "removeFiles" /\ todo = {} /\ pc' = "dropList"
        /\ status' = [status EXCEPT ![job] = None]
        /\ leaving' = leaving \ {job}
        /\ UNCHANGED <<rootfs, probes, list, call, kills, errors, before, debris, taken>>
    BY <1>3 DEF DropStatus
  <2>2. job \in Name /\ status'[job] = None
        /\ \A n \in Name \ {job} : status'[n] = status[n]
    BY <1>a, <2>1 DEF Removing
  <2>3. InstalledComplete'
    <3> SUFFICES ASSUME NEW n \in Name, status'[n] # None, NEW i \in DOMAIN Members[status'[n]],
                        Members[status'[n]][i].path \notin taken, n \notin leaving'
                 PROVE  rootfs[Members[status'[n]][i].path] = Members[status'[n]][i].content
      BY <2>1 DEF InstalledComplete
    <3>1. n # job /\ status'[n] = status[n] /\ n \notin leaving
      BY <2>1, <2>2
    <3> QED
      BY <3>1 DEF IInv, InstalledComplete
  <2>4. ASSUME NEW p \in Path PROVE Owned(rootfs, p)'
    <3>1. Owned(rootfs, p)
      BY <2>1 DEF IInv, Removing
    <3>2. p \in list[job] => rootfs[p] = None
      BY <2>1 DEF IInv
    <3> QED
      BY <2>1, <2>2, <3>1, <3>2 DEF Owned
  <2> QED
    BY <2>1, <2>2, <2>3, <2>4 DEF IInv, Undoable, Removing
<1>4. CASE DropList
  <2>1. /\ pc = "dropList" /\ pc' = "idle" /\ list' = [list EXCEPT ![job] = {}]
        /\ UNCHANGED <<rootfs, probes, status, call, kills, errors, history>>
    BY <1>4 DEF DropList
  <2>2. job \in Name /\ status[job] = None /\ \A n \in Name \ {job} : list'[n] = list[n]
    BY <1>a, <2>1 DEF IInv, Removing
  <2>3. InstalledComplete'
    BY <2>1 DEF IInv, InstalledComplete
  <2>4. \A p \in Path : Owned(rootfs, p)'
    <3>1. \A p \in Path : Owned(rootfs, p)
      BY <2>1 DEF IInv, Removing
    <3> QED
      BY <2>1, <2>2, <3>1 DEF Owned
  <2> QED
    BY <2>1, <2>3, <2>4 DEF IInv, Undoable, Removing
<1> QED
  BY <1>1, <1>2, <1>3, <1>4

\* What a kill leaves over is known as debris.
LEMMA KillKeepsInv ==
  ASSUME IInv, TypeOK', Kill
  PROVE  IInv'
<1> USE DEF db, call, history
<1>1. /\ pc # "idle" /\ pc' = "idle"
      /\ debris' = CASE pc = "written" -> debris \cup Range(made) \cup {Member.path}
                     [] pc \in Installing \ {"written"} -> debris \cup Range(made)
                     [] OTHER -> debris
      /\ UNCHANGED <<rootfs, probes, db, call, errors, before, taken, leaving>>
  BY DEF Kill, Idle
<1>2. InstalledComplete'
  BY <1>1 DEF IInv, InstalledComplete
<1>3. debris \subseteq debris'
  BY <1>1
<1>4. ASSUME NEW p \in Path PROVE p \in debris' \/ Owned(rootfs, p)
  <2>1. CASE pc \in Undoable
    <3>1. Mine \subseteq debris'
      BY <1>1, <2>1 DEF Mine, Undoable, Installing
    <3>2. p \in Mine \/ Owned(rootfs, p)
      BY <2>1, FromBefore DEF IInv
    <3> QED
      BY <3>1, <3>2
  <2>2. CASE pc = "commitList"
    <3>1. p \in Mine => p \in debris'
      BY <1>1, <2>2 DEF Mine, Installing
    <3> QED
      BY <2>2, <3>1 DEF IInv
  <2>3. CASE pc \in Removing
    BY <2>3 DEF IInv
  <2> QED
    BY <1>1, <2>1, <2>2, <2>3 DEF IInv, TypeOK, Installing, Undoable
<1>5. \A p \in Path : Owned(rootfs, p)'
  BY <1>1, <1>3, <1>4 DEF Owned
<1> QED
  BY <1>1, <1>2, <1>5 DEF IInv, Undoable, Removing

LEMMA Inductive == Spec => []IInv
<1>1. Init => IInv
  <2> SUFFICES ASSUME Init PROVE IInv
    OBVIOUS
  <2>1. InstalledComplete /\ \A p \in Path : Owned(rootfs, p)
    BY DEF Init, InstalledComplete, Owned
  <2> QED
    BY <2>1, InitTypes DEF Init, IInv, Undoable
<1>2. IInv /\ [Next]_vars => IInv'
  <2> SUFFICES ASSUME IInv, [Next]_vars PROVE IInv'
    OBVIOUS
  <2>1. TypeOK'
    BY StepTypes DEF IInv
  <2>2. CASE UNCHANGED vars
    BY <2>1, <2>2 DEF vars, db, call, history, IInv, InstalledComplete, Traced, Placed, Mine,
                      Member, CompleteIn, Owned, Paths
  <2> QED
    BY <2>1, <2>2, UndoableKeepsInv, InstallKeepsInv, CommitKeepsInv, RemovalKeepsInv,
       KillKeepsInv DEF Next
<1> QED
  BY <1>1, <1>2, PTL DEF Spec

\* No rollback, later install or kill takes or changes a file of an installed
\* package: only a removal does, of the package or of one with the same file.
THEOREM InstalledStaysComplete == Spec => []InstalledComplete
<1>1. IInv => InstalledComplete
  BY DEF IInv
<1> QED
  BY <1>1, Inductive, PTL

\* Between calls every file was there from the start, is in the list of an
\* installed package, or was left over by an upgrade, a kill or a database
\* entry that failed, and not taken over by an install since.
THEOREM EveryFileHasOwner == Spec => []FilesHaveOwners
<1>1. IInv => FilesHaveOwners
  BY DEF IInv, FilesHaveOwners, Owned, Idle
<1> QED
  BY <1>1, Inductive, PTL

\* An install that fails at a member, whichever and for whatever reason,
\* leaves every file as it was; one that fails at the database leaves every
\* member in place and every other file as it was.
THEOREM FailureIsNothingOrAll == Spec => FailedInstallIsNothingOrAll
<1>1. ASSUME IInv, CommitFails
      PROVE  /\ \A i \in DOMAIN Members[job] :
                  rootfs[Members[job][i].path] = Members[job][i].content
             /\ \A p \in Path \ Paths(job) : rootfs[p] = before[p]
  <2>1. pc \in {"member", "commitList"} /\ at > Len(Members[job])
    BY <1>1 DEF CommitFails, IInv
  <2>2. Traced /\ Placed /\ Mine \subseteq Paths(job)
    BY <1>1, <2>1 DEF IInv, Undoable, Mine
  <2>3. job \in Archive /\ at \in Nat
    BY <1>1, <2>1, MembersAssumption DEF IInv, TypeOK, Installing
  <2>4. \A i \in DOMAIN Members[job] : i < at
    BY <2>1, <2>3, MemberType
  <2> QED
    BY <2>2, <2>4 DEF Traced, Placed
<1> DEFINE A == /\ InstallFails => rootfs = before
                /\ CommitFails =>
                     /\ \A i \in DOMAIN Members[job] :
                          rootfs[Members[job][i].path] = Members[job][i].content
                     /\ \A p \in Path \ Paths(job) : rootfs[p] = before[p]
<1>2. IInv /\ [Next]_vars => [A]_vars
  BY <1>1, RolledBack
<1> QED
  BY <1>2, Inductive, PTL DEF Spec, FailedInstallIsNothingOrAll

-----------------------------------------------------------------------------
(* The archive file, ReadBack.                                             *)

MemberName == {ReadBack!Names[i] : i \in 1..3}
Cell ==
  [is : {"magic", "padding"}] \cup [is : {"header"}, name : MemberName, size : Nat, at : Nat]
    \cup [is : {"payload"}, name : MemberName, at : Nat]

\* Where the members of the file that is meant begin, and where it ends.
Size(i) == HeaderSize + written[i] + (written[i] % 2)
Start(i) ==
  IF i = 1 THEN 1
  ELSE IF i = 2 THEN 1 + Size(1)
  ELSE IF i = 3 THEN 1 + Size(1) + Size(2)
  ELSE 1 + Size(1) + Size(2) + Size(3)

LEMMA Joined ==
  ASSUME NEW s \in Seq(Cell), NEW t \in Seq(Cell)
  PROVE  /\ s \o t \in Seq(Cell) /\ Len(s \o t) = Len(s) + Len(t)
         /\ \A k \in 1..Len(s) : (s \o t)[k] = s[k]
         /\ \A k \in 1..Len(t) : (s \o t)[Len(s) + k] = t[k]
OBVIOUS

\* A whole member is a header, what it is for, and at most one cell more.
LEMMA MemberCells ==
  ASSUME NEW name \in MemberName, NEW size \in Nat
  PROVE  LET m == ReadBack!Member(name, size)
         IN  /\ m \in Seq(Cell) /\ Len(m) = HeaderSize + size + (size % 2)
             /\ m[1].is = "header" /\ m[1].name = name /\ m[1].size = size
             /\ \A j \in 1..size : m[HeaderSize + j] = ReadBack!Payload(name, size)[j]
<1> DEFINE h == ReadBack!Header(name, size)
           p == ReadBack!Payload(name, size)
           d == ReadBack!Padding(size)
<1>1. HeaderSize \in Nat \ {0} /\ (size % 2) \in {0, 1}
  BY ArchiveAssumption DEF ReadBack!ArchiveAssumption
<1>2. /\ h \in Seq(Cell) /\ Len(h) = HeaderSize /\ h[1].is = "header" /\ h[1].name = name
      /\ h[1].size = size
  BY <1>1 DEF ReadBack!Header, Cell
<1>3. p \in Seq(Cell) /\ Len(p) = size
  BY DEF ReadBack!Payload, Cell
<1>4. d \in Seq(Cell) /\ Len(d) = (size % 2)
  BY <1>1 DEF ReadBack!Padding, Cell
<1>5. ReadBack!Member(name, size) = (h \o p) \o d
  BY DEF ReadBack!Member
<1> HIDE DEF h, p, d
<1>6. /\ h \o p \in Seq(Cell) /\ Len(h \o p) = HeaderSize + size
      /\ (h \o p)[1] = h[1] /\ \A j \in 1..size : (h \o p)[HeaderSize + j] = p[j]
  BY <1>1, <1>2, <1>3
<1>7. /\ (h \o p) \o d \in Seq(Cell) /\ Len((h \o p) \o d) = HeaderSize + size + (size % 2)
      /\ \A j \in 1..HeaderSize + size : ((h \o p) \o d)[j] = (h \o p)[j]
  BY <1>1, <1>4, <1>6
<1>8. 1 \in 1..HeaderSize + size /\ \A j \in 1..size : HeaderSize + j \in 1..HeaderSize + size
  BY <1>1
<1>9. ((h \o p) \o d)[1] = h[1] /\ \A j \in 1..size : ((h \o p) \o d)[HeaderSize + j] = p[j]
  BY <1>6, <1>7, <1>8
<1> QED
  BY <1>2, <1>5, <1>7, <1>9 DEF p

\* The whole file, member by member.
LEMMA ImageCells ==
  ASSUME written \in [1..3 -> Sizes]
  PROVE  /\ ReadBack!Image \in Seq(Cell) /\ Len(ReadBack!Image) = Start(4)
         /\ \A i \in 1..3 :
              /\ Start(i) \in Nat /\ Start(i + 1) \in Nat /\ Start(i + 1) = Start(i) + Size(i)
              /\ written[i] \in Nat /\ Start(i + 1) <= Start(4)
              /\ ReadBack!Image[Start(i) + 1].is = "header"
              /\ ReadBack!Image[Start(i) + 1].name = ReadBack!Names[i]
              /\ ReadBack!Image[Start(i) + 1].size = written[i]
              /\ \A j \in 1..written[i] :
                   ReadBack!Image[Start(i) + HeaderSize + j]
                     = ReadBack!Payload(ReadBack!Names[i], written[i])[j]
<1> DEFINE m(i) == ReadBack!Member(ReadBack!Names[i], written[i])
           a == ReadBack!Magic \o m(1)
           b == a \o m(2)
<1>1. /\ HeaderSize \in Nat \ {0}
      /\ \A i \in 1..3 : written[i] \in Nat /\ ReadBack!Names[i] \in MemberName
      /\ \A i \in 1..3 : Size(i) \in Nat \ {0}
  <2>1. HeaderSize \in Nat \ {0} /\ \A i \in 1..3 : written[i] \in Nat
    BY ArchiveAssumption DEF ReadBack!ArchiveAssumption
  <2>2. \A i \in 1..3 : (written[i] % 2) \in Nat
    BY <2>1
  <2>3. \A i \in 1..3 : Size(i) \in Nat \ {0}
    BY <2>1, <2>2 DEF Size
  <2> QED
    BY <2>1, <2>3 DEF MemberName
<1>2. ReadBack!Magic \in Seq(Cell) /\ Len(ReadBack!Magic) = 1
  BY DEF ReadBack!Magic, Cell
<1>3. ASSUME NEW i \in 1..3
      PROVE  /\ m(i) \in Seq(Cell) /\ Len(m(i)) = Size(i) /\ m(i)[1].is = "header"
             /\ m(i)[1].name = ReadBack!Names[i] /\ m(i)[1].size = written[i]
             /\ \A j \in 1..written[i] :
                  m(i)[HeaderSize + j] = ReadBack!Payload(ReadBack!Names[i], written[i])[j]
  <2>1. written[i] \in Nat /\ ReadBack!Names[i] \in MemberName
    BY <1>1
  <2> QED
    BY <2>1, MemberCells DEF Size
<1>4. ReadBack!Image = b \o m(3)
  BY DEF ReadBack!Image
<1> HIDE DEF m
<1>5. /\ m(1) \in Seq(Cell) /\ Len(m(1)) = Size(1) /\ m(2) \in Seq(Cell) /\ Len(m(2)) = Size(2)
      /\ m(3) \in Seq(Cell) /\ Len(m(3)) = Size(3)
      /\ Size(1) \in Nat \ {0} /\ Size(2) \in Nat \ {0} /\ Size(3) \in Nat \ {0}
      /\ Start(1) = 1 /\ Start(2) = 1 + Size(1) /\ Start(3) = 1 + Size(1) + Size(2)
      /\ Start(4) = 1 + Size(1) + Size(2) + Size(3)
  BY <1>1, <1>3 DEF Start
<1>6. /\ a \in Seq(Cell) /\ Len(a) = Start(2)
      /\ \A k \in 1..Size(1) : a[Start(1) + k] = m(1)[k]
  <2> HIDE DEF a
  <2>1. /\ a \in Seq(Cell) /\ Len(a) = Len(ReadBack!Magic) + Len(m(1))
        /\ \A k \in 1..Len(m(1)) : a[Len(ReadBack!Magic) + k] = m(1)[k]
    BY <1>2, <1>5, Joined, Zenon DEF a
  <2> QED
    BY <1>2, <1>5, <2>1
<1> HIDE DEF a
<1>7. /\ b \in Seq(Cell) /\ Len(b) = Start(3)
      /\ \A k \in 1..Len(a) : b[k] = a[k]
      /\ \A k \in 1..Size(2) : b[Start(2) + k] = m(2)[k]
  <2> HIDE DEF b
  <2>1. /\ b \in Seq(Cell) /\ Len(b) = Len(a) + Len(m(2))
        /\ \A k \in 1..Len(a) : b[k] = a[k]
        /\ \A k \in 1..Len(m(2)) : b[Len(a) + k] = m(2)[k]
    BY <1>5, <1>6, Joined, Zenon DEF b
  <2> QED
    BY <1>5, <1>6, <2>1
<1> HIDE DEF b
<1>8. /\ ReadBack!Image \in Seq(Cell) /\ Len(ReadBack!Image) = Start(4)
      /\ \A k \in 1..Len(b) : ReadBack!Image[k] = b[k]
      /\ \A k \in 1..Size(3) : ReadBack!Image[Start(3) + k] = m(3)[k]
  <2> DEFINE c == b \o m(3)
  <2> HIDE DEF c
  <2>1. /\ c \in Seq(Cell) /\ Len(c) = Len(b) + Len(m(3))
        /\ \A k \in 1..Len(b) : c[k] = b[k]
        /\ \A k \in 1..Len(m(3)) : c[Len(b) + k] = m(3)[k]
    BY <1>5, <1>7, Joined, Zenon DEF c
  <2>2. ReadBack!Image = c
    BY <1>4 DEF c
  <2>3. Len(c) = Start(4)
    BY <1>5, <1>7, <2>1
  <2> QED
    BY <1>5, <1>7, <2>1, <2>2, <2>3
<1>9. \A i \in 1..3 : /\ Start(i) \in Nat /\ Start(i + 1) \in Nat
                      /\ Start(i + 1) = Start(i) + Size(i) /\ Start(i + 1) <= Start(4)
  BY <1>5
<1>10. \A i \in 1..3 : \A k \in 1..Size(i) : ReadBack!Image[Start(i) + k] = m(i)[k]
  <2>1. \A k \in 1..Size(1) : Start(1) + k \in 1..Len(a) /\ Start(1) + k \in 1..Len(b)
    <3>1. /\ Start(1) = 1 /\ Len(a) = 1 + Size(1) /\ Len(b) = 1 + Size(1) + Size(2)
          /\ Size(1) \in Nat /\ Size(2) \in Nat
      BY <1>5, <1>6, <1>7
    <3> QED
      BY <3>1
  <2>2. \A k \in 1..Size(2) : Start(2) + k \in 1..Len(b)
    BY <1>5, <1>7
  <2>3. \A k \in 1..Size(1) : ReadBack!Image[Start(1) + k] = m(1)[k]
    BY <1>6, <1>7, <1>8, <2>1
  <2>4. \A k \in 1..Size(2) : ReadBack!Image[Start(2) + k] = m(2)[k]
    BY <1>7, <1>8, <2>2
  <2> QED
    BY <1>8, <2>3, <2>4
<1>11. ASSUME NEW i \in 1..3
       PROVE  1 \in 1..Size(i) /\ \A j \in 1..written[i] : HeaderSize + j \in 1..Size(i)
  <2>1. written[i] \in Nat /\ (written[i] % 2) \in Nat
    BY <1>1
  <2> QED
    BY <1>1, <2>1 DEF Size
<1>12. ASSUME NEW i \in 1..3, NEW j \in 1..written[i]
       PROVE  ReadBack!Image[Start(i) + HeaderSize + j]
                = ReadBack!Payload(ReadBack!Names[i], written[i])[j]
  <2>1. Start(i) + HeaderSize + j = Start(i) + (HeaderSize + j)
    BY <1>1, <1>9
  <2> QED
    BY <1>3, <1>10, <1>11, <2>1
<1>13. ASSUME NEW i \in 1..3
       PROVE  /\ ReadBack!Image[Start(i) + 1].is = "header"
              /\ ReadBack!Image[Start(i) + 1].name = ReadBack!Names[i]
              /\ ReadBack!Image[Start(i) + 1].size = written[i]
  <2>1. ReadBack!Image[Start(i) + 1] = m(i)[1]
    BY <1>10, <1>11
  <2> QED
    BY <1>3, <2>1
<1> QED
  BY <1>1, <1>8, <1>9, <1>12, <1>13

\* The reader has read n members, or there is nothing more to read.
HasRead(n) ==
  /\ offset = Start(n + 1) /\ offset <= Len(file) + 1
  /\ DOMAIN members = {ReadBack!Names[i] : i \in 1..n}
  /\ \A i \in 1..n :
       members[ReadBack!Names[i]] = ReadBack!Payload(ReadBack!Names[i], written[i])

ArchiveInv ==
  /\ written \in [1..3 -> Sizes]
  /\ file \in Seq(Cell) /\ Len(file) <= Len(ReadBack!Image)
  /\ \A k \in 1..Len(file) : file[k] = ReadBack!Image[k]
  /\ result \in {"writing", "reading", "refused", "read"}
  /\ offset \in Nat
  /\ result = "writing" => offset = 0 /\ members = [n \in {} |-> <<>>]
  /\ result = "reading" => \E n \in 0..3 : HasRead(n)
  /\ result = "read" => HasRead(3)
  /\ result = "refused" =>
       /\ Len(file) < Len(ReadBack!Image) /\ offset <= Len(file) + 1
       /\ DOMAIN members \subseteq MemberName

LEMMA ImageKept ==
  ASSUME written' = written
  PROVE  ReadBack!Image' = ReadBack!Image /\ \A i \in 1..4 : Start(i)' = Start(i)
BY DEF ReadBack!Image, Start, Size

LEMMA NamesDiffer ==
  /\ \A i \in 1..3, j \in 1..3 : ReadBack!Names[i] = ReadBack!Names[j] => i = j
  /\ \A n \in 0..3 : {ReadBack!Names[i] : i \in 1..n} \subseteq MemberName
BY DEF ReadBack!Names, MemberName

LEMMA WriteStep ==
  ASSUME ArchiveInv, ReadBack!Write
  PROVE  ArchiveInv'
<1> DEFINE cell == ReadBack!Image[Len(file) + 1]
<1>1. /\ UNCHANGED <<written, offset, members, result>> /\ result = "writing"
      /\ Len(file) < Len(ReadBack!Image) /\ file' = Append(file, cell)
  BY DEF ReadBack!Write
<1>2. ReadBack!Image \in Seq(Cell) /\ Len(file) \in Nat /\ Len(ReadBack!Image) \in Nat
  BY ImageCells DEF ArchiveInv
<1>3. cell \in Cell
  BY <1>1, <1>2
<1>4. /\ file' \in Seq(Cell) /\ Len(file') = Len(file) + 1
      /\ \A k \in 1..Len(file) : file'[k] = file[k]
      /\ file'[Len(file) + 1] = cell
  <2>1. file \in Seq(Cell)
    BY DEF ArchiveInv
  <2> HIDE DEF cell
  <2> QED
    BY <1>1, <1>3, <2>1
<1>5. \A k \in 1..Len(file') : file'[k] = ReadBack!Image[k]
  <2>1. \A k \in 1..Len(file') : k \in 1..Len(file) \/ k = Len(file) + 1
    BY <1>2, <1>4
  <2>2. \A k \in 1..Len(file) : file[k] = ReadBack!Image[k]
    BY DEF ArchiveInv
  <2> QED
    BY <1>4, <2>1, <2>2
<1> QED
  BY <1>1, <1>2, <1>4, <1>5, ImageKept DEF ArchiveInv

LEMMA OpenStep ==
  ASSUME ArchiveInv, ReadBack!Open
  PROVE  ArchiveInv'
<1>1. UNCHANGED <<written, file, members>> /\ result = "writing" /\ Len(ReadBack!Magic) = 1
      /\ offset = 0 /\ DOMAIN members = {}
  BY DEF ReadBack!Open, ReadBack!Magic, ArchiveInv
<1>2. ReadBack!Image' = ReadBack!Image /\ Len(file) \in Nat
      /\ Len(ReadBack!Image) \in Nat \ {0} /\ Start(1) = 1
  <2>1. Len(ReadBack!Image) = Start(4) /\ Start(2) \in Nat /\ Start(2) <= Start(4)
    <3>1. 1 \in 1..3 /\ 3 \in 1..3 /\ 1 + 1 = 2 /\ 3 + 1 = 4
      OBVIOUS
    <3> QED
      BY <3>1, ImageCells DEF ArchiveInv
  <2>2. Start(1) = 1 /\ Start(2) = 1 + Size(1) /\ Size(1) \in Nat
    <3>1. written[1] \in Nat /\ HeaderSize \in Nat
      <4>1. written[1] \in Sizes
        BY DEF ArchiveInv
      <4> QED
        BY <4>1, ArchiveAssumption DEF ReadBack!ArchiveAssumption
    <3>2. (written[1] % 2) \in Nat
      BY <3>1
    <3> QED
      BY <3>1, <3>2 DEF Size, Start
  <2>3. Start(4) \in Nat
    BY <2>1, ImageCells DEF ArchiveInv
  <2> QED
    BY <1>1, <2>1, <2>2, <2>3, ImageKept DEF ArchiveInv
<1>3. CASE Len(file) < 1
  <2>1. result' = "refused" /\ offset' = offset
    BY <1>1, <1>3 DEF ReadBack!Open
  <2> QED
    BY <1>1, <1>2, <1>3, <2>1 DEF ArchiveInv
<1>4. CASE ~ (Len(file) < 1)
  <2>1. result' = "reading" /\ offset' = 1
    BY <1>1, <1>4 DEF ReadBack!Open
  <2>2. HasRead(0)'
    <3>1. Start(1)' = 1
      BY DEF Start
    <3>2. {ReadBack!Names[i] : i \in 1..0} = {} /\ 1..0 = {}
      OBVIOUS
    <3> QED
      BY <1>1, <1>2, <1>4, <2>1, <3>1, <3>2 DEF HasRead
  <2> QED
    BY <1>1, <1>2, <2>1, <2>2 DEF ArchiveInv
<1> QED
  BY <1>3, <1>4

LEMMA ReadMemberStep ==
  ASSUME ArchiveInv, ReadBack!ReadMember
  PROVE  ArchiveInv'
<1> DEFINE head == file[offset + 1]
           from == offset + HeaderSize
<1>1. /\ UNCHANGED <<written, file>> /\ result = "reading" /\ offset < Len(file)
      /\ written \in [1..3 -> Sizes] /\ Len(file) \in Nat /\ offset \in Nat
      /\ Len(file) <= Len(ReadBack!Image) /\ HeaderSize \in Nat \ {0}
  BY ArchiveAssumption DEF ReadBack!ReadMember, ArchiveInv, ReadBack!ArchiveAssumption
<1>2. PICK n \in 0..3 : HasRead(n)
  BY <1>1 DEF ArchiveInv
<1>3. Len(ReadBack!Image) = Start(4) /\ Start(4) \in Nat
  BY <1>1, ImageCells
<1>4. n # 3
  BY <1>1, <1>2, <1>3 DEF HasRead
<1> DEFINE i == n + 1
           size == written[i]
<1>5. i \in 1..3 /\ i \in Nat
  BY <1>4
<1>6. /\ offset = Start(i) /\ size \in Nat /\ Start(i + 1) = Start(i) + Size(i)
      /\ Start(i + 1) <= Start(4) /\ Start(i + 1) \in Nat
      /\ ReadBack!Image[offset + 1].is = "header"
      /\ ReadBack!Image[offset + 1].name = ReadBack!Names[i]
      /\ ReadBack!Image[offset + 1].size = size
      /\ \A j \in 1..size : ReadBack!Image[from + j]
                              = ReadBack!Payload(ReadBack!Names[i], size)[j]
  BY <1>1, <1>2, <1>5, ImageCells DEF HasRead
<1>7. head.is = "header" /\ head.name = ReadBack!Names[i] /\ head.size = size
  <2>1. offset + 1 \in 1..Len(file)
    BY <1>1
  <2>2. file[offset + 1] = ReadBack!Image[offset + 1]
    BY <2>1 DEF ArchiveInv
  <2> QED
    BY <1>6, <2>2
<1> HIDE DEF head
<1>8. Start(i + 1) = from + size + (size % 2) /\ (size % 2) \in {0, 1}
  <2>1. Size(i) = HeaderSize + size + (size % 2)
    BY DEF Size
  <2>2. size \in Nat /\ offset \in Nat /\ HeaderSize \in Nat /\ Start(i + 1) = offset + Size(i)
    BY <1>1, <1>6
  <2> HIDE DEF size
  <2>3. (size % 2) \in {0, 1}
    BY <2>2
  <2> QED
    BY <2>1, <2>2, <2>3
<1>9. CASE from > Len(file) \/ from + size > Len(file)
  <2>1. result' = "refused" /\ UNCHANGED <<offset, members>>
    BY <1>7, <1>9 DEF ReadBack!ReadMember, head
  <2>2. Len(file) < Len(ReadBack!Image)
    <3>1. from \in Nat /\ size \in Nat
      BY <1>1, <1>6
    <3> HIDE DEF size, from
    <3>2. Start(i + 1) >= from /\ Start(i + 1) >= from + size
      BY <1>8, <3>1
    <3> QED
      BY <1>1, <1>3, <1>6, <1>9, <3>1, <3>2
  <2> QED
    BY <1>1, <1>2, <2>1, <2>2, ImageKept, NamesDiffer DEF ArchiveInv, HasRead
<1>10. CASE ~ (from > Len(file) \/ from + size > Len(file))
  <2> DEFINE payload == SubSeq(file, from + 1, from + size)
  <2>1. /\ result' = result /\ offset' = Start(i + 1)
        /\ members' = [m \in DOMAIN members \cup {ReadBack!Names[i]} |->
                         IF m = ReadBack!Names[i] THEN payload ELSE members[m]]
    BY <1>7, <1>8, <1>10 DEF ReadBack!ReadMember, ReadBack!Keep, head
  <2>2. payload = ReadBack!Payload(ReadBack!Names[i], size)
    <3>1. file \in Seq(Cell) /\ from + 1 \in 1..Len(file) + 1 /\ from + size \in 0..Len(file)
      <4>1. from \in Nat /\ size \in Nat /\ file \in Seq(Cell)
        BY <1>1, <1>6 DEF ArchiveInv
      <4> HIDE DEF from, size
      <4> QED
        BY <1>1, <1>10, <4>1
    <3> DEFINE want == ReadBack!Payload(ReadBack!Names[i], size)
    <3>2. from + 1 \in Int /\ from + size \in Int /\ size \in Nat /\ from \in Nat
          /\ (from + size) - (from + 1) + 1 = size
      BY <1>1, <1>6
    <3>3. payload = [j \in 1..size |-> file[(from + 1) + j - 1]]
      <4> DEFINE first == from + 1
                 last == from + size
      <4>1. /\ payload \in Seq(Cell) /\ Len(payload) = size
            /\ \A j \in 1..size : payload[j] = file[first + j - 1]
        <5>1. first \in 1..Len(file) + 1 /\ last \in first - 1..Len(file) /\ last - first + 1 = size
              /\ Len(file) \in Nat /\ first \in Nat /\ last \in Nat
          BY <1>1, <3>1, <3>2
        <5> HIDE DEF first, last, size
        <5>2. /\ SubSeq(file, first, last) \in Seq(Cell)
              /\ Len(SubSeq(file, first, last)) = size
              /\ \A j \in 1..size : SubSeq(file, first, last)[j] = file[first + j - 1]
          BY <3>1, <5>1
        <5> QED
          BY <5>2 DEF first, last
      <4> HIDE DEF payload, first
      <4>2. payload = [j \in 1..size |-> payload[j]]
        BY <4>1
      <4> QED
        BY <4>1, <4>2 DEF first
    <3>4. ASSUME NEW j \in 1..size
          PROVE  file[(from + 1) + j - 1] = want[j]
      <4>1. from + j \in 1..Len(file) /\ (from + 1) + j - 1 = from + j
        <5> HIDE DEF from, size
        <5> QED
          BY <1>1, <1>10, <3>1, <3>2
      <4>2. file[from + j] = ReadBack!Image[from + j]
        BY <4>1 DEF ArchiveInv
      <4> QED
        BY <1>6, <4>1, <4>2
    <3>5. want = [j \in 1..size |-> want[j]]
      BY DEF ReadBack!Payload
    <3> HIDE DEF want
    <3>6. [j \in 1..size |-> file[(from + 1) + j - 1]] = [j \in 1..size |-> want[j]]
      BY <3>4
    <3> QED
      BY <3>3, <3>5, <3>6 DEF want
  <2>3. HasRead(i)'
    <3>1. {ReadBack!Names[m] : m \in 1..i} = {ReadBack!Names[m] : m \in 1..n} \cup {ReadBack!Names[i]}
      BY <1>5
    <3>2. \A m \in 1..n : ReadBack!Names[m] # ReadBack!Names[i]
      BY <1>5, NamesDiffer
    <3>3. DOMAIN members' = {ReadBack!Names[m] : m \in 1..i}
      BY <1>2, <2>1, <3>1 DEF HasRead
    <3>4. ASSUME NEW m \in 1..i
          PROVE  members'[ReadBack!Names[m]]
                   = ReadBack!Payload(ReadBack!Names[m], written[m])
      <4>1. CASE m = i
        BY <2>1, <2>2, <4>1
      <4>2. CASE m # i
        <5>1. m \in 1..n
          BY <1>5, <4>2
        <5> QED
          BY <1>2, <2>1, <3>2, <5>1 DEF HasRead
      <4> QED
        BY <4>1, <4>2
    <3>5. offset' = Start(i + 1)' /\ offset' <= Len(file') + 1
      <4>1. Start(i + 1)' = Start(i + 1)
        BY <1>1, <1>4, ImageKept
      <4>2. from + size <= Len(file) /\ from + size \in Nat
        <5>1. from \in Nat /\ size \in Nat
          BY <1>1, <1>6
        <5> HIDE DEF from, size
        <5> QED
          BY <1>1, <1>10, <5>1
      <4> HIDE DEF from, size
      <4>3. from + size + (size % 2) <= Len(file) + 1
        BY <1>1, <1>8, <4>2
      <4> QED
        BY <1>1, <1>8, <2>1, <4>1, <4>3
    <3> QED
      BY <1>1, <3>3, <3>4, <3>5 DEF HasRead
  <2> QED
    BY <1>1, <1>5, <1>6, <2>1, <2>3, ImageKept DEF ArchiveInv
<1> QED
  BY <1>9, <1>10

LEMMA AcceptStep ==
  ASSUME ArchiveInv, ReadBack!Accept
  PROVE  ArchiveInv'
<1>1. /\ UNCHANGED <<written, file, offset, members>> /\ result = "reading"
      /\ offset >= Len(file) /\ written \in [1..3 -> Sizes] /\ Len(file) \in Nat /\ offset \in Nat
  BY DEF ReadBack!Accept, ArchiveInv
<1>2. PICK n \in 0..3 : HasRead(n)
  BY <1>1 DEF ArchiveInv
<1>3. \A i \in 1..4 : HasRead(i - 1)' <=> HasRead(i - 1)
  BY <1>1, ImageKept DEF HasRead
<1>4. CASE n = 3
  <2>1. result' = "read"
    BY <1>2, <1>4 DEF ReadBack!Accept, HasRead
  <2>2. HasRead(3)'
    BY <1>2, <1>3, <1>4
  <2> QED
    BY <1>1, <2>1, <2>2, ImageKept DEF ArchiveInv
<1>5. CASE n # 3
  <2>1. n + 1 \in 1..3 /\ n \in Nat
    BY <1>5
  <2>2. ReadBack!Names[n + 1] \notin DOMAIN members
    BY <1>2, <2>1, NamesDiffer DEF HasRead
  <2>3. result' = "refused"
    BY <2>1, <2>2 DEF ReadBack!Accept
  <2>4. Len(file) < Len(ReadBack!Image)
    <3>1. /\ offset = Start(n + 1) /\ Start(n + 2) = Start(n + 1) + Size(n + 1)
          /\ Start(n + 2) <= Start(4) /\ Start(n + 2) \in Nat /\ Start(4) \in Nat
          /\ written[n + 1] \in Nat
      <4>1. (n + 1) + 1 = n + 2
        BY <2>1
      <4>2. Start(4) \in Nat
        BY <1>1, ImageCells
      <4> QED
        BY <1>1, <1>2, <2>1, <4>1, <4>2, ImageCells DEF HasRead
    <3>2. Size(n + 1) \in Nat \ {0}
      <4>1. (written[n + 1] % 2) \in Nat /\ HeaderSize \in Nat \ {0}
        BY <3>1, ArchiveAssumption DEF ReadBack!ArchiveAssumption
      <4> QED
        BY <3>1, <4>1 DEF Size
    <3>3. Len(ReadBack!Image) = Start(4) /\ Start(n + 1) \in Nat
      BY <1>1, <2>1, ImageCells
    <3> QED
      BY <1>1, <3>1, <3>2, <3>3
  <2>5. DOMAIN members \subseteq MemberName /\ offset <= Len(file) + 1
    BY <1>2, NamesDiffer DEF HasRead
  <2> QED
    BY <1>1, <2>3, <2>4, <2>5, ImageKept DEF ArchiveInv
<1> QED
  BY <1>4, <1>5

LEMMA ArchiveInvariant == ReadBack!Spec => []ArchiveInv
<1>1. ReadBack!Init => ArchiveInv
  <2> SUFFICES ASSUME ReadBack!Init PROVE ArchiveInv
    OBVIOUS
  <2>1. ReadBack!Image \in Seq(Cell)
    BY ImageCells DEF ReadBack!Init
  <2> QED
    BY <2>1 DEF ReadBack!Init, ArchiveInv
<1>2. ASSUME ArchiveInv, [ReadBack!Next]_(ReadBack!vars) PROVE ArchiveInv'
  <2>1. CASE UNCHANGED ReadBack!vars
    <3>1. UNCHANGED <<written, file, offset, members, result>>
      BY <2>1 DEF ReadBack!vars
    <3>2. \A i \in 1..4 : HasRead(i - 1)' <=> HasRead(i - 1)
      BY <3>1, ImageKept DEF HasRead
    <3>3. \A n \in 0..3 : HasRead(n)' <=> HasRead(n)
      <4>1. \A n \in 0..3 : n + 1 \in 1..4 /\ n = (n + 1) - 1
        OBVIOUS
      <4> QED
        BY <3>2, <4>1
    <3> QED
      BY <1>2, <3>1, <3>3, ImageKept DEF ArchiveInv
  <2> QED
    BY <1>2, <2>1, WriteStep, OpenStep, ReadMemberStep, AcceptStep
       DEF ReadBack!Next, ReadBack!Done
<1> QED
  BY <1>1, <1>2, PTL DEF ReadBack!Spec

THEOREM ArchiveTypeCorrect == ReadBack!Spec => []ReadBack!TypeOK
<1>1. ArchiveInv => ReadBack!TypeOK
  <2> SUFFICES ASSUME ArchiveInv PROVE ReadBack!TypeOK
    OBVIOUS
  <2>1. offset <= Len(file) + 1 /\ DOMAIN members \subseteq MemberName
    BY NamesDiffer DEF ArchiveInv, HasRead
  <2> QED
    BY <2>1 DEF ArchiveInv, ReadBack!TypeOK, MemberName
<1> QED
  BY <1>1, ArchiveInvariant, PTL

\* Whatever beginning of an .ipk is on disk, the reader has every byte of every
\* member or refuses it, and it refuses no complete one: for members of any
\* size, odd and empty ones included.
THEOREM ReadExact == ReadBack!Spec => []ReadIsExact
<1>1. ArchiveInv => ReadIsExact
  BY DEF ArchiveInv, HasRead, ReadIsExact, ReadBack!ReadIsExact
<1> QED
  BY <1>1, ArchiveInvariant, PTL
=============================================================================
