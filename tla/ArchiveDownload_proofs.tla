------------------------ MODULE ArchiveDownload_proofs ------------------------
(***************************************************************************)
(* For any number of builds, URLs, attempts and crashes: the types; and,   *)
(* while nobody removes files from downloads/, that one build at a time    *)
(* downloads and that only a verified archive is ever found or unpacked.   *)
(***************************************************************************)
EXTENDS ArchiveDownload, TLAPS

LEMMA ReceivedType == \A c \in Content : Received(c) \subseteq Content
BY DEF Received, Content

LEMMA WrittenType ==
  ASSUME TypeOK, NEW p \in Proc
  PROVE  Written(p) \subseteq Content
BY ReceivedType DEF TypeOK, Written, Content

\* Going on is always to a place of the code.
LEMMA StepTypes ==
  ASSUME TypeOK, [Next]_vars
  PROVE  TypeOK'
<1> USE CountAssumption DEF CountAssumption, TypeOK, NotOpen, Locked, Ended, Goto, Leave
<1>1. ASSUME NEW p \in Proc, Look(p) PROVE TypeOK'
  BY <1>1 DEF Look, At, files, local
<1>2. ASSUME NEW p \in Proc, FastCheck(p) PROVE TypeOK'
  BY <1>2 DEF FastCheck, At, files, local, bounds
<1>3. ASSUME NEW p \in Proc, OpenLock(p) PROVE TypeOK'
  BY <1>3 DEF OpenLock, At, files, bounds
<1>4. ASSUME NEW p \in Proc, Acquire(p) PROVE TypeOK'
  BY <1>4 DEF Acquire, At, files, bounds
<1>5. ASSUME NEW p \in Proc, Recheck(p) PROVE TypeOK'
  BY <1>5 DEF Recheck, At, files, bounds
<1>6. ASSUME NEW p \in Proc, LateCheck(p) PROVE TypeOK'
  BY <1>6 DEF LateCheck, At, files, bounds
<1>7. ASSUME NEW p \in Proc, TransferEnds(p) PROVE TypeOK'
  BY <1>7, WrittenType DEF TransferEnds, At, local, bounds
<1>8. ASSUME NEW p \in Proc, RangeRefused(p) PROVE TypeOK'
  BY <1>8 DEF RangeRefused, At, bounds, Content
<1>9. ASSUME NEW p \in Proc, TransferFails(p) PROVE TypeOK'
  BY <1>9, WrittenType DEF TransferFails, NextPlace, At, bounds
<1>10. ASSUME NEW p \in Proc, CheckTemp(p) PROVE TypeOK'
  BY <1>10 DEF CheckTemp, At, files, bounds
<1>11. ASSUME NEW p \in Proc, Rename(p) PROVE TypeOK'
  BY <1>11 DEF Rename, At, bounds, Content
<1>12. ASSUME NEW p \in Proc, Confirm(p) PROVE TypeOK'
  BY <1>12 DEF Confirm, At, files, bounds
<1>13. ASSUME NEW p \in Proc, Extract(p) PROVE TypeOK'
  BY <1>13 DEF Extract, At, files, bounds
<1>14. ASSUME NEW p \in Proc, Again(p) PROVE TypeOK'
  BY <1>14 DEF Again, files, bounds, Content
<1>15. ASSUME NEW p \in Proc, Crash(p) PROVE TypeOK'
  <2>1. temp' \in Content
    BY <1>15, WrittenType DEF Crash
  <2>2. crashes' \in 0..MaxCrashes
    BY <1>15 DEF Crash
  <2>3. pc' \in [Proc -> Locked \cup Ended \cup {"fastCheck", "open", "wait", "have"}]
    BY <1>15 DEF Crash
  <2>4. handle' \in [Proc -> 0..NotOpen] /\ holders' \in SUBSET Proc
    BY <1>15 DEF Crash
  <2>5. UNCHANGED <<archive, lockFile, url, try, used, calls, cleans>>
    BY <1>15 DEF Crash
  <2> QED
    BY <2>1, <2>2, <2>3, <2>4, <2>5
<1>16. CASE CleanUp
  <2>1. cleans < MaxCleans /\ cleans' = cleans + 1 /\ UNCHANGED <<pc, local, calls, crashes>>
    BY <1>16 DEF CleanUp
  <2>2. archive' \in Content /\ temp' \in Content /\ lockFile' \in {lockFile, lockFile + 1}
    BY <1>16 DEF CleanUp, Content
  <2>3. lockFile \in 0..cleans
    BY DEF TypeOK
  <2> QED
    BY <2>1, <2>2, <2>3 DEF local
<1>17. CASE UNCHANGED vars
  BY <1>17 DEF vars, files, local, bounds
<1> QED
  BY <1>1, <1>2, <1>3, <1>4, <1>5, <1>6, <1>7, <1>8, <1>9, <1>10, <1>11, <1>12, <1>13,
     <1>14, <1>15, <1>16, <1>17 DEF Next, Step

\* Every variable keeps its type, removals included.
THEOREM TypeCorrect == Spec => []TypeOK
<1>1. Init => TypeOK
  BY CountAssumption DEF Init, TypeOK, CountAssumption, Content, NotOpen, Ended, Locked
<1> QED
  BY <1>1, StepTypes, PTL DEF Spec

-----------------------------------------------------------------------------
(* The inductive invariant.                                                *)

\* Those in the locked part hold the lock, all of the one file.
LockHeld ==
  /\ \A p \in Proc : pc[p] \in Locked \cup {"wait"} => handle[p] = 0
  /\ \A p \in Proc : pc[p] \in Locked <=> p \in holders

\* What each place of the code has found out about the files and still knows.
Known(p) ==
  /\ pc[p] \in {"transfer", "checkTemp", "rename"} => archive = "none"
  /\ pc[p] \in {"fastCheck", "lateCheck", "confirm", "have"} => archive # "none"
  /\ pc[p] = "rename" => Verified(temp)
  /\ used[p] # "none" => Verified(used[p])

IInv ==
  /\ TypeOK
  /\ cleans = 0
  /\ LockHeld
  /\ DownloaderAlone
  /\ \A p \in Proc : Known(p)
  /\ archive # "none" => Verified(archive)

\* A step that one build takes without touching the files keeps the rest.
LEMMA LockPreserved ==
  ASSUME IInv, [Next]_vars, cleans' = 0
  PROVE  LockHeld' /\ DownloaderAlone'
<1> USE DEF IInv, LockHeld, DownloaderAlone, Locked
<1>a. pc \in [Proc -> Locked \cup Ended \cup {"fastCheck", "open", "wait", "have"}]
      /\ handle \in [Proc -> 0..NotOpen] /\ holders \in SUBSET Proc
  BY DEF TypeOK
<1>1. CASE UNCHANGED <<pc, handle, holders>>
  BY <1>1
<1>2. ASSUME NEW p \in Proc, NEW place \in Ended \cup {"have"}, Leave(p, place)
      PROVE  LockHeld' /\ DownloaderAlone'
  <2>1. pc'[p] \notin Locked \cup {"wait"} /\ p \notin holders'
    BY <1>2, <1>a DEF Leave, Goto, Ended
  <2>2. \A q \in Proc \ {p} :
          pc'[q] = pc[q] /\ handle'[q] = handle[q] /\ (q \in holders' <=> q \in holders)
    BY <1>2, <1>a DEF Leave, Goto
  <2> QED
    BY <2>1, <2>2
<1>3. ASSUME NEW p \in Proc, NEW place, Goto(p, place), UNCHANGED <<handle, holders>>,
             \/ pc[p] \in Locked /\ place \in Locked
             \/ pc[p] \notin Locked /\ place \notin Locked \cup {"wait"}
      PROVE  LockHeld' /\ DownloaderAlone'
  <2>1. \A q \in Proc : pc'[q] \in Locked <=> pc[q] \in Locked
    BY <1>3, <1>a DEF Goto
  <2>2. \A q \in Proc : pc'[q] \in Locked \cup {"wait"} => pc[q] \in Locked \cup {"wait"}
    BY <1>3, <1>a DEF Goto
  <2> QED
    BY <1>3, <2>1, <2>2
<1>4. ASSUME NEW p \in Proc, OpenLock(p) PROVE LockHeld' /\ DownloaderAlone'
  <2>1. lockFile = 0
    BY DEF TypeOK
  <2>2. /\ pc'[p] = "wait" /\ handle'[p] = 0 /\ holders' = holders /\ pc[p] = "open"
        /\ \A q \in Proc \ {p} : pc'[q] = pc[q] /\ handle'[q] = handle[q]
    BY <1>4, <1>a, <2>1 DEF OpenLock, At, Goto
  <2>3. \A q \in Proc : pc'[q] \in Locked <=> pc[q] \in Locked
    BY <2>2
  <2>4. \A q \in Proc : pc'[q] \in Locked \cup {"wait"} => handle'[q] = 0
    BY <2>2
  <2> QED
    BY <2>2, <2>3, <2>4
<1>5. ASSUME NEW p \in Proc, Acquire(p) PROVE LockHeld' /\ DownloaderAlone'
  <2>1. holders = {}
    <3>1. handle[p] = 0 /\ \A q \in holders : handle[q] # handle[p]
      BY <1>5 DEF Acquire, At
    <3>2. \A q \in holders : handle[q] = 0
      BY <1>a
    <3> QED
      BY <3>1, <3>2
  <2>2. pc'[p] = "recheck" /\ \A q \in Proc \ {p} : pc'[q] = pc[q]
    BY <1>5, <1>a DEF Acquire, Goto
  <2> QED
    BY <1>5, <1>a, <2>1, <2>2 DEF Acquire, At
<1>6. ASSUME NEW p \in Proc, Look(p) \/ FastCheck(p) \/ Extract(p) \/ Again(p)
      PROVE  LockHeld' /\ DownloaderAlone'
  <2>1. \E place \in {"fastCheck", "open", "have", "failed", "done", "idle"} : Goto(p, place)
    BY <1>6 DEF Look, FastCheck, Extract, Again
  <2>2. UNCHANGED <<handle, holders>> /\ pc[p] \notin Locked
    BY <1>6 DEF Look, FastCheck, Extract, Again, At, Ended, local
  <2> QED
    BY <1>3, <2>1, <2>2
<1>7. ASSUME NEW p \in Proc, LateCheck(p) \/ Confirm(p) \/ Crash(p)
      PROVE  LockHeld' /\ DownloaderAlone'
  <2>1. \E place \in Ended \cup {"have"} : Leave(p, place)
    BY <1>7 DEF LateCheck, Confirm, Crash, Ended
  <2> QED
    BY <1>2, <2>1
<1>8. ASSUME NEW p \in Proc,
             \/ Recheck(p) \/ TransferEnds(p) \/ CheckTemp(p) \/ Rename(p)
             \/ RangeRefused(p) \/ TransferFails(p)
      PROVE  LockHeld' /\ DownloaderAlone'
  <2>1. pc[p] \in Locked
    BY <1>8 DEF Recheck, TransferEnds, CheckTemp, Rename, RangeRefused, TransferFails, At
  <2>2. \/ Leave(p, "failed")
        \/ UNCHANGED <<handle, holders>> /\ \E place \in Locked : Goto(p, place)
        \/ UNCHANGED <<pc, handle, holders>>
    BY <1>8 DEF Recheck, TransferEnds, CheckTemp, Rename, RangeRefused, TransferFails,
                NextPlace, local
  <2> QED
    BY <1>1, <1>2, <1>3, <2>1, <2>2 DEF Ended
<1>9. CASE CleanUp
  BY <1>1, <1>9 DEF CleanUp, local
<1>10. CASE UNCHANGED vars
  BY <1>1, <1>10 DEF vars, local
<1> QED
  BY <1>4, <1>5, <1>6, <1>7, <1>8, <1>9, <1>10 DEF Next, Step

\* What was removed counts for ever.
LEMMA OnlyMore ==
  ASSUME TypeOK, [Next]_vars, cleans' = 0
  PROVE  cleans = 0
<1> USE DEF bounds
<1>1. cleans \in Nat
  BY CountAssumption DEF TypeOK, CountAssumption
<1>2. CASE CleanUp
  BY <1>1, <1>2 DEF CleanUp
<1>3. ASSUME NEW p \in Proc, Look(p) \/ Step(p) \/ Again(p) \/ Crash(p)
      PROVE  cleans' = cleans
  BY <1>3 DEF Look, Step, Again, Crash, FastCheck, OpenLock, Acquire, Recheck, LateCheck,
              TransferEnds, RangeRefused, TransferFails, CheckTemp, Rename, Confirm, Extract
<1>4. CASE UNCHANGED vars
  BY <1>4 DEF vars
<1> QED
  BY <1>2, <1>3, <1>4 DEF Next

\* The archive appears once, verified, and stays.
LEMMA FilesPreserved ==
  ASSUME IInv, [Next]_vars, cleans' = 0
  PROVE  /\ archive # "none" => archive' = archive
         /\ archive' # "none" => Verified(archive')
         /\ \A p \in Proc : Known(p)'
<1> USE DEF IInv
<1>a. /\ pc \in [Proc -> Locked \cup Ended \cup {"fastCheck", "open", "wait", "have"}]
      /\ used \in [Proc -> Content]
  BY DEF TypeOK
<1> DEFINE Goal == /\ archive # "none" => archive' = archive
                   /\ archive' # "none" => Verified(archive')
                   /\ \A p \in Proc : Known(p)'
<1>1. ASSUME NEW p \in Proc, archive' = archive,
             temp' = temp \/ pc[p] \in Locked,
             \A q \in Proc \ {p} : pc'[q] = pc[q] /\ used'[q] = used[q],
             Known(p)'
      PROVE  Goal
  <2> SUFFICES ASSUME NEW q \in Proc \ {p} PROVE Known(q)'
    BY <1>1
  <2>1. pc[q] = "rename" => temp' = temp
    BY <1>1 DEF DownloaderAlone, Locked
  <2> QED
    BY <1>1, <2>1 DEF Known, Verified
<1>2. ASSUME NEW p \in Proc,
             \/ Look(p) \/ FastCheck(p) \/ OpenLock(p) \/ Acquire(p) \/ Recheck(p)
             \/ LateCheck(p) \/ Confirm(p) \/ Again(p)
      PROVE  Goal
  <2>1. UNCHANGED <<archive, temp>> /\ \A q \in Proc \ {p} : pc'[q] = pc[q] /\ used'[q] = used[q]
    BY <1>2, <1>a DEF Look, FastCheck, OpenLock, Acquire, Recheck, LateCheck, Confirm, Again,
                      Goto, Leave, files, local
  <2>2. used'[p] \in {used[p], "none"}
    BY <1>2, <1>a DEF Look, FastCheck, OpenLock, Acquire, Recheck, LateCheck, Confirm, Again, local
  <2>3. /\ pc'[p] \in {"fastCheck", "lateCheck", "have"} => archive # "none"
        /\ pc'[p] = "transfer" => archive = "none"
        /\ pc'[p] \notin {"checkTemp", "rename", "confirm"}
    BY <1>2, <1>a DEF Look, FastCheck, OpenLock, Acquire, Recheck, LateCheck, Confirm, Again,
                      Goto, Leave, At, Known, Verified
  <2>4. Known(p)'
    BY <2>1, <2>2, <2>3 DEF Known
  <2> QED
    BY <1>1, <2>1, <2>4
<1>3. ASSUME NEW p \in Proc,
             TransferEnds(p) \/ RangeRefused(p) \/ TransferFails(p) \/ CheckTemp(p) \/ Crash(p)
      PROVE  Goal
  <2>1. /\ UNCHANGED <<archive, used>> /\ \A q \in Proc \ {p} : pc'[q] = pc[q]
        /\ temp' = temp \/ pc[p] \in Locked
    BY <1>3, <1>a DEF TransferEnds, RangeRefused, TransferFails, CheckTemp, Crash, NextPlace,
                      Goto, Leave, At, Locked, files, local
  <2>2. /\ pc'[p] \in {"transfer", "checkTemp", "rename", "failed", "idle"}
        /\ pc'[p] \in {"transfer", "checkTemp", "rename"} => archive = "none"
        /\ pc'[p] = "rename" => Verified(temp) /\ temp' = temp
    <3>1. CASE TransferEnds(p) \/ RangeRefused(p)
      BY <3>1, <1>a DEF TransferEnds, RangeRefused, Goto, At, Known
    <3>2. CASE TransferFails(p)
      BY <3>2, <1>a DEF TransferFails, NextPlace, Goto, Leave, At, Known
    <3>3. CASE CheckTemp(p)
      BY <3>3, <1>a DEF CheckTemp, Goto, Leave, At, Known, files
    <3>4. CASE Crash(p)
      BY <3>4, <1>a DEF Crash, Goto, Leave
    <3> QED
      BY <1>3, <3>1, <3>2, <3>3, <3>4
  <2>3. Known(p)'
    BY <2>1, <2>2 DEF Known, Verified
  <2> QED
    BY <1>1, <2>1, <2>3
<1>4. ASSUME NEW p \in Proc, Rename(p) PROVE Goal
  <2>1. archive = "none" /\ Verified(temp) /\ temp # "none"
    BY <1>4 DEF Rename, At, Known, Verified
  <2>2. archive' = temp /\ pc'[p] = "confirm" /\ used' = used
        /\ \A q \in Proc \ {p} : pc'[q] = pc[q]
    BY <1>4, <1>a, <2>1 DEF Rename, Goto
  <2>3. \A q \in Proc \ {p} : pc[q] \notin Locked
    BY <1>4 DEF Rename, At, DownloaderAlone, Locked
  <2>4. \A q \in Proc : Known(q)'
    BY <2>1, <2>2, <2>3 DEF Known, Verified, Locked
  <2> QED
    BY <2>1, <2>2, <2>4 DEF Verified
<1>5. ASSUME NEW p \in Proc, Extract(p) PROVE Goal
  <2>1. UNCHANGED <<archive, temp>> /\ used'[p] = archive /\ pc'[p] \in {"done", "failed"}
        /\ \A q \in Proc \ {p} : pc'[q] = pc[q] /\ used'[q] = used[q]
    BY <1>5, <1>a DEF Extract, Goto, files
  <2>2. Known(p)'
    BY <2>1 DEF Known, Verified
  <2> QED
    BY <1>1, <2>1, <2>2
<1>6. CASE CleanUp
  BY <1>6 DEF CleanUp, TypeOK
<1>7. CASE UNCHANGED vars
  BY <1>7 DEF vars, files, local, Known, Verified
<1> QED
  BY <1>2, <1>3, <1>4, <1>5, <1>6, <1>7 DEF Next, Step

\* Until something is removed.
LEMMA Inductive == Spec => [](TypeOK /\ (cleans = 0 => IInv))
<1>1. Init => TypeOK /\ IInv
  <2>1. Init => TypeOK
    BY CountAssumption DEF Init, TypeOK, CountAssumption, Content, NotOpen, Ended, Locked
  <2> QED
    BY <2>1 DEF Init, IInv, LockHeld, DownloaderAlone, Known, Locked
<1>2. TypeOK /\ (cleans = 0 => IInv) /\ [Next]_vars => TypeOK' /\ (cleans = 0 => IInv)'
  <2> SUFFICES ASSUME TypeOK, cleans = 0 => IInv, [Next]_vars
               PROVE  TypeOK' /\ (cleans = 0 => IInv)'
    OBVIOUS
  <2>1. TypeOK'
    BY StepTypes
  <2>2. ASSUME cleans' = 0 PROVE IInv'
    <3>1. cleans = 0
      BY <2>2, OnlyMore
    <3>2. IInv
      BY <3>1
    <3>3. LockHeld' /\ DownloaderAlone'
      BY <2>2, <3>2, LockPreserved
    <3>4. (archive' # "none" => Verified(archive')) /\ \A p \in Proc : Known(p)'
      BY <2>2, <3>2, FilesPreserved
    <3> QED
      BY <2>1, <2>2, <3>3, <3>4 DEF IInv, Verified
  <2> QED
    BY <2>1, <2>2
<1> QED
  BY <1>1, <1>2, PTL DEF Spec

\* At most one build is in the locked part.
THEOREM OneDownloader == Spec => []DownloaderAlone
<1>1. (cleans = 0 => IInv) => DownloaderAlone
  BY DEF IInv, DownloaderAlone
<1> QED
  BY <1>1, Inductive, PTL

\* The archive's name never stands for anything that was not checked.
THEOREM OnlyVerifiedArchives == Spec => []ArchiveVerified
<1>1. (cleans = 0 => IInv) => ArchiveVerified
  BY DEF IInv, ArchiveVerified, Verified
<1> QED
  BY <1>1, Inductive, PTL

\* Nor is anything else unpacked.
THEOREM OnlyVerifiedExtracted == Spec => []ExtractsVerified
<1>1. (cleans = 0 => IInv) => ExtractsVerified
  BY DEF IInv, Known, ExtractsVerified, Verified
<1> QED
  BY <1>1, Inductive, PTL

\* Nobody is at a download once the archive is there.
THEOREM NoSecondDownload == Spec => []DownloadedOnce
<1>1. (cleans = 0 => IInv) => DownloadedOnce
  BY DEF IInv, Known, DownloadedOnce
<1> QED
  BY <1>1, Inductive, PTL

\* An archive that is there stays as it is.
THEOREM ArchiveStays == Spec => ArchiveKept
<1>1. TypeOK /\ (cleans = 0 => IInv) /\ [Next]_vars
        => (cleans' = 0 /\ archive # "none" => archive' = archive)
  <2> SUFFICES ASSUME TypeOK, cleans = 0 => IInv, [Next]_vars, cleans' = 0
               PROVE  archive # "none" => archive' = archive
    OBVIOUS
  <2>1. IInv
    BY OnlyMore
  <2> QED
    BY <2>1, FilesPreserved
<1> QED
  BY <1>1, Inductive, PTL DEF Spec, ArchiveKept

\* All of this as one promise: the builds together do what PublishedOnce says,
\* putting the archive into place once and going on with nothing else.
THEOREM ArchiveIsShared ==
  ASSUME MaxCleans = 0
  PROVE  Spec => ImplementsShared
<1> DEFINE Using == {p \in Proc : used[p] # "none"}
<1>1. Init => Shared!Init
  BY DEF Init, Shared!Init
<1>2. ASSUME IInv, [Next]_vars
      PROVE  [Shared!Next]_(Shared!vars)
  <2>a. /\ archive \in Content /\ temp \in Content
        /\ used \in [Proc -> Content]
        /\ archive # "none" => Verified(archive)
    BY <1>2 DEF IInv, TypeOK
  <2>b. ASSUME archive' = archive, used' = used
        PROVE  [Shared!Next]_(Shared!vars)
    BY <2>b DEF Shared!vars
  <2>1. ASSUME NEW p \in Proc, Rename(p)
        PROVE  [Shared!Next]_(Shared!vars)
    <3>1. CASE temp = "none"
      BY <2>1, <2>b, <3>1 DEF Rename
    <3>2. CASE temp # "none"
      <4>1. archive = "none" /\ Verified(temp)
        BY <1>2, <2>1 DEF IInv, Known, Rename, At
      <4>2. archive' = temp /\ used' = used
        BY <2>1, <3>2 DEF Rename
      <4> QED
        BY <2>a, <4>1, <4>2 DEF Shared!Next, Shared!Publish
    <3> QED
      BY <3>1, <3>2
  <2>2. ASSUME NEW p \in Proc, Extract(p)
        PROVE  [Shared!Next]_(Shared!vars)
    <3>1. archive # "none" /\ archive' = archive
      BY <1>2, <2>2 DEF IInv, Known, Extract, At, files
    <3>2. Using' = Using \cup {p}
      BY <2>a, <2>2, <3>1 DEF Extract
    <3> QED
      BY <2>a, <3>1, <3>2 DEF Shared!Next, Shared!Use
  <2>3. ASSUME NEW p \in Proc, Again(p)
        PROVE  [Shared!Next]_(Shared!vars)
    <3>1. archive' = archive
      BY <2>3 DEF Again, files
    <3>2. Using' = Using \ {p}
      BY <2>a, <2>3 DEF Again
    <3> QED
      BY <3>1, <3>2 DEF Shared!Next, Shared!Leave
  <2>4. ASSUME NEW p \in Proc,
               \/ Look(p) \/ FastCheck(p) \/ OpenLock(p) \/ Acquire(p) \/ Recheck(p)
               \/ LateCheck(p) \/ TransferEnds(p) \/ RangeRefused(p) \/ TransferFails(p)
               \/ CheckTemp(p) \/ Confirm(p) \/ Crash(p)
        PROVE  archive' = archive /\ used' = used
    BY <2>4 DEF Look, FastCheck, OpenLock, Acquire, Recheck, LateCheck, TransferEnds,
                RangeRefused, TransferFails, CheckTemp, Confirm, Crash, NextPlace, files, local
  <2>5. CASE CleanUp
    BY <1>2, <2>5 DEF CleanUp, IInv
  <2>6. CASE UNCHANGED vars
    BY <2>b, <2>6 DEF vars, files, local
  <2> QED
    BY <1>2, <2>b, <2>1, <2>2, <2>3, <2>4, <2>5, <2>6 DEF Next, Step
<1>3. TypeOK /\ (cleans = 0 => IInv) => IInv
  BY DEF TypeOK
<1> QED
  BY <1>1, <1>2, <1>3, Inductive, PTL DEF Spec, ImplementsShared, Shared!Spec
=============================================================================
