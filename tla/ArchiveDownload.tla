--------------------------- MODULE ArchiveDownload ---------------------------
(***************************************************************************)
(* The download of one source archive into downloads/, which the builds of *)
(* all machines share (smart_build/domains/package_sources.py).  Builds    *)
(* run as processes of their own: they look for the archive, one of them   *)
(* downloads it into a temporary file under a file lock, checks it and     *)
(* renames it into place, and every one of them unpacks it, without the    *)
(* lock.  A download that is cut short leaves the temporary file, and the  *)
(* next one resumes it.                                                    *)
(*                                                                         *)
(* What a file holds is "part" (a beginning of the right archive), "good"  *)
(* (the right archive) or "bad" (anything else); "none": no file.  curl    *)
(* and the servers are nondeterministic, wrong answers included.           *)
(***************************************************************************)
EXTENDS Naturals, FiniteSets

CONSTANTS
  Proc,       \* the builds that need the archive
  Urls,       \* number of places it is tried at: the URL, and a mirror if any
  Checked,    \* the package declares a sha256 (else source.allow_unverified)
  MaxCalls,   \* bound: attempts of each build
  MaxCrashes, \* bound: builds killed
  MaxCleans   \* bound: files removed from downloads/ by hand or download-clean

ASSUME CountAssumption ==
  Urls \in Nat \ {0} /\ MaxCalls \in Nat /\ MaxCrashes \in Nat /\ MaxCleans \in Nat
ASSUME CheckedAssumption == Checked \in BOOLEAN

VARIABLES
  archive,   \* the archive's path
  temp,      \* the hidden .download file beside it
  lockFile,  \* which file the lock path names: removing it makes the next another
  pc,        \* where each build is in _make_source_executor
  handle,    \* the lock file it has opened
  holders,   \* builds that hold the lock of the file they have opened
  url, try,  \* its place in _download_urls, and in _download_archive_url
  used,      \* what it has unpacked
  calls, crashes, cleans

files == <<archive, temp, lockFile>>
local == <<handle, holders, url, try, used>>
bounds == <<calls, crashes, cleans>>
vars == <<files, pc, local, bounds>>

Content == {"none", "part", "good", "bad"}
NotOpen == MaxCleans + 1
Locked == {"recheck", "lateCheck", "transfer", "checkTemp", "rename", "confirm"}
Ended == {"idle", "done", "failed"}

TypeOK ==
  /\ archive \in Content /\ temp \in Content
  /\ lockFile \in 0..cleans
  /\ pc \in [Proc -> Locked \cup Ended \cup {"fastCheck", "open", "wait", "have"}]
  /\ handle \in [Proc -> 0..NotOpen]
  /\ holders \in SUBSET Proc
  /\ url \in [Proc -> 1..Urls]
  /\ try \in [Proc -> {"direct", "directFresh", "proxy", "proxyFresh"}]
  /\ used \in [Proc -> Content]
  /\ calls \in [Proc -> 0..MaxCalls]
  /\ crashes \in 0..MaxCrashes /\ cleans \in 0..MaxCleans

Init ==
  /\ archive = "none" /\ temp = "none" /\ lockFile = 0
  /\ pc = [p \in Proc |-> "idle"]
  /\ handle = [p \in Proc |-> NotOpen]
  /\ holders = {}
  /\ url = [p \in Proc |-> 1]
  /\ try = [p \in Proc |-> "direct"]
  /\ used = [p \in Proc |-> "none"]
  /\ calls = [p \in Proc |-> 0] /\ crashes = 0 /\ cleans = 0

At(p, place) == pc[p] = place
Goto(p, place) == pc' = [pc EXCEPT ![p] = place]

\* _verify_archive_sha256; a file that is gone cannot be read.
Verified(content) == content # "none" /\ (Checked => content = "good")

\* Faults the properties are measured against; not part of the specification.
LeaveLocked(p, place) == Goto(p, place) /\ UNCHANGED <<handle, holders>>

\* _FileLock.__exit__, on every way out of the locked part.
Leave(p, place) ==
  /\ Goto(p, place)
  /\ handle' = [handle EXCEPT ![p] = NotOpen]
  /\ holders' = holders \ {p}

-----------------------------------------------------------------------------
(* _ensure_archive_available                                               *)

\* The fast path needs no lock.
Look(p) ==
  /\ At(p, "idle")
  /\ calls[p] < MaxCalls
  /\ calls' = [calls EXCEPT ![p] = calls[p] + 1]
  /\ Goto(p, IF archive # "none" THEN "fastCheck" ELSE "open")
  /\ UNCHANGED <<files, local, crashes, cleans>>

FastCheck(p) ==
  /\ At(p, "fastCheck")
  /\ Goto(p, IF Verified(archive) THEN "have" ELSE "failed")
  /\ UNCHANGED <<files, local, bounds>>

OpenLock(p) ==
  /\ At(p, "open")
  /\ Goto(p, "wait")
  /\ handle' = [handle EXCEPT ![p] = lockFile]
  /\ UNCHANGED <<files, holders, url, try, used, bounds>>

\* flock(LOCK_EX) excludes those that have opened the same file.
Acquire(p) ==
  /\ At(p, "wait")
  /\ \A q \in holders : handle[q] # handle[p]
  /\ Goto(p, "recheck")
  /\ holders' = holders \cup {p}
  /\ UNCHANGED <<files, handle, url, try, used, bounds>>

\* A fault: the archive is not looked for again.
RecheckNothing(p) ==
  /\ At(p, "recheck")
  /\ Goto(p, "transfer")
  /\ url' = [url EXCEPT ![p] = 1] /\ try' = [try EXCEPT ![p] = "direct"]
  /\ UNCHANGED <<files, handle, holders, used, bounds>>

\* Another build may have downloaded it while this one waited.
Recheck(p) ==
  /\ At(p, "recheck")
  /\ Goto(p, IF archive # "none" THEN "lateCheck" ELSE "transfer")
  /\ url' = [url EXCEPT ![p] = 1]
  /\ try' = [try EXCEPT ![p] = "direct"]
  /\ UNCHANGED <<files, handle, holders, used, bounds>>

LateCheck(p) ==
  /\ At(p, "lateCheck")
  /\ Leave(p, IF Verified(archive) THEN "have" ELSE "failed")
  /\ UNCHANGED <<files, url, try, used, bounds>>

-----------------------------------------------------------------------------
(* _download_archive_url, one curl after the other, for every URL          *)

\* What curl can leave of a file it goes on with.  It does not compare what
\* is there: the rest of an archive after something else is bad for good, and
\* so is what a wrong answer adds.
Received(before) ==
  CASE before = "none" -> Content
    [] before = "part" -> {"part", "good", "bad"}
    [] before = "good" -> {"good", "bad"}
    [] before = "bad"  -> {"bad"}

\* Without -C the file is written from the start.
Resumes(p) == try[p] \in {"direct", "proxy"}
Written(p) == Received(IF Resumes(p) THEN temp ELSE "none")

TransferEnds(p) ==
  /\ At(p, "transfer")
  /\ temp' \in Written(p)
  /\ Goto(p, "checkTemp")
  /\ UNCHANGED <<archive, lockFile, local, bounds>>

\* The server cannot resume: the partial file is removed, and written anew.
RangeRefused(p) ==
  /\ At(p, "transfer")
  /\ Resumes(p)
  /\ temp' = "none"
  /\ try' = [try EXCEPT ![p] = IF try[p] = "direct" THEN "directFresh" ELSE "proxyFresh"]
  /\ UNCHANGED <<archive, lockFile, pc, handle, holders, url, used, bounds>>

\* After the last attempt at a URL: the mirror, or the download has failed.
NextPlace(p) ==
  IF url[p] < Urls
  THEN /\ url' = [url EXCEPT ![p] = url[p] + 1]
       /\ try' = [try EXCEPT ![p] = "direct"]
       /\ UNCHANGED <<pc, handle, holders>>
  ELSE Leave(p, "failed") /\ UNCHANGED <<url, try>>

TransferFails(p) ==
  /\ At(p, "transfer")
  /\ temp' \in Written(p)
  /\ IF try[p] \in {"direct", "directFresh"}
     THEN try' = [try EXCEPT ![p] = "proxy"] /\ UNCHANGED <<pc, handle, holders, url>>
     ELSE NextPlace(p)
  /\ UNCHANGED <<archive, lockFile, used, bounds>>

-----------------------------------------------------------------------------
(* _download_archive: from the temporary file to the archive               *)

\* A fault: the temporary file is not checked.
CheckTempBlindly(p) ==
  /\ At(p, "checkTemp")
  /\ IF temp = "none" THEN Leave(p, "failed")
     ELSE Goto(p, "rename") /\ UNCHANGED <<handle, holders>>
  /\ UNCHANGED <<files, url, try, used, bounds>>

\* A file with another checksum is left where it is, for the next to resume.
CheckTemp(p) ==
  /\ At(p, "checkTemp")
  /\ \/ Verified(temp) /\ Goto(p, "rename") /\ UNCHANGED <<handle, holders>>
     \/ temp # "none" /\ ~ Verified(temp) /\ Leave(p, "failed")
     \/ temp = "none" /\ archive = "none" /\ Leave(p, "failed")
     \/ temp = "none" /\ archive # "none" /\ Goto(p, "confirm") /\ UNCHANGED <<handle, holders>>
  /\ UNCHANGED <<files, url, try, used, bounds>>

Rename(p) ==
  /\ At(p, "rename")
  /\ IF temp = "none"
     THEN Leave(p, "failed") /\ UNCHANGED <<archive, temp>>
     ELSE /\ archive' = temp
          /\ temp' = "none"
          /\ Goto(p, "confirm")
          /\ UNCHANGED <<handle, holders>>
  /\ UNCHANGED <<lockFile, url, try, used, bounds>>

Confirm(p) ==
  /\ At(p, "confirm")
  /\ Leave(p, IF Verified(archive) THEN "have" ELSE "failed")
  /\ UNCHANGED <<files, url, try, used, bounds>>

\* The executor unpacks the archive after the lock is gone.
Extract(p) ==
  /\ At(p, "have")
  /\ used' = [used EXCEPT ![p] = archive]
  /\ Goto(p, IF archive = "none" THEN "failed" ELSE "done")
  /\ UNCHANGED <<files, handle, holders, url, try, bounds>>

-----------------------------------------------------------------------------
\* The user starts the build again.
Again(p) ==
  /\ pc[p] \in {"done", "failed"}
  /\ Goto(p, "idle")
  /\ used' = [used EXCEPT ![p] = "none"]
  /\ UNCHANGED <<files, handle, holders, url, try, bounds>>

\* The build is killed, and its curl with it; the kernel drops its lock.
Crash(p) ==
  /\ pc[p] \notin Ended
  /\ crashes < MaxCrashes
  /\ crashes' = crashes + 1
  /\ Leave(p, "idle")
  /\ temp' \in IF At(p, "transfer") THEN Written(p) ELSE {temp}
  /\ UNCHANGED <<archive, lockFile, url, try, used, calls, cleans>>

\* download-clean, and removing one file by hand (docs/troubleshooting.md).
CleanUp ==
  /\ cleans < MaxCleans
  /\ cleans' = cleans + 1
  /\ \/ archive # "none" /\ archive' = "none" /\ UNCHANGED <<temp, lockFile>>
     \/ temp # "none" /\ temp' = "none" /\ UNCHANGED <<archive, lockFile>>
     \/ lockFile' = lockFile + 1 /\ UNCHANGED <<archive, temp>>
  /\ UNCHANGED <<pc, local, calls, crashes>>

Step(p) ==
  \/ FastCheck(p) \/ OpenLock(p) \/ Acquire(p) \/ Recheck(p) \/ LateCheck(p)
  \/ TransferEnds(p) \/ RangeRefused(p) \/ TransferFails(p)
  \/ CheckTemp(p) \/ Rename(p) \/ Confirm(p) \/ Extract(p)

Next ==
  \/ \E p \in Proc : Look(p) \/ Step(p) \/ Again(p) \/ Crash(p)
  \/ CleanUp

Spec == Init /\ [][Next]_vars

\* A build that is under way goes on: curl has time limits, and a lock that is
\* released is given to one that waits.
FairSpec == Spec /\ \A p \in Proc : WF_vars(Step(p))

-----------------------------------------------------------------------------
(* While nobody removes files from downloads/.                             *)

\* One build at a time is at the temporary file, whoever crashed before.
DownloaderAlone ==
  cleans = 0 => \A p, q \in Proc : pc[p] \in Locked /\ pc[q] \in Locked => p = q

\* What other builds find under the archive's name was checked, however the
\* transfers ended that made it; without a sha256 there is nothing to check.
ArchiveVerified == cleans = 0 /\ Checked => archive \in {"none", "good"}

\* No build unpacks anything else, although it unpacks after the lock is gone
\* and long after the checksum was taken.
ExtractsVerified == cleans = 0 /\ Checked => \A p \in Proc : used[p] \in {"none", "good"}

\* Nobody downloads an archive that is there.
DownloadedOnce ==
  cleans = 0 /\ archive # "none" =>
    \A p \in Proc : pc[p] \notin {"transfer", "checkTemp", "rename"}

\* A step never takes the archive away or changes it under a build that has
\* seen it.
ArchiveKept == [][cleans' = 0 /\ archive # "none" => archive' = archive]_vars

Shared == INSTANCE PublishedOnce WITH
  Users <- Proc, Absent <- "none", Right <- {c \in Content : Verified(c)},
  object <- archive, using <- {p \in Proc : used[p] # "none"}

\* All this at once, if nothing is ever removed: the archive is put into place
\* once, right, and stays, and every build that unpacks anything unpacks it.
ImplementsShared == Shared!Spec

\* Every build that looks for the archive has it, fails, or is killed: none
\* waits for ever, whatever the others do and whatever is removed.
CallsEnd == \A p \in Proc : pc[p] \notin Ended ~> pc[p] \in Ended
=============================================================================
