------------------------------ MODULE Workspace_proofs ------------------------------
(***************************************************************************)
(* Toolchains: for any commands, releases, roots and faults, the types,    *)
(* that only whole toolchains are installed and that what a command has    *)
(* used stays.  The kernel: for any machines, BSPs, packages, selections,  *)
(* edits and faults, the types, that a kernel built without another        *)
(* command in its BSP has the packages selected for it and no others, and  *)
(* that rt-thread is put into place once, whole, however many clone it.    *)
(***************************************************************************)
EXTENDS Workspace, TLAPS

Custom == <<"custom">>

\* Who unpacks does it from the archive that was verified, and what is unpacked
\* is what the archive holds.
Unpacked(p) ==
  LET r == proc[p].release IN
  /\ proc[p].pc \in {"extract", "extracting"} => archive[r] = "good"
  /\ proc[p].pc = "extracting" => proc[p].tree = [Whole(r) EXCEPT !.has = Compilers]
  /\ proc[p].pc \in {"check", "rename"} => proc[p].tree = Whole(r)
  /\ proc[p].pc = "installed" => root[InstallRoot(r)] = Whole(r)

\* Where a command that installs has looked there is still nothing: nobody but
\* an install creates anything, and only at its install root.
Sought(p) ==
  LET r == proc[p].release IN
  proc[p].pc \in Installing =>
    /\ root[EnvRoot(r)] = Absent /\ root[LegacyRoot(r)] = Absent
    /\ edits = 0 /\ config.custom => root[Custom] = Absent

\* Who has succeeded has used something, and would find it again.
Lasting(p) ==
  proc[p].pc = "done" /\ edits = 0 =>
    /\ proc[p].used # <<>>
    /\ Found(proc[p].release, config.custom) = proc[p].used
    /\ Valid(root[proc[p].used], proc[p].release)

IInv ==
  cleans = 0 =>
    /\ ~ cleaning
    /\ InstalledIsWhole
    /\ \A p \in Process : Unpacked(p) /\ Sought(p) /\ Lasting(p)

-----------------------------------------------------------------------------
\* The places of a release are roots, and only its own install goes to its
\* install root.
LEMMA Places ==
  ASSUME NEW r \in Release
  PROVE  /\ {Custom, EnvRoot(r), InstallRoot(r), LegacyRoot(r)} \subseteq Root
         /\ {Custom, EnvRoot(r), InstallRoot(r), LegacyRoot(r)} \cap {<<>>} = {}
         /\ \A q \in Release :
              /\ InstallRoot(q) \notin {Custom, EnvRoot(r), LegacyRoot(r)}
              /\ InstallRoot(q) = InstallRoot(r) => q = r
<1>1. {Custom, EnvRoot(r), InstallRoot(r), LegacyRoot(r)} \subseteq Root
  BY RootAssumption DEF Custom
<1>2. {Custom, EnvRoot(r), InstallRoot(r), LegacyRoot(r)} \cap {<<>>} = {}
  BY DEF Custom, EnvRoot, InstallRoot, LegacyRoot
<1>3. ASSUME NEW q \in Release
      PROVE  /\ InstallRoot(q) \notin {Custom, EnvRoot(r), LegacyRoot(r)}
             /\ InstallRoot(q) = InstallRoot(r) => q = r
  BY ReleaseAssumption DEF Custom, EnvRoot, InstallRoot, LegacyRoot
<1> QED BY <1>1, <1>2, <1>3

\* A whole toolchain is there and valid.
LEMMA WholeIsValid ==
  ASSUME NEW r \in Release
  PROVE  Whole(r) # Absent /\ Valid(Whole(r), r) /\ Whole(r) \in Content /\ Absent \in Content
BY DEF Whole, Absent, Valid, Content, Required, Compilers, Runtime

\* What Found returns, place by place.
Looked(r, custom) ==
  CASE custom /\ Exists(root[Custom]) -> Custom
    [] ~ (custom /\ Exists(root[Custom])) /\ Exists(root[EnvRoot(r)]) -> EnvRoot(r)
    [] ~ (custom /\ Exists(root[Custom])) /\ ~ Exists(root[EnvRoot(r)])
         /\ Exists(root[InstallRoot(r)]) -> InstallRoot(r)
    [] ~ (custom /\ Exists(root[Custom])) /\ ~ Exists(root[EnvRoot(r)])
         /\ ~ Exists(root[InstallRoot(r)]) /\ Exists(root[LegacyRoot(r)]) -> LegacyRoot(r)
    [] OTHER -> <<>>

LEMMA FirstIs ==
  ASSUME NEW S \in SUBSET (1..4), NEW i \in S, \A j \in S : i <= j
  PROVE  (CHOOSE k \in S : \A j \in S : k <= j) = i
<1>1. \A k \in S : (\A j \in S : k <= j) => k = i
  OBVIOUS
<1> QED BY <1>1

LEMMA FoundIs ==
  ASSUME NEW r \in Release, NEW custom \in BOOLEAN
  PROVE  Found(r, custom) = Looked(r, custom)
<1> DEFINE all == Candidates(r, custom)
           there == {i \in DOMAIN all : Exists(root[all[i]])}
           first == CHOOSE i \in there : \A j \in there : i <= j
<1>1. Found(r, custom) = IF there = {} THEN <<>> ELSE all[first]
  BY DEF Found
<1>2. CASE custom
  <2> DEFINE rest == <<EnvRoot(r), InstallRoot(r), LegacyRoot(r)>>
  <2>1. <<Custom>> \in Seq(Root) /\ rest \in Seq(Root)
    BY Places
  <2>2. all = <<Custom>> \o rest
    BY <1>2 DEF Candidates, Custom
  <2>3. there \subseteq 1..4 /\ DOMAIN all = 1..4
    BY <2>1, <2>2
  <2>4. /\ all[1] = Custom /\ all[2] = EnvRoot(r)
        /\ all[3] = InstallRoot(r) /\ all[4] = LegacyRoot(r)
    BY <2>1, <2>2
  <2>5. \A i \in 1..4 : i \in there <=> Exists(root[all[i]])
    BY <2>3
  <2>6. \A i \in there : (\A j \in there : i <= j) => first = i
    BY <2>3, FirstIs
  <2> HIDE DEF all, there, first
  <2> QED BY <1>1, <1>2, <2>3, <2>4, <2>5, <2>6 DEF Looked
<1>3. CASE ~ custom
  <2>1. all = <<EnvRoot(r), InstallRoot(r), LegacyRoot(r)>>
    BY <1>3 DEF Candidates
  <2>2. there \subseteq 1..4 /\ DOMAIN all = 1..3
    BY <2>1
  <2>3. all[1] = EnvRoot(r) /\ all[2] = InstallRoot(r) /\ all[3] = LegacyRoot(r)
    BY <2>1
  <2>4. \A i \in 1..4 : i \in there <=> i # 4 /\ Exists(root[all[i]])
    BY <2>2
  <2>5. \A i \in there : (\A j \in there : i <= j) => first = i
    BY <2>2, FirstIs
  <2> HIDE DEF all, there, first
  <2> QED BY <1>1, <1>3, <2>2, <2>3, <2>4, <2>5 DEF Looked
<1> QED BY <1>2, <1>3

-----------------------------------------------------------------------------
(* Types, of any number of commands, releases and roots.                    *)

States == [pc : {"idle", "failed", "done", "resolve"} \cup Installing,
           command : {"build"} \cup Commands, release : Release,
           used : Root \cup {<<>>}, temp : {"none", "good", "bad"}, tree : Content]

Tidy(s) ==
  /\ s.tree # Absent => s.pc \in {"extracting", "check", "rename"}
  /\ s.temp # "none" => s.pc = "verify"

LEMMA TypeIs ==
  TypeOK <=>
    /\ config \in [release : Release, custom : BOOLEAN]
    /\ root \in [Root -> Content]
    /\ archive \in [Release -> {"none", "good", "bad"}]
    /\ proc \in [Process -> States] /\ \A p \in Process : Tidy(proc[p])
    /\ cleaning \in BOOLEAN
    /\ faults \in 0..MaxFaults /\ edits \in 0..MaxEdits /\ cleans \in 0..MaxCleans
BY DEF TypeOK, States, Tidy

LEMMA TypeInit == Init => TypeOK
<1> SUFFICES ASSUME Init PROVE TypeOK
  OBVIOUS
<1>1. (CHOOSE r \in Release : TRUE) \in Release
  BY DEF Init
<1>2. Idle.release \in Release /\ Idle.pc = "idle" /\ Idle.tree = Absent /\ Idle.temp = "none"
  BY <1>1 DEF Idle
<1>3. Absent \in Content
  BY <1>1, WholeIsValid
<1>4. root \in [Root -> Content]
  BY RootAssumption DEF Init
<1>5. archive \in [Release -> {"none", "good", "bad"}]
  BY DEF Init
<1>6. Idle \in States
  BY <1>1, <1>3 DEF Idle, States
<1>7. config \in [release : Release, custom : BOOLEAN]
  BY DEF Init
<1>8. proc \in [Process -> States] /\ \A p \in Process : Tidy(proc[p])
  BY <1>2, <1>6 DEF Init, Tidy
<1>9. faults \in 0..MaxFaults /\ edits \in 0..MaxEdits /\ cleans \in 0..MaxCleans
  BY BoundAssumption DEF Init
<1>10. cleaning \in BOOLEAN
  BY DEF Init
<1> HIDE DEF Init
<1> QED BY <1>4, <1>5, <1>7, <1>8, <1>9, <1>10, TypeIs

\* A command keeps its types when its new state has them.
LEMMA Moved ==
  ASSUME TypeOK, NEW p \in Process, NEW s \in States, Tidy(s),
         proc' = [proc EXCEPT ![p] = s]
  PROVE  proc' \in [Process -> States] /\ \A q \in Process : Tidy(proc'[q])
BY TypeIs

LEMMA IdleTyped == TypeOK => Idle \in States /\ Tidy(Idle)
<1> SUFFICES ASSUME TypeOK PROVE Idle \in States /\ Tidy(Idle)
  OBVIOUS
<1>1. (CHOOSE r \in Release : TRUE) \in Release
  BY DEF TypeOK
<1> QED BY <1>1, WholeIsValid DEF Idle, States, Tidy

LEMMA TypeStep == TypeOK /\ [Next]_vars => TypeOK'
<1> SUFFICES ASSUME TypeOK, [Next]_vars PROVE TypeOK'
  OBVIOUS
<1> USE DEF Tidy
<1>0. /\ config \in [release : Release, custom : BOOLEAN]
      /\ root \in [Root -> Content]
      /\ archive \in [Release -> {"none", "good", "bad"}]
      /\ proc \in [Process -> States] /\ \A p \in Process : Tidy(proc[p])
      /\ cleaning \in BOOLEAN
      /\ faults \in 0..MaxFaults /\ edits \in 0..MaxEdits /\ cleans \in 0..MaxCleans
  BY TypeIs
<1>i. MaxFaults \in Nat /\ MaxEdits \in Nat /\ MaxCleans \in Nat
  BY BoundAssumption
<1>t. /\ config' \in [release : Release, custom : BOOLEAN]
      /\ root' \in [Root -> Content]
      /\ archive' \in [Release -> {"none", "good", "bad"}]
      /\ proc' \in [Process -> States] /\ \A p \in Process : Tidy(proc'[p])
      /\ cleaning' \in BOOLEAN
      /\ faults' \in 0..MaxFaults /\ edits' \in 0..MaxEdits /\ cleans' \in 0..MaxCleans
      => TypeOK'
  BY DEF TypeOK, States
<1>f. ASSUME NEW p \in Process, Fail(p)
      PROVE  proc' \in [Process -> States] /\ \A q \in Process : Tidy(proc'[q])
  <2> DEFINE s == [proc[p] EXCEPT !.pc = "failed", !.temp = "none", !.tree = Absent]
  <2>1. proc[p].release \in Release
    BY <1>0 DEF States
  <2>2. s \in States /\ Tidy(s)
    BY <1>0, <2>1, WholeIsValid DEF States
  <2>3. proc' = [proc EXCEPT ![p] = s]
    BY <1>f DEF Fail
  <2> QED BY <2>2, <2>3, Moved
<1>r. ASSUME NEW p \in Process, NEW d \in Root \cup {<<>>}, proc[p].pc \in {"resolve", "install", "installed"},
             Resolved(p, d)
      PROVE  proc' \in [Process -> States] /\ \A q \in Process : Tidy(proc'[q])
  <2> DEFINE s == [proc[p] EXCEPT !.pc = "done", !.used = d]
  <2>1. s \in States /\ Tidy(s)
    BY <1>0, <1>r DEF States
  <2>2. CASE Use(p, d)
    <3>1. proc' = [proc EXCEPT ![p] = s]
      BY <2>2 DEF Use
    <3> QED BY <2>1, <3>1, Moved
  <2> QED BY <1>f, <1>r, <2>2 DEF Resolved
<1>g. ASSUME NEW p \in Process, NEW place \in Installing, Goto(p, place),
             Tidy([proc[p] EXCEPT !.pc = place])
      PROVE  proc' \in [Process -> States] /\ \A q \in Process : Tidy(proc'[q])
  <2> DEFINE s == [proc[p] EXCEPT !.pc = place]
  <2>1. s \in States
    BY <1>0 DEF States
  <2>2. proc' = [proc EXCEPT ![p] = s]
    BY <1>g, <1>0 DEF Goto
  <2> QED BY <1>g, <2>1, <2>2, Moved
<1>d. ASSUME NEW r \in Release, NEW c \in BOOLEAN
      PROVE  Found(r, c) \in Root \cup {<<>>}
  BY FoundIs, Places DEF Looked
<1>1. ASSUME NEW p \in Process, Begin(p) PROVE TypeOK'
  <2>1. PICK command \in Commands, r \in Release :
          proc' = [proc EXCEPT ![p] = [Idle EXCEPT !.pc = "resolve", !.command = command, !.release = r]]
    BY <1>1 DEF Begin
  <2> DEFINE s == [Idle EXCEPT !.pc = "resolve", !.command = command, !.release = r]
  <2>2. s \in States /\ Tidy(s)
    BY IdleTyped DEF States, Idle
  <2>3. proc' = [proc EXCEPT ![p] = s]
    BY <2>1
  <2> QED BY <1>0, <1>1, <1>t, <2>2, <2>3, Moved DEF Begin
<1>2. ASSUME NEW p \in Process, Resolve(p) PROVE TypeOK'
  <2>1. Found(proc[p].release, config.custom) \in Root \cup {<<>>}
    BY <1>0, <1>d DEF States
  <2>2. Tidy([proc[p] EXCEPT !.pc = "install"])
    BY <1>0, <1>2 DEF Resolve, States
  <2>3. "install" \in Installing
    BY DEF Installing
  <2>4. proc' \in [Process -> States] /\ \A q \in Process : Tidy(proc'[q])
    BY <1>2, <1>f, <1>r, <1>g, <2>1, <2>2, <2>3 DEF Resolve
  <2> QED BY <1>0, <1>2, <1>t, <2>4 DEF Resolve
<1>3. ASSUME NEW p \in Process, Install(p) PROVE TypeOK'
  <2>1. Found(proc[p].release, FALSE) \in Root \cup {<<>>}
    BY <1>0, <1>d DEF States
  <2>2. Tidy([proc[p] EXCEPT !.pc = "archive"])
    BY <1>0, <1>3 DEF Install, States
  <2>3. "archive" \in Installing
    BY DEF Installing
  <2>4. proc' \in [Process -> States] /\ \A q \in Process : Tidy(proc'[q])
    BY <1>3, <1>r, <1>g, <2>1, <2>2, <2>3 DEF Install
  <2> QED BY <1>0, <1>3, <1>t, <2>4 DEF Install
<1>4. ASSUME NEW p \in Process, CheckArchive(p) PROVE TypeOK'
  <2>1. /\ Tidy([proc[p] EXCEPT !.pc = "download"])
        /\ Tidy([proc[p] EXCEPT !.pc = "extract"])
    BY <1>0, <1>4 DEF CheckArchive, States
  <2>2. "download" \in Installing /\ "extract" \in Installing
    BY DEF Installing
  <2>3. Fail(p) \/ Goto(p, "download") \/ Goto(p, "extract")
    BY <1>4 DEF CheckArchive
  <2>4. proc' \in [Process -> States] /\ \A q \in Process : Tidy(proc'[q])
    BY <1>f, <1>g, <2>1, <2>2, <2>3
  <2> QED BY <1>0, <1>4, <1>t, <2>4 DEF CheckArchive
<1>5. ASSUME NEW p \in Process, Download(p) PROVE TypeOK'
  <2>1. PICK t \in {"good", "bad"} : proc' = [proc EXCEPT ![p] = [@ EXCEPT !.pc = "verify", !.temp = t]]
    BY <1>5 DEF Download
  <2> DEFINE s == [proc[p] EXCEPT !.pc = "verify", !.temp = t]
  <2>2. s \in States /\ Tidy(s)
    BY <1>0, <1>5 DEF States, Installing, Download
  <2>3. proc' = [proc EXCEPT ![p] = s]
    BY <2>1
  <2>4. faults' \in 0..MaxFaults
    BY <1>0, <1>i, <1>5 DEF Download
  <2> QED BY <1>0, <1>5, <1>t, <2>2, <2>3, <2>4, Moved DEF Download
<1>6. ASSUME NEW p \in Process, KeepDownload(p) PROVE TypeOK'
  <2> DEFINE s == [proc[p] EXCEPT !.pc = "extract", !.temp = "none"]
  <2>1. s \in States /\ Tidy(s)
    BY <1>0, <1>6 DEF States, Installing, KeepDownload
  <2>2. proc' = [proc EXCEPT ![p] = s] \/ Fail(p)
    BY <1>6 DEF KeepDownload
  <2>3. archive' \in [Release -> {"none", "good", "bad"}]
    BY <1>0, <1>6 DEF KeepDownload
  <2>4. proc' \in [Process -> States] /\ \A q \in Process : Tidy(proc'[q])
    BY <1>f, <2>1, <2>2, Moved
  <2> QED BY <1>0, <1>6, <1>t, <2>3, <2>4 DEF KeepDownload
<1>7. ASSUME NEW p \in Process, Extract(p) PROVE TypeOK'
  <2> DEFINE w == [Whole(proc[p].release) EXCEPT !.has = Compilers]
             s == [proc[p] EXCEPT !.pc = "extracting", !.tree = w]
  <2>0. proc[p].release \in Release
    BY <1>0 DEF States
  <2>1. w \in Content
    BY <2>0 DEF Whole, Content, Required
  <2>2. s \in States /\ Tidy(s)
    BY <1>0, <1>7, <2>1 DEF States, Installing, Extract
  <2>3. proc' = [proc EXCEPT ![p] = s] \/ Fail(p)
    BY <1>7 DEF Extract
  <2>4. proc' \in [Process -> States] /\ \A q \in Process : Tidy(proc'[q])
    BY <1>f, <2>2, <2>3, Moved
  <2> QED BY <1>0, <1>7, <1>t, <2>4 DEF Extract
<1>8. ASSUME NEW p \in Process, Extracted(p) PROVE TypeOK'
  <2> DEFINE w == IF archive[proc[p].release] = "bad"
                  THEN [proc[p].tree EXCEPT !.has = Required]
                  ELSE Whole(proc[p].release)
             s == [proc[p] EXCEPT !.pc = "check", !.tree = w]
  <2>0. proc[p].release \in Release /\ proc[p].tree \in Content
    BY <1>0 DEF States
  <2>1. w \in Content
    BY <2>0 DEF Whole, Content
  <2>2. s \in States /\ Tidy(s)
    BY <1>0, <1>8, <2>1 DEF States, Installing, Extracted
  <2>3. proc' = [proc EXCEPT ![p] = s] \/ Fail(p)
    BY <1>8 DEF Extracted
  <2>4. proc' \in [Process -> States] /\ \A q \in Process : Tidy(proc'[q])
    BY <1>f, <2>2, <2>3, Moved
  <2> QED BY <1>0, <1>8, <1>t, <2>4 DEF Extracted
<1>9. ASSUME NEW p \in Process, CheckTree(p) PROVE TypeOK'
  <2>1. Tidy([proc[p] EXCEPT !.pc = "rename"])
    BY <1>0, <1>9 DEF CheckTree, States
  <2>2. "rename" \in Installing
    BY DEF Installing
  <2>3. proc' \in [Process -> States] /\ \A q \in Process : Tidy(proc'[q])
    BY <1>9, <1>f, <1>g, <2>1, <2>2 DEF CheckTree
  <2> QED BY <1>0, <1>9, <1>t, <2>3 DEF CheckTree
<1>10. ASSUME NEW p \in Process, Rename(p) PROVE TypeOK'
  <2> DEFINE s == [proc[p] EXCEPT !.pc = "installed", !.tree = Absent]
  <2>1. proc[p].release \in Release /\ proc[p].tree \in Content
    BY <1>0 DEF States
  <2>2. s \in States /\ Tidy(s)
    BY <1>0, <1>10, <2>1, WholeIsValid DEF States, Installing, Rename
  <2>3. proc' = [proc EXCEPT ![p] = s] \/ Fail(p)
    BY <1>10 DEF Rename
  <2>4. root' \in [Root -> Content]
    BY <1>0, <1>10, <2>1 DEF Rename
  <2>5. proc' \in [Process -> States] /\ \A q \in Process : Tidy(proc'[q])
    BY <1>f, <2>2, <2>3, Moved
  <2> QED BY <1>0, <1>10, <1>t, <2>4, <2>5 DEF Rename
<1>11. ASSUME NEW p \in Process, Installed(p) PROVE TypeOK'
  <2>1. InstallRoot(proc[p].release) \in Root
    BY <1>0, Places DEF States
  <2>2. proc' \in [Process -> States] /\ \A q \in Process : Tidy(proc'[q])
    BY <1>11, <1>r, <2>1 DEF Installed
  <2> QED BY <1>0, <1>11, <1>t, <2>2 DEF Installed
<1>12. ASSUME NEW p \in Process, Kill(p) PROVE TypeOK'
  <2>1. proc' \in [Process -> States] /\ \A q \in Process : Tidy(proc'[q])
    BY <1>12, IdleTyped, Moved DEF Kill
  <2>2. faults' \in 0..MaxFaults
    BY <1>0, <1>i, <1>12 DEF Kill
  <2> QED BY <1>0, <1>12, <1>t, <2>1, <2>2 DEF Kill
<1>13. ASSUME Configure PROVE TypeOK'
  <2>1. config' \in [release : Release, custom : BOOLEAN]
    BY <1>13 DEF Configure
  <2>2. edits' \in 0..MaxEdits
    BY <1>0, <1>i, <1>13 DEF Configure
  <2> QED BY <1>0, <1>13, <1>t, <2>1, <2>2 DEF Configure
<1>14. ASSUME StartClean PROVE TypeOK'
  <2>1. cleans' \in 0..MaxCleans
    BY <1>0, <1>i, <1>14 DEF StartClean
  <2> QED BY <1>0, <1>14, <1>t, <2>1 DEF StartClean
<1>15. ASSUME Clean PROVE TypeOK'
  <2>1. \A c \in Content : Torn(c) \in Content
    BY DEF Torn, Content, Absent
  <2>2. root' \in [Root -> Content]
    <3>1. ASSUME NEW d \in Root, root' = [root EXCEPT ![d] = Torn(@)]
          PROVE  root' \in [Root -> Content]
      BY <1>0, <2>1, <3>1
    <3> QED BY <1>0, <1>15, <3>1 DEF Clean, Downloads
  <2>3. archive' \in [Release -> {"none", "good", "bad"}]
    BY <1>0, <1>15 DEF Clean
  <2>4. proc' \in [Process -> States] /\ \A q \in Process : Tidy(proc'[q])
    <3>1. CASE UNCHANGED proc
      BY <1>0, <3>1
    <3>2. ASSUME NEW p \in Process, proc[p].temp # "none", proc' = [proc EXCEPT ![p].temp = "none"]
          PROVE  proc' \in [Process -> States] /\ \A q \in Process : Tidy(proc'[q])
      <4> DEFINE s == [proc[p] EXCEPT !.temp = "none"]
      <4>1. s \in States /\ Tidy(s)
        BY <1>0 DEF States
      <4> QED BY <3>2, <4>1, Moved
    <3>3. ASSUME NEW p \in Process, proc[p].tree # Absent, proc' = [proc EXCEPT ![p].tree = Torn(@)]
          PROVE  proc' \in [Process -> States] /\ \A q \in Process : Tidy(proc'[q])
      <4> DEFINE s == [proc[p] EXCEPT !.tree = Torn(@)]
      <4>1. s \in States /\ Tidy(s)
        BY <1>0, <2>1, <3>3 DEF States
      <4> QED BY <3>3, <4>1, Moved
    <3> QED BY <1>15, <3>1, <3>2, <3>3 DEF Clean
  <2>5. cleaning' \in BOOLEAN
    BY <1>0, <1>15 DEF Clean
  <2> QED BY <1>0, <1>15, <1>t, <2>2, <2>3, <2>4, <2>5 DEF Clean
<1>16. CASE UNCHANGED vars
  BY <1>0, <1>16, <1>t DEF vars
<1> QED BY <1>1, <1>2, <1>3, <1>4, <1>5, <1>6, <1>7, <1>8, <1>9, <1>10, <1>11, <1>12,
           <1>13, <1>14, <1>15, <1>16 DEF Next, Step

(* Types, for any number of commands, releases, roots and bounds.           *)
THEOREM TypeCorrect == Spec => []TypeOK
BY TypeInit, TypeStep, PTL DEF Spec

-----------------------------------------------------------------------------
(* What is installed is whole, and a success is lasting.                    *)

LEMMA FoundEverywhere ==
  \A r \in Release, custom \in BOOLEAN : Found(r, custom) = Looked(r, custom)
BY FoundIs

LEMMA FoundNext ==
  \A r \in Release, custom \in BOOLEAN : Found(r, custom)' = Looked(r, custom)'
<1>1. (\A r \in Release, custom \in BOOLEAN : Found(r, custom) = Looked(r, custom))'
  BY FoundEverywhere, PTL
<1> QED BY <1>1

LEMMA InvInit == Init => IInv
<1> SUFFICES ASSUME Init PROVE IInv
  OBVIOUS
<1>1. InstalledIsWhole
  BY RootAssumption, Places DEF Init, InstalledIsWhole
<1>2. ~ cleaning
  BY DEF Init
<1>3. \A p \in Process : proc[p].pc = "idle"
  BY DEF Init, Idle
<1>4. ASSUME NEW p \in Process PROVE Unpacked(p) /\ Sought(p) /\ Lasting(p)
  BY <1>3 DEF Unpacked, Sought, Lasting, Installing
<1> QED BY <1>1, <1>2, <1>4 DEF IInv

\* What another command does to itself disturbs nobody.
LEMMA OthersKeep ==
  ASSUME TypeOK, UNCHANGED <<root, config, edits>>,
         NEW q \in Process, proc'[q] = proc[q],
         Unpacked(q), Sought(q), Lasting(q),
         \A r \in Release : archive[r] = "good" => archive'[r] = "good"
  PROVE  Unpacked(q)' /\ Sought(q)' /\ Lasting(q)'
<1>1. proc[q].release \in Release
  BY TypeIs DEF States
<1>2. Unpacked(q)'
  BY <1>1 DEF Unpacked
<1>3. Sought(q)'
  BY DEF Sought
<1>4. Lasting(q)'
  BY DEF Lasting, Found
<1> QED BY <1>2, <1>3, <1>4

LEMMA StepKeeps ==
  ASSUME TypeOK, IInv, cleans = 0, UNCHANGED <<root, config, edits, cleans, cleaning>>,
         NEW p \in Process, \A q \in Process : q # p => proc'[q] = proc[q],
         \A r \in Release : archive[r] = "good" => archive'[r] = "good",
         Unpacked(p)', Sought(p)', Lasting(p)'
  PROVE  IInv'
<1>1. InstalledIsWhole'
  BY DEF IInv, InstalledIsWhole
<1>2. ASSUME NEW q \in Process PROVE Unpacked(q)' /\ Sought(q)' /\ Lasting(q)'
  BY <1>2, OthersKeep DEF IInv
<1> QED BY <1>1, <1>2 DEF IInv

\* Where nothing was found there can only be what an install has put there.
LEMMA FoundByInstall ==
  ASSUME TypeOK, NEW p \in Process, Sought(p), proc[p].pc \in Installing
  PROVE  LET r == proc[p].release IN
         /\ Found(r, FALSE) = IF Exists(root[InstallRoot(r)]) THEN InstallRoot(r) ELSE <<>>
         /\ edits = 0 => Found(r, config.custom) = Found(r, FALSE)
<1>1. proc[p].release \in Release /\ config.custom \in BOOLEAN
  BY TypeIs DEF States
<1> QED BY <1>1, FoundEverywhere DEF Sought, Looked, Exists

\* The step of a command that ends or goes on.
LEMMA FailKeeps ==
  ASSUME TypeOK, NEW p \in Process, Fail(p)
  PROVE  /\ Unpacked(p)' /\ Sought(p)' /\ Lasting(p)'
         /\ \A q \in Process : q # p => proc'[q] = proc[q]
<1>1. proc'[p].pc = "failed" /\ \A q \in Process : q # p => proc'[q] = proc[q]
  BY TypeIs DEF Fail, States
<1> QED BY <1>1 DEF Unpacked, Sought, Lasting, Installing

LEMMA ResolvedKeeps ==
  ASSUME TypeOK, UNCHANGED <<root, config, edits>>, NEW p \in Process, NEW d \in Root,
         d # <<>>, edits = 0 => Found(proc[p].release, config.custom) = d, Resolved(p, d)
  PROVE  /\ Unpacked(p)' /\ Sought(p)' /\ Lasting(p)'
         /\ \A q \in Process : q # p => proc'[q] = proc[q]
<1>1. CASE Fail(p)
  BY <1>1, FailKeeps
<1>2. CASE Use(p, d) /\ Valid(root[d], proc[p].release)
  <2>1. /\ proc'[p].pc = "done" /\ proc'[p].used = d /\ proc'[p].release = proc[p].release
        /\ \A q \in Process : q # p => proc'[q] = proc[q]
    BY <1>2, TypeIs DEF Use, States
  <2>2. edits = 0 => Found(proc[p].release, config.custom)' = d
    BY <2>1 DEF Found
  <2>3. Lasting(p)'
    BY <1>2, <2>1, <2>2 DEF Lasting
  <2> QED BY <2>1, <2>3 DEF Unpacked, Sought, Installing
<1> QED BY <1>1, <1>2 DEF Resolved

\* Who goes on keeps what it knows.
LEMMA GotoKeeps ==
  ASSUME TypeOK, UNCHANGED <<root, config, edits>>,
         NEW p \in Process, proc[p].pc \in Installing, Sought(p),
         proc'[p].release = proc[p].release, proc'[p].pc \in Installing,
         Unpacked(p)'
  PROVE  Unpacked(p)' /\ Sought(p)' /\ Lasting(p)'
<1>1. Sought(p)'
  BY DEF Sought
<1>2. Lasting(p)'
  BY DEF Lasting, Installing
<1> QED BY <1>1, <1>2

LEMMA InvStep == TypeOK /\ IInv /\ [Next]_vars => IInv'
<1> SUFFICES ASSUME TypeOK, IInv, [Next]_vars PROVE IInv'
  OBVIOUS
<1>1. CASE cleans' # 0
  BY <1>1 DEF IInv
<1>2. CASE cleans' = 0
  <2>0. cleans = 0 /\ cleans' = cleans /\ ~ StartClean
    <3>1. ASSUME StartClean PROVE FALSE
      BY <1>2, <3>1, TypeIs DEF StartClean
    <3>2. ASSUME NEW p \in Process, Step(p) PROVE cleans' = cleans
      BY <3>2 DEF Step, Resolve, Install, CheckArchive, Download, KeepDownload, Extract,
         Extracted, CheckTree, Rename, Installed
    <3>3. ASSUME NEW p \in Process, Begin(p) \/ Kill(p) PROVE cleans' = cleans
      BY <3>3 DEF Begin, Kill
    <3>4. ASSUME Clean \/ Configure \/ UNCHANGED vars PROVE cleans' = cleans
      BY <3>4 DEF Clean, Configure, vars
    <3> QED BY <1>2, <3>1, <3>2, <3>3, <3>4 DEF Next
  <2>i. ~ cleaning /\ InstalledIsWhole /\ \A p \in Process : Unpacked(p) /\ Sought(p) /\ Lasting(p)
    BY <2>0 DEF IInv
  <2>t. /\ proc \in [Process -> States] /\ config.custom \in BOOLEAN
        /\ root \in [Root -> Content] /\ archive \in [Release -> {"none", "good", "bad"}]
    BY TypeIs
  <2>r. \A p \in Process : proc[p].release \in Release
    BY <2>t DEF States
  <2>1. ASSUME NEW p \in Process, Begin(p) PROVE IInv'
    <3>1. proc'[p].pc = "resolve" /\ \A q \in Process : q # p => proc'[q] = proc[q]
      BY <2>1, <2>t DEF Begin, Idle
    <3>2. Unpacked(p)' /\ Sought(p)' /\ Lasting(p)'
      BY <3>1 DEF Unpacked, Sought, Lasting, Installing
    <3> QED BY <2>0, <2>1, <3>1, <3>2, StepKeeps DEF Begin
  <2>2. ASSUME NEW p \in Process, Resolve(p) PROVE IInv'
    <3> DEFINE r == proc[p].release
               d == Found(r, config.custom)
    <3>u. UNCHANGED <<config, root, archive, cleaning, cleans, faults, edits>>
      BY <2>2 DEF Resolve
    <3>1. d \in Root \cup {<<>>}
      BY <2>t, <2>r, FoundEverywhere, Places DEF Looked
    <3>2. ASSUME d = <<>>, Goto(p, "install")
          PROVE  /\ Unpacked(p)' /\ Sought(p)' /\ Lasting(p)'
                 /\ \A q \in Process : q # p => proc'[q] = proc[q]
      <4>1. /\ proc'[p].pc = "install" /\ proc'[p].release = r
            /\ \A q \in Process : q # p => proc'[q] = proc[q]
        BY <3>2, <2>t DEF Goto, States
      <4>2. Looked(r, config.custom) = <<>>
        BY <3>2, <2>r, <2>t, FoundEverywhere
      <4>3. /\ root[EnvRoot(r)] = Absent /\ root[LegacyRoot(r)] = Absent
            /\ config.custom => root[Custom] = Absent
        BY <4>2, <2>r, Places DEF Looked, Exists
      <4>4. Sought(p)'
        BY <3>u, <4>1, <4>3 DEF Sought
      <4> QED BY <4>1, <4>4 DEF Unpacked, Lasting
    <3>3. /\ Unpacked(p)' /\ Sought(p)' /\ Lasting(p)'
          /\ \A q \in Process : q # p => proc'[q] = proc[q]
      <4>1. CASE d # <<>> /\ Resolved(p, d)
        BY <3>1, <3>u, <4>1, ResolvedKeeps
      <4>2. CASE d = <<>> /\ Goto(p, "install")
        BY <3>2, <4>2
      <4>3. CASE Fail(p)
        BY <4>3, FailKeeps
      <4> QED BY <2>2, <4>1, <4>2, <4>3 DEF Resolve
    <3> QED BY <2>0, <3>u, <3>3, StepKeeps
  <2>3. ASSUME NEW p \in Process, Install(p) PROVE IInv'
    <3> DEFINE r == proc[p].release
               d == Found(r, FALSE)
    <3>u. UNCHANGED <<config, root, archive, cleaning, cleans, faults, edits>>
      BY <2>3 DEF Install
    <3>1. d \in Root \cup {<<>>}
      BY <2>t, <2>r, FoundEverywhere, Places DEF Looked
    <3>2. proc[p].pc \in Installing
      BY <2>3 DEF Install, Installing
    <3>3. edits = 0 => Found(r, config.custom) = d
      BY <2>i, <3>2, FoundByInstall
    <3>4. CASE d # <<>> /\ Resolved(p, d)
      <4>1. /\ Unpacked(p)' /\ Sought(p)' /\ Lasting(p)'
            /\ \A q \in Process : q # p => proc'[q] = proc[q]
        BY <3>1, <3>3, <3>4, <3>u, ResolvedKeeps
      <4> QED BY <2>0, <3>u, <4>1, StepKeeps
    <3>5. CASE Goto(p, "archive")
      <4>1. /\ proc'[p].pc = "archive" /\ proc'[p].release = r
            /\ \A q \in Process : q # p => proc'[q] = proc[q]
        BY <3>5, <2>t DEF Goto, States
      <4>2. Unpacked(p)' /\ "archive" \in Installing
        BY <4>1 DEF Unpacked, Installing
      <4> QED BY <2>0, <2>i, <3>2, <3>u, <4>1, <4>2, GotoKeeps, StepKeeps
    <3> QED BY <2>3, <3>4, <3>5 DEF Install
  <2>4. ASSUME NEW p \in Process, CheckArchive(p) PROVE IInv'
    <3>u. UNCHANGED <<config, root, archive, cleaning, cleans, faults, edits>>
      BY <2>4 DEF CheckArchive
    <3>1. CASE Fail(p)
      BY <2>0, <3>u, <3>1, FailKeeps, StepKeeps
    <3>2. ASSUME NEW place \in {"download", "extract"}, Goto(p, place),
                 place = "extract" => archive[proc[p].release] = "good"
          PROVE  IInv'
      <4>1. /\ proc'[p].pc = place /\ proc'[p].release = proc[p].release
            /\ \A q \in Process : q # p => proc'[q] = proc[q]
        BY <3>2, <2>t DEF Goto, States
      <4>2. Unpacked(p)' /\ proc'[p].pc \in Installing /\ proc[p].pc \in Installing
        BY <2>4, <3>2, <3>u, <4>1 DEF Unpacked, Installing, CheckArchive
      <4> QED BY <2>0, <2>i, <3>u, <4>1, <4>2, GotoKeeps, StepKeeps
    <3> QED BY <2>4, <3>1, <3>2 DEF CheckArchive
  <2>5. ASSUME NEW p \in Process, Download(p) PROVE IInv'
    <3>1. /\ proc'[p].pc = "verify" /\ proc'[p].release = proc[p].release
          /\ \A q \in Process : q # p => proc'[q] = proc[q]
      BY <2>5, <2>t DEF Download, States
    <3>2. Unpacked(p)' /\ proc'[p].pc \in Installing /\ proc[p].pc \in Installing
      BY <2>5, <3>1 DEF Unpacked, Installing, Download
    <3>3. UNCHANGED <<config, root, archive, cleaning, cleans, edits>>
      BY <2>5 DEF Download
    <3> QED BY <2>0, <2>i, <3>1, <3>2, <3>3, GotoKeeps, StepKeeps
  <2>6. ASSUME NEW p \in Process, KeepDownload(p) PROVE IInv'
    <3>u. UNCHANGED <<config, root, cleaning, cleans, faults, edits>>
      BY <2>6 DEF KeepDownload
    <3>1. CASE Fail(p) /\ archive' = archive
      BY <2>0, <3>u, <3>1, FailKeeps, StepKeeps
    <3>2. CASE /\ archive' = [archive EXCEPT ![proc[p].release] = "good"]
               /\ proc' = [proc EXCEPT ![p] = [@ EXCEPT !.pc = "extract", !.temp = "none"]]
      <4>1. /\ proc'[p].pc = "extract" /\ proc'[p].release = proc[p].release
            /\ \A q \in Process : q # p => proc'[q] = proc[q]
        BY <3>2, <2>t DEF States
      <4>2. /\ archive'[proc[p].release] = "good"
            /\ \A r \in Release : archive[r] = "good" => archive'[r] = "good"
        BY <3>2, <2>t, <2>r
      <4>3. Unpacked(p)' /\ proc'[p].pc \in Installing /\ proc[p].pc \in Installing
        BY <2>6, <4>1, <4>2 DEF Unpacked, Installing, KeepDownload
      <4> QED BY <2>0, <2>i, <3>u, <4>1, <4>2, <4>3, GotoKeeps, StepKeeps
    <3> QED BY <2>6, <3>1, <3>2 DEF KeepDownload
  <2>7. ASSUME NEW p \in Process, Extract(p) PROVE IInv'
    <3>u. UNCHANGED <<config, root, archive, cleaning, cleans, faults, edits>>
      BY <2>7 DEF Extract
    <3>1. archive[proc[p].release] = "good"
      BY <2>7, <2>i DEF Extract, Unpacked
    <3>2. /\ proc'[p].pc = "extracting" /\ proc'[p].release = proc[p].release
          /\ proc'[p].tree = [Whole(proc[p].release) EXCEPT !.has = Compilers]
          /\ \A q \in Process : q # p => proc'[q] = proc[q]
      <4>1. proc' = [proc EXCEPT ![p] = [@ EXCEPT !.pc = "extracting",
                        !.tree = [Whole(proc[p].release) EXCEPT !.has = Compilers]]]
        BY <2>7, <3>1 DEF Extract
      <4> QED BY <2>t, <4>1 DEF States
    <3>3. Unpacked(p)' /\ proc'[p].pc \in Installing /\ proc[p].pc \in Installing
      BY <2>7, <3>u, <3>1, <3>2 DEF Unpacked, Installing, Extract, Whole
    <3> QED BY <2>0, <2>i, <3>u, <3>2, <3>3, GotoKeeps, StepKeeps
  <2>8. ASSUME NEW p \in Process, Extracted(p) PROVE IInv'
    <3>u. UNCHANGED <<config, root, archive, cleaning, cleans, faults, edits>>
      BY <2>8 DEF Extracted
    <3>1. CASE Fail(p)
      BY <2>0, <3>u, <3>1, FailKeeps, StepKeeps
    <3>2. CASE ~ Fail(p)
      <4>1. archive[proc[p].release] = "good"
        BY <2>8, <2>i DEF Extracted, Unpacked
      <4>2. /\ proc'[p].pc = "check" /\ proc'[p].release = proc[p].release
            /\ proc'[p].tree = Whole(proc[p].release)
            /\ \A q \in Process : q # p => proc'[q] = proc[q]
        <5>1. proc' = [proc EXCEPT ![p] = [@ EXCEPT !.pc = "check",
                          !.tree = Whole(proc[p].release)]]
          BY <2>8, <3>2, <4>1 DEF Extracted
        <5> QED BY <2>t, <5>1 DEF States
      <4>3. Unpacked(p)' /\ proc'[p].pc \in Installing /\ proc[p].pc \in Installing
        BY <2>8, <3>u, <4>1, <4>2 DEF Unpacked, Installing, Extracted, Whole
      <4> QED BY <2>0, <2>i, <3>u, <4>2, <4>3, GotoKeeps, StepKeeps
    <3> QED BY <3>1, <3>2
  <2>9. ASSUME NEW p \in Process, CheckTree(p) PROVE IInv'
    <3>u. UNCHANGED <<config, root, archive, cleaning, cleans, faults, edits>>
      BY <2>9 DEF CheckTree
    <3>1. CASE Fail(p)
      BY <2>0, <3>u, <3>1, FailKeeps, StepKeeps
    <3>2. CASE Goto(p, "rename")
      <4>1. /\ proc'[p].pc = "rename" /\ proc'[p].release = proc[p].release
            /\ proc'[p].tree = proc[p].tree
            /\ \A q \in Process : q # p => proc'[q] = proc[q]
        BY <3>2, <2>t DEF Goto, States
      <4>2. proc[p].tree = Whole(proc[p].release)
        BY <2>9, <2>i DEF CheckTree, Unpacked
      <4>3. Unpacked(p)' /\ proc'[p].pc \in Installing /\ proc[p].pc \in Installing
        BY <2>9, <4>1, <4>2 DEF Unpacked, Installing, CheckTree, Whole
      <4> QED BY <2>0, <2>i, <3>u, <4>1, <4>3, GotoKeeps, StepKeeps
    <3> QED BY <2>9, <3>1, <3>2 DEF CheckTree
  <2>10. ASSUME NEW p \in Process, Rename(p) PROVE IInv'
    <3> DEFINE r == proc[p].release
               d == InstallRoot(r)
    <3>u. UNCHANGED <<config, archive, cleaning, cleans, faults, edits>>
      BY <2>10 DEF Rename
    <3>1. CASE Fail(p) /\ root' = root
      BY <2>0, <3>u, <3>1, FailKeeps, StepKeeps
    <3>2. CASE ~ (Fail(p) /\ root' = root)
      <4>1. /\ root[d] = Absent /\ root' = [root EXCEPT ![d] = proc[p].tree]
            /\ proc' = [proc EXCEPT ![p] = [@ EXCEPT !.pc = "installed", !.tree = Absent]]
        BY <2>10, <3>2 DEF Rename, Exists
      <4>2. proc[p].pc = "rename" /\ proc[p].tree = Whole(r) /\ proc[p].pc \in Installing
        BY <2>10, <2>i DEF Rename, Unpacked, Installing
      <4>3. d \in Root /\ root'[d] = Whole(r) /\ \A c \in Root : c # d => root'[c] = root[c]
        BY <2>r, <2>t, <4>1, <4>2, Places
      <4>4. /\ proc'[p].pc = "installed" /\ proc'[p].release = r
            /\ \A q \in Process : q # p => proc'[q] = proc[q]
        BY <2>t, <4>1 DEF States
      <4>5. InstalledIsWhole'
        BY <2>i, <2>r, <3>u, <4>3, Places DEF InstalledIsWhole
      <4>6. ASSUME NEW q \in Process
            PROVE  Sought(q)' /\ Unpacked(q)'
        <5>1. proc'[q].release = proc[q].release /\ proc[q].release \in Release
          BY <2>r, <4>4
        <5>2. /\ root'[EnvRoot(proc[q].release)] = root[EnvRoot(proc[q].release)]
              /\ root'[LegacyRoot(proc[q].release)] = root[LegacyRoot(proc[q].release)]
              /\ root'[Custom] = root[Custom]
          BY <2>r, <4>3, <5>1, Places
        <5>3. proc'[q].pc \in Installing => proc[q].pc \in Installing
          BY <4>2, <4>4
        <5>4. Sought(q)'
          BY <2>i, <3>u, <5>1, <5>2, <5>3 DEF Sought
        <5>5. CASE q = p
          BY <4>3, <4>4, <5>4, <5>5 DEF Unpacked
        <5>6. CASE q # p
          <6>1. root[InstallRoot(proc[q].release)] = Whole(proc[q].release)
                  => root'[InstallRoot(proc[q].release)] = Whole(proc[q].release)
            BY <2>r, <4>1, <4>3, <5>1, Places, WholeIsValid
          <6> QED BY <2>i, <3>u, <4>4, <5>4, <5>6, <6>1 DEF Unpacked
        <5> QED BY <5>4, <5>5, <5>6
      <4>7. ASSUME NEW q \in Process, q # p
            PROVE  Lasting(q)'
        <5> DEFINE w == proc[q].release
                   u == proc[q].used
        <5>1. SUFFICES ASSUME proc[q].pc = "done", edits = 0
                       PROVE  /\ u # <<>> /\ Found(w, config.custom)' = u
                              /\ Valid(root'[u], w)
          BY <3>u, <4>4, <4>7 DEF Lasting
        <5>2. /\ u # <<>> /\ Found(w, config.custom) = u
              /\ Valid(root[u], w) /\ w \in Release
          BY <2>i, <2>r, <5>1 DEF Lasting
        <5>3. Looked(w, config.custom) = u
          BY <2>t, <5>2, FoundEverywhere
        <5>4. w' = w /\ u' = u
          BY <4>4, <4>7
        <5>5. Found(w, config.custom)' = Looked(w, config.custom)'
          BY <2>t, <3>u, <5>2, <5>4, FoundNext
        <5>6. root[u] # Absent /\ u \in Root
          BY <5>2, <5>3, Places DEF Looked, Exists
        <5>7. u # d /\ root'[u] = root[u]
          BY <4>1, <4>3, <5>6
        <5>8. /\ root'[EnvRoot(w)] = root[EnvRoot(w)] /\ root'[LegacyRoot(w)] = root[LegacyRoot(w)]
              /\ root'[Custom] = root[Custom]
          BY <2>r, <4>3, <5>2, Places
        <5>9. Looked(w, config.custom)' = u
          <6>1. CASE InstallRoot(w) # d
            <7>1. root'[InstallRoot(w)] = root[InstallRoot(w)]
              BY <4>3, <5>2, <6>1, Places
            <7> QED BY <3>u, <5>3, <5>4, <5>8, <7>1 DEF Looked, Exists
          <6>2. CASE InstallRoot(w) = d
            <7>1. w = r
              BY <2>r, <5>2, <6>2, Places
            <7>2. root[EnvRoot(w)] = Absent /\ root[LegacyRoot(w)] = Absent
              BY <2>i, <4>2, <7>1 DEF Sought
            <7>3. u = Custom /\ config.custom /\ Exists(root[Custom])
              BY <4>1, <5>2, <5>3, <7>1, <7>2 DEF Looked, Exists
            <7> QED BY <3>u, <5>4, <5>8, <7>3 DEF Looked, Exists
          <6> QED BY <6>1, <6>2
        <5> QED BY <5>2, <5>5, <5>7, <5>9
      <4>8. Lasting(p)'
        BY <4>4 DEF Lasting
      <4> QED BY <2>i, <3>u, <4>5, <4>6, <4>7, <4>8 DEF IInv
    <3> QED BY <3>1, <3>2
  <2>11. ASSUME NEW p \in Process, Installed(p) PROVE IInv'
    <3> DEFINE r == proc[p].release
               d == InstallRoot(r)
    <3>u. UNCHANGED <<config, root, archive, cleaning, cleans, faults, edits>>
      BY <2>11 DEF Installed
    <3>1. d \in Root /\ d # <<>>
      BY <2>r, Places
    <3>2. proc[p].pc \in Installing /\ root[d] = Whole(r)
      BY <2>11, <2>i DEF Installed, Installing, Unpacked
    <3>3. edits = 0 => Found(r, config.custom) = d
      BY <2>i, <2>r, <3>2, FoundByInstall, WholeIsValid DEF Exists
    <3>4. /\ Unpacked(p)' /\ Sought(p)' /\ Lasting(p)'
          /\ \A q \in Process : q # p => proc'[q] = proc[q]
      BY <2>11, <3>1, <3>3, <3>u, ResolvedKeeps DEF Installed
    <3> QED BY <2>0, <3>u, <3>4, StepKeeps
  <2>12. ASSUME NEW p \in Process, Kill(p) PROVE IInv'
    <3>1. proc'[p].pc = "idle" /\ \A q \in Process : q # p => proc'[q] = proc[q]
      BY <2>12, <2>t DEF Kill, Idle
    <3>2. Unpacked(p)' /\ Sought(p)' /\ Lasting(p)'
      BY <3>1 DEF Unpacked, Sought, Lasting, Installing
    <3> QED BY <2>0, <2>12, <3>1, <3>2, StepKeeps DEF Kill
  <2>13. ASSUME Configure PROVE IInv'
    <3>1. edits' # 0 /\ UNCHANGED <<root, archive, proc, cleaning, cleans>>
      BY <2>13, TypeIs DEF Configure
    <3>2. ASSUME NEW q \in Process PROVE Unpacked(q)' /\ Sought(q)' /\ Lasting(q)'
      BY <2>i, <3>1 DEF Unpacked, Sought, Lasting
    <3> QED BY <2>i, <3>1, <3>2 DEF IInv, InstalledIsWhole
  <2>14. CASE UNCHANGED vars
    <3>1. UNCHANGED <<root, config, edits, cleans, cleaning, proc, archive>>
      BY <2>14 DEF vars
    <3>2. ASSUME NEW q \in Process PROVE Unpacked(q)' /\ Sought(q)' /\ Lasting(q)'
      BY <2>i, <3>1, OthersKeep
    <3> QED BY <2>i, <3>1, <3>2 DEF IInv, InstalledIsWhole
  <2>15. ~ Clean
    BY <2>i DEF Clean
  <2> QED BY <2>0, <2>1, <2>2, <2>3, <2>4, <2>5, <2>6, <2>7, <2>8, <2>9, <2>10, <2>11,
             <2>12, <2>13, <2>14, <2>15 DEF Next, Step
<1> QED BY <1>1, <1>2

LEMMA Invariant == Spec => [](TypeOK /\ IInv)
<1>1. Init => TypeOK /\ IInv
  BY TypeInit, InvInit
<1>2. TypeOK /\ IInv /\ [Next]_vars => TypeOK' /\ IInv'
  BY TypeStep, InvStep
<1> QED BY <1>1, <1>2, PTL DEF Spec

(* What is installed is the whole toolchain of its release, for any number  *)
(* of commands, kills and bad downloads: only download-clean leaves less.   *)
THEOREM OnlyWholeInstalls == Spec => []InstalledIsWhole
<1>1. IInv => InstalledIsWhole
  BY DEF IInv, InstalledIsWhole
<1> QED BY <1>1, Invariant, PTL

(* What a command has used is what every later one finds, for any number of *)
(* commands that install at once, until somebody edits or cleans.           *)
THEOREM SuccessLasts == Spec => []SuccessIsLasting
<1>1. IInv => SuccessIsLasting
  BY DEF IInv, Lasting, SuccessIsLasting
<1> QED BY <1>1, Invariant, PTL

-----------------------------------------------------------------------------
(* The kernel, K.                                                          *)

ProcState == [pc : K!Places, seen : SUBSET Package, overlay : K!OverlayFiles]
BspState == [config : SUBSET Package, recorded : SUBSET (Package \cap Index),
             errors : BOOLEAN, overlay : K!OverlayFiles,
             installed : [Package -> K!Installed], kernel : K!Kernel]

\* A step of m's command that moves it to another place.
LEMMA GotoType ==
  ASSUME K!TypeOK, NEW m \in Machine, NEW place \in K!Places, K!Goto(m, place)
  PROVE  /\ kernelProc' \in [Machine -> ProcState]
         /\ kernelProc'[m] = [kernelProc[m] EXCEPT !.pc = place]
         /\ \A n \in Machine \ {m} : kernelProc'[n] = kernelProc[n]
BY DEF K!TypeOK, K!Goto, ProcState

LEMMA ProcFields ==
  ASSUME NEW st \in ProcState, NEW place \in K!Places, NEW packages \in SUBSET Package,
         NEW file \in K!OverlayFiles
  PROVE  /\ [st EXCEPT !.pc = place] \in ProcState
         /\ [st EXCEPT !.pc = place, !.seen = packages] \in ProcState
         /\ [st EXCEPT !.pc = place, !.overlay = file] \in ProcState
BY DEF ProcState

LEMMA BspFields ==
  ASSUME NEW b \in BspState, NEW packages \in SUBSET Package, NEW file \in K!OverlayFiles
  PROVE  /\ [b EXCEPT !.config = packages] \in BspState
         /\ [b EXCEPT !.overlay = file] \in BspState
BY DEF BspState

LEMMA BspType ==
  ASSUME K!TypeOK, K!KernelAssumption, NEW m \in Machine
  PROVE  BspOf[m] \in K!Bsp /\ K!B(m) \in BspState
BY DEF K!TypeOK, K!B, K!Bsp, BspState, K!KernelAssumption

LEMMA SetType ==
  ASSUME K!TypeOK, K!KernelAssumption, NEW m \in Machine, NEW value \in BspState, K!Set(m, value)
  PROVE  /\ bsp' \in [K!Bsp -> BspState]
         /\ K!B(m)' = value
         /\ \A n \in Machine : BspOf[n] # BspOf[m] => K!B(n)' = K!B(n)
BY BspType DEF K!TypeOK, K!B, K!Set, BspState

LEMMA RemoveUnrecordedType ==
  ASSUME NEW b \in BspState
  PROVE  /\ K!RemoveUnrecorded(b) \in BspState
         /\ K!RemoveUnrecorded(b).config = b.config
         /\ K!RemoveUnrecorded(b).recorded = b.recorded
         /\ K!RemoveUnrecorded(b).overlay = b.overlay
         /\ \A p \in Package :
              IF p \notin b.recorded /\ b.installed[p] \in {"whole", "torn"}
              THEN K!RemoveUnrecorded(b).installed[p] = "none"
              ELSE K!RemoveUnrecorded(b).installed[p] = b.installed[p]
BY DEF K!RemoveUnrecorded, BspState, K!Installed

LEMMA IdleType == K!Idle \in ProcState
BY DEF K!Idle, K!Places, K!OverlayFiles, ProcState

LEMMA NoKernelType == K!NoKernel \in K!Kernel
BY DEF K!NoKernel, K!None, K!Kernel, K!OverlayFiles

LEMMA InitTypes ==
  ASSUME K!KernelAssumption, K!Init
  PROVE  K!TypeOK
<1> USE DEF K!Init, K!TypeOK, K!KernelAssumption
<1>1. defconfig \in [Machine -> SUBSET Package]
  OBVIOUS
<1>2. bsp \in [K!Bsp -> BspState]
  BY NoKernelType DEF BspState, K!OverlayFiles, K!Installed
<1>3. image \in [Machine -> K!Kernel]
  BY NoKernelType
<1>4. kernelProc \in [Machine -> ProcState]
  BY IdleType
<1>5. /\ source \in {"absent", "whole", "invalid"}
      /\ clone \in [Machine -> {"none", "whole"}]
      /\ overlay \in [Machine -> K!OverlayFiles]
      /\ beside \subseteq Machine /\ kernelEdits \in 0..MaxKernelEdits /\ kernelFaults \in 0..MaxKernelFaults
  BY DEF K!OverlayFiles
<1> QED
  BY <1>1, <1>2, <1>3, <1>4, <1>5 DEF BspState, ProcState, K!Idle

\* From where to where the steps of a build behind the source lead.
LEMMA BuildPlaces ==
  ASSUME kernelProc \in [Machine -> ProcState], NEW m \in Machine,
         K!CopyDefconfig(m) \/ K!Normalize(m) \/ K!RemoveBefore(m) \/ K!Update(m) \/ K!CheckState(m)
         \/ K!RemoveAfter(m) \/ K!Overlay(m) \/ K!Scons(m) \/ K!Install(m) \/ K!UpdateFails(m)
  PROVE  /\ kernelProc[m].pc \in {"packages", "normalize", "before", "update", "check", "after",
                           "overlay", "scons", "install"}
         /\ kernelProc'[m].pc \in {"normalize", "before", "update", "check", "after", "overlay",
                            "scons", "install", "done", "failed"}
         /\ \A n \in Machine \ {m} : kernelProc'[n] = kernelProc[n]
         /\ UNCHANGED <<source, clone, beside>>
<1> USE DEF ProcState, K!Goto
<1>1. CASE K!CopyDefconfig(m)
  BY <1>1 DEF K!CopyDefconfig
<1>2. CASE K!Normalize(m)
  BY <1>2 DEF K!Normalize
<1>3. CASE K!RemoveBefore(m)
  BY <1>3 DEF K!RemoveBefore
<1>4. CASE K!Update(m)
  BY <1>4 DEF K!Update
<1>5. CASE K!CheckState(m)
  BY <1>5 DEF K!CheckState
<1>6. CASE K!RemoveAfter(m)
  BY <1>6 DEF K!RemoveAfter
<1>7. CASE K!Overlay(m)
  BY <1>7 DEF K!Overlay
<1>8. CASE K!Scons(m)
  BY <1>8 DEF K!Scons
<1>9. CASE K!Install(m)
  BY <1>9 DEF K!Install
<1>10. CASE K!UpdateFails(m)
  <2>1. PICK listed \in BOOLEAN : K!Goto(m, IF listed THEN "check" ELSE "failed")
    BY <1>10 DEF K!UpdateFails
  <2> QED
    BY <1>10, <2>1 DEF K!UpdateFails
<1> QED
  BY <1>1, <1>2, <1>3, <1>4, <1>5, <1>6, <1>7, <1>8, <1>9, <1>10

\* And the steps that have nothing to do with the source.
LEMMA OtherPlaces ==
  ASSUME kernelProc \in [Machine -> ProcState], NEW m \in Machine,
         K!Begin(m) \/ K!Seed(m) \/ K!Menu(m) \/ K!Save(m) \/ K!Fail(m)
  PROVE  /\ kernelProc'[m].pc \in {"source", "seed", "menu", "save", "saved", "failed"}
         /\ K!Begin(m) \/ K!Working(m)
         /\ \A n \in Machine \ {m} : kernelProc'[n] = kernelProc[n]
         /\ UNCHANGED <<source, clone>>
<1> USE DEF ProcState, K!Goto
<1>1. CASE K!Begin(m)
  <2>1. PICK place \in {"source", "seed"} : kernelProc' = [kernelProc EXCEPT ![m] = [K!Idle EXCEPT !.pc = place]]
    BY <1>1 DEF K!Begin
  <2> QED
    BY <1>1, <2>1 DEF K!Begin, K!Idle
<1>2. CASE K!Seed(m)
  BY <1>2 DEF K!Seed, K!Working
<1>3. CASE K!Menu(m)
  BY <1>3 DEF K!Menu, K!Working
<1>4. CASE K!Save(m)
  BY <1>4 DEF K!Save, K!Working
<1>5. CASE K!Fail(m)
  BY <1>5 DEF K!Fail
<1> QED
  BY <1>1, <1>2, <1>3, <1>4, <1>5

\* What is renamed has been cloned, by the command itself.
LEMMA ClonesWhole ==
  ASSUME K!TypeOK, [K!Next]_(K!vars)
  PROVE  \A n \in Machine : kernelProc'[n].pc = "rename" => clone'[n] = "whole"
<1>a. kernelProc \in [Machine -> ProcState] /\ clone \in [Machine -> {"none", "whole"}]
  BY DEF K!TypeOK, ProcState
<1>1. ASSUME NEW m \in Machine, K!Source(m) \/ K!Clone(m) \/ K!Rename(m)
      PROVE  \A n \in Machine : kernelProc'[n].pc = "rename" => clone'[n] = "whole"
  <2>1. kernelProc'[m].pc = "rename" => clone'[m] = "whole"
    BY <1>1, <1>a DEF K!Source, K!Clone, K!Rename, K!Goto, ProcState
  <2>2. \A n \in Machine \ {m} : kernelProc'[n] = kernelProc[n] /\ clone'[n] = clone[n]
    BY <1>1, <1>a DEF K!Source, K!Clone, K!Rename, K!Goto
  <2> QED
    BY <2>1, <2>2 DEF K!TypeOK
<1>2. ASSUME NEW m \in Machine,
             K!Begin(m) \/ K!CopyDefconfig(m) \/ K!Normalize(m) \/ K!RemoveBefore(m) \/ K!Update(m)
             \/ K!CheckState(m) \/ K!RemoveAfter(m) \/ K!Overlay(m) \/ K!Scons(m) \/ K!Install(m)
             \/ K!Seed(m) \/ K!Menu(m) \/ K!Save(m) \/ K!UpdateFails(m) \/ K!Fail(m)
      PROVE  \A n \in Machine : kernelProc'[n].pc = "rename" => clone'[n] = "whole"
  BY <1>2, <1>a, BuildPlaces, OtherPlaces DEF K!TypeOK
<1>3. CASE K!EditOverlay \/ UNCHANGED K!vars
  BY <1>3 DEF K!EditOverlay, K!vars, K!TypeOK
<1> QED
  BY <1>1, <1>2, <1>3 DEF K!Next, K!Step

LEMMA StepTypes ==
  ASSUME K!TypeOK, K!KernelAssumption, [K!Next]_(K!vars)
  PROVE  K!TypeOK'
<1> USE DEF K!KernelAssumption
<1>a. /\ source \in {"absent", "whole", "invalid"}
      /\ clone \in [Machine -> {"none", "whole"}]
      /\ defconfig \in [Machine -> SUBSET Package]
      /\ overlay \in [Machine -> K!OverlayFiles]
      /\ bsp \in [K!Bsp -> BspState]
      /\ image \in [Machine -> K!Kernel]
      /\ kernelProc \in [Machine -> ProcState]
      /\ beside \subseteq Machine /\ kernelEdits \in 0..MaxKernelEdits /\ kernelFaults \in 0..MaxKernelFaults
  BY DEF K!TypeOK, BspState, ProcState
<1>b. ASSUME /\ source' \in {"absent", "whole", "invalid"}
             /\ clone' \in [Machine -> {"none", "whole"}]
             /\ defconfig' \in [Machine -> SUBSET Package]
             /\ overlay' \in [Machine -> K!OverlayFiles]
             /\ bsp' \in [K!Bsp -> BspState]
             /\ image' \in [Machine -> K!Kernel]
             /\ kernelProc' \in [Machine -> ProcState]
             /\ beside' \subseteq Machine /\ kernelEdits' \in 0..MaxKernelEdits /\ kernelFaults' \in 0..MaxKernelFaults
      PROVE  K!TypeOK'
  BY <1>b, ClonesWhole DEF K!TypeOK, BspState, ProcState
<1>c. {"idle", "source", "clone", "rename", "packages", "normalize", "before", "update",
       "check", "after", "overlay", "scons", "install", "done", "seed", "menu", "save",
       "saved", "failed"} = K!Places
  BY DEF K!Places
<1>d. ASSUME NEW m \in Machine, NEW place \in K!Places, K!Goto(m, place)
      PROVE  kernelProc' \in [Machine -> ProcState]
  BY <1>d, GotoType
<1>e. ASSUME NEW m \in Machine, NEW value \in BspState, K!Set(m, value)
      PROVE  bsp' \in [K!Bsp -> BspState]
  BY <1>e, SetType
<1>1. ASSUME NEW m \in Machine, K!Begin(m) PROVE K!TypeOK'
  <2>1. kernelProc' \in [Machine -> ProcState]
    <3>1. \A place \in {"source", "seed"} : [K!Idle EXCEPT !.pc = place] \in
            ProcState
      BY IdleType, ProcFields DEF K!Places, K!OverlayFiles
    <3> QED
      BY <1>1, <1>a, <3>1 DEF K!Begin
  <2>2. beside' \subseteq Machine
    BY <1>1, <1>a DEF K!Begin
  <2> QED
    BY <1>1, <1>a, <1>b, <2>1, <2>2 DEF K!Begin
<1>2. ASSUME NEW m \in Machine, K!Source(m) \/ K!Clone(m) \/ K!Rename(m) PROVE K!TypeOK'
  <2>1. clone' \in [Machine -> {"none", "whole"}]
    <3>1. \/ clone' = clone
          \/ clone' = [clone EXCEPT ![m] = "none"]
          \/ clone' = [clone EXCEPT ![m] = "whole"]
      BY <1>2 DEF K!Source, K!Clone, K!Rename
    <3> QED
      BY <1>a, <3>1
  <2>3. source' \in {"absent", "whole", "invalid"}
    BY <1>2, <1>a DEF K!Source, K!Clone, K!Rename, K!TypeOK
  <2>2. \E place \in K!Places : K!Goto(m, place)
    BY <1>2, <1>c DEF K!Source, K!Clone, K!Rename
  <2> QED
    BY <1>2, <1>a, <1>b, <1>d, <2>1, <2>2, <2>3 DEF K!Source, K!Clone, K!Rename
<1>3. ASSUME NEW m \in Machine, K!CopyDefconfig(m) PROVE K!TypeOK'
  <2>1. [K!B(m) EXCEPT !.config = defconfig[m]] \in BspState
    BY <1>a, BspType, BspFields DEF K!OverlayFiles
  <2>2. kernelProc' \in [Machine -> ProcState]
    BY <1>3, <1>a, <1>c, ProcFields DEF K!CopyDefconfig, K!OverlayFiles
  <2> QED
    BY <1>3, <1>a, <1>b, <1>e, <2>1, <2>2 DEF K!CopyDefconfig
<1>4. ASSUME NEW m \in Machine, K!Normalize(m) PROVE K!TypeOK'
  <2>1. [K!B(m) EXCEPT !.config = @ \cap Index] \in BspState
    BY BspType DEF BspState
  <2> QED
    BY <1>4, <1>a, <1>b, <1>c, <1>d, <1>e, <2>1 DEF K!Normalize
<1>5. ASSUME NEW m \in Machine, K!RemoveBefore(m) \/ K!RemoveAfter(m) PROVE K!TypeOK'
  <2>1. K!RemoveUnrecorded(K!B(m)) \in BspState
    BY BspType, RemoveUnrecordedType
  <2> QED
    BY <1>5, <1>a, <1>b, <1>c, <1>d, <1>e, <2>1 DEF K!RemoveBefore, K!RemoveAfter
<1>6. ASSUME NEW m \in Machine, K!Update(m) PROVE K!TypeOK'
  <2>1. PICK left \in SUBSET (K!B(m).recorded \ K!B(m).config) :
          K!Set(m, [K!B(m) EXCEPT !.recorded = K!B(m).config \cap Index,
                    !.errors = ~ (K!B(m).config \subseteq Index),
                    !.installed = [p \in Package |->
                       IF p \in K!B(m).config \cap Index THEN "whole"
                       ELSE IF p \in K!B(m).recorded \ left THEN "none" ELSE K!B(m).installed[p]]])
    BY <1>6 DEF K!Update
  <2> DEFINE installed == [p \in Package |->
                IF p \in K!B(m).config \cap Index THEN "whole"
                ELSE IF p \in K!B(m).recorded \ left THEN "none" ELSE K!B(m).installed[p]]
  <2>2. installed \in [Package -> K!Installed]
    BY BspType DEF BspState, K!Installed
  <2>3. [K!B(m) EXCEPT !.recorded = K!B(m).config \cap Index,
                     !.errors = ~ (K!B(m).config \subseteq Index),
                     !.installed = installed] \in BspState
    <3> HIDE DEF installed
    <3> QED
      BY BspType, <2>2 DEF BspState
  <2> QED
    BY <1>6, <1>a, <1>b, <1>c, <1>d, <1>e, <2>1, <2>3 DEF K!Update
<1>7. ASSUME NEW m \in Machine, K!UpdateFails(m) PROVE K!TypeOK'
  <2>1. PICK p \in K!B(m).config \cap Index, left \in {"none", "torn", "bare"},
             silent \in BOOLEAN, listed \in BOOLEAN :
          /\ K!Set(m, [K!B(m) EXCEPT !.recorded = IF listed THEN (K!B(m).config \cap Index) \ {p} ELSE @ \ {p},
                       !.errors = ~ silent, !.installed[p] = left])
          /\ K!Goto(m, IF listed THEN "check" ELSE "failed")
    BY <1>7 DEF K!UpdateFails
  <2>2. [K!B(m) EXCEPT !.recorded = IF listed THEN (K!B(m).config \cap Index) \ {p} ELSE @ \ {p},
                     !.errors = ~ silent, !.installed[p] = left] \in BspState
    BY BspType DEF BspState, K!Installed
  <2>3. (IF listed THEN "check" ELSE "failed") \in K!Places
    BY <1>c
  <2>4. kernelFaults' \in 0..MaxKernelFaults
    BY <1>7, <1>a DEF K!UpdateFails
  <2> QED
    BY <1>7, <1>a, <1>b, <1>d, <1>e, <2>1, <2>2, <2>3, <2>4 DEF K!UpdateFails
<1>8. ASSUME NEW m \in Machine, K!CheckState(m) PROVE K!TypeOK'
  <2>1. \E place \in K!Places : K!Goto(m, place)
    BY <1>8, <1>c DEF K!CheckState
  <2> QED
    BY <1>8, <1>a, <1>b, <1>d, <2>1 DEF K!CheckState
<1>9. ASSUME NEW m \in Machine, K!Overlay(m) PROVE K!TypeOK'
  <2>1. [K!B(m) EXCEPT !.overlay = IF overlay[m] = "none" THEN @ ELSE overlay[m]] \in BspState
    <3>1. K!B(m).overlay \in K!OverlayFiles
      BY BspType DEF BspState
    <3> QED
      BY <1>a, <3>1, BspType, BspFields
  <2>2. kernelProc' \in [Machine -> ProcState]
    <3>1. [kernelProc[m] EXCEPT !.pc = "scons", !.overlay = overlay[m]] \in ProcState
      <4>1. [kernelProc[m] EXCEPT !.pc = "scons", !.overlay = overlay[m]] =
              [[kernelProc[m] EXCEPT !.pc = "scons"] EXCEPT !.overlay = overlay[m]]
        BY <1>a
      <4> QED
        BY <1>a, <1>c, <4>1, ProcFields DEF K!OverlayFiles
    <3> QED
      BY <1>9, <1>a, <1>c, <1>d, <3>1 DEF K!Overlay
  <2> QED
    BY <1>9, <1>a, <1>b, <1>e, <2>1, <2>2 DEF K!Overlay
<1>10. ASSUME NEW m \in Machine, K!Scons(m) PROVE K!TypeOK'
  <2> DEFINE built == {<<p, K!B(m).installed[p]>> :
                p \in {q \in Package : K!B(m).installed[q] \in {"whole", "torn"}}}
  <2>1. built \subseteq Package \X K!Installed
    BY DEF K!Installed
  <2>2. [selected |-> K!B(m).config, overlay |-> K!B(m).overlay, built |-> built] \in K!Kernel
    <3> HIDE DEF built
    <3> QED
      BY <2>1, BspType DEF BspState, K!Kernel
  <2>3. [K!B(m) EXCEPT !.kernel =
          [selected |-> K!B(m).config, overlay |-> K!B(m).overlay, built |-> built]] \in BspState
    <3> HIDE DEF built
    <3> QED
      BY <2>2, BspType DEF BspState
  <2> QED
    BY <1>10, <1>a, <1>b, <1>c, <1>d, <1>e, <2>3 DEF K!Scons
<1>11. ASSUME NEW m \in Machine, K!Install(m) PROVE K!TypeOK'
  <2>1. \E place \in K!Places : K!Goto(m, place)
    BY <1>11, <1>c DEF K!Install
  <2>2. image' \in [Machine -> K!Kernel]
    BY <1>11, <1>a, BspType DEF K!Install, BspState
  <2> QED
    BY <1>11, <1>a, <1>b, <1>d, <2>1, <2>2 DEF K!Install
<1>12. ASSUME NEW m \in Machine, K!Seed(m) PROVE K!TypeOK'
  <2>1. [K!B(m) EXCEPT !.config = defconfig[m]] \in BspState
    BY <1>a, BspType, BspFields DEF K!OverlayFiles
  <2>2. \E place \in K!Places : K!Goto(m, place)
    BY <1>12, <1>c DEF K!Seed
  <2> QED
    BY <1>12, <1>a, <1>b, <1>d, <1>e, <2>1, <2>2 DEF K!Seed
<1>13. ASSUME NEW m \in Machine, K!Menu(m) PROVE K!TypeOK'
  <2>1. PICK selection \in {K!B(m).config} \cup (IF kernelEdits < MaxKernelEdits THEN Selections ELSE {}) :
          /\ kernelEdits' = IF selection = K!B(m).config THEN kernelEdits ELSE kernelEdits + 1
          /\ K!Set(m, [K!B(m) EXCEPT !.config = selection \cap Index])
          /\ kernelProc' = [kernelProc EXCEPT ![m] =
               [@ EXCEPT !.pc = "save",
                 !.seen = Index \cap IF selection = K!B(m).config THEN defconfig[m] ELSE selection]]
    BY <1>13 DEF K!Menu
  <2>2. selection \subseteq Package
    BY BspType DEF BspState
  <2>3. [K!B(m) EXCEPT !.config = selection \cap Index] \in BspState
    BY <2>2, BspType DEF BspState
  <2>4. kernelProc' \in [Machine -> ProcState]
    <3> DEFINE seen == Index \cap IF selection = K!B(m).config THEN defconfig[m] ELSE selection
    <3>1. seen \subseteq Package
      BY <1>a, <2>2
    <3> HIDE DEF seen
    <3>2. [kernelProc[m] EXCEPT !.pc = "save", !.seen = seen] \in ProcState
      BY <1>a, <1>c, <3>1, ProcFields DEF K!OverlayFiles
    <3> QED
      BY <1>a, <2>1, <3>2 DEF seen
  <2>5. kernelEdits' \in 0..MaxKernelEdits
    BY <1>a, <2>1
  <2> QED
    BY <1>13, <1>a, <1>b, <1>e, <2>1, <2>3, <2>4, <2>5 DEF K!Menu
<1>14. ASSUME NEW m \in Machine, K!Save(m) PROVE K!TypeOK'
  <2>1. defconfig' \in [Machine -> SUBSET Package]
    BY <1>14, <1>a, BspType DEF K!Save, BspState
  <2> QED
    BY <1>14, <1>a, <1>b, <1>c, <1>d, <2>1 DEF K!Save
<1>15. ASSUME NEW m \in Machine, K!Fail(m) PROVE K!TypeOK'
  BY <1>15, <1>a, <1>b, <1>c, <1>d DEF K!Fail
<1>16. CASE K!EditOverlay
  BY <1>16, <1>a, <1>b DEF K!EditOverlay, K!OverlayFiles
<1>17. CASE UNCHANGED K!vars
  BY <1>17, <1>a, <1>b DEF K!vars
<1> QED
  BY <1>1, <1>2, <1>3, <1>4, <1>5, <1>6, <1>7, <1>8, <1>9, <1>10, <1>11, <1>12, <1>13, <1>14,
     <1>15, <1>16, <1>17 DEF K!Next, K!Step

\* Every variable keeps its type.
THEOREM KernelTypeCorrect == K!Spec => []K!TypeOK
<1> USE KernelConstants DEF KernelConstants
<1>1. K!Init => K!TypeOK
  BY InitTypes
<1>2. K!TypeOK /\ [K!Next]_(K!vars) => K!TypeOK'
  BY StepTypes
<1> QED
  BY <1>1, <1>2, PTL DEF K!Spec

-----------------------------------------------------------------------------
(* The inductive invariant.                                                *)

\* Commands that work in one BSP at the same time know it of each other.
Alone ==
  \A m, n \in Machine :
    m # n /\ BspOf[m] = BspOf[n] /\ K!Working(m) /\ K!Working(n) => m \in beside /\ n \in beside

Wanted(m) == kernelProc[m].seen \cap Index
AllWhole(b) == \A p \in b.recorded : b.installed[p] = "whole"
OnlyRecorded(b) == \A p \in Package : b.installed[p] \in {"whole", "torn"} => p \in b.recorded

\* A kernel that has what m's build is for.
Right(m, kernel) ==
  /\ kernel.selected = Wanted(m)
  /\ kernel.built = {<<p, "whole">> : p \in Wanted(m)}
  /\ kernelProc[m].overlay # "none" => kernel.overlay = kernelProc[m].overlay

\* What the BSP is like at each place of a build that has it to itself.  An
\* update that has fallen short of a package has not recorded it.
Reached(m) ==
  /\ kernelProc[m].pc = "normalize" => K!B(m).config = kernelProc[m].seen
  /\ kernelProc[m].pc \in {"before", "update", "check", "after", "overlay", "scons"} =>
       K!B(m).config = Wanted(m)
  /\ kernelProc[m].pc = "check" => (K!B(m).recorded = K!B(m).config => AllWhole(K!B(m)))
  /\ kernelProc[m].pc \in {"after", "overlay", "scons"} =>
       K!B(m).recorded = K!B(m).config /\ AllWhole(K!B(m))
  /\ kernelProc[m].pc \in {"overlay", "scons"} => OnlyRecorded(K!B(m))
  /\ kernelProc[m].pc = "scons" /\ kernelProc[m].overlay # "none" => K!B(m).overlay = kernelProc[m].overlay
  /\ kernelProc[m].pc = "install" => Right(m, K!B(m).kernel)
  /\ kernelProc[m].pc = "done" => Right(m, image[m])

KernelInv ==
  /\ K!TypeOK
  /\ Alone
  /\ \A m \in Machine \ beside : Reached(m)

LEMMA SourcePlaces ==
  ASSUME kernelProc \in [Machine -> ProcState], NEW m \in Machine, K!Source(m) \/ K!Clone(m) \/ K!Rename(m)
  PROVE  /\ kernelProc[m].pc \in {"source", "clone", "rename"}
         /\ kernelProc'[m].pc \in {"clone", "rename", "packages", "failed"}
         /\ \A n \in Machine \ {m} : kernelProc'[n] = kernelProc[n]
         /\ UNCHANGED <<bsp, image, beside>>
<1> USE DEF ProcState, K!Goto
<1>1. CASE K!Source(m)
  BY <1>1 DEF K!Source
<1>2. CASE K!Clone(m)
  BY <1>2 DEF K!Clone
<1>3. CASE K!Rename(m)
  BY <1>3 DEF K!Rename
<1> QED
  BY <1>1, <1>2, <1>3

\* Every step but the beginning of a command is one of a command at work.
LEMMA StepPlaces ==
  ASSUME kernelProc \in [Machine -> ProcState], NEW m \in Machine,
         K!Step(m) \/ K!UpdateFails(m) \/ K!Fail(m)
  PROVE  /\ K!Working(m)
         /\ \A n \in Machine \ {m} : kernelProc'[n] = kernelProc[n]
         /\ beside' = beside
<1>1. CASE K!Source(m) \/ K!Clone(m) \/ K!Rename(m)
  BY <1>1, SourcePlaces DEF K!Working
<1>2. CASE K!CopyDefconfig(m) \/ K!Normalize(m) \/ K!RemoveBefore(m) \/ K!Update(m) \/ K!CheckState(m)
           \/ K!RemoveAfter(m) \/ K!Overlay(m) \/ K!Scons(m) \/ K!Install(m) \/ K!UpdateFails(m)
  BY <1>2, BuildPlaces DEF K!Working
<1>3. CASE K!Seed(m) \/ K!Menu(m) \/ K!Save(m) \/ K!Fail(m)
  <2>1. K!Working(m) /\ \A n \in Machine \ {m} : kernelProc'[n] = kernelProc[n]
    BY <1>3, OtherPlaces DEF K!Seed, K!Menu, K!Save, K!Fail, K!Working
  <2> QED
    BY <1>3, <2>1 DEF K!Seed, K!Menu, K!Save, K!Fail
<1> QED
  BY <1>1, <1>2, <1>3 DEF K!Step

LEMMA AlonePreserved ==
  ASSUME K!TypeOK, Alone, [K!Next]_(K!vars)
  PROVE  Alone'
<1>a. kernelProc \in [Machine -> ProcState] /\ beside \subseteq Machine
  BY DEF K!TypeOK, ProcState
<1>1. ASSUME NEW m \in Machine, K!Begin(m) PROVE Alone'
  <2> DEFINE others == {n \in Machine \ {m} : K!Working(n) /\ BspOf[n] = BspOf[m]}
  <2>1. /\ beside' = (beside \ {m}) \cup others \cup (IF others = {} THEN {} ELSE {m})
        /\ \A n \in Machine \ {m} : kernelProc'[n] = kernelProc[n]
    BY <1>1, <1>a, OtherPlaces DEF K!Begin
  <2>2. \A n \in Machine \ {m} : K!Working(n)' <=> K!Working(n)
    BY <2>1 DEF K!Working
  <2> SUFFICES ASSUME NEW n \in Machine, NEW o \in Machine, n # o, BspOf[n] = BspOf[o],
                      K!Working(n)', K!Working(o)'
               PROVE  n \in beside' /\ o \in beside'
    BY DEF Alone
  <2>3. CASE n = m
    BY <2>1, <2>2, <2>3
  <2>4. CASE o = m
    BY <2>1, <2>2, <2>4
  <2>5. CASE n # m /\ o # m
    BY <2>1, <2>2, <2>5 DEF Alone
  <2> QED
    BY <2>3, <2>4, <2>5
<1>2. ASSUME NEW m \in Machine, K!Step(m) \/ K!UpdateFails(m) \/ K!Fail(m) PROVE Alone'
  <2>1. K!Working(m) /\ beside' = beside /\ \A n \in Machine \ {m} : kernelProc'[n] = kernelProc[n]
    BY <1>2, <1>a, StepPlaces
  <2>2. \A n \in Machine : K!Working(n)' => K!Working(n)
    BY <2>1 DEF K!Working
  <2> QED
    BY <2>1, <2>2 DEF Alone
<1>3. CASE K!EditOverlay \/ UNCHANGED K!vars
  BY <1>3 DEF K!EditOverlay, K!vars, Alone, K!Working
<1> QED
  BY <1>1, <1>2, <1>3 DEF K!Next

\* Nothing that m does in its BSP concerns another build.
LEMMA OthersUntouched ==
  ASSUME KernelInv, K!KernelAssumption, NEW m \in Machine, K!Step(m) \/ K!UpdateFails(m) \/ K!Fail(m),
         NEW n \in Machine \ beside, n # m,
         image'[n] = image[n], BspOf[n] # BspOf[m] => K!B(n)' = K!B(n)
  PROVE  Reached(n)'
<1>1. kernelProc'[n] = kernelProc[n] /\ K!Working(m)
  BY StepPlaces DEF KernelInv, K!TypeOK, ProcState
<1>2. Wanted(n)' = Wanted(n)
  BY <1>1 DEF Wanted
<1>3. Reached(n)
  BY DEF KernelInv
<1>4. CASE BspOf[n] # BspOf[m]
  BY <1>1, <1>2, <1>3, <1>4 DEF Reached, Right
<1>5. CASE BspOf[n] = BspOf[m]
  <2>1. ~ K!Working(n)
    BY <1>1, <1>5 DEF KernelInv, Alone
  <2> QED
    BY <1>1, <1>2, <1>3, <2>1 DEF Reached, Right, K!Working
<1> QED
  BY <1>4, <1>5

\* Steps that only move on, having left the BSP and the images alone.
LEMMA ReachedByMoving ==
  ASSUME KernelInv, K!KernelAssumption, NEW m \in Machine, m \notin beside,
         K!Source(m) \/ K!Clone(m) \/ K!Rename(m) \/ K!CheckState(m) \/ K!Save(m) \/ K!Fail(m)
  PROVE  Reached(m)' /\ bsp' = bsp /\ image' = image
<1> USE DEF K!Goto, Wanted, K!B
<1>a. kernelProc \in [Machine -> ProcState] /\ Reached(m)
  BY DEF KernelInv, K!TypeOK, ProcState
<1>1. CASE K!Source(m) \/ K!Clone(m) \/ K!Rename(m)
  BY <1>1, <1>a, SourcePlaces DEF Reached
<1>2. CASE K!CheckState(m)
  <2>1. bsp' = bsp /\ image' = image /\ kernelProc[m].pc = "check"
    BY <1>2 DEF K!CheckState
  <2>2. CASE kernelProc'[m].pc = "failed"
    BY <2>1, <2>2 DEF Reached
  <2>3. CASE kernelProc'[m].pc # "failed"
    <3>1. kernelProc'[m] = [kernelProc[m] EXCEPT !.pc = "after"] /\ K!B(m).recorded = K!B(m).config
      BY <1>2, <1>a, <2>3 DEF K!CheckState, ProcState
    <3>2. kernelProc'[m].seen = kernelProc[m].seen /\ kernelProc'[m].pc = "after"
      BY <1>a, <3>1 DEF ProcState
    <3> QED
      BY <1>a, <2>1, <3>1, <3>2 DEF Reached, AllWhole
  <2> QED
    BY <2>1, <2>2, <2>3
<1>3. CASE K!Save(m) \/ K!Fail(m)
  BY <1>3, <1>a DEF K!Save, K!Fail, Reached, ProcState
<1> QED
  BY <1>1, <1>2, <1>3

\* The update of the kernel's packages.
LEMMA ReachedByUpdate ==
  ASSUME KernelInv, K!KernelAssumption, NEW m \in Machine, m \notin beside,
         K!CopyDefconfig(m) \/ K!Normalize(m) \/ K!RemoveBefore(m) \/ K!Update(m) \/ K!UpdateFails(m)
         \/ K!RemoveAfter(m)
  PROVE  Reached(m)'
<1> USE DEF Wanted, AllWhole
<1>a. K!TypeOK /\ kernelProc \in [Machine -> ProcState] /\ Reached(m) /\ K!B(m) \in BspState
  BY BspType DEF KernelInv, K!TypeOK, ProcState
<1>1. CASE K!CopyDefconfig(m)
  <2>1. K!B(m)' = [K!B(m) EXCEPT !.config = defconfig[m]]
    BY <1>1, <1>a DEF K!CopyDefconfig, K!Set, K!B, BspState, K!TypeOK, K!KernelAssumption, K!Bsp
  <2>2. kernelProc'[m].pc = "normalize" /\ kernelProc'[m].seen = defconfig[m]
    BY <1>1, <1>a DEF K!CopyDefconfig, ProcState
  <2> QED
    BY <1>a, <2>1, <2>2 DEF Reached, BspState
<1>2. CASE K!Normalize(m)
  <2>1. K!B(m)' = [K!B(m) EXCEPT !.config = @ \cap Index]
    BY <1>2, <1>a DEF K!Normalize, K!Set, K!B, BspState, K!TypeOK, K!KernelAssumption, K!Bsp
  <2>2. kernelProc'[m].pc = "before" /\ kernelProc'[m].seen = kernelProc[m].seen /\ kernelProc[m].pc = "normalize"
    BY <1>2, <1>a DEF K!Normalize, K!Goto, ProcState
  <2> QED
    BY <1>a, <2>1, <2>2 DEF Reached, BspState
<1>3. CASE K!RemoveBefore(m)
  <2>1. K!B(m)' = K!RemoveUnrecorded(K!B(m))
    BY <1>3, <1>a DEF K!RemoveBefore, K!Set, K!B, BspState, K!TypeOK, K!KernelAssumption, K!Bsp
  <2>2. kernelProc'[m].pc = "update" /\ kernelProc'[m].seen = kernelProc[m].seen /\ kernelProc[m].pc = "before"
    BY <1>3, <1>a DEF K!RemoveBefore, K!Goto, ProcState
  <2> QED
    BY <1>a, <2>1, <2>2, RemoveUnrecordedType DEF Reached
<1>4. CASE K!Update(m)
  <2>1. PICK left \in SUBSET (K!B(m).recorded \ K!B(m).config) :
          K!Set(m, [K!B(m) EXCEPT !.recorded = K!B(m).config \cap Index,
                    !.errors = ~ (K!B(m).config \subseteq Index),
                    !.installed = [p \in Package |->
                       IF p \in K!B(m).config \cap Index THEN "whole"
                       ELSE IF p \in K!B(m).recorded \ left THEN "none" ELSE K!B(m).installed[p]]])
    BY <1>4 DEF K!Update
  <2>2. /\ K!B(m)'.config = K!B(m).config
        /\ K!B(m)'.recorded = K!B(m).config \cap Index
        /\ \A p \in K!B(m).config \cap Index : K!B(m)'.installed[p] = "whole"
    BY <1>a, <2>1 DEF K!Set, K!B, BspState, K!TypeOK, K!KernelAssumption, K!Bsp
  <2>3. kernelProc'[m].pc = "check" /\ kernelProc'[m].seen = kernelProc[m].seen /\ kernelProc[m].pc = "update"
    BY <1>4, <1>a DEF K!Update, K!Goto, ProcState
  <2> QED
    BY <1>a, <2>2, <2>3 DEF Reached
<1>5. CASE K!UpdateFails(m)
  <2>1. PICK p \in K!B(m).config \cap Index, left \in {"none", "torn", "bare"},
             silent \in BOOLEAN, listed \in BOOLEAN :
          /\ K!Set(m, [K!B(m) EXCEPT !.recorded = IF listed THEN (K!B(m).config \cap Index) \ {p} ELSE @ \ {p},
                       !.errors = ~ silent, !.installed[p] = left])
          /\ K!Goto(m, IF listed THEN "check" ELSE "failed")
    BY <1>5 DEF K!UpdateFails
  <2>2. K!B(m)'.config = K!B(m).config /\ p \in K!B(m)'.config /\ p \notin K!B(m)'.recorded
    BY <1>a, <2>1 DEF K!Set, K!B, BspState, K!TypeOK, K!KernelAssumption, K!Bsp
  <2>3. /\ kernelProc'[m].pc \in {"check", "failed"} /\ kernelProc'[m].seen = kernelProc[m].seen
        /\ kernelProc[m].pc = "update"
    <3>1. \E place \in {"check", "failed"} : K!Goto(m, place)
      BY <2>1
    <3> QED
      BY <1>5, <1>a, <3>1 DEF K!UpdateFails, K!Goto, ProcState
  <2> QED
    BY <1>a, <2>2, <2>3 DEF Reached
<1>6. CASE K!RemoveAfter(m)
  <2>1. K!B(m)' = K!RemoveUnrecorded(K!B(m))
    BY <1>6, <1>a DEF K!RemoveAfter, K!Set, K!B, BspState, K!TypeOK, K!KernelAssumption, K!Bsp
  <2>2. kernelProc'[m].pc = "overlay" /\ kernelProc'[m].seen = kernelProc[m].seen /\ kernelProc[m].pc = "after"
    BY <1>6, <1>a DEF K!RemoveAfter, K!Goto, ProcState
  <2>3. K!B(m).recorded = K!B(m).config /\ AllWhole(K!B(m)) /\ K!B(m).config = Wanted(m)
    BY <1>a, <2>2 DEF Reached
  <2>4. AllWhole(K!B(m)') /\ K!B(m)'.recorded = K!B(m).recorded /\ K!B(m)'.config = K!B(m).config
    BY <1>a, <2>1, <2>3, RemoveUnrecordedType DEF BspState
  <2>5. OnlyRecorded(K!B(m)')
    <3> SUFFICES ASSUME NEW p \in Package, p \notin K!B(m).recorded
                 PROVE  K!B(m)'.installed[p] \notin {"whole", "torn"}
      BY <2>4 DEF OnlyRecorded
    <3> QED
      BY <1>a, <2>1, RemoveUnrecordedType
  <2> QED
    BY <2>2, <2>3, <2>4, <2>5 DEF Reached
<1> QED
  BY <1>1, <1>2, <1>3, <1>4, <1>5, <1>6

\* The kernel, from what the update has left.
LEMMA ReachedByBuild ==
  ASSUME KernelInv, K!KernelAssumption, NEW m \in Machine, m \notin beside,
         K!Overlay(m) \/ K!Scons(m) \/ K!Install(m)
  PROVE  Reached(m)'
<1>a. K!TypeOK /\ kernelProc \in [Machine -> ProcState] /\ Reached(m) /\ K!B(m) \in BspState
  BY BspType DEF KernelInv, K!TypeOK, ProcState
<1>1. CASE K!Overlay(m)
  <2>1. CASE overlay[m] = "packages"
    <3>1. kernelProc'[m].pc = "failed"
      BY <1>1, <1>a, <2>1 DEF K!Overlay, K!Goto, ProcState
    <3> QED
      BY <3>1 DEF Reached
  <2>2. CASE overlay[m] # "packages"
    <3>1. K!B(m)' = [K!B(m) EXCEPT !.overlay = IF overlay[m] = "none" THEN @ ELSE overlay[m]]
      BY <1>1, <1>a, <2>2 DEF K!Overlay, K!Set, K!B, BspState, K!TypeOK, K!KernelAssumption, K!Bsp
    <3>2. /\ kernelProc'[m].pc = "scons" /\ kernelProc'[m].overlay = overlay[m]
          /\ kernelProc'[m].seen = kernelProc[m].seen /\ kernelProc[m].pc = "overlay"
      BY <1>1, <1>a, <2>2 DEF K!Overlay, ProcState
    <3> QED
      BY <1>a, <3>1, <3>2 DEF Reached, Wanted, AllWhole, OnlyRecorded, BspState
  <2> QED
    BY <2>1, <2>2
<1>2. CASE K!Scons(m)
  <2> DEFINE built == {<<p, K!B(m).installed[p]>> :
                p \in {q \in Package : K!B(m).installed[q] \in {"whole", "torn"}}}
  <2>1. K!B(m)'.kernel = [selected |-> K!B(m).config, overlay |-> K!B(m).overlay, built |-> built]
    BY <1>2, <1>a DEF K!Scons, K!Set, K!B, BspState, K!TypeOK, K!KernelAssumption, K!Bsp
  <2>2. /\ kernelProc'[m].pc = "install" /\ kernelProc'[m].seen = kernelProc[m].seen
        /\ kernelProc'[m].overlay = kernelProc[m].overlay /\ kernelProc[m].pc = "scons"
    BY <1>2, <1>a DEF K!Scons, K!Goto, ProcState
  <2>3. built = {<<p, "whole">> : p \in Wanted(m)}
    <3>1. {q \in Package : K!B(m).installed[q] \in {"whole", "torn"}} = Wanted(m)
      BY <1>a, <2>2 DEF Reached, OnlyRecorded, AllWhole, BspState
    <3>2. \A p \in Wanted(m) : K!B(m).installed[p] = "whole"
      BY <1>a, <2>2 DEF Reached, AllWhole
    <3> QED
      BY <3>1, <3>2
  <2> HIDE DEF built
  <2>4. Right(m, K!B(m).kernel)'
    BY <1>a, <2>1, <2>2, <2>3 DEF Reached, Right, Wanted
  <2> QED
    BY <2>2, <2>4 DEF Reached
<1>3. CASE K!Install(m)
  <2>1. CASE K!B(m).kernel = K!NoKernel
    <3>1. kernelProc'[m].pc = "failed"
      BY <1>3, <1>a, <2>1 DEF K!Install, K!Goto, ProcState
    <3> QED
      BY <3>1 DEF Reached
  <2>2. CASE K!B(m).kernel # K!NoKernel
    <3>1. /\ kernelProc'[m].pc = "done" /\ kernelProc'[m].seen = kernelProc[m].seen
          /\ kernelProc'[m].overlay = kernelProc[m].overlay /\ kernelProc[m].pc = "install"
      BY <1>3, <1>a, <2>2 DEF K!Install, K!Goto, ProcState
    <3>2. image'[m] = K!B(m).kernel
      BY <1>3, <1>a, <2>2 DEF K!Install, K!TypeOK
    <3> QED
      BY <1>a, <3>1, <3>2 DEF Reached, Right, Wanted
  <2> QED
    BY <2>1, <2>2
<1> QED
  BY <1>1, <1>2, <1>3

LEMMA KernelStep ==
  ASSUME K!KernelAssumption, KernelInv, [K!Next]_(K!vars)
  PROVE  KernelInv'
<1> USE DEF KernelInv
<1>a. /\ kernelProc \in [Machine -> ProcState] /\ bsp \in [K!Bsp -> BspState]
      /\ image \in [Machine -> K!Kernel] /\ \A m \in Machine : BspOf[m] \in K!Bsp
  BY BspType DEF K!TypeOK, ProcState, BspState
<1>b. K!TypeOK' /\ Alone'
  BY StepTypes, AlonePreserved
<1>1. ASSUME NEW m \in Machine, K!Begin(m), NEW n \in Machine \ beside' PROVE Reached(n)'
  <2>1. CASE n = m
    <3>1. kernelProc'[m].pc \in {"source", "seed"}
      BY <1>1, <1>a, IdleType DEF K!Begin, ProcState
    <3> QED
      BY <2>1, <3>1 DEF Reached
  <2>2. CASE n # m
    <3>1. n \notin beside /\ kernelProc'[n] = kernelProc[n] /\ image' = image /\ bsp' = bsp
      BY <1>1, <1>a, <2>2 DEF K!Begin
    <3> QED
      BY <3>1 DEF Reached, Right, Wanted, K!B
  <2> QED
    BY <2>1, <2>2
<1>2. ASSUME NEW m \in Machine, K!Step(m) \/ K!UpdateFails(m) \/ K!Fail(m),
             NEW n \in Machine \ beside'
      PROVE  Reached(n)'
  <2>1. n \notin beside
    BY <1>2, <1>a, StepPlaces
  <2>2. CASE n # m
    <3>1. BspOf[n] # BspOf[m] => K!B(n)' = K!B(n)
      <4>1. bsp' = bsp \/ \E value : K!Set(m, value)
        BY <1>2 DEF K!Step, K!Source, K!Clone, K!Rename, K!CopyDefconfig, K!Normalize, K!RemoveBefore, K!Update,
           K!CheckState, K!RemoveAfter, K!Overlay, K!Scons, K!Install, K!Seed, K!Menu, K!Save, K!UpdateFails, K!Fail
      <4> QED
        BY <1>a, <4>1 DEF K!Set, K!B
    <3>2. image'[n] = image[n]
      <4>1. image' = image \/ image' = [image EXCEPT ![m] = K!B(m).kernel]
        BY <1>2 DEF K!Step, K!Source, K!Clone, K!Rename, K!CopyDefconfig, K!Normalize, K!RemoveBefore, K!Update,
           K!CheckState, K!RemoveAfter, K!Overlay, K!Scons, K!Install, K!Seed, K!Menu, K!Save, K!UpdateFails, K!Fail
      <4> QED
        BY <1>a, <2>2, <4>1
    <3> QED
      BY <1>2, <2>1, <2>2, <3>1, <3>2, OthersUntouched
  <2>3. CASE n = m
    <3>1. CASE K!Seed(m) \/ K!Menu(m)
      <4>1. kernelProc'[m].pc \in {"failed", "menu", "save"}
        BY <1>a, <3>1 DEF K!Seed, K!Menu, K!Goto, ProcState
      <4> QED
        BY <2>3, <4>1 DEF Reached
    <3> QED
      BY <1>2, <2>1, <2>3, <3>1, ReachedByMoving, ReachedByUpdate, ReachedByBuild DEF K!Step
  <2> QED
    BY <2>2, <2>3
<1>3. ASSUME K!EditOverlay \/ UNCHANGED K!vars, NEW n \in Machine \ beside'
      PROVE  Reached(n)'
  <2>1. UNCHANGED <<kernelProc, bsp, image, beside>>
    BY <1>3 DEF K!EditOverlay, K!vars
  <2>2. Reached(n)
    BY <2>1
  <2> QED
    BY <2>1, <2>2 DEF Reached, Right, Wanted, K!B
<1>4. \A m \in Machine \ beside' : Reached(m)'
  BY <1>1, <1>2, <1>3 DEF K!Next
<1> QED
  BY <1>b, <1>4

LEMMA KernelInductive == K!Spec => []KernelInv
<1> USE KernelConstants DEF KernelConstants
<1>1. K!Init => KernelInv
  <2> SUFFICES ASSUME K!Init PROVE KernelInv
    OBVIOUS
  <2>1. \A m \in Machine : kernelProc[m].pc = "idle"
    BY DEF K!Init, K!Idle
  <2> QED
    BY <2>1, InitTypes DEF KernelInv, Alone, Reached, K!Working
<1>2. KernelInv /\ [K!Next]_(K!vars) => KernelInv'
  BY KernelStep
<1> QED
  BY <1>1, <1>2, PTL DEF K!Spec

\* A kernel built without another command in its BSP has the packages that
\* its machine selects, whole, no others, and the machine's overlay: for any
\* number of machines in any BSPs, edits, kills and updates that fall short.
THEOREM KernelExact == K!Spec => []KernelIsExact
<1> USE KernelConstants DEF KernelConstants
<1>1. KernelInv => KernelIsExact
  BY DEF KernelInv, Reached, Right, Wanted, KernelIsExact, K!KernelIsExact
<1> QED
  BY <1>1, KernelInductive, PTL

-----------------------------------------------------------------------------
(* rt-thread/ is PublishedOnce.                                             *)

\* A build goes on only when the source is there, which nobody takes away.
LEMMA SourceThere ==
  ASSUME K!TypeOK, K!BehindSource # {} => source = "whole", [K!Next]_(K!vars)
  PROVE  /\ K!BehindSource' # {} => source' = "whole"
         /\ [K!Shared!Next]_(K!Shared!vars)
<1> USE DEF K!BehindSource
<1>a. kernelProc \in [Machine -> ProcState]
  BY DEF K!TypeOK, ProcState
<1>b. ASSUME source' = source, K!BehindSource' = K!BehindSource
      PROVE  /\ K!BehindSource' # {} => source' = "whole"
             /\ [K!Shared!Next]_(K!Shared!vars)
  BY <1>b DEF K!Shared!vars
<1>c. ASSUME NEW m \in Machine, source' = source, K!BehindSource' = K!BehindSource \ {m}
      PROVE  /\ K!BehindSource' # {} => source' = "whole"
             /\ [K!Shared!Next]_(K!Shared!vars)
  BY <1>c DEF K!Shared!Next, K!Shared!Leave
<1>d. ASSUME NEW m \in Machine, \A n \in Machine \ {m} : kernelProc'[n] = kernelProc[n]
      PROVE  /\ m \in K!BehindSource' => K!BehindSource' = K!BehindSource \cup {m}
             /\ m \notin K!BehindSource' => K!BehindSource' = K!BehindSource \ {m}
  BY <1>d
<1>1. ASSUME NEW m \in Machine, K!Source(m) \/ K!Clone(m) \/ K!Rename(m)
      PROVE  /\ K!BehindSource' # {} => source' = "whole"
             /\ [K!Shared!Next]_(K!Shared!vars)
  <2>1. m \notin K!BehindSource /\ \A n \in Machine \ {m} : kernelProc'[n] = kernelProc[n]
    BY <1>1, <1>a, SourcePlaces
  <2>2. CASE kernelProc'[m].pc = "packages"
    <3>1. K!BehindSource' = K!BehindSource \cup {m}
      BY <1>d, <2>1, <2>2
    <3>2. \/ source = "whole" /\ source' = source
          \/ source = "absent" /\ source' = "whole"
      BY <1>1, <1>a, <2>2 DEF K!Source, K!Clone, K!Rename, K!Goto, ProcState, K!TypeOK
    <3> QED
      BY <3>1, <3>2 DEF K!Shared!Next, K!Shared!Use, K!Shared!PublishAndUse
  <2>3. CASE kernelProc'[m].pc # "packages"
    <3>1. source' = source /\ m \notin K!BehindSource'
      BY <1>1, <1>a, <2>3, SourcePlaces DEF K!Source, K!Clone, K!Rename, K!Goto, ProcState
    <3> QED
      BY <1>c, <1>d, <2>1, <3>1
  <2> QED
    BY <2>2, <2>3
<1>2. ASSUME NEW m \in Machine,
             K!CopyDefconfig(m) \/ K!Normalize(m) \/ K!RemoveBefore(m) \/ K!Update(m) \/ K!CheckState(m)
             \/ K!RemoveAfter(m) \/ K!Overlay(m) \/ K!Scons(m) \/ K!Install(m) \/ K!UpdateFails(m)
      PROVE  /\ K!BehindSource' # {} => source' = "whole"
             /\ [K!Shared!Next]_(K!Shared!vars)
  <2>1. m \in K!BehindSource /\ source' = source /\ \A n \in Machine \ {m} : kernelProc'[n] = kernelProc[n]
    BY <1>2, <1>a, BuildPlaces
  <2> QED
    BY <1>b, <1>c, <1>d, <2>1
<1>3. ASSUME NEW m \in Machine, K!Begin(m) \/ K!Seed(m) \/ K!Menu(m) \/ K!Save(m) \/ K!Fail(m)
      PROVE  /\ K!BehindSource' # {} => source' = "whole"
             /\ [K!Shared!Next]_(K!Shared!vars)
  <2>1. m \notin K!BehindSource' /\ source' = source /\ \A n \in Machine \ {m} : kernelProc'[n] = kernelProc[n]
    BY <1>3, <1>a, OtherPlaces
  <2> QED
    BY <1>c, <1>d, <2>1
<1>4. CASE K!EditOverlay \/ UNCHANGED K!vars
  BY <1>4, <1>b DEF K!EditOverlay, K!vars
<1> QED
  BY <1>1, <1>2, <1>3, <1>4 DEF K!Next, K!Step

\* However many builds clone rt-thread at once, fail or are killed, it is put
\* into place once, whole, and stays, and nobody builds with anything else.
THEOREM SourceIsShared == K!Spec => ImplementsShared
<1> USE KernelConstants DEF KernelConstants
<1>1. K!Init => (K!BehindSource # {} => source = "whole") /\ K!Shared!Init
  BY DEF K!Init, K!Idle, K!BehindSource, K!Shared!Init
<1>2. K!TypeOK /\ (K!BehindSource # {} => source = "whole") /\ [K!Next]_(K!vars)
        => (K!BehindSource # {} => source = "whole")' /\ [K!Shared!Next]_(K!Shared!vars)
  BY SourceThere
<1> QED
  BY <1>1, <1>2, KernelTypeCorrect, PTL DEF K!Spec, ImplementsShared, K!ImplementsShared, K!Shared!Spec
=============================================================================
