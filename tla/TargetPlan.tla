----------------------------- MODULE TargetPlan ------------------------------
(***************************************************************************)
(* From a target and a configuration to the tasks of a build               *)
(* (smart_build/tasks.py, domains/app.py): create_default_plan makes real  *)
(* tasks of what the target needs and placeholders of the rest, packages   *)
(* get what they depend on as dependencies and inputs, and what the target *)
(* reaches is put in order and executed.  Modules PackageResolver,         *)
(* TaskGraph, PackageStage and RootfsImage look into the steps; here it is *)
(* what one task finds of another.                                         *)
(*                                                                         *)
(* A task id is a pair: its name and the package it is for, or 0.          *)
(***************************************************************************)
EXTENDS Naturals, Sequences, SequencesExt

CONSTANTS
  N,           \* packages, numbered in the order their descriptions are found in
  Capability,  \* further names that packages provide
  KindOf,      \* KindOf[p]: "library", "ament", "executable" or "app"
  Host,        \* packages under packages/host/
  Provides,    \* Provides[p]: the capabilities of a package
  Needs,       \* Needs[p]: depends, host_depends and selects, in this order
  UsesSets,    \* of what they find, the packages whose stages make a difference
  Asked,       \* lists of packages that a configuration may name
  MaxEdits, MaxFaults

Pkg == 1..N
None == 0
ASSUME PackageAssumption ==
  /\ N \in Nat /\ Host \subseteq Pkg /\ Pkg \cap Capability = {}
  /\ KindOf \in [Pkg -> {"library", "ament", "executable", "app"}]
  /\ Needs \in [Pkg -> Seq(Pkg \cup Capability)]
ASSUME BoundAssumption == MaxEdits \in Nat /\ MaxFaults \in Nat

VARIABLES
  uses,
  config,   \* [rootfs, asked]
  src,      \* version of each package's sources
  stage,    \* staging/packages or staging/apps: the sources that went into it
  stamp,    \* of each package's build: what its inputs were
  ipk,
  rootfs,   \* staging/rootfs: [packages, base]
  image,    \* images/: per image task, the rootfs it was made of
  target, order, pos, outcome, \* the command: its tasks, empty when there is none
  edits, faults

vars == <<uses, config, src, stage, stamp, ipk, rootfs, image, target, order, pos, outcome,
          edits, faults>>

-----------------------------------------------------------------------------
(* Selected packages (module PackageResolver) and their relations.          *)

FirstProvider(name) ==
  IF name \in Pkg THEN name
  ELSE IF \E p \in Pkg : name \in Provides[p]
  THEN CHOOSE p \in Pkg : name \in Provides[p] /\ \A q \in 1..(p - 1) : name \notin Provides[q]
  ELSE None

Include[names \in Seq(Pkg \cup Capability), selected \in Seq(Pkg)] ==
  IF names = <<>> THEN selected
  ELSE LET p == FirstProvider(Head(names))
       IN  IF p = None \/ Contains(selected, p) THEN Include[Tail(names), selected]
           ELSE Include[Needs[p] \o Tail(names), Append(selected, p)]
Resolved(names) == Include[names, <<>>]

\* Of the selected ones that provide a name, the earliest or the latest.
Provider(name, selected, latest) ==
  IF Contains(selected, name) THEN name
  ELSE LET at == {i \in 1..Len(selected) : selected[i] \in Pkg /\ name \in Provides[selected[i]]}
       IN  IF at = {} THEN None
           ELSE selected[CHOOSE i \in at : \A j \in at : IF latest THEN i >= j ELSE i <= j]

\* What a package depends on directly: the earliest selected provider.
Direct(p, selected) ==
  {Provider(Needs[p][i], selected, FALSE) : i \in 1..Len(Needs[p])} \ {None, p}

\* Its dependency closure: the latest selected provider.
Closure(p, selected) ==
  LET found[k \in 0..N] ==
        IF k = 0 THEN {p}
        ELSE LET before == found[k - 1]
             IN  before \cup UNION {{Provider(Needs[q][i], selected, TRUE) : i \in 1..Len(Needs[q])} :
                                      q \in before \ {None}}
  IN  found[N] \ {p, None}

-----------------------------------------------------------------------------
(* Tasks.                                                                   *)

Id(name) == <<name, 0>>
Task(id, deps) == [id |-> id, deps |-> deps, real |-> TRUE, prefix |-> {}, stages |-> {}]
Placeholder(id, deps) == [Task(id, deps) EXCEPT !.real = FALSE]
Toolchain == Id("toolchain:check")
Mini == Id("minirootfs:image")
Busy == Id("busybox-rootfs:image")
Full == Id("rootfs:image")
Images == {Mini, Busy, Full}

AppTask(p) == Task(<<"app", p>>, {Toolchain})
Ipkg(p, build) == Task(<<"ipkg", p>>, {build})
BuildId(p) == IF KindOf[p] = "executable" THEN <<"target-build", p>> ELSE <<"package", p>>

\* Faults: dependencies that order a package but are no inputs of it; host
\* packages taken for packages that are packed.
BuildWithoutInputs(p, selected) ==
  [Task(BuildId(p), {Toolchain} \cup {IF q \in Host THEN <<"package", q>> ELSE <<"ipkg", q>> : q \in Direct(p, selected)})
     EXCEPT !.prefix = Closure(p, selected)]
BuildAfterIpkgs(p, selected) ==
  [Task(BuildId(p), {Toolchain} \cup {<<"ipkg", q>> : q \in Direct(p, selected)})
     EXCEPT !.stages = Direct(p, selected), !.prefix = Closure(p, selected)]

BuildTask(p, selected) ==
  [Task(BuildId(p), {Toolchain} \cup {IF q \in Host THEN <<"package", q>> ELSE <<"ipkg", q>> : q \in Direct(p, selected)})
     EXCEPT !.stages = Direct(p, selected), !.prefix = Closure(p, selected)]

ResolvedPackageTasks(selected) ==
  FlattenSeq([i \in 1..Len(selected) |->
    LET p == selected[Len(selected) + 1 - i]
    IN  IF p \in Host THEN <<BuildTask(p, selected)>>
        ELSE <<BuildTask(p, selected), Ipkg(p, BuildId(p))>>])

BusyboxSteps == <<"busybox:fetch", "busybox:prepare", "busybox:build", "busybox:stage-rootfs">>
BusyboxTasks(withImage) ==
  [i \in 1..4 |-> Task(Id(BusyboxSteps[i]), {IF i = 1 THEN Toolchain ELSE Id(BusyboxSteps[i - 1])})]
    \o IF withImage THEN <<Task(Busy, {Id("busybox:stage-rootfs")})>> ELSE <<>>

MinirootfsTasks(packages, full) ==
  LET apps == SelectSeq(packages, LAMBDA p : KindOf[p] = "app")
      chosen == SelectSeq(packages, LAMBDA p : KindOf[p] # "app")
      base == IF full THEN BusyboxTasks(FALSE) ELSE <<>>
      ipks == {<<"ipkg", p>> : p \in Range(packages) \ (Host \cap Range(chosen))}
  IN  FlattenSeq([i \in 1..Len(apps) |-> <<AppTask(apps[i]), Ipkg(apps[i], <<"app", apps[i]>>)>>])
      \o ResolvedPackageTasks(chosen) \o base
      \o <<Task(Id("rootfs:stage"), {Toolchain} \cup ipks \cup (IF full THEN {Last(base).id} ELSE {})),
           Task(IF full THEN Full ELSE Mini, {Id("rootfs:stage")})>>

-----------------------------------------------------------------------------
(* The plan.                                                                *)

Targets ==
  {Id(t) : t \in {"all", "kernel", "rootfs", "minirootfs", "full-rootfs", "busybox-rootfs", "qemu-script"}}
    \cup {<<"app", p>> : p \in {q \in Pkg : KindOf[q] = "app"}}
    \cup {<<"package", p>> : p \in Pkg}

\* `kernel' and `app:' do not look at the rootfs.
SelectionFor(c, t) ==
  IF t[1] \in {"kernel", "app"} THEN [rootfs |-> "unasked", packages |-> <<>>]
  ELSE [rootfs |-> c.rootfs,
        packages |-> IF c.rootfs \in {"minimal", "full"} THEN Resolved(c.asked) ELSE <<>>]

RootfsIds(kind) ==
  CASE kind = "unasked" -> {Mini, Busy} [] kind = "none" -> {} [] kind = "basic" -> {Busy}
    [] kind = "full" -> {Full} [] OTHER -> {Mini}

TargetIds(t, kind) ==
  CASE t = Id("all") -> {Id("image:assemble"), Id("qemu-script:generate")}
    [] t = Id("kernel") -> {Id("kernel:build")}
    [] t = Id("rootfs") -> RootfsIds(kind)
    [] t = Id("minirootfs") -> {Mini}
    [] t = Id("full-rootfs") -> {Full}
    [] t = Id("busybox-rootfs") -> {Busy}
    [] t = Id("qemu-script") -> {Id("qemu-script:generate")}
    [] t[1] = "app" -> {t}
    [] OTHER -> {<<"ipkg", t[2]>>}

\* Packages make the minirootfs and the full rootfs; `minirootfs' forces the former.
RealPackages(t, kind) ==
  \/ t = Id("minirootfs")
  \/ /\ t \in {Id("all"), Id("rootfs"), Id("full-rootfs"), Id("qemu-script")}
     /\ RootfsIds(kind) \cap {Mini, Full} # {}
RealBusybox(t, kind) ==
  \/ t = Id("busybox-rootfs")
  \/ t \in {Id("all"), Id("rootfs"), Id("qemu-script")} /\ Busy \in RootfsIds(kind)

QemuDeps(ids) ==
  {Id("kernel:build")} \cup
  (IF Busy \in ids THEN {Busy} ELSE IF Full \in ids THEN {Full} ELSE IF Mini \in ids THEN {Mini} ELSE {})

FirstTasks ==
  <<Task(Id("config:load"), {}), Task(Toolchain, {Id("config:load")}),
    Task(Id("source:rt-thread"), {Id("config:load")}),
    Task(Id("kernel:packages:update"), {Toolchain, Id("source:rt-thread")}),
    Task(Id("kernel:build"), {Id("kernel:packages:update")})>>
AssembleTask(ids) == Task(Id("image:assemble"), {Id("kernel:build")} \cup ids)
ScriptTask(t, ids) ==
  IF t \in {Id("qemu-script"), Id("all")} THEN Task(Id("qemu-script:generate"), QemuDeps(ids))
  ELSE Placeholder(Id("qemu-script:generate"), QemuDeps(ids))

DefaultPlan(t, selection) ==
  LET kind == selection.rootfs
      forced == t = Id("minirootfs")
      ids == IF forced THEN {Mini} ELSE RootfsIds(kind)
      full == kind = "full" /\ ~ forced
      packages ==
        IF kind = "none" THEN <<>>
        ELSE IF RealPackages(t, kind) THEN MinirootfsTasks(selection.packages, full)
        ELSE IF ids \cap {Mini, Full} # {}
        THEN <<Placeholder(Id("rootfs:stage"), {Toolchain}),
               Placeholder(IF full THEN Full ELSE Mini, {Id("rootfs:stage")})>>
        ELSE <<>>
      busybox ==
        IF kind = "none" THEN <<>>
        ELSE IF RealBusybox(t, kind) THEN BusyboxTasks(TRUE)
        ELSE IF Busy \in ids
        THEN <<Placeholder(Busy, {IF packages = <<>> THEN Toolchain ELSE Id("rootfs:stage")})>>
        ELSE <<>>
  IN  FirstTasks \o packages \o busybox
      \o (IF kind = "none" THEN <<>> ELSE <<AssembleTask(ids)>>) \o <<ScriptTask(t, ids)>>

\* A package is planned as the configuration would have it.
PackageTasks(t) == ResolvedPackageTasks(Resolved(<<t[2]>>))

Planned(c, t) ==
  DefaultPlan(t, SelectionFor(c, t))
    \o (IF t[1] = "app" THEN <<AppTask(t[2])>> ELSE <<>>)
    \o (IF t[1] = "package" THEN PackageTasks(t) ELSE <<>>)

\* Before there is a graph: no rootfs to build, no package to put into one that
\* is made of packages, or a package that has no build of its own.
Rejected(c, t) ==
  \/ c.rootfs = "none" /\ t[1] \in {"all", "minirootfs", "rootfs", "busybox-rootfs", "package"}
  \/ c.rootfs # "none" /\ RealPackages(t, c.rootfs) /\ SelectionFor(c, t).packages = <<>>
  \/ t[1] = "package" /\ \E p \in Range(Resolved(<<t[2]>>)) : KindOf[p] = "app"

Reach(tasks, ids) ==
  LET found[k \in 0..Len(tasks)] ==
        IF k = 0 THEN ids
        ELSE LET before == found[k - 1]
             IN  before \cup UNION {tasks[i].deps : i \in {j \in 1..Len(tasks) : tasks[j].id \in before}}
  IN  found[Len(tasks)]

\* topological_order (module TaskGraph): the earliest task that is ready.
Ordered(tasks) ==
  LET placed[k \in 0..Len(tasks)] ==
        IF k = 0 THEN <<>>
        ELSE LET before == placed[k - 1]
                 ready == {i \in 1..Len(tasks) : ~ Contains(before, i)
                             /\ tasks[i].deps \subseteq {tasks[j].id : j \in Range(before)}}
             IN  IF ready = {} THEN before
                 ELSE Append(before, CHOOSE i \in ready : \A j \in ready : i <= j)
      last == placed[Len(tasks)]
  IN  [k \in 1..Len(last) |-> tasks[last[k]]]

\* What the target reaches must be there, every id once and without a cycle.
PlanFor(c, t) ==
  LET tasks == Planned(c, t)
      wanted == Reach(tasks, TargetIds(t, SelectionFor(c, t).rootfs))
      all == Ordered(tasks)
      made == /\ wanted \subseteq {tasks[i].id : i \in 1..Len(tasks)}
              /\ \A i, j \in 1..Len(tasks) : tasks[i].id = tasks[j].id => i = j
              /\ Len(all) = Len(tasks)
  IN  IF ~ Rejected(c, t) /\ made THEN SelectSeq(all, LAMBDA x : x.id \in wanted) ELSE <<>>

Configs == [rootfs : {"none", "basic", "minimal", "full"}, asked : Asked]
\* A table, worked out once.
Plans == [c \in Configs, t \in Targets |-> PlanFor(c, t)] @@ <<>>

-----------------------------------------------------------------------------
Init ==
  /\ uses \in UsesSets
  /\ config \in Configs
  /\ src = [p \in Pkg |-> 0]
  /\ stage = [p \in Pkg |-> {}] /\ stamp = [p \in Pkg |-> <<>>] /\ ipk = [p \in Pkg |-> {}]
  /\ rootfs = [packages |-> {}, base |-> FALSE]
  /\ image = [i \in Images |-> rootfs]
  /\ target = Id("kernel") /\ order = <<>> /\ pos = 0 /\ outcome = "none"
  /\ edits = 0 /\ faults = 0

Plan(t) ==
  /\ outcome # "running"
  /\ target' = t /\ order' = Plans[config, t] /\ pos' = 1
  /\ outcome' = IF order' = <<>> THEN "refused" ELSE "running"
  /\ UNCHANGED <<uses, config, src, stage, stamp, ipk, rootfs, image, edits, faults>>

Current == order[pos]
Now(name) == outcome = "running" /\ Current.id[1] = name
P == Current.id[2]
Going == /\ pos' = pos + 1
         /\ IF pos = Len(order)
            THEN outcome' = "done" /\ order' = <<>>
            ELSE UNCHANGED <<outcome, order>>
         /\ UNCHANGED <<uses, config, src, target, edits, faults>>

\* The cache compares the sources and the stages of direct dependencies; the
\* build looks into those of the closure, as far as they are there.
Signature == <<src[P], {<<q, stage[q]>> : q \in Current.stages}>>
BuildPackage ==
  /\ Now("package") \/ Now("target-build")
  /\ IF stage[P] # {} /\ stamp[P] = Signature
     THEN UNCHANGED <<stage, stamp>>
     ELSE /\ stage' = [stage EXCEPT ![P] = {<<P, src[P]>>} \cup UNION {stage[q] : q \in Current.prefix \cap uses[P]}]
          /\ stamp' = [stamp EXCEPT ![P] = Signature]
  /\ Going /\ UNCHANGED <<ipk, rootfs, image>>

BuildApp ==
  /\ Now("app")
  /\ stage' = [stage EXCEPT ![P] = {<<P, src[P]>>}]
  /\ Going /\ UNCHANGED <<stamp, ipk, rootfs, image>>

Pack ==
  /\ Now("ipkg")
  /\ ipk' = [ipk EXCEPT ![P] = stage[P]]
  /\ Going /\ UNCHANGED <<stage, stamp, rootfs, image>>

StageRootfs ==
  /\ Now("rootfs:stage")
  /\ rootfs' = [packages |-> {<<d[2], ipk[d[2]]>> : d \in {e \in Current.deps : e[1] = "ipkg"}},
                base |-> Id("busybox:stage-rootfs") \in Current.deps]
  /\ Going /\ UNCHANGED <<stage, stamp, ipk, image>>

MakeImage ==
  /\ Now("minirootfs:image") \/ Now("rootfs:image") \/ Now("busybox-rootfs:image")
  /\ image' = [image EXCEPT ![Current.id] =
       IF Current.id = Busy THEN [packages |-> {}, base |-> TRUE] ELSE rootfs]
  /\ Going /\ UNCHANGED <<stage, stamp, ipk, rootfs>>

\* Kernel, busybox, script and markers: other modules.
DoOther ==
  /\ outcome = "running"
  /\ Current.id[1] \notin {"package", "target-build", "app", "ipkg", "rootfs:stage",
                             "minirootfs:image", "rootfs:image", "busybox-rootfs:image"}
  /\ Going /\ UNCHANGED <<stage, stamp, ipk, rootfs, image>>

Fail ==
  /\ outcome = "running" /\ faults < MaxFaults
  /\ faults' = faults + 1 /\ outcome' = "failed" /\ order' = <<>>
  /\ UNCHANGED <<uses, config, src, stage, stamp, ipk, rootfs, image, target, pos, edits>>

\* Between builds: sources and the configuration.
Edit ==
  /\ outcome # "running" /\ edits < MaxEdits
  /\ edits' = edits + 1 /\ outcome' = "none"
  /\ \/ \E p \in Pkg : src' = [src EXCEPT ![p] = @ + 1] /\ UNCHANGED config
     \/ config' \in Configs /\ UNCHANGED src
  /\ UNCHANGED <<uses, stage, stamp, ipk, rootfs, image, target, order, pos, faults>>

Next ==
  \/ \E t \in Targets : Plan(t)
  \/ BuildPackage \/ BuildApp \/ Pack \/ StageRootfs \/ MakeImage \/ DoOther
  \/ Fail \/ Edit

Spec == Init /\ [][Next]_vars

-----------------------------------------------------------------------------
Source == Pkg \X (0..MaxEdits)
TypeOK ==
  /\ stage \in [Pkg -> SUBSET Source] /\ ipk \in [Pkg -> SUBSET Source]
  /\ outcome \in {"none", "refused", "running", "failed", "done"}
  /\ outcome = "running" => pos \in 1..Len(order)
  /\ edits \in 0..MaxEdits /\ faults \in 0..MaxFaults

\* Every provider is the only selected one.
Unambiguous(selected) ==
  \A c \in Capability, p, q \in Range(selected) : c \in Provides[p] /\ c \in Provides[q] => p = q

\* What a package is made of when everything is built from what is there now.
Fresh(p, selected) ==
  LET built == SelectSeq(selected, LAMBDA r : KindOf[r] # "app")
      made[q \in Pkg] ==
        {<<q, src[q]>>} \cup
        IF KindOf[q] = "app" THEN {} ELSE UNION {made[r] : r \in uses[q] \cap Closure(q, built)}
  IN  made[p]

\* A package that uses another names it.
NamesWhatItUses(selected) ==
  \A p \in Range(selected) : uses[p] \cap Closure(p, selected) \subseteq Direct(p, selected)

Wanted == IF target[1] = "package" THEN Resolved(<<target[2]>>) ELSE SelectionFor(config, target).packages
Settled == outcome = "done" /\ Unambiguous(Wanted) /\ NamesWhatItUses(Wanted)

(* Packages that wait for each other, or for an executable of the host.    *)
Circular(selected) == \E p \in Range(selected) : \E q \in Closure(p, selected) : p \in Closure(q, selected)
HostTool(selected) ==
  \E p \in Range(selected) : KindOf[p] # "app" /\ \E q \in Direct(p, selected) \cap Host : KindOf[q] = "executable"

(* A real build never meets a placeholder task, and no target that the      *)
(* configuration has is refused: whatever the rootfs, the plan has every    *)
(* task that the target reaches, once, and in an order, unless no package   *)
(* is selected for a rootfs of packages, or the packages depend on each     *)
(* other in a circle or on a host package that is an executable.            *)
PlanIsReal ==
  /\ outcome = "running" => \A i \in 1..Len(order) : order[i].real
  /\ outcome = "refused" =>
       \/ config.rootfs = "none"
       \/ RealPackages(target, config.rootfs) /\ Wanted = <<>>
       \/ target = Id("full-rootfs") /\ config.rootfs # "full"
       \/ target[1] = "package" /\ (target[2] \in Host \/ \E p \in Range(Wanted) : KindOf[p] = "app")
       \/ Circular(Wanted) \/ HostTool(Wanted) \/ ~ Unambiguous(Wanted)

(* Every package of a build that has ended well is what a build from        *)
(* scratch would make of the sources, whatever was built, edited or failed  *)
(* before, when it names every package it uses: a package that takes        *)
(* something of an indirect dependency is not rebuilt when only that        *)
(* changes.                                                                 *)
StagesAreFresh ==
  (Settled /\ target[1] \in {"all", "rootfs", "package"}) =>
    \A p \in Range(Wanted) : stage[p] = Fresh(p, Wanted)

(* docs/packages/package-yaml.md:23: host dependencies are selected and     *)
(* built: no plan is refused because of one.                                *)
HostToolsArePlanned ==
  outcome = "refused" =>
    \/ target[1] = "package" /\ target[2] \in Host
    \/ config.rootfs = "none"
    \/ target = Id("minirootfs") /\ config.rootfs = "basic"
    \/ target = Id("full-rootfs") /\ config.rootfs # "full"
    \/ Circular(Wanted)
=============================================================================
