------------------------------ MODULE Scheduler ------------------------------
(***************************************************************************)
(* A build and everything that happens between two builds.                 *)
(*                                                                         *)
(* cli._run_build plans a target, Scheduler.run executes the tasks of the  *)
(* plan one after the other in topological order (module TaskGraph), asks  *)
(* the cache before each of them (module Cache), and a build that ends     *)
(* well writes the manifest.  Around it a user edits inputs, at any time,  *)
(* cleans the machine's build directory, and kills builds.                 *)
(*                                                                         *)
(* The execution of a task is three steps: its executor reads its inputs   *)
(* (ReadInputs) and leaves its result (Produce), and the scheduler checks  *)
(* and stamps that (StampTask), so that edits, failures and crashes fall   *)
(* between reading, producing and stamping.                                *)
(***************************************************************************)
EXTENDS Cache, Sequences

CONSTANTS Deps,       \* Deps[t]: tasks that t depends on
          Target,     \* the orders that topological_order() returns, one per target
          MaxBuilds,  \* bound: builds started
          MaxEdits    \* bound: edits of an input, removals of an interrupted clean

\* What TaskGraph guarantees of an order (DependenciesFirst, OrderIsComplete),
\* and the planner's rule that a task is fed only by what it depends on.
ASSUME TargetAssumption ==
  /\ Target \subseteq Seq(Task)
  /\ Deps \in [Task -> SUBSET Task]
  /\ \A t \in Task : t \notin Reads[t] \cup Hashed[t]
  /\ \A p \in Target :
       /\ \A i, j \in 1..Len(p) : p[i] = p[j] => i = j
       /\ \A i \in 1..Len(p) : \A u \in Deps[p[i]] \cup Reads[p[i]] \cup Hashed[p[i]] :
            \E j \in 1..(i - 1) : p[j] = u

ASSUME BoundAssumption == MaxBuilds \in Nat /\ MaxEdits \in Nat

VARIABLES run,       \* state of the current or last build
          plan,      \* its tasks in order
          pos,       \* position of the task at hand
          step,      \* how far the scheduler is with it
          status,    \* TaskResult of every task in this build
          seen,      \* inputs the running executor has read
          manifest,  \* manifest.json: outputs it records the checksums of
          builds, edits,
          tainted,   \* history: an attempt at the task left outputs its stamp
                     \*   does not describe
          quiet,     \* history: no input was edited during this build
          settled    \* history: tasks built undisturbed, and undisturbed since

cacheVars == <<src, out, stamp>>
bounds == <<builds, edits>>
history == <<tainted, quiet, settled>>
vars == <<cacheVars, run, plan, pos, step, status, seen, manifest, bounds, history>>

Inputs(t) == [own : Version, ups : OutputsOf(Reads[t])]

TypeOK ==
  /\ CacheTypeOK
  /\ run \in {"none", "running", "ok", "failed", "crashed"}
  /\ plan \in Target \cup {<<>>}
  /\ pos \in 1..(Len(plan) + 1)
  /\ step \in {"check", "execute", "write", "verify"}
  /\ step # "check" => run = "running" /\ pos <= Len(plan)
  /\ status \in [Task -> {"pending", "skipped", "success", "failed"}]
  /\ IF step \in {"write", "verify"} THEN seen \in Inputs(plan[pos]) ELSE seen = None
  /\ \/ manifest \in {None, Torn}
     \/ \E U \in SUBSET Task : manifest \in OutputsOf(U)
  /\ builds \in 0..MaxBuilds /\ edits \in 0..MaxEdits
  /\ tainted \in [Task -> BOOLEAN]
  /\ quiet \in BOOLEAN
  /\ settled \in SUBSET Task

Running == run = "running"
Planned == {plan[i] : i \in 1..Len(plan)}
AtTask(t, s) == Running /\ pos <= Len(plan) /\ t = plan[pos] /\ step = s
InputsNow(t) == [own |-> src[t], ups |-> Seen(Reads[t])]

Init ==
  /\ src \in [Task -> Version]
  /\ out = [t \in Task |-> Absent]
  /\ stamp = [t \in Task |-> None]
  /\ run = "none" /\ plan = <<>> /\ pos = 1 /\ step = "check"
  /\ status = [t \in Task |-> "pending"]
  /\ seen = None /\ manifest = None
  /\ builds = 0 /\ edits = 0
  /\ tainted = [t \in Task |-> FALSE]
  /\ quiet = TRUE /\ settled = {}

-----------------------------------------------------------------------------
(* The build.                                                              *)

\* Faults the properties are measured against; not part of the specification.
StartBuildKeepingResults(p) ==
  /\ ~ Running /\ builds < MaxBuilds
  /\ builds' = builds + 1
  /\ run' = "running" /\ plan' = p /\ pos' = 1 /\ step' = "check"
  /\ quiet' = TRUE
  /\ UNCHANGED <<cacheVars, status, seen, manifest, edits, tainted, settled>>

StartBuild(p) ==
  /\ ~ Running
  /\ builds < MaxBuilds
  /\ builds' = builds + 1
  /\ run' = "running" /\ plan' = p /\ pos' = 1 /\ step' = "check"
  /\ status' = [t \in Task |-> "pending"]
  /\ quiet' = TRUE
  /\ UNCHANGED <<cacheVars, seen, manifest, edits, tainted, settled>>

\* The task at hand is finished with result r: on to the next one.
Advance(t, r) ==
  /\ status' = [status EXCEPT ![t] = r]
  /\ pos' = pos + 1
  /\ step' = "check" /\ seen' = None

Skip(t) ==
  /\ AtTask(t, "check")
  /\ IsHit(t)
  /\ Advance(t, "skipped")
  /\ UNCHANGED <<cacheVars, run, plan, manifest, bounds, history>>

Execute(t) ==
  /\ AtTask(t, "check")
  /\ ~ IsHit(t)
  /\ step' = "execute"
  /\ tainted' = [tainted EXCEPT ![t] = stamp[t] \notin {None, Torn}]
  /\ UNCHANGED <<cacheVars, run, plan, pos, status, seen, manifest, bounds, quiet, settled>>

ReadInputs(t) ==
  /\ AtTask(t, "execute")
  /\ seen' = InputsNow(t)
  /\ step' = "write"
  /\ UNCHANGED <<cacheVars, run, plan, pos, status, manifest, bounds, history>>

\* A command can also exit with 0 and leave an expected output missing.
Produce(t) ==
  /\ AtTask(t, "write")
  /\ \E o \in {Build(t, seen.own, seen.ups), Absent} : out' = [out EXCEPT ![t] = o]
  /\ step' = "verify"
  /\ UNCHANGED <<src, stamp, run, plan, pos, status, seen, manifest, bounds, history>>

\* _verify_outputs, then Cache.write, whose signature is taken only now.
StampTask(t) ==
  /\ AtTask(t, "verify")
  /\ out[t] # Absent
  /\ stamp' = Stamped(t)
  /\ tainted' = [tainted EXCEPT ![t] = seen # InputsNow(t)]
  /\ Advance(t, "success")
  /\ UNCHANGED <<src, out, run, plan, manifest, bounds, quiet, settled>>

\* All tasks are done: write_manifest, then the summary.
Finish ==
  /\ Running
  /\ pos = Len(plan) + 1
  /\ manifest' = Seen(Planned)
  /\ run' = "ok"
  /\ settled' = IF quiet THEN settled \cup Planned ELSE {}
  /\ UNCHANGED <<cacheVars, plan, pos, step, status, seen, bounds, tainted, quiet>>

-----------------------------------------------------------------------------
(* Failures and kills.                                                     *)

\* The build stops here; the executor leaves its outputs as they are or
\* damages them, a stamp or a manifest being written is left whole or torn.
Stop(how) ==
  /\ Running
  /\ run' = how /\ step' = "check" /\ seen' = None
  /\ settled' = {}
  /\ UNCHANGED <<src, plan, pos, bounds, quiet>>

\* What an executor can leave of its outputs when it is cut short.
Disturbed(t) == {[out EXCEPT ![t] = o] : o \in {out[t], Absent, Partial}}

\* is_hit is asked outside the try that reports a failing task: the task
\* keeps no result.
FailBeforeExecution(t) ==
  /\ AtTask(t, "check")
  /\ Stop("failed")
  /\ UNCHANGED <<out, stamp, status, manifest, tainted>>

\* The executor raises, or its command exits with another code than 0.
FailExecution(t) ==
  /\ AtTask(t, "execute") \/ AtTask(t, "write")
  /\ Stop("failed")
  /\ out' \in Disturbed(t)
  /\ status' = [status EXCEPT ![t] = "failed"]
  /\ UNCHANGED <<stamp, manifest, tainted>>

\* What an attempt to stamp t can leave when it is cut short.
StampsLeft(t) ==
  IF out[t] = Absent \/ t \notin Cached THEN {stamp}
  ELSE {stamp, [stamp EXCEPT ![t] = Torn], Stamped(t)}

\* A stamp that is written, in part or whole, is of the outputs beside it, but for
\* an edit since the executor has read.
TaintLeft(t) ==
  IF stamp' = stamp THEN tainted ELSE [tainted EXCEPT ![t] = seen # InputsNow(t)]

\* A fault, not part of the specification: a missing output is not reported.
FailVerificationOfStamp(t) ==
  /\ AtTask(t, "verify") /\ out[t] # Absent
  /\ Stop("failed")
  /\ stamp' \in StampsLeft(t) /\ tainted' = TaintLeft(t)
  /\ status' = [status EXCEPT ![t] = "failed"]
  /\ UNCHANGED <<out, manifest>>

\* An output is missing, or the stamp or the log cannot be written.
FailVerification(t) ==
  /\ AtTask(t, "verify")
  /\ Stop("failed")
  /\ stamp' \in StampsLeft(t) /\ tainted' = TaintLeft(t)
  /\ status' = [status EXCEPT ![t] = "failed"]
  /\ UNCHANGED <<out, manifest>>

FailManifest ==
  /\ pos = Len(plan) + 1
  /\ Stop("failed")
  /\ manifest' \in {manifest, Torn}
  /\ UNCHANGED <<out, stamp, status, tainted>>

\* The process is killed.
Crash ==
  /\ Stop("crashed")
  /\ IF step \in {"execute", "write"} THEN out' \in Disturbed(plan[pos]) ELSE out' = out
  /\ IF step = "verify"
       THEN stamp' \in StampsLeft(plan[pos]) /\ tainted' = TaintLeft(plan[pos])
       ELSE UNCHANGED <<stamp, tainted>>
  /\ manifest' \in {manifest} \cup (IF pos > Len(plan) THEN {Torn} ELSE {})
  /\ UNCHANGED status

-----------------------------------------------------------------------------
(* Between builds, and while they run.                                     *)

\* The user edits a source, a configuration, or an environment variable.
EditInput(t, v) ==
  /\ edits < MaxEdits
  /\ edits' = edits + 1
  /\ v # src[t]
  /\ src' = [src EXCEPT ![t] = v]
  /\ quiet' = FALSE
  /\ settled' = {}
  /\ UNCHANGED <<out, stamp, run, plan, pos, step, status, seen, manifest, builds, tainted>>

\* clean: shutil.rmtree of the machine's build directory.
Removing ==
  /\ ~ Running
  /\ run' = "none" /\ settled' = {}
  /\ UNCHANGED <<src, plan, pos, step, status, seen, builds, quiet>>

Clean ==
  /\ Removing
  /\ out' = [t \in Task |-> Absent] /\ stamp' = [t \in Task |-> None] /\ manifest' = None
  /\ UNCHANGED <<edits, tainted>>

\* Interrupted, it has removed any part of that: one thing after the other.
CutShort == Removing /\ edits < MaxEdits /\ edits' = edits + 1

CleanOutputs(t) ==
  /\ CutShort
  /\ out[t] # Absent
  /\ \/ /\ out' = [out EXCEPT ![t] = Absent]
        /\ UNCHANGED tainted
     \/ /\ out' = [out EXCEPT ![t] = Partial]
        /\ tainted' = [tainted EXCEPT ![t] = TRUE]
  /\ UNCHANGED <<stamp, manifest>>

CleanStamp(t) ==
  /\ CutShort
  /\ stamp[t] # None
  /\ stamp' = [stamp EXCEPT ![t] = None]
  /\ UNCHANGED <<out, manifest, tainted>>

SchedulerStep ==
  \/ \E t \in Task : Skip(t) \/ Execute(t) \/ ReadInputs(t) \/ Produce(t) \/ StampTask(t)
  \/ \E t \in Task : FailBeforeExecution(t) \/ FailExecution(t) \/ FailVerification(t)
  \/ Finish
  \/ FailManifest

Next ==
  \/ \E p \in Target : StartBuild(p)
  \/ SchedulerStep
  \/ Crash
  \/ \E t \in Task, v \in Version : EditInput(t, v)
  \/ \E t \in Task : CleanOutputs(t) \/ CleanStamp(t)
  \/ Clean

Spec == Init /\ [][Next]_vars

\* The scheduler is one thread, executors and commands end, nothing waits for
\* the user.
FairSpec == Spec /\ WF_vars(SchedulerStep)

-----------------------------------------------------------------------------
(* What skipping tasks must not change.                                    *)

\* A task that would be skipped has the outputs its executor would make now,
\* whatever was edited, failed, killed or half cleaned before, a kill between
\* executing and stamping or in the middle of the stamp included; unless an
\* attempt has left its outputs beside the stamp of an earlier one, or an input
\* was edited while its executor ran, or it reads more than its inputs list
\* (cache.py:12).  The exceptions are real: see the README.
HitIsFresh == \A t \in Sealed : IsHit(t) /\ ~ tainted[t] => Fresh(t)

\* When a build ends well and nothing was edited meanwhile, every task of its
\* plan has up-to-date outputs, executed or skipped, although later tasks ran
\* after it; and the manifest holds the checksums of just these outputs.
BuildConsistent ==
  run = "ok" /\ quiet =>
    /\ manifest = Seen(Planned)
    /\ \A t \in Planned :
         status[t] = "success" \/ (t \in Sealed /\ ~ tainted[t]) => Fresh(t)

\* What a build in an empty directory makes, task by task in the plan's order.
CleanBuild ==
  LET place(u) == CHOOSE j \in 1..Len(plan) : plan[j] = u
      made[i \in 1..Len(plan)] ==
        LET t == plan[i]
        IN  Build(t, src[t], [u \in Reads[t] |-> made[place(u)]])
  IN  made

\* An incremental build records the outputs a clean build would have recorded.
IncrementalEqualsClean ==
  (/\ run = "ok" /\ quiet
   /\ \A t \in Planned : status[t] = "success" \/ (t \in Sealed /\ ~ tainted[t]))
    => \A i \in 1..Len(plan) : manifest[plan[i]] = CleanBuild[i]

\* What was built undisturbed and not touched since is not executed again,
\* although the tasks without cache policy that feed it are.
SettledBuildOnlySkips ==
  step # "check" /\ plan[pos] \in Cached => plan[pos] \notin settled

\* Finished tasks in dependency order, once each, and "ok" only when all are.
Finished == {t \in Task : status[t] \in {"skipped", "success"}}
Order == INSTANCE OrderedRun WITH goal <- Planned, done <- Finished
ImplementsOrder == Order!Spec

\* A build that was started ends, one way or the other: no task is left
\* neither finished nor failed.
BuildEnds == Running ~> ~ Running
=============================================================================
