---------------------------- MODULE Builds_proofs ----------------------------
(***************************************************************************)
(* For every plan, every content and any number of builds and edits: the   *)
(* types, the soundness of a cache hit, the consistency of a build that    *)
(* ended well, that it is what a build from nothing makes, that a second   *)
(* one skips, and that the builds implement OrderedRun.  For every number  *)
(* of tasks and every set of ids: the order that TaskGraph finds, or what  *)
(* it refuses.                                                             *)
(***************************************************************************)
EXTENDS Builds, FiniteSetTheorems, TLAPS

-----------------------------------------------------------------------------
(* The file system.                                                        *)

LEMMA SeenType ==
  ASSUME CacheTypeOK, NEW U \in SUBSET Task
  PROVE  Seen(U) \in OutputsOf(U)
BY DEF CacheTypeOK, Seen, OutputsOf

LEMMA InputsNowType ==
  ASSUME CacheTypeOK, NEW t \in Task
  PROVE  InputsNow(t) \in Inputs(t)
<1>1. Reads[t] \in SUBSET Task
  BY CacheAssumption DEF CacheAssumption
<1>2. Seen(Reads[t]) \in OutputsOf(Reads[t])
  BY <1>1, SeenType
<1>3. src[t] \in Version
  BY DEF CacheTypeOK
<1> QED
  BY <1>2, <1>3 DEF InputsNow, Inputs

LEMMA SignatureType ==
  ASSUME CacheTypeOK, NEW t \in Task
  PROVE  Signature(t) \in Signatures(t)
<1>1. Hashed[t] \in SUBSET Task
  BY CacheAssumption DEF CacheAssumption
<1>2. Seen(Hashed[t]) \in OutputsOf(Hashed[t])
  BY <1>1, SeenType
<1>3. src[t] \in Version
  BY DEF CacheTypeOK
<1> QED
  BY <1>2, <1>3 DEF Signature, Signatures

\* Replacing the outputs of one task.
LEMMA OutputsUpdate ==
  ASSUME CacheTypeOK, NEW t \in Task, NEW o \in Content[t]
  PROVE  [out EXCEPT ![t] = o] \in OutputsOf(Task)
<1>1. out \in [Task -> UNION {Content[u] : u \in Task}] /\ \A u \in Task : out[u] \in Content[u]
  BY DEF CacheTypeOK, OutputsOf
<1>2. o \in UNION {Content[u] : u \in Task}
  OBVIOUS
<1> DEFINE f == [out EXCEPT ![t] = o]
<1>3. f \in [Task -> UNION {Content[u] : u \in Task}]
  BY <1>1, <1>2
<1>4. \A u \in Task : f[u] \in Content[u]
  BY <1>1
<1> QED
  BY <1>3, <1>4 DEF OutputsOf

\* Replacing one stamp.
LEMMA StampUpdate ==
  ASSUME CacheTypeOK, NEW t \in Task, NEW s \in Signatures(t) \cup {None, Torn}
  PROVE  [stamp EXCEPT ![t] = s] \in Stamps
<1> DEFINE Any == {None, Torn} \cup UNION {Signatures(u) : u \in Task}
<1> DEFINE f == [stamp EXCEPT ![t] = s]
<1>1. stamp \in [Task -> Any] /\ \A u \in Task : stamp[u] \in Signatures(u) \cup {None, Torn}
  BY DEF CacheTypeOK, Stamps
<1>2. s \in Any
  OBVIOUS
<1>3. f \in [Task -> Any]
  BY <1>1, <1>2
<1>4. \A u \in Task : f[u] \in Signatures(u) \cup {None, Torn}
  BY <1>1
<1> QED
  BY <1>3, <1>4 DEF Stamps

LEMMA StampedType ==
  ASSUME CacheTypeOK, NEW t \in Task
  PROVE  Stamped(t) \in Stamps
BY SignatureType, StampUpdate DEF Stamped, CacheTypeOK

LEMMA StampsLeftType ==
  ASSUME CacheTypeOK, NEW t \in Task, NEW s \in StampsLeft(t)
  PROVE  s \in Stamps
<1>1. [stamp EXCEPT ![t] = Torn] \in Stamps
  BY StampUpdate
<1> QED
  BY <1>1, StampedType DEF StampsLeft, CacheTypeOK

LEMMA DisturbedType ==
  ASSUME CacheTypeOK, NEW t \in Task, NEW o \in Disturbed(t)
  PROVE  o \in OutputsOf(Task)
<1>1. out[t] \in Content[t] /\ Absent \in Content[t] /\ Partial \in Content[t]
  BY CacheAssumption DEF CacheAssumption, CacheTypeOK, OutputsOf
<1>2. PICK c \in {out[t], Absent, Partial} : o = [out EXCEPT ![t] = c]
  BY DEF Disturbed
<1>3. c \in Content[t]
  BY <1>1
<1> QED
  BY <1>2, <1>3, OutputsUpdate

-----------------------------------------------------------------------------
(* The plan.                                                               *)

LEMMA PlanType ==
  ASSUME plan \in Target \cup {<<>>}
  PROVE  /\ plan \in Seq(Task)
         /\ Len(plan) \in Nat
         /\ \A i \in 1..Len(plan) : plan[i] \in Task
         /\ Planned \in SUBSET Task
<1>1. plan \in Seq(Task)
  <2>1. CASE plan \in Target
    BY <2>1, TargetAssumption DEF TargetAssumption
  <2>2. CASE plan = <<>>
    BY <2>2
  <2> QED
    BY <2>1, <2>2
<1>2. Len(plan) \in Nat /\ \A i \in 1..Len(plan) : plan[i] \in Task
  BY <1>1
<1> QED
  BY <1>1, <1>2 DEF Planned

LEMMA PlanOrder ==
  ASSUME plan \in Target \cup {<<>>}
  PROVE  /\ \A i, j \in 1..Len(plan) : plan[i] = plan[j] => i = j
         /\ \A i \in 1..Len(plan) :
              \A u \in Deps[plan[i]] \cup Reads[plan[i]] \cup Hashed[plan[i]] :
                \E j \in 1..(i - 1) : plan[j] = u
<1>1. CASE plan \in Target
  BY <1>1, TargetAssumption DEF TargetAssumption
<1>2. CASE plan = <<>>
  BY <1>2
<1> QED
  BY <1>1, <1>2

-----------------------------------------------------------------------------
(* Types.                                                                  *)

\* The task at hand is one of the plan.
LEMMA AtTaskInPlan ==
  ASSUME TypeOK, NEW t, NEW s, AtTask(t, s)
  PROVE  t \in Task /\ pos \in 1..Len(plan) /\ t = plan[pos]
BY PlanType DEF TypeOK, AtTask

\* What an action leaves of the build when it does not go on with it.
LEMMA AdvanceTypes ==
  ASSUME TypeOK, NEW t, NEW s, AtTask(t, s), NEW r \in {"skipped", "success"},
         Advance(t, r), run' = run, plan' = plan
  PROVE  /\ pos' \in 1..(Len(plan') + 1)
         /\ step' = "check" /\ seen' = None
         /\ status' \in [Task -> {"pending", "skipped", "success", "failed"}]
BY AtTaskInPlan, PlanType DEF TypeOK, Advance

LEMMA TypeInit == Init => TypeOK
<1> SUFFICES ASSUME Init PROVE TypeOK
  OBVIOUS
<1>1. out \in OutputsOf(Task)
  <2>1. \A t \in Task : Absent \in Content[t]
    BY CacheAssumption DEF CacheAssumption
  <2> QED
    BY <2>1 DEF Init, OutputsOf
<1>2. stamp \in Stamps
  BY DEF Init, Stamps
<1>3. CacheTypeOK
  BY <1>1, <1>2 DEF Init, CacheTypeOK
<1>4. Len(plan) = 0
  BY DEF Init
<1> QED
  BY <1>3, <1>4, BoundAssumption DEF Init, TypeOK, BoundAssumption

LEMMA TypeNext == TypeOK /\ [Next]_vars => TypeOK'
<1> SUFFICES ASSUME TypeOK, [Next]_vars PROVE TypeOK'
  OBVIOUS
<1> USE BoundAssumption DEF BoundAssumption
<1>a. CacheTypeOK
  BY DEF TypeOK
<1>b. Len(plan) \in Nat /\ Planned \in SUBSET Task
  BY PlanType DEF TypeOK
<1>c. tainted \in [Task -> BOOLEAN] /\ edits \in 0..MaxEdits
  BY DEF TypeOK
<1>1. ASSUME NEW p \in Target, StartBuild(p) PROVE TypeOK'
  <2>1. CacheTypeOK'
    BY <1>a, <1>1 DEF CacheTypeOK, StartBuild, cacheVars
  <2>2. Len(p) \in Nat
    BY TargetAssumption DEF TargetAssumption
  <2> QED
    BY <1>1, <2>1, <2>2 DEF TypeOK, StartBuild, Running
<1>2. ASSUME NEW t \in Task, Skip(t) PROVE TypeOK'
  <2>1. CacheTypeOK'
    BY <1>a, <1>2 DEF CacheTypeOK, Skip, cacheVars
  <2> QED
    BY <1>2, <2>1, AdvanceTypes DEF TypeOK, Skip, bounds, history
<1>3. ASSUME NEW t \in Task, Execute(t) PROVE TypeOK'
  <2>1. CacheTypeOK'
    BY <1>a, <1>3 DEF CacheTypeOK, Execute, cacheVars
  <2> QED
    BY <1>3, <2>1 DEF TypeOK, Execute, AtTask, Running, bounds
<1>4. ASSUME NEW t \in Task, ReadInputs(t) PROVE TypeOK'
  <2>1. CacheTypeOK'
    BY <1>a, <1>4 DEF CacheTypeOK, ReadInputs, cacheVars
  <2>2. seen' \in Inputs(plan'[pos'])
    BY <1>a, <1>4, InputsNowType DEF ReadInputs, AtTask
  <2> QED
    BY <1>4, <2>1, <2>2 DEF TypeOK, ReadInputs, AtTask, Running, bounds, history
<1>5. ASSUME NEW t \in Task, Produce(t) PROVE TypeOK'
  <2>1. seen \in Inputs(t)
    BY <1>5 DEF TypeOK, Produce, AtTask
  <2>2. Build(t, seen.own, seen.ups) \in Content[t]
    BY <2>1, BuildAssumption DEF BuildAssumption, Inputs
  <2>3. Absent \in Content[t]
    BY CacheAssumption DEF CacheAssumption
  <2>4. out' \in OutputsOf(Task)
    BY <1>a, <1>5, <2>2, <2>3, OutputsUpdate DEF Produce
  <2>5. CacheTypeOK'
    BY <1>a, <1>5, <2>4 DEF CacheTypeOK, Produce
  <2> QED
    BY <1>5, <2>1, <2>5 DEF TypeOK, Produce, AtTask, Running, bounds, history
<1>6. ASSUME NEW t \in Task, StampTask(t) PROVE TypeOK'
  <2>1. CacheTypeOK'
    BY <1>a, <1>6, StampedType DEF CacheTypeOK, StampTask
  <2> QED
    BY <1>6, <2>1, AdvanceTypes DEF TypeOK, StampTask, bounds
<1>7. CASE Finish
  <2>1. CacheTypeOK'
    BY <1>a, <1>7 DEF CacheTypeOK, Finish, cacheVars
  <2>2. manifest' \in OutputsOf(Planned)
    BY <1>a, <1>b, <1>7, SeenType DEF Finish
  <2>3. step = "check" /\ seen = None
    BY <1>7, <1>b DEF TypeOK, Finish
  <2>4. settled' \in SUBSET Task
    BY <1>7, <1>b DEF TypeOK, Finish
  <2>5. manifest' \in {None, Torn} \/ \E U \in SUBSET Task : manifest' \in OutputsOf(U)
    BY <2>2, <1>b
  <2>6. run' = "ok" /\ UNCHANGED <<plan, pos, step, status, seen, builds, edits, tainted, quiet>>
    BY <1>7 DEF Finish, bounds
  <2> QED
    BY <2>1, <2>3, <2>4, <2>5, <2>6 DEF TypeOK
<1>d. ASSUME NEW t \in Task PROVE TaintLeft(t) \in [Task -> BOOLEAN]
  BY <1>c, <1>d DEF TaintLeft
<1>8. ASSUME NEW t \in Task,
             FailBeforeExecution(t) \/ FailExecution(t) \/ FailVerification(t)
      PROVE  TypeOK'
  <2>1. CacheTypeOK'
    BY <1>a, <1>8, DisturbedType, StampsLeftType
    DEF CacheTypeOK, FailBeforeExecution, FailExecution, FailVerification, Stop
  <2>2. tainted' \in [Task -> BOOLEAN]
    BY <1>c, <1>d, <1>8 DEF FailBeforeExecution, FailExecution, FailVerification
  <2> QED
    BY <1>8, <2>1, <2>2
    DEF TypeOK, FailBeforeExecution, FailExecution, FailVerification, Stop, bounds
<1>9. CASE FailManifest
  <2>1. CacheTypeOK'
    BY <1>a, <1>9 DEF CacheTypeOK, FailManifest, Stop
  <2> QED
    BY <1>9, <2>1 DEF TypeOK, FailManifest, Stop, bounds
<1>10. CASE Crash
  <2>1. step # "check" => plan[pos] \in Task
    BY PlanType DEF TypeOK
  <2>2. out' \in OutputsOf(Task)
    BY <1>a, <1>10, <2>1, DisturbedType DEF CacheTypeOK, Crash
  <2>3. stamp' \in Stamps
    BY <1>a, <1>10, <2>1, StampsLeftType DEF CacheTypeOK, Crash
  <2>4. CacheTypeOK'
    BY <1>a, <1>10, <2>2, <2>3 DEF CacheTypeOK, Crash, Stop
  <2>5. manifest' \in {manifest, Torn}
    BY <1>10 DEF Crash
  <2>6. tainted' \in [Task -> BOOLEAN]
    BY <1>c, <1>d, <1>10, <2>1 DEF Crash
  <2> QED
    BY <1>10, <2>4, <2>5, <2>6 DEF TypeOK, Crash, Stop, bounds
<1>11. ASSUME NEW t \in Task, NEW v \in Version, EditInput(t, v) PROVE TypeOK'
  <2>1. CacheTypeOK'
    BY <1>a, <1>11 DEF CacheTypeOK, EditInput
  <2>2. edits' \in 0..MaxEdits
    BY <1>c, <1>11 DEF EditInput
  <2>4. quiet' \in BOOLEAN /\ settled' \in SUBSET Task
    BY <1>11 DEF EditInput
  <2>3. UNCHANGED <<run, plan, pos, step, status, seen, manifest, builds, tainted>>
    BY <1>11 DEF EditInput
  <2> QED
    BY <2>1, <2>2, <2>3, <2>4 DEF TypeOK
<1>12. ASSUME NEW t \in Task, CleanOutputs(t) PROVE TypeOK'
  <2>1. Absent \in Content[t] /\ Partial \in Content[t]
    BY CacheAssumption DEF CacheAssumption
  <2>2. out' \in OutputsOf(Task)
    BY <1>a, <1>12, <2>1, OutputsUpdate DEF CleanOutputs
  <2>3. CacheTypeOK'
    BY <1>a, <1>12, <2>2 DEF CacheTypeOK, CleanOutputs, CutShort, Removing
  <2>a. tainted' = tainted \/ tainted' = [tainted EXCEPT ![t] = TRUE]
    BY <1>12 DEF CleanOutputs
  <2>b. edits < MaxEdits /\ edits' = edits + 1
    BY <1>12 DEF CleanOutputs, CutShort
  <2>c. tainted' \in [Task -> BOOLEAN]
    BY <1>c, <2>a
  <2>4. tainted' \in [Task -> BOOLEAN] /\ edits' \in 0..MaxEdits
    BY <1>c, <2>b, <2>c
  <2>5. run' = "none" /\ run # "running" /\ settled' = {}
    BY <1>12 DEF CleanOutputs, CutShort, Removing, Running
  <2>6. UNCHANGED <<plan, pos, step, status, seen, manifest, builds, quiet>>
    BY <1>12 DEF CleanOutputs, CutShort, Removing
  <2> QED
    BY <2>3, <2>4, <2>5, <2>6 DEF TypeOK
<1>13. ASSUME NEW t \in Task, CleanStamp(t) PROVE TypeOK'
  <2>1. stamp' \in Stamps
    BY <1>a, <1>13, StampUpdate DEF CleanStamp
  <2>2. CacheTypeOK'
    BY <1>a, <1>13, <2>1 DEF CacheTypeOK, CleanStamp, CutShort, Removing
  <2> QED
    BY <1>13, <2>2 DEF TypeOK, CleanStamp, CutShort, Removing, Running
<1>14. CASE Clean
  <2>1. out' \in OutputsOf(Task)
    <3>1. \A t \in Task : Absent \in Content[t]
      BY CacheAssumption DEF CacheAssumption
    <3> QED
      BY <1>14, <3>1 DEF Clean, OutputsOf
  <2>2. stamp' \in Stamps
    BY <1>14 DEF Clean, Stamps
  <2>3. CacheTypeOK'
    BY <1>a, <1>14, <2>1, <2>2 DEF CacheTypeOK, Clean, Removing
  <2> QED
    BY <1>14, <2>3 DEF TypeOK, Clean, Removing, Running
<1>15. CASE UNCHANGED vars
  <2>1. CacheTypeOK'
    BY <1>a, <1>15 DEF CacheTypeOK, vars, cacheVars
  <2> QED
    BY <1>15, <2>1 DEF TypeOK, vars, bounds, history
<1> QED
  BY <1>1, <1>2, <1>3, <1>4, <1>5, <1>6, <1>7, <1>8, <1>9, <1>10, <1>11, <1>12, <1>13,
     <1>14, <1>15 DEF Next, SchedulerStep

\* Every variable keeps its type.
THEOREM TypeCorrect == Spec => []TypeOK
BY TypeInit, TypeNext, PTL DEF Spec

-----------------------------------------------------------------------------
(* The inductive invariant.                                                *)

\* A stamp that no later attempt has overtaken tells what the outputs are.
Trusted(t) ==
  stamp[t] \notin {None, Torn} /\ ~ tainted[t] /\ out[t] # Absent
    => out[t] = Build(t, stamp[t].own, [u \in Reads[t] |-> stamp[t].ups[u]])
TrustedStamps == \A t \in Sealed : Trusted(t)

\* Without cache policy there is no stamp.
Unstamped == \A t \in Task \ Cached : stamp[t] = None

\* The task being executed has no stamp, or has it overtaken.
Attempted == step # "check" => tainted[plan[pos]] \/ stamp[plan[pos]] \in {None, Torn}

\* What the executor has made is made of what it has read.
Produced ==
  step = "verify" => out[plan[pos]] \in {Absent, Build(plan[pos], seen.own, seen.ups)}

\* Undisturbed, it has read what is there now.
ReadNow == step \in {"write", "verify"} /\ quiet => seen = InputsNow(plan[pos])

\* The tasks before the position are finished, and up to date if undisturbed.
Good(t) == status[t] = "success" \/ (t \in Sealed /\ ~ tainted[t]) => Fresh(t)
GoodSoFar == run \in {"running", "ok"} /\ quiet => \A i \in 1..(pos - 1) : Good(plan[i])
FinishedSoFar == Running => Finished = {plan[i] : i \in 1..(pos - 1)}
EndOfPlan == run = "ok" => pos = Len(plan) + 1 /\ (quiet => manifest = Seen(Planned))

IInv ==
  /\ TypeOK
  /\ TrustedStamps /\ Unstamped /\ Attempted /\ Produced /\ ReadNow
  /\ GoodSoFar /\ FinishedSoFar /\ EndOfPlan

LEMMA Domains ==
  ASSUME TypeOK
  PROVE  /\ DOMAIN out = Task /\ out = [t \in Task |-> out[t]]
         /\ DOMAIN stamp = Task /\ stamp = [t \in Task |-> stamp[t]]
         /\ tainted \in [Task -> BOOLEAN]
         /\ DOMAIN status = Task /\ status = [t \in Task |-> status[t]]
         /\ DOMAIN src = Task /\ src = [t \in Task |-> src[t]]
<1>1. DOMAIN out = Task /\ out = [t \in Task |-> out[t]]
  BY DEF TypeOK, CacheTypeOK, OutputsOf
<1>2. DOMAIN stamp = Task /\ stamp = [t \in Task |-> stamp[t]]
  BY DEF TypeOK, CacheTypeOK, Stamps
<1>3. DOMAIN src = Task /\ src = [t \in Task |-> src[t]]
  BY DEF TypeOK, CacheTypeOK
<1> QED
  BY <1>1, <1>2, <1>3 DEF TypeOK

\* A hit on a trusted stamp is up to date.
LEMMA TrustedHit ==
  ASSUME TypeOK, NEW t \in Sealed, Trusted(t), IsHit(t), ~ tainted[t]
  PROVE  Fresh(t)
<1>1. t \in Task /\ Reads[t] \subseteq Hashed[t]
  BY DEF Sealed
<1>2. Signature(t) \in Signatures(t)
  BY <1>1, SignatureType DEF TypeOK
<1>3. stamp[t] = Signature(t) /\ stamp[t] \notin {None, Torn} /\ out[t] # Absent
  BY <1>1, <1>2, StampAssumption DEF IsHit, StampAssumption
<1>4. stamp[t].own = src[t] /\ stamp[t].ups = Seen(Hashed[t])
  BY <1>3 DEF Signature
<1>5. [u \in Reads[t] |-> stamp[t].ups[u]] = Seen(Reads[t])
  BY <1>1, <1>4 DEF Seen
<1> QED
  BY <1>3, <1>4, <1>5 DEF Trusted, Fresh

\* Everything a task of the plan reads stands before it, so that the tasks at
\* and after its position do not touch it.
LEMMA EarlierUntouched ==
  ASSUME TypeOK, NEW i \in 1..Len(plan), NEW j \in 1..Len(plan), i <= j
  PROVE  plan[j] \notin Reads[plan[i]]
<1>1. \A k, l \in 1..Len(plan) : plan[k] = plan[l] => k = l
  BY PlanOrder DEF TypeOK
<1>2. \A u \in Reads[plan[i]] : \E k \in 1..(i - 1) : plan[k] = u
  BY PlanOrder DEF TypeOK
<1>3. Len(plan) \in Nat
  BY PlanType DEF TypeOK
<1> QED
  BY <1>1, <1>2, <1>3

\* Freshness is about a task's own inputs, its outputs and what it reads.
LEMMA FreshKept ==
  ASSUME NEW t, src'[t] = src[t], out'[t] = out[t],
         \A u \in Reads[t] : out'[u] = out[u]
  PROVE  Fresh(t)' <=> Fresh(t)
<1>1. Seen(Reads[t])' = Seen(Reads[t])
  BY DEF Seen
<1> QED
  BY <1>1 DEF Fresh

\* A stamp that is written can be trusted, whether the build goes on or stops.
LEMMA StampTrusted ==
  ASSUME IInv, NEW t \in Task, t \in Sealed, AtTask(t, "verify"), out[t] # Absent, out' = out,
         stamp' = Stamped(t), tainted' = [tainted EXCEPT ![t] = seen # InputsNow(t)]
  PROVE  Trusted(t)'
<1>1. TypeOK /\ Produced /\ Unstamped
  BY DEF IInv
<1>2. t = plan[pos] /\ step = "verify" /\ out' = out
  BY DEF AtTask
<1>3. out[t] = Build(t, seen.own, seen.ups)
  BY <1>1, <1>2 DEF Produced
<1>4. ~ tainted'[t] => seen = InputsNow(t)
  BY <1>1, Domains
<1>5. CASE t \in Cached /\ ~ tainted'[t]
  <2>1. stamp'[t] = Signature(t)
    BY <1>1, <1>5, Domains DEF Stamped
  <2>2. seen.own = src[t] /\ seen.ups = Seen(Reads[t])
    BY <1>4, <1>5 DEF InputsNow
  <2>3. stamp'[t].own = src[t] /\ stamp'[t].ups = Seen(Hashed[t])
    BY <2>1 DEF Signature
  <2>4. [u \in Reads[t] |-> stamp'[t].ups[u]] = Seen(Reads[t])
    <3>1. \A u \in Reads[t] : Seen(Hashed[t])[u] = out[u]
      BY DEF Seen, Sealed
    <3> QED
      BY <2>3, <3>1 DEF Seen
  <2>5. out'[t] = Build(t, stamp'[t].own, [u \in Reads[t] |-> stamp'[t].ups[u]])
    BY <1>2, <1>3, <2>2, <2>3, <2>4
  <2> QED
    BY <2>5 DEF Trusted
<1>6. CASE tainted'[t]
  BY <1>6 DEF Trusted
<1>7. CASE t \notin Cached
  BY <1>1, <1>7 DEF Unstamped, Stamped, Trusted
<1> QED
  BY <1>5, <1>6, <1>7

\* What leaves a task's outputs, stamp and taint alone leaves it trusted.
LEMMA TrustedKept ==
  ASSUME NEW t, Trusted(t), out'[t] = out[t], stamp'[t] = stamp[t], tainted'[t] = tainted[t]
  PROVE  Trusted(t)'
BY DEF Trusted

LEMMA TrustPreserved ==
  ASSUME IInv, [Next]_vars
  PROVE  TrustedStamps'
<1> SUFFICES ASSUME NEW t \in Sealed PROVE Trusted(t)'
  BY DEF TrustedStamps, Sealed
<1>a. TypeOK /\ Trusted(t) /\ Attempted
  BY DEF IInv, TrustedStamps
<1>b. t \in Task
  BY DEF Sealed
<1>c. tainted'[t] => Trusted(t)'
  BY DEF Trusted
<1>1. CASE UNCHANGED <<out, stamp, tainted>>
  BY <1>1, <1>a, TrustedKept
<1>2. ASSUME NEW u \in Task, Execute(u) PROVE Trusted(t)'
  <2>1. CASE u = t
    <3>1. stamp'[t] = stamp[t] /\ tainted'[t] = (stamp[t] \notin {None, Torn})
      BY <1>2, <2>1, <1>a, <1>b, Domains DEF Execute, cacheVars
    <3> QED
      BY <3>1 DEF Trusted
  <2>2. CASE u # t
    BY <1>2, <2>2, <1>a, <1>b, Domains, TrustedKept DEF Execute, cacheVars
  <2> QED
    BY <2>1, <2>2
<1>3. ASSUME NEW u \in Task, AtTask(u, step), step # "check", UNCHANGED <<stamp, tainted>>,
             \A x \in Task \ {u} : out'[x] = out[x]
      PROVE  Trusted(t)'
  <2>1. CASE u = t
    BY <1>3, <2>1, <1>a, <1>c DEF Attempted, AtTask, Trusted
  <2>2. CASE u # t
    BY <1>3, <2>2, <1>a, <1>b, TrustedKept
  <2> QED
    BY <2>1, <2>2
<1>4. ASSUME NEW u \in Task, Produce(u) \/ FailExecution(u) PROVE Trusted(t)'
  <2>1. AtTask(u, step) /\ step # "check" /\ UNCHANGED <<stamp, tainted>>
    BY <1>4 DEF Produce, FailExecution, AtTask, Stop, history
  <2>2. \A x \in Task \ {u} : out'[x] = out[x]
    BY <1>4, <1>a, Domains DEF Produce, FailExecution, Disturbed
  <2> QED
    BY <1>3, <2>1, <2>2
<1>d. ASSUME NEW u \in Task, AtTask(u, "verify"), out' = out, stamp' \in StampsLeft(u),
             tainted' = TaintLeft(u)
      PROVE  Trusted(t)'
  <2>1. CASE stamp' = stamp
    BY <1>1, <1>d, <2>1 DEF TaintLeft
  <2>2. CASE stamp' # stamp /\ u # t
    BY <1>d, <2>2, <1>a, <1>b, Domains, TrustedKept DEF StampsLeft, Stamped, TaintLeft
  <2>3. CASE stamp' # stamp /\ u = t
    <3>1. CASE stamp' = Stamped(t)
      BY <1>d, <2>3, <3>1, StampTrusted DEF StampsLeft, TaintLeft
    <3>2. CASE stamp'[t] = Torn
      BY <3>2 DEF Trusted
    <3> QED
      BY <1>d, <2>3, <3>1, <3>2, <1>a, <1>b, Domains DEF StampsLeft
  <2> QED
    BY <2>1, <2>2, <2>3
<1>e. ASSUME NEW u \in Task, FailVerification(u) PROVE Trusted(t)'
  BY <1>d, <1>e DEF FailVerification, Stop
<1>5. ASSUME NEW u \in Task, StampTask(u) PROVE Trusted(t)'
  <2>1. CASE u = t
    BY <1>5, <2>1, <1>b, StampTrusted DEF StampTask
  <2>2. CASE u # t
    BY <1>5, <2>2, <1>a, <1>b, Domains, TrustedKept DEF StampTask, Stamped
  <2> QED
    BY <2>1, <2>2
<1>6. CASE Crash
  <2>1. CASE step = "check"
    BY <1>1, <1>6, <2>1 DEF Crash, Stop
  <2>2. CASE step # "check"
    <3>1. plan[pos] \in Task /\ AtTask(plan[pos], step)
      BY <1>6, <1>a, <2>2, PlanType DEF TypeOK, Crash, Stop, AtTask, Running
    <3>2. CASE step = "verify"
      BY <1>d, <1>6, <3>1, <3>2 DEF Crash
    <3>3. CASE step # "verify"
      <4>1. \A x \in Task \ {plan[pos]} : out'[x] = out[x]
        BY <1>6, <1>a, Domains DEF Crash, Disturbed
      <4> QED
        BY <1>3, <1>6, <2>2, <3>1, <3>3, <4>1 DEF Crash
    <3> QED
      BY <3>2, <3>3
  <2> QED
    BY <2>1, <2>2
<1>7. ASSUME NEW u \in Task, CleanOutputs(u) PROVE Trusted(t)'
  <2>1. CASE u = t
    <3>1. out'[t] = Absent \/ tainted'[t]
      BY <1>7, <2>1, <1>a, <1>b, Domains DEF CleanOutputs
    <3> QED
      BY <3>1 DEF Trusted
  <2>2. CASE u # t
    BY <1>7, <2>2, <1>a, <1>b, Domains, TrustedKept DEF CleanOutputs
  <2> QED
    BY <2>1, <2>2
<1>8. ASSUME NEW u \in Task, CleanStamp(u) PROVE Trusted(t)'
  <2>1. CASE u = t
    BY <1>8, <2>1, <1>a, <1>b, Domains DEF CleanStamp, Trusted
  <2>2. CASE u # t
    BY <1>8, <2>2, <1>a, <1>b, Domains, TrustedKept DEF CleanStamp
  <2> QED
    BY <2>1, <2>2
<1>9. CASE Clean
  BY <1>9, <1>b DEF Clean, Trusted
<1>10. ASSUME \/ \E p \in Target : StartBuild(p)
              \/ \E u \in Task : Skip(u) \/ ReadInputs(u) \/ FailBeforeExecution(u)
              \/ Finish \/ FailManifest
              \/ \E u \in Task, v \in Version : EditInput(u, v)
              \/ UNCHANGED vars
       PROVE  UNCHANGED <<out, stamp, tainted>>
  BY <1>10 DEF StartBuild, Skip, ReadInputs, FailBeforeExecution, Finish, FailManifest,
               EditInput, Stop, vars, cacheVars, history
<1> QED
  BY <1>1, <1>2, <1>4, <1>e, <1>5, <1>6, <1>7, <1>8, <1>9, <1>10 DEF Next, SchedulerStep

LEMMA UnstampedPreserved ==
  ASSUME IInv, [Next]_vars
  PROVE  Unstamped'
<1> SUFFICES ASSUME NEW t \in Task \ Cached PROVE stamp'[t] = None
  BY DEF Unstamped
<1>a. TypeOK /\ stamp[t] = None
  BY DEF IInv, Unstamped
<1>1. CASE UNCHANGED stamp
  BY <1>1, <1>a
<1>2. ASSUME NEW u \in Task, StampTask(u) \/ FailVerification(u) PROVE stamp'[t] = None
  <2>1. CASE u \in Cached
    BY <1>2, <2>1, <1>a, Domains DEF StampTask, FailVerification, StampsLeft, Stamped
  <2>2. CASE u \notin Cached
    BY <1>2, <2>2, <1>a DEF StampTask, FailVerification, StampsLeft, Stamped
  <2> QED
    BY <2>1, <2>2
<1>3. CASE Crash
  BY <1>3, <1>a, Domains DEF Crash, StampsLeft, Stamped
<1>4. ASSUME NEW u \in Task, CleanStamp(u) PROVE stamp'[t] = None
  BY <1>4, <1>a, Domains DEF CleanStamp
<1>5. CASE Clean
  BY <1>5 DEF Clean
<1>6. ASSUME \/ \E p \in Target : StartBuild(p)
             \/ \E u \in Task : Skip(u) \/ Execute(u) \/ ReadInputs(u) \/ Produce(u)
             \/ \E u \in Task : FailBeforeExecution(u) \/ FailExecution(u) \/ CleanOutputs(u)
             \/ Finish \/ FailManifest
             \/ \E u \in Task, v \in Version : EditInput(u, v)
             \/ UNCHANGED vars
      PROVE  UNCHANGED stamp
  BY <1>6 DEF StartBuild, Skip, Execute, ReadInputs, Produce, FailBeforeExecution,
              FailExecution, Finish, FailManifest, EditInput, CleanOutputs, vars, cacheVars
<1> QED
  BY <1>1, <1>2, <1>3, <1>4, <1>5, <1>6 DEF Next, SchedulerStep

\* Steps that leave the scheduler between two tasks, or stopped.
LEMMA BetweenTasks ==
  ASSUME TypeOK, [Next]_vars,
         ~ (\E u \in Task : Execute(u) \/ ReadInputs(u) \/ Produce(u)),
         ~ (\E u \in Task, v \in Version : EditInput(u, v)),
         ~ UNCHANGED vars
  PROVE  step' = "check"
<1>1. CASE \E u \in Task : Skip(u) \/ StampTask(u)
  BY <1>1 DEF Skip, StampTask, Advance
<1>2. CASE \E u \in Task : FailBeforeExecution(u) \/ FailExecution(u) \/ FailVerification(u)
  BY <1>2 DEF FailBeforeExecution, FailExecution, FailVerification, Stop
<1>3. CASE FailManifest \/ Crash \/ \E p \in Target : StartBuild(p)
  BY <1>3 DEF FailManifest, Crash, Stop, StartBuild
<1>4. CASE Finish
  BY <1>4, PlanType DEF TypeOK, Finish
<1>5. CASE Clean \/ \E u \in Task : CleanOutputs(u) \/ CleanStamp(u)
  BY <1>5 DEF TypeOK, Clean, CleanOutputs, CleanStamp, CutShort, Removing, Running
<1> QED
  BY <1>1, <1>2, <1>3, <1>4, <1>5 DEF Next, SchedulerStep

LEMMA ExecutionPreserved ==
  ASSUME IInv, [Next]_vars
  PROVE  Attempted' /\ Produced' /\ ReadNow'
<1>a. TypeOK /\ Attempted /\ Produced /\ ReadNow
  BY DEF IInv
<1>1. CASE step' = "check"
  BY <1>1 DEF Attempted, Produced, ReadNow
<1>2. ASSUME NEW u \in Task, Execute(u) PROVE Attempted' /\ Produced' /\ ReadNow'
  <2>1. plan[pos] = u /\ tainted'[u] = (stamp[u] \notin {None, Torn}) /\ step' = "execute"
    BY <1>2, <1>a, Domains DEF Execute, AtTask
  <2>2. UNCHANGED <<stamp, plan, pos>>
    BY <1>2 DEF Execute, cacheVars
  <2> QED
    BY <2>1, <2>2 DEF Attempted, Produced, ReadNow
<1>3. ASSUME NEW u \in Task, ReadInputs(u) PROVE Attempted' /\ Produced' /\ ReadNow'
  <2>1. u = plan[pos] /\ step' = "write" /\ seen' = InputsNow(u) /\ step = "execute"
    BY <1>3 DEF ReadInputs, AtTask
  <2>2. UNCHANGED <<src, out, stamp, plan, pos, tainted>>
    BY <1>3 DEF ReadInputs, cacheVars, history
  <2>3. InputsNow(u)' = InputsNow(u)
    BY <2>2 DEF InputsNow, Seen
  <2> QED
    BY <1>a, <2>1, <2>2, <2>3 DEF Attempted, Produced, ReadNow
<1>4. ASSUME NEW u \in Task, Produce(u) PROVE Attempted' /\ Produced' /\ ReadNow'
  <2>1. u = plan[pos] /\ step' = "verify" /\ step = "write"
    BY <1>4 DEF Produce, AtTask
  <2>2. UNCHANGED <<src, stamp, plan, pos, seen, tainted, quiet>>
    BY <1>4 DEF Produce, history
  <2>3. out'[u] \in {Absent, Build(u, seen.own, seen.ups)}
    BY <1>4, <1>a, Domains DEF Produce
  <2>4. \A x \in Reads[u] : out'[x] = out[x]
    <3>1. u \notin Reads[u] /\ Reads[u] \subseteq Task
      BY TargetAssumption, CacheAssumption DEF TargetAssumption, CacheAssumption
    <3> QED
      BY <1>4, <1>a, <3>1, Domains DEF Produce
  <2>5. InputsNow(u)' = InputsNow(u)
    BY <2>2, <2>4 DEF InputsNow, Seen
  <2> QED
    BY <1>a, <2>1, <2>2, <2>3, <2>5 DEF Attempted, Produced, ReadNow
<1>5. ASSUME NEW u \in Task, NEW v \in Version, EditInput(u, v)
      PROVE  Attempted' /\ Produced' /\ ReadNow'
  BY <1>5, <1>a DEF EditInput, Attempted, Produced, ReadNow
<1>6. CASE UNCHANGED vars
  <2>1. UNCHANGED <<src, out, stamp, plan, pos, step, seen, tainted, quiet>>
    BY <1>6 DEF vars, cacheVars, history
  <2>2. InputsNow(plan[pos])' = InputsNow(plan[pos])
    BY <2>1 DEF InputsNow, Seen
  <2> QED
    BY <1>a, <2>1, <2>2 DEF Attempted, Produced, ReadNow
<1> QED
  BY <1>a, <1>1, <1>2, <1>3, <1>4, <1>5, <1>6, BetweenTasks

LEMMA FinishedPreserved ==
  ASSUME IInv, [Next]_vars
  PROVE  FinishedSoFar' /\ EndOfPlan'
<1>a. TypeOK /\ FinishedSoFar /\ EndOfPlan
  BY DEF IInv
<1>b. Len(plan) \in Nat /\ pos \in Nat
  BY <1>a, PlanType DEF TypeOK
<1>1. ASSUME NEW p \in Target, StartBuild(p) PROVE FinishedSoFar' /\ EndOfPlan'
  BY <1>1 DEF StartBuild, FinishedSoFar, Finished, EndOfPlan
<1>2. ASSUME NEW u \in Task, Skip(u) \/ StampTask(u) PROVE FinishedSoFar' /\ EndOfPlan'
  <2>1. u = plan[pos] /\ pos' = pos + 1 /\ Running /\ run' = run /\ plan' = plan
    BY <1>2 DEF Skip, StampTask, Advance, AtTask
  <2>2. \E r \in {"skipped", "success"} : status' = [status EXCEPT ![u] = r]
    BY <1>2 DEF Skip, StampTask, Advance
  <2>3. Finished' = Finished \cup {u}
    BY <1>a, <2>2, Domains DEF Finished
  <2>4. {plan'[i] : i \in 1..(pos' - 1)} = {plan[i] : i \in 1..(pos - 1)} \cup {u}
    <3>1. 1..(pos' - 1) = 1..(pos - 1) \cup {pos}
      <4>1. pos >= 1
        BY <1>a DEF TypeOK
      <4> QED
        BY <1>b, <2>1, <4>1
    <3> QED
      BY <2>1, <3>1
  <2> QED
    BY <1>a, <2>1, <2>3, <2>4 DEF FinishedSoFar, EndOfPlan, Running
<1>3. CASE Finish
  <2>1. UNCHANGED <<out, plan, pos>> /\ manifest' = Seen(Planned) /\ run' = "ok"
    BY <1>3 DEF Finish, cacheVars
  <2>2. (Seen(Planned))' = Seen(Planned)
    BY <2>1 DEF Seen, Planned
  <2> QED
    BY <1>3, <2>1, <2>2 DEF Finish, FinishedSoFar, EndOfPlan, Running
<1>4. CASE run' \notin {"running", "ok"}
  BY <1>4 DEF FinishedSoFar, EndOfPlan, Running
<1>5. CASE run = "running" /\ UNCHANGED <<run, plan, pos, status>>
  BY <1>a, <1>5 DEF FinishedSoFar, EndOfPlan, Finished, Running
<1>6. ASSUME NEW u \in Task, Execute(u) \/ ReadInputs(u) \/ Produce(u)
      PROVE  run = "running" /\ UNCHANGED <<run, plan, pos, status>>
  BY <1>6 DEF Execute, ReadInputs, Produce, AtTask, Running
<1>7. ASSUME \/ \E u \in Task : FailBeforeExecution(u) \/ FailExecution(u) \/ FailVerification(u)
             \/ FailManifest \/ Crash \/ Clean
             \/ \E u \in Task : CleanOutputs(u) \/ CleanStamp(u)
      PROVE  run' \notin {"running", "ok"}
  BY <1>7 DEF FailBeforeExecution, FailExecution, FailVerification, FailManifest, Crash, Stop,
              Clean, CleanOutputs, CleanStamp, CutShort, Removing
<1>8. ASSUME NEW u \in Task, NEW v \in Version, EditInput(u, v)
      PROVE  FinishedSoFar' /\ EndOfPlan'
  BY <1>8, <1>a DEF EditInput, FinishedSoFar, EndOfPlan, Finished, Running
<1>9. CASE UNCHANGED vars
  <2>1. UNCHANGED <<out, run, plan, pos, status, manifest, quiet>>
    BY <1>9 DEF vars, cacheVars, history
  <2>2. (Seen(Planned))' = Seen(Planned)
    BY <2>1 DEF Seen, Planned
  <2> QED
    BY <1>a, <2>1, <2>2 DEF FinishedSoFar, EndOfPlan, Finished, Running
<1> QED
  BY <1>1, <1>2, <1>3, <1>4, <1>5, <1>6, <1>7, <1>8, <1>9 DEF Next, SchedulerStep

\* Work on the task at hand does not concern the tasks before it.
LEMMA GoodKept ==
  ASSUME TypeOK, pos <= Len(plan), NEW i \in 1..(pos - 1), NEW t, t = plan[i], Good(t),
         src' = src,
         \A x \in Task \ {plan[pos]} :
           out'[x] = out[x] /\ tainted'[x] = tainted[x] /\ status'[x] = status[x]
  PROVE  Good(t)'
<1>1. Len(plan) \in Nat /\ \A k \in 1..Len(plan) : plan[k] \in Task
  BY PlanType DEF TypeOK
<1>2. pos \in 1..Len(plan) /\ i \in 1..Len(plan) /\ i < pos
  BY <1>1 DEF TypeOK
<1>3. plan[pos] # t /\ t \in Task
  BY <1>1, <1>2, PlanOrder DEF TypeOK
<1>4. plan[pos] \notin Reads[t] /\ Reads[t] \subseteq Task
  BY <1>2, <1>3, EarlierUntouched, CacheAssumption DEF CacheAssumption
<1>5. Fresh(t)' <=> Fresh(t)
  BY <1>3, <1>4, FreshKept
<1> QED
  BY <1>3, <1>5 DEF Good

LEMMA GoodPreserved ==
  ASSUME IInv, [Next]_vars
  PROVE  GoodSoFar'
<1>a. TypeOK /\ GoodSoFar /\ Attempted /\ Produced /\ ReadNow /\ TrustedStamps
  BY DEF IInv
<1>b. Len(plan) \in Nat /\ pos \in 1..(Len(plan) + 1)
  BY <1>a, PlanType DEF TypeOK
<1>1. CASE run' \notin {"running", "ok"} \/ ~ quiet' \/ pos' = 1
  BY <1>1 DEF GoodSoFar
<1>2. CASE UNCHANGED <<src, out, plan, pos, tainted, status, quiet>> /\ run = "running"
  <2> SUFFICES ASSUME quiet, NEW i \in 1..(pos - 1) PROVE Good(plan[i])'
    BY <1>2 DEF GoodSoFar
  <2>1. Good(plan[i])
    BY <1>a, <1>2 DEF GoodSoFar
  <2>2. Seen(Reads[plan[i]])' = Seen(Reads[plan[i]])
    BY <1>2 DEF Seen
  <2> QED
    BY <1>2, <2>1, <2>2 DEF Good, Fresh
<1>3. ASSUME NEW u \in Task, Execute(u) \/ Produce(u) PROVE GoodSoFar'
  <2>1. u = plan[pos] /\ pos <= Len(plan) /\ run = "running"
    BY <1>3 DEF Execute, Produce, AtTask, Running
  <2>2. UNCHANGED <<src, plan, pos, status, quiet>>
    BY <1>3 DEF Execute, Produce, cacheVars, history
  <2>3. \A x \in Task \ {u} : out'[x] = out[x] /\ tainted'[x] = tainted[x]
    BY <1>3, <1>a, Domains DEF Execute, Produce, cacheVars, history
  <2> SUFFICES ASSUME quiet, NEW i \in 1..(pos - 1) PROVE Good(plan[i])'
    BY <2>2 DEF GoodSoFar
  <2>4. Good(plan[i])
    BY <1>a, <2>1 DEF GoodSoFar
  <2>5. \A t : t = plan[i] => Good(t)'
    BY <1>a, <2>1, <2>2, <2>3, <2>4, GoodKept
  <2> QED
    BY <2>2, <2>5
<1>4. ASSUME NEW u \in Task, Skip(u) \/ StampTask(u), quiet PROVE GoodSoFar'
  <2>1. /\ u = plan[pos] /\ pos <= Len(plan) /\ run = "running" /\ pos' = pos + 1
        /\ UNCHANGED <<src, out, plan, quiet>>
    BY <1>4 DEF Skip, StampTask, Advance, AtTask, Running, cacheVars, history
  <2>2. \A x \in Task \ {u} : tainted'[x] = tainted[x] /\ status'[x] = status[x]
    BY <1>4, <1>a, Domains DEF Skip, StampTask, Advance, history
  <2>3. ASSUME NEW i \in 1..(pos - 1) PROVE \A t : t = plan[i] => Good(t)'
    <3>1. Good(plan[i])
      BY <1>a, <1>4, <2>1 DEF GoodSoFar
    <3> QED
      BY <1>a, <2>1, <2>2, <3>1, GoodKept
  <2>4. Fresh(u)' <=> Fresh(u)
    BY <2>1, FreshKept
  <2>5. Good(u)'
    <3>1. CASE Skip(u)
      <4>1. status'[u] = "skipped" /\ tainted' = tainted /\ IsHit(u)
        BY <3>1, <1>a, Domains DEF Skip, Advance, history
      <4>2. u \in Sealed /\ ~ tainted[u] => Fresh(u)
        BY <1>a, <4>1, TrustedHit DEF TrustedStamps
      <4> QED
        BY <2>4, <4>1, <4>2 DEF Good
    <3>2. CASE StampTask(u)
      <4>1. step = "verify" /\ out[u] # Absent
        BY <3>2 DEF StampTask, AtTask
      <4>2. out[u] = Build(u, seen.own, seen.ups) /\ seen = InputsNow(u)
        BY <1>a, <1>4, <2>1, <4>1 DEF Produced, ReadNow
      <4>3. Fresh(u)
        BY <4>2 DEF Fresh, InputsNow
      <4> QED
        BY <2>4, <4>3 DEF Good
    <3> QED
      BY <1>4, <3>1, <3>2
  <2>6. ASSUME NEW i \in 1..(pos' - 1) PROVE \A t : t = plan[i] => Good(t)'
    <3>1. i \in 1..(pos - 1) \/ i = pos
      BY <1>b, <2>1
    <3> QED
      BY <2>1, <2>3, <2>5, <3>1
  <2> QED
    BY <2>1, <2>6 DEF GoodSoFar
<1>5. ASSUME NEW u \in Task, ReadInputs(u)
      PROVE  UNCHANGED <<src, out, plan, pos, tainted, status, quiet>> /\ run = "running"
  BY <1>5 DEF ReadInputs, AtTask, Running, cacheVars, history
<1>6. ASSUME Finish
      PROVE  UNCHANGED <<src, out, plan, pos, tainted, status, quiet>> /\ run = "running"
  BY <1>6 DEF Finish, Running, cacheVars
<1>7. ASSUME NEW p \in Target, StartBuild(p) PROVE pos' = 1
  BY <1>7 DEF StartBuild
<1>8. ASSUME \/ \E u \in Task : FailBeforeExecution(u) \/ FailExecution(u) \/ FailVerification(u)
             \/ FailManifest \/ Crash \/ Clean
             \/ \E u \in Task : CleanOutputs(u) \/ CleanStamp(u)
      PROVE  run' \notin {"running", "ok"}
  BY <1>8 DEF FailBeforeExecution, FailExecution, FailVerification, FailManifest, Crash, Stop,
              Clean, CleanOutputs, CleanStamp, CutShort, Removing
<1>9. ASSUME NEW u \in Task, NEW v \in Version, EditInput(u, v) PROVE ~ quiet'
  BY <1>9 DEF EditInput
<1>10. CASE UNCHANGED vars
  <2>1. UNCHANGED <<src, out, plan, pos, tainted, status, quiet, run>>
    BY <1>10 DEF vars, cacheVars, history
  <2> SUFFICES ASSUME run \in {"running", "ok"}, quiet, NEW i \in 1..(pos - 1)
               PROVE  Good(plan[i])'
    BY <2>1 DEF GoodSoFar
  <2>2. Good(plan[i])
    BY <1>a DEF GoodSoFar
  <2>3. Seen(Reads[plan[i]])' = Seen(Reads[plan[i]])
    BY <2>1 DEF Seen
  <2> QED
    BY <2>1, <2>2, <2>3 DEF Good, Fresh
<1>11. ASSUME NEW u \in Task, Skip(u) \/ StampTask(u), ~ quiet PROVE ~ quiet'
  BY <1>11 DEF Skip, StampTask, history
<1> QED
  BY <1>1, <1>2, <1>3, <1>4, <1>5, <1>6, <1>7, <1>8, <1>9, <1>10, <1>11 DEF Next, SchedulerStep

-----------------------------------------------------------------------------
LEMMA Inductive == Spec => []IInv
<1>1. Init => IInv
  <2> SUFFICES ASSUME Init, TypeOK PROVE IInv
    BY TypeInit
  <2> QED
    BY DEF Init, IInv, TrustedStamps, Trusted, Sealed, Unstamped, Attempted, Produced, ReadNow,
           GoodSoFar, FinishedSoFar, Finished, EndOfPlan, Running
<1>2. IInv /\ [Next]_vars => IInv'
  BY TypeNext, TrustPreserved, UnstampedPreserved, ExecutionPreserved, FinishedPreserved,
     GoodPreserved DEF IInv
<1> QED
  BY <1>1, <1>2, PTL DEF Spec

\* A task that would be skipped is up to date.
THEOREM HitsAreFresh == Spec => []HitIsFresh
<1>1. IInv => HitIsFresh
  BY TrustedHit DEF IInv, TrustedStamps, HitIsFresh
<1> QED
  BY <1>1, Inductive, PTL

\* A build that ended well and undisturbed left every task of its plan up to
\* date, and its manifest describes what is there.
THEOREM BuildsAreConsistent == Spec => []BuildConsistent
<1>1. IInv => BuildConsistent
  <2> SUFFICES ASSUME IInv, run = "ok", quiet
               PROVE  manifest = Seen(Planned) /\ \A t \in Planned : Good(t)
    BY DEF BuildConsistent, Good
  <2>1. pos = Len(plan) + 1 /\ manifest = Seen(Planned)
    BY DEF IInv, EndOfPlan
  <2>2. Len(plan) \in Nat
    BY PlanType DEF IInv, TypeOK
  <2>3. \A i \in 1..Len(plan) : Good(plan[i])
    BY <2>1, <2>2 DEF IInv, GoodSoFar
  <2>4. \A t \in Planned : Good(t)
    BY <2>3 DEF Planned
  <2> QED
    BY <2>1, <2>4
<1> QED
  BY <1>1, Inductive, PTL

-----------------------------------------------------------------------------
(* Refinement.                                                             *)

LEMMA CompleteStep ==
  ASSUME IInv, NEW u \in Task, Skip(u) \/ StampTask(u)
  PROVE  Order!Complete(u)
<1>a. TypeOK /\ FinishedSoFar
  BY DEF IInv
<1>b. Len(plan) \in Nat /\ pos \in 1..Len(plan)
  BY <1>a, PlanType DEF TypeOK, Skip, StampTask, AtTask
<1>1. u = plan[pos] /\ run = "running" /\ run' = run /\ plan' = plan
  BY DEF Skip, StampTask, AtTask, Running
<1>2. Finished = {plan[i] : i \in 1..(pos - 1)}
  BY <1>a, <1>1 DEF FinishedSoFar, Running
<1>3. u \in Planned /\ u \notin Finished
  <2>1. \A i, j \in 1..Len(plan) : plan[i] = plan[j] => i = j
    BY <1>a, PlanOrder DEF TypeOK
  <2> QED
    BY <1>b, <1>1, <1>2, <2>1 DEF Planned
<1>4. Deps[u] \subseteq Finished
  <2>1. \A d \in Deps[u] : \E j \in 1..(pos - 1) : plan[j] = d
    BY <1>a, <1>b, <1>1, PlanOrder DEF TypeOK
  <2> QED
    BY <1>2, <2>1
<1>5. Finished' = Finished \cup {u}
  <2>1. \E r \in {"skipped", "success"} : status' = [status EXCEPT ![u] = r]
    BY DEF Skip, StampTask, Advance
  <2> QED
    BY <1>a, <2>1, Domains DEF Finished
<1>6. Planned' = Planned
  BY <1>1 DEF Planned
<1> QED
  BY <1>1, <1>3, <1>4, <1>5, <1>6 DEF Order!Complete

LEMMA StepImplements ==
  ASSUME IInv, [Next]_vars
  PROVE  [Order!Next]_(Order!vars)
<1> USE DEF Order!vars
<1>a. TypeOK /\ FinishedSoFar
  BY DEF IInv
<1>1. CASE UNCHANGED <<run, plan, status>>
  BY <1>1 DEF Planned, Finished
<1>2. ASSUME NEW p \in Target, StartBuild(p) PROVE Order!Begin
  <2>1. (Planned \in SUBSET Task)'
    <3>1. p \in Seq(Task)
      BY TargetAssumption DEF TargetAssumption
    <3>2. plan' = p
      BY <1>2 DEF StartBuild
    <3> QED
      BY <3>1, <3>2 DEF Planned
  <2> QED
    BY <1>2, <2>1 DEF StartBuild, Order!Begin, Running, Finished
<1>3. ASSUME NEW u \in Task, Skip(u) \/ StampTask(u) PROVE Order!Complete(u)
  BY <1>3, CompleteStep
<1>4. CASE Finish
  <2>1. run = "running" /\ pos = Len(plan) + 1 /\ run' = "ok" /\ UNCHANGED <<plan, status>>
    BY <1>4 DEF Finish, Running
  <2>2. Len(plan) \in Nat
    BY <1>a, PlanType DEF TypeOK
  <2>3. Finished = Planned
    BY <1>a, <2>1, <2>2 DEF FinishedSoFar, Planned, Running
  <2> QED
    BY <2>1, <2>3 DEF Order!Next, Order!Succeed, Planned, Finished
<1>5. ASSUME run = "running", run' \in {"failed", "crashed"}, plan' = plan,
             status' = status
             \/ \E u \in Task : u \notin Finished /\ status' = [status EXCEPT ![u] = "failed"]
      PROVE  Order!Abort
  <2>1. Finished' = Finished
    BY <1>5, <1>a, Domains DEF Finished
  <2> QED
    BY <1>5, <2>1 DEF Order!Abort, Planned
<1>6. ASSUME NEW u \in Task, FailExecution(u) \/ FailVerification(u) PROVE Order!Abort
  <2>1. run = "running" /\ u = plan[pos] /\ pos <= Len(plan)
    BY <1>6 DEF FailExecution, FailVerification, AtTask, Running
  <2>2. u \notin Finished
    <3>1. \A i, j \in 1..Len(plan) : plan[i] = plan[j] => i = j
      BY <1>a, PlanOrder DEF TypeOK
    <3>2. Len(plan) \in Nat /\ pos \in 1..Len(plan)
      BY <1>a, <2>1, PlanType DEF TypeOK
    <3> QED
      BY <1>a, <2>1, <3>1, <3>2 DEF FinishedSoFar, Running
  <2> QED
    BY <1>5, <1>6, <2>1, <2>2 DEF FailExecution, FailVerification, Stop
<1>7. ASSUME (\E u \in Task : FailBeforeExecution(u)) \/ FailManifest \/ Crash
      PROVE  Order!Abort
  BY <1>5, <1>7 DEF FailBeforeExecution, FailManifest, Crash, Stop, Running
<1>8. ASSUME Clean \/ \E u \in Task : CleanOutputs(u) \/ CleanStamp(u)
      PROVE  Order!Forget
  BY <1>8 DEF Clean, CleanOutputs, CleanStamp, CutShort, Removing, Order!Forget, Running,
              Planned, Finished
<1>9. ASSUME \/ \E u \in Task : Execute(u) \/ ReadInputs(u) \/ Produce(u)
             \/ \E u \in Task, v \in Version : EditInput(u, v)
             \/ UNCHANGED vars
      PROVE  UNCHANGED <<run, plan, status>>
  BY <1>9 DEF Execute, ReadInputs, Produce, EditInput, vars
<1> QED
  BY <1>1, <1>2, <1>3, <1>4, <1>6, <1>7, <1>8, <1>9 DEF Next, SchedulerStep, Order!Next

\* Whatever is skipped, fails or is killed, builds finish tasks in dependency
\* order, once each, and succeed only when the whole plan is finished.
THEOREM BuildsImplementOrder == Spec => ImplementsOrder
<1>1. Init => Order!Init
  BY DEF Init, Order!Init, Planned, Finished
<1> QED
  BY <1>1, StepImplements, Inductive, PTL DEF Spec, ImplementsOrder, Order!Spec

-----------------------------------------------------------------------------
(* What was built undisturbed is not executed again.                       *)

\* The tasks before the position would be skipped, if undisturbed.
Hits ==
  run \in {"running", "ok"} /\ quiet =>
    \A i \in 1..(pos - 1) : plan[i] \in Cached => IsHit(plan[i])

SkippedCached == \A t \in Task : status[t] = "skipped" => t \in Cached

\* What is settled would be skipped, or executed to the same effect: but for
\* the moment in which an executor has left no output and the build fails.
Kept(t) == IF t \in Cached THEN IsHit(t) ELSE Fresh(t)
Missed == step = "verify" /\ out[plan[pos]] = Absent
SettledKept ==
  /\ settled # {} => quiet
  /\ \A t \in settled : Reads[t] \cup Hashed[t] \subseteq settled
  /\ ~ Missed => \A t \in settled : Kept(t)

SInv == IInv /\ Hits /\ SkippedCached /\ SettledKept /\ SettledBuildOnlySkips

LEMMA HitKept ==
  ASSUME NEW t, src'[t] = src[t], out'[t] = out[t], stamp'[t] = stamp[t],
         \A u \in Hashed[t] : out'[u] = out[u]
  PROVE  IsHit(t)' <=> IsHit(t)
<1>1. Seen(Hashed[t])' = Seen(Hashed[t])
  BY DEF Seen
<1>2. Signature(t)' = Signature(t)
  BY <1>1 DEF Signature
<1> QED
  BY <1>2 DEF IsHit

\* The same of what a signature takes in as of what an executor reads.
LEMMA HashedUntouched ==
  ASSUME TypeOK, NEW i \in 1..Len(plan), NEW j \in 1..Len(plan), i <= j
  PROVE  plan[j] \notin Hashed[plan[i]]
<1>1. \A k, l \in 1..Len(plan) : plan[k] = plan[l] => k = l
  BY PlanOrder DEF TypeOK
<1>2. \A u \in Hashed[plan[i]] : \E k \in 1..(i - 1) : plan[k] = u
  BY PlanOrder DEF TypeOK
<1>3. Len(plan) \in Nat
  BY PlanType DEF TypeOK
<1> QED
  BY <1>1, <1>2, <1>3

LEMMA EarlierHitKept ==
  ASSUME TypeOK, pos <= Len(plan), NEW i \in 1..(pos - 1), NEW t, t = plan[i],
         src' = src,
         \A x \in Task \ {plan[pos]} : out'[x] = out[x] /\ stamp'[x] = stamp[x]
  PROVE  IsHit(t)' <=> IsHit(t)
<1>1. Len(plan) \in Nat /\ \A k \in 1..Len(plan) : plan[k] \in Task
  BY PlanType DEF TypeOK
<1>2. pos \in 1..Len(plan) /\ i \in 1..Len(plan) /\ i < pos
  BY <1>1 DEF TypeOK
<1>3. plan[pos] # t /\ t \in Task
  BY <1>1, <1>2, PlanOrder DEF TypeOK
<1>4. plan[pos] \notin Hashed[t] /\ Hashed[t] \subseteq Task
  BY <1>2, <1>3, HashedUntouched, CacheAssumption DEF CacheAssumption
<1> QED
  BY <1>3, <1>4, HitKept

LEMMA SkippedPreserved ==
  ASSUME TypeOK, SkippedCached, [Next]_vars
  PROVE  SkippedCached'
<1>1. CASE status' = status \/ status' = [t \in Task |-> "pending"]
  BY <1>1 DEF SkippedCached
<1>2. ASSUME NEW u \in Task, Skip(u) PROVE SkippedCached'
  BY <1>2, Domains DEF Skip, Advance, IsHit, SkippedCached
<1>3. ASSUME NEW u \in Task, StampTask(u) \/ FailExecution(u) \/ FailVerification(u)
      PROVE  SkippedCached'
  <2>1. \E r \in {"success", "failed"} : status' = [status EXCEPT ![u] = r]
    BY <1>3 DEF StampTask, FailExecution, FailVerification, Advance
  <2> QED
    BY <2>1, Domains DEF SkippedCached
<1>4. ASSUME \/ \E p \in Target : StartBuild(p)
             \/ \E u \in Task : Execute(u) \/ ReadInputs(u) \/ Produce(u) \/ FailBeforeExecution(u)
             \/ Finish \/ FailManifest \/ Crash \/ Clean
             \/ \E u \in Task, v \in Version : EditInput(u, v)
             \/ \E u \in Task : CleanOutputs(u) \/ CleanStamp(u)
             \/ UNCHANGED vars
      PROVE  status' = status \/ status' = [t \in Task |-> "pending"]
  BY <1>4 DEF StartBuild, Execute, ReadInputs, Produce, FailBeforeExecution, Finish, FailManifest,
              Crash, Clean, EditInput, CleanOutputs, CleanStamp, CutShort, Removing, vars
<1> QED
  BY <1>1, <1>2, <1>3, <1>4 DEF Next, SchedulerStep

LEMMA HitsPreserved ==
  ASSUME IInv, Hits, [Next]_vars
  PROVE  Hits'
<1>a. TypeOK
  BY DEF IInv
<1>b. Len(plan) \in Nat /\ pos \in 1..(Len(plan) + 1)
  BY <1>a, PlanType DEF TypeOK
<1>1. CASE run' \notin {"running", "ok"} \/ ~ quiet' \/ pos' = 1
  BY <1>1 DEF Hits
<1>2. CASE /\ UNCHANGED <<src, out, stamp, plan, pos, quiet>>
           /\ run' \in {"running", "ok"} => run \in {"running", "ok"}
  <2> SUFFICES ASSUME run \in {"running", "ok"}, quiet, NEW i \in 1..(pos - 1), plan[i] \in Cached
               PROVE  IsHit(plan[i])'
    BY <1>2 DEF Hits
  <2>1. IsHit(plan[i])
    BY DEF Hits
  <2>2. Seen(Hashed[plan[i]])' = Seen(Hashed[plan[i]])
    BY <1>2 DEF Seen
  <2> QED
    BY <1>2, <2>1, <2>2 DEF IsHit, Signature
<1>3. ASSUME NEW u \in Task, Produce(u) PROVE Hits'
  <2>1. /\ u = plan[pos] /\ pos <= Len(plan) /\ run = "running"
        /\ UNCHANGED <<src, plan, pos, stamp, quiet>>
        /\ \A x \in Task \ {u} : out'[x] = out[x]
    BY <1>3, <1>a, Domains DEF Produce, AtTask, Running, history
  <2> SUFFICES ASSUME quiet, NEW i \in 1..(pos - 1), plan[i] \in Cached PROVE IsHit(plan[i])'
    BY <2>1 DEF Hits
  <2>2. IsHit(plan[i])
    BY <2>1 DEF Hits
  <2>3. \A t : t = plan[i] => IsHit(t)'
    BY <1>a, <2>1, <2>2, EarlierHitKept
  <2> QED
    BY <2>1, <2>3
<1>4. ASSUME NEW u \in Task, Skip(u) \/ StampTask(u), quiet PROVE Hits'
  <2>1. /\ u = plan[pos] /\ pos <= Len(plan) /\ run = "running" /\ pos' = pos + 1
        /\ UNCHANGED <<src, out, plan, quiet>>
    BY <1>4 DEF Skip, StampTask, Advance, AtTask, Running, cacheVars, history
  <2>2. \A x \in Task \ {u} : stamp'[x] = stamp[x]
    BY <1>4, <1>a, Domains DEF Skip, StampTask, Stamped, cacheVars
  <2>3. ASSUME NEW i \in 1..(pos - 1), plan[i] \in Cached
        PROVE  \A t : t = plan[i] => IsHit(t)'
    <3>1. IsHit(plan[i])
      BY <1>4, <2>1, <2>3 DEF Hits
    <3> QED
      BY <1>a, <2>1, <2>2, <3>1, EarlierHitKept
  <2>4. Signature(u)' = Signature(u)
    BY <2>1 DEF Signature, Seen
  <2>5. u \in Cached => IsHit(u)'
    <3>1. CASE Skip(u)
      BY <2>1, <2>4, <3>1 DEF Skip, IsHit, cacheVars
    <3>2. CASE StampTask(u)
      BY <1>a, <2>1, <2>4, <3>2, Domains DEF StampTask, Stamped, IsHit
    <3> QED
      BY <1>4, <3>1, <3>2
  <2>6. ASSUME NEW i \in 1..(pos' - 1), plan[i] \in Cached
        PROVE  \A t : t = plan[i] => IsHit(t)'
    <3>1. i \in 1..(pos - 1) \/ i = pos
      BY <1>b, <2>1
    <3> QED
      BY <2>1, <2>3, <2>5, <2>6, <3>1
  <2> QED
    BY <2>1, <2>6 DEF Hits
<1>5. ASSUME \/ \E u \in Task : Execute(u) \/ ReadInputs(u)
             \/ Finish \/ UNCHANGED vars
      PROVE  /\ UNCHANGED <<src, out, stamp, plan, pos, quiet>>
             /\ run' \in {"running", "ok"} => run \in {"running", "ok"}
  BY <1>5 DEF Execute, ReadInputs, Finish, Running, AtTask, vars, cacheVars, history
<1>6. ASSUME NEW p \in Target, StartBuild(p) PROVE pos' = 1
  BY <1>6 DEF StartBuild
<1>7. ASSUME \/ \E u \in Task : FailBeforeExecution(u) \/ FailExecution(u) \/ FailVerification(u)
             \/ FailManifest \/ Crash \/ Clean
             \/ \E u \in Task : CleanOutputs(u) \/ CleanStamp(u)
      PROVE  run' \notin {"running", "ok"}
  BY <1>7 DEF FailBeforeExecution, FailExecution, FailVerification, FailManifest, Crash, Stop,
              Clean, CleanOutputs, CleanStamp, CutShort, Removing
<1>8. ASSUME NEW u \in Task, NEW v \in Version, EditInput(u, v) PROVE ~ quiet'
  BY <1>8 DEF EditInput
<1>9. ASSUME NEW u \in Task, Skip(u) \/ StampTask(u), ~ quiet PROVE ~ quiet'
  BY <1>9 DEF Skip, StampTask, history
<1> QED
  BY <1>1, <1>2, <1>3, <1>4, <1>5, <1>6, <1>7, <1>8, <1>9 DEF Next, SchedulerStep

\* When nothing that a task has to do with changes.
LEMMA KeptStays ==
  ASSUME NEW t, Kept(t), src'[t] = src[t], out'[t] = out[t],
         t \in Cached => stamp'[t] = stamp[t],
         \A u \in Reads[t] \cup Hashed[t] : out'[u] = out[u]
  PROVE  Kept(t)'
BY HitKept, FreshKept DEF Kept

\* A build that ends undisturbed settles its plan.
LEMMA PlanSettles ==
  ASSUME IInv, Hits, SkippedCached, Finish, quiet, NEW t \in Planned
  PROVE  Kept(t) /\ Reads[t] \cup Hashed[t] \subseteq Planned
<1>a. TypeOK
  BY DEF IInv
<1>1. run = "running" /\ pos = Len(plan) + 1 /\ Len(plan) \in Nat
  BY <1>a, PlanType DEF Finish, Running, TypeOK
<1>2. PICK i \in 1..Len(plan) : t = plan[i]
  BY DEF Planned
<1>3. t \in Task /\ i \in 1..(pos - 1)
  BY <1>a, <1>1, <1>2, PlanType DEF TypeOK
<1>4. t \in Cached => IsHit(t)
  BY <1>1, <1>2, <1>3 DEF Hits
<1>5. t \notin Cached => Fresh(t)
  <2>1. Good(t)
    BY <1>1, <1>2, <1>3 DEF IInv, GoodSoFar
  <2>2. t \in Finished
    BY <1>1, <1>2, <1>3 DEF IInv, FinishedSoFar, Running
  <2> QED
    BY <1>3, <2>1, <2>2 DEF Good, Finished, SkippedCached
<1>6. \A u \in Reads[t] \cup Hashed[t] : \E j \in 1..(i - 1) : plan[j] = u
  BY <1>a, <1>2, PlanOrder DEF TypeOK
<1> QED
  BY <1>1, <1>2, <1>4, <1>5, <1>6 DEF Kept, Planned

LEMMA SettledPreserved ==
  ASSUME SInv, [Next]_vars
  PROVE  SettledKept' /\ SettledBuildOnlySkips'
<1>a. /\ TypeOK /\ Produced /\ ReadNow /\ SettledKept /\ SettledBuildOnlySkips
      /\ settled \in SUBSET Task
  BY DEF SInv, IInv, TypeOK
<1>b. \A t \in settled : Reads[t] \subseteq settled /\ Hashed[t] \subseteq settled
  BY <1>a DEF SettledKept
<1>1. ASSUME settled' = {} PROVE SettledKept' /\ SettledBuildOnlySkips'
  BY <1>1 DEF SettledKept, SettledBuildOnlySkips
<1>2. ASSUME UNCHANGED <<src, out, settled>>, settled # {} => quiet', ~ Missed,
             \A t \in settled \cap Cached : stamp'[t] = stamp[t]
      PROVE  SettledKept'
  <2>1. \A t \in settled : Kept(t)
    BY <1>a, <1>2 DEF SettledKept
  <2>2. \A t \in settled : Kept(t)'
    BY <1>2, <2>1, KeptStays
  <2> QED
    BY <1>a, <1>2, <2>2 DEF SettledKept
<1>3. step = "check" => ~ Missed
  BY DEF Missed
<1>4. step' = "check" => SettledBuildOnlySkips'
  BY DEF SettledBuildOnlySkips
<1>5. ASSUME NEW p \in Target, StartBuild(p) PROVE SettledKept' /\ SettledBuildOnlySkips'
  <2>1. step = "check"
    BY <1>5, <1>a DEF StartBuild, TypeOK, Running
  <2> QED
    BY <1>2, <1>3, <1>4, <1>5, <2>1 DEF StartBuild, cacheVars
<1>6. ASSUME NEW u \in Task, Skip(u) PROVE SettledKept' /\ SettledBuildOnlySkips'
  <2>1. /\ step = "check" /\ step' = "check"
        /\ UNCHANGED <<src, out, stamp, settled, quiet>>
    BY <1>6 DEF Skip, AtTask, Advance, cacheVars, history
  <2> QED
    BY <1>a, <1>2, <1>3, <1>4, <2>1 DEF SettledKept
<1>7. ASSUME NEW u \in Task, Execute(u) PROVE SettledKept' /\ SettledBuildOnlySkips'
  <2>1. /\ step = "check" /\ u = plan[pos] /\ ~ IsHit(u)
        /\ UNCHANGED <<src, out, stamp, settled, quiet, plan, pos>>
    BY <1>7 DEF Execute, AtTask, cacheVars
  <2>2. u \in Cached => u \notin settled
    BY <1>a, <1>3, <2>1 DEF SettledKept, Kept
  <2> QED
    BY <1>a, <1>2, <1>3, <2>1, <2>2 DEF SettledKept, SettledBuildOnlySkips
<1>8. ASSUME NEW u \in Task, ReadInputs(u) PROVE SettledKept' /\ SettledBuildOnlySkips'
  <2>1. /\ step = "execute" /\ ~ Missed
        /\ UNCHANGED <<src, out, stamp, settled, quiet, plan, pos>>
    BY <1>8 DEF ReadInputs, AtTask, cacheVars, history, Missed
  <2> QED
    BY <1>a, <1>2, <2>1 DEF SettledKept, SettledBuildOnlySkips
<1>9. ASSUME NEW u \in Task, Produce(u) PROVE SettledKept' /\ SettledBuildOnlySkips'
  <2>1. /\ u = plan[pos] /\ step = "write" /\ step' = "verify"
        /\ UNCHANGED <<src, stamp, settled, quiet, plan, pos>>
        /\ \A x \in Task \ {u} : out'[x] = out[x]
        /\ out'[u] \in {Build(u, seen.own, seen.ups), Absent}
    BY <1>9, <1>a, Domains DEF Produce, AtTask, history
  <2>2. \A t \in settled : Kept(t)
    BY <1>a, <2>1 DEF SettledKept, Missed
  <2>3. SettledBuildOnlySkips'
    BY <1>a, <2>1 DEF SettledBuildOnlySkips
  <2>4. ASSUME u \in settled, ~ Missed' PROVE out'[u] = out[u]
    <3>1. out'[u] = Build(u, seen.own, seen.ups)
      BY <2>1, <2>4 DEF Missed
    <3>2. seen = InputsNow(u)
      BY <1>a, <2>1, <2>4 DEF SettledKept, ReadNow
    <3>3. u \notin Cached
      BY <1>a, <2>1, <2>4 DEF SettledBuildOnlySkips
    <3>4. Fresh(u)
      BY <2>2, <2>4, <3>3 DEF Kept
    <3> QED
      BY <3>1, <3>2, <3>4 DEF Fresh, InputsNow
  <2>5. ASSUME ~ Missed', NEW t \in settled PROVE Kept(t)'
    <3>1. \A x \in settled : out'[x] = out[x]
      BY <1>a, <2>1, <2>4, <2>5
    <3> QED
      BY <1>b, <2>1, <2>2, <3>1, KeptStays
  <2> QED
    BY <1>a, <2>1, <2>3, <2>5 DEF SettledKept
<1>10. ASSUME NEW u \in Task, StampTask(u) PROVE SettledKept' /\ SettledBuildOnlySkips'
  <2>1. /\ u = plan[pos] /\ step = "verify" /\ out[u] # Absent /\ step' = "check"
        /\ UNCHANGED <<src, out, settled, quiet>>
    BY <1>10 DEF StampTask, AtTask, Advance
  <2>2. \A t \in settled \cap Cached : stamp'[t] = stamp[t]
    <3>1. u \in Cached => u \notin settled
      BY <1>a, <2>1 DEF SettledBuildOnlySkips
    <3> QED
      BY <1>10, <1>a, <3>1, Domains DEF StampTask, Stamped
  <2>3. ~ Missed
    BY <2>1 DEF Missed
  <2> QED
    BY <1>a, <1>2, <1>4, <2>1, <2>2, <2>3 DEF SettledKept
<1>11. CASE Finish
  <2>1. /\ UNCHANGED <<src, out, stamp, plan, pos, step, quiet>> /\ pos = Len(plan) + 1
        /\ settled' = IF quiet THEN settled \cup Planned ELSE {}
    BY <1>11 DEF Finish, cacheVars
  <2>2. step = "check"
    BY <1>a, <2>1, PlanType DEF TypeOK
  <2>3. CASE ~ quiet
    BY <1>1, <2>1, <2>3
  <2>4. CASE quiet
    <3>1. \A t \in settled \cup Planned : Kept(t) /\ Reads[t] \cup Hashed[t] \subseteq settled \cup Planned
      BY <1>a, <1>3, <1>11, <2>2, <2>4, PlanSettles DEF SInv, SettledKept
    <3>2. \A t \in settled \cup Planned : Kept(t)'
      BY <2>1, <3>1, KeptStays
    <3> QED
      BY <1>4, <2>1, <2>2, <2>4, <3>1, <3>2 DEF SettledKept
  <2> QED
    BY <2>3, <2>4
<1>12. ASSUME \/ \E u \in Task : FailBeforeExecution(u) \/ FailExecution(u) \/ FailVerification(u)
              \/ FailManifest \/ Crash \/ Clean
              \/ \E u \in Task, v \in Version : EditInput(u, v)
              \/ \E u \in Task : CleanOutputs(u) \/ CleanStamp(u)
       PROVE  settled' = {}
  BY <1>12 DEF FailBeforeExecution, FailExecution, FailVerification, FailManifest, Crash, Stop,
               EditInput, Clean, CleanOutputs, CleanStamp, CutShort, Removing
<1>13. CASE UNCHANGED vars
  <2>1. UNCHANGED <<src, out, stamp, settled, quiet, plan, pos, step>>
    BY <1>13 DEF vars, cacheVars, history
  <2>2. Missed' = Missed /\ \A t \in settled : Kept(t) => Kept(t)'
    BY <2>1, KeptStays DEF Missed
  <2> QED
    BY <1>a, <2>1, <2>2 DEF SettledKept, SettledBuildOnlySkips
<1> QED
  BY <1>1, <1>5, <1>6, <1>7, <1>8, <1>9, <1>10, <1>11, <1>12, <1>13 DEF Next, SchedulerStep

LEMMA SettledInductive == Spec => []SInv
<1>1. Init => Hits /\ SkippedCached /\ SettledKept /\ SettledBuildOnlySkips
  BY DEF Init, Hits, SkippedCached, SettledKept, SettledBuildOnlySkips
<1>2. SInv /\ IInv' /\ [Next]_vars => SInv'
  BY SkippedPreserved, HitsPreserved, SettledPreserved DEF SInv, IInv
<1> QED
  BY <1>1, <1>2, Inductive, PTL DEF Spec, SInv

\* What was built undisturbed and not touched since is not executed again,
\* in any order of targets.
THEOREM SettledIsSkipped == Spec => []SettledBuildOnlySkips
<1>1. SInv => SettledBuildOnlySkips
  BY DEF SInv
<1> QED
  BY <1>1, SettledInductive, PTL

-----------------------------------------------------------------------------
(* An incremental build equals a clean one.                                *)

\* The least-number principle, from the finite sets 1..k.
LEMMA Least ==
  ASSUME NEW S \in SUBSET Nat, S # {}
  PROVE  \E m \in S : \A k \in S : m <= k
<1> DEFINE T == {1..k : k \in S}
<1>1. T \subseteq FiniteSubsetsOf(Nat) /\ T # {}
  <2>1. \A k \in S : IsFiniteSet(1..k) /\ 1..k \in SUBSET Nat
    BY FS_Interval
  <2> QED
    BY <2>1 DEF FiniteSubsetsOf
<1>2. IsWellFoundedOn(StrictSubsetOrdering(Nat), FiniteSubsetsOf(Nat))
  BY FS_StrictSubsetOrderingWellFounded
<1>3. PICK x \in T : \A y \in T : <<y, x>> \notin StrictSubsetOrdering(Nat)
  <2> HIDE DEF T
  <2> QED
    BY <1>1, <1>2, WFMin
<1>4. PICK m \in S : x = 1..m
  BY <1>3
<1>5. ASSUME NEW k \in S, k < m
      PROVE  FALSE
  <2>1. <<1..k, x>> \in StrictSubsetOrdering(Nat)
    <3>1. m \in 1..m /\ m \notin 1..k
      BY <1>5
    <3> QED
      BY <1>4, <1>5, <3>1 DEF StrictSubsetOrdering
  <2> QED
    BY <1>3, <2>1
<1> QED
  BY <1>5

\* Where a task stands in the plan, and what the recursion of CleanBuild asks
\* of a function.
Place(u) == CHOOSE j \in 1..Len(plan) : plan[j] = u
Makes(f) ==
  f = [i \in 1..Len(plan) |->
         LET t == plan[i]
         IN  Build(t, src[t], [u \in Reads[t] |-> f[Place(u)]])]

LEMMA PlaceOfEarlier ==
  ASSUME TypeOK, NEW i \in 1..Len(plan), NEW u \in Reads[plan[i]]
  PROVE  Place(u) \in 1..(i - 1) /\ plan[Place(u)] = u
<1>1. PICK j \in 1..(i - 1) : plan[j] = u
  BY PlanOrder DEF TypeOK
<1>2. Len(plan) \in Nat /\ j \in 1..Len(plan)
  BY <1>1, PlanType DEF TypeOK
<1>3. Place(u) \in 1..Len(plan) /\ plan[Place(u)] = u
  BY <1>1, <1>2 DEF Place
<1>4. Place(u) = j
  BY <1>1, <1>2, <1>3, PlanOrder DEF TypeOK
<1> QED
  BY <1>1, <1>3, <1>4

\* Two functions that satisfy it are the same: where they differ first, they
\* have been the same before.
LEMMA MakesOne ==
  ASSUME TypeOK, NEW f, NEW g, Makes(f), Makes(g)
  PROVE  f = g
<1>a. Len(plan) \in Nat
  BY PlanType DEF TypeOK
<1> DEFINE S == {i \in 1..Len(plan) : f[i] # g[i]}
<1>1. S = {}
  <2> SUFFICES ASSUME S # {}
               PROVE  FALSE
    OBVIOUS
  <2>1. PICK i \in S : \A k \in S : i <= k
    <3>1. S \in SUBSET Nat
      BY <1>a
    <3> HIDE DEF S
    <3> QED
      BY <3>1, Least
  <2>2. \A u \in Reads[plan[i]] : f[Place(u)] = g[Place(u)]
    <3>1. \A k \in 1..(i - 1) : f[k] = g[k]
      BY <1>a, <2>1
    <3> QED
      BY <2>1, <3>1, PlaceOfEarlier
  <2>3. [u \in Reads[plan[i]] |-> f[Place(u)]] = [u \in Reads[plan[i]] |-> g[Place(u)]]
    BY <2>2
  <2>4. /\ f[i] = Build(plan[i], src[plan[i]], [u \in Reads[plan[i]] |-> f[Place(u)]])
        /\ g[i] = Build(plan[i], src[plan[i]], [u \in Reads[plan[i]] |-> g[Place(u)]])
    BY <2>1 DEF Makes
  <2> QED
    BY <2>1, <2>3, <2>4
<1>2. /\ f = [i \in 1..Len(plan) |-> f[i]]
      /\ g = [i \in 1..Len(plan) |-> g[i]]
  BY DEF Makes
<1> QED
  BY <1>1, <1>2

\* A build that ends well, undisturbed and with every output up to date,
\* records what a build in an empty directory would have made.
THEOREM IncrementalIsClean == Spec => []IncrementalEqualsClean
<1>1. IInv => IncrementalEqualsClean
  <2> SUFFICES ASSUME IInv, run = "ok", quiet,
                      \A t \in Planned : status[t] = "success" \/ (t \in Sealed /\ ~ tainted[t])
               PROVE  \A i \in 1..Len(plan) : manifest[plan[i]] = CleanBuild[i]
    BY DEF IncrementalEqualsClean
  <2> DEFINE made == [i \in 1..Len(plan) |-> out[plan[i]]]
  <2>a. TypeOK /\ Len(plan) \in Nat /\ pos = Len(plan) + 1 /\ manifest = Seen(Planned)
    BY PlanType DEF IInv, TypeOK, EndOfPlan
  <2>1. \A i \in 1..Len(plan) : Fresh(plan[i])
    <3>1. \A i \in 1..Len(plan) : Good(plan[i]) /\ plan[i] \in Planned
      BY <2>a DEF IInv, GoodSoFar, Planned
    <3> QED
      BY <3>1 DEF Good
  <2>2. Makes(made)
    <3>1. ASSUME NEW i \in 1..Len(plan)
          PROVE  made[i] = Build(plan[i], src[plan[i]], [u \in Reads[plan[i]] |-> made[Place(u)]])
      <4>1. \A u \in Reads[plan[i]] : made[Place(u)] = out[u]
        BY <2>a, PlaceOfEarlier
      <4>2. [u \in Reads[plan[i]] |-> made[Place(u)]] = Seen(Reads[plan[i]])
        BY <4>1 DEF Seen
      <4> QED
        BY <2>1, <4>2 DEF Fresh
    <3> QED
      BY <3>1 DEF Makes
  <2>3. CleanBuild = CHOOSE f : Makes(f)
    BY DEF CleanBuild, Makes, Place
  <2>4. Makes(CleanBuild)
    <3> HIDE DEF made
    <3> QED
      BY <2>2, <2>3, Zenon
  <2>5. CleanBuild = made
    <3> HIDE DEF made
    <3> QED
      BY <2>a, <2>2, <2>4, MakesOne
  <2>6. \A i \in 1..Len(plan) : manifest[plan[i]] = out[plan[i]]
    BY <2>a DEF Seen, Planned
  <2> QED
    BY <2>5, <2>6
<1> QED
  BY <1>1, Inductive, PTL

-----------------------------------------------------------------------------
(* The graph, for every number of tasks and every set of ids.  The         *)
(* inductive invariant ties the three data structures of the sort to the   *)
(* order produced so far: indegree counts the dependencies that are not    *)
(* yet placed, ready holds exactly the tasks that count zero, and no set   *)
(* of tasks that wait for one another ever loses a member to result.       *)

Counted == outcome \in {"sorting", "ordered", "cycle"}

NamesDistinct ==
  outcome \notin {"new", "duplicate"} =>
    \A s, t \in Graph!Entry : name[s] = name[t] => s = t

NothingPlacedYet == ~Counted => result = <<>>

PlacedOnce ==
  \A i, j \in 1..Len(result) : result[i] = result[j] => i = j

IndegreeCounts ==
  Counted => \A t \in Graph!Entry : indegree[t] = Cardinality(deps[t] \ Graph!PlacedNames)

ReadyIsExact ==
  Counted => ready = {t \in Graph!Entry \ Graph!Placed : deps[t] \subseteq Graph!PlacedNames}

DependenciesKnown ==
  Counted => \A t \in Graph!Entry : deps[t] \subseteq {name[s] : s \in Graph!Entry}

TrappedNeverPlaced ==
  \A S \in SUBSET Graph!Entry : Graph!Trapped(S) => S \cap Graph!Placed = {}

EndsWithoutReady ==
  /\ outcome \in {"ordered", "cycle"} => ready = {}
  /\ outcome = "ordered" => Len(result) = N
  /\ outcome = "cycle" => Len(result) # N

GraphInv ==
  /\ Graph!TypeOK
  /\ NamesDistinct
  /\ NothingPlacedYet
  /\ PlacedOnce
  /\ IndegreeCounts
  /\ ReadyIsExact
  /\ DependenciesKnown
  /\ TrappedNeverPlaced
  /\ EndsWithoutReady
  /\ Graph!DependenciesFirst
  /\ Graph!PlannerOrderKept

-----------------------------------------------------------------------------
\* What placing one more task does to the order and to the sets read off it.
LEMMA PlaceExtends ==
  ASSUME Graph!TypeOK, NEW t \in Graph!Entry, result' = Append(result, t), name' = name
  PROVE  /\ Len(result) \in Nat
         /\ Len(result') = Len(result) + 1
         /\ \A i \in 1..Len(result) : result'[i] = result[i]
         /\ result'[Len(result) + 1] = t
         /\ result' \in Seq(Graph!Entry)
         /\ Graph!Placed' = Graph!Placed \cup {t}
         /\ Graph!PlacedNames' = Graph!PlacedNames \cup {name[t]}
  <1>1. /\ Len(result) \in Nat
        /\ Len(result') = Len(result) + 1
        /\ \A i \in 1..Len(result) : result'[i] = result[i]
        /\ result'[Len(result) + 1] = t
        /\ result' \in Seq(Graph!Entry)
    BY DEF Graph!TypeOK
  <1>2. Graph!Placed' = Graph!Placed \cup {t}
    <2>1. Graph!Placed' = {result'[i] : i \in 1..(Len(result) + 1)}
      BY <1>1 DEF Graph!Placed
    <2>2. 1..(Len(result) + 1) = 1..Len(result) \cup {Len(result) + 1}
      BY <1>1
    <2>3. ASSUME NEW x \in Graph!Placed'
          PROVE  x \in Graph!Placed \cup {t}
      BY <1>1, <2>1, <2>2 DEF Graph!Placed
    <2>4. ASSUME NEW x \in Graph!Placed \cup {t}
          PROVE  x \in Graph!Placed'
      BY <1>1, <2>1, <2>2 DEF Graph!Placed
    <2>5. QED
      BY <2>3, <2>4
  <1>3. Graph!PlacedNames' = Graph!PlacedNames \cup {name[t]}
    BY <1>2 DEF Graph!PlacedNames
  <1>4. QED
    BY <1>1, <1>2, <1>3

\* Ids are a finite set, so the dependencies of a task can be counted.
LEMMA DepsFinite ==
  ASSUME Graph!TypeOK, NEW t \in Graph!Entry
  PROVE  /\ IsFiniteSet(deps[t])
         /\ \A X : /\ IsFiniteSet(deps[t] \ X)
                   /\ Cardinality(deps[t] \ X) \in Nat
  <1>1. deps[t] \in SUBSET Name
    BY DEF Graph!TypeOK
  <1>2. IsFiniteSet(deps[t])
    BY <1>1, GraphConstants, FS_Subset
  <1>3. ASSUME NEW X
        PROVE  IsFiniteSet(deps[t] \ X) /\ Cardinality(deps[t] \ X) \in Nat
    <2>1. deps[t] \ X \in SUBSET deps[t]
      OBVIOUS
    <2>2. IsFiniteSet(deps[t] \ X)
      BY <1>2, <2>1, FS_Subset
    <2>3. QED
      BY <2>2, FS_CardinalityType
  <1>4. QED
    BY <1>2, <1>3

\* The order is full exactly when every task is in it.
LEMMA FullOrder ==
  ASSUME Graph!TypeOK, PlacedOnce
  PROVE  Len(result) = N <=> Graph!Placed = Graph!Entry
  <1>1. Len(result) \in Nat /\ result \in [1..Len(result) -> Graph!Entry]
    BY DEF Graph!TypeOK
  <1>2. Graph!Placed \in SUBSET Graph!Entry
    BY <1>1 DEF Graph!Placed
  <1>3. IsFiniteSet(Graph!Entry) /\ Cardinality(Graph!Entry) = N
    BY GraphConstants, FS_Interval DEF Graph!Entry
  <1>4. IsFiniteSet(1..Len(result)) /\ Cardinality(1..Len(result)) = Len(result)
    BY <1>1, FS_Interval
  <1>5. result \in Bijection(1..Len(result), Graph!Placed)
    <2>1. result \in [1..Len(result) -> Graph!Placed]
      BY <1>1 DEF Graph!Placed
    <2>2. IsInjective(result)
      BY <1>1 DEF IsInjective, PlacedOnce
    <2>3. \A x \in Graph!Placed : \E i \in 1..Len(result) : result[i] = x
      BY DEF Graph!Placed
    <2>4. QED
      BY <2>1, <2>2, <2>3 DEF Bijection, Injection, Surjection
  <1>6. Cardinality(Graph!Placed) = Len(result)
    BY <1>4, <1>5, FS_Bijection, Zenon DEF ExistsBijection
  <1>7. QED
    BY <1>2, <1>3, <1>6, FS_Subset

-----------------------------------------------------------------------------
LEMMA GraphInitially == Graph!Init => GraphInv
  <1> SUFFICES ASSUME Graph!Init PROVE GraphInv
    OBVIOUS
  <1>1. Len(result) = 0 /\ Graph!Placed = {}
    BY DEF Graph!Init, Graph!Placed
  <1>2. Graph!TypeOK
    BY DEF Graph!Init, Graph!TypeOK
  <1>3. QED
    BY <1>1, <1>2
       DEF Graph!Init, GraphInv, NamesDistinct, NothingPlacedYet, PlacedOnce, Counted,
           IndegreeCounts, ReadyIsExact, DependenciesKnown, TrappedNeverPlaced,
           EndsWithoutReady, Graph!DependenciesFirst, Graph!PlannerOrderKept, Graph!Errors

\* Steps that place nothing keep everything said about the order.
LEMMA OrderUnchanged ==
  ASSUME GraphInv, UNCHANGED <<name, deps, result>>
  PROVE  /\ PlacedOnce'
         /\ TrappedNeverPlaced'
         /\ Graph!DependenciesFirst'
         /\ Graph!PlannerOrderKept'
         /\ Graph!Placed' = Graph!Placed
         /\ Graph!PlacedNames' = Graph!PlacedNames
  <1>1. Graph!Placed' = Graph!Placed /\ Graph!PlacedNames' = Graph!PlacedNames
    BY DEF Graph!Placed, Graph!PlacedNames
  <1>2. TrappedNeverPlaced'
    BY <1>1 DEF GraphInv, TrappedNeverPlaced, Graph!Trapped
  <1>3. QED
    BY <1>1, <1>2 DEF GraphInv, PlacedOnce, Graph!DependenciesFirst, Graph!PlannerOrderKept

\* TaskGraph counts with the operator of FiniteSets.
LEMMA SameCardinality == \A S : Graph!Cardinality(S) = Cardinality(S)
  BY DEF Graph!Cardinality, Cardinality

LEMMA CountStep ==
  ASSUME GraphInv, Graph!CountDependencies
  PROVE  GraphInv'
  <1> USE DEF GraphInv
  <1>1. /\ outcome = "indexed" /\ outcome' = "sorting" /\ result = <<>>
        /\ UNCHANGED <<name, deps, result>>
    BY DEF Graph!CountDependencies, NothingPlacedYet, Counted
  <1>2. /\ PlacedOnce' /\ TrappedNeverPlaced'
        /\ Graph!DependenciesFirst' /\ Graph!PlannerOrderKept'
        /\ Graph!Placed' = Graph!Placed /\ Graph!PlacedNames' = Graph!PlacedNames
    BY <1>1, OrderUnchanged
  <1>3. Graph!Placed = {} /\ Graph!PlacedNames = {}
    BY <1>1 DEF Graph!Placed, Graph!PlacedNames
  <1>4. \A t \in Graph!Entry : Cardinality(deps[t]) \in Nat /\ deps[t] \ {} = deps[t]
    BY DepsFinite
  <1>a. \A t \in Graph!Entry : Graph!Cardinality(deps[t]) = Cardinality(deps[t])
    BY SameCardinality
  <1>5. Graph!TypeOK'
    BY <1>1, <1>4, <1>a DEF Graph!TypeOK, Graph!CountDependencies
  <1>6. IndegreeCounts'
    BY <1>1, <1>2, <1>3, <1>4, <1>5, <1>a DEF IndegreeCounts, Graph!CountDependencies, Graph!TypeOK
  <1>7. ReadyIsExact'
    BY <1>1, <1>2, <1>3 DEF ReadyIsExact, Graph!CountDependencies
  <1>8. NamesDistinct' /\ NothingPlacedYet' /\ DependenciesKnown' /\ EndsWithoutReady'
    BY <1>1 DEF NamesDistinct, NothingPlacedYet, Counted, DependenciesKnown,
                EndsWithoutReady, Graph!CountDependencies
  <1>9. QED
    BY <1>2, <1>5, <1>6, <1>7, <1>8

LEMMA PlaceStep ==
  ASSUME GraphInv, NEW t \in Graph!Entry, Graph!Place(t)
  PROVE  GraphInv'
  <1> USE DEF GraphInv
  <1>1. /\ outcome = "sorting" /\ outcome' = "sorting" /\ Counted /\ Counted'
        /\ UNCHANGED <<name, deps>> /\ result' = Append(result, t)
        /\ t \in ready
    BY DEF Graph!Place, Counted
  <1>2. /\ Len(result) \in Nat
        /\ Len(result') = Len(result) + 1
        /\ \A i \in 1..Len(result) : result'[i] = result[i]
        /\ result'[Len(result) + 1] = t
        /\ result' \in Seq(Graph!Entry)
        /\ Graph!Placed' = Graph!Placed \cup {t}
        /\ Graph!PlacedNames' = Graph!PlacedNames \cup {name[t]}
    BY <1>1, PlaceExtends
  <1>3. t \notin Graph!Placed /\ deps[t] \subseteq Graph!PlacedNames
    BY <1>1 DEF ReadyIsExact
  <1>4. \A q \in Graph!Entry : name[q] \in Graph!PlacedNames => q \in Graph!Placed
    <2>1. Graph!Placed \subseteq Graph!Entry
      BY DEF Graph!Placed, Graph!TypeOK
    <2>2. QED
      BY <1>1, <2>1 DEF NamesDistinct, Graph!PlacedNames
  <1>5. name[t] \notin Graph!PlacedNames
    BY <1>3, <1>4
  <1>6. \A c \in Graph!Entry : c \in Graph!Placed => deps[c] \subseteq Graph!PlacedNames
    <2> SUFFICES ASSUME NEW c \in Graph!Entry, c \in Graph!Placed, NEW d \in deps[c]
                 PROVE  d \in Graph!PlacedNames
      OBVIOUS
    <2>1. PICK q \in Graph!Entry : name[q] = d
      BY <1>1 DEF DependenciesKnown
    <2>2. PICK i \in 1..Len(result) : result[i] = c
      BY DEF Graph!Placed
    <2>3. PICK j \in 1..(i - 1) : result[j] = q
      BY <2>1, <2>2 DEF Graph!DependenciesFirst
    <2>4. j \in 1..Len(result)
      BY <1>2, <2>2, <2>3
    <2>5. QED
      BY <2>1, <2>3, <2>4 DEF Graph!Placed, Graph!PlacedNames
  <1>7. \A c \in Graph!Entry : indegree'[c] = Cardinality(deps[c] \ Graph!PlacedNames')
                        /\ indegree'[c] \in Nat
    <2> SUFFICES ASSUME NEW c \in Graph!Entry
                 PROVE  /\ indegree'[c] = Cardinality(deps[c] \ Graph!PlacedNames')
                        /\ indegree'[c] \in Nat
      OBVIOUS
    <2> DEFINE D == deps[c] \ Graph!PlacedNames
    <2>1. IsFiniteSet(D) /\ Cardinality(D) \in Nat /\ indegree[c] = Cardinality(D)
      BY <1>1, DepsFinite DEF IndegreeCounts
    <2>2. deps[c] \ Graph!PlacedNames' = D \ {name[t]}
      BY <1>2
    <2>3. Cardinality(D \ {name[t]}) =
            IF name[t] \in D THEN Cardinality(D) - 1 ELSE Cardinality(D)
      BY <2>1, FS_RemoveElement
    <2>4. name[t] \in deps[c] <=> name[t] \in D
      BY <1>5
    <2>5. IsFiniteSet(deps[c] \ Graph!PlacedNames')
          /\ Cardinality(deps[c] \ Graph!PlacedNames') \in Nat
      BY DepsFinite
    <2>6. indegree'[c] = IF name[t] \in deps[c]
                         THEN indegree[c] - 1 ELSE indegree[c]
      BY DEF Graph!Place
    <2>7. QED
      BY <2>1, <2>2, <2>3, <2>4, <2>5, <2>6
  <1>8. Graph!TypeOK'
    <2>1. indegree' = [c \in Graph!Entry |-> IF name[t] \in deps[c]
                                      THEN indegree[c] - 1 ELSE indegree[c]]
      BY DEF Graph!Place
    <2>2. indegree' \in [Graph!Entry -> Nat]
      BY <1>7, <2>1
    <2>3. ready' \in SUBSET Graph!Entry
      BY DEF Graph!Place, Graph!TypeOK
    <2>4. QED
      BY <1>1, <1>2, <2>2, <2>3 DEF Graph!TypeOK
  <1>9. IndegreeCounts'
    BY <1>1, <1>7 DEF IndegreeCounts
  <1>10. ReadyIsExact'
    <2> SUFFICES ASSUME NEW c \in Graph!Entry
                 PROVE  c \in ready' <=>
                          /\ c \notin Graph!Placed'
                          /\ deps[c] \subseteq Graph!PlacedNames'
      BY <1>1, <1>8 DEF ReadyIsExact, Graph!TypeOK
    <2> DEFINE D == deps[c] \ Graph!PlacedNames
    <2>1. IsFiniteSet(D) /\ indegree[c] = Cardinality(D)
      BY <1>1, DepsFinite DEF IndegreeCounts
    <2>2. indegree[c] = 1 <=> \E x : D = {x}
      BY <2>1, FS_Singleton
    <2>3. name[t] \in deps[c] => name[t] \in D
      BY <1>5
    <2>4. c \in ready' <=> \/ c \in ready /\ c # t
                           \/ name[t] \in deps[c] /\ indegree[c] = 1
      BY DEF Graph!Place
    <2>5. c \in ready <=> c \notin Graph!Placed /\ D = {}
      BY <1>1 DEF ReadyIsExact
    <2>6. CASE name[t] \in deps[c]
      <3>1. c \notin Graph!Placed /\ c # t
        BY <1>3, <1>5, <1>6, <2>6
      <3>2. c \notin ready
        BY <2>3, <2>5, <2>6
      <3>3. indegree[c] = 1 <=> D = {name[t]}
        BY <2>2, <2>3, <2>6
      <3>4. QED
        BY <1>2, <2>4, <2>6, <3>1, <3>2, <3>3, <2>3
    <2>7. CASE name[t] \notin deps[c]
      BY <1>2, <2>4, <2>5, <2>7
    <2>8. QED
      BY <2>6, <2>7
  <1>11. PlacedOnce'
    <2> SUFFICES ASSUME NEW i \in 1..(Len(result) + 1), NEW j \in 1..(Len(result) + 1),
                        result'[i] = result'[j]
                 PROVE  i = j
      BY <1>2 DEF PlacedOnce
    <2>1. \A k \in 1..Len(result) : result[k] # t
      BY <1>3 DEF Graph!Placed
    <2>2. QED
      BY <1>2, <2>1 DEF PlacedOnce
  <1>12. TrappedNeverPlaced'
    <2> SUFFICES ASSUME NEW S \in SUBSET Graph!Entry, Graph!Trapped(S)
                 PROVE  S \cap Graph!Placed' = {}
      BY <1>1 DEF TrappedNeverPlaced, Graph!Trapped
    <2>1. S \cap Graph!Placed = {}
      BY DEF TrappedNeverPlaced
    <2>2. t \notin S
      BY <1>3, <1>4, <2>1 DEF Graph!Trapped
    <2>3. QED
      BY <1>2, <2>1, <2>2
  <1>13. Graph!DependenciesFirst'
    <2> SUFFICES ASSUME NEW i \in 1..(Len(result) + 1), NEW q \in Graph!Entry,
                        name[q] \in deps[result'[i]]
                 PROVE  \E j \in 1..(i - 1) : result'[j] = q
      BY <1>1, <1>2 DEF Graph!DependenciesFirst
    <2>1. CASE i \in 1..Len(result)
      <3>1. PICK j \in 1..(i - 1) : result[j] = q
        BY <1>2, <2>1 DEF Graph!DependenciesFirst
      <3>2. j \in 1..Len(result)
        BY <1>2, <2>1
      <3>3. QED
        BY <1>2, <3>1, <3>2
    <2>2. CASE i = Len(result) + 1
      <3>1. q \in Graph!Placed
        BY <1>2, <1>3, <1>4, <2>2
      <3>2. PICK j \in 1..Len(result) : result[j] = q
        BY <3>1 DEF Graph!Placed
      <3>3. QED
        BY <1>2, <2>2, <3>2
    <2>3. QED
      BY <1>2, <2>1, <2>2
  <1>14. Graph!PlannerOrderKept'
    <2> SUFFICES ASSUME NEW i \in 1..(Len(result) + 1), NEW u \in Graph!Entry,
                        \A j \in 1..(i - 1) : result'[j] # u,
                        \A d \in deps[u] : \E j \in 1..(i - 1) : name[result'[j]] = d
                 PROVE  result'[i] <= u
      BY <1>1, <1>2 DEF Graph!PlannerOrderKept
    <2>1. \A j \in 1..(i - 1) : j \in 1..Len(result) /\ result'[j] = result[j]
      BY <1>2
    <2>2. \A d \in deps[u] : \E j \in 1..(i - 1) : name[result[j]] = d
      BY <2>1
    <2>3. CASE i \in 1..Len(result)
      BY <1>2, <2>1, <2>2, <2>3 DEF Graph!PlannerOrderKept
    <2>4. CASE i = Len(result) + 1
      <3>1. i - 1 = Len(result)
        BY <1>2, <2>4
      <3>2. u \notin Graph!Placed
        BY <2>1, <3>1 DEF Graph!Placed
      <3>3. deps[u] \subseteq Graph!PlacedNames
        BY <2>2, <3>1 DEF Graph!Placed, Graph!PlacedNames
      <3>4. u \in ready
        BY <1>1, <3>2, <3>3 DEF ReadyIsExact
      <3>5. QED
        BY <1>2, <2>4, <3>4 DEF Graph!Place
    <2>5. QED
      BY <1>2, <2>3, <2>4
  <1>15. NamesDistinct' /\ NothingPlacedYet' /\ DependenciesKnown' /\ EndsWithoutReady'
    BY <1>1 DEF NamesDistinct, NothingPlacedYet, Counted, DependenciesKnown,
                EndsWithoutReady
  <1>16. QED
    BY <1>8, <1>9, <1>10, <1>11, <1>12, <1>13, <1>14, <1>15

LEMMA GraphStep == GraphInv /\ [Graph!Next]_(Graph!vars) => GraphInv'
  <1> SUFFICES ASSUME GraphInv, [Graph!Next]_(Graph!vars) PROVE GraphInv'
    OBVIOUS
  <1>1. CASE Graph!IndexTasks
    <2>1. PlacedOnce' /\ TrappedNeverPlaced' /\ Graph!DependenciesFirst' /\ Graph!PlannerOrderKept'
      BY <1>1, OrderUnchanged DEF Graph!IndexTasks
    <2>2. QED
      BY <1>1, <2>1
         DEF Graph!IndexTasks, GraphInv, Graph!TypeOK, NamesDistinct, NothingPlacedYet, Counted,
             IndegreeCounts, ReadyIsExact, DependenciesKnown, EndsWithoutReady, Graph!Errors
  <1>2. CASE Graph!RejectMissing
    <2>1. PlacedOnce' /\ TrappedNeverPlaced' /\ Graph!DependenciesFirst' /\ Graph!PlannerOrderKept'
      BY <1>2, OrderUnchanged DEF Graph!RejectMissing
    <2>2. QED
      BY <1>2, <2>1
         DEF Graph!RejectMissing, GraphInv, Graph!TypeOK, NamesDistinct, NothingPlacedYet, Counted,
             IndegreeCounts, ReadyIsExact, DependenciesKnown, EndsWithoutReady, Graph!Errors
  <1>3. CASE Graph!CountDependencies
    BY <1>3, CountStep
  <1>4. CASE \E t \in Graph!Entry : Graph!Place(t)
    BY <1>4, PlaceStep
  <1>5. CASE Graph!Finish
    <2>1. /\ PlacedOnce' /\ TrappedNeverPlaced' /\ Graph!DependenciesFirst' /\ Graph!PlannerOrderKept'
          /\ Graph!Placed' = Graph!Placed /\ Graph!PlacedNames' = Graph!PlacedNames
      BY <1>5, OrderUnchanged DEF Graph!Finish
    <2>2. QED
      BY <1>5, <2>1
         DEF Graph!Finish, GraphInv, Graph!TypeOK, NamesDistinct, NothingPlacedYet, Counted,
             IndegreeCounts, ReadyIsExact, DependenciesKnown, EndsWithoutReady, Graph!Errors
  <1>6. CASE UNCHANGED Graph!vars
    <2>1. /\ PlacedOnce' /\ TrappedNeverPlaced' /\ Graph!DependenciesFirst' /\ Graph!PlannerOrderKept'
          /\ Graph!Placed' = Graph!Placed /\ Graph!PlacedNames' = Graph!PlacedNames
      BY <1>6, OrderUnchanged DEF Graph!vars
    <2>2. QED
      BY <1>6, <2>1
         DEF Graph!vars, GraphInv, Graph!TypeOK, NamesDistinct, NothingPlacedYet, Counted,
             IndegreeCounts, ReadyIsExact, DependenciesKnown, EndsWithoutReady
  <1>7. QED
    BY <1>1, <1>2, <1>3, <1>4, <1>5, <1>6 DEF Graph!Next

LEMMA GraphInductive == Graph!Spec => []GraphInv
  BY GraphInitially, GraphStep, PTL DEF Graph!Spec

-----------------------------------------------------------------------------
(* The results.                                                            *)

\* Every variable of the sort keeps its type, for every task list.
THEOREM GraphTypeCorrect == Graph!Spec => []GraphTypeOK
  <1>1. GraphInv => GraphTypeOK
    BY DEF GraphInv, GraphTypeOK
  <1>2. QED
    BY <1>1, GraphInductive, PTL

\* In every order topological_order() builds, each task follows everything it
\* depends on (tasks.py:130-137).
THEOREM OrderRespectsDependencies == Graph!Spec => []Graph!DependenciesFirst
  <1>1. GraphInv => Graph!DependenciesFirst
    BY DEF GraphInv
  <1>2. QED
    BY <1>1, GraphInductive, PTL

\* An order that is returned holds every task exactly once (tasks.py:139).
THEOREM OrderComplete == Graph!Spec => []Graph!OrderIsComplete
  <1>1. GraphInv => Graph!OrderIsComplete
    BY FullOrder DEF GraphInv, Graph!OrderIsComplete, EndsWithoutReady, PlacedOnce
  <1>2. QED
    BY <1>1, GraphInductive, PTL

\* The order has all tasks, each after what it depends on, and is the planner's
\* own wherever the dependencies leave a choice (tasks.py:137, the sort of
\* `ready').
THEOREM OrderRight == Graph!Spec => []OrderIsRight
  <1>1. GraphInv => Graph!PlannerOrderKept
    BY DEF GraphInv
  <1>2. Graph!Spec => []Graph!PlannerOrderKept
    BY <1>1, GraphInductive, PTL
  <1>3. QED
    BY <1>2, OrderRespectsDependencies, OrderComplete, PTL DEF OrderIsRight

\* A graph is refused for a cycle exactly when it has one, and the message
\* names the largest set of tasks that wait for one another (tasks.py:139-141).
THEOREM CycleReported == Graph!Spec => []CycleReportIsExact
  <1>1. GraphInv => CycleReportIsExact
    <2> SUFFICES ASSUME GraphInv PROVE CycleReportIsExact
      OBVIOUS
    <2> USE DEF GraphInv
    <2>1. ASSUME outcome = "ordered", NEW S \in SUBSET Graph!Entry, Graph!Trapped(S)
          PROVE  S = {}
      <3>1. Graph!Placed = Graph!Entry
        BY <2>1, FullOrder DEF EndsWithoutReady
      <3>2. QED
        BY <2>1, <3>1 DEF TrappedNeverPlaced
    <2>2. ASSUME outcome = "cycle"
          PROVE  LET blocked == {t \in Graph!Entry : indegree[t] > 0}
                 IN  /\ blocked # {}
                     /\ Graph!Trapped(blocked)
                     /\ \A S \in SUBSET Graph!Entry : Graph!Trapped(S) => S \subseteq blocked
      <3> DEFINE blocked == {t \in Graph!Entry : indegree[t] > 0}
      <3>1. Counted /\ ready = {} /\ Graph!Placed # Graph!Entry
        BY <2>2, FullOrder DEF Counted, EndsWithoutReady
      <3>2. Graph!Placed \subseteq Graph!Entry
        BY DEF Graph!Placed, Graph!TypeOK
      <3>3. \A t \in Graph!Entry : t \in blocked <=> ~ (deps[t] \subseteq Graph!PlacedNames)
        <4> SUFFICES ASSUME NEW t \in Graph!Entry
                     PROVE  t \in blocked <=> deps[t] \ Graph!PlacedNames # {}
          OBVIOUS
        <4>1. /\ IsFiniteSet(deps[t] \ Graph!PlacedNames)
              /\ Cardinality(deps[t] \ Graph!PlacedNames) \in Nat
          BY DepsFinite
        <4>2. Cardinality(deps[t] \ Graph!PlacedNames) = 0 <=> deps[t] \ Graph!PlacedNames = {}
          BY <4>1, FS_EmptySet
        <4>3. indegree[t] = Cardinality(deps[t] \ Graph!PlacedNames)
          BY <3>1 DEF IndegreeCounts
        <4>4. QED
          BY <4>1, <4>2, <4>3
      <3>4. \A t \in Graph!Entry \ Graph!Placed : t \in blocked
        BY <3>1, <3>3 DEF ReadyIsExact
      <3>5. Graph!Trapped(blocked)
        <4> SUFFICES ASSUME NEW t \in blocked
                     PROVE  \E q \in blocked : name[q] \in deps[t]
          BY DEF Graph!Trapped
        <4>1. PICK d \in deps[t] : d \notin Graph!PlacedNames
          BY <3>3
        <4>2. PICK q \in Graph!Entry : name[q] = d
          BY <3>1, <4>1 DEF DependenciesKnown
        <4>3. q \notin Graph!Placed
          BY <4>1, <4>2 DEF Graph!PlacedNames
        <4>4. QED
          BY <3>4, <4>1, <4>2, <4>3
      <3>6. \A S \in SUBSET Graph!Entry : Graph!Trapped(S) => S \subseteq blocked
        BY <3>4 DEF TrappedNeverPlaced
      <3>7. blocked # {}
        BY <3>1, <3>2, <3>4
      <3>8. QED
        BY <3>5, <3>6, <3>7
    <2>3. QED
      BY <2>1, <2>2 DEF CycleReportIsExact, Graph!CycleReportIsExact
  <1>2. QED
    BY <1>1, GraphInductive, PTL
=============================================================================
