-------------------------------- MODULE Cache --------------------------------
(***************************************************************************)
(* The task cache (smart_build/cache.py): when a task may be skipped and   *)
(* what is recorded when it was executed.                                  *)
(*                                                                         *)
(* What a task's executor makes is a function of the task's own inputs (a  *)
(* version of its files, command, environment and executor, the parts of   *)
(* the signature that no other task produces) and of the outputs of other  *)
(* tasks that it reads.  Content[t] is the set of states the outputs of t  *)
(* can be in: everything Build can make of them, Partial for what an       *)
(* interrupted executor leaves behind although every output path exists,   *)
(* and Absent when an output path does not exist.                          *)
(***************************************************************************)
EXTENDS Naturals

CONSTANTS
  Task,          \* the tasks of the plan
  Cached,        \* those with cache_policy "inputs"; the others are "never"
  Version,       \* states of a task's own inputs
  Content,       \* Content[t]: states of the outputs of t
  Reads,         \* Reads[t]: tasks whose outputs the executor of t reads
  Hashed,        \* Hashed[t]: tasks whose outputs are among the inputs of t
  Build(_,_,_),  \* Build(t, version, outputs read): what t's executor makes
  Absent, Partial, None, Torn

\* Outputs of a set of tasks, as the executor or the signature sees them.
OutputsOf(U) ==
  {f \in [U -> UNION {Content[u] : u \in U}] : \A u \in U : f[u] \in Content[u]}

\* A signature holds the task's own inputs and the outputs hashed with them.
Signatures(t) == [own : Version, ups : OutputsOf(Hashed[t])]

ASSUME CacheAssumption ==
  /\ Cached \subseteq Task
  /\ Reads \in [Task -> SUBSET Task]
  /\ Hashed \in [Task -> SUBSET Task]
  /\ \A t \in Task : {Absent, Partial} \subseteq Content[t]
  /\ Absent # Partial

\* An executor that succeeds leaves its outputs in place (scheduler.py checks).
ASSUME BuildAssumption ==
  \A t \in Task, v \in Version : \A ups \in OutputsOf(Reads[t]) :
    Build(t, v, ups) \in Content[t] \ {Absent}

\* None: no stamp file; Torn: a stamp file that is not complete JSON.
ASSUME StampAssumption ==
  \A t \in Task : None \notin Signatures(t) /\ Torn \notin Signatures(t)

VARIABLES src,    \* version of the own inputs of every task
          out,    \* state of the outputs of every task
          stamp   \* stamp file of every task

Stamps ==
  LET any == {None, Torn} \cup UNION {Signatures(t) : t \in Task}
  IN  {f \in [Task -> any] : \A t \in Task : f[t] \in Signatures(t) \cup {None, Torn}}

CacheTypeOK ==
  /\ src \in [Task -> Version]
  /\ out \in OutputsOf(Task)
  /\ stamp \in Stamps

Seen(U) == [u \in U |-> out[u]]

\* Faults the properties are measured against; not part of the specification.
SignatureOfOwnFiles(t) == [own |-> src[t], ups |-> [u \in Hashed[t] |-> Absent]]
IsHitWithoutOutputs(t) == t \in Cached /\ stamp[t] = [own |-> src[t], ups |-> Seen(Hashed[t])]
NothingStamped(t) == stamp

\* Cache.signature: computed from the file system at the moment of the call.
Signature(t) == [own |-> src[t], ups |-> Seen(Hashed[t])]

\* Cache.is_hit: an unreadable stamp is a miss; the content of the outputs is
\* not looked at.
IsHit(t) ==
  /\ t \in Cached
  /\ stamp[t] = Signature(t)
  /\ out[t] # Absent

\* Cache.write: the stamp file after the call.
Stamped(t) == IF t \in Cached THEN [stamp EXCEPT ![t] = Signature(t)] ELSE stamp

\* The outputs of t are what its executor would make of the inputs now present.
Fresh(t) == out[t] = Build(t, src[t], Seen(Reads[t]))

\* Tasks whose signature covers all they read.
Sealed == {t \in Task : Reads[t] \subseteq Hashed[t]}
=============================================================================
