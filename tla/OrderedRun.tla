------------------------------ MODULE OrderedRun ------------------------------
(***************************************************************************)
(* What a build promises about the order of its tasks, whatever the cache  *)
(* decides: a task of the goal is finished at most once and only after     *)
(* everything it depends on, the build succeeds only with the whole goal   *)
(* finished, and nothing is finished any more once it has failed.          *)
(***************************************************************************)
CONSTANTS Task, Deps

VARIABLES goal,  \* the tasks of the target being built
          done,  \* those finished so far
          run    \* state of the build

vars == <<goal, done, run>>

Init == goal = {} /\ done = {} /\ run = "none"

Begin ==
  /\ run # "running"
  /\ run' = "running"
  /\ done' = {}
  /\ goal' \in SUBSET Task

Complete(t) ==
  /\ run = "running"
  /\ t \in goal \ done
  /\ Deps[t] \subseteq done
  /\ done' = done \cup {t}
  /\ UNCHANGED <<goal, run>>

Succeed ==
  /\ run = "running"
  /\ done = goal
  /\ run' = "ok"
  /\ UNCHANGED <<goal, done>>

Abort ==
  /\ run = "running"
  /\ run' \in {"failed", "crashed"}
  /\ UNCHANGED <<goal, done>>

\* Cleaning the machine forgets how the last build ended.
Forget ==
  /\ run # "running"
  /\ run' = "none"
  /\ UNCHANGED <<goal, done>>

Next == Begin \/ (\E t \in Task : Complete(t)) \/ Succeed \/ Abort \/ Forget

Spec == Init /\ [][Next]_vars
=============================================================================
