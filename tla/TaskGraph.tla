------------------------------ MODULE TaskGraph ------------------------------
(***************************************************************************)
(* The task graph of a build (smart_build/tasks.py).  TaskGraph.__init__   *)
(* indexes the planner's list of tasks by id and refuses a repeated id;    *)
(* topological_order() counts the unfinished dependencies of every task,   *)
(* refuses a dependency on an id that is not in the graph, and then takes  *)
(* ready tasks one at a time, always the one that stands first in the      *)
(* planner's list, until none is left.  Tasks it could not place are       *)
(* reported as a cycle.                                                    *)
(*                                                                         *)
(* A task is its position in the planner's list (the code's order_index),  *)
(* so the code's list `ready', which it keeps sorted by position, is the   *)
(* set of its members.  deps is a tuple in the code; a repeated            *)
(* dependency is counted and discharged as often as it is repeated, so a   *)
(* set of ids stands for it.                                               *)
(***************************************************************************)
EXTENDS Naturals, Sequences, FiniteSets

CONSTANTS N,      \* the number of tasks the planner produced
          Name    \* the task ids that can occur, in the graph or as dependency
                  \* (a finite set; Builds, which composes this module, assumes it)

VARIABLES name,      \* id of every task of the list
          deps,      \* ids every task depends on
          indegree,  \* dependencies not yet placed, per task
          ready,     \* tasks all of whose dependencies are placed
          result,    \* the order produced so far
          outcome    \* what the construction and the sort ended with

vars == <<name, deps, indegree, ready, result, outcome>>

Entry == 1..N

Errors == {"duplicate", "missing", "cycle"}

TypeOK ==
  /\ name \in [Entry -> Name]
  /\ deps \in [Entry -> SUBSET Name]
  /\ indegree \in [Entry -> Nat]
  /\ ready \in SUBSET Entry
  /\ result \in Seq(Entry)
  /\ outcome \in {"new", "indexed", "sorting", "ordered"} \cup Errors

\* The tasks placed so far, and the ids they provide.
Placed == {result[i] : i \in 1..Len(result)}
PlacedNames == {name[t] : t \in Placed}

\* A set of tasks that all wait for one another: none can ever be placed.
Trapped(S) == \A t \in S : \E q \in S : name[q] \in deps[t]

-----------------------------------------------------------------------------
Init ==
  /\ name \in [Entry -> Name]
  /\ deps \in [Entry -> SUBSET Name]
  /\ indegree = [t \in Entry |-> 0]
  /\ ready = {}
  /\ result = <<>>
  /\ outcome = "new"

\* TaskGraph.__init__: the first repeated id ends the construction.
IndexTasks ==
  /\ outcome = "new"
  /\ outcome' = IF \E s, t \in Entry : s # t /\ name[s] = name[t]
                THEN "duplicate" ELSE "indexed"
  /\ UNCHANGED <<name, deps, indegree, ready, result>>

\* An unknown dependency anywhere refuses the graph before anything is placed.
RejectMissing ==
  /\ outcome = "indexed"
  /\ \E t \in Entry : ~ (deps[t] \subseteq {name[s] : s \in Entry})
  /\ outcome' = "missing"
  /\ UNCHANGED <<name, deps, indegree, ready, result>>

CountDependencies ==
  /\ outcome = "indexed"
  /\ \A t \in Entry : deps[t] \subseteq {name[s] : s \in Entry}
  /\ indegree' = [t \in Entry |-> Cardinality(deps[t])]
  /\ ready' = {t \in Entry : deps[t] = {}}
  /\ outcome' = "sorting"
  /\ UNCHANGED <<name, deps, result>>

\* Faults the properties are measured against; not part of the specification.
Waiting(t) == {c \in Entry : name[t] \in deps[c]}
FaultyPlace(t, counted, degree, released) ==
  /\ outcome = "sorting" /\ t \in ready
  /\ result' = Append(result, t)
  /\ indegree' = [c \in Entry |-> IF c \in counted THEN degree[c] ELSE indegree[c]]
  /\ ready' = (ready \ {t}) \cup released
  /\ UNCHANGED <<name, deps, outcome>>
OneLess == [c \in Entry |-> indegree[c] - 1]
Done(t) == {c \in Waiting(t) : indegree[c] = 1}
PlaceCountingEveryTask(t) == FaultyPlace(t, Entry, OneLess, Done(t))
PlaceReleasingEarly(t) == FaultyPlace(t, Waiting(t), OneLess, Waiting(t))
PlaceLeavingCount(t) == FaultyPlace(t, Waiting(t) \ Done(t), OneLess, Done(t))
FinishWhenAllPlaced ==
  /\ outcome = "sorting" /\ ready = {} /\ Len(result) = N
  /\ outcome' = "ordered"
  /\ UNCHANGED <<name, deps, indegree, ready, result>>

\* One round of the loop: ready.pop(0), then the children it releases.
Place(t) ==
  /\ outcome = "sorting"
  /\ t \in ready
  /\ \A u \in ready : t <= u
  /\ result' = Append(result, t)
  /\ indegree' = [c \in Entry |-> IF name[t] \in deps[c]
                                 THEN indegree[c] - 1 ELSE indegree[c]]
  /\ ready' = (ready \ {t})
                \cup {c \in Entry : name[t] \in deps[c] /\ indegree[c] = 1}
  /\ UNCHANGED <<name, deps, outcome>>

Finish ==
  /\ outcome = "sorting"
  /\ ready = {}
  /\ outcome' = IF Len(result) = N THEN "ordered" ELSE "cycle"
  /\ UNCHANGED <<name, deps, indegree, ready, result>>

Next ==
  \/ IndexTasks
  \/ RejectMissing
  \/ CountDependencies
  \/ \E t \in Entry : Place(t)
  \/ Finish

Spec == Init /\ [][Next]_vars

\* The sort is one call of one thread: it does not stop between two rounds.
FairSpec == Spec /\ WF_vars(Next)

-----------------------------------------------------------------------------
(* What the scheduler relies on (scheduler.py:64).                         *)

\* A task is placed only after every task it depends on, in every prefix of
\* the order: the scheduler executes the list front to back and never looks
\* at deps again.
DependenciesFirst ==
  \A i \in 1..Len(result) : \A q \in Entry :
    name[q] \in deps[result[i]] => \E j \in 1..(i - 1) : result[j] = q

\* An order that is returned runs every task of the plan exactly once.
OrderIsComplete ==
  outcome = "ordered" =>
    /\ Placed = Entry
    /\ \A i, j \in 1..Len(result) : result[i] = result[j] => i = j

\* The order does not depend on how the graph was traversed: at every position
\* stands the earliest task of the planner's list that could stand there, so
\* the same plan is always executed in the same order.
PlannerOrderKept ==
  \A i \in 1..Len(result) : \A u \in Entry :
    (/\ \A j \in 1..(i - 1) : result[j] # u
     /\ \A d \in deps[u] : \E j \in 1..(i - 1) : name[result[j]] = d)
      => result[i] <= u

\* The cycle error is raised exactly for the graphs that have one, and the
\* tasks it names (those with a positive indegree) are all the tasks that lie
\* on or behind a cycle, no more.
CycleReportIsExact ==
  /\ outcome = "ordered" => \A S \in SUBSET Entry : Trapped(S) => S = {}
  /\ outcome = "cycle" =>
       LET blocked == {t \in Entry : indegree[t] > 0}
       IN  /\ blocked # {}
           /\ Trapped(blocked)
           /\ \A S \in SUBSET Entry : Trapped(S) => S \subseteq blocked

\* The construction and the sort always come to an end.
SortEnds == <>(outcome \in {"ordered"} \cup Errors)
=============================================================================
