-------------------------------- MODULE Builds --------------------------------
(***************************************************************************)
(* What _run_build does with the tasks of a plan: TaskGraph brings them    *)
(* into an order, and Scheduler executes the orders it assumes to get.     *)
(* The two share no state.                                                 *)
(***************************************************************************)
EXTENDS Scheduler, FiniteSets

CONSTANTS N, Name

VARIABLES name, deps, indegree, ready, result, outcome

Graph == INSTANCE TaskGraph

ASSUME GraphConstants == N \in Nat /\ IsFiniteSet(Name)

(* Indegrees never go below zero, and orders are of the tasks there are.   *)
GraphTypeOK == Graph!TypeOK

(* The order has each task once and after all it depends on, in every       *)
(* prefix; where dependencies leave a choice it is the planner's.           *)
OrderIsRight ==
  Graph!DependenciesFirst /\ Graph!OrderIsComplete /\ Graph!PlannerOrderKept

(* A cycle is reported if and only if there is one, with the blocked tasks. *)
CycleReportIsExact == Graph!CycleReportIsExact

(* The construction and the sort come to an end.                           *)
SortEnds == Graph!SortEnds
=============================================================================
