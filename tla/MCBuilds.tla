------------------------------- MODULE MCBuilds -------------------------------
(***************************************************************************)
(* A source task without cache policy, a library built from it, and an     *)
(* application built from that.  Outputs are the versions they were made   *)
(* from.  For TaskGraph, three tasks, and one id more than tasks, for      *)
(* dependencies on what is not there.  Each has a specification in which   *)
(* the other stays where it starts.                                        *)
(***************************************************************************)
EXTENDS Builds, TLC

CONSTANTS source, lib, app, v1

MCTask == {source, lib, app}
MCReads == (source :> {}) @@ (lib :> {source}) @@ (app :> {lib})
MCTarget == {<<source, lib, app>>}

MCBuild(t, v, ups) == <<v, ups>>

\* Everything the executors can leave, given what those before them can.
Made(t, upstream) ==
  {<<v, f>> : v \in Version,
              f \in {g \in [Reads[t] -> UNION {upstream[u] : u \in Reads[t]}] :
                       \A u \in Reads[t] : g[u] \in upstream[u]}}
any == {Absent, Partial}
MCContent ==
  LET s == source :> any \cup Made(source, <<>>)
      l == s @@ (lib :> any \cup Made(lib, s))
  IN  l @@ (app :> any \cup Made(app, l))

\* Versions of one task's input are interchangeable, so it does not matter
\* which one is there at first.
MCInit == Init /\ Graph!Init /\ src = [t \in Task |-> v1]

graphVars == <<name, deps, indegree, ready, result, outcome>>

MCSpec ==
  /\ MCInit
  /\ [][Next /\ UNCHANGED graphVars]_<<vars, graphVars>>
  /\ WF_vars(SchedulerStep)

\* No task to build, then.
Nothing == <<>>
NoTarget == {<<>>}

GraphInit == Init /\ Graph!Init

GraphSpec ==
  /\ GraphInit
  /\ [][Graph!Next /\ UNCHANGED vars]_<<vars, graphVars>>
  /\ WF_graphVars(Graph!Next)
=============================================================================
