------------------------------- MODULE MCStages -------------------------------
(* PackageStage is about the backends that write their commands themselves,  *)
(* SconsPackage about the one that runs RT-Thread's scripts: each behaviour  *)
(* moves one of them, part, and leaves the other where it started.           *)
EXTENDS Stages

VARIABLE part

sconsVars == <<sconsSource, defconfig, workspace, index, proc, copy, marker, sconsStage,
               online, disturbed, sconsEdits, faults>>

\* The kinds that are left out differ from these in a single condition.
SomeKinds == {"library", "executable", "cmake", "pythonLibrary", "amentExecutable"}
\* Version 1 makes both outputs, version 2 the binary only.
SomeMakes == <<{"binary", "archive"}, {"binary"}>>

\* A package of two files, which may be static or dynamic, that needs one
\* online package and may have two more.
AllOnline == {"client", "tls-1", "tls-2"}
Plain == [packages |-> {}, mode |-> "mixed"]
SomeChoices == {Plain, [packages |-> {"tls-1"}, mode |-> "static"],
                [packages |-> {"tls-2"}, mode |-> "dynamic"]}
SomeSupported == <<"dynamic", "static">>
SomeIndexes == {AllOnline, {"client", "tls-1"}, NoIndex}

MCInit ==
  /\ part \in {"stage", "scons"}
  /\ Init
  /\ Scons!Init
  /\ part = "stage" => defconfig = Plain /\ index = AllOnline
  /\ part = "scons" => kind = "library" /\ readelf /\ source = 1

MCNext ==
  \/ part = "stage" /\ Next /\ UNCHANGED <<part, sconsVars>>
  \/ part = "scons" /\ Scons!Next /\ UNCHANGED <<part, vars>>

MCSpec == MCInit /\ [][MCNext]_<<part, vars, sconsVars>>
=============================================================================
