-------------------------- MODULE MCPackageResolver --------------------------
(* Three packages, the last of them native and available in one version.   *)
EXTENDS PackageResolver

CONSTANTS v1, v2

MCSupported == [p \in Pkg |-> IF p = N THEN {v1} ELSE {v1, v2}]
MCDefault == [p \in Pkg |-> v1]

\* One package, or two of which one goes by a capability.
MCRequests == {{1}, {2} \cup Capability}
=============================================================================
