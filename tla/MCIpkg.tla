-------------------------------- MODULE MCIpkg --------------------------------
(* IpkgRuntime and IpkgArchive share no state: each behaviour moves one of   *)
(* them, part, and leaves the other where it started.                        *)
(*                                                                           *)
(* Two packages that share the identical file at "common".  Package "one"    *)
(* has an upgrade that drops a file, an upgrade whose file has changed, and  *)
(* an archive that is cut off; "two" meets a file that was there before, and *)
(* an archive of it a link.                                                  *)
EXTENDS Ipkg

VARIABLE part

archiveVars == <<written, file, offset, members, result>>

MCPath == {"common", "own", "etc", "svc"}
MCArchive == {"one1", "one2", "cut", "two", "bad"}
MCName == {"one", "two"}
MCPackageName == [a \in MCArchive |-> IF a \in {"two", "bad"} THEN "two" ELSE "one"]
Put(p, c) == [path |-> p, content |-> c]
MCMembers ==
  [one1 |-> <<Put("common", "c"), Put("own", "v1")>>,
   one2 |-> <<Put("common", "c")>>,
   cut |-> <<Put("common", "c"), Put("own", "v2"), Put("etc", "e")>>,
   bad |-> <<Put("own", "v2"), Put("svc", "s")>>,
   two |-> <<Put("common", "c"), Put("etc", "e")>>]
BaseWithFile == [common |-> "none", own |-> "none", etc |-> "e", svc |-> "link"]

MCSizes == 0..3

MCInit ==
  /\ part \in {"runtime", "archive"}
  /\ Init
  /\ ReadBack!Init
  /\ part = "runtime" => written = [i \in 1..3 |-> 0]

MCNext ==
  \/ part = "runtime" /\ Next /\ UNCHANGED <<part, archiveVars>>
  \/ part = "archive" /\ ReadBack!Next /\ UNCHANGED <<part, vars>>

MCSpec == MCInit /\ [][MCNext]_<<part, vars, archiveVars>>
=============================================================================
