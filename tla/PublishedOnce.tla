---------------------------- MODULE PublishedOnce ----------------------------
(***************************************************************************)
(* What smart-build promises of the things that several builds fetch for   *)
(* each other, the archive of a source (package_sources.py) and the tree   *)
(* of RT-Thread (sources.py): a build puts one into place only where there *)
(* is none, and at once; it is right; it stays; and nobody goes on with    *)
(* anything but what is in place.  It knows no locks, temporary files,     *)
(* attempts or checksums.                                                  *)
(***************************************************************************)
CONSTANTS
  Users,   \* the builds
  Absent,  \* nothing is in place
  Right    \* what may be used

VARIABLES
  object,  \* what is in place
  using    \* the builds that have gone on with it

vars == <<object, using>>

\* What is neither right nor absent is somebody else's, and is left alone.
Init == using = {}

Publish ==
  /\ object = Absent
  /\ object' \in Right
  /\ UNCHANGED using

Use(u) ==
  /\ object \in Right
  /\ using' = using \cup {u}
  /\ UNCHANGED object

\* The clone is renamed and gone on with in one step.
PublishAndUse(u) ==
  /\ object = Absent
  /\ object' \in Right
  /\ using' = using \cup {u}

Leave(u) ==
  /\ using' = using \ {u}
  /\ UNCHANGED object

Next ==
  \/ Publish
  \/ \E u \in Users : Use(u) \/ PublishAndUse(u) \/ Leave(u)

Spec == Init /\ [][Next]_vars
=============================================================================
