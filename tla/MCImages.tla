------------------------------- MODULE MCImages -------------------------------
(* RootfsImage, ImageSize and Busybox meet in the image, of which they look  *)
(* at different things, and share no state: each behaviour moves one of      *)
(* them, part, and leaves the others where they started.                     *)
EXTENDS Images

VARIABLE part

sizeVars == <<machine, kind, mode, configured, files, fileSize, size>>
makeVars == <<archive, config, patches, context, tree, dotConfig, marker, install, prepared,
              built, rootfs, image, makePc, command, read, makeEdits, makeFaults, quiet,
              calm, doubt>>

\* "hello" and "more" share an identical file, "clash" has another content for
\* it; "libc" brings a file that the toolchain has too, "sh" one that BusyBox
\* has; the toolchain replaces a library of BusyBox's.
MCPath == {"lib", "conf", "bin", "sh"}
MCPackage == {"hello", "more", "clash", "libc"}
MCProvides ==
  [hello |-> [bin |-> 1, conf |-> 1], more |-> [conf |-> 1],
   clash |-> [conf |-> 2], libc |-> [lib |-> 1, sh |-> 2]]
MCBaseFiles == [lib |-> 9, sh |-> 1]
MCLibraryFiles == [lib |-> 1]
MCSelections ==
  {[kind |-> "basic", packages |-> <<>>],
   [kind |-> "minimal", packages |-> <<"hello", "libc", "more">>],
   [kind |-> "minimal", packages |-> <<"hello", "clash">>],
   [kind |-> "full", packages |-> <<"more">>],
   [kind |-> "full", packages |-> <<"libc">>]}

RootfsAtRest ==
  /\ selection = [kind |-> "basic", packages |-> <<>>] /\ alias = None
  /\ \A n \in Names : images[n] = Missing
SizeAtRest ==
  /\ machine = "sd" /\ kind = "full" /\ mode = "fixed" /\ configured = 1
  /\ files = 0 /\ fileSize = 1

MCInit ==
  /\ part \in {"rootfs", "size", "make"}
  /\ Init /\ Size!Init /\ Make!Init
  /\ part # "rootfs" => RootfsAtRest
  \* One file of somebody else's at most.
  /\ alias = "foreign" => \A n \in Names : images[n] = Missing
  /\ part # "size" => SizeAtRest
  /\ part # "make" => archive = "none"

MCNext ==
  \/ part = "rootfs" /\ Next /\ UNCHANGED <<part, sizeVars, makeVars>>
  \/ part = "size" /\ Size!Next /\ UNCHANGED <<part, vars, makeVars>>
  \/ part = "make" /\ Make!Next /\ UNCHANGED <<part, vars, sizeVars>>

MCSpec == MCInit /\ [][MCNext]_<<part, vars, sizeVars, makeVars>>
=============================================================================
