--------------------------- MODULE MCConfiguration ---------------------------
(* Three ways to change what is built: the menus of Menuconfig, the          *)
(* configuration in a package's source of PackageSource, and the packages    *)
(* that BuildrootImport adds.  They write different files and share no       *)
(* state: each behaviour moves one of them, part, and leaves the others      *)
(* where they started.                                                       *)
EXTENDS Configuration, Sequences, Functions, TLC

VARIABLE part

sourceVars == <<declared, version, saved, tree, side, command, sessions, sourceEdits,
                sourceKills, disturbed, choice>>
importVars == <<packages, registry, index, never, selected, job, imports, importEdits,
                importKills, removed>>

-----------------------------------------------------------------------------
\* Two boards: one with two toolchains and a full rootfs of chosen packages,
\* one, the Kconfig default, with a static BusyBox rootfs.  One package has a
\* Kconfig of its own.
MCMachines == {"vexpress", "virt"}
MCToolchains == ("vexpress" :> {"7.3", "12.2"}) @@ ("virt" :> {"12"})
MCFirstToolchain == ("vexpress" :> "7.3") @@ ("virt" :> "12")
MCPackages == {"hello", "webnet"}
MCOption == "webnet" :> "webnet_tls"
MCProfiles == ("base" :> {"hello"}) @@ ("full" :> {"hello", "webnet"})

Virt ==
  ("MACHINE" :> "virt") @@ ("TOOLCHAIN" :> "12") @@ ("ROOTFS" :> "basic")
    @@ ("ROOTFS_BUILD_MODE" :> "static") @@ ("ROOTFS_IMAGE_FORMAT" :> "ext4")
    @@ ("ROOTFS_IMAGE_SIZE_MB" :> "16")

\* The last key is the package resolver's and not one of the menu's own.
Vexpress ==
  ("MACHINE" :> "vexpress") @@ ("TOOLCHAIN" :> "12.2") @@ ("ROOTFS" :> "full")
    @@ ("ROOTFS_BUILD_MODE" :> "static") @@ ("ROOTFS_PROFILE" :> "base")
    @@ ("ROOTFS_PACKAGE_MODE" :> "manual") @@ ("ROOTFS_IMAGE_FORMAT" :> "ext4")
    @@ ("ROOTFS_IMAGE_SIZE_MB" :> "64") @@ ("hello" :> "y")
    @@ ("PACKAGE_HELLO_REQUIRE_VERSION" :> "1")

MCBoards == ("virt" :> Virt) @@ ("vexpress" :> Vexpress)

\* The order of BASE_OWNED_KEYS and of write_workspace_config, a few lines at a time.
LinesInOrder ==
  <<{"MACHINE", "CHOICES", "UNREADABLE"},
    {"ROOTFS", "ROOTFS_BUILD_MODE", "ROOTFS_PROFILE", "ROOTFS_IMAGE_FORMAT",
     "ROOTFS_IMAGE_SIZE_MB", "ROOTFS_PACKAGE_MODE"},
    {"TOOLCHAIN"},
    {"hello", "PACKAGE_HELLO_REQUIRE_VERSION", "webnet", "webnet_tls"},
    {"TOOLCHAIN_PATH"}>>
MCLine ==
  [key \in UNION Range(LinesInOrder) |->
     CHOOSE i \in DOMAIN LinesInOrder : key \in LinesInOrder[i]]

AnySession == Permutations(Sessions)

-----------------------------------------------------------------------------
\* A package with two patches and two configuration files, one of which comes
\* with the source and is changed by a patch.  The second revision needs a
\* second edition of one patch.
Revision == {"r1", "r2"}
FitsAt ==
  {[name |-> "port", version |-> v, revision |-> r] : v \in 1..3, r \in Revision}
    \cup {[name |-> "fix", version |-> 1, revision |-> "r1"],
          [name |-> "fix", version |-> 2, revision |-> "r2"]}
Plain(n) == [is |-> "regular", of |-> n]

Synced ==
  <<[source |-> ".config", destination |-> "config"],
    [source |-> "user.mk", destination |-> "user.mk"]>>
ShippedFiles == (".config" :> [is |-> "absent", of |-> 0]) @@ ("user.mk" :> Plain(0))
TouchedFiles == ("fix" :> {}) @@ ("port" :> {"user.mk"})

\* Source has both machines side by side, with two menus and no kill.  Here there
\* is one, with a kill and, of two edits and two menus, three.
MCPatches == <<"fix", "port">>
MCKinds == {"archive", "git", "directory"}

Alone == INSTANCE PackageSource WITH
  Revisions <- Revision, MaxEdits <- 2, MaxKills <- 1,
  edits <- sourceEdits, kills <- sourceKills

-----------------------------------------------------------------------------
\* A package found from two symbols, an option's first; a package that needs
\* others, one of them named with an underscore and later in the order; a package
\* of the user's whose symbol nothing is found for; a package without an archive;
\* and one whose address is not resolved.  An earlier import wrote the first.
ImportNames == {"botan-arch", "botan", "amp", "curl", "lib-x", "lib_x", "wget", "bad"}
ImportNameOf ==
  ("BOTAN_ARCH" :> "botan-arch") @@ ("BOTAN" :> "botan") @@ ("AMP" :> "amp")
    @@ ("CURL" :> "curl") @@ ("LIB_X" :> "lib-x") @@ ("WGET" :> "wget")
    @@ ("BAD" :> "bad")
ImportToken ==
  [p \in ImportNames |-> CHOOSE s \in DOMAIN ImportNameOf :
     ImportNameOf[s] = p \/ (p = "lib_x" /\ s = "LIB_X")]
ImportUnderscored == [p \in ImportNames |-> IF p = "lib-x" THEN "lib_x" ELSE p]
ImportFound ==
  ("BOTAN_ARCH" :> "botan") @@ ("LIB_X" :> "lib_x") @@ ("CURL" :> "unfound") @@ ImportNameOf
ImportDepends ==
  [p \in ImportNames |-> IF p = "amp" THEN {"botan", "curl", "lib_x", "wget"}
                         ELSE IF p = "botan" THEN {"amp"} ELSE {}]

EarlierImport == "botan" :> "BOTAN"
ImportOrder == <<"BOTAN_ARCH", "BOTAN", "AMP", "CURL", "LIB_X", "WGET", "BAD">>

-----------------------------------------------------------------------------
ASSUME AloneAssumption == Alone!PackageSourceAssumption

MCInit ==
  /\ part \in {"menu", "source", "alone", "import"}
  /\ Init /\ Import!Init
  /\ IF part = "alone" THEN Alone!Init ELSE Source!Init
  /\ part \in {"menu", "import"} => declared = [kind |-> "archive", revision |-> "r1"]
  \* Every import has these to do; a menu between two of them drops some.
  /\ IF part = "import" THEN {"AMP", "CURL", "LIB_X", "WGET", "BAD"} \subseteq selected ELSE selected = {}

\* A bound: after a kill or a failed write nobody chooses anything more, and saves
\* what he finds.
Steady ==
  \A s \in Sessions :
    kills > 0 => (Busy(s) => (session'[s].pc # "idle" => session'[s].edits <= session[s].edits))

MCNext ==
  \/ part = "menu" /\ Next /\ Steady /\ UNCHANGED <<part, sourceVars, importVars>>
  \/ part = "source" /\ Source!Next /\ UNCHANGED <<part, vars, importVars>>
  \/ /\ part = "alone" /\ Alone!Next /\ command'["vexpress"] = command["vexpress"]
     /\ sessions' + sourceEdits' <= 3
     /\ UNCHANGED <<part, vars, importVars>>
  \/ part = "import" /\ Import!Next /\ UNCHANGED <<part, vars, sourceVars>>

MCSpec == MCInit /\ [][MCNext]_<<part, vars, sourceVars, importVars>>
=============================================================================
