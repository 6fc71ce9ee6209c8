------------------------------ MODULE Menuconfig ------------------------------
(***************************************************************************)
(* The configuration of a machine lives in two files: the board's          *)
(* defconfig and the workspace configuration build/.config, which all      *)
(* machines share and which counts only for the machine it names.          *)
(* `menuconfig` (menuconfig.py: run_menuconfig) and `configure package:X`  *)
(* of a package with a Kconfig of its own (run_package_menuconfig) read    *)
(* both, let the user choose, and write both; `build` (config.py) reads    *)
(* them.  Several commands may run at once, and each may be killed or fail *)
(* in the middle of a write.                                               *)
(*                                                                         *)
(* A configuration is a function from some of the keys to values.          *)
(* ROOTFS_IMAGE_SIZE_MB stands for the size and its mode, ARCH and BSP     *)
(* come with MACHINE, TOOLCHAIN with TOOLCHAIN_VERSION.                    *)
(***************************************************************************)
EXTENDS Naturals

CONSTANTS
  Machines,         \* the boards
  Toolchains,       \* [Machines -> SUBSET STRING]: the choices of a board
  FirstToolchain,   \* [Machines -> STRING]: the Kconfig default of a board
  DefaultMachine,   \* the Kconfig default of the machine
  Packages,         \* the packages, named by their selection symbols
  Option,           \* [Natives -> STRING]: a symbol in a native Kconfig
  Profiles,         \* [profile -> SUBSET Packages] of the full rootfs
  DefaultProfile,   \* rootfs.yaml: default_profile
  Boards,           \* [Machines -> configuration]: the defconfigs at first
  Line,             \* [keys -> Nat]: the order of the lines in a file
  Sessions,         \* commands at work
  MaxMenus,         \* how many commands there are
  MaxChoices,       \* how many choices one makes, among those at work
  MaxKills          \* how many of them are killed, or fail in a write

Nothing == ""          \* the value of a key that is not there
Natives == DOMAIN Option
Rootfses == {"none", "basic", "minimal", "full"}
PackageKeys == Packages \cup {Option[p] : p \in Natives}
MenuKeys ==
  {"MACHINE", "TOOLCHAIN", "TOOLCHAIN_PATH", "ROOTFS", "ROOTFS_BUILD_MODE",
   "ROOTFS_PROFILE", "ROOTFS_IMAGE_FORMAT", "ROOTFS_IMAGE_SIZE_MB",
   "ROOTFS_PACKAGE_MODE"}
OwnedKeys == MenuKeys \cup PackageKeys

ASSUME MenuconfigAssumption ==
  /\ DefaultMachine \in Machines /\ Nothing \notin Machines
  /\ Natives \subseteq Packages
  /\ PackageKeys \cap (MenuKeys \cup {"CHOICES"}) = {}
  /\ \A p \in Natives : Option[p] \notin Packages
  /\ \A m \in Machines : FirstToolchain[m] \in Toolchains[m]
  /\ DefaultProfile \in DOMAIN Profiles
  /\ MaxMenus \in Nat /\ MaxChoices \in Nat /\ MaxKills \in Nat

VARIABLES
  defconfig,   \* [Machines -> configuration]: boards/<machine>/defconfig
  workspace,   \* build/.config; a missing or a cut file is empty
  mixed,       \* history: it has values of two commands' texts
  session,     \* [Sessions -> the command's own state]
  menus,       \* commands started
  kills,       \* commands killed or failed
  chosen       \* history: [Machines -> what was last saved, or Unknown]

vars == <<defconfig, workspace, mixed, session, menus, kills, chosen>>

Empty == <<>>
Idle == [pc |-> "idle"]
Unknown == [forgotten |-> TRUE]

\* A file with a line that cannot be read, whatever its other lines say.
Unreadable == [key \in {"UNREADABLE"} |-> "y"]

-----------------------------------------------------------------------------
(* What a build reads                                                       *)

Get(values, key, default) ==
  IF key \in DOMAIN values THEN values[key] ELSE default

Without(values, keys) == [key \in DOMAIN values \ keys |-> values[key]]

Over(f, g) == [key \in DOMAIN f \cup DOMAIN g |-> IF key \in DOMAIN f THEN f[key] ELSE g[key]]

\* Mutant: the workspace configuration counts for every machine.
InitialValuesOfAny(m) == Over(workspace, defconfig[m])

\* config.py: load_machine_config; menuconfig.py: _initial_values.
InitialValues(m) ==
  IF Get(workspace, "MACHINE", Nothing) = m
    THEN Over(workspace, defconfig[m])
    ELSE defconfig[m]

\* config.py: _rootfs_build_mode.
BuildMode(values) ==
  Get(values, "ROOTFS_BUILD_MODE",
      IF Get(values, "ROOTFS", Nothing) = "full" THEN "mixed"
      ELSE Get(values, "ROOTFS_PROFILE", "mixed"))

\* config.py: _rootfs_package_mode.
PackageMode(values) ==
  Get(values, "ROOTFS_PACKAGE_MODE",
      IF DOMAIN values \cap Packages # {} THEN "manual" ELSE "profile")

\* The symbols below a package's own count while the package is selected.
VisibleKeys(values) ==
  Packages \cup {Option[p] : p \in {q \in Natives : Get(values, q, "n") = "y"}}

\* config.py: _explicit_packages, or the packages of the profile.
SelectedPackages(values) ==
  IF PackageMode(values) = "manual"
    THEN {key \in VisibleKeys(values) : Get(values, key, "n") = "y"}
    ELSE Profiles[Get(values, "ROOTFS_PROFILE", DefaultProfile)]

\* config.py: _rootfs_image_config.
ImageFits(values) ==
  Get(values, "ROOTFS_IMAGE_FORMAT", "ext4") = "romfs"
    => "ROOTFS_IMAGE_SIZE_MB" \notin DOMAIN values

ImageOf(values) ==
  IF Get(values, "ROOTFS_IMAGE_FORMAT", "ext4") = "romfs"
    THEN <<"romfs", Nothing>>
    ELSE <<Get(values, "ROOTFS_IMAGE_FORMAT", "ext4"),
           Get(values, "ROOTFS_IMAGE_SIZE_MB", "16")>>

\* What is built from these values: config.py: resolve_rootfs_selection, and
\* the toolchain of toolchain.py: resolve_toolchain_selection.
BuiltFrom(m, values) ==
  LET rootfs    == Get(values, "ROOTFS", "minimal")
      toolchain == Get(values, "TOOLCHAIN", FirstToolchain[m])
      path      == Get(values, "TOOLCHAIN_PATH", Nothing)
  IN IF rootfs = "none"
       THEN [toolchain |-> toolchain, path |-> path, rootfs |-> rootfs]
     ELSE IF ~ImageFits(values) THEN [refused |-> rootfs]
     ELSE [toolchain |-> toolchain, path |-> path, rootfs |-> rootfs,
           image |-> ImageOf(values),
           mode |-> IF rootfs = "basic" THEN "static" ELSE BuildMode(values),
           packages |-> IF rootfs = "full" THEN SelectedPackages(values) ELSE {}]

\* Every command that reads an unreadable file ends there.
Refused(m) == Unreadable \in {workspace, defconfig[m]}

Built(m) == IF Refused(m) THEN [refused |-> "line"] ELSE BuiltFrom(m, InitialValues(m))

\* What a configuration says in full: its machine, a toolchain of it, a rootfs
\* whose image can be made and, for the full one, that packages are chosen one by
\* one.  A menu saves no other, and the defconfigs in boards/ are such.
Legible(m, values) ==
  /\ {"MACHINE", "TOOLCHAIN", "ROOTFS"} \subseteq DOMAIN values
  /\ values["MACHINE"] = m /\ values["TOOLCHAIN"] \in Toolchains[m]
  /\ values["ROOTFS"] \in Rootfses
  /\ values["ROOTFS"] # "none" => ImageFits(values)
  /\ values["ROOTFS"] = "full" => Get(values, "ROOTFS_PACKAGE_MODE", Nothing) = "manual"

ASSUME BoardsAssumption ==
  Boards = [m \in Machines |-> Boards[m]] /\ \A m \in Machines : Legible(m, Boards[m])

-----------------------------------------------------------------------------
(* What a write leaves in a file                                            *)

Part(text, keys) == [key \in keys |-> text[key]]
Before(text, line) == Part(text, {key \in DOMAIN text : Line[key] < Line[line]})
After(text, line) == Part(text, {key \in DOMAIN text : Line[key] > Line[line]})

\* Path.write_text cuts the file when it opens it, and writes from its start when
\* all is said.  What another command wrote in between stays behind a shorter text,
\* and the line that is left in part may be one without a "=".
Overlaid(text, file) ==
  IF file = Empty THEN {text}
  ELSE {text, Unreadable} \cup {Over(After(file, line), text) : line \in DOMAIN file}

\* The file system takes a part of the text only.
Torn(text, file) ==
  {Unreadable} \cup UNION {Overlaid(Before(text, line), file) : line \in DOMAIN text}

-----------------------------------------------------------------------------
(* The menu in memory                                                       *)

\* _load_values: the choices of the menu that the values select.  A choice of
\* the image is one of the rootfs's own; the other kinds keep their defaults.
Load(values) ==
  LET machine == IF Get(values, "MACHINE", Nothing) \in Machines THEN values["MACHINE"]
                 ELSE DefaultMachine
      rootfs  == IF Get(values, "ROOTFS", Nothing) \in Rootfses THEN values["ROOTFS"]
                 ELSE "minimal"
      Local(key, default) ==
        [r \in Rootfses |-> IF r = rootfs THEN Get(values, key, default)
                            ELSE default]
  IN [machine |-> machine,
      toolchain |-> [m \in Machines |->
          IF m = machine /\ Get(values, "TOOLCHAIN", Nothing) \in Toolchains[m]
            THEN Get(values, "TOOLCHAIN", Nothing) ELSE FirstToolchain[m]],
      path |-> Get(values, "TOOLCHAIN_PATH", Nothing),
      rootfs |-> rootfs,
      mode |-> [r \in Rootfses |->
          IF r = "basic" THEN "static"
          ELSE IF r # rootfs THEN "mixed"
          ELSE Get(values, "ROOTFS_BUILD_MODE",
                   IF r = "minimal" THEN Get(values, "ROOTFS_PROFILE", "mixed")
                   ELSE "mixed")],
      format |-> Local("ROOTFS_IMAGE_FORMAT", "ext4"),
      size |-> Local("ROOTFS_IMAGE_SIZE_MB", "16"),
      profile |-> Get(values, "ROOTFS_PROFILE", "base"),
      packages |-> {key \in PackageKeys : Get(values, key, "n") = "y"}]

\* The symbols of a package that is not selected are not visible.
Visible(k) == Packages \cup {Option[p] : p \in Natives \cap k.packages}

\* What the menu shows, in the words of BuiltFrom.
Shown(k) ==
  IF k.rootfs = "none"
    THEN [toolchain |-> k.toolchain[k.machine], path |-> k.path, rootfs |-> k.rootfs]
    ELSE [toolchain |-> k.toolchain[k.machine], path |-> k.path, rootfs |-> k.rootfs,
          image |-> IF k.format[k.rootfs] = "romfs" THEN <<"romfs", Nothing>>
                    ELSE <<k.format[k.rootfs], k.size[k.rootfs]>>,
          mode |-> k.mode[k.rootfs],
          packages |-> IF k.rootfs = "full" THEN k.packages \cap Visible(k) ELSE {}]

\* What the keys say, those of packages "y" or "n".
Setting(k, key) ==
  IF key \in PackageKeys THEN IF key \in k.packages THEN "y" ELSE "n"
  ELSE [MACHINE |-> k.machine, TOOLCHAIN |-> k.toolchain[k.machine],
        TOOLCHAIN_PATH |-> k.path, ROOTFS |-> k.rootfs,
        ROOTFS_BUILD_MODE |-> k.mode[k.rootfs], ROOTFS_PROFILE |-> k.profile,
        ROOTFS_IMAGE_FORMAT |-> k.format[k.rootfs],
        ROOTFS_IMAGE_SIZE_MB |-> k.size[k.rootfs],
        ROOTFS_PACKAGE_MODE |-> "manual"][key]

\* The keys that have something to say.
ConfigKeys(k) ==
  {"MACHINE", "TOOLCHAIN", "ROOTFS"}
    \cup {key \in {"TOOLCHAIN_PATH"} : k.path # Nothing}
    \cup {key \in {"ROOTFS_BUILD_MODE", "ROOTFS_IMAGE_FORMAT"} : k.rootfs # "none"}
    \cup {key \in {"ROOTFS_IMAGE_SIZE_MB"} :
            k.rootfs # "none" /\ k.format[k.rootfs] # "romfs"}
    \cup {key \in {"ROOTFS_PROFILE", "ROOTFS_PACKAGE_MODE"} \cup Visible(k) :
            k.rootfs = "full"}

\* _config_values, with the machine's values of _selected_machine_values.
ConfigValues(k) == [key \in ConfigKeys(k) |-> Setting(k, key)]

\* _write_frontend_config, and what the menu itself writes when it saves: also
\* the empty string, and the symbols of the choices.
FrontendValues(k) ==
  [key \in ConfigKeys(k) \cup {"TOOLCHAIN_PATH", "CHOICES"} |->
     IF key = "CHOICES" THEN "y" ELSE Setting(k, key)]

\* What the menu reads from a file: the choices, and the symbols with a prompt.
LoadFile(file) ==
  IF "CHOICES" \in DOMAIN file THEN Load(file)
  ELSE [Load(Empty) EXCEPT !.path = Load(file).path, !.packages = Load(file).packages]

\* _write_defconfig: the owned keys, without packages that are off.
DefconfigOf(values, owned, packages) ==
  [key \in {key \in DOMAIN values \cap owned :
              ~(key \in packages /\ values[key] = "n")} |-> values[key]]

\* _replace_package_values.
Replaced(values, symbols, new) == Over(new, Without(values, symbols))

-----------------------------------------------------------------------------
Init ==
  /\ defconfig = Boards
  /\ workspace = Empty /\ mixed = FALSE
  /\ session = [s \in Sessions |-> Idle]
  /\ menus = 0
  /\ kills = 0
  /\ chosen = [m \in Machines |-> BuiltFrom(m, Boards[m])]

Busy(s) == session[s].pc # "idle"
Menu(s) == session[s].pc = "menu"

\* Mutant: the defconfig of the machine that the menu was opened for.
TargetOpened(s) == session[s].machine

\* The machine whose configuration the command is about to write.
Target(s) == IF session[s].kind = "menu" THEN session[s].kconf.machine
             ELSE session[s].machine

At(s, pc) == session' = [session EXCEPT ![s].pc = pc]

\* Two commands for one machine at once are not kept apart: each writes what
\* it has read.  A command is sure of what it saves when it was never beside
\* such a one; the menu of a package, when what it started from was sure too.
MachinesOf(state) ==
  IF state.pc = "idle" THEN {}
  ELSE {state.machine} \cup (IF state.kind = "menu" THEN {state.kconf.machine}
                            ELSE {})

Become(s, state) ==
  LET after == [session EXCEPT ![s] = state]
      Apart(t) == \A u \in Sessions \ {t} :
                    MachinesOf(after[t]) \cap MachinesOf(after[u]) = {}
  IN session' = [t \in Sessions |->
       IF after[t].pc = "idle" THEN Idle
       ELSE [after[t] EXCEPT !.sure = @ /\ Apart(t)]]

\* The machine for which a workspace configuration counts.
Named(file) == {Get(file, "MACHINE", Nothing)}

Forget(ms) ==
  chosen' = [m \in Machines |-> IF m \in ms THEN Unknown ELSE chosen[m]]

-----------------------------------------------------------------------------
(* run_menuconfig                                                           *)

\* _initial_values and _load_values, and the workspace file is opened for
\* _write_frontend_config.
OpenMenu(s, m) ==
  /\ ~Busy(s) /\ menus < MaxMenus /\ ~Refused(m)
  /\ menus' = menus + 1
  /\ Become(s, [pc |-> "opening", kind |-> "menu", machine |-> m, edits |-> 0,
                sure |-> TRUE, board |-> Empty,
                kconf |-> Load(InitialValues(m))])
  /\ workspace' = Empty /\ mixed' = FALSE
  /\ UNCHANGED <<defconfig, kills, chosen>>

\* The configuration is there before the menu opens.
WriteFrontend(s) ==
  LET text == FrontendValues(session[s].kconf)
  IN /\ session[s].pc = "opening"
     /\ workspace' \in Overlaid(text, workspace)
     /\ mixed' = (workspace' # text)
     /\ At(s, "starting")
     /\ Forget(IF /\ session[s].sure /\ session[s].kconf.machine = session[s].machine
                  /\ workspace' = text
                THEN {} ELSE MachinesOf(session[s]) \cup Named(workspace'))
     /\ UNCHANGED <<defconfig, menus, kills>>

\* The menu itself reads the file that KCONFIG_CONFIG names, whoever wrote it last,
\* and of an unreadable one the lines it can: those of this command, or none.
StartMenu(s) ==
  /\ session[s].pc = "starting"
  /\ \E file \in IF workspace = Unreadable THEN {FrontendValues(session[s].kconf), Empty}
                 ELSE {workspace} :
       Become(s, [session[s] EXCEPT !.pc = "menu", !.kconf = LoadFile(file)])
  /\ UNCHANGED <<defconfig, workspace, mixed, menus, kills, chosen>>

\* The user picks a value in the menu.
Choices(k) ==
  {[k EXCEPT !.machine = m] : m \in Machines}
    \cup {[k EXCEPT !.toolchain[k.machine] = t] : t \in Toolchains[k.machine]}
    \cup {[k EXCEPT !.path = p] : p \in {Nothing, "/opt"}}
    \cup {[k EXCEPT !.rootfs = r] : r \in Rootfses}
    \cup (IF k.rootfs = "none" THEN {}
          ELSE {[k EXCEPT !.format[k.rootfs] = f] : f \in {"ext4", "romfs"}})
    \cup (IF k.rootfs \in {"none", "basic"} THEN {}
          ELSE {[k EXCEPT !.mode[k.rootfs] = b] : b \in {"static", "mixed"}})
    \cup (IF k.rootfs # "full" THEN {}
          ELSE {[k EXCEPT !.packages = @ \cup {p}] : p \in Visible(k)}
                 \cup {[k EXCEPT !.packages = @ \ {p}] : p \in Visible(k)})

MayChoose == \A t \in Sessions : Busy(t) => session[t].edits < MaxChoices

Edit(s, k) ==
  /\ session[s].kconf # k /\ MayChoose
  /\ Become(s, [session[s] EXCEPT !.kconf = k, !.edits = @ + 1])
  /\ UNCHANGED <<defconfig, workspace, mixed, menus, kills, chosen>>

Choose(s) ==
  /\ Menu(s) /\ session[s].kind = "menu"
  /\ \E k \in Choices(session[s].kconf) : Edit(s, k)

\* The profile is a choice too, but the mode of the packages stays "manual".
ChooseProfile(s) ==
  /\ Menu(s) /\ session[s].kind = "menu" /\ session[s].kconf.rootfs = "full"
  /\ \E profile \in DOMAIN Profiles :
       Edit(s, [session[s].kconf EXCEPT !.profile = profile])

\* The menu's own "save" writes that file too, when it differs.
OpenSave(s) ==
  /\ Menu(s) /\ session[s].kind = "menu"
  /\ workspace # FrontendValues(session[s].kconf)
  /\ workspace' = Empty /\ mixed' = FALSE
  /\ At(s, "saving")
  /\ Forget({Target(s)})
  /\ UNCHANGED <<defconfig, menus, kills>>

SaveInMenu(s) ==
  LET text == FrontendValues(session[s].kconf)
  IN /\ session[s].pc = "saving"
     /\ workspace' \in Overlaid(text, workspace)
     /\ mixed' = (workspace' # text)
     /\ At(s, "menu")
     /\ Forget({Target(s)} \cup Named(workspace'))
     /\ UNCHANGED <<defconfig, menus, kills>>

-----------------------------------------------------------------------------
(* run_package_menuconfig                                                   *)

\* The symbols below the package's own: native_package_configuration_symbols.
Symbols(p) == {p, Option[p]}

\* The menu of package p: its own file, and the package is always selected.
OpenPackage(s, m, p) ==
  /\ ~Busy(s) /\ menus < MaxMenus /\ ~Refused(m)
  /\ menus' = menus + 1
  /\ Become(s, [pc |-> "menu", kind |-> "package", machine |-> m, edits |-> 0,
                sure |-> chosen[m] # Unknown, board |-> Empty, package |-> p,
                initial |-> InitialValues(m), mixed |-> mixed /\ m \in Named(workspace),
                option |-> Get(InitialValues(m), Option[p], "n")])
  /\ UNCHANGED <<defconfig, workspace, mixed, kills, chosen>>

ChooseOption(s) ==
  /\ Menu(s) /\ session[s].kind = "package" /\ MayChoose
  /\ session' = [session EXCEPT ![s].edits = @ + 1,
                   ![s].option = IF @ = "y" THEN "n" ELSE "y"]
  /\ UNCHANGED <<defconfig, workspace, mixed, menus, kills, chosen>>

\* _package_config_values after _enable_package_symbol.
NativeValues(s) ==
  LET p == session[s].package
  IN [key \in {p} \cup (IF session[s].option = "n" THEN {} ELSE {Option[p]}) |-> "y"]

-----------------------------------------------------------------------------
(* Both commands write the defconfig, then the workspace configuration.      *)
(* Each write cuts the file first, and fills it later.                      *)

NewDefconfig(s) ==
  IF session[s].kind = "menu"
    THEN DefconfigOf(ConfigValues(session[s].kconf), OwnedKeys, PackageKeys)
    ELSE LET values == Replaced(session[s].board, Symbols(session[s].package),
                                NativeValues(s))
         IN DefconfigOf(values, DOMAIN values, Symbols(session[s].package))

NewWorkspace(s) ==
  IF session[s].kind = "menu"
    THEN ConfigValues(session[s].kconf)
    ELSE Replaced(session[s].initial, Symbols(session[s].package),
                  NativeValues(s))

\* The menu of a package reads the defconfig again, and cannot go on without it.
Stuck(s) == session[s].kind = "package" /\ defconfig[Target(s)] = Unreadable

GiveUp(s) ==
  /\ Menu(s) /\ Stuck(s)
  /\ session' = [session EXCEPT ![s] = Idle]
  /\ UNCHANGED <<defconfig, workspace, mixed, menus, kills, chosen>>

\* The menu is left, with or without saving: the values in memory count.
CutDefconfig(s) ==
  /\ Menu(s) /\ ~Stuck(s)
  /\ session' = [session EXCEPT ![s].pc = "defconfig",
                   ![s].board = IF session[s].kind = "menu" THEN Empty
                                ELSE defconfig[Target(s)]]
  /\ defconfig' = [defconfig EXCEPT ![Target(s)] = Empty]
  /\ Forget({Target(s)})
  /\ UNCHANGED <<workspace, mixed, menus, kills>>

FillDefconfig(s) ==
  /\ session[s].pc = "defconfig"
  /\ \E text \in Overlaid(NewDefconfig(s), defconfig[Target(s)]) :
       defconfig' = [defconfig EXCEPT ![Target(s)] = text]
  /\ At(s, "written")
  /\ UNCHANGED <<workspace, mixed, menus, kills, chosen>>

CutWorkspace(s) ==
  /\ session[s].pc = "written"
  /\ workspace' = Empty /\ mixed' = FALSE
  /\ At(s, "workspace")
  /\ UNCHANGED <<defconfig, menus, kills, chosen>>

\* What the command has saved: for the menu what it showed, for a package
\* what was built before with the package's symbols replaced.
Saved(s) ==
  IF session[s].kind = "menu" THEN Shown(session[s].kconf)
  ELSE BuiltFrom(session[s].machine, NewWorkspace(s))

\* What it started from was such a mixture.
ReadMixed(s) == session[s].kind = "package" /\ session[s].mixed

FillWorkspace(s) ==
  LET text == NewWorkspace(s)
  IN /\ session[s].pc = "workspace"
     /\ workspace' \in Overlaid(text, workspace)
     /\ mixed' = (workspace' # text \/ ReadMixed(s))
     /\ session' = [session EXCEPT ![s] = Idle]
     /\ IF session[s].sure /\ workspace' = text
          THEN chosen' = [chosen EXCEPT ![Target(s)] = Saved(s)]
          ELSE Forget({Target(s)} \cup Named(workspace'))
     /\ UNCHANGED <<defconfig, menus, kills>>

\* A command is killed: what is written stays.
Kill(s) ==
  /\ Busy(s) /\ kills < MaxKills
  /\ kills' = kills + 1
  /\ session' = [session EXCEPT ![s] = Idle]
  /\ UNCHANGED <<defconfig, workspace, mixed, menus, chosen>>

\* A write fails, and the command with it: a part of its text may be there.
DefconfigFails(s) ==
  /\ session[s].pc = "defconfig" /\ kills < MaxKills
  /\ kills' = kills + 1
  /\ \E text \in Torn(NewDefconfig(s), defconfig[Target(s)]) :
       defconfig' = [defconfig EXCEPT ![Target(s)] = text]
  /\ session' = [session EXCEPT ![s] = Idle]
  /\ UNCHANGED <<workspace, mixed, menus, chosen>>

WorkspaceFails(s) ==
  LET text == IF session[s].pc = "workspace" THEN NewWorkspace(s)
              ELSE FrontendValues(session[s].kconf)
  IN /\ session[s].pc \in {"opening", "workspace"} /\ kills < MaxKills
     /\ kills' = kills + 1
     /\ workspace' \in Torn(text, workspace)
     /\ mixed' = (workspace # Empty \/ ReadMixed(s))
     /\ session' = [session EXCEPT ![s] = Idle]
     /\ Forget(Named(workspace'))
     /\ UNCHANGED <<defconfig, menus>>

Next ==
  \E s \in Sessions :
    \/ \E m \in Machines : OpenMenu(s, m)
    \/ \E m \in Machines, p \in Natives : OpenPackage(s, m, p)
    \/ WriteFrontend(s)
    \/ StartMenu(s)
    \/ Choose(s)
    \/ ChooseProfile(s)
    \/ OpenSave(s)
    \/ SaveInMenu(s)
    \/ ChooseOption(s)
    \/ GiveUp(s)
    \/ CutDefconfig(s)
    \/ FillDefconfig(s)
    \/ CutWorkspace(s)
    \/ FillWorkspace(s)
    \/ Kill(s)
    \/ DefconfigFails(s)
    \/ WorkspaceFails(s)

Spec == Init /\ [][Next]_vars
-----------------------------------------------------------------------------
TypeOK ==
  /\ \A m \in Machines : DOMAIN defconfig[m] \subseteq OwnedKeys \cup DOMAIN Boards[m] \cup {"UNREADABLE"}
  /\ Get(workspace, "MACHINE", DefaultMachine) \in Machines /\ mixed \in BOOLEAN
  /\ \A s \in Sessions : session[s].pc \in
       {"idle", "opening", "starting", "menu", "saving", "defconfig", "written", "workspace"}
  /\ menus \in 0 .. MaxMenus /\ kills \in 0 .. MaxKills
  /\ DOMAIN chosen = Machines

(* What the last command for a machine saved is what is built for it, and   *)
(* stays so whatever commands for other machines do to the workspace        *)
(* configuration, and however they end.  Only when two texts or a failed    *)
(* write leave a line in it that cannot be read, nothing is built at all.   *)
SavedIsBuilt ==
  \A m \in Machines : chosen[m] # Unknown =>
    Built(m) = chosen[m] \/ workspace = Unreadable

(* Whatever is interrupted or interleaved: the configuration read for a     *)
(* machine is not that of another one, nor is its toolchain (kernel.py      *)
(* refuses a BSP that is not the machine's), unless two commands wrote the  *)
(* workspace configuration that names the machine at once.                  *)
MachineIsWhole ==
  \A m \in Machines :
    /\ Get(InitialValues(m), "MACHINE", m) = m
    /\ \/ Get(InitialValues(m), "TOOLCHAIN", FirstToolchain[m]) \in Toolchains[m]
       \/ mixed /\ m \in Named(workspace)

=============================================================================
