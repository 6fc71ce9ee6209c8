----------------------------- MODULE Configuration_proofs -----------------------------
(***************************************************************************)
(* What is chosen is what is built, for any boards, packages, commands and *)
(* kills: no machine is read with another's name or toolchain; what the    *)
(* last menu saved is what is built; the source of a package is exactly    *)
(* what is declared, with the files that the last session saved; an import *)
(* from Buildroot keeps its promises.                                      *)
(***************************************************************************)
EXTENDS Configuration, Integers, Sequences, TLAPS

-----------------------------------------------------------------------------
(* The configuration of a machine.                                         *)

\* A configuration that may be the machine's: what it says of machine and
\* toolchain is not another's.
OfMachine(m, values) == Get(values, "MACHINE", m) = m

Readable(m, values) ==
  /\ OfMachine(m, values)
  /\ Get(values, "TOOLCHAIN", FirstToolchain[m]) \in Toolchains[m]

FilesReadable ==
  /\ defconfig = [m \in Machines |-> defconfig[m]]
  /\ \A m \in Machines :
       /\ Readable(m, defconfig[m])
       /\ ~ mixed /\ Get(workspace, "MACHINE", Nothing) = m => Readable(m, workspace)

\* What the menu has in memory.
Kconf(k) ==
  /\ k = [machine |-> k.machine, toolchain |-> k.toolchain, path |-> k.path,
          rootfs |-> k.rootfs, mode |-> k.mode, format |-> k.format, size |-> k.size,
          profile |-> k.profile, packages |-> k.packages]
  /\ k.machine \in Machines /\ k.rootfs \in Rootfses /\ k.packages \subseteq PackageKeys
  /\ k.toolchain = [m \in Machines |-> k.toolchain[m]]
  /\ \A m \in Machines : k.toolchain[m] \in Toolchains[m]
  /\ k.mode = [r \in Rootfses |-> k.mode[r]] /\ k.mode["basic"] = "static"
  /\ k.format = [r \in Rootfses |-> k.format[r]] /\ k.size = [r \in Rootfses |-> k.size[r]]

Writing == {"defconfig", "written", "workspace"}

MenuState(state) ==
  /\ state.kind = "menu"
  /\ state = [pc |-> state.pc, kind |-> "menu", machine |-> state.machine,
              edits |-> state.edits, sure |-> state.sure, board |-> state.board,
              kconf |-> state.kconf]
  /\ state.pc \in {"opening", "starting", "menu", "saving"} \cup Writing
  /\ state.machine \in Machines /\ state.sure \in BOOLEAN /\ Kconf(state.kconf)

PackageState(state) ==
  /\ state.kind = "package"
  /\ state = [pc |-> state.pc, kind |-> "package", machine |-> state.machine,
              edits |-> state.edits, sure |-> state.sure, board |-> state.board,
              package |-> state.package, initial |-> state.initial,
              mixed |-> state.mixed, option |-> state.option]
  /\ state.pc \in {"menu"} \cup Writing
  /\ state.machine \in Machines /\ state.sure \in BOOLEAN /\ state.package \in Natives
  /\ OfMachine(state.machine, state.initial)
  /\ ~ state.mixed => Readable(state.machine, state.initial)
  /\ state.pc \in Writing => Readable(state.machine, state.board)

SessionsRight ==
  /\ session = [s \in Sessions |-> session[s]]
  /\ \A s \in Sessions :
       session[s] = Idle \/ MenuState(session[s]) \/ PackageState(session[s])

WholeInv == FilesReadable /\ SessionsRight

\* A command that is sure is alone with the machines it may write.
SureAlone ==
  \A s \in Sessions : Busy(s) /\ session[s].sure =>
    \A t \in Sessions \ {s} : MachinesOf(session[s]) \cap MachinesOf(session[t]) = {}

\* The files of a machine of which something is promised: without the workspace
\* configuration, and with it.
Says(m, values) == Legible(m, values) /\ BuiltFrom(m, values) = chosen[m]

ChosenBuilt ==
  \A m \in Machines : chosen[m] # Unknown =>
    /\ Says(m, defconfig[m])
    /\ Get(workspace, "MACHINE", Nothing) = m => Says(m, Over(workspace, defconfig[m]))

\* Nothing is promised of a machine that is being written, and a command that is
\* sure finds its defconfig as it wrote it.
WritesAlone(s) ==
  /\ session[s].pc \in Writing => chosen[Target(s)] = Unknown
  /\ session[s].pc = "defconfig" /\ session[s].sure => defconfig[Target(s)] = Empty
  /\ session[s].pc \in {"written", "workspace"} /\ session[s].sure =>
       defconfig[Target(s)] = NewDefconfig(s)

\* A menu shows what it has read until it is edited.
OpeningShows(s) ==
  LET k == session[s].kconf
  IN session[s].pc = "opening" /\ session[s].sure /\ k.machine = session[s].machine
       /\ chosen[k.machine] # Unknown =>
       /\ Shown(k) = chosen[k.machine]
       /\ k.rootfs # "none" /\ k.format[k.rootfs] = "romfs" =>
            "ROOTFS_IMAGE_SIZE_MB" \notin DOMAIN defconfig[k.machine]

\* What the menu of a package has read, and what it reads again, say the same.
Kept(m, initial, board) ==
  /\ Legible(m, initial) /\ Legible(m, board) /\ DOMAIN board \subseteq DOMAIN initial
  /\ BuiltFrom(m, initial) = BuiltFrom(m, board)

PackageKept(s) ==
  LET state == session[s]
  IN Busy(s) /\ state.kind = "package" /\ state.sure =>
       Kept(state.machine, state.initial,
            IF state.pc = "menu" THEN defconfig[state.machine] ELSE state.board)

SessionFine(s) == WritesAlone(s) /\ OpeningShows(s) /\ PackageKept(s)

SavedInv ==
  /\ WholeInv /\ chosen = [m \in Machines |-> chosen[m]]
  /\ SureAlone /\ ChosenBuilt /\ \A s \in Sessions : SessionFine(s)

LEMMA KeysApart ==
  /\ \A key \in MenuKeys : key \notin PackageKeys
  /\ Natives \subseteq Packages /\ Packages \subseteq PackageKeys
  /\ \A p \in Natives : Option[p] \in PackageKeys
BY MenuconfigAssumption DEF MenuconfigAssumption, PackageKeys

LEMMA BoardsReadable ==
  ASSUME NEW m \in Machines, NEW values, Legible(m, values)
  PROVE  Readable(m, values)
BY DEF Legible, Readable, OfMachine, Get

\* Both files of a machine together.
LEMMA OverReadable ==
  ASSUME NEW m \in Machines, NEW f, NEW g, OfMachine(m, f), OfMachine(m, g)
  PROVE  /\ OfMachine(m, Over(f, g))
         /\ Readable(m, f) /\ Readable(m, g) => Readable(m, Over(f, g))
<1>1. ASSUME NEW key, NEW default
      PROVE  Get(Over(f, g), key, default)
               \in {Get(f, key, default), Get(g, key, default)}
  BY DEF Get, Over
<1> QED
  BY <1>1 DEF Readable, OfMachine

LEMMA InitialReadable ==
  ASSUME FilesReadable, NEW m \in Machines
  PROVE  /\ OfMachine(m, InitialValues(m))
         /\ ~ (mixed /\ m \in Named(workspace)) => Readable(m, InitialValues(m))
<1>1. Nothing \notin Machines
  BY MenuconfigAssumption DEF MenuconfigAssumption
<1>2. CASE Get(workspace, "MACHINE", Nothing) = m
  <2>1. OfMachine(m, workspace)
    BY <1>1, <1>2 DEF OfMachine, Get
  <2>2. ~ mixed => Readable(m, workspace)
    BY <1>2 DEF FilesReadable
  <2>3. InitialValues(m) = Over(workspace, defconfig[m]) /\ m \in Named(workspace)
    BY <1>2 DEF InitialValues, Named
  <2> QED
    BY <2>1, <2>2, <2>3, OverReadable DEF FilesReadable, Readable
<1>3. CASE Get(workspace, "MACHINE", Nothing) # m
  BY <1>3 DEF InitialValues, FilesReadable, Readable
<1> QED
  BY <1>2, <1>3

LEMMA EmptyReadable ==
  ASSUME NEW m \in Machines
  PROVE  Readable(m, Empty) /\ Readable(m, Unreadable) /\ DOMAIN Empty = {}
<1>1. FirstToolchain[m] \in Toolchains[m]
  BY MenuconfigAssumption DEF MenuconfigAssumption
<1>2. DOMAIN Empty = {} /\ DOMAIN Unreadable = {"UNREADABLE"}
  BY DEF Empty, Unreadable
<1> QED
  BY <1>1, <1>2 DEF Readable, OfMachine, Get

\* Whatever two texts of a machine, or parts of them, leave in a file.
LEMMA PartReadable ==
  ASSUME NEW m \in Machines, NEW text, Readable(m, text), NEW keys \in SUBSET DOMAIN text
  PROVE  Readable(m, Part(text, keys))
<1>1. FirstToolchain[m] \in Toolchains[m]
  BY MenuconfigAssumption DEF MenuconfigAssumption
<1> QED
  BY <1>1 DEF Part, Readable, OfMachine, Get

LEMMA OverlaidReadable ==
  ASSUME NEW m \in Machines, NEW text, Readable(m, text), NEW file, Readable(m, file),
         NEW new \in Overlaid(text, file)
  PROVE  Readable(m, new)
<1>1. ASSUME NEW line PROVE Readable(m, Over(After(file, line), text))
  <2>1. Readable(m, After(file, line))
    BY PartReadable DEF After
  <2> QED
    BY <2>1, OverReadable DEF Readable
<1> QED
  BY <1>1, EmptyReadable DEF Overlaid

LEMMA TornReadable ==
  ASSUME NEW m \in Machines, NEW text, Readable(m, text), NEW file, Readable(m, file),
         NEW new \in Torn(text, file)
  PROVE  Readable(m, new)
<1>1. \A line : Readable(m, Before(text, line))
  BY PartReadable DEF Before
<1> QED
  BY <1>1, EmptyReadable, OverlaidReadable DEF Torn

LEMMA Loaded ==
  ASSUME NEW values
  PROVE  Kconf(Load(values)) /\ Kconf(LoadFile(values))
<1>1. ASSUME NEW file PROVE Kconf(Load(file))
  <2> DEFINE k == Load(file)
  <2>1. k.machine \in Machines /\ k.rootfs \in Rootfses
    <3>1. DefaultMachine \in Machines /\ Nothing \notin Machines
      BY MenuconfigAssumption DEF MenuconfigAssumption
    <3>2. "minimal" \in Rootfses /\ Nothing \notin Rootfses
      BY Zenon DEF Rootfses, Nothing
    <3>3. k.machine = IF Get(file, "MACHINE", Nothing) \in Machines THEN file["MACHINE"]
                      ELSE DefaultMachine
      BY DEF Load
    <3>4. k.rootfs = IF Get(file, "ROOTFS", Nothing) \in Rootfses THEN file["ROOTFS"]
                     ELSE "minimal"
      BY DEF Load
    <3> HIDE DEF k
    <3> QED
      BY <3>1, <3>2, <3>3, <3>4 DEF Get
  <2>3. /\ k.toolchain = [n \in Machines |-> k.toolchain[n]]
        /\ \A n \in Machines : k.toolchain[n] \in Toolchains[n]
    <3>1. \A n \in Machines : FirstToolchain[n] \in Toolchains[n]
      BY MenuconfigAssumption DEF MenuconfigAssumption
    <3> QED
      BY <3>1 DEF Load
  <2>4. /\ k.mode = [r \in Rootfses |-> k.mode[r]] /\ k.mode["basic"] = "static"
        /\ k.format = [r \in Rootfses |-> k.format[r]]
        /\ k.size = [r \in Rootfses |-> k.size[r]]
    BY DEF Load, Rootfses
  <2>5. k.packages \subseteq PackageKeys
    BY DEF Load
  <2>6. k = [machine |-> k.machine, toolchain |-> k.toolchain, path |-> k.path,
             rootfs |-> k.rootfs, mode |-> k.mode, format |-> k.format, size |-> k.size,
             profile |-> k.profile, packages |-> k.packages]
    BY DEF Load
  <2> QED
    BY <2>1, <2>3, <2>4, <2>5, <2>6 DEF Kconf
<1>2. ASSUME NEW k, Kconf(k), NEW path, NEW keys, keys \subseteq PackageKeys
      PROVE  Kconf([k EXCEPT !.path = path, !.packages = keys])
  <2> DEFINE half == [k EXCEPT !.path = path]
  <2>1. Kconf(half)
    BY <1>2 DEF Kconf
  <2> HIDE DEF half
  <2>2. Kconf([half EXCEPT !.packages = keys])
    BY <1>2, <2>1 DEF Kconf
  <2> QED
    BY <2>2 DEF half
<1>3. Load(values).packages \subseteq PackageKeys
  BY DEF Load
<1>4. LoadFile(values) = IF "CHOICES" \in DOMAIN values THEN Load(values)
        ELSE [Load(Empty) EXCEPT !.path = Load(values).path,
                                 !.packages = Load(values).packages]
  BY DEF LoadFile
<1>5. Kconf([Load(Empty) EXCEPT !.path = Load(values).path,
                                !.packages = Load(values).packages])
  BY <1>1, <1>2, <1>3, Zenon
<1> QED
  BY <1>1, <1>4, <1>5, Zenon

\* Whatever is picked in the menu.
LEMMA Picked ==
  ASSUME NEW k, Kconf(k), NEW new \in Choices(k)
  PROVE  Kconf(new)
<1> USE DEF Kconf
<1>1. ASSUME NEW m \in Machines, new = [k EXCEPT !.machine = m] PROVE Kconf(new)
  BY <1>1
<1>2. ASSUME NEW t \in Toolchains[k.machine], new = [k EXCEPT !.toolchain[k.machine] = t]
      PROVE  Kconf(new)
  BY <1>2
<1>3. ASSUME NEW p, new = [k EXCEPT !.path = p] PROVE Kconf(new)
  BY <1>3
<1>4. ASSUME NEW r \in Rootfses, new = [k EXCEPT !.rootfs = r] PROVE Kconf(new)
  BY <1>4
<1>5. ASSUME NEW f, new = [k EXCEPT !.format[k.rootfs] = f] PROVE Kconf(new)
  BY <1>5
<1>6. ASSUME NEW b, k.rootfs # "basic", new = [k EXCEPT !.mode[k.rootfs] = b]
      PROVE  Kconf(new)
  BY <1>6
<1>7. ASSUME NEW p \in Visible(k), new \in {[k EXCEPT !.packages = @ \cup {p}],
                                            [k EXCEPT !.packages = @ \ {p}]}
      PROVE  Kconf(new)
  <2>1. p \in PackageKeys
    BY <1>7, KeysApart DEF Visible
  <2> QED
    BY <1>7, <2>1
<1> QED
  BY <1>1, <1>2, <1>3, <1>4, <1>5, <1>6, <1>7, Zenon DEF Choices

\* What a menu writes is its machine's.
LEMMA WrittenReadable ==
  ASSUME NEW k, Kconf(k)
  PROVE  /\ ConfigValues(k)["MACHINE"] = k.machine /\ "MACHINE" \in DOMAIN ConfigValues(k)
         /\ Readable(k.machine, ConfigValues(k))
         /\ FrontendValues(k)["MACHINE"] = k.machine /\ "MACHINE" \in DOMAIN FrontendValues(k)
         /\ Readable(k.machine, FrontendValues(k))
         /\ Readable(k.machine, DefconfigOf(ConfigValues(k), OwnedKeys, PackageKeys))
<1>1. {"MACHINE", "TOOLCHAIN", "ROOTFS"} \subseteq ConfigKeys(k)
  BY DEF ConfigKeys
<1>2. /\ Setting(k, "MACHINE") = k.machine /\ Setting(k, "ROOTFS") = k.rootfs
      /\ Setting(k, "TOOLCHAIN") = k.toolchain[k.machine]
  BY KeysApart DEF Setting, MenuKeys
<1>3. k.machine \in Machines /\ k.toolchain[k.machine] \in Toolchains[k.machine]
  BY DEF Kconf
<1>4. ASSUME NEW values, {"MACHINE", "TOOLCHAIN", "ROOTFS"} \subseteq DOMAIN values,
             \A key \in {"MACHINE", "TOOLCHAIN", "ROOTFS"} : values[key] = Setting(k, key)
      PROVE  Readable(k.machine, values)
  BY <1>2, <1>3, <1>4 DEF Readable, OfMachine, Get
<1>5. DefconfigOf(ConfigValues(k), OwnedKeys, PackageKeys)
        = [key \in {key \in ConfigKeys(k) \cap OwnedKeys :
                      ~ (key \in PackageKeys /\ Setting(k, key) = "n")} |-> Setting(k, key)]
  BY DEF DefconfigOf, ConfigValues
<1>6. {"MACHINE", "TOOLCHAIN", "ROOTFS"} \subseteq OwnedKeys
      /\ \A key \in {"MACHINE", "TOOLCHAIN", "ROOTFS"} : key \notin PackageKeys
  BY KeysApart DEF OwnedKeys, MenuKeys
<1>7. Readable(k.machine, DefconfigOf(ConfigValues(k), OwnedKeys, PackageKeys))
  BY <1>1, <1>4, <1>5, <1>6
<1>8. Readable(k.machine, ConfigValues(k)) /\ Readable(k.machine, FrontendValues(k))
  BY <1>1, <1>4 DEF ConfigValues, FrontendValues
<1> QED
  BY <1>1, <1>2, <1>7, <1>8 DEF ConfigValues, FrontendValues

\* The menu of a package touches neither machine nor toolchain.
LEMMA ReplacedReadable ==
  ASSUME NEW m \in Machines, NEW values, OfMachine(m, values), NEW p \in Natives,
         NEW new, DOMAIN new \subseteq Symbols(p)
  PROVE  LET replaced == Replaced(values, Symbols(p), new)
         IN  /\ Readable(m, values) =>
                  /\ Readable(m, replaced)
                  /\ Readable(m, DefconfigOf(replaced, DOMAIN replaced, Symbols(p)))
             /\ "MACHINE" \in DOMAIN replaced => replaced["MACHINE"] = m
<1> DEFINE replaced == Replaced(values, Symbols(p), new)
           board == DefconfigOf(replaced, DOMAIN replaced, Symbols(p))
<1>1. ASSUME NEW key \in {"MACHINE", "TOOLCHAIN"}
      PROVE  /\ key \in DOMAIN replaced <=> key \in DOMAIN values
             /\ key \in DOMAIN board <=> key \in DOMAIN values
             /\ key \in DOMAIN values =>
                  replaced[key] = values[key] /\ board[key] = values[key]
  <2>1. key \notin Symbols(p)
    BY KeysApart DEF Symbols, MenuKeys
  <2> QED
    BY <2>1 DEF Replaced, Over, Without, DefconfigOf
<1> HIDE DEF replaced, board
<1>2. Readable(m, values) => Readable(m, replaced) /\ Readable(m, board)
  BY <1>1 DEF Readable, OfMachine, Get
<1>3. "MACHINE" \in DOMAIN replaced => replaced["MACHINE"] = m
  BY <1>1 DEF OfMachine, Get
<1> QED
  BY <1>2, <1>3 DEF replaced, board

-----------------------------------------------------------------------------
(* The commands at work.                                                   *)

\* A command may only become less sure, of itself or by what others do.
LEMMA LessSure ==
  ASSUME NEW state, MenuState(state) \/ PackageState(state), NEW b \in BOOLEAN
  PROVE  LET new == [state EXCEPT !.sure = @ /\ b]
         IN  /\ new.pc = state.pc /\ new.kind = state.kind /\ new.machine = state.machine
             /\ new.board = state.board /\ new.sure = (state.sure /\ b)
             /\ MenuState(state) => MenuState(new) /\ new.kconf = state.kconf
             /\ PackageState(state) =>
                  PackageState(new) /\ new.package = state.package
                    /\ new.initial = state.initial /\ new.option = state.option
<1> DEFINE new == [state EXCEPT !.sure = @ /\ b]
<1>1. CASE MenuState(state)
  <2>1. ~ PackageState(state)
    BY <1>1 DEF MenuState, PackageState
  <2>2. new = [pc |-> state.pc, kind |-> "menu", machine |-> state.machine,
               edits |-> state.edits, sure |-> (state.sure /\ b), board |-> state.board,
               kconf |-> state.kconf]
    BY <1>1 DEF MenuState
  <2>3. (state.sure /\ b) \in BOOLEAN
    OBVIOUS
  <2> HIDE DEF new
  <2>4. MenuState(new)
    BY <1>1, <2>2, <2>3 DEF MenuState
  <2> QED
    BY <1>1, <2>1, <2>2, <2>4 DEF MenuState, new
<1>2. CASE PackageState(state)
  <2>1. ~ MenuState(state)
    BY <1>2 DEF MenuState, PackageState
  <2>2. new = [pc |-> state.pc, kind |-> "package", machine |-> state.machine,
               edits |-> state.edits, sure |-> (state.sure /\ b), board |-> state.board,
               package |-> state.package, initial |-> state.initial,
               mixed |-> state.mixed, option |-> state.option]
    BY <1>2 DEF PackageState
  <2>3. (state.sure /\ b) \in BOOLEAN
    OBVIOUS
  <2> HIDE DEF new
  <2>4. PackageState(new)
    BY <1>2, <2>2, <2>3 DEF PackageState
  <2> QED
    BY <1>2, <2>1, <2>2, <2>4 DEF PackageState, new
<1> QED
  BY <1>1, <1>2

Alike(new, old) ==
  IF old = Idle THEN new = Idle
  ELSE /\ new.pc = old.pc /\ new.kind = old.kind /\ new.machine = old.machine
       /\ new.board = old.board /\ (new.sure => old.sure)
       /\ MenuState(old) => MenuState(new) /\ new.kconf = old.kconf
       /\ PackageState(old) =>
            PackageState(new) /\ new.package = old.package
              /\ new.initial = old.initial /\ new.option = old.option

KnownState(state) == state = Idle \/ MenuState(state) \/ PackageState(state)

LEMMA PlacesKnown ==
  ASSUME NEW state, MenuState(state) \/ PackageState(state)
  PROVE  state.pc # "idle" /\ state # Idle
BY DEF MenuState, PackageState, Idle, Writing

LEMMA AlikeMachines ==
  ASSUME NEW old, KnownState(old), NEW new, Alike(new, old)
  PROVE  KnownState(new) /\ MachinesOf(new) = MachinesOf(old)
<1>1. CASE old = Idle
  BY <1>1 DEF Alike, KnownState
<1>2. CASE MenuState(old)
  BY <1>2, PlacesKnown DEF Alike, KnownState, MachinesOf, MenuState
<1>3. CASE PackageState(old)
  BY <1>3, PlacesKnown DEF Alike, KnownState, MachinesOf, PackageState
<1> QED
  BY <1>1, <1>2, <1>3 DEF KnownState

LEMMA Became ==
  ASSUME SessionsRight, NEW s \in Sessions, NEW state,
         MenuState(state) \/ PackageState(state), Become(s, state)
  PROVE  /\ SessionsRight' /\ SureAlone'
         /\ Alike(session'[s], state)
         /\ \A t \in Sessions \ {s} : Alike(session'[t], session[t])
<1> DEFINE after == [session EXCEPT ![s] = state]
           Apart(t) == \A u \in Sessions \ {t} :
                         MachinesOf(after[t]) \cap MachinesOf(after[u]) = {}
<1>1. /\ after[s] = state /\ \A t \in Sessions \ {s} : after[t] = session[t]
      /\ \A t \in Sessions : KnownState(after[t])
  BY DEF SessionsRight, KnownState
<1>2. session' = [t \in Sessions |->
        IF after[t].pc = "idle" THEN Idle ELSE [after[t] EXCEPT !.sure = @ /\ Apart(t)]]
  BY DEF Become
<1> HIDE DEF after
<1>3. ASSUME NEW t \in Sessions
      PROVE  /\ Alike(session'[t], after[t])
             /\ after[t] # Idle /\ session'[t].sure => Apart(t)
  <2>1. CASE after[t] = Idle
    BY <1>2, <2>1 DEF Alike, Idle
  <2>2. CASE MenuState(after[t]) \/ PackageState(after[t])
    <3>1. after[t].pc # "idle" /\ after[t] # Idle
      BY <2>2, PlacesKnown
    <3>2. session'[t] = [after[t] EXCEPT !.sure = @ /\ Apart(t)]
      BY <1>2, <3>1
    <3>3. Apart(t) \in BOOLEAN
      OBVIOUS
    <3> HIDE DEF Apart
    <3>4. session'[t].sure = (after[t].sure /\ Apart(t))
      BY <2>2, <3>2, <3>3, LessSure
    <3>5. (MenuState(after[t]) => MenuState(session'[t]))
          /\ (PackageState(after[t]) => PackageState(session'[t]))
          /\ (session'[t].sure => after[t].sure /\ Apart(t))
      BY <2>2, <3>2, <3>3, <3>4, LessSure
    <3>6. Alike(session'[t], after[t])
      BY <2>2, <3>1, <3>2, <3>3, <3>5, LessSure DEF Alike
    <3> QED
      BY <3>1, <3>5, <3>6
  <2> QED
    BY <1>1, <2>1, <2>2 DEF KnownState
<1>4. \A t \in Sessions : KnownState(session'[t]) /\ MachinesOf(session'[t]) = MachinesOf(after[t])
  BY <1>1, <1>3, AlikeMachines
<1>5. SessionsRight'
  BY <1>2, <1>4 DEF SessionsRight, KnownState
<1>6. SureAlone'
  <2> SUFFICES ASSUME NEW t \in Sessions, Busy(t)', session'[t].sure,
                      NEW u \in Sessions \ {t}
               PROVE  MachinesOf(session'[t]) \cap MachinesOf(session'[u]) = {}
    BY DEF SureAlone
  <2>1. after[t] # Idle
    BY <1>3 DEF Alike, Busy, Idle
  <2> QED
    BY <1>3, <1>4, <2>1
<1> QED
  BY <1>1, <1>3, <1>5, <1>6

LEMMA AtWork ==
  ASSUME SessionsRight, NEW s \in Sessions
  PROVE  /\ Busy(s) => MenuState(session[s]) \/ PackageState(session[s])
         /\ session[s].pc \in {"opening", "starting", "saving"} => MenuState(session[s])
         /\ MenuState(session[s]) => /\ Busy(s) /\ session[s].kind = "menu"
                                     /\ Target(s) = session[s].kconf.machine
         /\ PackageState(session[s]) => /\ Busy(s) /\ session[s].kind = "package"
                                        /\ Target(s) = session[s].machine
         /\ Busy(s) => Target(s) \in Machines /\ Target(s) \in MachinesOf(session[s])
         /\ session[s] = Idle => ~ Busy(s) /\ MachinesOf(session[s]) = {}
<1>1. session[s] = Idle \/ MenuState(session[s]) \/ PackageState(session[s])
  BY DEF SessionsRight
<1>2. CASE session[s] = Idle
  <2>1. ~ MenuState(session[s]) /\ ~ PackageState(session[s])
    BY <1>2, PlacesKnown
  <2> QED
    BY <1>2, <2>1 DEF Idle, Busy, MachinesOf
<1>3. CASE MenuState(session[s])
  <2>1. ~ PackageState(session[s]) /\ session[s] # Idle
    BY <1>3, PlacesKnown DEF MenuState, PackageState
  <2>2. session[s].pc # "idle" /\ session[s].kind = "menu"
    BY <1>3, PlacesKnown DEF MenuState
  <2>3. session[s].kconf.machine \in Machines
    BY <1>3 DEF MenuState, Kconf
  <2> QED
    BY <1>3, <2>1, <2>2, <2>3 DEF Busy, Target, MachinesOf
<1>4. CASE PackageState(session[s])
  <2>1. ~ MenuState(session[s]) /\ session[s] # Idle
    BY <1>4, PlacesKnown DEF MenuState, PackageState
  <2>2. session[s].pc # "idle" /\ session[s].kind = "package"
        /\ session[s].pc \notin {"opening", "starting", "saving"}
        /\ session[s].machine \in Machines
    BY <1>4, PlacesKnown DEF PackageState, Writing
  <2> QED
    BY <1>4, <2>1, <2>2 DEF Busy, Target, MachinesOf
<1> QED
  BY <1>1, <1>2, <1>3, <1>4

\* One command's state is replaced, the others' are not.
LEMMA OneStep ==
  ASSUME SessionsRight, NEW s \in Sessions, NEW new, KnownState(new),
         session' = [session EXCEPT ![s] = new]
  PROVE  /\ SessionsRight' /\ session'[s] = new
         /\ \A t \in Sessions \ {s} : session'[t] = session[t]
BY DEF SessionsRight, KnownState

\* The command goes on to another place.
LEMMA Moved ==
  ASSUME NEW state, NEW pc,
         \/ MenuState(state) /\ pc \in {"starting", "menu", "saving"} \cup Writing
         \/ PackageState(state) /\ state.pc \in Writing /\ pc \in Writing
  PROVE  LET new == [state EXCEPT !.pc = pc]
         IN  /\ new.pc = pc /\ new.kind = state.kind /\ new.machine = state.machine
             /\ new.board = state.board /\ new.sure = state.sure
             /\ MenuState(state) => MenuState(new) /\ new.kconf = state.kconf
             /\ PackageState(state) =>
                  PackageState(new) /\ new.package = state.package
                    /\ new.initial = state.initial /\ new.option = state.option
<1> DEFINE new == [state EXCEPT !.pc = pc]
<1>1. CASE MenuState(state)
  <2>1. ~ PackageState(state) /\ pc \in {"starting", "menu", "saving"} \cup Writing
    BY <1>1 DEF MenuState, PackageState, Writing
  <2>2. new = [pc |-> pc, kind |-> "menu", machine |-> state.machine,
               edits |-> state.edits, sure |-> state.sure, board |-> state.board,
               kconf |-> state.kconf]
    BY <1>1 DEF MenuState
  <2> HIDE DEF new
  <2>3. MenuState(new)
    BY <1>1, <2>1, <2>2 DEF MenuState
  <2> QED
    BY <1>1, <2>1, <2>2, <2>3 DEF MenuState, new
<1>2. CASE PackageState(state)
  <2>1. ~ MenuState(state) /\ pc \in Writing /\ state.pc \in Writing
    BY <1>2 DEF MenuState, PackageState
  <2>2. new = [pc |-> pc, kind |-> "package", machine |-> state.machine,
               edits |-> state.edits, sure |-> state.sure, board |-> state.board,
               package |-> state.package, initial |-> state.initial,
               mixed |-> state.mixed, option |-> state.option]
    BY <1>2 DEF PackageState
  <2> HIDE DEF new
  <2>3. PackageState(new)
    BY <1>2, <2>1, <2>2 DEF PackageState
  <2> QED
    BY <1>2, <2>1, <2>2, <2>3 DEF PackageState, new
<1> QED
  BY <1>1, <1>2

\* A menu is opened, and a choice is made in it.
LEMMA OpenMenuStep ==
  ASSUME WholeInv, NEW s \in Sessions, NEW m \in Machines, OpenMenu(s, m)
  PROVE  LET state == [pc |-> "opening", kind |-> "menu", machine |-> m, edits |-> 0,
                       sure |-> TRUE, board |-> Empty, kconf |-> Load(InitialValues(m))]
         IN  WholeInv' /\ Become(s, state) /\ MenuState(state)
<1> DEFINE state == [pc |-> "opening", kind |-> "menu", machine |-> m, edits |-> 0,
                     sure |-> TRUE, board |-> Empty, kconf |-> Load(InitialValues(m))]
<1>1. Become(s, state)
  BY DEF OpenMenu
<1>2. Kconf(Load(InitialValues(m)))
  BY InitialReadable, Loaded DEF WholeInv
<1>3. MenuState(state)
  BY <1>2 DEF MenuState
<1> HIDE DEF state
<1>4. SessionsRight'
  BY <1>1, <1>3, Became DEF WholeInv
<1>5. FilesReadable'
  BY EmptyReadable DEF OpenMenu, WholeInv, FilesReadable
<1> QED
  BY <1>1, <1>3, <1>4, <1>5 DEF WholeInv, state

LEMMA EditStep ==
  ASSUME WholeInv, NEW s \in Sessions, Choose(s) \/ ChooseProfile(s)
  PROVE  \E k : LET state == [session[s] EXCEPT !.kconf = k, !.edits = @ + 1]
                IN  /\ WholeInv' /\ Become(s, state) /\ MenuState(session[s]) /\ MenuState(state)
                    /\ session[s].pc = "menu" /\ state.pc = "menu"
                    /\ UNCHANGED <<defconfig, workspace, mixed, menus, kills, chosen>>
<1>1. MenuState(session[s]) /\ session[s].pc = "menu"
  BY AtWork DEF WholeInv, Choose, ChooseProfile, Menu, Busy
<1>2. PICK k : Edit(s, k) /\ Kconf(k)
  <2>1. CASE Choose(s)
    <3>1. PICK k \in Choices(session[s].kconf) : Edit(s, k)
      BY <2>1 DEF Choose
    <3> QED
      BY <1>1, <3>1, Picked DEF MenuState
  <2>2. CASE ChooseProfile(s)
    <3>1. PICK profile \in DOMAIN Profiles :
            Edit(s, [session[s].kconf EXCEPT !.profile = profile])
      BY <2>2 DEF ChooseProfile
    <3>2. Kconf([session[s].kconf EXCEPT !.profile = profile])
      BY <1>1 DEF MenuState, Kconf
    <3> QED
      BY <3>1, <3>2
  <2> QED
    BY <2>1, <2>2
<1> DEFINE state == [session[s] EXCEPT !.kconf = k, !.edits = @ + 1]
<1>3. state = [pc |-> "menu", kind |-> "menu", machine |-> session[s].machine,
               edits |-> session[s].edits + 1, sure |-> session[s].sure,
               board |-> session[s].board, kconf |-> k]
  <2> DEFINE half == [session[s] EXCEPT !.kconf = k]
  <2>1. half = [pc |-> "menu", kind |-> "menu", machine |-> session[s].machine,
                edits |-> session[s].edits, sure |-> session[s].sure,
                board |-> session[s].board, kconf |-> k]
    BY <1>1 DEF MenuState
  <2>2. state = [half EXCEPT !.edits = @ + 1]
    OBVIOUS
  <2> HIDE DEF half, state
  <2> QED
    BY <2>1, <2>2
<1>4. Become(s, state) /\ UNCHANGED <<defconfig, workspace, mixed, menus, kills, chosen>>
  BY <1>2 DEF Edit
<1> HIDE DEF state
<1>5. MenuState(state) /\ state.pc = "menu"
  BY <1>1, <1>2, <1>3 DEF MenuState
<1>6. SessionsRight'
  BY <1>4, <1>5, Became DEF WholeInv
<1>7. FilesReadable'
  BY <1>4 DEF WholeInv, FilesReadable
<1>8. WholeInv'
  BY <1>6, <1>7 DEF WholeInv
<1> QED
  BY <1>1, <1>4, <1>5, <1>8, Zenon DEF state

LEMMA OpenPackageStep ==
  ASSUME WholeInv, NEW s \in Sessions, NEW m \in Machines, NEW p \in Natives,
         OpenPackage(s, m, p)
  PROVE  LET state == [pc |-> "menu", kind |-> "package", machine |-> m, edits |-> 0,
                       sure |-> chosen[m] # Unknown, board |-> Empty, package |-> p,
                       initial |-> InitialValues(m),
                       mixed |-> mixed /\ m \in Named(workspace),
                       option |-> Get(InitialValues(m), Option[p], "n")]
         IN  WholeInv' /\ Become(s, state) /\ PackageState(state)
<1> DEFINE state == [pc |-> "menu", kind |-> "package", machine |-> m, edits |-> 0,
                     sure |-> chosen[m] # Unknown, board |-> Empty, package |-> p,
                     initial |-> InitialValues(m),
                     mixed |-> mixed /\ m \in Named(workspace),
                     option |-> Get(InitialValues(m), Option[p], "n")]
<1>1. Become(s, state)
  BY DEF OpenPackage
<1>2. /\ OfMachine(m, InitialValues(m))
      /\ ~ (mixed /\ m \in Named(workspace)) => Readable(m, InitialValues(m))
  BY InitialReadable DEF WholeInv
<1>3. (chosen[m] # Unknown) \in BOOLEAN
  OBVIOUS
<1>4. PackageState(state)
  BY <1>2, <1>3 DEF PackageState, Writing
<1> HIDE DEF state
<1>5. SessionsRight'
  BY <1>1, <1>4, Became DEF WholeInv
<1>6. FilesReadable'
  BY DEF OpenPackage, WholeInv, FilesReadable
<1> QED
  BY <1>1, <1>4, <1>5, <1>6 DEF WholeInv, state

LEMMA ChooseOptionStep ==
  ASSUME WholeInv, NEW s \in Sessions, ChooseOption(s)
  PROVE  /\ WholeInv' /\ UNCHANGED <<defconfig, workspace, mixed, menus, kills, chosen>>
         /\ PackageState(session[s]) /\ PackageState(session'[s])
         /\ session'[s] = [pc |-> "menu", kind |-> "package", machine |-> session[s].machine,
                           edits |-> session'[s].edits, sure |-> session[s].sure,
                           board |-> session[s].board, package |-> session[s].package,
                           initial |-> session[s].initial, mixed |-> session[s].mixed,
                   option |-> session'[s].option]
         /\ session[s].pc = "menu"
         /\ \A t \in Sessions \ {s} : session'[t] = session[t]
<1>1. PackageState(session[s]) /\ session[s].pc = "menu"
  BY AtWork DEF WholeInv, ChooseOption, Menu, Busy
<1> DEFINE edits == session[s].edits + 1
           option == IF session[s].option = "y" THEN "n" ELSE "y"
           new == [pc |-> "menu", kind |-> "package", machine |-> session[s].machine,
                   edits |-> edits, sure |-> session[s].sure,
                   board |-> session[s].board, package |-> session[s].package,
                   initial |-> session[s].initial, mixed |-> session[s].mixed,
                   option |-> option]
<1>2. session' = [session EXCEPT ![s] = new]
  <2>1. session' = [session EXCEPT ![s].edits = edits, ![s].option = option]
    BY DEF ChooseOption
  <2> DEFINE half == [session[s] EXCEPT !.edits = edits]
  <2> HIDE DEF new, edits, option
  <2>4. half = [pc |-> "menu", kind |-> "package", machine |-> session[s].machine,
                edits |-> edits, sure |-> session[s].sure,
                board |-> session[s].board, package |-> session[s].package,
                initial |-> session[s].initial, mixed |-> session[s].mixed,
                   option |-> session[s].option]
    BY <1>1 DEF PackageState
  <2> HIDE DEF half
  <2>5. [half EXCEPT !.option = option] = new
    BY <2>4 DEF new
  <2>2. [[session[s] EXCEPT !.edits = edits] EXCEPT !.option = option] = new
    BY <2>5 DEF half
  <2>3. session = [t \in Sessions |-> session[t]]
    BY DEF WholeInv, SessionsRight
  <2> QED
    BY <2>1, <2>2, <2>3
<1>3. PackageState(new)
  BY <1>1 DEF PackageState
<1> HIDE DEF new
<1>4. SessionsRight' /\ session'[s] = new /\ \A t \in Sessions \ {s} : session'[t] = session[t]
  BY <1>2, <1>3, OneStep DEF WholeInv, KnownState
<1>5. UNCHANGED <<defconfig, workspace, mixed, menus, kills, chosen>>
  BY DEF ChooseOption
<1>6. FilesReadable'
  BY <1>5 DEF WholeInv, FilesReadable
<1> QED
  BY <1>1, <1>3, <1>4, <1>5, <1>6 DEF WholeInv, new

\* The files are written.
LEMMA AtStep ==
  ASSUME SessionsRight, NEW s \in Sessions, NEW pc, At(s, pc),
         \/ MenuState(session[s]) /\ pc \in {"starting", "menu", "saving"} \cup Writing
         \/ PackageState(session[s]) /\ session[s].pc \in Writing /\ pc \in Writing
  PROVE  LET new == session'[s]  old == session[s]
         IN  /\ SessionsRight' /\ \A t \in Sessions \ {s} : session'[t] = session[t]
             /\ new.pc = pc /\ new.kind = old.kind /\ new.machine = old.machine
             /\ new.board = old.board /\ new.sure = old.sure
             /\ MenuState(old) => MenuState(new) /\ new.kconf = old.kconf
             /\ PackageState(old) =>
                  PackageState(new) /\ new.package = old.package
                    /\ new.initial = old.initial /\ new.option = old.option
<1> DEFINE new == [session[s] EXCEPT !.pc = pc]
<1>1. session' = [session EXCEPT ![s] = new]
  BY DEF At
<1>2. KnownState(new)
  BY Moved DEF KnownState
<1>3. SessionsRight' /\ session'[s] = new /\ \A t \in Sessions \ {s} : session'[t] = session[t]
  <2> HIDE DEF new
  <2> QED
    BY <1>1, <1>2, OneStep
<1> QED
  BY <1>3, Moved

\* A menu's text, or what is left of another one's with it.
LEMMA FrontendReadable ==
  ASSUME FilesReadable, NEW k, Kconf(k), UNCHANGED defconfig,
         mixed' = (workspace' # FrontendValues(k))
  PROVE  FilesReadable'
<1>1. FrontendValues(k)["MACHINE"] = k.machine /\ "MACHINE" \in DOMAIN FrontendValues(k)
      /\ Readable(k.machine, FrontendValues(k))
  BY WrittenReadable
<1>2. ASSUME ~ mixed', NEW m \in Machines, Get(workspace', "MACHINE", Nothing) = m
      PROVE  Readable(m, workspace')
  BY <1>1, <1>2 DEF Get
<1> QED
  BY <1>2 DEF FilesReadable

LEMMA WriteFrontendStep ==
  ASSUME WholeInv, NEW s \in Sessions, WriteFrontend(s)
  PROVE  WholeInv' /\ MenuState(session[s]) /\ At(s, "starting")
<1>1. MenuState(session[s]) /\ At(s, "starting") /\ UNCHANGED defconfig
      /\ mixed' = (workspace' # FrontendValues(session[s].kconf))
  BY AtWork DEF WholeInv, WriteFrontend
<1>2. SessionsRight'
  BY <1>1, AtStep DEF WholeInv
<1>3. FilesReadable'
  BY <1>1, FrontendReadable DEF WholeInv, MenuState
<1> QED
  BY <1>1, <1>2, <1>3 DEF WholeInv

LEMMA StartMenuStep ==
  ASSUME WholeInv, NEW s \in Sessions, StartMenu(s)
  PROVE  \E k : LET state == [session[s] EXCEPT !.pc = "menu", !.kconf = k]
                IN  /\ WholeInv' /\ Become(s, state) /\ MenuState(session[s]) /\ MenuState(state)
                    /\ session[s].pc = "starting" /\ state.pc = "menu"
                    /\ UNCHANGED <<defconfig, workspace, mixed, menus, kills, chosen>>
<1>1. MenuState(session[s]) /\ session[s].pc = "starting"
  BY AtWork DEF WholeInv, StartMenu
<1>2. PICK k : Kconf(k) /\ Become(s, [session[s] EXCEPT !.pc = "menu", !.kconf = k])
  BY Loaded, Zenon DEF StartMenu
<1> DEFINE state == [session[s] EXCEPT !.pc = "menu", !.kconf = k]
<1>3. state = [pc |-> "menu", kind |-> "menu", machine |-> session[s].machine,
               edits |-> session[s].edits, sure |-> session[s].sure,
               board |-> session[s].board, kconf |-> k]
  <2> DEFINE half == [session[s] EXCEPT !.pc = "menu"]
  <2>1. half = [pc |-> "menu", kind |-> "menu", machine |-> session[s].machine,
                edits |-> session[s].edits, sure |-> session[s].sure,
                board |-> session[s].board, kconf |-> session[s].kconf]
    BY <1>1 DEF MenuState
  <2>2. state = [half EXCEPT !.kconf = k]
    OBVIOUS
  <2> HIDE DEF half, state
  <2> QED
    BY <2>1, <2>2
<1>4. Become(s, state) /\ UNCHANGED <<defconfig, workspace, mixed, menus, kills, chosen>>
  BY <1>2 DEF StartMenu
<1> HIDE DEF state
<1>5. MenuState(state) /\ state.pc = "menu"
  BY <1>1, <1>2, <1>3 DEF MenuState
<1>6. SessionsRight'
  BY <1>4, <1>5, Became DEF WholeInv
<1>7. FilesReadable'
  BY <1>4 DEF WholeInv, FilesReadable
<1>8. WholeInv'
  BY <1>6, <1>7 DEF WholeInv
<1> QED
  BY <1>1, <1>4, <1>5, <1>8, Zenon DEF state

LEMMA OpenSaveStep ==
  ASSUME WholeInv, NEW s \in Sessions, OpenSave(s)
  PROVE  WholeInv' /\ MenuState(session[s]) /\ session[s].pc = "menu" /\ At(s, "saving")
<1>1. MenuState(session[s]) /\ session[s].pc = "menu" /\ At(s, "saving")
  BY AtWork DEF WholeInv, OpenSave, Menu, Busy, PackageState
<1>2. SessionsRight'
  BY <1>1, AtStep DEF WholeInv
<1>3. FilesReadable'
  BY EmptyReadable DEF OpenSave, WholeInv, FilesReadable
<1> QED
  BY <1>1, <1>2, <1>3 DEF WholeInv

LEMMA SaveInMenuStep ==
  ASSUME WholeInv, NEW s \in Sessions, SaveInMenu(s)
  PROVE  WholeInv' /\ MenuState(session[s]) /\ session[s].pc = "saving" /\ At(s, "menu")
<1>1. MenuState(session[s]) /\ session[s].pc = "saving" /\ At(s, "menu")
      /\ UNCHANGED defconfig /\ mixed' = (workspace' # FrontendValues(session[s].kconf))
  BY AtWork DEF WholeInv, SaveInMenu
<1>2. SessionsRight'
  BY <1>1, AtStep DEF WholeInv
<1>3. FilesReadable'
  BY <1>1, FrontendReadable DEF WholeInv, MenuState
<1> QED
  BY <1>1, <1>2, <1>3 DEF WholeInv

LEMMA CutDefconfigStep ==
  ASSUME WholeInv, NEW s \in Sessions, CutDefconfig(s)
  PROVE  LET old == session[s]  new == session'[s]
         IN  /\ WholeInv' /\ \A t \in Sessions \ {s} : session'[t] = session[t]
             /\ new.pc = "defconfig" /\ new.kind = old.kind /\ new.machine = old.machine
             /\ new.sure = old.sure
             /\ MenuState(old) => MenuState(new) /\ new.kconf = old.kconf
             /\ PackageState(old) =>
                  PackageState(new) /\ new.board = defconfig[Target(s)] /\ new.package = old.package
                    /\ new.initial = old.initial /\ new.option = old.option
             /\ Busy(s) /\ old.pc = "menu"
<1> DEFINE old == session[s]
           board == IF old.kind = "menu" THEN Empty ELSE defconfig[Target(s)]
           half == [old EXCEPT !.pc = "defconfig"]
           new == [half EXCEPT !.board = board]
<1>1. Busy(s) /\ old.pc = "menu" /\ Target(s) \in Machines
      /\ (MenuState(old) \/ PackageState(old)) /\ ~ (MenuState(old) /\ PackageState(old))
  BY AtWork DEF WholeInv, CutDefconfig, Menu, Busy, MenuState, PackageState
<1>2. PackageState(old) => board = defconfig[Target(s)] /\ Readable(Target(s), board)
  BY <1>1 DEF WholeInv, FilesReadable, PackageState
<1>3. ASSUME MenuState(old)
      PROVE  new = [pc |-> "defconfig", kind |-> "menu", machine |-> old.machine,
                    edits |-> old.edits, sure |-> old.sure, board |-> board,
                    kconf |-> old.kconf]
  <2>1. half = [pc |-> "defconfig", kind |-> "menu", machine |-> old.machine,
                edits |-> old.edits, sure |-> old.sure, board |-> old.board,
                kconf |-> old.kconf]
    BY <1>3 DEF MenuState
  <2> HIDE DEF half, board
  <2> QED
    BY <2>1
<1>4. ASSUME PackageState(old)
      PROVE  new = [pc |-> "defconfig", kind |-> "package", machine |-> old.machine,
                    edits |-> old.edits, sure |-> old.sure, board |-> board,
                    package |-> old.package, initial |-> old.initial,
                    mixed |-> old.mixed, option |-> old.option]
  <2>1. half = [pc |-> "defconfig", kind |-> "package", machine |-> old.machine,
                edits |-> old.edits, sure |-> old.sure, board |-> old.board,
                package |-> old.package, initial |-> old.initial,
                    mixed |-> old.mixed, option |-> old.option]
    BY <1>4 DEF PackageState
  <2> HIDE DEF half, board
  <2> QED
    BY <2>1
<1>5. session' = [session EXCEPT ![s] = new]
  <2>1. session' = [session EXCEPT ![s].pc = "defconfig", ![s].board = board]
    BY DEF CutDefconfig
  <2>2. session = [t \in Sessions |-> session[t]]
    BY DEF WholeInv, SessionsRight
  <2> HIDE DEF board
  <2> QED
    BY <2>1, <2>2
<1> HIDE DEF new, half, board
<1>6. ASSUME MenuState(old) PROVE MenuState(new) /\ new.kconf = old.kconf
  BY <1>3, <1>6 DEF MenuState, Writing
<1>7. ASSUME PackageState(old)
      PROVE  PackageState(new) /\ new.board = defconfig[Target(s)] /\ new.package = old.package
               /\ new.initial = old.initial /\ new.option = old.option
  <2>1. Target(s) = old.machine
    BY <1>7, AtWork DEF WholeInv
  <2> QED
    BY <1>2, <1>4, <1>7, <2>1 DEF PackageState, Writing
<1>8. SessionsRight' /\ session'[s] = new /\ \A t \in Sessions \ {s} : session'[t] = session[t]
  BY <1>1, <1>5, <1>6, <1>7, OneStep DEF WholeInv, KnownState
<1>9. new.pc = "defconfig" /\ new.kind = old.kind /\ new.machine = old.machine
      /\ new.sure = old.sure
  BY <1>1, <1>3, <1>4 DEF MenuState, PackageState
<1>10. FilesReadable'
  <2>1. defconfig' = [defconfig EXCEPT ![Target(s)] = Empty] /\ UNCHANGED <<workspace, mixed>>
    BY DEF CutDefconfig
  <2> QED
    BY <1>1, <2>1, EmptyReadable DEF WholeInv, FilesReadable
<1> QED
  BY <1>1, <1>6, <1>7, <1>8, <1>9, <1>10 DEF WholeInv, board

\* What a command writes is its machine's.
LEMMA NewReadable ==
  ASSUME WholeInv, NEW s \in Sessions, session[s].pc \in Writing
  PROVE  /\ Target(s) \in Machines /\ Readable(Target(s), NewDefconfig(s))
         /\ ~ ReadMixed(s) => Readable(Target(s), NewWorkspace(s))
         /\ "MACHINE" \in DOMAIN NewWorkspace(s) => NewWorkspace(s)["MACHINE"] = Target(s)
         /\ MenuState(session[s]) => ~ ReadMixed(s)
<1>1. MenuState(session[s]) \/ PackageState(session[s])
  BY AtWork DEF WholeInv, Busy, Writing
<1>2. CASE MenuState(session[s])
  <2>1. /\ session[s].kind = "menu" /\ Target(s) = session[s].kconf.machine
        /\ Kconf(session[s].kconf)
    BY <1>2, AtWork DEF WholeInv, MenuState
  <2>2. session[s].kconf.machine \in Machines
    BY <2>1 DEF Kconf
  <2> QED
    BY <2>1, <2>2, WrittenReadable DEF NewDefconfig, NewWorkspace, ReadMixed
<1>3. CASE PackageState(session[s])
  <2>1. /\ session[s].kind = "package" /\ Target(s) = session[s].machine
        /\ session[s].machine \in Machines /\ session[s].package \in Natives
        /\ OfMachine(session[s].machine, session[s].initial)
        /\ ~ ReadMixed(s) => Readable(session[s].machine, session[s].initial)
        /\ Readable(session[s].machine, session[s].board)
    BY <1>3, AtWork DEF WholeInv, PackageState, ReadMixed
  <2>2. DOMAIN NativeValues(s) \subseteq Symbols(session[s].package)
    BY DEF NativeValues, Symbols
  <2>3. ~ MenuState(session[s])
    BY <2>1 DEF MenuState
  <2> QED
    BY <2>1, <2>2, <2>3, ReplacedReadable DEF NewDefconfig, NewWorkspace, Readable
<1> QED
  BY <1>1, <1>2, <1>3

LEMMA GiveUpStep ==
  ASSUME WholeInv, NEW s \in Sessions, GiveUp(s)
  PROVE  /\ WholeInv' /\ session'[s] = Idle
         /\ \A t \in Sessions \ {s} : session'[t] = session[t]
         /\ UNCHANGED <<defconfig, workspace, mixed, menus, chosen>>
<1>1. session' = [session EXCEPT ![s] = Idle]
      /\ UNCHANGED <<defconfig, workspace, mixed, menus, chosen>>
  BY DEF GiveUp
<1>2. SessionsRight' /\ session'[s] = Idle /\ \A t \in Sessions \ {s} : session'[t] = session[t]
  BY <1>1, OneStep DEF WholeInv, KnownState
<1>3. FilesReadable'
  BY <1>1 DEF WholeInv, FilesReadable
<1> QED
  BY <1>1, <1>2, <1>3 DEF WholeInv

\* The defconfig of its machine is written, whole or in part.
LEMMA BoardWritten ==
  ASSUME WholeInv, NEW s \in Sessions, session[s].pc = "defconfig",
         UNCHANGED <<workspace, mixed>>,
         NEW text \in Overlaid(NewDefconfig(s), defconfig[Target(s)])
                         \cup Torn(NewDefconfig(s), defconfig[Target(s)]),
         defconfig' = [defconfig EXCEPT ![Target(s)] = text]
  PROVE  FilesReadable'
<1>1. Target(s) \in Machines /\ Readable(Target(s), NewDefconfig(s))
      /\ Readable(Target(s), defconfig[Target(s)])
  BY NewReadable DEF Writing, WholeInv, FilesReadable
<1>2. Readable(Target(s), text)
  BY <1>1, OverlaidReadable, TornReadable
<1> QED
  BY <1>1, <1>2 DEF WholeInv, FilesReadable

LEMMA FillDefconfigStep ==
  ASSUME WholeInv, NEW s \in Sessions, FillDefconfig(s)
  PROVE  /\ WholeInv' /\ At(s, "written") /\ session[s].pc \in Writing
         /\ MenuState(session[s]) \/ PackageState(session[s])
<1>1. /\ session[s].pc \in Writing /\ At(s, "written")
      /\ session[s].pc = "defconfig" /\ UNCHANGED <<workspace, mixed>>
  BY DEF FillDefconfig, Writing
<1>2. MenuState(session[s]) \/ PackageState(session[s])
  BY <1>1, AtWork DEF WholeInv, Busy, Writing
<1>3. SessionsRight'
  BY <1>1, <1>2, AtStep DEF WholeInv, Writing
<1>4. FilesReadable'
  BY <1>1, BoardWritten DEF FillDefconfig
<1> QED
  BY <1>1, <1>2, <1>3, <1>4 DEF WholeInv

LEMMA CutWorkspaceStep ==
  ASSUME WholeInv, NEW s \in Sessions, CutWorkspace(s)
  PROVE  /\ WholeInv' /\ At(s, "workspace") /\ session[s].pc = "written"
         /\ MenuState(session[s]) \/ PackageState(session[s])
<1>1. /\ session[s].pc = "written" /\ At(s, "workspace") /\ workspace' = Empty
      /\ UNCHANGED defconfig
  BY DEF CutWorkspace
<1>2. MenuState(session[s]) \/ PackageState(session[s])
  BY <1>1, AtWork DEF WholeInv, Busy
<1>3. SessionsRight'
  BY <1>1, <1>2, AtStep DEF WholeInv, Writing
<1>4. FilesReadable'
  BY <1>1, EmptyReadable DEF WholeInv, FilesReadable
<1> QED
  BY <1>1, <1>2, <1>3, <1>4 DEF WholeInv

LEMMA FillWorkspaceStep ==
  ASSUME WholeInv, NEW s \in Sessions, FillWorkspace(s)
  PROVE  /\ WholeInv' /\ session'[s] = Idle /\ session[s].pc = "workspace"
         /\ \A t \in Sessions \ {s} : session'[t] = session[t]
<1>1. /\ session[s].pc = "workspace" /\ mixed' = (workspace' # NewWorkspace(s) \/ ReadMixed(s))
      /\ session' = [session EXCEPT ![s] = Idle] /\ UNCHANGED defconfig
  BY DEF FillWorkspace
<1>2. SessionsRight' /\ session'[s] = Idle /\ \A t \in Sessions \ {s} : session'[t] = session[t]
  BY <1>1, OneStep DEF WholeInv, KnownState
<1>3. session[s].pc \in Writing
  BY <1>1 DEF Writing
<1>4. ASSUME ~ mixed', NEW m \in Machines, Get(workspace', "MACHINE", Nothing) = m
      PROVE  Readable(m, workspace')
  <2>1. workspace' = NewWorkspace(s) /\ Readable(Target(s), NewWorkspace(s))
    BY <1>1, <1>3, <1>4, NewReadable
  <2>2. "MACHINE" \in DOMAIN NewWorkspace(s) => NewWorkspace(s)["MACHINE"] = Target(s)
    BY <1>3, NewReadable
  <2>3. m # Nothing
    BY MenuconfigAssumption DEF MenuconfigAssumption
  <2>4. m = Target(s)
    BY <1>4, <2>1, <2>2, <2>3 DEF Get
  <2> QED
    BY <2>1, <2>4
<1>5. FilesReadable'
  BY <1>1, <1>4 DEF WholeInv, FilesReadable
<1> QED
  BY <1>1, <1>2, <1>5 DEF WholeInv

LEMMA KillStep ==
  ASSUME WholeInv, NEW s \in Sessions, Kill(s)
  PROVE  /\ WholeInv' /\ session'[s] = Idle
         /\ \A t \in Sessions \ {s} : session'[t] = session[t]
<1>1. session' = [session EXCEPT ![s] = Idle] /\ UNCHANGED <<defconfig, workspace, mixed>>
  BY DEF Kill
<1>2. SessionsRight' /\ session'[s] = Idle /\ \A t \in Sessions \ {s} : session'[t] = session[t]
  BY <1>1, OneStep DEF WholeInv, KnownState
<1>3. FilesReadable'
  BY <1>1 DEF WholeInv, FilesReadable
<1> QED
  BY <1>2, <1>3 DEF WholeInv

LEMMA DefconfigFailsStep ==
  ASSUME WholeInv, NEW s \in Sessions, DefconfigFails(s)
  PROVE  /\ WholeInv' /\ session'[s] = Idle /\ session[s].pc = "defconfig"
         /\ \A t \in Sessions \ {s} : session'[t] = session[t]
<1>1. /\ session[s].pc = "defconfig" /\ session' = [session EXCEPT ![s] = Idle]
      /\ UNCHANGED <<workspace, mixed>>
  BY DEF DefconfigFails
<1>2. SessionsRight' /\ session'[s] = Idle /\ \A t \in Sessions \ {s} : session'[t] = session[t]
  BY <1>1, OneStep DEF WholeInv, KnownState
<1>3. FilesReadable'
  BY <1>1, BoardWritten DEF DefconfigFails
<1> QED
  BY <1>1, <1>2, <1>3 DEF WholeInv

\* What is left of a text that is written into an empty file.
LEMMA TornAlone ==
  ASSUME NEW m \in Machines, NEW target \in Machines, NEW text, Readable(target, text),
         "MACHINE" \in DOMAIN text => text["MACHINE"] = target,
         NEW new \in Torn(text, Empty), Get(new, "MACHINE", Nothing) = m
  PROVE  m = target /\ Readable(m, new)
<1>1. m # Nothing
  BY MenuconfigAssumption DEF MenuconfigAssumption
<1>2. "MACHINE" \in DOMAIN new /\ new["MACHINE"] = m
  BY <1>1 DEF Get
<1>3. new # Unreadable
  BY <1>2 DEF Unreadable
<1>4. PICK line : new = Before(text, line)
  BY <1>3 DEF Torn, Overlaid
<1>5. m = target
  BY <1>2, <1>4 DEF Before, Part
<1> QED
  BY <1>5, EmptyReadable, TornReadable

LEMMA WorkspaceFailsStep ==
  ASSUME WholeInv, NEW s \in Sessions, WorkspaceFails(s)
  PROVE  /\ WholeInv' /\ session'[s] = Idle
         /\ \A t \in Sessions \ {s} : session'[t] = session[t]
         /\ session[s].pc = "workspace" \/ MenuState(session[s])
<1> DEFINE text == IF session[s].pc = "workspace" THEN NewWorkspace(s)
                   ELSE FrontendValues(session[s].kconf)
<1>1. /\ session[s].pc = "opening" \/ session[s].pc = "workspace"
      /\ workspace' \in Torn(text, workspace)
      /\ mixed' = (workspace # Empty \/ ReadMixed(s))
      /\ session' = [session EXCEPT ![s] = Idle] /\ UNCHANGED defconfig
  BY DEF WorkspaceFails
<1>2. SessionsRight' /\ session'[s] = Idle /\ \A t \in Sessions \ {s} : session'[t] = session[t]
  BY <1>1, OneStep DEF WholeInv, KnownState
<1>3. session[s].pc # "workspace" => MenuState(session[s])
  BY <1>1, AtWork DEF WholeInv
<1>4. ~ mixed' => \E target \in Machines :
        Readable(target, text) /\ ("MACHINE" \in DOMAIN text => text["MACHINE"] = target)
  <2>1. CASE session[s].pc = "workspace"
    BY <1>1, <2>1, NewReadable DEF Writing
  <2>2. CASE session[s].pc # "workspace"
    BY <1>3, <2>2, WrittenReadable DEF MenuState, Kconf
  <2> QED
    BY <2>1, <2>2
<1> HIDE DEF text
<1>5. ASSUME ~ mixed', NEW m \in Machines, Get(workspace', "MACHINE", Nothing) = m
      PROVE  Readable(m, workspace')
  <2>1. workspace' \in Torn(text, Empty)
    BY <1>1, <1>5
  <2> QED
    BY <1>4, <1>5, <2>1, TornAlone
<1>6. FilesReadable'
  BY <1>1, <1>5 DEF WholeInv, FilesReadable
<1> QED
  BY <1>1, <1>2, <1>3, <1>6 DEF WholeInv

LEMMA InitWhole ==
  ASSUME Init
  PROVE  WholeInv
<1>1. defconfig = [m \in Machines |-> defconfig[m]]
  BY BoardsAssumption DEF Init
<1>2. \A m \in Machines : Readable(m, defconfig[m])
  <2>1. defconfig = Boards
    BY Zenon DEF Init
  <2> QED
    BY <2>1, BoardsAssumption, BoardsReadable, Zenon
<1>3. \A m \in Machines : Readable(m, workspace)
  <2>1. workspace = Empty
    BY Zenon DEF Init
  <2> QED
    BY <2>1, EmptyReadable, Zenon
<1> QED
  BY <1>1, <1>2, <1>3 DEF Init, WholeInv, FilesReadable, SessionsRight

\* Every configuration that is read is one that its machine may have.
LEMMA WholeInvariant == Spec => []WholeInv
<1>1. Init => WholeInv
  BY InitWhole
<1>2. WholeInv /\ [Next]_vars => WholeInv'
  <2> SUFFICES ASSUME WholeInv, [Next]_vars PROVE WholeInv'
    OBVIOUS
  <2>1. CASE UNCHANGED vars
    BY <2>1 DEF vars, WholeInv, FilesReadable, SessionsRight
  <2>2. CASE Next
    BY <2>2, OpenMenuStep, OpenPackageStep, WriteFrontendStep, StartMenuStep, EditStep,
       OpenSaveStep, SaveInMenuStep, ChooseOptionStep, GiveUpStep, CutDefconfigStep,
       FillDefconfigStep, CutWorkspaceStep, FillWorkspaceStep, KillStep,
       DefconfigFailsStep, WorkspaceFailsStep, Zenon DEF Next
  <2> QED
    BY <2>1, <2>2
<1> QED
  BY <1>1, <1>2, PTL DEF Spec

\* No machine is built with what the files say of another.
THEOREM MachineWhole == Spec => []MachineIsWhole
<1>1. ASSUME WholeInv PROVE MachineIsWhole
  <2>1. FilesReadable
    BY <1>1 DEF WholeInv
  <2>2. ASSUME NEW m \in Machines
        PROVE  /\ Get(InitialValues(m), "MACHINE", m) = m
               /\ \/ Get(InitialValues(m), "TOOLCHAIN", FirstToolchain[m]) \in Toolchains[m]
                  \/ mixed /\ m \in Named(workspace)
    BY <2>1, InitialReadable, Zenon DEF Readable, OfMachine
  <2> QED
    BY <2>2, Zenon DEF MachineIsWhole
<1> QED
  BY <1>1, WholeInvariant, PTL

-----------------------------------------------------------------------------
(* What is saved is what is built.                                         *)

\* The packages a configuration has chosen, one by one.
Chosen(values) == {key \in PackageKeys : Get(values, key, "n") = "y"}

LEMMA ManualPackages ==
  ASSUME NEW values, Get(values, "ROOTFS_PACKAGE_MODE", Nothing) = "manual"
  PROVE  SelectedPackages(values)
           = {key \in Chosen(values) :
                key \in Packages \/ \E p \in Natives : p \in Chosen(values) /\ key = Option[p]}
<1>1. PackageMode(values) = "manual"
  <2>1. Nothing # "manual"
    BY Zenon DEF Nothing
  <2> QED
    BY <2>1 DEF PackageMode, Get
<1>2. VisibleKeys(values)
        = Packages \cup {Option[p] : p \in {q \in Natives : q \in Chosen(values)}}
  BY KeysApart DEF VisibleKeys, Chosen
<1>3. SelectedPackages(values) = {key \in VisibleKeys(values) : Get(values, key, "n") = "y"}
  BY <1>1 DEF SelectedPackages
<1>4. \A key \in VisibleKeys(values) : Get(values, key, "n") = "y" <=> key \in Chosen(values)
  BY <1>2, KeysApart DEF Chosen
<1>5. Chosen(values) \subseteq PackageKeys
  BY DEF Chosen
<1> HIDE DEF Chosen
<1> QED
  BY <1>2, <1>3, <1>4

LEMMA ShownPackages ==
  ASSUME NEW k
  PROVE  k.packages \cap Visible(k)
           = {key \in k.packages :
                key \in Packages \/ \E p \in Natives : p \in k.packages /\ key = Option[p]}
BY DEF Visible

\* A menu that opens on a configuration shows what is built from it.
LEMMA LoadedShown ==
  ASSUME NEW m \in Machines, NEW values, Legible(m, values)
  PROVE  LET k == Load(values)
         IN  /\ k.machine = m /\ Shown(k) = BuiltFrom(m, values)
             /\ k.rootfs # "none" /\ k.format[k.rootfs] = "romfs" =>
                  "ROOTFS_IMAGE_SIZE_MB" \notin DOMAIN values
<1> DEFINE k == Load(values)
           r == values["ROOTFS"]
<1>1. /\ k.machine = m /\ k.rootfs = r /\ r \in Rootfses
      /\ k.path = Get(values, "TOOLCHAIN_PATH", Nothing)
      /\ k.packages = Chosen(values)
  BY DEF Load, Legible, Get, Chosen
<1>2. k.toolchain[m] = values["TOOLCHAIN"]
  BY DEF Load, Legible, Get
<1>3. /\ k.format[r] = Get(values, "ROOTFS_IMAGE_FORMAT", "ext4")
      /\ k.size[r] = Get(values, "ROOTFS_IMAGE_SIZE_MB", "16")
  BY <1>1 DEF Load, Legible, Get
<1>4. r # "none" => k.mode[r] = IF r = "basic" THEN "static" ELSE BuildMode(values)
  BY <1>1 DEF Load, Legible, BuildMode, Get, Rootfses
<1>5. r = "full" => k.packages \cap Visible(k) = SelectedPackages(values)
  <2> SUFFICES ASSUME r = "full" PROVE k.packages \cap Visible(k) = SelectedPackages(values)
    OBVIOUS
  <2>1. Get(values, "ROOTFS_PACKAGE_MODE", Nothing) = "manual"
    BY DEF Legible
  <2> HIDE DEF k, r
  <2>2. SelectedPackages(values)
          = {key \in Chosen(values) :
               key \in Packages \/ \E p \in Natives : p \in Chosen(values) /\ key = Option[p]}
    BY <2>1, ManualPackages, Zenon
  <2>3. k.packages \cap Visible(k)
          = {key \in k.packages :
               key \in Packages \/ \E p \in Natives : p \in k.packages /\ key = Option[p]}
    BY ShownPackages, Zenon
  <2>4. k.packages = Chosen(values)
    BY <1>1
  <2> QED
    BY <2>2, <2>3, <2>4, Zenon
<1>6. /\ Get(values, "ROOTFS", "minimal") = r
      /\ Get(values, "TOOLCHAIN", FirstToolchain[m]) = values["TOOLCHAIN"]
      /\ r # "none" => ImageFits(values)
  BY DEF Legible, Get
<1> HIDE DEF k, r
<1>7. Shown(k) = BuiltFrom(m, values)
  BY <1>1, <1>2, <1>3, <1>4, <1>5, <1>6 DEF Shown, BuiltFrom, ImageOf
<1>8. r # "none" /\ k.format[r] = "romfs" => "ROOTFS_IMAGE_SIZE_MB" \notin DOMAIN values
  BY <1>3, <1>6 DEF ImageFits
<1> QED
  BY <1>1, <1>7, <1>8 DEF k

\* A configuration that says what a menu shows, whatever else it says.
SaysShown(k, values) ==
  /\ {"MACHINE", "TOOLCHAIN", "ROOTFS"} \subseteq DOMAIN values
  /\ values["MACHINE"] = k.machine /\ values["TOOLCHAIN"] = k.toolchain[k.machine]
  /\ values["ROOTFS"] = k.rootfs /\ Get(values, "TOOLCHAIN_PATH", Nothing) = k.path
  /\ k.rootfs # "none" =>
       /\ {"ROOTFS_BUILD_MODE", "ROOTFS_IMAGE_FORMAT"} \subseteq DOMAIN values
       /\ values["ROOTFS_BUILD_MODE"] = k.mode[k.rootfs]
       /\ values["ROOTFS_IMAGE_FORMAT"] = k.format[k.rootfs]
       /\ IF k.format[k.rootfs] = "romfs" THEN "ROOTFS_IMAGE_SIZE_MB" \notin DOMAIN values
          ELSE Get(values, "ROOTFS_IMAGE_SIZE_MB", "16") = k.size[k.rootfs]
  /\ k.rootfs = "full" =>
       /\ Get(values, "ROOTFS_PACKAGE_MODE", Nothing) = "manual"
       /\ \A key \in Visible(k) : Get(values, key, "n") = "y" <=> key \in k.packages

LEMMA ShownIsBuilt ==
  ASSUME NEW k, Kconf(k), NEW values, SaysShown(k, values)
  PROVE  Legible(k.machine, values) /\ BuiltFrom(k.machine, values) = Shown(k)
<1> DEFINE r == k.rootfs
           m == k.machine
<1>1. /\ m \in Machines /\ r \in Rootfses /\ k.toolchain[m] \in Toolchains[m]
      /\ k.mode["basic"] = "static" /\ k.packages \subseteq PackageKeys
  BY DEF Kconf
<1>2. /\ Get(values, "ROOTFS", "minimal") = r
      /\ Get(values, "TOOLCHAIN", FirstToolchain[m]) = k.toolchain[m]
      /\ Get(values, "TOOLCHAIN_PATH", Nothing) = k.path
  BY DEF SaysShown, Get
<1>3. r # "none" => /\ Get(values, "ROOTFS_IMAGE_FORMAT", "ext4") = k.format[r]
                    /\ ImageFits(values)
                    /\ BuildMode(values) = k.mode[r]
  BY DEF SaysShown, Get, ImageFits, BuildMode
<1>4. r # "none" => ImageOf(values) = IF k.format[r] = "romfs" THEN <<"romfs", Nothing>>
                                      ELSE <<k.format[r], k.size[r]>>
  BY <1>3 DEF SaysShown, ImageOf
<1>5. r = "full" => SelectedPackages(values) = k.packages \cap Visible(k)
  <2> SUFFICES ASSUME r = "full" PROVE SelectedPackages(values) = k.packages \cap Visible(k)
    OBVIOUS
  <2>1. Get(values, "ROOTFS_PACKAGE_MODE", Nothing) = "manual"
        /\ \A key \in Visible(k) : Get(values, key, "n") = "y" <=> key \in k.packages
    BY DEF SaysShown
  <2>2. Packages \subseteq Visible(k)
        /\ \A p \in Natives : p \in k.packages => Option[p] \in Visible(k)
    BY DEF Visible
  <2>3. \A key \in Visible(k) : key \in Chosen(values) <=> key \in k.packages
    <3>1. Visible(k) \subseteq PackageKeys
      BY KeysApart DEF Visible
    <3> QED
      BY <2>1, <3>1 DEF Chosen
  <2>4. \A p \in Natives : p \in Chosen(values) <=> p \in k.packages
    BY <2>2, <2>3, KeysApart
  <2>5. SelectedPackages(values)
          = {key \in Chosen(values) :
               key \in Packages \/ \E p \in Natives : p \in Chosen(values) /\ key = Option[p]}
    BY <2>1, ManualPackages, Zenon
  <2>6. k.packages \cap Visible(k)
          = {key \in k.packages :
               key \in Packages \/ \E p \in Natives : p \in k.packages /\ key = Option[p]}
    BY ShownPackages, Zenon
  <2>7. ASSUME NEW key
        PROVE  key \in SelectedPackages(values) <=> key \in k.packages \cap Visible(k)
    <3>1. CASE key \in Visible(k)
      BY <2>2, <2>3, <2>4, <2>5, <2>6, <3>1
    <3>2. CASE key \notin Visible(k)
      BY <2>2, <2>4, <2>5, <3>2
    <3> QED
      BY <3>1, <3>2
  <2> QED
    BY <2>7
<1>6. Legible(m, values)
  BY <1>1, <1>3 DEF SaysShown, Legible
<1> QED
  BY <1>1, <1>2, <1>3, <1>4, <1>5, <1>6 DEF BuiltFrom, Shown

LEMMA Settings ==
  ASSUME NEW k
  PROVE  /\ Setting(k, "MACHINE") = k.machine /\ Setting(k, "ROOTFS") = k.rootfs
         /\ Setting(k, "TOOLCHAIN") = k.toolchain[k.machine]
         /\ Setting(k, "TOOLCHAIN_PATH") = k.path
         /\ Setting(k, "ROOTFS_BUILD_MODE") = k.mode[k.rootfs]
         /\ Setting(k, "ROOTFS_IMAGE_FORMAT") = k.format[k.rootfs]
         /\ Setting(k, "ROOTFS_IMAGE_SIZE_MB") = k.size[k.rootfs]
         /\ Setting(k, "ROOTFS_PACKAGE_MODE") = "manual"
         /\ \A key \in PackageKeys : Setting(k, key) = "y" <=> key \in k.packages
BY KeysApart DEF Setting, MenuKeys

LEMMA Keys ==
  ASSUME NEW k, Kconf(k)
  PROVE  /\ {"MACHINE", "TOOLCHAIN", "ROOTFS"} \subseteq ConfigKeys(k)
         /\ "TOOLCHAIN_PATH" \in ConfigKeys(k) <=> k.path # Nothing
         /\ "ROOTFS_IMAGE_SIZE_MB" \in ConfigKeys(k)
              <=> k.rootfs # "none" /\ k.format[k.rootfs] # "romfs"
         /\ k.rootfs # "none" =>
              {"ROOTFS_BUILD_MODE", "ROOTFS_IMAGE_FORMAT"} \subseteq ConfigKeys(k)
         /\ k.rootfs = "full" => {"ROOTFS_PACKAGE_MODE"} \cup Visible(k) \subseteq ConfigKeys(k)
         /\ ConfigKeys(k) \subseteq OwnedKeys /\ Visible(k) \subseteq PackageKeys
<1>1. Visible(k) \subseteq PackageKeys
  BY KeysApart DEF Visible
<1>2. \A key \in {"TOOLCHAIN_PATH", "ROOTFS_IMAGE_SIZE_MB"} : key \notin PackageKeys
  BY KeysApart DEF MenuKeys
<1> QED
  BY <1>1, <1>2 DEF ConfigKeys, OwnedKeys, MenuKeys

LEMMA MenuSays ==
  ASSUME NEW k, Kconf(k)
  PROVE  LET values == ConfigValues(k)
             board == DefconfigOf(values, OwnedKeys, PackageKeys)
         IN  /\ SaysShown(k, values) /\ SaysShown(k, board) /\ Over(values, board) = values
             /\ \A d : (k.rootfs # "none" /\ k.format[k.rootfs] = "romfs" =>
                          "ROOTFS_IMAGE_SIZE_MB" \notin DOMAIN d)
                       => SaysShown(k, Over(FrontendValues(k), d))
<1> DEFINE values == ConfigValues(k)
           board == DefconfigOf(values, OwnedKeys, PackageKeys)
<1>1. DOMAIN values = ConfigKeys(k) /\ \A key \in ConfigKeys(k) : values[key] = Setting(k, key)
  BY DEF ConfigValues
<1>2. /\ DOMAIN board = {key \in ConfigKeys(k) : ~ (key \in PackageKeys /\ values[key] = "n")}
      /\ \A key \in DOMAIN board : board[key] = values[key]
  BY <1>1, Keys DEF DefconfigOf
<1>3. \A key \in MenuKeys : key \notin PackageKeys
  BY KeysApart
<1>4. SaysShown(k, values)
  BY <1>1, Settings, Keys DEF SaysShown, Get
<1> HIDE DEF values, board
<1>5. SaysShown(k, board)
  <2>1. ASSUME NEW key \in MenuKeys
        PROVE  (key \in DOMAIN board <=> key \in DOMAIN values)
               /\ (key \in DOMAIN values => board[key] = values[key])
    BY <1>1, <1>2, <1>3
  <2>2. ASSUME NEW key \in PackageKeys
        PROVE  Get(board, key, "n") = "y" <=> Get(values, key, "n") = "y"
    BY <1>1, <1>2 DEF Get
  <2>3. Visible(k) \subseteq PackageKeys
    BY Keys
  <2> QED
    BY <1>4, <2>1, <2>2, <2>3 DEF SaysShown, Get, MenuKeys
<1>6. Over(values, board) = values
  <2>1. values = [key \in ConfigKeys(k) |-> Setting(k, key)]
    BY DEF values, ConfigValues
  <2> QED
    BY <1>1, <1>2, <2>1 DEF Over
<1>7. ASSUME NEW d, k.rootfs # "none" /\ k.format[k.rootfs] = "romfs" =>
                      "ROOTFS_IMAGE_SIZE_MB" \notin DOMAIN d
      PROVE  SaysShown(k, Over(FrontendValues(k), d))
  <2> DEFINE both == Over(FrontendValues(k), d)
  <2>0. "CHOICES" \notin ConfigKeys(k)
    <3>1. "CHOICES" \notin PackageKeys
      BY MenuconfigAssumption DEF MenuconfigAssumption
    <3> QED
      BY <3>1, Keys DEF OwnedKeys, MenuKeys
  <2>1. /\ DOMAIN both = ConfigKeys(k) \cup {"TOOLCHAIN_PATH", "CHOICES"} \cup DOMAIN d
        /\ \A key \in ConfigKeys(k) \cup {"TOOLCHAIN_PATH"} : both[key] = Setting(k, key)
    BY <2>0 DEF Over, FrontendValues
  <2>2. "ROOTFS_IMAGE_SIZE_MB" \in DOMAIN both
          <=> "ROOTFS_IMAGE_SIZE_MB" \in ConfigKeys(k) \/ "ROOTFS_IMAGE_SIZE_MB" \in DOMAIN d
    BY <2>1
  <2> HIDE DEF both
  <2>3. /\ {"MACHINE", "TOOLCHAIN", "ROOTFS"} \subseteq DOMAIN both
        /\ both["MACHINE"] = k.machine /\ both["TOOLCHAIN"] = k.toolchain[k.machine]
        /\ both["ROOTFS"] = k.rootfs /\ Get(both, "TOOLCHAIN_PATH", Nothing) = k.path
    BY <2>1, Settings, Keys DEF Get
  <2>4. k.rootfs # "none" =>
          /\ {"ROOTFS_BUILD_MODE", "ROOTFS_IMAGE_FORMAT"} \subseteq DOMAIN both
          /\ both["ROOTFS_BUILD_MODE"] = k.mode[k.rootfs]
          /\ both["ROOTFS_IMAGE_FORMAT"] = k.format[k.rootfs]
          /\ IF k.format[k.rootfs] = "romfs" THEN "ROOTFS_IMAGE_SIZE_MB" \notin DOMAIN both
             ELSE Get(both, "ROOTFS_IMAGE_SIZE_MB", "16") = k.size[k.rootfs]
    BY <1>7, <2>1, <2>2, Settings, Keys DEF Get
  <2>5. k.rootfs = "full" =>
          /\ Get(both, "ROOTFS_PACKAGE_MODE", Nothing) = "manual"
          /\ \A key \in Visible(k) : Get(both, key, "n") = "y" <=> key \in k.packages
    BY <2>1, Settings, Keys DEF Get
  <2> QED
    BY <2>3, <2>4, <2>5 DEF SaysShown, both
<1> QED
  BY <1>4, <1>5, <1>6, <1>7 DEF values, board

\* What is built, key by key.
BuiltSays(m, values) ==
  LET built == BuiltFrom(m, values)
      r == values["ROOTFS"]
  IN  /\ built.toolchain = values["TOOLCHAIN"] /\ built.rootfs = r
      /\ built.path = Get(values, "TOOLCHAIN_PATH", Nothing)
      /\ r # "none" =>
           /\ built.image = ImageOf(values)
           /\ built.mode = IF r = "basic" THEN "static" ELSE BuildMode(values)
           /\ built.packages = IF r = "full" THEN SelectedPackages(values) ELSE {}

LEMMA BuiltFields ==
  ASSUME NEW m \in Machines, NEW values, Legible(m, values)
  PROVE  BuiltSays(m, values)
<1>1. /\ Get(values, "ROOTFS", "minimal") = values["ROOTFS"]
      /\ Get(values, "TOOLCHAIN", FirstToolchain[m]) = values["TOOLCHAIN"]
      /\ values["ROOTFS"] # "none" => ImageFits(values)
  BY DEF Legible, Get
<1> QED
  BY <1>1 DEF BuiltFrom, BuiltSays

LEMMA SameBuilt ==
  ASSUME NEW m \in Machines, NEW f, NEW g, Legible(m, f), Legible(m, g),
         f["TOOLCHAIN"] = g["TOOLCHAIN"], f["ROOTFS"] = g["ROOTFS"],
         Get(f, "TOOLCHAIN_PATH", Nothing) = Get(g, "TOOLCHAIN_PATH", Nothing),
         f["ROOTFS"] # "none" =>
           /\ ImageOf(f) = ImageOf(g)
           /\ f["ROOTFS"] # "basic" => BuildMode(f) = BuildMode(g)
           /\ f["ROOTFS"] = "full" => SelectedPackages(f) = SelectedPackages(g)
  PROVE  BuiltFrom(m, f) = BuiltFrom(m, g)
<1>1. /\ Get(f, "ROOTFS", "minimal") = f["ROOTFS"] /\ Get(g, "ROOTFS", "minimal") = g["ROOTFS"]
      /\ Get(f, "TOOLCHAIN", FirstToolchain[m]) = f["TOOLCHAIN"]
      /\ Get(g, "TOOLCHAIN", FirstToolchain[m]) = g["TOOLCHAIN"]
      /\ f["ROOTFS"] # "none" => ImageFits(f) /\ ImageFits(g)
  BY DEF Legible, Get
<1>2. CASE f["ROOTFS"] = "none"
  BY <1>1, <1>2 DEF BuiltFrom
<1>3. CASE f["ROOTFS"] # "none"
  BY <1>1, <1>3 DEF BuiltFrom
<1> QED
  BY <1>2, <1>3

\* The menu of package p replaces the package's symbols and nothing else.
OnlyReplaced(m, values, p, new, replaced) ==
  /\ Legible(m, replaced)
  /\ replaced["TOOLCHAIN"] = values["TOOLCHAIN"]
  /\ replaced["ROOTFS"] = values["ROOTFS"]
  /\ Get(replaced, "TOOLCHAIN_PATH", Nothing) = Get(values, "TOOLCHAIN_PATH", Nothing)
  /\ ImageOf(replaced) = ImageOf(values)
  /\ values["ROOTFS"] # "none" => BuildMode(replaced) = BuildMode(values)
  /\ values["ROOTFS"] = "full" =>
       SelectedPackages(replaced) = (SelectedPackages(values) \ Symbols(p)) \cup DOMAIN new
  /\ DefconfigOf(replaced, DOMAIN replaced, Symbols(p)) = replaced

LEMMA ReplacedBuilt ==
  ASSUME NEW m \in Machines, NEW values, Legible(m, values), NEW p \in Natives,
         NEW new, DOMAIN new \subseteq Symbols(p), p \in DOMAIN new,
         \A key \in DOMAIN new : new[key] = "y"
  PROVE  OnlyReplaced(m, values, p, new, Replaced(values, Symbols(p), new))
<1> DEFINE replaced == Replaced(values, Symbols(p), new)
<1>1. /\ DOMAIN replaced = DOMAIN new \cup (DOMAIN values \ Symbols(p))
      /\ \A key \in DOMAIN new : replaced[key] = "y"
      /\ \A key \in DOMAIN values \ Symbols(p) : replaced[key] = values[key]
      /\ replaced = [key \in DOMAIN replaced |-> replaced[key]]
  BY DEF Replaced, Over, Without
<1>2. /\ \A key \in MenuKeys : key \notin Symbols(p)
      /\ Symbols(p) \subseteq PackageKeys /\ p \in Packages /\ Option[p] \notin Packages
      /\ Symbols(p) = {p, Option[p]}
  BY KeysApart, MenuconfigAssumption DEF Symbols, MenuconfigAssumption
<1> HIDE DEF replaced
<1>3. ASSUME NEW key \in MenuKeys
      PROVE  /\ key \in DOMAIN replaced <=> key \in DOMAIN values
             /\ key \in DOMAIN values => replaced[key] = values[key]
             /\ \A default : Get(replaced, key, default) = Get(values, key, default)
  BY <1>1, <1>2 DEF Get
<1>4. /\ replaced["TOOLCHAIN"] = values["TOOLCHAIN"] /\ replaced["ROOTFS"] = values["ROOTFS"]
      /\ Get(replaced, "TOOLCHAIN_PATH", Nothing) = Get(values, "TOOLCHAIN_PATH", Nothing)
      /\ ImageFits(replaced) <=> ImageFits(values)
      /\ ImageOf(replaced) = ImageOf(values) /\ BuildMode(replaced) = BuildMode(values)
  BY ZenonT(40), <1>3 DEF Legible, ImageFits, ImageOf, BuildMode, MenuKeys
<1>5. Legible(m, replaced)
  BY <1>3, <1>4 DEF Legible, MenuKeys
<1>6. Chosen(replaced) = (Chosen(values) \ Symbols(p)) \cup DOMAIN new
  BY <1>1, <1>2 DEF Chosen, Get
<1>7. ASSUME values["ROOTFS"] = "full"
      PROVE  SelectedPackages(replaced)
               = (SelectedPackages(values) \ Symbols(p)) \cup DOMAIN new
  <2>1. /\ Get(values, "ROOTFS_PACKAGE_MODE", Nothing) = "manual"
        /\ Get(replaced, "ROOTFS_PACKAGE_MODE", Nothing) = "manual"
    BY <1>4, <1>5, <1>7 DEF Legible
  <2>2. /\ SelectedPackages(values)
             = {key \in Chosen(values) :
                  key \in Packages \/ \E q \in Natives : q \in Chosen(values) /\ key = Option[q]}
        /\ SelectedPackages(replaced)
             = {key \in Chosen(replaced) :
                  key \in Packages \/ \E q \in Natives : q \in Chosen(replaced) /\ key = Option[q]}
    BY <2>1, ManualPackages, Zenon
  <2>3. p \in Chosen(replaced) /\ Natives \subseteq Packages
    BY <1>6, KeysApart
  <2>4. ASSUME NEW key
        PROVE  key \in SelectedPackages(replaced)
                 <=> key \in (SelectedPackages(values) \ Symbols(p)) \cup DOMAIN new
    <3>1. CASE key \in Symbols(p)
      BY <1>2, <1>6, <2>2, <2>3, <3>1
    <3>2. CASE key \notin Symbols(p)
      <4>1. key \notin DOMAIN new
        BY <3>2
      <4>2. \A q \in Natives : key = Option[q] => q \notin Symbols(p)
        BY <1>2, <2>3, <3>2
      <4>3. \A q \in Natives : key = Option[q] =>
              (q \in Chosen(replaced) <=> q \in Chosen(values))
        BY <1>6, <4>2
      <4> QED
        BY <1>6, <2>2, <3>2, <4>1, <4>3
    <3> QED
      BY <3>1, <3>2
  <2> QED
    BY <2>4
<1>8. DefconfigOf(replaced, DOMAIN replaced, Symbols(p)) = replaced
  <2>1. \A key \in DOMAIN replaced : ~ (key \in Symbols(p) /\ replaced[key] = "n")
    BY <1>1
  <2> QED
    BY <1>1, <2>1 DEF DefconfigOf
<1> QED
  BY <1>4, <1>5, <1>7, <1>8 DEF replaced, OnlyReplaced

LEMMA KeptReplaced ==
  ASSUME NEW m \in Machines, NEW initial, NEW board, Kept(m, initial, board),
         NEW p \in Natives, NEW new, DOMAIN new \subseteq Symbols(p), p \in DOMAIN new,
         \A key \in DOMAIN new : new[key] = "y"
  PROVE  LET f == Replaced(initial, Symbols(p), new)
             r == Replaced(board, Symbols(p), new)
             g == DefconfigOf(r, DOMAIN r, Symbols(p))
         IN  Legible(m, f) /\ Legible(m, g) /\ BuiltFrom(m, f) = BuiltFrom(m, g) /\ Over(f, g) = f
<1> DEFINE f == Replaced(initial, Symbols(p), new)
           r == Replaced(board, Symbols(p), new)
           g == DefconfigOf(r, DOMAIN r, Symbols(p))
<1>1. Legible(m, initial) /\ Legible(m, board) /\ BuiltFrom(m, initial) = BuiltFrom(m, board)
      /\ DOMAIN board \subseteq DOMAIN initial
  BY DEF Kept
<1>2. OnlyReplaced(m, initial, p, new, f)
  BY <1>1, ReplacedBuilt
<1>3. OnlyReplaced(m, board, p, new, r)
  BY <1>1, ReplacedBuilt
<1>4. Over(f, r) = f
  BY <1>1 DEF Replaced, Over, Without
<1> HIDE DEF f, r, g
<1>5. /\ initial["TOOLCHAIN"] = board["TOOLCHAIN"] /\ initial["ROOTFS"] = board["ROOTFS"]
      /\ Get(initial, "TOOLCHAIN_PATH", Nothing) = Get(board, "TOOLCHAIN_PATH", Nothing)
      /\ initial["ROOTFS"] # "none" =>
           /\ ImageOf(initial) = ImageOf(board)
           /\ initial["ROOTFS"] # "basic" => BuildMode(initial) = BuildMode(board)
           /\ initial["ROOTFS"] = "full" => SelectedPackages(initial) = SelectedPackages(board)
  <2>1. BuiltSays(m, initial) /\ BuiltSays(m, board)
    BY <1>1, BuiltFields
  <2> QED
    BY <1>1, <2>1 DEF BuiltSays
<1>6. BuiltFrom(m, f) = BuiltFrom(m, r)
  BY <1>2, <1>3, <1>5, SameBuilt DEF OnlyReplaced
<1>7. g = r /\ Legible(m, f) /\ Legible(m, r)
  BY <1>2, <1>3 DEF OnlyReplaced, g
<1> QED
  BY <1>4, <1>6, <1>7 DEF f, r, g
-----------------------------------------------------------------------------
(* What the steps of one command mean for the others.                      *)

LEMMA InitialSays ==
  ASSUME ChosenBuilt, NEW m \in Machines, chosen[m] # Unknown
  PROVE  /\ Says(m, InitialValues(m)) /\ Says(m, defconfig[m])
         /\ DOMAIN defconfig[m] \subseteq DOMAIN InitialValues(m)
BY DEF ChosenBuilt, InitialValues, Over

LEMMA AlikeSame ==
  ASSUME NEW old, KnownState(old)
  PROVE  Alike(old, old)
BY DEF Alike, KnownState

\* The machine that a command is about to write is written by nobody else while
\* the command is sure.
LEMMA OthersFine ==
  ASSUME SessionsRight, NEW t \in Sessions, SessionFine(t), Alike(session'[t], session[t]),
         \A m \in MachinesOf(session[t]) :
           /\ chosen[m] = Unknown => chosen'[m] = Unknown
           /\ session[t].sure => /\ defconfig'[m] = defconfig[m]
                                 /\ chosen'[m] \in {chosen[m], Unknown}
  PROVE  SessionFine(t)'
<1>1. CASE session[t] = Idle
  <2>1. session'[t] = Idle
    BY <1>1 DEF Alike
  <2> QED
    BY <2>1 DEF SessionFine, WritesAlone, OpeningShows, PackageKept, Idle, Writing, Busy
<1>2. CASE MenuState(session[t])
  <2>1. /\ MenuState(session'[t]) /\ session'[t].kconf = session[t].kconf
        /\ session'[t].pc = session[t].pc /\ session'[t].machine = session[t].machine
        /\ session'[t].sure => session[t].sure
    BY <1>2, PlacesKnown DEF Alike
  <2>2. session[t].kind = "menu" /\ session'[t].kind = "menu"
    BY <1>2, <2>1 DEF MenuState
  <2>3. /\ Target(t) = session[t].kconf.machine /\ Target(t)' = Target(t)
        /\ Target(t) \in MachinesOf(session[t]) /\ NewDefconfig(t)' = NewDefconfig(t)
    BY <1>2, <2>1, <2>2, AtWork DEF Target, NewDefconfig
  <2>4. WritesAlone(t)'
    BY <2>1, <2>3 DEF SessionFine, WritesAlone
  <2>5. OpeningShows(t)'
    BY <2>1, <2>3 DEF SessionFine, OpeningShows
  <2>6. PackageKept(t)'
    BY <2>2 DEF PackageKept
  <2> QED
    BY <2>4, <2>5, <2>6 DEF SessionFine
<1>3. CASE PackageState(session[t])
  <2>1. /\ PackageState(session'[t]) /\ session'[t].package = session[t].package
        /\ session'[t].initial = session[t].initial /\ session'[t].option = session[t].option
        /\ session'[t].pc = session[t].pc /\ session'[t].machine = session[t].machine
        /\ session'[t].board = session[t].board
        /\ session'[t].sure => session[t].sure
    BY <1>3, PlacesKnown DEF Alike
  <2>2. session[t].kind = "package" /\ session'[t].kind = "package" /\ Busy(t)
    BY <1>3, <2>1, AtWork DEF PackageState
  <2>3. /\ Target(t) = session[t].machine /\ Target(t)' = Target(t)
        /\ Target(t) \in MachinesOf(session[t]) /\ NewDefconfig(t)' = NewDefconfig(t)
    BY <1>3, <2>1, <2>2, AtWork DEF Target, NewDefconfig, NativeValues
  <2>4. WritesAlone(t)'
    BY <2>1, <2>3 DEF SessionFine, WritesAlone
  <2>5. OpeningShows(t)'
    BY <2>1 DEF OpeningShows, PackageState, Writing
  <2>6. PackageKept(t)'
    BY <2>1, <2>2, <2>3 DEF SessionFine, PackageKept
  <2> QED
    BY <2>4, <2>5, <2>6 DEF SessionFine
<1> QED
  BY <1>1, <1>2, <1>3 DEF SessionsRight

\* No promise is made, and the files of a machine whose promise stands are kept.
LEMMA ChosenStill ==
  ASSUME ChosenBuilt,
         \A m \in Machines : chosen'[m] # Unknown =>
           /\ chosen'[m] = chosen[m] /\ defconfig'[m] = defconfig[m]
           /\ workspace' = workspace \/ Get(workspace', "MACHINE", Nothing) # m
  PROVE  ChosenBuilt'
<1> SUFFICES ASSUME NEW m \in Machines, chosen'[m] # Unknown
             PROVE  /\ Says(m, defconfig[m])'
                    /\ Get(workspace', "MACHINE", Nothing) = m =>
                         Says(m, Over(workspace, defconfig[m]))'
  BY DEF ChosenBuilt, Get
<1>1. /\ chosen'[m] = chosen[m] /\ defconfig'[m] = defconfig[m]
      /\ workspace' = workspace \/ Get(workspace', "MACHINE", Nothing) # m
  OBVIOUS
<1>2. Says(m, defconfig[m])'
  BY <1>1 DEF ChosenBuilt, Says
<1>3. ASSUME workspace' = workspace, Get(workspace', "MACHINE", Nothing) = m
      PROVE  Says(m, Over(workspace, defconfig[m]))'
  BY <1>1, <1>3 DEF ChosenBuilt, Says
<1> QED
  BY <1>1, <1>2, <1>3

LEMMA AloneStill ==
  ASSUME SureAlone,
         \A t \in Sessions : Busy(t)' =>
           /\ Busy(t)
           /\ session'[t].sure => session[t].sure
           /\ MachinesOf(session'[t]) \subseteq MachinesOf(session[t])
  PROVE  SureAlone'
<1> SUFFICES ASSUME NEW s \in Sessions, Busy(s)', session'[s].sure, NEW t \in Sessions \ {s}
             PROVE  MachinesOf(session'[s]) \cap MachinesOf(session'[t]) = {}
  BY DEF SureAlone
<1>1. ~ Busy(t)' => MachinesOf(session'[t]) = {}
  BY DEF Busy, MachinesOf
<1>2. Busy(s) /\ session[s].sure
  OBVIOUS
<1>3. MachinesOf(session[s]) \cap MachinesOf(session[t]) = {}
  BY <1>2 DEF SureAlone
<1>4. MachinesOf(session'[s]) \subseteq MachinesOf(session[s])
      /\ (Busy(t)' => MachinesOf(session'[t]) \subseteq MachinesOf(session[t]))
  OBVIOUS
<1> QED
  BY <1>1, <1>3, <1>4

\* The machines a sure command may write are not another's target.
LEMMA NotTarget ==
  ASSUME SessionsRight, SureAlone, NEW s \in Sessions, Busy(s), NEW t \in Sessions \ {s},
         Target(s) \in MachinesOf(session[t])
  PROVE  ~ session[s].sure /\ Busy(t) /\ ~ session[t].sure
<1>1. Target(s) \in MachinesOf(session[s])
  BY AtWork
<1>2. Busy(t)
  BY DEF Busy, MachinesOf
<1>3. MachinesOf(session[s]) \cap MachinesOf(session[t]) # {}
  BY <1>1
<1> QED
  BY <1>2, <1>3 DEF SureAlone

LEMMA MachinesKnown ==
  ASSUME SessionsRight, NEW t \in Sessions
  PROVE  MachinesOf(session[t]) \subseteq Machines
<1>1. CASE session[t] = Idle
  BY <1>1, AtWork
<1>2. CASE MenuState(session[t])
  BY <1>2 DEF MachinesOf, MenuState, Kconf
<1>3. CASE PackageState(session[t])
  BY <1>3 DEF MachinesOf, PackageState
<1> QED
  BY <1>1, <1>2, <1>3 DEF SessionsRight

\* What every step leaves: the commands at work are fine, the promises kept.
LEMMA Kept4 ==
  ASSUME SavedInv, NEW s \in Sessions, WholeInv', SureAlone', SessionFine(s)', ChosenBuilt',
         chosen' = [m \in Machines |-> chosen'[m]],
         \A t \in Sessions \ {s} :
           /\ Alike(session'[t], session[t])
           /\ \A m \in MachinesOf(session[t]) :
                /\ chosen[m] = Unknown => chosen'[m] = Unknown
                /\ session[t].sure => /\ defconfig'[m] = defconfig[m]
                                      /\ chosen'[m] \in {chosen[m], Unknown}
  PROVE  SavedInv'
<1>1. \A t \in Sessions \ {s} : SessionFine(t)'
  BY OthersFine DEF SavedInv, WholeInv
<1> QED
  BY <1>1 DEF SavedInv

LEMMA OpenMenuSaved ==
  ASSUME SavedInv, NEW s \in Sessions, NEW m \in Machines, OpenMenu(s, m)
  PROVE  SavedInv'
<1> DEFINE values == InitialValues(m)
           state == [pc |-> "opening", kind |-> "menu", machine |-> m, edits |-> 0,
                     sure |-> TRUE, board |-> Empty, kconf |-> Load(values)]
<1>1. WholeInv' /\ Become(s, state) /\ MenuState(state) /\ state # Idle
      /\ state.pc = "opening" /\ state.machine = m /\ state.kconf = Load(values)
  <2>1. WholeInv' /\ Become(s, state) /\ MenuState(state)
    BY OpenMenuStep DEF SavedInv
  <2> QED
    BY <2>1, PlacesKnown
<1>2. UNCHANGED <<defconfig, chosen>> /\ Get(workspace', "MACHINE", Nothing) = Nothing
  BY DEF OpenMenu, Empty, Get
<1> HIDE DEF state
<1>3. /\ SureAlone' /\ Alike(session'[s], state)
      /\ \A t \in Sessions \ {s} : Alike(session'[t], session[t])
  BY <1>1, Became DEF SavedInv, WholeInv
<1>4. /\ MenuState(session'[s]) /\ session'[s].kconf = Load(values)
      /\ session'[s].pc = "opening" /\ session'[s].machine = m /\ session'[s].kind = "menu"
  BY <1>1, <1>3 DEF Alike, MenuState
<1>5. chosen[m] # Unknown => /\ Says(m, values) /\ DOMAIN defconfig[m] \subseteq DOMAIN values
  BY InitialSays DEF SavedInv
<1>6. OpeningShows(s)'
  <2> DEFINE k == Load(values)
  <2> SUFFICES ASSUME k.machine = m, chosen[m] # Unknown
               PROVE  /\ Shown(k) = chosen[m]
                      /\ k.rootfs # "none" /\ k.format[k.rootfs] = "romfs" =>
                           "ROOTFS_IMAGE_SIZE_MB" \notin DOMAIN defconfig[m]
    BY <1>2, <1>4 DEF OpeningShows
  <2>1. Legible(m, values) /\ BuiltFrom(m, values) = chosen[m]
        /\ DOMAIN defconfig[m] \subseteq DOMAIN values
    BY <1>5 DEF Says
  <2> HIDE DEF values
  <2> QED
    BY <2>1, LoadedShown
<1>7. SessionFine(s)'
  BY <1>4, <1>6 DEF SessionFine, WritesAlone, PackageKept, Writing
<1>8. ChosenBuilt'
  <2>1. Nothing \notin Machines
    BY MenuconfigAssumption DEF MenuconfigAssumption
  <2> QED
    BY <1>2, <2>1, ChosenStill DEF SavedInv
<1> QED
  BY <1>1, <1>2, <1>3, <1>7, <1>8, Kept4 DEF SavedInv

LEMMA OpenPackageSaved ==
  ASSUME SavedInv, NEW s \in Sessions, NEW m \in Machines, NEW p \in Natives,
         OpenPackage(s, m, p)
  PROVE  SavedInv'
<1> DEFINE values == InitialValues(m)
           state == [pc |-> "menu", kind |-> "package", machine |-> m, edits |-> 0,
                     sure |-> chosen[m] # Unknown, board |-> Empty, package |-> p,
                     initial |-> values, mixed |-> mixed /\ m \in Named(workspace),
                     option |-> Get(values, Option[p], "n")]
<1>1. WholeInv' /\ Become(s, state) /\ PackageState(state) /\ state # Idle
      /\ state.pc = "menu" /\ state.machine = m /\ state.initial = values
      /\ state.sure = (chosen[m] # Unknown)
  <2>1. WholeInv' /\ Become(s, state) /\ PackageState(state)
    BY OpenPackageStep DEF SavedInv
  <2> QED
    BY <2>1, PlacesKnown
<1>2. UNCHANGED <<defconfig, workspace, chosen>>
  BY DEF OpenPackage
<1> HIDE DEF state
<1>3. /\ SureAlone' /\ Alike(session'[s], state)
      /\ \A t \in Sessions \ {s} : Alike(session'[t], session[t])
  BY <1>1, Became DEF SavedInv, WholeInv
<1>4. /\ PackageState(session'[s]) /\ session'[s].initial = values
      /\ session'[s].pc = "menu" /\ session'[s].machine = m /\ session'[s].kind = "package"
      /\ session'[s].sure => chosen[m] # Unknown
  BY <1>1, <1>3 DEF Alike, PackageState
<1>5. ASSUME session'[s].sure
      PROVE  Kept(m, values, defconfig[m])
  <2>1. /\ Says(m, values) /\ Says(m, defconfig[m])
        /\ DOMAIN defconfig[m] \subseteq DOMAIN values
    BY <1>4, <1>5, InitialSays DEF SavedInv
  <2> HIDE DEF values
  <2> QED
    BY <2>1 DEF Says, Kept
<1>6. PackageKept(s)'
  BY <1>2, <1>4, <1>5 DEF PackageKept
<1>7. SessionFine(s)'
  BY <1>4, <1>6 DEF SessionFine, WritesAlone, OpeningShows, Writing
<1>8. ChosenBuilt'
  BY <1>2, ChosenStill DEF SavedInv
<1> QED
  BY <1>1, <1>2, <1>3, <1>7, <1>8, Kept4 DEF SavedInv

LEMMA EditSaved ==
  ASSUME SavedInv, NEW s \in Sessions, Choose(s) \/ ChooseProfile(s)
  PROVE  SavedInv'
<1>1. PICK k : LET state == [session[s] EXCEPT !.kconf = k, !.edits = @ + 1]
               IN  /\ WholeInv' /\ Become(s, state)
                   /\ MenuState(session[s]) /\ MenuState(state)
                   /\ session[s].pc = "menu" /\ state.pc = "menu"
                   /\ UNCHANGED <<defconfig, workspace, mixed, menus, kills, chosen>>
  BY EditStep, Zenon DEF SavedInv
<1> DEFINE state == [session[s] EXCEPT !.kconf = k, !.edits = @ + 1]
<1>2. /\ WholeInv' /\ Become(s, state) /\ MenuState(state) /\ state # Idle /\ state.pc = "menu"
      /\ UNCHANGED <<defconfig, workspace, chosen>>
  BY <1>1, PlacesKnown
<1> HIDE DEF state
<1>3. /\ SureAlone' /\ Alike(session'[s], state)
      /\ \A t \in Sessions \ {s} : Alike(session'[t], session[t])
  BY <1>2, Became DEF SavedInv, WholeInv
<1>4. session'[s].pc = "menu" /\ session'[s].kind = "menu"
  BY <1>2, <1>3 DEF Alike, MenuState
<1>5. SessionFine(s)'
  BY <1>4 DEF SessionFine, WritesAlone, OpeningShows, PackageKept, Writing
<1>6. ChosenBuilt'
  BY <1>2, ChosenStill DEF SavedInv
<1> QED
  BY <1>2, <1>3, <1>5, <1>6, Kept4 DEF SavedInv

\* A step that leaves every other command where it is.
LEMMA KeptAlone ==
  ASSUME SavedInv, NEW s \in Sessions, Busy(s), WholeInv', SessionFine(s)', ChosenBuilt',
         chosen' = [m \in Machines |-> chosen'[m]],
         \A t \in Sessions \ {s} : session'[t] = session[t],
         Busy(s)' => /\ session'[s].sure => session[s].sure
                     /\ MachinesOf(session'[s]) \subseteq MachinesOf(session[s]),
         \A m \in Machines :
           \/ defconfig'[m] = defconfig[m] /\ chosen'[m] \in {chosen[m], Unknown}
           \/ m = Target(s) /\ (session[s].sure \/ chosen'[m] \in {chosen[m], Unknown})
  PROVE  SavedInv'
<1>1. SessionsRight /\ SureAlone
  BY DEF SavedInv, WholeInv
<1>2. SureAlone'
  <2>1. \A t \in Sessions : Busy(t)' =>
          /\ Busy(t)
          /\ session'[t].sure => session[t].sure
          /\ MachinesOf(session'[t]) \subseteq MachinesOf(session[t])
    BY DEF Busy
  <2> QED
    BY <1>1, <2>1, AloneStill
<1>3. ASSUME NEW t \in Sessions \ {s}
      PROVE  /\ Alike(session'[t], session[t])
             /\ \A m \in MachinesOf(session[t]) :
                  /\ chosen[m] = Unknown => chosen'[m] = Unknown
                  /\ session[t].sure => /\ defconfig'[m] = defconfig[m]
                                        /\ chosen'[m] \in {chosen[m], Unknown}
  <2>1. Alike(session'[t], session[t])
    BY <1>1, AlikeSame DEF SessionsRight, KnownState
  <2> SUFFICES ASSUME NEW m \in MachinesOf(session[t])
               PROVE  /\ chosen[m] = Unknown => chosen'[m] = Unknown
                      /\ session[t].sure => /\ defconfig'[m] = defconfig[m]
                                            /\ chosen'[m] \in {chosen[m], Unknown}
    BY <2>1
  <2>2. m \in Machines
    BY <1>1, MachinesKnown
  <2>3. m = Target(s) => ~ session[s].sure /\ ~ session[t].sure
    BY <1>1, NotTarget
  <2> QED
    BY <2>2, <2>3
<1> QED
  BY <1>2, <1>3, Kept4

LEMMA WriteFrontendSaved ==
  ASSUME SavedInv, NEW s \in Sessions, WriteFrontend(s)
  PROVE  SavedInv'
<1> DEFINE k == session[s].kconf
           exact == session[s].sure /\ k.machine = session[s].machine
                      /\ workspace' = FrontendValues(k)
<1>1. WholeInv' /\ MenuState(session[s]) /\ At(s, "starting") /\ session[s].pc = "opening"
      /\ UNCHANGED defconfig
      /\ chosen' = [m \in Machines |->
            IF m \in (IF exact THEN {} ELSE MachinesOf(session[s]) \cup Named(workspace'))
              THEN Unknown ELSE chosen[m]]
  BY WriteFrontendStep DEF SavedInv, WriteFrontend, Forget
<1>2. /\ MenuState(session'[s]) /\ session'[s].pc = "starting" /\ session'[s].kconf = k
      /\ session'[s].machine = session[s].machine /\ session'[s].sure = session[s].sure
      /\ \A t \in Sessions \ {s} : session'[t] = session[t]
  BY <1>1, AtStep DEF SavedInv, WholeInv
<1>3. /\ Busy(s) /\ Target(s) = k.machine /\ k.machine \in MachinesOf(session[s])
      /\ Kconf(k) /\ k.machine \in Machines
      /\ session[s].kind = "menu" /\ session'[s].kind = "menu"
  BY <1>1, <1>2, AtWork DEF SavedInv, WholeInv, MenuState
<1>4. MachinesOf(session'[s]) = MachinesOf(session[s])
  BY <1>1, <1>2, <1>3 DEF MachinesOf
<1>5. SessionFine(s)'
  BY <1>2, <1>3 DEF SessionFine, WritesAlone, OpeningShows, PackageKept, Writing
<1>6. ChosenBuilt'
  <2> SUFFICES ASSUME NEW m \in Machines, chosen'[m] # Unknown
               PROVE  /\ Says(m, defconfig[m])'
                      /\ Get(workspace', "MACHINE", Nothing) = m =>
                           Says(m, Over(workspace, defconfig[m]))'
    BY DEF ChosenBuilt, Get
  <2>1. /\ chosen'[m] = chosen[m]
        /\ exact \/ m \notin MachinesOf(session[s]) \cup Named(workspace')
    BY <1>1
  <2>2. Says(m, defconfig[m])'
    BY <1>1, <2>1 DEF SavedInv, ChosenBuilt, Says
  <2>3. ASSUME Get(workspace', "MACHINE", Nothing) = m
        PROVE  Says(m, Over(workspace, defconfig[m]))'
    <3>1. exact
      BY <2>1, <2>3 DEF Named
    <3>2. m = k.machine
      BY <1>3, <2>3, <3>1, WrittenReadable DEF Get
    <3>3. /\ Shown(k) = chosen[m]
          /\ k.rootfs # "none" /\ k.format[k.rootfs] = "romfs" =>
               "ROOTFS_IMAGE_SIZE_MB" \notin DOMAIN defconfig[m]
      BY <1>1, <2>1, <3>1, <3>2 DEF SavedInv, SessionFine, OpeningShows
    <3>4. SaysShown(k, Over(FrontendValues(k), defconfig[m]))
      BY <1>3, <3>3, MenuSays
    <3>5. /\ Legible(m, Over(FrontendValues(k), defconfig[m]))
          /\ BuiltFrom(m, Over(FrontendValues(k), defconfig[m])) = chosen[m]
      BY <1>3, <3>2, <3>3, <3>4, ShownIsBuilt
    <3> QED
      BY <1>1, <2>1, <3>1, <3>5 DEF Says
  <2> QED
    BY <2>2, <2>3
<1> HIDE DEF exact
<1> QED
  BY <1>1, <1>2, <1>3, <1>4, <1>5, <1>6, KeptAlone DEF SavedInv

LEMMA StartMenuSaved ==
  ASSUME SavedInv, NEW s \in Sessions, StartMenu(s)
  PROVE  SavedInv'
<1>1. PICK k : LET state == [session[s] EXCEPT !.pc = "menu", !.kconf = k]
               IN  /\ WholeInv' /\ Become(s, state)
                   /\ MenuState(session[s]) /\ MenuState(state)
                   /\ session[s].pc = "starting" /\ state.pc = "menu"
                   /\ UNCHANGED <<defconfig, workspace, mixed, menus, kills, chosen>>
  BY StartMenuStep, Zenon DEF SavedInv
<1> DEFINE state == [session[s] EXCEPT !.pc = "menu", !.kconf = k]
<1>2. /\ WholeInv' /\ Become(s, state) /\ MenuState(state) /\ state # Idle /\ state.pc = "menu"
      /\ UNCHANGED <<defconfig, workspace, chosen>>
  BY <1>1, PlacesKnown
<1> HIDE DEF state
<1>3. /\ SureAlone' /\ Alike(session'[s], state)
      /\ \A t \in Sessions \ {s} : Alike(session'[t], session[t])
  BY <1>2, Became DEF SavedInv, WholeInv
<1>4. session'[s].pc = "menu" /\ session'[s].kind = "menu"
  BY <1>2, <1>3 DEF Alike, MenuState
<1>5. SessionFine(s)'
  BY <1>4 DEF SessionFine, WritesAlone, OpeningShows, PackageKept, Writing
<1>6. ChosenBuilt'
  BY <1>2, ChosenStill DEF SavedInv
<1> QED
  BY <1>2, <1>3, <1>5, <1>6, Kept4 DEF SavedInv

\* The menu's own saving promises nothing.
LEMMA SavingMoves ==
  ASSUME SavedInv, NEW s \in Sessions, MenuState(session[s]), WholeInv',
         \/ session[s].pc = "menu" /\ At(s, "saving")
         \/ session[s].pc = "saving" /\ At(s, "menu"),
         UNCHANGED defconfig, NEW ms, Forget(ms), Named(workspace') \subseteq ms \cup {Nothing}
  PROVE  SavedInv'
<1>1. /\ MenuState(session'[s]) /\ session'[s].kconf = session[s].kconf
      /\ session'[s].machine = session[s].machine /\ session'[s].sure = session[s].sure
      /\ session'[s].pc \in {"menu", "saving"}
      /\ \A t \in Sessions \ {s} : session'[t] = session[t]
  BY AtStep DEF SavedInv, WholeInv
<1>2. Busy(s) /\ session[s].kind = "menu" /\ session'[s].kind = "menu"
  BY <1>1, AtWork DEF SavedInv, WholeInv, MenuState
<1>3. MachinesOf(session'[s]) = MachinesOf(session[s])
  <2>1. session[s].pc # "idle" /\ session'[s].pc # "idle"
    BY <1>1 DEF MenuState, Writing
  <2> QED
    BY <1>1, <1>2, <2>1 DEF MachinesOf
<1>4. SessionFine(s)'
  BY <1>1, <1>2 DEF SessionFine, WritesAlone, OpeningShows, PackageKept, Writing
<1>5. chosen' = [m \in Machines |-> IF m \in ms THEN Unknown ELSE chosen[m]]
  BY DEF Forget
<1>6. ChosenBuilt'
  <2>1. Nothing \notin Machines
    BY MenuconfigAssumption DEF MenuconfigAssumption
  <2>2. \A m \in Machines : chosen'[m] # Unknown =>
          chosen'[m] = chosen[m] /\ Get(workspace', "MACHINE", Nothing) # m
    BY <1>5, <2>1 DEF Named
  <2> QED
    BY <2>2, ChosenStill DEF SavedInv
<1> QED
  BY <1>1, <1>2, <1>3, <1>4, <1>5, <1>6, KeptAlone

LEMMA OpenSaveSaved ==
  ASSUME SavedInv, NEW s \in Sessions, OpenSave(s)
  PROVE  SavedInv'
<1>1. Named(workspace') = {Nothing}
  BY DEF OpenSave, Named, Get, Empty
<1> QED
  BY <1>1, OpenSaveStep, SavingMoves DEF SavedInv, OpenSave

LEMMA SaveInMenuSaved ==
  ASSUME SavedInv, NEW s \in Sessions, SaveInMenu(s)
  PROVE  SavedInv'
BY SaveInMenuStep, SavingMoves DEF SavedInv, SaveInMenu

LEMMA ChooseOptionSaved ==
  ASSUME SavedInv, NEW s \in Sessions, ChooseOption(s)
  PROVE  SavedInv'
<1> DEFINE old == session[s]  new == session'[s]
<1>1. /\ WholeInv' /\ UNCHANGED <<defconfig, workspace, chosen>>
      /\ PackageState(old) /\ PackageState(new) /\ old.pc = "menu"
      /\ new.pc = "menu" /\ new.machine = old.machine /\ new.sure = old.sure
      /\ new.initial = old.initial
      /\ \A t \in Sessions \ {s} : session'[t] = session[t]
  <2>1. new = [pc |-> "menu", kind |-> "package", machine |-> old.machine,
               edits |-> new.edits, sure |-> old.sure, board |-> old.board,
               package |-> old.package, initial |-> old.initial, mixed |-> old.mixed,
               option |-> new.option]
    BY ChooseOptionStep DEF SavedInv
  <2>2. new.pc = "menu" /\ new.machine = old.machine /\ new.sure = old.sure
        /\ new.initial = old.initial
    BY <2>1
  <2> QED
    BY <2>2, ChooseOptionStep DEF SavedInv
<1>2. old.kind = "package" /\ new.kind = "package" /\ Busy(s)
  BY <1>1, AtWork DEF SavedInv, WholeInv, PackageState
<1>3. MachinesOf(new) = MachinesOf(old)
  BY <1>1, <1>2 DEF MachinesOf
<1>4. PackageKept(s)'
  BY <1>1, <1>2 DEF SavedInv, SessionFine, PackageKept
<1>5. SessionFine(s)'
  BY <1>1, <1>4 DEF SessionFine, WritesAlone, OpeningShows, Writing
<1>6. ChosenBuilt'
  BY <1>1, ChosenStill DEF SavedInv
<1> HIDE DEF old, new
<1> QED
  BY <1>1, <1>2, <1>3, <1>5, <1>6, KeptAlone DEF SavedInv, old, new

LEMMA CutDefconfigSaved ==
  ASSUME SavedInv, NEW s \in Sessions, CutDefconfig(s)
  PROVE  SavedInv'
<1> DEFINE old == session[s]  new == session'[s]
<1>1. /\ WholeInv' /\ \A t \in Sessions \ {s} : session'[t] = session[t]
      /\ new.pc = "defconfig" /\ new.kind = old.kind /\ new.machine = old.machine
      /\ new.sure = old.sure
      /\ MenuState(old) => MenuState(new) /\ new.kconf = old.kconf
      /\ PackageState(old) => PackageState(new) /\ new.board = defconfig[Target(s)]
                                /\ new.initial = old.initial
      /\ Busy(s) /\ old.pc = "menu"
  BY CutDefconfigStep DEF SavedInv
<1>2. /\ UNCHANGED workspace /\ defconfig' = [defconfig EXCEPT ![Target(s)] = Empty]
      /\ chosen' = [m \in Machines |-> IF m \in {Target(s)} THEN Unknown ELSE chosen[m]]
  BY DEF CutDefconfig, Forget
<1>3. /\ Target(s) \in Machines
      /\ MenuState(old) => old.kind = "menu" /\ Target(s) = old.kconf.machine
      /\ PackageState(old) => old.kind = "package" /\ Target(s) = old.machine
      /\ MenuState(old) \/ PackageState(old)
  BY <1>1, AtWork DEF SavedInv, WholeInv
<1>4. MachinesOf(new) = MachinesOf(old)
  BY <1>1, <1>3 DEF MachinesOf
<1>5. Target(s)' = Target(s)
  BY <1>1, <1>3 DEF Target
<1>6. WritesAlone(s)'
  <2>1. defconfig'[Target(s)] = Empty
    BY <1>2, <1>3 DEF SavedInv, WholeInv, FilesReadable
  <2> QED
    BY <1>1, <1>2, <1>3, <1>5, <2>1 DEF WritesAlone
<1>7. PackageKept(s)'
  BY <1>1, <1>3 DEF SavedInv, SessionFine, PackageKept
<1>8. SessionFine(s)'
  BY <1>1, <1>6, <1>7 DEF SessionFine, OpeningShows
<1>9. \A m \in Machines : m # Target(s) =>
        defconfig'[m] = defconfig[m] /\ chosen'[m] = chosen[m]
  BY <1>2 DEF SavedInv, WholeInv, FilesReadable
<1>10. chosen'[Target(s)] = Unknown
  BY <1>2, <1>3
<1>11. ChosenBuilt'
  BY <1>2, <1>9, <1>10, ChosenStill DEF SavedInv
<1> HIDE DEF old, new
<1> QED
  BY <1>1, <1>2, <1>4, <1>8, <1>9, <1>10, <1>11, KeptAlone DEF SavedInv, old, new

LEMMA FillDefconfigSaved ==
  ASSUME SavedInv, NEW s \in Sessions, FillDefconfig(s)
  PROVE  SavedInv'
<1> DEFINE old == session[s]  new == session'[s]
<1>1. /\ WholeInv' /\ At(s, "written") /\ old.pc = "defconfig" /\ old.pc \in Writing
      /\ MenuState(old) \/ PackageState(old)
      /\ UNCHANGED <<workspace, chosen>>
      /\ \E text \in Overlaid(NewDefconfig(s), defconfig[Target(s)]) :
           defconfig' = [defconfig EXCEPT ![Target(s)] = text]
  BY FillDefconfigStep DEF SavedInv, FillDefconfig
<1>2. /\ \A t \in Sessions \ {s} : session'[t] = session[t]
      /\ new.pc = "written" /\ new.kind = old.kind /\ new.machine = old.machine
      /\ new.board = old.board /\ new.sure = old.sure
      /\ MenuState(old) => new.kconf = old.kconf
      /\ PackageState(old) => new.package = old.package /\ new.initial = old.initial
                                /\ new.option = old.option
  BY <1>1, AtStep DEF SavedInv, WholeInv, Writing
<1>3. /\ Target(s) \in Machines /\ Busy(s)
      /\ MenuState(old) => old.kind = "menu" /\ Target(s) = old.kconf.machine
      /\ PackageState(old) => old.kind = "package" /\ Target(s) = old.machine
  BY <1>1, AtWork DEF SavedInv, WholeInv
<1>4. MachinesOf(new) = MachinesOf(old)
  BY <1>1, <1>2, <1>3 DEF MachinesOf
<1>5. Target(s)' = Target(s) /\ NewDefconfig(s)' = NewDefconfig(s)
  BY <1>1, <1>2, <1>3 DEF Target, NewDefconfig, NativeValues
<1>6. chosen[Target(s)] = Unknown
  BY <1>1 DEF SavedInv, SessionFine, WritesAlone
<1>7. old.sure => defconfig'[Target(s)] = NewDefconfig(s)
  <2>1. old.sure => defconfig[Target(s)] = Empty
    BY <1>1 DEF SavedInv, SessionFine, WritesAlone
  <2>2. old.sure => defconfig' = [defconfig EXCEPT ![Target(s)] = NewDefconfig(s)]
    BY <1>1, <2>1 DEF Overlaid
  <2> QED
    BY <1>3, <2>2 DEF SavedInv, WholeInv, FilesReadable
<1>8. WritesAlone(s)'
  BY <1>1, <1>2, <1>5, <1>6, <1>7 DEF WritesAlone
<1>9. PackageKept(s)'
  BY <1>1, <1>2, <1>3 DEF SavedInv, SessionFine, PackageKept
<1>10. SessionFine(s)'
  BY <1>2, <1>8, <1>9 DEF SessionFine, OpeningShows
<1>11. \A m \in Machines : m # Target(s) => defconfig'[m] = defconfig[m]
  BY <1>1 DEF SavedInv, WholeInv, FilesReadable
<1>12. ChosenBuilt'
  BY <1>1, <1>6, <1>11, ChosenStill DEF SavedInv
<1> HIDE DEF old, new
<1> QED
  BY <1>1, <1>2, <1>3, <1>4, <1>10, <1>11, <1>12, KeptAlone DEF SavedInv, old, new

LEMMA CutWorkspaceSaved ==
  ASSUME SavedInv, NEW s \in Sessions, CutWorkspace(s)
  PROVE  SavedInv'
<1> DEFINE old == session[s]  new == session'[s]
<1>1. /\ WholeInv' /\ At(s, "workspace") /\ old.pc = "written" /\ old.pc \in Writing
      /\ MenuState(old) \/ PackageState(old)
      /\ UNCHANGED <<defconfig, chosen>> /\ Get(workspace', "MACHINE", Nothing) = Nothing
  <2>1. DOMAIN Empty = {}
    BY DEF Empty
  <2> QED
    BY <2>1, CutWorkspaceStep DEF SavedInv, CutWorkspace, Writing, Get
<1>2. /\ \A t \in Sessions \ {s} : session'[t] = session[t]
      /\ new.pc = "workspace" /\ new.kind = old.kind /\ new.machine = old.machine
      /\ new.board = old.board /\ new.sure = old.sure
      /\ MenuState(old) => new.kconf = old.kconf
      /\ PackageState(old) => new.package = old.package /\ new.initial = old.initial
                                /\ new.option = old.option
  BY <1>1, AtStep DEF SavedInv, WholeInv, Writing
<1>3. /\ Target(s) \in Machines /\ Busy(s)
      /\ MenuState(old) => old.kind = "menu" /\ Target(s) = old.kconf.machine
      /\ PackageState(old) => old.kind = "package" /\ Target(s) = old.machine
  BY <1>1, AtWork DEF SavedInv, WholeInv
<1>4. MachinesOf(new) = MachinesOf(old)
  BY <1>1, <1>2, <1>3 DEF MachinesOf
<1>5. Target(s)' = Target(s) /\ NewDefconfig(s)' = NewDefconfig(s)
  BY <1>1, <1>2, <1>3 DEF Target, NewDefconfig, NativeValues
<1>6. WritesAlone(s)'
  BY <1>1, <1>2, <1>5 DEF SavedInv, SessionFine, WritesAlone
<1>7. PackageKept(s)'
  BY <1>1, <1>2, <1>3 DEF SavedInv, SessionFine, PackageKept
<1>8. SessionFine(s)'
  BY <1>2, <1>6, <1>7 DEF SessionFine, OpeningShows
<1>9. ChosenBuilt'
  <2>1. Nothing \notin Machines
    BY MenuconfigAssumption DEF MenuconfigAssumption
  <2> QED
    BY <1>1, <2>1, ChosenStill DEF SavedInv
<1> HIDE DEF old, new
<1> QED
  BY <1>1, <1>2, <1>3, <1>4, <1>8, <1>9, KeptAlone DEF SavedInv, old, new

\* What a sure command has written is what it says it saved.
LEMMA SavedSays ==
  ASSUME SavedInv, NEW s \in Sessions, session[s].pc = "workspace", session[s].sure
  PROVE  LET values == NewWorkspace(s)  board == defconfig[Target(s)]
         IN  /\ Legible(Target(s), board) /\ BuiltFrom(Target(s), board) = Saved(s)
             /\ Over(values, board) = values
             /\ Legible(Target(s), values) /\ BuiltFrom(Target(s), values) = Saved(s)
<1>1. /\ defconfig[Target(s)] = NewDefconfig(s) /\ PackageKept(s)
      /\ MenuState(session[s]) \/ PackageState(session[s])
  <2>1. WritesAlone(s) /\ PackageKept(s) /\ SessionsRight
    BY Zenon DEF SavedInv, SessionFine, WholeInv
  <2>2. Busy(s)
    BY DEF Busy
  <2> QED
    BY <2>1, <2>2, AtWork DEF WritesAlone
<1>2. CASE MenuState(session[s])
  <2> DEFINE k == session[s].kconf
             values == ConfigValues(k)
             board == DefconfigOf(values, OwnedKeys, PackageKeys)
  <2>1. Kconf(k) /\ session[s].kind = "menu" /\ Target(s) = k.machine
    BY <1>2, AtWork DEF SavedInv, WholeInv, MenuState
  <2>2. NewDefconfig(s) = board /\ NewWorkspace(s) = values /\ Saved(s) = Shown(k)
    BY <2>1 DEF NewDefconfig, NewWorkspace, Saved
  <2>3. SaysShown(k, values) /\ SaysShown(k, board) /\ Over(values, board) = values
    BY <2>1, MenuSays
  <2> HIDE DEF values, board, k
  <2> QED
    BY <1>1, <2>1, <2>2, <2>3, ShownIsBuilt
<1>3. CASE PackageState(session[s])
  <2> DEFINE state == session[s]
             p == state.package
             m == state.machine
             new == NativeValues(s)
             values == Replaced(state.initial, Symbols(p), new)
             replaced == Replaced(state.board, Symbols(p), new)
             board == DefconfigOf(replaced, DOMAIN replaced, Symbols(p))
  <2>1. /\ state.kind = "package" /\ Target(s) = m /\ m \in Machines /\ p \in Natives /\ Busy(s)
    BY <1>3, AtWork DEF SavedInv, WholeInv, PackageState
  <2>2. NewDefconfig(s) = board /\ NewWorkspace(s) = values /\ Saved(s) = BuiltFrom(m, values)
    BY <2>1 DEF NewDefconfig, NewWorkspace, Saved
  <2>3. Kept(m, state.initial, state.board)
    BY <1>1, <2>1 DEF PackageKept
  <2>4. DOMAIN new \subseteq Symbols(p) /\ p \in DOMAIN new
        /\ \A key \in DOMAIN new : new[key] = "y"
    BY DEF NativeValues, Symbols
  <2> HIDE DEF new, p, m
  <2>5. Legible(m, values) /\ Legible(m, board) /\ BuiltFrom(m, values) = BuiltFrom(m, board)
        /\ Over(values, board) = values
    BY <2>1, <2>3, <2>4, KeptReplaced
  <2> HIDE DEF values, board, state
  <2> QED
    BY <1>1, <2>1, <2>2, <2>5
<1> QED
  BY <1>1, <1>2, <1>3

\* The command ends.
LEMMA IdleFine ==
  ASSUME NEW s \in Sessions, session'[s] = Idle
  PROVE  SessionFine(s)' /\ ~ Busy(s)'
BY DEF SessionFine, WritesAlone, OpeningShows, PackageKept, Idle, Writing, Busy

LEMMA FillWorkspaceExact ==
  ASSUME SavedInv, NEW s \in Sessions, FillWorkspace(s), session[s].sure,
         workspace' = NewWorkspace(s)
  PROVE  SavedInv'
<1>1. /\ WholeInv' /\ session'[s] = Idle /\ session[s].pc = "workspace"
      /\ \A t \in Sessions \ {s} : session'[t] = session[t]
      /\ UNCHANGED defconfig
      /\ chosen' = [chosen EXCEPT ![Target(s)] = Saved(s)]
  BY FillWorkspaceStep DEF SavedInv, FillWorkspace
<1>2. Target(s) \in Machines /\ Busy(s)
  BY <1>1, AtWork DEF SavedInv, WholeInv, Busy
<1>3. /\ chosen' = [m \in Machines |-> chosen'[m]]
      /\ \A m \in Machines : m # Target(s) => chosen'[m] = chosen[m]
      /\ chosen'[Target(s)] = Saved(s)
  BY <1>1, <1>2 DEF SavedInv
<1>4. Get(workspace', "MACHINE", Nothing) \in {Nothing, Target(s)}
  BY <1>1, NewReadable DEF SavedInv, Get, Writing
<1>5. SessionFine(s)' /\ ~ Busy(s)'
  BY <1>1, IdleFine
<1>6. ChosenBuilt'
  <2> SUFFICES ASSUME NEW m \in Machines, chosen'[m] # Unknown
               PROVE  /\ Says(m, defconfig[m])'
                      /\ Get(workspace', "MACHINE", Nothing) = m =>
                           Says(m, Over(workspace, defconfig[m]))'
    BY DEF ChosenBuilt, Get
  <2>1. CASE m = Target(s)
    <3>1. chosen'[m] = Saved(s)
      BY <1>3, <2>1
    <3>2. LET values == NewWorkspace(s)  board == defconfig[Target(s)]
          IN  /\ Legible(Target(s), board) /\ BuiltFrom(Target(s), board) = Saved(s)
              /\ Over(values, board) = values
              /\ Legible(Target(s), values) /\ BuiltFrom(Target(s), values) = Saved(s)
      BY <1>1, SavedSays
    <3>3. /\ Legible(m, defconfig'[m]) /\ BuiltFrom(m, defconfig'[m]) = chosen'[m]
          /\ Legible(m, Over(workspace', defconfig'[m]))
          /\ BuiltFrom(m, Over(workspace', defconfig'[m])) = chosen'[m]
      BY <1>1, <2>1, <3>1, <3>2
    <3> QED
      BY <3>3 DEF Says
  <2>2. CASE m # Target(s)
    <3>1. Nothing \notin Machines
      BY MenuconfigAssumption DEF MenuconfigAssumption
    <3>2. chosen'[m] = chosen[m] /\ Get(workspace', "MACHINE", Nothing) # m
      BY <1>3, <1>4, <2>2, <3>1
    <3> QED
      BY <1>1, <3>2 DEF SavedInv, ChosenBuilt, Says
  <2> QED
    BY <2>1, <2>2
<1> QED
  BY <1>1, <1>2, <1>3, <1>5, <1>6, KeptAlone

LEMMA FillWorkspaceSaved ==
  ASSUME SavedInv, NEW s \in Sessions, FillWorkspace(s)
  PROVE  SavedInv'
<1>1. CASE session[s].sure /\ workspace' = NewWorkspace(s)
  BY <1>1, FillWorkspaceExact
<1>2. CASE ~ (session[s].sure /\ workspace' = NewWorkspace(s))
  <2>1. /\ WholeInv' /\ session'[s] = Idle /\ session[s].pc = "workspace"
        /\ \A t \in Sessions \ {s} : session'[t] = session[t]
        /\ UNCHANGED defconfig
        /\ chosen' = [m \in Machines |-> IF m \in {Target(s)} \cup Named(workspace')
                                         THEN Unknown ELSE chosen[m]]
    BY <1>2, FillWorkspaceStep DEF SavedInv, FillWorkspace, Forget
  <2>2. SessionFine(s)' /\ ~ Busy(s)' /\ Busy(s)
    BY <2>1, IdleFine DEF Busy
  <2>3. ChosenBuilt'
    BY <2>1, ChosenStill DEF SavedInv, Named
  <2> QED
    BY <2>1, <2>2, <2>3, KeptAlone
<1> QED
  BY <1>1, <1>2

LEMMA KillSaved ==
  ASSUME SavedInv, NEW s \in Sessions, Kill(s)
  PROVE  SavedInv'
<1>1. /\ WholeInv' /\ session'[s] = Idle /\ Busy(s)
      /\ \A t \in Sessions \ {s} : session'[t] = session[t]
      /\ UNCHANGED <<defconfig, workspace, chosen>>
  BY KillStep DEF SavedInv, Kill
<1>2. SessionFine(s)' /\ ~ Busy(s)'
  BY <1>1, IdleFine
<1>3. ChosenBuilt'
  BY <1>1, ChosenStill DEF SavedInv
<1> QED
  BY <1>1, <1>2, <1>3, KeptAlone DEF SavedInv

LEMMA GiveUpSaved ==
  ASSUME SavedInv, NEW s \in Sessions, GiveUp(s)
  PROVE  SavedInv'
<1>1. /\ WholeInv' /\ session'[s] = Idle /\ Busy(s)
      /\ \A t \in Sessions \ {s} : session'[t] = session[t]
      /\ UNCHANGED <<defconfig, workspace, chosen>>
  BY GiveUpStep DEF SavedInv, GiveUp, Menu, Busy
<1>2. SessionFine(s)' /\ ~ Busy(s)'
  BY <1>1, IdleFine
<1>3. ChosenBuilt'
  BY <1>1, ChosenStill DEF SavedInv
<1> QED
  BY <1>1, <1>2, <1>3, KeptAlone DEF SavedInv

LEMMA DefconfigFailsSaved ==
  ASSUME SavedInv, NEW s \in Sessions, DefconfigFails(s)
  PROVE  SavedInv'
<1>1. /\ WholeInv' /\ session'[s] = Idle /\ session[s].pc = "defconfig"
      /\ \A t \in Sessions \ {s} : session'[t] = session[t]
      /\ UNCHANGED <<workspace, chosen>>
  BY DefconfigFailsStep DEF SavedInv, DefconfigFails
<1>2. SessionFine(s)' /\ ~ Busy(s)' /\ Busy(s)
  BY <1>1, IdleFine DEF Busy
<1>3. \A m \in Machines : m # Target(s) => defconfig'[m] = defconfig[m]
  BY DEF DefconfigFails, SavedInv, WholeInv, FilesReadable
<1>4. chosen[Target(s)] = Unknown
  BY <1>1 DEF SavedInv, SessionFine, WritesAlone, Writing
<1>5. ChosenBuilt'
  BY <1>1, <1>3, <1>4, ChosenStill DEF SavedInv
<1> QED
  BY <1>1, <1>2, <1>3, <1>5, KeptAlone DEF SavedInv

LEMMA WorkspaceFailsSaved ==
  ASSUME SavedInv, NEW s \in Sessions, WorkspaceFails(s)
  PROVE  SavedInv'
<1>1. /\ WholeInv' /\ session'[s] = Idle
      /\ \A t \in Sessions \ {s} : session'[t] = session[t]
      /\ session[s].pc \in {"opening", "workspace"} /\ UNCHANGED defconfig
      /\ chosen' = [m \in Machines |-> IF m \in Named(workspace') THEN Unknown ELSE chosen[m]]
  BY WorkspaceFailsStep DEF SavedInv, WorkspaceFails, Forget
<1>2. SessionFine(s)' /\ ~ Busy(s)' /\ Busy(s)
  BY <1>1, IdleFine DEF Busy
<1>3. ChosenBuilt'
  BY <1>1, ChosenStill DEF SavedInv, Named
<1> QED
  BY <1>1, <1>2, <1>3, KeptAlone

LEMMA SavedInvariant == Spec => []SavedInv
<1>1. Init => SavedInv
  <2> SUFFICES ASSUME Init PROVE SavedInv
    OBVIOUS
  <2>1. WholeInv
    BY InitWhole
  <2>2. \A s \in Sessions : session[s] = Idle
    BY DEF Init
  <2>3. SureAlone /\ \A s \in Sessions : SessionFine(s)
    BY <2>2 DEF SureAlone, SessionFine, WritesAlone, OpeningShows, PackageKept, Idle, Writing,
       Busy
  <2>4. chosen = [m \in Machines |-> chosen[m]] /\ \A m \in Machines : Says(m, defconfig[m])
    BY BoardsAssumption DEF Init, Says
  <2>5. ChosenBuilt
    <3>1. Nothing \notin Machines
      BY MenuconfigAssumption DEF MenuconfigAssumption
    <3>2. Get(workspace, "MACHINE", Nothing) = Nothing
      BY DEF Init, Empty, Get
    <3> QED
      BY <2>4, <3>1, <3>2 DEF ChosenBuilt
  <2> QED
    BY <2>1, <2>3, <2>4, <2>5 DEF SavedInv
<1>2. SavedInv /\ [Next]_vars => SavedInv'
  <2> SUFFICES ASSUME SavedInv, [Next]_vars PROVE SavedInv'
    OBVIOUS
  <2>1. CASE UNCHANGED vars
    BY <2>1 DEF vars, SavedInv, WholeInv, FilesReadable, SessionsRight, SureAlone, ChosenBuilt,
       Says, SessionFine, WritesAlone, OpeningShows, PackageKept, Busy, Target, NewDefconfig,
       NativeValues
  <2>2. CASE Next
    BY <2>2, OpenMenuSaved, OpenPackageSaved, WriteFrontendSaved, StartMenuSaved, EditSaved,
       OpenSaveSaved, SaveInMenuSaved, ChooseOptionSaved, GiveUpSaved, CutDefconfigSaved,
       FillDefconfigSaved, CutWorkspaceSaved, FillWorkspaceSaved, KillSaved,
       DefconfigFailsSaved, WorkspaceFailsSaved, Zenon DEF Next
  <2> QED
    BY <2>1, <2>2
<1> QED
  BY <1>1, <1>2, PTL DEF Spec

\* What the last command for a machine saved is what is built for it, unless the
\* workspace configuration cannot be read at all.
THEOREM SavedBuilt == Spec => []SavedIsBuilt
<1>1. ASSUME SavedInv PROVE SavedIsBuilt
  <2>1. ASSUME NEW m \in Machines, chosen[m] # Unknown, workspace # Unreadable
        PROVE  Built(m) = chosen[m]
    <3>1. Says(m, InitialValues(m)) /\ Says(m, defconfig[m])
      BY <1>1, <2>1, InitialSays DEF SavedInv
    <3>2. defconfig[m] # Unreadable
      BY <3>1 DEF Says, Legible, Unreadable
    <3> QED
      BY <2>1, <3>1, <3>2 DEF Says, Built, Refused
  <2> QED
    BY <2>1 DEF SavedIsBuilt
<1> QED
  BY <1>1, SavedInvariant, PTL
-----------------------------------------------------------------------------
(* The source of a package.                                                *)

\* What a file may be.
File(c) ==
  /\ c.is \in {"regular", "absent", "odd"}
  /\ c.is = "absent" <=> c = Source!Absent
  /\ c.is = "odd" <=> c = Source!Odd

Files == /\ saved = [d \in Source!Destinations |-> saved[d]]
         /\ \A d \in Source!Destinations : File(saved[d])
         /\ disturbed \subseteq Machines

TreeShape(t) ==
  /\ t = [of |-> t.of, whole |-> t.whole, local |-> t.local, applied |-> t.applied,
          config |-> t.config]
  /\ t.config = [s \in Source!Sources |-> t.config[s]]
  /\ \A s \in Source!Sources : File(t.config[s])

CommandShape(c) ==
  /\ c = [task |-> c.task, i |-> c.i, session |-> c.session, kind |-> c.kind,
          revision |-> c.revision, pc |-> c.pc]
  /\ c.task \in {"compile", "seed"} /\ c.kind \in Kinds /\ c.i \in Nat \ {0}
  /\ c.pc \in {"clear", "unpack", "remove", "copy", "clone", "locals", "patch", "restore",
               "compile", "seed", "menu", "save"}
  /\ c.pc \in {"clear", "unpack", "copy"} => c.kind = "archive"
  /\ c.pc = "clone" => c.kind = "git"
  /\ c.pc \in {"remove", "locals", "patch", "restore"} => c.kind # "directory"
  /\ c.pc = "patch" => c.i <= Len(Patches) + 1
  /\ c.pc \in {"restore", "seed", "save"} => c.i <= Len(Sync) + 1

Shapes ==
  /\ Files /\ declared.kind \in Kinds
  /\ tree = [p \in Source!Places |-> tree[p]] /\ \A p \in Source!Places : TreeShape(tree[p])
  /\ side = [m \in Machines |-> side[m]]
  /\ command = [m \in Machines |-> command[m]]
  /\ \A m \in Machines : command[m] = Source!Idle \/ CommandShape(command[m])

\* What is unpacked or cloned is the revision that the command was planned with.
Unpacked(m) ==
  LET c == command[m]
  IN  /\ c.pc = "unpack" => side[m] = {}
      /\ c.pc \in {"remove", "copy"} /\ c.kind = "archive" => side[m] = {c.revision}
      /\ c.pc \in {"copy", "clone"} => tree[m] = Source!NoTree
      /\ c.pc = "locals" =>
           tree[m] = [of |-> {c.revision}, whole |-> TRUE, local |-> <<>>, applied |-> <<>>,
                      config |-> Shipped]

\* The patches before the i-th, in the editions copied.
PatchesBefore(i, local) == [j \in 1 .. i - 1 |-> <<Patches[j], local[Patches[j]]>>]

\* The saved files before the i-th, over those shipped.
From(i, s) == {j \in DOMAIN Sync : /\ j < i /\ Sync[j].source = s
                                   /\ saved[Sync[j].destination] # Source!Absent}
SavedOver(i) ==
  [s \in Source!Sources |->
     IF From(i, s) = {} THEN Shipped[s]
     ELSE saved[Sync[CHOOSE j \in From(i, s) : \A k \in From(i, s) : k <= j].destination]]

Prepare(m) ==
  LET c == command[m]
      t == tree[m]
  IN  /\ c.pc = "patch" =>
           t = [of |-> {c.revision}, whole |-> TRUE, local |-> t.local,
                applied |-> PatchesBefore(c.i, t.local), config |-> Shipped]
      /\ c.pc = "patch" /\ m \notin disturbed => t.local = version
      /\ c.pc = "restore" /\ m \notin disturbed =>
           t = [of |-> {c.revision}, whole |-> TRUE, local |-> version,
                applied |-> PatchesBefore(Len(Patches) + 1, version),
                config |-> SavedOver(c.i)]
      /\ c.pc = "compile" /\ c.kind # "directory" /\ m \notin disturbed =>
           t = [of |-> {c.revision}, whole |-> TRUE, local |-> version,
                applied |-> PatchesBefore(Len(Patches) + 1, version),
                config |-> SavedOver(Len(Sync) + 1)]

\* A file that was put back is one of those saved for its place.
PutBackUpTo(m, i) ==
  \A s \in Source!Sources : From(i, s) # {} =>
    \E j \in From(i, s) : tree[Source!Place(m)].config[s] = saved[Sync[j].destination]

Restores(m) ==
  LET c == command[m]
  IN m \notin disturbed =>
       /\ c.pc \in {"restore", "seed"} => PutBackUpTo(m, c.i)
       /\ c.pc = "menu" => PutBackUpTo(m, Len(Sync) + 1)
       /\ c.pc = "compile" /\ c.kind # "directory" => PutBackUpTo(m, Len(Sync) + 1)

Saves(m) ==
  LET config == tree[Source!Place(m)].config
  IN command[m].pc = "save" /\ m \notin disturbed =>
       /\ \A s \in Source!Sources : config[s].is = "regular"
       /\ \A j \in DOMAIN Sync :
            j < command[m].i => saved[Sync[j].destination] = config[Sync[j].source]

ChoiceSaved ==
  choice # Source!Forgotten =>
    /\ choice = [s \in Source!Sources |-> choice[s]]
    /\ \A j \in DOMAIN Sync : /\ saved[Sync[j].destination] = choice[Sync[j].source]
                              /\ choice[Sync[j].source].is = "regular"

CommandFine(m) == Unpacked(m) /\ Prepare(m) /\ Restores(m) /\ Saves(m)

SourceInv == Shapes /\ ChoiceSaved /\ \A m \in Machines : CommandFine(m)
LEMMA SyncFacts ==
  /\ Len(Sync) \in Nat /\ DOMAIN Sync = 1 .. Len(Sync)
  /\ Len(Patches) \in Nat /\ DOMAIN Patches = 1 .. Len(Patches)
  /\ \A i \in DOMAIN Sync :
       Sync[i].source \in Source!Sources /\ Sync[i].destination \in Source!Destinations
  /\ \A i, j \in DOMAIN Sync : Sync[i].destination = Sync[j].destination => i = j
<1>1. /\ Len(Sync) \in Nat /\ DOMAIN Sync = 1 .. Len(Sync)
      /\ Len(Patches) \in Nat /\ DOMAIN Patches = 1 .. Len(Patches)
  BY SourceAssumption DEF Source!PackageSourceAssumption
<1>2. \A i, j \in DOMAIN Sync : Sync[i].destination = Sync[j].destination => i = j
  BY SourceAssumption DEF Source!PackageSourceAssumption
<1> QED
  BY <1>1, <1>2 DEF Source!Sources, Source!Destinations

LEMMA FileFacts ==
  /\ \A n : File(Source!Regular(n)) /\ Source!Regular(n).is = "regular"
  /\ File(Source!Absent) /\ File(Source!Odd) /\ Source!Absent # Source!Odd
  /\ \A c : File(c) => (c.is = "regular" => c # Source!Absent /\ c # Source!Odd)
  /\ Shipped = [s \in Source!Sources |-> Shipped[s]] /\ \A s \in Source!Sources : File(Shipped[s])
<1>1. /\ \A n : File(Source!Regular(n)) /\ Source!Regular(n).is = "regular"
      /\ File(Source!Absent) /\ File(Source!Odd) /\ Source!Absent # Source!Odd
      /\ \A c : File(c) => (c.is = "regular" => c # Source!Absent /\ c # Source!Odd)
  BY DEF File, Source!Regular, Source!Absent, Source!Odd
<1>2. Shipped \in [Source!Sources -> {Source!Regular(0), Source!Absent}]
  BY SourceAssumption DEF Source!PackageSourceAssumption
<1>3. Shipped = [s \in Source!Sources |-> Shipped[s]] /\ \A s \in Source!Sources : File(Shipped[s])
  BY <1>1, <1>2
<1> QED
  BY <1>1, <1>3

LEMMA NoTreeShape ==
  /\ TreeShape(Source!NoTree)
  /\ Source!NoTree = [of |-> {}, whole |-> FALSE, local |-> <<>>, applied |-> <<>>, config |-> Shipped]
BY FileFacts DEF TreeShape, Source!NoTree

\* A command that is at work.
LEMMA Working ==
  ASSUME Shapes, NEW m \in Machines, command[m].pc # "idle"
  PROVE  /\ CommandShape(command[m]) /\ m \in Source!Busy
         /\ Source!Place(m) \in Source!Places /\ TreeShape(tree[Source!Place(m)]) /\ TreeShape(tree[m])
         /\ m \in Source!Places /\ m # "tree"
         /\ command[m].kind # "directory" => Source!Place(m) = m
         /\ command[m].kind = "directory" => Source!Place(m) = "tree"
<1>1. command[m] # Source!Idle
  BY DEF Source!Idle
<1>2. CommandShape(command[m])
  BY <1>1 DEF Shapes
<1>3. m # "tree"
  BY SourceAssumption DEF Source!PackageSourceAssumption
<1> QED
  BY <1>2, <1>3 DEF Shapes, Source!Busy, Source!At, Source!Places, Source!Place

\* A command that has stopped, or has not begun, promises nothing.
LEMMA Stopped ==
  ASSUME NEW m \in Machines, command'[m].pc = "idle"
  PROVE  CommandFine(m)'
BY DEF CommandFine, Unpacked, Prepare, Restores, Saves

LEMMA CommandSame ==
  ASSUME NEW m \in Machines, CommandFine(m), command'[m] = command[m], side'[m] = side[m],
         tree'[m] = tree[m],
         m \notin disturbed' =>
           /\ m \notin disturbed /\ saved' = saved /\ version' = version
           /\ tree'[Source!Place(m)].config = tree[Source!Place(m)].config
  PROVE  CommandFine(m)'
<1>1. Source!Place(m)' = Source!Place(m)
  BY DEF Source!Place
<1>2. Unpacked(m)'
  BY DEF CommandFine, Unpacked
<1>3. m \notin disturbed' =>
        \A i : SavedOver(i)' = SavedOver(i) /\ PutBackUpTo(m, i)' = PutBackUpTo(m, i)
  BY <1>1 DEF SavedOver, From, PutBackUpTo
<1>4. Prepare(m)'
  BY <1>3 DEF CommandFine, Prepare
<1>5. Restores(m)'
  BY <1>3 DEF CommandFine, Restores
<1>6. Saves(m)'
  BY <1>1 DEF CommandFine, Saves
<1> QED
  BY <1>2, <1>4, <1>5, <1>6 DEF CommandFine

LEMMA Disturbed ==
  ASSUME Shapes, NEW m \in Machines, Source!Disturb(m)
  PROVE  /\ disturbed' \subseteq Machines
         /\ m \in disturbed' <=> m \in disturbed
         /\ \A n \in Machines \ {m} : command[n].pc # "idle" /\ n \notin disturbed' =>
              /\ n \notin disturbed /\ saved' = saved
              /\ command[n].kind = "directory" =>
                   tree'["tree"].config = tree["tree"].config
BY DEF Source!Disturb, Shapes, Files, Source!Busy, Source!At

\* A step of one machine's command.
LEMMA OneMachine ==
  ASSUME SourceInv, NEW m \in Machines, Shapes', ChoiceSaved', CommandFine(m)', Source!Disturb(m),
         version' = version,
         \A n \in Machines \ {m} :
           command'[n] = command[n] /\ side'[n] = side[n] /\ tree'[n] = tree[n]
  PROVE  SourceInv'
<1> SUFFICES ASSUME NEW n \in Machines \ {m} PROVE CommandFine(n)'
  BY DEF SourceInv
<1>1. CASE command[n].pc = "idle"
  BY <1>1, Stopped
<1>2. CASE command[n].pc # "idle"
  <2>1. n \notin disturbed' =>
           /\ n \notin disturbed /\ saved' = saved /\ version' = version
           /\ tree'[Source!Place(n)].config = tree[Source!Place(n)].config
    BY <1>2, Disturbed, Working DEF SourceInv
  <2> QED
    BY <2>1, CommandSame DEF SourceInv
<1> QED
  BY <1>1, <1>2

\* Where a command goes.
GoneTo(m, pc, i) ==
  /\ command'[m] = [task |-> command[m].task, i |-> i, session |-> command[m].session,
                    kind |-> command[m].kind, revision |-> command[m].revision, pc |-> pc]
  /\ command' = [n \in Machines |-> command'[n]]
  /\ \A n \in Machines \ {m} : command'[n] = command[n]

LEMMA Goes ==
  ASSUME Shapes, NEW m \in Machines, command[m].pc # "idle"
  PROVE  /\ \A pc : Source!GoTo(m, pc) => GoneTo(m, pc, 1)
         /\ Source!Advance(m) => GoneTo(m, command[m].pc, command[m].i + 1)
         /\ Source!Stop(m) => /\ command'[m].pc = "idle" /\ command'[m] = Source!Idle
                       /\ command' = [n \in Machines |-> command'[n]]
                       /\ \A n \in Machines \ {m} : command'[n] = command[n]
<1>1. command = [n \in Machines |-> command[n]] /\ CommandShape(command[m])
  BY Working DEF Shapes
<1>2. ASSUME NEW pc, Source!GoTo(m, pc) PROVE GoneTo(m, pc, 1)
  <2> DEFINE half == [command[m] EXCEPT !.pc = pc]
             whole == [half EXCEPT !.i = 1]
  <2>1. half = [task |-> command[m].task, i |-> command[m].i, session |-> command[m].session,
                kind |-> command[m].kind, revision |-> command[m].revision, pc |-> pc]
    BY <1>1 DEF CommandShape
  <2>2. command' = [command EXCEPT ![m] = whole]
    BY <1>1, <1>2 DEF Source!GoTo
  <2> HIDE DEF half
  <2>3. whole = [task |-> command[m].task, i |-> 1, session |-> command[m].session,
                 kind |-> command[m].kind, revision |-> command[m].revision, pc |-> pc]
    BY <2>1
  <2> HIDE DEF whole
  <2> QED
    BY <1>1, <2>2, <2>3 DEF GoneTo
<1>3. ASSUME Source!Advance(m) PROVE GoneTo(m, command[m].pc, command[m].i + 1)
  <2> DEFINE i == command[m].i + 1
             whole == [command[m] EXCEPT !.i = i]
  <2>1. command' = [command EXCEPT ![m] = whole]
    BY <1>3 DEF Source!Advance
  <2> HIDE DEF i
  <2>2. whole = [task |-> command[m].task, i |-> i, session |-> command[m].session,
                 kind |-> command[m].kind, revision |-> command[m].revision,
                 pc |-> command[m].pc]
    BY <1>1 DEF CommandShape
  <2> HIDE DEF whole
  <2> QED
    BY <1>1, <2>1, <2>2 DEF GoneTo, i
<1>4. ASSUME Source!Stop(m)
      PROVE  /\ command'[m].pc = "idle" /\ command'[m] = Source!Idle
             /\ command' = [n \in Machines |-> command'[n]]
             /\ \A n \in Machines \ {m} : command'[n] = command[n]
  BY <1>1, <1>4 DEF Source!Stop, Source!Idle
<1> QED
  BY <1>2, <1>3, <1>4

\* A step that reads what is saved and changes at most the tree it works in.
LEMMA QuietStep ==
  ASSUME SourceInv, NEW m \in Machines, command[m].pc # "idle", Source!Unchanged(m),
         command' = [n \in Machines |-> command'[n]],
         \A n \in Machines \ {m} : command'[n] = command[n],
         command'[m] = Source!Idle \/ CommandShape(command'[m]),
         side' = [n \in Machines |-> side'[n]],
         \A n \in Machines \ {m} : side'[n] = side[n],
         NEW t, TreeShape(t), tree' \in {tree, [tree EXCEPT ![Source!Place(m)] = t]},
         CommandFine(m)'
  PROVE  SourceInv'
<1>1. /\ UNCHANGED <<declared, version, saved, choice>> /\ Source!Disturb(m)
  BY DEF Source!Unchanged
<1>2. Shapes /\ Source!Place(m) \in Source!Places /\ m # "tree" /\ Source!Place(m) \in {m, "tree"}
      /\ "tree" \notin Machines
  BY Working, SourceAssumption DEF SourceInv, Source!PackageSourceAssumption
<1>3. \A p \in Source!Places : tree'[p] = tree[p] \/ (p = Source!Place(m) /\ TreeShape(tree'[p]))
  BY <1>2 DEF Shapes
<1>4. \A n \in Machines \ {m} : tree'[n] = tree[n]
  BY <1>2 DEF Shapes, Source!Places
<1>5. tree' = [p \in Source!Places |-> tree'[p]] /\ \A p \in Source!Places : TreeShape(tree'[p])
  BY <1>2, <1>3 DEF Shapes
<1>6. \A n \in Machines : command'[n] = Source!Idle \/ CommandShape(command'[n])
  BY <1>2 DEF Shapes
<1>7. Files'
  <2>1. disturbed' \subseteq Machines
    BY <1>1, <1>2, Disturbed
  <2> QED
    BY <1>1, <1>2, <2>1 DEF Shapes, Files
<1>8. Shapes'
  BY <1>1, <1>2, <1>5, <1>6, <1>7 DEF Shapes
<1>9. ChoiceSaved'
  BY <1>1 DEF SourceInv, ChoiceSaved
<1> QED
  BY <1>1, <1>4, <1>8, <1>9, OneMachine

\* The same, when the command goes on.
LEMMA OnwardStep ==
  ASSUME SourceInv, NEW m \in Machines, command[m].pc # "idle", Source!Unchanged(m),
         NEW pc, NEW i, GoneTo(m, pc, i), CommandShape(command'[m]),
         side' = side \/ \E revisions : side' = [side EXCEPT ![m] = revisions],
         NEW t, TreeShape(t), tree' \in {tree, [tree EXCEPT ![Source!Place(m)] = t]},
         CommandFine(m)'
  PROVE  SourceInv'
<1>1. side' = [n \in Machines |-> side'[n]] /\ \A n \in Machines \ {m} : side'[n] = side[n]
  BY DEF SourceInv, Shapes
<1> QED
  BY <1>1, QuietStep DEF GoneTo

\* The same, when the command stops.
LEMMA LastStep ==
  ASSUME SourceInv, NEW m \in Machines, command[m].pc # "idle", Source!Unchanged(m), Source!Stop(m),
         side' = side \/ \E revisions : side' = [side EXCEPT ![m] = revisions],
         NEW t, TreeShape(t), tree' \in {tree, [tree EXCEPT ![Source!Place(m)] = t]}
  PROVE  SourceInv'
<1>1. side' = [n \in Machines |-> side'[n]] /\ \A n \in Machines \ {m} : side'[n] = side[n]
  BY DEF SourceInv, Shapes
<1>2. /\ command'[m].pc = "idle" /\ command'[m] = Source!Idle
      /\ command' = [n \in Machines |-> command'[n]]
      /\ \A n \in Machines \ {m} : command'[n] = command[n]
  BY Goes DEF SourceInv
<1>3. CommandFine(m)'
  BY <1>2, Stopped
<1> QED
  BY <1>1, <1>2, <1>3, QuietStep

LEMMA ClearStep ==
  ASSUME SourceInv, NEW m \in Machines, Source!Clear(m)
  PROVE  SourceInv'
<1>1. command[m].pc = "clear" /\ CommandShape(command[m]) /\ GoneTo(m, "unpack", 1)
  BY Working, Goes DEF Source!Clear, Source!At, SourceInv
<1>2. side' = [side EXCEPT ![m] = {}] /\ side'[m] = {} /\ UNCHANGED tree /\ Source!Unchanged(m)
  BY DEF Source!Clear, SourceInv, Shapes
<1>3. CommandShape(command'[m])
  BY <1>1 DEF GoneTo, CommandShape
<1>4. CommandFine(m)'
  BY <1>1, <1>2 DEF GoneTo, CommandFine, Unpacked, Prepare, Restores, Saves
<1> QED
  BY <1>1, <1>2, <1>3, <1>4, NoTreeShape, OnwardStep

LEMMA UnpackStep ==
  ASSUME SourceInv, NEW m \in Machines, Source!Unpack(m) \/ Source!UnpackFails(m)
  PROVE  SourceInv'
<1>1. command[m].pc = "unpack" /\ CommandShape(command[m])
      /\ UNCHANGED tree /\ Source!Unchanged(m) /\ (Source!GoTo(m, "remove") => GoneTo(m, "remove", 1))
  BY Working, Goes DEF Source!Unpack, Source!UnpackFails, Source!At, SourceInv
<1>2. CASE Source!Unpack(m)
  <2>1. side[m] = {} /\ side' = [side EXCEPT ![m] = @ \cup {command[m].revision}]
    BY <1>1, <1>2 DEF Source!Unpack, SourceInv, CommandFine, Unpacked
  <2>2. side'[m] = {command[m].revision}
        /\ side' = [side EXCEPT ![m] = {command[m].revision}]
    BY <2>1 DEF SourceInv, Shapes
  <2>3. GoneTo(m, "remove", 1)
    BY <1>1, <1>2 DEF Source!Unpack
  <2>4. CommandShape(command'[m])
    BY <1>1, <2>3 DEF GoneTo, CommandShape
  <2>5. CommandFine(m)'
    BY <2>2, <2>3 DEF GoneTo, CommandFine, Unpacked, Prepare, Restores, Saves
  <2> QED
    BY <1>1, <2>2, <2>3, <2>4, <2>5, NoTreeShape, OnwardStep
<1>3. CASE Source!UnpackFails(m)
  BY <1>1, <1>3, NoTreeShape, LastStep DEF Source!UnpackFails
<1> QED
  BY <1>2, <1>3

LEMMA RemoveStep ==
  ASSUME SourceInv, NEW m \in Machines, Source!Remove(m)
  PROVE  SourceInv'
<1> DEFINE pc == IF command[m].kind = "git" THEN "clone" ELSE "copy"
<1>1. command[m].pc = "remove" /\ CommandShape(command[m]) /\ GoneTo(m, pc, 1)
      /\ Source!Place(m) = m /\ m \in Source!Places
  BY Working, Goes DEF Source!Remove, Source!At, SourceInv, CommandShape
<1>2. /\ tree' = [tree EXCEPT ![Source!Place(m)] = Source!NoTree] /\ tree'[m] = Source!NoTree
      /\ UNCHANGED side /\ Source!Unchanged(m)
  BY <1>1 DEF Source!Remove, SourceInv, Shapes
<1>3. command[m].kind \in {"archive", "git"}
  BY <1>1, SourceAssumption DEF CommandShape, Source!PackageSourceAssumption
<1>4. CommandShape(command'[m])
  BY <1>1, <1>3 DEF GoneTo, CommandShape
<1>5. pc = "copy" => side'[m] = {command[m].revision}
  BY <1>1, <1>2, <1>3 DEF SourceInv, CommandFine, Unpacked
<1>6. CommandFine(m)'
  BY <1>1, <1>2, <1>3, <1>5 DEF GoneTo, CommandFine, Unpacked, Prepare, Restores, Saves
<1> QED
  BY <1>1, <1>2, <1>4, <1>6, NoTreeShape, OnwardStep

\* The files come into an empty place.
LEMMA FilledFrom ==
  ASSUME NEW m \in Machines, tree[m] = Source!NoTree, NEW revisions
  PROVE  /\ Source!Filled(m, revisions) = [of |-> revisions, whole |-> TRUE, local |-> <<>>,
                                    applied |-> <<>>, config |-> Shipped]
         /\ TreeShape(Source!Filled(m, revisions))
<1>1. Source!Filled(m, revisions) = [of |-> revisions, whole |-> TRUE, local |-> <<>>,
                              applied |-> <<>>, config |-> Shipped]
  <2> DEFINE t == tree[m]
             half == [t EXCEPT !.of = revisions]
  <2>1. /\ t = [of |-> t.of, whole |-> t.whole, local |-> t.local, applied |-> t.applied,
                config |-> t.config]
        /\ t.of = {} /\ t.local = <<>> /\ t.applied = <<>> /\ t.config = Shipped
    BY NoTreeShape DEF TreeShape
  <2>2. t.of \cup revisions = revisions
    BY <2>1
  <2>3. Source!Filled(m, revisions) = [half EXCEPT !.whole = TRUE]
    BY <2>2 DEF Source!Filled
  <2> HIDE DEF t
  <2>4. half = [of |-> revisions, whole |-> t.whole, local |-> t.local, applied |-> t.applied,
                config |-> t.config]
    BY <2>1
  <2> HIDE DEF half
  <2>5. \A whole : [half EXCEPT !.whole = whole]
          = [of |-> revisions, whole |-> whole, local |-> t.local, applied |-> t.applied,
             config |-> t.config]
    BY <2>4
  <2> QED
    BY <2>1, <2>3, <2>5
<1> QED
  BY <1>1, FileFacts DEF TreeShape

LEMMA FillStep ==
  ASSUME SourceInv, NEW m \in Machines, Source!CopyTree(m) \/ Source!Clone(m)
  PROVE  SourceInv'
<1> DEFINE t == [of |-> {command[m].revision}, whole |-> TRUE, local |-> <<>>, applied |-> <<>>,
                 config |-> Shipped]
<1>1. /\ command[m].pc \in {"copy", "clone"} /\ CommandShape(command[m])
      /\ GoneTo(m, "locals", 1) /\ Source!Place(m) = m /\ m \in Source!Places /\ Source!Unchanged(m)
      /\ Source!CopyTree(m) => command[m].pc = "copy"
  <2>1. command[m].pc \in {"copy", "clone"} /\ Source!GoTo(m, "locals") /\ Source!Unchanged(m)
        /\ (Source!CopyTree(m) => command[m].pc = "copy")
    BY DEF Source!CopyTree, Source!Clone, Source!At
  <2>2. CommandShape(command[m])
    BY <2>1, Working DEF SourceInv
  <2>3. command[m].kind # "directory"
    BY <2>1, <2>2 DEF CommandShape
  <2> QED
    BY <2>1, <2>2, <2>3, Working, Goes DEF SourceInv
<1>2. tree[m] = Source!NoTree /\ (command[m].pc = "copy" => side[m] = {command[m].revision})
  BY <1>1 DEF SourceInv, CommandFine, Unpacked, CommandShape
<1>3. Source!Filled(m, {command[m].revision}) = t /\ TreeShape(t)
  BY <1>2, FilledFrom
<1>4. tree' = [tree EXCEPT ![Source!Place(m)] = t] /\ tree'[m] = t
  BY <1>1, <1>2, <1>3 DEF Source!CopyTree, Source!Clone, SourceInv, Shapes
<1>5. side' = side \/ \E revisions : side' = [side EXCEPT ![m] = revisions]
  BY DEF Source!CopyTree, Source!Clone
<1>6. CommandShape(command'[m])
  BY <1>1 DEF GoneTo, CommandShape
<1> HIDE DEF t
<1>7. CommandFine(m)'
  BY <1>1, <1>4 DEF GoneTo, CommandFine, Unpacked, Prepare, Restores, Saves, t
<1> QED
  BY <1>1, <1>3, <1>4, <1>5, <1>6, <1>7, OnwardStep

\* A field of a tree is replaced.
LEMMA TreeField ==
  ASSUME NEW t, TreeShape(t), NEW x
  PROVE  /\ [t EXCEPT !.of = x] = [of |-> x, whole |-> t.whole, local |-> t.local,
                                   applied |-> t.applied, config |-> t.config]
         /\ [t EXCEPT !.whole = x] = [of |-> t.of, whole |-> x, local |-> t.local,
                                      applied |-> t.applied, config |-> t.config]
         /\ [t EXCEPT !.local = x] = [of |-> t.of, whole |-> t.whole, local |-> x,
                                      applied |-> t.applied, config |-> t.config]
         /\ [t EXCEPT !.applied = x] = [of |-> t.of, whole |-> t.whole, local |-> t.local,
                                        applied |-> x, config |-> t.config]
         /\ [t EXCEPT !.config = x] = [of |-> t.of, whole |-> t.whole, local |-> t.local,
                                       applied |-> t.applied, config |-> x]
         /\ TreeShape([t EXCEPT !.of = x]) /\ TreeShape([t EXCEPT !.whole = x])
         /\ TreeShape([t EXCEPT !.local = x]) /\ TreeShape([t EXCEPT !.applied = x])
         /\ x = [s \in Source!Sources |-> x[s]] /\ (\A s \in Source!Sources : File(x[s])) =>
              TreeShape([t EXCEPT !.config = x])
<1>1. /\ [t EXCEPT !.of = x] = [of |-> x, whole |-> t.whole, local |-> t.local,
                                applied |-> t.applied, config |-> t.config]
      /\ [t EXCEPT !.whole = x] = [of |-> t.of, whole |-> x, local |-> t.local,
                                   applied |-> t.applied, config |-> t.config]
      /\ [t EXCEPT !.local = x] = [of |-> t.of, whole |-> t.whole, local |-> x,
                                   applied |-> t.applied, config |-> t.config]
      /\ [t EXCEPT !.applied = x] = [of |-> t.of, whole |-> t.whole, local |-> t.local,
                                     applied |-> x, config |-> t.config]
      /\ [t EXCEPT !.config = x] = [of |-> t.of, whole |-> t.whole, local |-> t.local,
                                    applied |-> t.applied, config |-> x]
  BY DEF TreeShape
<1> QED
  BY <1>1 DEF TreeShape

LEMMA CloneFailsStep ==
  ASSUME SourceInv, NEW m \in Machines, Source!CloneFails(m)
  PROVE  SourceInv'
<1>1. command[m].pc = "clone" /\ CommandShape(command[m]) /\ TreeShape(tree[m])
      /\ Source!Stop(m) /\ UNCHANGED side /\ Source!Unchanged(m)
  BY Working DEF Source!CloneFails, Source!At, SourceInv
<1>2. Source!Place(m) = m
  <2>1. command[m].kind # "directory"
    BY <1>1 DEF CommandShape
  <2> QED
    BY <1>1, <2>1, Working DEF SourceInv
<1>3. PICK left : tree' = [tree EXCEPT ![m].of = left]
  BY DEF Source!CloneFails
<1> DEFINE t == [tree[m] EXCEPT !.of = left]
<1>4. TreeShape(t)
  BY <1>1, TreeField
<1>5. tree' = [tree EXCEPT ![Source!Place(m)] = t]
  BY <1>2, <1>3
<1> HIDE DEF t
<1> QED
  BY <1>1, <1>4, <1>5, LastStep

LEMMA NoPatchesYet ==
  ASSUME NEW local
  PROVE  PatchesBefore(1, local) = <<>>
BY DEF PatchesBefore

LEMMA CopyLocalFilesStep ==
  ASSUME SourceInv, NEW m \in Machines, Source!CopyLocalFiles(m)
  PROVE  SourceInv'
<1> DEFINE t == [tree[m] EXCEPT !.local = version]
<1>1. /\ command[m].pc = "locals" /\ CommandShape(command[m]) /\ TreeShape(tree[m])
      /\ GoneTo(m, "patch", 1) /\ Source!Place(m) = m /\ m \in Source!Places
      /\ UNCHANGED side /\ Source!Unchanged(m)
  BY Working, Goes DEF Source!CopyLocalFiles, Source!At, SourceInv, CommandShape
<1>2. tree[m] = [of |-> {command[m].revision}, whole |-> TRUE, local |-> <<>>,
                 applied |-> <<>>, config |-> Shipped]
  BY <1>1 DEF SourceInv, CommandFine, Unpacked
<1>3. t = [of |-> {command[m].revision}, whole |-> TRUE, local |-> version,
           applied |-> <<>>, config |-> Shipped]
      /\ TreeShape(t)
  <2>1. /\ t = [of |-> tree[m].of, whole |-> tree[m].whole, local |-> version,
                applied |-> tree[m].applied, config |-> tree[m].config]
        /\ TreeShape(t)
    BY <1>1, TreeField
  <2>2. /\ tree[m].of = {command[m].revision} /\ tree[m].whole = TRUE
        /\ tree[m].applied = <<>> /\ tree[m].config = Shipped
    BY <1>2
  <2> QED
    BY <2>1, <2>2
<1>4. tree' = [tree EXCEPT ![Source!Place(m)] = t]
  BY <1>1 DEF Source!CopyLocalFiles
<1> HIDE DEF t
<1>5. tree'[m] = t /\ version' = version
  BY <1>1, <1>4 DEF SourceInv, Shapes, Source!Unchanged
<1>6. CommandShape(command'[m])
  BY <1>1, SyncFacts DEF GoneTo, CommandShape
<1>7. Prepare(m)'
  <2>1. t.local = version /\ PatchesBefore(1, t.local) = <<>>
    BY <1>3, NoPatchesYet
  <2>2. t = [of |-> {command[m].revision}, whole |-> TRUE, local |-> t.local,
             applied |-> PatchesBefore(1, t.local), config |-> Shipped]
    BY <1>3, <2>1
  <2> QED
    BY <1>1, <1>5, <2>1, <2>2 DEF GoneTo, Prepare
<1>8. CommandFine(m)'
  BY <1>1, <1>7 DEF GoneTo, CommandFine, Unpacked, Restores, Saves
<1> QED
  BY <1>1, <1>3, <1>4, <1>6, <1>8, OnwardStep

LEMMA NextPatch ==
  ASSUME NEW i \in Nat \ {0}, NEW local
  PROVE  Append(PatchesBefore(i, local), <<Patches[i], local[Patches[i]]>>)
           = PatchesBefore(i + 1, local)
<1> DEFINE e(j) == <<Patches[j], local[Patches[j]]>>
           S == {e(j) : j \in Nat}
<1>1. PatchesBefore(i, local) = [j \in 1 .. i - 1 |-> e(j)]
      /\ PatchesBefore(i + 1, local) = [j \in 1 .. i |-> e(j)]
  BY DEF PatchesBefore
<1>2. \A j \in Nat : e(j) \in S
  OBVIOUS
<1> HIDE DEF e, S
<1>3. [j \in 1 .. i - 1 |-> e(j)] \in Seq(S) /\ Len([j \in 1 .. i - 1 |-> e(j)]) = i - 1
  BY <1>2
<1>4. Append([j \in 1 .. i - 1 |-> e(j)], e(i)) = [j \in 1 .. i |-> e(j)]
  BY <1>2, <1>3
<1> QED
  BY <1>1, <1>4 DEF e

LEMMA ApplyPatchStep ==
  ASSUME SourceInv, NEW m \in Machines, Source!ApplyPatch(m)
  PROVE  SourceInv'
<1> DEFINE i == command[m].i
           old == tree[m]
           applied == Append(old.applied, <<Patches[i], old.local[Patches[i]]>>)
           t == [old EXCEPT !.applied = applied]
<1>1. /\ command[m].pc = "patch" /\ CommandShape(command[m]) /\ TreeShape(tree[m])
      /\ Source!Place(m) = m /\ m \in Source!Places /\ i \in DOMAIN Patches
      /\ (Source!Advance(m) => GoneTo(m, "patch", i + 1))
      /\ UNCHANGED side /\ Source!Unchanged(m)
      /\ \/ Source!Stop(m) /\ UNCHANGED tree
         \/ Source!Advance(m) /\ tree' = [tree EXCEPT ![m].applied = applied]
  BY Working, Goes DEF Source!ApplyPatch, Source!At, SourceInv, CommandShape
<1>2. CASE Source!Stop(m) /\ UNCHANGED tree
  BY <1>1, <1>2, NoTreeShape, LastStep
<1>3. CASE Source!Advance(m) /\ tree' = [tree EXCEPT ![m].applied = applied]
  <2>1. /\ old = [of |-> {command[m].revision}, whole |-> TRUE, local |-> old.local,
                  applied |-> PatchesBefore(i, old.local), config |-> Shipped]
        /\ m \notin disturbed => old.local = version
    BY <1>1 DEF SourceInv, CommandFine, Prepare
  <2>2. i \in Nat \ {0} /\ i + 1 <= Len(Patches) + 1
    BY <1>1, SyncFacts DEF CommandShape
  <2>3. applied = PatchesBefore(i + 1, old.local)
    <3>1. old.applied = PatchesBefore(i, old.local)
      BY <2>1
    <3> HIDE DEF old, i
    <3> QED
      BY <2>2, <3>1, NextPatch
  <2> HIDE DEF applied
  <2>4. /\ t = [of |-> old.of, whole |-> old.whole, local |-> old.local,
                applied |-> applied, config |-> old.config]
        /\ TreeShape(t)
    BY <1>1, TreeField
  <2>5. tree' = [tree EXCEPT ![Source!Place(m)] = t]
    BY <1>1, <1>3
  <2> HIDE DEF t
  <2>6. /\ tree'[m] = t /\ version' = version /\ (m \in disturbed' <=> m \in disturbed)
        /\ GoneTo(m, "patch", i + 1)
    BY <1>1, <1>3, <2>5, Disturbed DEF SourceInv, Shapes, Source!Unchanged
  <2>7. CommandShape(command'[m])
    BY <1>1, <2>2, <2>6 DEF GoneTo, CommandShape
  <2>8. t = [of |-> {command[m].revision}, whole |-> TRUE, local |-> old.local,
             applied |-> PatchesBefore(i + 1, old.local), config |-> Shipped]
        /\ t.local = old.local
    <3>1. old.of = {command[m].revision} /\ old.whole = TRUE /\ old.config = Shipped
      BY <2>1
    <3> QED
      BY <2>3, <2>4, <3>1
  <2> HIDE DEF old, i
  <2>9. Prepare(m)'
    BY <2>1, <2>6, <2>8 DEF GoneTo, Prepare
  <2>10. CommandFine(m)'
    BY <2>6, <2>9 DEF GoneTo, CommandFine, Unpacked, Restores, Saves
  <2> QED
    BY <1>1, <2>4, <2>5, <2>6, <2>7, <2>10, OnwardStep
<1> QED
  BY <1>1, <1>2, <1>3

LEMMA NothingSavedYet ==
  /\ SavedOver(1)' = Shipped /\ \A m : PutBackUpTo(m, 1)'
<1>1. \A s : From(1, s)' = {}
  BY SyncFacts DEF From
<1> QED
  BY <1>1, FileFacts DEF SavedOver, PutBackUpTo

LEMMA PatchedStep ==
  ASSUME SourceInv, NEW m \in Machines, Source!Patched(m)
  PROVE  SourceInv'
<1> DEFINE old == tree[m]
<1>1. /\ command[m].pc = "patch" /\ CommandShape(command[m])
      /\ command[m].i \notin DOMAIN Patches
      /\ GoneTo(m, "restore", 1) /\ UNCHANGED <<tree, side>> /\ Source!Unchanged(m)
  BY Working, Goes DEF Source!Patched, Source!At, SourceInv
<1>2. command[m].i = Len(Patches) + 1
  BY <1>1, SyncFacts DEF CommandShape
<1>3. /\ old = [of |-> {command[m].revision}, whole |-> TRUE, local |-> old.local,
                applied |-> PatchesBefore(Len(Patches) + 1, old.local), config |-> Shipped]
      /\ m \notin disturbed => old.local = version
  BY <1>1, <1>2 DEF SourceInv, CommandFine, Prepare
<1>4. CommandShape(command'[m])
  BY <1>1, SyncFacts DEF GoneTo, CommandShape
<1>5. version' = version /\ saved' = saved /\ (m \in disturbed' <=> m \in disturbed)
  BY <1>1, Disturbed DEF SourceInv, Source!Unchanged
<1>6. SavedOver(1)' = Shipped /\ PutBackUpTo(m, 1)'
  BY NothingSavedYet
<1>7. Prepare(m)'
  <2>1. m \notin disturbed =>
          old = [of |-> {command[m].revision}, whole |-> TRUE, local |-> version,
                 applied |-> PatchesBefore(Len(Patches) + 1, version),
                 config |-> SavedOver(1)']
    BY <1>3, <1>6
  <2>2. tree' = tree
    BY <1>1
  <2> QED
    BY <1>1, <1>5, <2>1, <2>2 DEF GoneTo, Prepare
<1>8. Restores(m)'
  BY <1>1, <1>6 DEF GoneTo, Restores
<1>9. CommandFine(m)'
  BY <1>1, <1>7, <1>8 DEF GoneTo, CommandFine, Unpacked, Saves
<1> QED
  BY <1>1, <1>4, <1>9, NoTreeShape, OnwardStep

\* One more saved file.
LEMMA NextSaved ==
  ASSUME NEW i \in DOMAIN Sync
  PROVE  LET file == saved[Sync[i].destination]
         IN  /\ file = Source!Absent => \A s \in Source!Sources : From(i + 1, s) = From(i, s)
             /\ file # Source!Absent =>
                  /\ From(i + 1, Sync[i].source) = From(i, Sync[i].source) \cup {i}
                  /\ \A s \in Source!Sources : s # Sync[i].source => From(i + 1, s) = From(i, s)
<1>1. \A j \in DOMAIN Sync : j < i + 1 <=> j < i \/ j = i
  BY SyncFacts
<1>2. ~ (i < i)
  BY SyncFacts
<1> QED
  BY <1>1, <1>2 DEF From

LEMMA NextSavedOver ==
  ASSUME NEW i \in DOMAIN Sync
  PROVE  LET file == saved[Sync[i].destination]
         IN  /\ file = Source!Absent => SavedOver(i + 1) = SavedOver(i)
             /\ file # Source!Absent =>
                  SavedOver(i + 1) = [SavedOver(i) EXCEPT ![Sync[i].source] = file]
<1> DEFINE file == saved[Sync[i].destination]
           source == Sync[i].source
           Last(I) == CHOOSE j \in I : \A k \in I : k <= j
           Value(I, s) == IF I = {} THEN Shipped[s] ELSE saved[Sync[Last(I)].destination]
<1>1. \A n : SavedOver(n) = [s \in Source!Sources |-> Value(From(n, s), s)]
  BY DEF SavedOver
<1>2. ASSUME file = Source!Absent PROVE SavedOver(i + 1) = SavedOver(i)
  <2>1. \A s \in Source!Sources : From(i + 1, s) = From(i, s)
    BY <1>2, NextSaved
  <2> HIDE DEF Value
  <2> QED
    BY <1>1, <2>1
<1>3. ASSUME file # Source!Absent
      PROVE  SavedOver(i + 1) = [SavedOver(i) EXCEPT ![source] = file]
  <2>1. /\ From(i + 1, source) = From(i, source) \cup {i}
        /\ \A s \in Source!Sources : s # source => From(i + 1, s) = From(i, s)
    BY <1>3, NextSaved
  <2>2. Last(From(i, source) \cup {i}) = i
    <3>1. \A j \in From(i, source) : j \in Nat /\ j < i
      BY SyncFacts DEF From
    <3>2. i \in Nat
      BY SyncFacts
    <3> DEFINE I == From(i, source) \cup {i}
    <3>3. i \in I /\ \A k \in I : k <= i
      BY <3>1, <3>2
    <3>4. \A j \in I : (\A k \in I : k <= j) => j = i
      BY <3>1, <3>2, <3>3
    <3> HIDE DEF I
    <3>5. Last(I) = i
      BY <3>3, <3>4
    <3> QED
      BY <3>5 DEF I
  <2>3. Value(From(i + 1, source), source) = file
    BY <2>1, <2>2
  <2> HIDE DEF Value
  <2> QED
    BY <1>1, <2>1, <2>3
<1> QED
  BY <1>2, <1>3

\* What putting one file back may do.
LEMMA PutsBack ==
  ASSUME Shapes, NEW m \in Machines, command[m].pc \in {"restore", "seed"},
         command[m].i \in DOMAIN Sync, Source!PutBack(m, command[m].i)
  PROVE  LET i == command[m].i
             source == Sync[i].source
             file == saved[Sync[i].destination]
             t == [tree[Source!Place(m)] EXCEPT !.config[source] = file]
         IN  \/ Source!Stop(m) /\ UNCHANGED tree
             \/ GoneTo(m, command[m].pc, i + 1) /\ file = Source!Absent /\ UNCHANGED tree
             \/ /\ GoneTo(m, command[m].pc, i + 1) /\ file # Source!Absent
                /\ tree' = [tree EXCEPT ![Source!Place(m)] = t] /\ tree'[Source!Place(m)] = t
                /\ t = [of |-> tree[Source!Place(m)].of, whole |-> tree[Source!Place(m)].whole,
                        local |-> tree[Source!Place(m)].local, applied |-> tree[Source!Place(m)].applied,
                        config |-> [tree[Source!Place(m)].config EXCEPT ![source] = file]]
                /\ TreeShape(t)
<1> DEFINE i == command[m].i
           source == Sync[i].source
           file == saved[Sync[i].destination]
           old == tree[Source!Place(m)]
           t == [old EXCEPT !.config[source] = file]
           config == [old.config EXCEPT ![source] = file]
<1>1. /\ File(file) /\ TreeShape(old) /\ Source!Place(m) \in Source!Places
      /\ Source!Advance(m) => GoneTo(m, command[m].pc, i + 1)
  BY Working, Goes, SyncFacts DEF Shapes, Files
<1>2. /\ file.is = "absent" => file = Source!Absent
      /\ file.is = "regular" => file # Source!Absent
  BY <1>1, FileFacts DEF File
<1>3. t = [of |-> old.of, whole |-> old.whole, local |-> old.local, applied |-> old.applied,
           config |-> config] /\ TreeShape(t)
  <2>1. t = [old EXCEPT !.config = config]
    OBVIOUS
  <2>2. config = [s \in Source!Sources |-> config[s]] /\ \A s \in Source!Sources : File(config[s])
    BY <1>1 DEF TreeShape
  <2> HIDE DEF config, t
  <2> QED
    BY <1>1, <2>1, <2>2, TreeField
<1>4. \/ file.is = "absent" /\ Source!Advance(m) /\ UNCHANGED tree
      \/ file.is = "regular" /\ Source!Advance(m)
           /\ tree' = [tree EXCEPT ![Source!Place(m)].config[source] = file]
      \/ Source!Stop(m) /\ UNCHANGED tree
  BY DEF Source!PutBack
<1>5. ASSUME tree' = [tree EXCEPT ![Source!Place(m)].config[source] = file]
      PROVE  tree' = [tree EXCEPT ![Source!Place(m)] = t] /\ tree'[Source!Place(m)] = t
  BY <1>1, <1>5 DEF Shapes
<1> HIDE DEF t, config
<1> QED
  BY <1>1, <1>2, <1>3, <1>4, <1>5 DEF t, config

LEMMA PutBackStep ==
  ASSUME SourceInv, NEW m \in Machines, Source!Restore(m) \/ Source!Seed(m)
  PROVE  SourceInv'
<1> DEFINE i == command[m].i
           pc == command[m].pc
           source == Sync[i].source
           file == saved[Sync[i].destination]
           old == tree[Source!Place(m)]
           t == [old EXCEPT !.config[source] = file]
           new == tree'[Source!Place(m)]
<1>1. /\ pc \in {"restore", "seed"} /\ i \in DOMAIN Sync /\ Source!PutBack(m, i)
      /\ UNCHANGED side /\ Source!Unchanged(m)
  BY DEF Source!Restore, Source!Seed, Source!At
<1>2. /\ CommandShape(command[m]) /\ Source!Place(m) \in Source!Places /\ pc # "idle"
      /\ pc = "restore" => Source!Place(m) = m
  BY <1>1, Working DEF SourceInv, CommandShape
<1>3. CASE Source!Stop(m) /\ UNCHANGED tree
  BY <1>1, <1>2, <1>3, NoTreeShape, LastStep
<1>4. ASSUME GoneTo(m, pc, i + 1),
             \/ file = Source!Absent /\ UNCHANGED tree
             \/ /\ file # Source!Absent /\ tree' = [tree EXCEPT ![Source!Place(m)] = t] /\ new = t
                /\ t = [of |-> old.of, whole |-> old.whole, local |-> old.local,
                        applied |-> old.applied, config |-> [old.config EXCEPT ![source] = file]]
                /\ TreeShape(t)
      PROVE  SourceInv'
  <2>1. i \in Nat \ {0} /\ i + 1 <= Len(Sync) + 1
    BY <1>1, <1>2, SyncFacts DEF CommandShape
  <2>2. CommandShape(command'[m])
    BY <1>1, <1>2, <1>4, <2>1 DEF GoneTo, CommandShape
  <2>3. /\ version' = version /\ saved' = saved /\ (m \in disturbed' <=> m \in disturbed)
        /\ Source!Place(m)' = Source!Place(m)
    BY <1>1, <1>4, Disturbed DEF SourceInv, Source!Unchanged, GoneTo, Source!Place
  <2>4. \A n : SavedOver(n)' = SavedOver(n) /\ \A s : From(n, s)' = From(n, s)
    BY <2>3 DEF SavedOver, From
  <2>5. old.config = [s \in Source!Sources |-> old.config[s]]
    BY <1>1, <1>2, Working DEF SourceInv, TreeShape
  <2>6. new.config = IF file = Source!Absent THEN old.config ELSE [old.config EXCEPT ![source] = file]
    <3>1. CASE file = Source!Absent
      BY <1>4, <3>1
    <3>2. CASE file # Source!Absent
      BY <1>4, <3>2
    <3> QED
      BY <3>1, <3>2
  <2>7. ASSUME pc = "restore", m \notin disturbed
        PROVE  new = [of |-> {command[m].revision}, whole |-> TRUE, local |-> version,
                      applied |-> PatchesBefore(Len(Patches) + 1, version),
                      config |-> SavedOver(i + 1)]
    <3>1. old = [of |-> {command[m].revision}, whole |-> TRUE, local |-> version,
                 applied |-> PatchesBefore(Len(Patches) + 1, version),
                 config |-> SavedOver(i)]
      BY <1>2, <2>7 DEF SourceInv, CommandFine, Prepare
    <3>2. new.config = SavedOver(i + 1)
      <4>1. old.config = SavedOver(i)
        BY <3>1
      <4> QED
        BY <1>1, <2>6, <4>1, NextSavedOver
    <3>3. new = [of |-> old.of, whole |-> old.whole, local |-> old.local,
                 applied |-> old.applied, config |-> new.config]
      <4>1. TreeShape(old)
        BY <1>1, <1>2, Working DEF SourceInv
      <4> QED
        BY <1>4, <4>1 DEF TreeShape
    <3> HIDE DEF new
    <3>4. /\ old.of = {command[m].revision} /\ old.whole = TRUE /\ old.local = version
          /\ old.applied = PatchesBefore(Len(Patches) + 1, version)
      BY <3>1
    <3> QED
      BY <3>2, <3>3, <3>4
  <2>8. ASSUME m \notin disturbed
        PROVE  \A s \in Source!Sources : From(i + 1, s) # {} =>
                 \E j \in From(i + 1, s) : new.config[s] = saved[Sync[j].destination]
    <3> SUFFICES ASSUME NEW s \in Source!Sources, From(i + 1, s) # {}
                 PROVE  \E j \in From(i + 1, s) : new.config[s] = saved[Sync[j].destination]
      OBVIOUS
    <3>1. PutBackUpTo(m, i)
      BY <1>1, <2>8 DEF SourceInv, CommandFine, Restores
    <3>2. CASE file # Source!Absent /\ s = source
      <4>1. i \in From(i + 1, s)
        BY <1>1, <3>2, NextSaved
      <4>2. new.config[s] = file
        BY <2>5, <2>6, <3>2
      <4> QED
        BY <4>1, <4>2
    <3>3. CASE file = Source!Absent \/ s # source
      <4>1. From(i + 1, s) = From(i, s)
        BY <1>1, <3>3, NextSaved
      <4>2. new.config[s] = old.config[s]
        BY <2>5, <2>6, <3>3
      <4> QED
        BY <3>1, <4>1, <4>2 DEF PutBackUpTo
    <3> QED
      BY <3>2, <3>3
  <2>9. Prepare(m)'
    <3>1. SavedOver(i + 1) = SavedOver(command[m].i)'
      <4>1. command'[m].i = i + 1
        BY <1>4 DEF GoneTo
      <4> QED
        BY <2>3, <4>1 DEF SavedOver, From
    <3> QED
      <4>1. command'[m].pc = pc /\ command'[m].revision = command[m].revision
        BY <1>4 DEF GoneTo
      <4>2. CASE pc = "seed"
        BY <4>1, <4>2 DEF Prepare
      <4>3. CASE pc = "restore"
        <5>1. m \notin disturbed' =>
                tree'[m] = [of |-> {command'[m].revision}, whole |-> TRUE, local |-> version',
                            applied |-> PatchesBefore(Len(Patches) + 1, version)',
                            config |-> SavedOver(command[m].i)']
          <6>1. tree'[m] = new
            BY <1>2, <4>3
          <6>2. PatchesBefore(Len(Patches) + 1, version)' = PatchesBefore(Len(Patches) + 1, version)
            BY <2>3
          <6> HIDE DEF new, i, pc
          <6> QED
            BY <2>3, <2>7, <3>1, <4>1, <4>3, <6>1, <6>2
        <5> QED
          BY <4>1, <4>3, <5>1 DEF Prepare
      <4> QED
        BY <1>1, <4>2, <4>3
  <2>10. Restores(m)'
    <3>1. m \notin disturbed => PutBackUpTo(m, command[m].i)'
      <4>1. command'[m].i = i + 1
        BY <1>4 DEF GoneTo
      <4> QED
        BY <2>3, <2>8, <4>1 DEF PutBackUpTo, From
    <3> QED
      BY <1>1, <1>4, <2>3, <3>1 DEF GoneTo, Restores
  <2>11. CommandFine(m)'
    BY <1>1, <1>4, <2>9, <2>10 DEF GoneTo, CommandFine, Unpacked, Saves
  <2>12. \E u : TreeShape(u) /\ tree' \in {tree, [tree EXCEPT ![Source!Place(m)] = u]}
    BY <1>4, NoTreeShape
  <2> QED
    BY <1>1, <1>2, <1>4, <2>2, <2>11, <2>12, OnwardStep
<1> HIDE DEF t
<1> QED
  BY <1>1, <1>3, <1>4, PutsBack DEF SourceInv, t

\* The last of the saved files was put back.
LEMMA PreparedStep ==
  ASSUME SourceInv, NEW m \in Machines, Source!Prepared(m) \/ Source!OpenMenu(m)
  PROVE  SourceInv'
<1> DEFINE pc == IF command[m].pc = "restore" THEN command[m].task ELSE "menu"
<1>1. /\ command[m].pc \in {"restore", "seed"} /\ command[m].i \notin DOMAIN Sync
      /\ Source!GoTo(m, pc) /\ UNCHANGED <<tree, side>> /\ Source!Unchanged(m)
  BY DEF Source!Prepared, Source!OpenMenu, Source!At
<1>2. /\ CommandShape(command[m]) /\ GoneTo(m, pc, 1)
      /\ command[m].pc = "restore" => Source!Place(m) = m /\ command[m].kind # "directory"
  BY <1>1, Working, Goes DEF SourceInv, CommandShape
<1>3. command[m].i = Len(Sync) + 1
  BY <1>1, <1>2, SyncFacts DEF CommandShape
<1>4. pc \in {"compile", "seed", "menu"}
  BY <1>2 DEF CommandShape
<1>5. CommandShape(command'[m])
  BY <1>2, <1>4, SyncFacts DEF GoneTo, CommandShape
<1>6. /\ version' = version /\ saved' = saved /\ (m \in disturbed' <=> m \in disturbed)
      /\ Source!Place(m)' = Source!Place(m) /\ tree' = tree
  BY <1>1, <1>2, Disturbed DEF SourceInv, Source!Unchanged, GoneTo, Source!Place
<1>7. /\ SavedOver(Len(Sync) + 1)' = SavedOver(Len(Sync) + 1)
      /\ PutBackUpTo(m, Len(Sync) + 1)' = PutBackUpTo(m, Len(Sync) + 1)
  BY <1>6 DEF SavedOver, From, PutBackUpTo
<1>8. m \notin disturbed => PutBackUpTo(m, Len(Sync) + 1)
  BY <1>1, <1>3 DEF SourceInv, CommandFine, Restores
<1>9. Restores(m)'
  BY <1>2, <1>4, <1>6, <1>7, <1>8, NothingSavedYet DEF GoneTo, Restores
<1>10. pc = "compile" /\ m \notin disturbed =>
         tree[m] = [of |-> {command[m].revision}, whole |-> TRUE, local |-> version,
                    applied |-> PatchesBefore(Len(Patches) + 1, version),
                    config |-> SavedOver(Len(Sync) + 1)]
  BY <1>1, <1>3 DEF SourceInv, CommandFine, Prepare
<1>11. Prepare(m)'
  <2>1. /\ command'[m].pc = pc /\ command'[m].revision = command[m].revision
        /\ command'[m].kind = command[m].kind
    BY <1>2 DEF GoneTo
  <2>2. CASE pc = "compile"
    <3>1. PatchesBefore(Len(Patches) + 1, version)' = PatchesBefore(Len(Patches) + 1, version)
      BY <1>6
    <3> HIDE DEF pc
    <3> QED
      BY <1>6, <1>7, <1>10, <2>1, <2>2, <3>1 DEF Prepare
  <2>3. CASE pc # "compile"
    <3> HIDE DEF pc
    <3> QED
      BY <1>4, <2>1, <2>3 DEF Prepare
  <2> QED
    BY <2>2, <2>3
<1>12. CommandFine(m)'
  BY <1>2, <1>4, <1>9, <1>11 DEF GoneTo, CommandFine, Unpacked, Saves
<1> HIDE DEF pc
<1> QED
  BY <1>1, <1>2, <1>5, <1>12, NoTreeShape, OnwardStep

LEMMA CompileStep ==
  ASSUME SourceInv, NEW m \in Machines, Source!Compile(m)
  PROVE  SourceInv'
<1> DEFINE of == tree[Source!Place(m)].of \cup {"products"}
           t == [tree[Source!Place(m)] EXCEPT !.of = of]
<1>1. command[m].pc = "compile" /\ Source!Stop(m) /\ UNCHANGED side /\ Source!Unchanged(m)
      /\ tree' = [tree EXCEPT ![Source!Place(m)].of = @ \cup {"products"}]
  BY DEF Source!Compile, Source!At
<1>2. TreeShape(tree[Source!Place(m)])
  BY <1>1, Working DEF SourceInv
<1>3. TreeShape(t)
  <2> HIDE DEF of
  <2> QED
    BY <1>2, TreeField
<1>4. tree' = [tree EXCEPT ![Source!Place(m)] = t]
  BY <1>1
<1> HIDE DEF t
<1> QED
  BY <1>1, <1>3, <1>4, LastStep

LEMMA MenuStep ==
  ASSUME SourceInv, NEW m \in Machines, Source!MenuEnds(m) \/ Source!MenuFails(m)
  PROVE  SourceInv'
<1> DEFINE old == tree[Source!Place(m)]
<1>1. command[m].pc = "menu" /\ UNCHANGED side /\ Source!Unchanged(m)
  BY DEF Source!MenuEnds, Source!MenuFails, Source!At
<1>2. CommandShape(command[m]) /\ TreeShape(old) /\ Source!Place(m) \in Source!Places
  BY <1>1, Working DEF SourceInv
<1>3. PICK config \in Source!Outcomes(m) :
        /\ tree' = [tree EXCEPT ![Source!Place(m)].config = config]
        /\ \/ Source!Stop(m)
           \/ Source!GoTo(m, "save") /\ \A s \in Source!Sources : config[s].is = "regular"
  BY DEF Source!MenuEnds, Source!MenuFails
<1> DEFINE t == [old EXCEPT !.config = config]
<1>4. config = [s \in Source!Sources |-> config[s]] /\ \A s \in Source!Sources : File(config[s])
  BY <1>2, FileFacts DEF Source!Outcomes, TreeShape
<1>5. TreeShape(t) /\ t.config = config
  <2> HIDE DEF old
  <2>1. t = [of |-> old.of, whole |-> old.whole, local |-> old.local,
             applied |-> old.applied, config |-> config]
    BY <1>2, TreeField
  <2> QED
    BY <1>2, <1>4, <2>1, TreeField
<1>6. tree' = [tree EXCEPT ![Source!Place(m)] = t]
  BY <1>3
<1> HIDE DEF t
<1>7. tree'[Source!Place(m)] = t
  BY <1>2, <1>6 DEF SourceInv, Shapes
<1>8. CASE Source!Stop(m)
  BY <1>1, <1>5, <1>6, <1>8, LastStep
<1>9. CASE Source!GoTo(m, "save") /\ \A s \in Source!Sources : config[s].is = "regular"
  <2>1. GoneTo(m, "save", 1)
    BY <1>1, <1>9, Goes DEF SourceInv
  <2>2. CommandShape(command'[m])
    BY <1>2, <2>1, SyncFacts DEF GoneTo, CommandShape
  <2>3. Source!Place(m)' = Source!Place(m)
    BY <2>1 DEF GoneTo, Source!Place
  <2>4. Saves(m)'
    BY <1>5, <1>7, <1>9, <2>1, <2>3, SyncFacts DEF GoneTo, Saves
  <2>5. CommandFine(m)'
    BY <2>1, <2>4 DEF GoneTo, CommandFine, Unpacked, Prepare, Restores
  <2> QED
    BY <1>1, <1>5, <1>6, <2>1, <2>2, <2>5, OnwardStep
<1> QED
  BY <1>3, <1>8, <1>9

LEMMA SaveStep ==
  ASSUME SourceInv, NEW m \in Machines, Source!Save(m)
  PROVE  SourceInv'
<1> DEFINE i == command[m].i
           item == Sync[i]
           config == tree[Source!Place(m)].config
<1>1. /\ command[m].pc = "save" /\ i \in DOMAIN Sync
      /\ UNCHANGED <<declared, version, tree, side>> /\ Source!Disturb(m)
      /\ \/ saved[item.destination] = Source!Odd /\ Source!Stop(m) /\ UNCHANGED <<saved, choice>>
         \/ /\ saved' = [saved EXCEPT ![item.destination] = config[item.source]]
            /\ choice' = IF i = Len(Sync) /\ m \notin disturbed THEN config ELSE Source!Forgotten
            /\ Source!Advance(m)
  BY DEF Source!Save, Source!At
<1>2. /\ CommandShape(command[m]) /\ TreeShape(tree[Source!Place(m)])
      /\ item.source \in Source!Sources /\ item.destination \in Source!Destinations
      /\ config = [s \in Source!Sources |-> config[s]] /\ \A s \in Source!Sources : File(config[s])
  BY <1>1, Working, SyncFacts DEF SourceInv, TreeShape
<1>3. /\ (m \in disturbed' <=> m \in disturbed) /\ disturbed' \subseteq Machines
  BY <1>1, Disturbed DEF SourceInv
<1>4. CASE saved[item.destination] = Source!Odd /\ Source!Stop(m) /\ UNCHANGED <<saved, choice>>
  <2>1. /\ command'[m].pc = "idle" /\ command'[m] = Source!Idle
        /\ command' = [n \in Machines |-> command'[n]]
        /\ \A n \in Machines \ {m} : command'[n] = command[n]
    BY <1>1, <1>4, Goes DEF SourceInv
  <2>2. Shapes'
    BY <1>1, <1>3, <1>4, <2>1 DEF SourceInv, Shapes, Files
  <2>3. ChoiceSaved'
    BY <1>4 DEF SourceInv, ChoiceSaved
  <2> QED
    BY <1>1, <2>1, <2>2, <2>3, Stopped, OneMachine
<1>5. ASSUME saved' = [saved EXCEPT ![item.destination] = config[item.source]],
             choice' = IF i = Len(Sync) /\ m \notin disturbed THEN config ELSE Source!Forgotten,
             Source!Advance(m)
      PROVE  SourceInv'
  <2>1. GoneTo(m, "save", i + 1) /\ Source!Place(m)' = Source!Place(m)
    BY <1>1, <1>5, Goes DEF SourceInv, GoneTo, Source!Place
  <2>2. i \in Nat \ {0} /\ i + 1 <= Len(Sync) + 1
    BY SMTT(30), <1>1, <1>2, SyncFacts DEF CommandShape
  <2>3. CommandShape(command'[m])
    BY <1>1, <1>2, <2>1, <2>2 DEF GoneTo, CommandShape
  <2>4. /\ saved' = [d \in Source!Destinations |-> saved'[d]]
        /\ saved'[item.destination] = config[item.source]
        /\ \A d \in Source!Destinations \ {item.destination} : saved'[d] = saved[d]
    BY <1>2, <1>5 DEF SourceInv, Shapes, Files
  <2>5. Files'
    <3>1. \A d \in Source!Destinations : File(saved'[d])
      BY <1>2, <2>4 DEF SourceInv, Shapes, Files
    <3>2. \A d \in Source!Destinations : File(saved[d])'
      BY <3>1 DEF File, Source!Absent, Source!Odd
    <3> QED
      BY <1>3, <2>4, <3>2 DEF Files
  <2>6. \A n \in Machines : command'[n] = Source!Idle \/ CommandShape(command'[n])
    BY <2>1, <2>3 DEF SourceInv, Shapes, GoneTo
  <2>7. Shapes'
    BY <1>1, <2>1, <2>5, <2>6 DEF SourceInv, Shapes, GoneTo
  <2>8. ASSUME m \notin disturbed
        PROVE  /\ \A s \in Source!Sources : config[s].is = "regular"
               /\ \A j \in DOMAIN Sync :
                    j < i + 1 => saved'[Sync[j].destination] = config[Sync[j].source]
    <3>1. /\ \A s \in Source!Sources : config[s].is = "regular"
          /\ \A j \in DOMAIN Sync : j < i => saved[Sync[j].destination] = config[Sync[j].source]
      BY <1>1, <2>8 DEF SourceInv, CommandFine, Saves
    <3> SUFFICES ASSUME NEW j \in DOMAIN Sync, j < i + 1
                 PROVE  saved'[Sync[j].destination] = config[Sync[j].source]
      BY <3>1
    <3>2. CASE j = i
      BY <2>4, <3>2
    <3>3. CASE j # i
      <4>1. j < i
        BY <2>2, <3>3, SyncFacts
      <4>2. Sync[j].destination \in Source!Destinations \ {item.destination}
        BY <1>1, <3>3, SyncFacts
      <4> QED
        BY <2>4, <3>1, <4>1, <4>2
    <3> QED
      BY <3>2, <3>3
  <2>9. Saves(m)'
    BY <1>1, <1>3, <2>1, <2>8 DEF GoneTo, Saves
  <2>10. CommandFine(m)'
    BY <2>1, <2>9 DEF GoneTo, CommandFine, Unpacked, Prepare, Restores
  <2>11. ChoiceSaved'
    <3> SUFFICES ASSUME choice' # Source!Forgotten
                 PROVE  /\ choice' = [s \in Source!Sources |-> choice'[s]]
                        /\ \A j \in DOMAIN Sync :
                             /\ saved'[Sync[j].destination] = choice'[Sync[j].source]
                             /\ choice'[Sync[j].source].is = "regular"
      BY DEF ChoiceSaved, Source!Forgotten
    <3>1. choice' = config /\ i = Len(Sync) /\ m \notin disturbed
      BY <1>5
    <3>2. \A j \in DOMAIN Sync : j < i + 1
      BY <3>1, SyncFacts
    <3> QED
      BY <1>2, <2>8, <3>1, <3>2, SyncFacts
  <2> QED
    BY <1>1, <2>1, <2>7, <2>10, <2>11, OneMachine DEF GoneTo
<1> QED
  BY <1>1, <1>4, <1>5

LEMMA SavedStep ==
  ASSUME SourceInv, NEW m \in Machines, Source!Saved(m)
  PROVE  SourceInv'
<1>1. command[m].pc = "save" /\ Source!Stop(m) /\ UNCHANGED <<tree, side>> /\ Source!Unchanged(m)
  BY DEF Source!Saved, Source!At
<1> QED
  BY <1>1, NoTreeShape, LastStep

\* A killed command leaves its tree as it is, and stops.
LEMMA SourceKillStep ==
  ASSUME SourceInv, NEW m \in Machines, Source!Kill(m)
  PROVE  SourceInv'
<1>1. /\ command[m].pc # "idle" /\ Source!Stop(m)
      /\ UNCHANGED <<declared, version, saved, disturbed, choice>>
  BY DEF Source!Kill, Source!Busy, Source!At
<1>2. PICK began \in BOOLEAN :
        LET written == IF began THEN {command[m].revision} ELSE {} IN
        /\ side' = IF Source!At(m, "unpack") THEN [side EXCEPT ![m] = @ \cup written] ELSE side
        /\ tree' = IF command[m].pc \in {"remove", "copy", "clone"}
                     THEN [tree EXCEPT ![m].of = @ \cup written, ![m].whole = FALSE]
                     ELSE tree
  BY DEF Source!Kill
<1> DEFINE written == IF began THEN {command[m].revision} ELSE {}
           of == tree[m].of \cup written
           half == [tree[m] EXCEPT !.of = of]
           t == [half EXCEPT !.whole = FALSE]
<1>3. TreeShape(tree[m]) /\ m \in Source!Places /\ m # "tree" /\ "tree" \notin Machines
  BY <1>1, Working, SourceAssumption DEF SourceInv, Source!PackageSourceAssumption
<1>4. TreeShape(t)
  <2>1. TreeShape(half)
    <3> HIDE DEF of
    <3> QED
      BY <1>3, TreeField
  <2> HIDE DEF half
  <2> QED
    BY <2>1, TreeField
<1>5. tree' \in {tree, [tree EXCEPT ![m] = t]}
  <2>1. tree' \in {tree, [tree EXCEPT ![m].of = of, ![m].whole = FALSE]}
    BY <1>2
  <2>2. tree = [p \in Source!Places |-> tree[p]]
    BY DEF SourceInv, Shapes
  <2> HIDE DEF of
  <2>3. \A whole : [tree EXCEPT ![m].of = of, ![m].whole = whole]
                  = [tree EXCEPT ![m] = [half EXCEPT !.whole = whole]]
    BY <1>3, <2>2
  <2> QED
    BY <2>1, <2>3
<1> HIDE DEF t
<1>6. /\ tree' = [p \in Source!Places |-> tree'[p]] /\ \A p \in Source!Places : TreeShape(tree'[p])
      /\ \A p \in Source!Places \ {m} : tree'[p] = tree[p]
  BY <1>3, <1>4, <1>5 DEF SourceInv, Shapes
<1>7. side' = [n \in Machines |-> side'[n]] /\ \A n \in Machines \ {m} : side'[n] = side[n]
  BY <1>2 DEF SourceInv, Shapes
<1>8. /\ command'[m].pc = "idle" /\ command'[m] = Source!Idle
      /\ command' = [n \in Machines |-> command'[n]]
      /\ \A n \in Machines \ {m} : command'[n] = command[n]
  BY <1>1, Goes DEF SourceInv
<1>9. Shapes'
  BY <1>1, <1>6, <1>7, <1>8 DEF SourceInv, Shapes, Files
<1>10. ChoiceSaved'
  BY <1>1 DEF SourceInv, ChoiceSaved
<1>11. ASSUME NEW n \in Machines \ {m} PROVE CommandFine(n)'
  <2>1. n \in Source!Places /\ "tree" \in Source!Places /\ Source!Place(n) \in {n, "tree"}
    BY DEF Source!Places, Source!Place
  <2>2. tree'[n] = tree[n] /\ tree'[Source!Place(n)] = tree[Source!Place(n)]
    BY <1>3, <1>6, <2>1
  <2> QED
    BY <1>1, <1>7, <1>8, <2>2, CommandSame DEF SourceInv
<1>12. CommandFine(m)'
  BY <1>8, Stopped
<1> QED
  BY <1>9, <1>10, <1>11, <1>12 DEF SourceInv

\* Files of the package are edited: the commands at work read them too.
LEMMA EditsStep ==
  ASSUME SourceInv, Source!EditDeclaration \/ Source!EditPatch \/ Source!EditSaved
  PROVE  SourceInv'
<1>1. /\ UNCHANGED <<tree, side, command>>
      /\ declared'.kind \in Kinds
      /\ \/ UNCHANGED <<version, saved, disturbed>>
         \/ disturbed' = Source!Busy
  BY DEF Source!EditDeclaration, Source!EditPatch, Source!EditSaved, Source!Edit, SourceInv, Shapes
<1>2. disturbed' \subseteq Machines
  BY <1>1 DEF SourceInv, Shapes, Files, Source!Busy
<1>3. /\ saved' = [d \in Source!Destinations |-> saved'[d]]
      /\ \A d \in Source!Destinations : saved'[d] \in {saved[d], Source!Absent, Source!Odd}
  BY DEF Source!EditDeclaration, Source!EditPatch, Source!EditSaved, SourceInv, Shapes, Files
<1>4. \A d \in Source!Destinations : File(saved'[d])
  BY <1>3, FileFacts DEF SourceInv, Shapes, Files
<1>5. \A d \in Source!Destinations : File(saved[d])'
  BY <1>4 DEF File, Source!Absent, Source!Odd
<1>6. Shapes'
  BY <1>1, <1>2, <1>3, <1>5 DEF SourceInv, Shapes, Files
<1>7. ChoiceSaved'
  BY DEF Source!EditDeclaration, Source!EditPatch, Source!EditSaved, SourceInv, ChoiceSaved, Source!Forgotten
<1>8. ASSUME NEW m \in Machines PROVE CommandFine(m)'
  <2>1. CASE command[m].pc = "idle"
    BY <1>1, <2>1, Stopped
  <2>2. CASE command[m].pc # "idle"
    <3>1. m \notin disturbed' => m \notin disturbed /\ saved' = saved /\ version' = version
      BY <1>1, <2>2 DEF Source!Busy, Source!At
    <3> QED
      BY <1>1, <3>1, CommandSame DEF SourceInv
  <2> QED
    BY <2>1, <2>2
<1> QED
  BY <1>6, <1>7, <1>8 DEF SourceInv

LEMMA BeginStep ==
  ASSUME SourceInv, NEW m \in Machines, Source!StartBuild(m) \/ Source!StartConfigure(m)
  PROVE  SourceInv'
<1> DEFINE pcOf(task) == IF declared.kind = "archive" THEN "clear"
                         ELSE IF declared.kind = "git" THEN "remove" ELSE task
           new(task) == [task |-> task, i |-> 1, session |-> sessions', kind |-> declared.kind,
                         revision |-> declared.revision, pc |-> pcOf(task)]
<1>1. PICK task \in {"compile", "seed"} : command' = [command EXCEPT ![m] = new(task)]
  BY DEF Source!StartBuild, Source!StartConfigure, Source!Begin
<1>2. /\ disturbed' = disturbed \ {m}
      /\ UNCHANGED <<declared, version, saved, tree, side, choice>>
  BY DEF Source!StartBuild, Source!StartConfigure, Source!Begin
<1>3. /\ command' = [n \in Machines |-> command'[n]] /\ command'[m] = new(task)
      /\ \A n \in Machines \ {m} : command'[n] = command[n]
  <2> HIDE DEF new
  <2> QED
    BY <1>1 DEF SourceInv, Shapes
<1>4. declared.kind \in {"archive", "git", "directory"} /\ declared.kind \in Kinds
  BY SourceAssumption DEF SourceInv, Shapes, Source!PackageSourceAssumption
<1>5. CommandShape(new(task))
  BY <1>4, SyncFacts DEF CommandShape
<1>6. \A n \in Machines : command'[n] = Source!Idle \/ CommandShape(command'[n])
  <2> HIDE DEF new
  <2> QED
    BY <1>3, <1>5 DEF SourceInv, Shapes
<1>7. Shapes'
  <2> HIDE DEF new
  <2> QED
    BY <1>2, <1>3, <1>6 DEF SourceInv, Shapes, Files
<1>8. ChoiceSaved'
  BY <1>2 DEF SourceInv, ChoiceSaved
<1>9. /\ command'[m].pc \in {"clear", "remove", task} /\ command'[m].i = 1
      /\ command'[m].kind = declared.kind
      /\ command'[m].pc = "remove" => declared.kind = "git"
      /\ command'[m].pc = task => declared.kind = "directory"
  BY <1>3, <1>4
<1> HIDE DEF new
<1>10. CommandFine(m)'
  BY <1>9, NothingSavedYet DEF CommandFine, Unpacked, Prepare, Restores, Saves
<1>11. ASSUME NEW n \in Machines \ {m} PROVE CommandFine(n)'
  BY <1>2, <1>3, CommandSame DEF SourceInv
<1> QED
  BY <1>7, <1>8, <1>10, <1>11 DEF SourceInv

LEMMA SourceInit ==
  ASSUME Source!Init
  PROVE  SourceInv
<1>1. \A m \in Machines : command[m] = Source!Idle
  BY DEF Source!Init
<1>2. ASSUME NEW m \in Machines PROVE CommandFine(m)
  <2>1. command[m].pc = "idle"
    BY <1>1 DEF Source!Idle
  <2> QED
    BY <2>1 DEF CommandFine, Unpacked, Prepare, Restores, Saves
<1>3. \A p \in Source!Places : TreeShape(tree[p])
  <2>1. TreeShape([Source!NoTree EXCEPT !.whole = TRUE])
    BY NoTreeShape, TreeField
  <2> QED
    BY <2>1, NoTreeShape DEF Source!Init
<1>4. declared.kind \in Kinds
  BY DEF Source!Init
<1>5. Files
  BY FileFacts DEF Source!Init, Files
<1>6. tree = [p \in Source!Places |-> tree[p]] /\ side = [m \in Machines |-> side[m]]
      /\ command = [m \in Machines |-> command[m]]
  BY DEF Source!Init
<1> QED
  BY <1>1, <1>2, <1>3, <1>4, <1>5, <1>6 DEF SourceInv, Shapes, ChoiceSaved, Source!Init

\* Every command is prepared from what is declared and saved, and saves what was
\* chosen, unless an edit or a save beside it changed what it reads.
LEMMA SourceInvariant == Source!Spec => []SourceInv
<1>1. SourceInv /\ [Source!Next]_(Source!vars) => SourceInv'
  <2> SUFFICES ASSUME SourceInv, [Source!Next]_(Source!vars) PROVE SourceInv'
    OBVIOUS
  <2>1. CASE UNCHANGED Source!vars
    <3>1. UNCHANGED <<declared, version, saved, tree, side, command, disturbed, choice>>
      BY <2>1 DEF Source!vars
    <3>2. Shapes' /\ ChoiceSaved'
      BY <3>1 DEF SourceInv, Shapes, Files, ChoiceSaved
    <3> QED
      BY <3>1, <3>2, CommandSame DEF SourceInv
  <2>2. CASE Source!Next
    BY <2>2, BeginStep, ClearStep, UnpackStep, RemoveStep, FillStep, CloneFailsStep,
       CopyLocalFilesStep, ApplyPatchStep, PatchedStep, PutBackStep, PreparedStep, CompileStep,
       MenuStep, SaveStep, SavedStep, SourceKillStep, EditsStep DEF Source!Next, Source!Proceed
  <2> QED
    BY <2>1, <2>2
<1> QED
  BY <1>1, SourceInit, PTL DEF Source!Spec

\* What is compiled is exactly what is declared.
THEOREM SourceExact == Source!Spec => []PreparedIsExact
<1>1. ASSUME SourceInv PROVE PreparedIsExact
  <2> SUFFICES ASSUME NEW m \in Machines, Source!At(m, "compile"), command[m].kind # "directory",
                      m \notin disturbed
               PROVE  tree[m] = Source!Exact(m)
    BY DEF PreparedIsExact, Source!PreparedIsExact
  <2>1. tree[m] = [of |-> {command[m].revision}, whole |-> TRUE, local |-> version,
                   applied |-> PatchesBefore(Len(Patches) + 1, version),
                   config |-> SavedOver(Len(Sync) + 1)]
    BY <1>1 DEF SourceInv, CommandFine, Prepare, Source!At
  <2>2. PatchesBefore(Len(Patches) + 1, version)
          = [i \in DOMAIN Patches |-> <<Patches[i], version[Patches[i]]>>]
    BY SyncFacts DEF PatchesBefore
  <2>3. \A s : From(Len(Sync) + 1, s)
          = {i \in DOMAIN Sync : Sync[i].source = s /\ saved[Sync[i].destination] # Source!Absent}
    BY SyncFacts DEF From
  <2>4. SavedOver(Len(Sync) + 1) = Source!Exact(m).config
    <3> DEFINE saves(s) ==
                 {i \in DOMAIN Sync : Sync[i].source = s /\ saved[Sync[i].destination] # Source!Absent}
               value(I, s) ==
                 IF I = {} THEN Shipped[s]
                 ELSE saved[Sync[CHOOSE j \in I : \A k \in I : k <= j].destination]
    <3>1. SavedOver(Len(Sync) + 1) = [s \in Source!Sources |-> value(From(Len(Sync) + 1, s), s)]
      BY DEF SavedOver
    <3>2. Source!Exact(m).config = [s \in Source!Sources |-> value(saves(s), s)]
      BY DEF Source!Exact
    <3>3. \A s \in Source!Sources : From(Len(Sync) + 1, s) = saves(s)
      BY <2>3
    <3> HIDE DEF saves, value
    <3> QED
      BY <3>1, <3>2, <3>3
  <2>5. Source!Exact(m) = [of |-> {command[m].revision}, whole |-> TRUE, local |-> version,
                    applied |-> [i \in DOMAIN Patches |-> <<Patches[i], version[Patches[i]]>>],
                    config |-> Source!Exact(m).config]
    BY DEF Source!Exact
  <2> QED
    BY <2>1, <2>2, <2>4, <2>5
<1> QED
  BY <1>1, SourceInvariant, PTL

\* The last choice that was saved is what every machine builds with, and what the
\* next menu shows.
THEOREM ChoiceKept == Source!Spec => []ChoiceIsKept
<1>1. ASSUME SourceInv PROVE ChoiceIsKept
  <2> SUFFICES ASSUME NEW m \in Machines,
                      \/ Source!At(m, "menu")
                      \/ Source!At(m, "compile") /\ command[m].kind # "directory",
                      m \notin disturbed, choice # Source!Forgotten
               PROVE  tree[Source!Place(m)].config = choice
    BY DEF ChoiceIsKept, Source!ChoiceIsKept
  <2> DEFINE config == tree[Source!Place(m)].config
  <2>1. PutBackUpTo(m, Len(Sync) + 1)
    BY <1>1 DEF SourceInv, CommandFine, Restores, Source!At
  <2>2. /\ choice = [s \in Source!Sources |-> choice[s]]
        /\ \A j \in DOMAIN Sync : /\ saved[Sync[j].destination] = choice[Sync[j].source]
                                  /\ choice[Sync[j].source].is = "regular"
    BY <1>1 DEF SourceInv, ChoiceSaved
  <2>3. config = [s \in Source!Sources |-> config[s]]
    <3>1. command[m].pc # "idle"
      BY DEF Source!At
    <3> QED
      BY <1>1, <3>1, Working DEF SourceInv, TreeShape
  <2>4. ASSUME NEW s \in Source!Sources PROVE config[s] = choice[s]
    <3>1. PICK i \in DOMAIN Sync : Sync[i].source = s
      BY DEF Source!Sources
    <3>2. saved[Sync[i].destination] # Source!Absent
      BY <2>2 DEF Source!Absent
    <3>3. i \in From(Len(Sync) + 1, s)
      BY <3>1, <3>2, SyncFacts DEF From
    <3>4. PICK j \in From(Len(Sync) + 1, s) : config[s] = saved[Sync[j].destination]
      BY <2>1, <3>3 DEF PutBackUpTo
    <3>5. j \in DOMAIN Sync /\ Sync[j].source = s
      BY DEF From
    <3> QED
      BY <2>2, <3>4, <3>5
  <2> QED
    BY <2>2, <2>3, <2>4
<1> QED
  BY <1>1, SourceInvariant, PTL

-----------------------------------------------------------------------------
(***************************************************************************)
(* BuildrootImport.  The invariant says of owners whose package they are   *)
(* (OwnersRight), how far a job is (JobRight, WritingRight), what it has   *)
(* reported (Reported), which dependencies the packages it wrote have      *)
(* (DependsRight), what the registry knows of imported packages            *)
(* (KnownRight), which packages are whole (WholeRight), and which are the  *)
(* user's (UserRight).                                                     *)
(***************************************************************************)

Importing == job # Import!Idle
AtPackage ==
  Importing /\ job.pc \in {"remove", "create", "describe", "kconfig", "origin"}
Goal == Found[job.symbol]
Failing == WithoutUrl \cup Unresolved
WantedNames == {NameOf[s] : s \in job.wanted}
WantedPackages == {Found[s] : s \in job.wanted}

\* Every record of an owner is of a package that is there unless it was removed,
\* and that the symbol led to if it is an imported one.
Recorded(owners) ==
  \A s \in Import!Symbols :
    /\ owners[s] # Import!Nobody =>
         Import!Exists(owners[s].package) \/ owners[s].package \in removed
    /\ owners[s].owner = "imported" => owners[s].package = Found[s]
OwnersRight ==
  /\ Recorded(registry)
  /\ Importing => Recorded(job.owners)
  /\ Importing /\ job.pc = "index" =>
       \A s \in Import!Symbols :
         registry[s] # Import!Nobody => Import!Exists(registry[s].package)

\* How far a job is.
JobRight ==
  Importing =>
    /\ Import!Readable
    /\ job.never = never
    /\ imports > 0
    /\ job.todo \subseteq job.wanted
    /\ job.pc \in {"registry", "index"} => job.todo = {} /\ ~ job.check

\* What has been written of the package at hand.
WritingRight ==
  AtPackage =>
    /\ job.symbol \in job.todo
    /\ Goal \in BuildrootNames \ Failing
    /\ ~ job.check
    /\ IF job.pc = "remove" THEN job.owners[job.symbol].owner = "imported"
       ELSE packages[Goal].is = CASE job.pc = "create" -> "absent"
                                  [] job.pc = "describe" -> "bare"
                                  [] job.pc = "kconfig" -> "described"
                                  [] job.pc = "origin" -> "listed"

\* A symbol that is done with was reported.
Reported ==
  Importing => \A s \in job.wanted \ job.todo :
    /\ job.result[s] # "none"
    /\ job.result[s] = "failed" => Found[s] \in Failing \cup {Import!Unfound}
    /\ ~ job.check /\ job.result[s] # "failed" /\ NameOf[s] \notin job.never =>
         job.owners[s] # Import!Nobody

\* The dependencies that a package at hand has.
Exactly(kept, p) ==
  /\ \A d \in kept : d \in WantedNames \/ Import!Exists(d) \/ d \in removed
  /\ \A d \in Depends[p] :
       d \in WantedNames \/ (Import!Exists(d) /\ d \notin WantedPackages) => d \in kept
Written(p) == packages[p].is = "imported" /\ packages[p].import = imports
DependsRight ==
  /\ AtPackage => Exactly(job.depends, Goal)
  /\ Importing => \A p \in BuildrootNames : Written(p) => Exactly(packages[p].depends, p)
  /\ \A p \in BuildrootNames : packages[p].import <= imports

\* What the registry, and at work the job, knows of an imported package.
Counts(p) ==
  /\ importKills = 0 /\ packages[p].is = "imported"
  /\ p \notin never /\ NameOf[packages[p].origin] \notin never
KnownRight ==
  \A p \in BuildrootNames : packages[p].is = "imported" =>
    /\ Found[packages[p].origin] = p /\ p \notin Failing
    /\ Counts(p) =>
         /\ Importing => job.owners[packages[p].origin] = Import!Imported(p)
         /\ ~ Importing \/ job.pc = "index" \/ job.check =>
              registry[packages[p].origin] = Import!Imported(p)
         /\ Importing /\ job.update /\ ~ job.check
              /\ packages[p].origin \in job.wanted \ job.todo =>
              packages[p].import = imports

\* Without a kill there are only whole packages, but for the one at hand.
WholeRight ==
  importKills = 0 =>
    /\ \A p \in BuildrootNames :
         packages[p].is \in {"absent", "native", "imported"} \/ (AtPackage /\ p = Goal)
    /\ \A p \in index : Import!Exists(p) \/ p \in removed

\* What the job takes for imported is so in the registry, or was written by it.
UserRight ==
  Importing /\ job.pc \in {"next", "remove", "create", "describe", "kconfig", "origin"} =>
    \A s \in Import!Symbols :
      job.owners[s].owner = "imported" =>
        registry[s] = job.owners[s] \/ packages[Found[s]].is # "native"

ImportInv ==
  /\ Import!TypeOK /\ OwnersRight /\ JobRight /\ WritingRight /\ Reported /\ DependsRight
  /\ KnownRight /\ WholeRight /\ UserRight

LEMMA ImportFacts ==
  /\ NameOf \in [Import!Symbols -> BuildrootNames]
  /\ Found \in [Import!Symbols -> BuildrootNames \cup {Import!Unfound}]
  /\ Depends \in [BuildrootNames -> SUBSET BuildrootNames]
  /\ Import!Unfound \notin BuildrootNames
  /\ Order[1] \in Import!Symbols
  /\ UserPackages \subseteq BuildrootNames
  /\ MaxImports \in Nat /\ MaxImportEdits \in Nat /\ MaxImportKills \in Nat
<1>1. Order \in Seq(Import!Symbols) /\ Order # <<>>
  BY ImportAssumption DEF Import!BuildrootImportAssumption
<1>2. Len(Order) \in Nat /\ DOMAIN Order = 1..Len(Order) /\ Len(Order) # 0
  BY <1>1
<1> QED
  BY <1>1, <1>2, ImportAssumption DEF Import!BuildrootImportAssumption

LEMMA PlainType ==
  ASSUME NEW is \in {"absent", "native", "bare", "cut"}
  PROVE  /\ Import!Plain(is).is = is
         /\ Import!Plain(is).import = 0
         /\ Import!Plain(is) \in [is : {"absent", "native", "bare", "cut", "described",
                                       "listed", "imported"},
                                origin : Import!Symbols, depends : SUBSET BuildrootNames,
                                import : 0..MaxImports]
BY ImportFacts DEF Import!Plain, Import!Directory

LEMMA OwnersType ==
  ASSUME NEW p \in BuildrootNames
  PROVE  /\ Import!Native(p) \in Import!Owners /\ Import!Imported(p) \in Import!Owners
         /\ Import!Nobody \in Import!Owners
BY DEF Import!Owners

LEMMA OwnerFields ==
  /\ Import!Nobody.owner = "nobody" /\ Import!Nobody.package = Import!Unfound
  /\ \A p : /\ Import!Native(p).owner = "native" /\ Import!Native(p).package = p
            /\ Import!Imported(p).owner = "imported" /\ Import!Imported(p).package = p
            /\ Import!Native(p) # Import!Nobody /\ Import!Imported(p) # Import!Nobody
BY DEF Import!Nobody, Import!Native, Import!Imported

LEMMA OwnerCases ==
  ASSUME NEW o \in Import!Owners
  PROVE  /\ o # Import!Nobody => o.package \in BuildrootNames
         /\ o.owner = "imported" => o = Import!Imported(o.package)
         /\ o.owner = "native" => o # Import!Nobody
         /\ o.package \in BuildrootNames => o # Import!Nobody
BY ImportFacts DEF Import!Owners, Import!Nobody, Import!Native, Import!Imported

\* An owner is nobody, the registry's, or a package that is there.
LEMMA Existing ==
  ASSUME NEW s \in Import!Symbols
  PROVE  \/ Import!ExistingOwners[s] \in {Import!Nobody, registry[s]}
         \/ \E p \in BuildrootNames :
              Import!Exists(p) /\ Import!ExistingOwners[s] = Import!Native(p)
<1> DEFINE named == {p \in Import!Described \ never : Token[p] = s}
           one == CHOOSE p \in named : TRUE
<1>1. Import!ExistingOwners[s] \in {Import!Nobody, registry[s]}
      \/ (named # {} /\ Import!ExistingOwners[s] = Import!Native(one))
  BY DEF Import!ExistingOwners
<1>2. named # {} => one \in named
  OBVIOUS
<1>3. \A p \in named : p \in BuildrootNames /\ Import!Exists(p)
  BY DEF Import!Described, Import!Exists
<1> HIDE DEF named, one
<1> QED
  BY <1>1, <1>2, <1>3

\* What the registry says goes first.
LEMMA Registered ==
  ASSUME NEW s \in Import!Symbols, registry[s] # Import!Nobody,
         registry[s].package \notin never, NameOf[s] \notin never
  PROVE  Import!ExistingOwners[s] = registry[s]
BY DEF Import!ExistingOwners

LEMMA ExistingType ==
  ASSUME Import!TypeOK
  PROVE  Import!ExistingOwners \in [Import!Symbols -> Import!Owners]
<1> SUFFICES ASSUME NEW s \in Import!Symbols PROVE Import!ExistingOwners[s] \in Import!Owners
  BY DEF Import!ExistingOwners
<1>1. registry[s] \in Import!Owners /\ Import!Nobody \in Import!Owners
  BY DEF Import!TypeOK, Import!Owners
<1> QED
  BY <1>1, Existing, OwnersType

LEMMA DecisionType ==
  ASSUME Import!TypeOK, Importing, NEW s \in Import!Symbols
  PROVE  /\ Import!Decision(s).result \in {"skipped", "failed", "success", "write"}
         /\ Import!Decision(s).owner \in Import!Owners
<1>1. job.owners[s] \in Import!Owners
  BY DEF Import!TypeOK, Import!Jobs, Importing
<1>2. Found[s] # Import!Unfound => Import!Native(Found[s]) \in Import!Owners
  BY ImportFacts, OwnersType
<1>3. Import!Nobody \in Import!Owners
  BY DEF Import!Owners
<1> QED
  BY <1>1, <1>2, <1>3 DEF Import!Decision, Import!Outcome

LEMMA GoToType ==
  ASSUME job \in Import!Jobs,
         NEW pc \in {"next", "create", "describe", "kconfig", "origin", "registry",
                    "index"},
         Import!GoTo(pc)
  PROVE  /\ Importing' /\ job' \in Import!Jobs /\ job'.pc = pc
         /\ job'.update = job.update /\ job'.check = job.check
         /\ job'.todo = job.todo /\ job'.wanted = job.wanted
         /\ job'.never = job.never /\ job'.owners = job.owners
         /\ job'.result = job.result /\ job'.symbol = job.symbol
         /\ job'.depends = job.depends
BY DEF Import!Jobs, Import!GoTo, Importing, Import!Idle

\* When something is written, and what is reported otherwise.
LEMMA DecisionMade ==
  ASSUME Import!TypeOK, Importing, NEW s \in Import!Symbols
  PROVE  LET owner == job.owners[s]
             p == Found[s]
             d == Import!Decision(s)
         IN  /\ d.result = "write" =>
                  /\ p \in BuildrootNames \ Failing /\ ~ job.check /\ NameOf[s] \notin job.never
                  /\ ~ Import!Occupied(s) /\ owner.owner # "native"
             /\ d.result = "failed" => p \in Failing \cup {Import!Unfound}
             /\ d.result = "success" => job.check
             /\ d.owner = owner
                  \/ (NameOf[s] \in job.never /\ d.owner = Import!Nobody)
                  \/ (p \in BuildrootNames /\ Import!Exists(p) /\ d.owner = Import!Native(p))
             /\ d.result = "skipped" /\ NameOf[s] \notin job.never => d.owner # Import!Nobody
             /\ NameOf[s] \notin job.never /\ p \in BuildrootNames \ Failing
                  /\ owner = Import!Imported(p) =>
                  /\ d.owner = owner
                  /\ job.update /\ ~ job.check => d.result = "write"
<1>1. job.owners[s] \in Import!Owners
  BY DEF Import!TypeOK, Import!Jobs, Importing
<1>2. NameOf[s] \in BuildrootNames /\ Found[s] \in BuildrootNames \cup {Import!Unfound}
      /\ Import!Unfound \notin BuildrootNames
  BY ImportFacts
<1> QED
  BY <1>1, <1>2, OwnerFields, OwnerCases
     DEF Import!Decision, Import!Outcome, Import!Skipped, Import!Occupied, Failing

LEMMA OwnersKept ==
  ASSUME Import!TypeOK, NEW owners \in [Import!Symbols -> Import!Owners], Recorded(owners),
         \A q \in BuildrootNames : Import!Exists(q) => Import!Exists(q)' \/ q \in removed',
         \A q \in removed : Import!Exists(q)' \/ q \in removed'
  PROVE  Recorded(owners)'
BY OwnerCases DEF Recorded

LEMMA ExactlyKept ==
  ASSUME NEW kept \in SUBSET BuildrootNames, NEW p \in BuildrootNames, Exactly(kept, p),
         \A q \in BuildrootNames :
           Import!Exists(q) \/ q \in removed => Import!Exists(q)' \/ q \in removed',
         \A q \in BuildrootNames : Import!Exists(q)' => Import!Exists(q) \/ q \in WantedPackages,
         job'.wanted = job.wanted
  PROVE  Exactly(kept, p)'
<1>1. WantedNames' = WantedNames /\ WantedPackages' = WantedPackages
  BY DEF WantedNames, WantedPackages
<1>2. Depends[p] \subseteq BuildrootNames
  BY ImportFacts
<1> QED
  BY <1>1, <1>2 DEF Exactly

LEMMA ImportStarts ==
  ASSUME ImportInv, Import!StartImport
  PROVE  ImportInv'
<1> USE DEF ImportInv
<1>1. PICK update \in BOOLEAN, check \in BOOLEAN,
           wanted \in {selected} \cup {{s} : s \in selected} :
        job' = IF ~ Import!Readable THEN Import!Idle
               ELSE [pc |-> "next", update |-> update, check |-> check,
                     todo |-> wanted, wanted |-> wanted,
                     owners |-> Import!ExistingOwners, never |-> never,
                     symbol |-> Order[1], depends |-> {},
                     result |-> [s \in Import!Symbols |-> "none"]]
  BY DEF Import!StartImport
<1>2. /\ ~ Importing /\ imports' = imports + 1 /\ imports \in 0..MaxImports
      /\ imports < MaxImports
      /\ UNCHANGED <<packages, registry, index, never, selected, importEdits, importKills,
                     removed>>
  BY DEF Import!StartImport, Importing, Import!TypeOK
<1>3. wanted \in SUBSET Import!Symbols
  BY DEF Import!TypeOK
<1>4. imports' \in 0..MaxImports /\ imports' > 0 /\ imports' > imports
  BY <1>2, ImportFacts
<1>5. CASE ~ Import!Readable
  <2>1. job' = Import!Idle
    BY <1>1, <1>5
  <2>2. ~ Importing'
    BY <2>1 DEF Importing, Import!Idle
  <2>3. Import!TypeOK'
    BY <1>2, <1>4, <2>1 DEF Import!TypeOK, Import!Idle
  <2>4. OwnersRight' /\ JobRight' /\ WritingRight' /\ Reported' /\ UserRight'
    BY <1>2, <2>2 DEF OwnersRight, JobRight, WritingRight, Reported, UserRight, Recorded,
                      AtPackage, Import!Exists
  <2>5. DependsRight'
    BY <1>2, <1>4, <2>2 DEF DependsRight, AtPackage, Import!TypeOK
  <2>6. KnownRight' /\ WholeRight'
    BY <1>2, <2>2 DEF KnownRight, WholeRight, AtPackage, Counts, Import!Exists
  <2> QED
    BY <2>3, <2>4, <2>5, <2>6
<1>6. CASE Import!Readable
  <2>1. /\ job'.pc = "next" /\ job'.update = update /\ job'.check = check
        /\ job'.todo = wanted /\ job'.wanted = wanted
        /\ job'.owners = Import!ExistingOwners /\ job'.never = never
    BY <1>1, <1>6
  <2>2. job' \in Import!Jobs
    BY <1>1, <1>3, <1>6, ExistingType, ImportFacts DEF Import!Jobs, Import!TypeOK
  <2>3. Importing' /\ ~ AtPackage'
    BY <2>1 DEF Importing, AtPackage, Import!Idle
  <2>4. Import!TypeOK'
    BY <1>2, <1>4, <2>2 DEF Import!TypeOK
  <2>5. OwnersRight'
    <3>1. ASSUME NEW s \in Import!Symbols
          PROVE  /\ Import!ExistingOwners[s] # Import!Nobody =>
                      \/ Import!Exists(Import!ExistingOwners[s].package)
                      \/ Import!ExistingOwners[s].package \in removed
                 /\ Import!ExistingOwners[s].owner = "imported" =>
                      Import!ExistingOwners[s].package = Found[s]
      BY OwnerFields, Existing DEF OwnersRight, Recorded
    <3> QED
      BY <1>2, <2>1, <3>1 DEF OwnersRight, Recorded, Import!Exists
  <2>6. JobRight' /\ WritingRight' /\ Reported'
    BY <1>2, <1>4, <1>6, <2>1, <2>3 DEF JobRight, WritingRight, Reported, Import!Readable
  <2>7. DependsRight'
    BY <1>2, <1>4, <2>3 DEF DependsRight, Written, Import!TypeOK
  <2>8. KnownRight'
    <3> SUFFICES ASSUME NEW p \in BuildrootNames, packages[p].is = "imported", Counts(p)
                 PROVE  Import!ExistingOwners[packages[p].origin] = Import!Imported(p)
      BY <1>2, <2>1, <2>3 DEF KnownRight, Counts
    <3>1. packages[p].origin \in Import!Symbols
      BY DEF Import!TypeOK
    <3>2. registry[packages[p].origin] = Import!Imported(p)
      BY <1>2 DEF KnownRight
    <3> QED
      BY <3>1, <3>2, OwnerFields, Registered DEF Counts
  <2>9. WholeRight'
    BY <1>2, <2>3 DEF WholeRight, AtPackage, Import!Exists
  <2>10. UserRight'
    <3> SUFFICES ASSUME NEW s \in Import!Symbols,
                        Import!ExistingOwners[s].owner = "imported"
                 PROVE  registry[s] = Import!ExistingOwners[s]
      BY <1>2, <2>1 DEF UserRight
    <3> QED
      BY OwnerFields, Existing
  <2> QED
    BY <2>4, <2>5, <2>6, <2>7, <2>8, <2>9, <2>10
<1> QED
  BY <1>5, <1>6

LEMMA SymbolReported ==
  ASSUME ImportInv, Importing, job.pc = "next", NEW s \in Import!Symbols, s \in job.todo,
         NEW result, NEW owner,
         result = Import!Decision(s).result, owner = Import!Decision(s).owner,
         result # "write", Import!Report(s, result, owner),
         UNCHANGED <<packages, registry, index, never, selected, imports, importEdits,
                     importKills, removed>>
  PROVE  ImportInv'
<1> USE DEF ImportInv
<1>1. job \in Import!Jobs
  BY DEF Import!TypeOK, Importing
<1>2. result \in {"skipped", "failed", "success"} /\ owner \in Import!Owners
  BY DecisionType
<1>3. /\ Importing' /\ job' \in Import!Jobs /\ job'.pc = "next"
      /\ job'.update = job.update /\ job'.check = job.check
      /\ job'.todo = job.todo \ {s} /\ job'.wanted = job.wanted
      /\ job'.never = job.never
      /\ job'.owners = [job.owners EXCEPT ![s] = owner]
      /\ job'.result = [job.result EXCEPT ![s] = result]
  BY <1>1, <1>2 DEF Import!Jobs, Import!Report, Importing, Import!Idle
<1>4. ~ AtPackage /\ ~ AtPackage'
  BY <1>3 DEF AtPackage
<1>5. /\ job.owners \in [Import!Symbols -> Import!Owners]
      /\ job.result \in [Import!Symbols -> {"none", "success", "skipped", "failed"}]
  BY <1>1 DEF Import!Jobs
<1>6. /\ job'.owners[s] = owner /\ job'.result[s] = result
      /\ \A t \in Import!Symbols : t # s =>
           job'.owners[t] = job.owners[t] /\ job'.result[t] = job.result[t]
  BY <1>3, <1>5
<1>7. /\ result = "failed" => Found[s] \in Failing \cup {Import!Unfound}
      /\ result = "success" => job.check
      /\ \/ owner = job.owners[s]
         \/ NameOf[s] \in job.never /\ owner = Import!Nobody
         \/ Found[s] \in BuildrootNames /\ Import!Exists(Found[s]) /\ owner = Import!Native(Found[s])
      /\ result = "skipped" /\ NameOf[s] \notin job.never => owner # Import!Nobody
      /\ NameOf[s] \notin job.never /\ Found[s] \in BuildrootNames \ Failing
           /\ job.owners[s] = Import!Imported(Found[s]) =>
           /\ owner = job.owners[s]
           /\ job.update /\ ~ job.check => result = "write"
  BY DecisionMade
<1>8. Import!TypeOK'
  BY <1>3 DEF Import!TypeOK
<1>9. OwnersRight'
  <2>1. Recorded(job.owners)
    BY DEF OwnersRight
  <2>2. Recorded(job'.owners)
    BY <1>6, <1>7, <2>1, OwnerFields DEF Recorded
  <2> QED
    BY <1>3, <2>2 DEF OwnersRight, Recorded, Import!Exists
<1>10. JobRight' /\ WritingRight'
  BY <1>3, <1>4 DEF JobRight, WritingRight, Import!Readable
<1>11. Reported'
  <2>1. job.wanted \subseteq Import!Symbols
    BY <1>1 DEF Import!Jobs
  <2>2. result # "none"
    BY <1>2
  <2> QED
    BY <1>2, <1>3, <1>6, <1>7, <2>1, <2>2 DEF Reported
<1>12. DependsRight'
  BY <1>3, <1>4 DEF DependsRight, Exactly, Written, WantedNames, WantedPackages, Import!Exists
<1>13. KnownRight'
  <2> SUFFICES ASSUME NEW p \in BuildrootNames, packages[p].is = "imported"
               PROVE  /\ Found[packages[p].origin] = p /\ p \notin Failing
                      /\ Counts(p) =>
                           /\ job'.owners[packages[p].origin] = Import!Imported(p)
                           /\ job.check =>
                                registry[packages[p].origin] = Import!Imported(p)
                           /\ job.update /\ ~ job.check
                                /\ packages[p].origin \in job.wanted \ job'.todo =>
                                packages[p].import = imports
    BY <1>3 DEF KnownRight, Counts
  <2>1. packages[p].origin \in Import!Symbols
    BY DEF Import!TypeOK
  <2>2. Found[packages[p].origin] = p /\ p \notin Failing
    BY DEF KnownRight
  <2>3. ASSUME Counts(p)
        PROVE  /\ job.owners[packages[p].origin] = Import!Imported(p)
               /\ job.check => registry[packages[p].origin] = Import!Imported(p)
               /\ job.update /\ ~ job.check
                    /\ packages[p].origin \in job.wanted \ job.todo =>
                    packages[p].import = imports
               /\ NameOf[packages[p].origin] \notin job.never
    BY <2>3 DEF KnownRight, Counts, JobRight
  <2> QED
    BY <1>2, <1>3, <1>6, <1>7, <2>1, <2>2, <2>3
<1>14. WholeRight'
  BY <1>4 DEF WholeRight, Import!Exists
<1>15. UserRight'
  <2> SUFFICES ASSUME NEW t \in Import!Symbols, job'.owners[t].owner = "imported"
               PROVE  registry[t] = job'.owners[t] \/ packages[Found[t]].is # "native"
    BY DEF UserRight
  <2>1. job'.owners[t] = job.owners[t]
    BY <1>6, <1>7, OwnerFields
  <2> QED
    BY <2>1 DEF UserRight
<1> QED
  BY <1>8, <1>9, <1>10, <1>11, <1>12, <1>13, <1>14, <1>15

LEMMA PackageOpened ==
  ASSUME ImportInv, Importing, job.pc = "next", NEW s \in Import!Symbols, s \in job.todo,
         Import!Decision(s).result = "write",
         Import!Open(s),
         UNCHANGED <<packages, registry, index, never, selected, imports, importEdits,
                     importKills, removed>>
  PROVE  ImportInv'
<1> USE DEF ImportInv
<1> DEFINE p == Found[s]
<1>1. job \in Import!Jobs
  BY DEF Import!TypeOK, Importing
<1>2. p \in BuildrootNames \ Failing /\ ~ job.check /\ ~ Import!Occupied(s)
  BY DecisionMade
<1>3. Import!KeptDepends(p) \in SUBSET BuildrootNames
  BY <1>2, ImportFacts DEF Import!KeptDepends
<1>4. /\ job' \in Import!Jobs /\ job'.symbol = s
      /\ job'.pc = IF Import!Exists(p) THEN "remove" ELSE "create"
      /\ job'.depends = Import!KeptDepends(p)
      /\ job'.update = job.update /\ job'.check = job.check
      /\ job'.todo = job.todo /\ job'.wanted = job.wanted
      /\ job'.never = job.never /\ job'.owners = job.owners
      /\ job'.result = job.result
  BY <1>1, <1>3 DEF Import!Open, Import!Jobs
<1>5. Importing' /\ AtPackage' /\ ~ AtPackage
  BY <1>4 DEF Importing, AtPackage, Import!Idle
<1>6. Import!TypeOK'
  BY <1>4 DEF Import!TypeOK
<1>7. OwnersRight'
  BY <1>4 DEF OwnersRight, Recorded, Import!Exists
<1>8. JobRight' /\ Reported'
  BY <1>4 DEF JobRight, Reported, Import!Readable
<1>9. WritingRight'
  <2>1. Import!Exists(p) => job.owners[s].owner = "imported"
    BY <1>2 DEF Import!Occupied
  <2>2. ~ Import!Exists(p) => packages[p].is = "absent"
    BY DEF Import!Exists
  <2> QED
    BY <1>2, <1>4, <2>1, <2>2 DEF WritingRight, Goal
<1>10. DependsRight'
  <2>1. WantedNames' = WantedNames /\ WantedPackages' = WantedPackages
    BY <1>4 DEF WantedPackages, WantedNames
  <2>2. Exactly(job.depends, p)'
    BY <1>2, <1>4, <2>1, ImportFacts
       DEF Exactly, Import!KeptDepends, WantedNames, WantedPackages, Import!Exists
  <2>3. ASSUME NEW q \in BuildrootNames, Written(q)' PROVE Exactly(packages[q].depends, q)'
    BY <2>1, <2>3 DEF DependsRight, Written, Exactly, Import!Exists
  <2> QED
    BY <1>4, <2>2, <2>3 DEF DependsRight, Goal
<1>11. KnownRight'
  BY <1>2, <1>4, <1>5 DEF KnownRight, Counts
<1>12. WholeRight'
  BY <1>5 DEF WholeRight, Import!Exists
<1>13. UserRight'
  BY <1>4 DEF UserRight
<1> QED
  BY <1>6, <1>7, <1>8, <1>9, <1>10, <1>11, <1>12, <1>13

\* While the directory is away it counts as removed.
LEMMA DirectoryReplaced ==
  ASSUME ImportInv, Import!RemoveDirectory \/ Import!CreateDirectory
  PROVE  ImportInv'
<1> USE DEF ImportInv
<1> DEFINE p == Goal
<1>1. Importing /\ AtPackage
  BY DEF Import!RemoveDirectory, Import!CreateDirectory, Importing, AtPackage, Import!Idle
<1>2. PICK is \in {"absent", "bare"} :
        /\ packages' = [packages EXCEPT ![p] = Import!Plain(is)]
        /\ Import!GoTo(IF is = "absent" THEN "create" ELSE "describe")
        /\ removed' = IF is = "absent" THEN removed \cup {p} ELSE removed \ {p}
  BY DEF Import!RemoveDirectory, Import!CreateDirectory, Import!Replace, Goal
<1>3. UNCHANGED <<registry, index, never, selected, imports, importEdits, importKills>>
  BY DEF Import!RemoveDirectory, Import!CreateDirectory, Import!Replace
<1>4. job \in Import!Jobs /\ p \in BuildrootNames \ Failing /\ ~ job.check
  BY <1>1 DEF Import!TypeOK, Importing, WritingRight
<1>5. /\ Importing' /\ job' \in Import!Jobs
      /\ job'.pc = IF is = "absent" THEN "create" ELSE "describe"
      /\ job'.update = job.update /\ job'.check = job.check
      /\ job'.todo = job.todo /\ job'.wanted = job.wanted
      /\ job'.never = job.never /\ job'.owners = job.owners
      /\ job'.result = job.result /\ job'.symbol = job.symbol
      /\ job'.depends = job.depends
  BY <1>2, <1>4, GoToType
<1>6. AtPackage' /\ Goal' = Goal
  BY <1>5 DEF AtPackage, Goal
<1>7. /\ packages'[p].is = is /\ packages'[p].import = 0
      /\ \A q \in BuildrootNames : q # p => packages'[q] = packages[q]
      /\ packages' \in [BuildrootNames ->
           [is : {"absent", "native", "bare", "cut", "described", "listed", "imported"},
            origin : Import!Symbols, depends : SUBSET BuildrootNames, import : 0..MaxImports]]
  BY <1>2, <1>4, PlainType DEF Import!TypeOK
<1>8. /\ \A q \in BuildrootNames :
           Import!Exists(q) \/ q \in removed => Import!Exists(q)' \/ q \in removed'
      /\ \A q \in BuildrootNames : Import!Exists(q)' => Import!Exists(q) \/ q = p
      /\ removed \subseteq BuildrootNames /\ removed' \subseteq BuildrootNames
  BY <1>2, <1>4, <1>7 DEF Import!Exists, Import!TypeOK
<1> HIDE DEF p
<1>9. Import!TypeOK'
  BY <1>3, <1>5, <1>7, <1>8 DEF Import!TypeOK
<1>10. OwnersRight'
  <2>1. /\ registry \in [Import!Symbols -> Import!Owners]
        /\ job.owners \in [Import!Symbols -> Import!Owners]
    BY <1>4 DEF Import!TypeOK, Import!Jobs
  <2>2. Recorded(registry) /\ Recorded(job.owners)
    BY <1>1 DEF OwnersRight
  <2> QED
    BY <1>3, <1>5, <1>8, <2>1, <2>2, OwnersKept DEF OwnersRight, Recorded
<1>11. JobRight'
  BY <1>1, <1>3, <1>5, <1>7 DEF JobRight, Import!Readable
<1>12. WritingRight'
  BY <1>1, <1>4, <1>5, <1>6, <1>7 DEF WritingRight, p
<1>13. Reported'
  BY <1>1, <1>5 DEF Reported
<1>14. DependsRight'
  <2>1. /\ \A q \in BuildrootNames :
             Import!Exists(q)' => Import!Exists(q) \/ q \in WantedPackages
        /\ job.depends \in SUBSET BuildrootNames
    BY <1>1, <1>4, <1>8
       DEF WantedPackages, WritingRight, JobRight, Import!Jobs, Goal, p
  <2>2. Exactly(job.depends, Goal)'
    <3>1. Exactly(job.depends, Goal)
      BY <1>1 DEF DependsRight
    <3> QED
      BY <1>4, <1>5, <1>6, <1>8, <2>1, <3>1, ExactlyKept DEF Exactly, p
  <2>3. ASSUME NEW q \in BuildrootNames, Written(q)' PROVE Exactly(packages[q].depends, q)'
    <3>1. imports > 0
      BY <1>1 DEF JobRight
    <3>2. q # p /\ Written(q) /\ packages'[q] = packages[q]
      BY <1>3, <1>7, <2>3, <3>1 DEF Written
    <3>3. Exactly(packages[q].depends, q) /\ packages[q].depends \in SUBSET BuildrootNames
      BY <1>1, <3>2 DEF DependsRight, Import!TypeOK
    <3> QED
      BY <1>5, <1>8, <2>1, <3>2, <3>3, ExactlyKept DEF Exactly
  <2>4. \A q \in BuildrootNames : packages'[q].import <= imports
    BY <1>7 DEF DependsRight, Import!TypeOK
  <2> QED
    BY <1>3, <1>5, <2>2, <2>3, <2>4 DEF DependsRight
<1>15. KnownRight'
  <2> SUFFICES ASSUME NEW q \in BuildrootNames, packages'[q].is = "imported"
               PROVE  /\ Found[packages'[q].origin] = q /\ q \notin Failing
                      /\ Counts(q)' =>
                           /\ job.owners[packages'[q].origin] = Import!Imported(q)
                           /\ job.update /\ packages'[q].origin \in job.wanted \ job.todo =>
                                packages'[q].import = imports
    BY <1>3, <1>4, <1>5 DEF KnownRight
  <2>1. packages'[q] = packages[q]
    BY <1>7
  <2> QED
    BY <1>1, <1>3, <1>4, <2>1 DEF KnownRight, Counts
<1>16. WholeRight'
  <2>1. index \subseteq BuildrootNames
    BY DEF Import!TypeOK
  <2> QED
    BY <1>1, <1>3, <1>6, <1>7, <1>8, <2>1 DEF WholeRight, p
<1>17. UserRight'
  <2> SUFFICES ASSUME NEW t \in Import!Symbols, job.owners[t].owner = "imported"
               PROVE  registry[t] = job.owners[t] \/ packages'[Found[t]].is # "native"
    BY <1>3, <1>5 DEF UserRight
  <2>1. Found[t] \in BuildrootNames
    <3>1. job.owners[t] \in Import!Owners /\ Recorded(job.owners)
      BY <1>1, <1>4 DEF Import!Jobs, OwnersRight
    <3> QED
      BY <3>1, OwnerCases, OwnerFields DEF Recorded
  <2> QED
    BY <1>1, <1>7, <2>1 DEF UserRight, AtPackage
<1> QED
  BY <1>9, <1>10, <1>11, <1>12, <1>13, <1>14, <1>15, <1>16, <1>17

LEMMA SymbolImported ==
  ASSUME ImportInv, Import!ImportOne
  PROVE  ImportInv'
<1>1. Importing /\ job.pc = "next"
  BY DEF Import!ImportOne, Importing, Import!Idle
<1>2. PICK s \in Import!Symbols :
        /\ Import!First(s)
        /\ IF Import!Decision(s).result = "write"
           THEN Import!Open(s)
           ELSE Import!Report(s, Import!Decision(s).result, Import!Decision(s).owner)
  BY DEF Import!ImportOne
<1>3. s \in job.todo
  BY <1>2 DEF Import!First
<1>4. UNCHANGED <<packages, registry, index, never, selected, imports, importEdits,
                  importKills, removed>>
  BY DEF Import!ImportOne
<1> QED
  BY <1>1, <1>2, <1>3, <1>4, SymbolReported, PackageOpened

LEMMA WriteType ==
  ASSUME ImportInv, AtPackage, job.pc \in {"describe", "kconfig", "origin"},
         NEW is \in {"described", "listed", "imported"},
         packages' = [packages EXCEPT ![Goal] =
                        Import!Directory(is, job.symbol, job.depends, imports)]
  PROVE  /\ job \in Import!Jobs /\ job.symbol \in Import!Symbols /\ Goal \in BuildrootNames
         /\ packages'[Goal].is = is /\ packages'[Goal].origin = job.symbol
         /\ packages'[Goal].depends = job.depends /\ packages'[Goal].import = imports
         /\ \A q \in BuildrootNames : q # Goal => packages'[q] = packages[q]
         /\ \A q \in BuildrootNames : Import!Exists(q)' <=> Import!Exists(q)
         /\ packages' \in [BuildrootNames ->
              [is : {"absent", "native", "bare", "cut", "described", "listed", "imported"},
               origin : Import!Symbols, depends : SUBSET BuildrootNames, import : 0..MaxImports]]
         /\ Import!Readable'
<1>1. job \in Import!Jobs /\ Importing /\ Goal \in BuildrootNames
  BY DEF ImportInv, Import!TypeOK, AtPackage, Importing, WritingRight
<1>2. job.symbol \in Import!Symbols /\ job.depends \in SUBSET BuildrootNames
  BY <1>1 DEF Import!Jobs
<1>3. imports \in 0..MaxImports /\ imports <= imports
  BY DEF ImportInv, Import!TypeOK
<1>4. Import!Directory(is, job.symbol, job.depends, imports) \in
        [is : {"absent", "native", "bare", "cut", "described", "listed", "imported"},
         origin : Import!Symbols, depends : SUBSET BuildrootNames, import : 0..MaxImports]
  BY <1>2, <1>3 DEF Import!Directory
<1>5. /\ packages'[Goal] = Import!Directory(is, job.symbol, job.depends, imports)
      /\ \A q \in BuildrootNames : q # Goal => packages'[q] = packages[q]
      /\ packages' \in [BuildrootNames ->
           [is : {"absent", "native", "bare", "cut", "described", "listed", "imported"},
            origin : Import!Symbols, depends : SUBSET BuildrootNames, import : 0..MaxImports]]
  BY <1>1, <1>4 DEF ImportInv, Import!TypeOK
<1>6. /\ packages'[Goal].is = is /\ packages'[Goal].origin = job.symbol
      /\ packages'[Goal].depends = job.depends /\ packages'[Goal].import = imports
  BY <1>5 DEF Import!Directory
<1>7. packages[Goal].is \in {"bare", "described", "listed"}
  BY DEF ImportInv, WritingRight, AtPackage
<1>8. Import!Readable'
  BY <1>1, <1>5, <1>6 DEF ImportInv, JobRight, Import!Readable
<1>9. \A q \in BuildrootNames : Import!Exists(q)' <=> Import!Exists(q)
  BY <1>5, <1>6, <1>7 DEF Import!Exists
<1> QED
  BY <1>1, <1>2, <1>5, <1>6, <1>8, <1>9

\* Nothing that depends on the package at hand changes until it is whole.
LEMMA HalfWritten ==
  ASSUME ImportInv, AtPackage, job.pc \in {"describe", "kconfig", "origin"},
         NEW is \in {"described", "listed"},
         NEW pc \in {"kconfig", "origin"},
         is = "described" <=> pc = "kconfig",
         packages' = [packages EXCEPT ![Goal] =
                        Import!Directory(is, job.symbol, job.depends, imports)],
         Import!GoTo(pc),
         UNCHANGED <<registry, index, never, selected, imports, importEdits, importKills,
                     removed>>
  PROVE  ImportInv'
<1> USE DEF ImportInv
<1>1. /\ job \in Import!Jobs /\ job.symbol \in Import!Symbols /\ Goal \in BuildrootNames
      /\ packages'[Goal].is = is /\ packages'[Goal].import = imports
      /\ \A q \in BuildrootNames : q # Goal => packages'[q] = packages[q]
      /\ \A q \in BuildrootNames : Import!Exists(q)' <=> Import!Exists(q)
      /\ packages' \in [BuildrootNames ->
           [is : {"absent", "native", "bare", "cut", "described", "listed", "imported"},
            origin : Import!Symbols, depends : SUBSET BuildrootNames, import : 0..MaxImports]]
      /\ Import!Readable'
  BY WriteType
<1>2. /\ Importing' /\ job' \in Import!Jobs /\ job'.pc = pc
      /\ job'.update = job.update /\ job'.check = job.check
      /\ job'.todo = job.todo /\ job'.wanted = job.wanted
      /\ job'.never = job.never /\ job'.owners = job.owners
      /\ job'.result = job.result /\ job'.symbol = job.symbol
      /\ job'.depends = job.depends
  BY <1>1, GoToType
<1>3. Importing /\ AtPackage' /\ Goal' = Goal
  BY <1>2 DEF AtPackage, Goal
<1>4. Import!TypeOK'
  BY <1>1, <1>2 DEF Import!TypeOK
<1>5. OwnersRight'
  <2>1. /\ registry \in [Import!Symbols -> Import!Owners]
        /\ job.owners \in [Import!Symbols -> Import!Owners]
    BY <1>1 DEF Import!TypeOK, Import!Jobs
  <2>2. Recorded(registry) /\ Recorded(job.owners)
    BY <1>3 DEF OwnersRight
  <2> QED
    BY <1>1, <1>2, <2>1, <2>2, OwnersKept DEF OwnersRight, Recorded
<1>6. JobRight'
  BY <1>1, <1>2, <1>3 DEF JobRight
<1>7. WritingRight'
  BY <1>1, <1>2, <1>3 DEF WritingRight
<1>8. Reported'
  BY <1>2, <1>3 DEF Reported
<1>9. DependsRight'
  <2>1. Exactly(job.depends, Goal)'
    <3>1. job.depends \in SUBSET BuildrootNames /\ Exactly(job.depends, Goal)
      BY <1>1 DEF Import!Jobs, DependsRight
    <3> QED
      BY <1>1, <1>2, <1>3, <3>1, ExactlyKept DEF Exactly
  <2>2. ASSUME NEW q \in BuildrootNames, Written(q)' PROVE Exactly(packages[q].depends, q)'
    <3>1. q # Goal /\ Written(q) /\ packages'[q] = packages[q]
      BY <1>1, <2>2 DEF Written
    <3> QED
      BY <1>1, <1>2, <1>3, <3>1, ExactlyKept DEF DependsRight
  <2>3. \A q \in BuildrootNames : packages'[q].import <= imports
    BY <1>1 DEF DependsRight, Import!TypeOK
  <2> QED
    BY <2>1, <2>2, <2>3 DEF DependsRight
<1>10. KnownRight'
  <2> SUFFICES ASSUME NEW q \in BuildrootNames, packages'[q].is = "imported"
               PROVE  /\ Found[packages'[q].origin] = q /\ q \notin Failing
                      /\ Counts(q)' =>
                           /\ job.owners[packages'[q].origin] = Import!Imported(q)
                           /\ job.update /\ packages'[q].origin \in job.wanted \ job.todo =>
                                packages'[q].import = imports
    BY <1>2, <1>3 DEF KnownRight, WritingRight
  <2>1. packages'[q] = packages[q]
    BY <1>1
  <2> QED
    BY <1>3, <2>1 DEF KnownRight, Counts, WritingRight
<1>11. WholeRight'
  <2>1. index \subseteq BuildrootNames
    BY DEF Import!TypeOK
  <2> QED
    BY <1>1, <1>3, <2>1 DEF WholeRight
<1>12. UserRight'
  BY <1>1, <1>2, <1>3, ImportFacts DEF UserRight, AtPackage, OwnersRight
<1> QED
  BY <1>4, <1>5, <1>6, <1>7, <1>8, <1>9, <1>10, <1>11, <1>12

LEMMA DescriptionWritten ==
  ASSUME ImportInv, Import!WriteDescription
  PROVE  ImportInv'
<1>1. job # Import!Idle /\ AtPackage
  BY DEF Import!WriteDescription, AtPackage, Importing, Import!Idle
<1> QED
  BY <1>1, HalfWritten DEF Import!WriteDescription, Import!Write, Goal

LEMMA KconfigWritten ==
  ASSUME ImportInv, Import!WriteKconfig
  PROVE  ImportInv'
<1>1. job # Import!Idle /\ AtPackage
  BY DEF Import!WriteKconfig, AtPackage, Importing, Import!Idle
<1>2. Import!Readable
  BY <1>1 DEF ImportInv, JobRight, Importing
<1> QED
  BY <1>1, <1>2, HalfWritten DEF Import!WriteKconfig, Import!Write, Goal

LEMMA OriginWritten ==
  ASSUME ImportInv, Import!WriteOrigin
  PROVE  ImportInv'
<1> USE DEF ImportInv
<1> DEFINE s == job.symbol
           p == Goal
<1>1. Importing /\ AtPackage /\ job.pc = "origin"
  BY DEF Import!WriteOrigin, AtPackage, Importing, Import!Idle
<1>2. /\ packages' = [packages EXCEPT ![Goal] =
                        Import!Directory("imported", job.symbol, job.depends, imports)]
      /\ Import!Report(s, "success", Import!Imported(p))
      /\ UNCHANGED <<registry, index, never, selected, imports, importEdits, importKills,
                     removed>>
  BY DEF Import!WriteOrigin, Import!Write, Goal
<1>3. /\ job \in Import!Jobs /\ s \in Import!Symbols /\ p \in BuildrootNames
      /\ packages'[p].is = "imported" /\ packages'[p].origin = s
      /\ packages'[p].depends = job.depends /\ packages'[p].import = imports
      /\ \A q \in BuildrootNames : q # p => packages'[q] = packages[q]
      /\ \A q \in BuildrootNames : Import!Exists(q)' <=> Import!Exists(q)
      /\ packages' \in [BuildrootNames ->
           [is : {"absent", "native", "bare", "cut", "described", "listed", "imported"},
            origin : Import!Symbols, depends : SUBSET BuildrootNames, import : 0..MaxImports]]
      /\ Import!Readable'
  BY <1>1, <1>2, WriteType
<1>4. Import!Imported(p) \in Import!Owners
  BY <1>3, OwnersType
<1>5. /\ Importing' /\ job' \in Import!Jobs /\ job'.pc = "next"
      /\ job'.update = job.update /\ job'.check = job.check
      /\ job'.todo = job.todo \ {s} /\ job'.wanted = job.wanted
      /\ job'.never = job.never
      /\ job'.owners = [job.owners EXCEPT ![s] = Import!Imported(p)]
      /\ job'.result = [job.result EXCEPT ![s] = "success"]
  BY <1>2, <1>3, <1>4 DEF Import!Jobs, Import!Report, Importing, Import!Idle
<1>6. /\ job.owners \in [Import!Symbols -> Import!Owners]
      /\ job.result \in [Import!Symbols -> {"none", "success", "skipped", "failed"}]
      /\ job.wanted \subseteq Import!Symbols
      /\ job.depends \in SUBSET BuildrootNames
  BY <1>3 DEF Import!Jobs
<1>7. /\ job'.owners[s] = Import!Imported(p) /\ job'.result[s] = "success"
      /\ \A t \in Import!Symbols : t # s =>
           job'.owners[t] = job.owners[t] /\ job'.result[t] = job.result[t]
  BY <1>3, <1>5, <1>6
<1>8. ~ AtPackage' /\ s \in job.todo /\ p \notin Failing /\ p = Found[s] /\ ~ job.check
  BY <1>1, <1>5 DEF AtPackage, WritingRight, Goal
<1>9. Import!Exists(p)
  BY <1>1 DEF WritingRight, Import!Exists
<1> HIDE DEF s, p
<1>10. Import!TypeOK'
  BY <1>2, <1>3, <1>5 DEF Import!TypeOK
<1>11. OwnersRight'
  <2>1. Recorded(registry) /\ Recorded(job.owners)
    BY <1>1 DEF OwnersRight
  <2>2. registry \in [Import!Symbols -> Import!Owners]
    BY DEF Import!TypeOK
  <2>3. Recorded(registry)'
    BY <1>2, <1>3, <2>1, <2>2, OwnersKept DEF Recorded
  <2>4. ASSUME NEW owners, owners = job.owners PROVE Recorded(owners)'
    BY <1>2, <1>3, <1>6, <2>1, <2>4, OwnersKept
  <2>5. Recorded(job.owners)'
    <3>1. PICK owners : owners = job.owners
      OBVIOUS
    <3>2. Recorded(owners)'
      BY <2>4, <3>1
    <3> QED
      BY <1>3, <1>7, <1>8, <1>9, <3>1, <3>2, OwnerFields DEF Recorded
  <2> QED
    BY <1>5, <2>3, <2>5 DEF OwnersRight
<1>12. JobRight' /\ WritingRight'
  BY <1>1, <1>2, <1>3, <1>5, <1>8 DEF JobRight, WritingRight
<1>13. Reported'
  BY <1>1, <1>3, <1>5, <1>6, <1>7, OwnerFields DEF Reported
<1>14. DependsRight'
  <2>1. ASSUME NEW q \in BuildrootNames, Written(q)' PROVE Exactly(packages[q].depends, q)'
    <3>1. CASE q = p
      <4>1. Exactly(job.depends, p)
        BY <1>1 DEF DependsRight, p
      <4>2. packages'[q].depends = job.depends
        BY <1>3, <3>1
      <4> QED
        BY <1>2, <1>3, <1>5, <1>6, <3>1, <4>1, <4>2, ExactlyKept DEF Exactly
    <3>2. CASE q # p
      <4>1. Written(q) /\ packages'[q] = packages[q]
        BY <1>2, <1>3, <2>1, <3>2 DEF Written
      <4>2. Exactly(packages[q].depends, q) /\ packages[q].depends \in SUBSET BuildrootNames
        BY <1>1, <4>1 DEF DependsRight, Import!TypeOK
      <4> QED
        BY <1>2, <1>3, <1>5, <4>1, <4>2, ExactlyKept DEF Exactly
    <3> QED
      BY <3>1, <3>2
  <2>2. \A q \in BuildrootNames : packages'[q].import <= imports'
    BY <1>2, <1>3 DEF DependsRight, Import!TypeOK
  <2> QED
    BY <1>8, <2>1, <2>2 DEF DependsRight
<1>15. KnownRight'
  <2> SUFFICES ASSUME NEW q \in BuildrootNames, packages'[q].is = "imported"
               PROVE  /\ Found[packages'[q].origin] = q /\ q \notin Failing
                      /\ Counts(q)' =>
                           /\ job'.owners[packages'[q].origin] = Import!Imported(q)
                           /\ job.update /\ packages'[q].origin \in job.wanted \ job'.todo =>
                                packages'[q].import = imports
    BY <1>2, <1>5, <1>8 DEF KnownRight
  <2>1. CASE q = p
    BY <1>3, <1>7, <1>8, <2>1
  <2>2. CASE q # p
    <3>1. packages'[q] = packages[q] /\ packages[q].origin \in Import!Symbols
      BY <1>3, <2>2 DEF Import!TypeOK
    <3>2. Found[packages[q].origin] = q /\ q \notin Failing
      BY <3>1 DEF KnownRight
    <3>3. packages[q].origin # s
      BY <1>8, <2>2, <3>2
    <3>4. Counts(q)' => Counts(q)
      BY <1>2, <3>1 DEF Counts
    <3> QED
      BY <1>1, <1>5, <1>7, <1>8, <3>1, <3>2, <3>3, <3>4 DEF KnownRight
  <2> QED
    BY <2>1, <2>2
<1>16. WholeRight'
  <2>1. index \subseteq BuildrootNames
    BY DEF Import!TypeOK
  <2> QED
    BY <1>2, <1>3, <2>1 DEF WholeRight, p
<1>17. UserRight'
  <2> SUFFICES ASSUME NEW t \in Import!Symbols, job'.owners[t].owner = "imported"
               PROVE  registry[t] = job'.owners[t] \/ packages'[Found[t]].is # "native"
    BY <1>2 DEF UserRight
  <2>1. CASE t = s
    BY <1>3, <1>8, <2>1
  <2>2. CASE t # s
    <3>1. job'.owners[t] = job.owners[t] /\ job.owners[t] \in Import!Owners
      BY <1>6, <1>7, <2>2
    <3>2. Found[t] \in BuildrootNames
      BY <1>1, <3>1, OwnerCases, OwnerFields DEF OwnersRight, Recorded
    <3>3. registry[t] = job.owners[t] \/ packages[Found[t]].is # "native"
      BY <1>1, <3>1 DEF UserRight
    <3> QED
      BY <1>3, <3>1, <3>2, <3>3
  <2> QED
    BY <2>1, <2>2
<1> QED
  BY <1>10, <1>11, <1>12, <1>13, <1>14, <1>15, <1>16, <1>17

LEMMA ImportFinished ==
  ASSUME ImportInv, Import!Finish
  PROVE  ImportInv'
<1> USE DEF ImportInv
<1>1. Importing /\ job.pc = "next" /\ job.todo = {} /\ ~ AtPackage
  BY DEF Import!Finish, Importing, Import!Idle, AtPackage
<1>2. UNCHANGED <<packages, registry, index, never, selected, imports, importEdits,
                  importKills, removed>>
  BY DEF Import!Finish
<1>3. job \in Import!Jobs
  BY <1>1 DEF Import!TypeOK, Importing
<1>4. CASE job.check
  <2>1. job' = Import!Idle /\ ~ Importing' /\ ~ AtPackage'
    BY <1>4 DEF Import!Finish, Importing, AtPackage
  <2>2. Import!TypeOK'
    BY <1>2, <2>1 DEF Import!TypeOK
  <2>3. OwnersRight' /\ JobRight' /\ WritingRight' /\ Reported' /\ UserRight'
    BY <1>2, <2>1 DEF OwnersRight, JobRight, WritingRight, Reported, UserRight, Recorded,
                      Import!Exists
  <2>4. DependsRight'
    BY <1>2, <2>1 DEF DependsRight
  <2>5. KnownRight'
    BY <1>1, <1>2, <1>4, <2>1 DEF KnownRight, Counts
  <2>6. WholeRight'
    BY <1>1, <1>2, <2>1 DEF WholeRight, Import!Exists
  <2> QED
    BY <2>2, <2>3, <2>4, <2>5, <2>6
<1>5. CASE ~ job.check
  <2>1. Import!GoTo("registry")
    BY <1>5 DEF Import!Finish
  <2>2. /\ Importing' /\ job' \in Import!Jobs /\ job'.pc = "registry"
        /\ job'.update = job.update /\ job'.check = job.check
        /\ job'.todo = job.todo /\ job'.wanted = job.wanted
        /\ job'.never = job.never /\ job'.owners = job.owners
        /\ job'.result = job.result
    BY <1>3, <2>1, GoToType
  <2>3. ~ AtPackage'
    BY <2>2 DEF AtPackage
  <2>4. Import!TypeOK'
    BY <1>2, <2>2 DEF Import!TypeOK
  <2>5. OwnersRight'
    BY <1>1, <1>2, <2>2 DEF OwnersRight, Recorded, Import!Exists
  <2>6. JobRight' /\ WritingRight' /\ Reported' /\ UserRight'
    BY <1>1, <1>2, <1>5, <2>2, <2>3
       DEF JobRight, WritingRight, Reported, UserRight, Import!Readable
  <2>7. DependsRight'
    BY <1>1, <1>2, <2>2, <2>3
       DEF DependsRight, Exactly, Written, WantedNames, WantedPackages, Import!Exists
  <2>8. KnownRight'
    BY <1>1, <1>2, <1>5, <2>2 DEF KnownRight, Counts
  <2>9. WholeRight'
    BY <1>1, <1>2, <2>3 DEF WholeRight, Import!Exists
  <2> QED
    BY <2>4, <2>5, <2>6, <2>7, <2>8, <2>9
<1> QED
  BY <1>4, <1>5

LEMMA OwnershipWritten ==
  ASSUME ImportInv, Import!WriteOwnership
  PROVE  ImportInv'
<1> USE DEF ImportInv
<1>1. Importing /\ job.pc = "registry" /\ ~ AtPackage /\ job \in Import!Jobs
  BY DEF Import!WriteOwnership, Importing, Import!Idle, AtPackage, Import!TypeOK
<1>2. /\ registry' = Import!Cleaned(job.owners) /\ Import!GoTo("index")
      /\ UNCHANGED <<packages, index, never, selected, imports, importEdits, importKills,
                     removed>>
  BY DEF Import!WriteOwnership
<1>3. /\ Importing' /\ job' \in Import!Jobs /\ job'.pc = "index"
      /\ job'.update = job.update /\ job'.check = job.check
      /\ job'.todo = job.todo /\ job'.wanted = job.wanted
      /\ job'.never = job.never /\ job'.owners = job.owners
      /\ job'.result = job.result
  BY <1>1, <1>2, GoToType
<1>4. ~ AtPackage' /\ ~ job.check /\ job.owners \in [Import!Symbols -> Import!Owners]
  BY <1>1, <1>3 DEF AtPackage, JobRight, Import!Jobs
<1>5. ASSUME NEW s \in Import!Symbols
      PROVE  registry'[s] =
               IF \/ job.owners[s] = Import!Nobody
                  \/ job.owners[s].package \in job.never \/ NameOf[s] \in job.never
                  \/ ~ Import!Exists(job.owners[s].package)
               THEN Import!Nobody ELSE job.owners[s]
  BY <1>2 DEF Import!Cleaned
<1>6. registry' \in [Import!Symbols -> Import!Owners]
  <2>1. Import!Nobody \in Import!Owners
    BY DEF Import!Owners
  <2> QED
    BY <1>2, <1>4, <2>1 DEF Import!Cleaned
<1>7. Import!TypeOK'
  BY <1>2, <1>3, <1>6 DEF Import!TypeOK
<1>8. OwnersRight'
  <2>1. Recorded(job.owners)
    BY <1>1 DEF OwnersRight
  <2>2. ASSUME NEW s \in Import!Symbols, registry'[s] # Import!Nobody
        PROVE  registry'[s] = job.owners[s] /\ Import!Exists(registry'[s].package)
    BY <1>5, <2>2
  <2> QED
    BY <1>2, <1>3, <2>1, <2>2, OwnerFields DEF OwnersRight, Recorded, Import!Exists
<1>9. JobRight' /\ WritingRight' /\ Reported' /\ UserRight'
  BY <1>1, <1>2, <1>3, <1>4
     DEF JobRight, WritingRight, Reported, UserRight, Import!Readable
<1>10. DependsRight'
  BY <1>1, <1>2, <1>3, <1>4
     DEF DependsRight, Exactly, Written, WantedNames, WantedPackages, Import!Exists
<1>11. KnownRight'
  <2> SUFFICES ASSUME NEW p \in BuildrootNames, packages[p].is = "imported"
               PROVE  /\ Found[packages[p].origin] = p /\ p \notin Failing
                      /\ Counts(p) =>
                           /\ job.owners[packages[p].origin] = Import!Imported(p)
                           /\ registry'[packages[p].origin] = Import!Imported(p)
                           /\ job.update /\ packages[p].origin \in job.wanted \ job.todo =>
                                packages[p].import = imports
    BY <1>2, <1>3, <1>4 DEF KnownRight, Counts
  <2>1. packages[p].origin \in Import!Symbols /\ Import!Exists(p)
    BY DEF Import!TypeOK, Import!Exists
  <2>2. Counts(p) =>
          /\ job.owners[packages[p].origin] = Import!Imported(p)
          /\ p \notin job.never /\ NameOf[packages[p].origin] \notin job.never
    BY <1>1 DEF KnownRight, Counts, JobRight
  <2> QED
    BY <1>1, <1>4, <1>5, <2>1, <2>2, OwnerFields DEF KnownRight
<1>12. WholeRight'
  BY <1>1, <1>2, <1>4 DEF WholeRight, Import!Exists
<1> QED
  BY <1>7, <1>8, <1>9, <1>10, <1>11, <1>12

\* Between imports only the registry, the index and whole packages count.
LEMMA AtRest ==
  ASSUME job' = Import!Idle, Import!TypeOK', Recorded(registry)',
         (\A p \in BuildrootNames : packages[p].import <= imports)', KnownRight', WholeRight'
  PROVE  ImportInv'
<1>1. ~ Importing' /\ ~ AtPackage'
  BY DEF Importing, AtPackage
<1> QED
  BY <1>1 DEF ImportInv, OwnersRight, JobRight, WritingRight, Reported, DependsRight, UserRight

LEMMA IndexRefreshed ==
  ASSUME ImportInv, Import!RefreshIndex
  PROVE  ImportInv'
<1> USE DEF ImportInv
<1>1. Importing /\ job.pc = "index" /\ ~ AtPackage /\ Import!Readable
  BY DEF Import!RefreshIndex, Importing, Import!Idle, AtPackage, JobRight
<1>2. /\ index' = Import!Described /\ removed' = {} /\ job' = Import!Idle
      /\ UNCHANGED <<packages, registry, never, selected, imports, importEdits, importKills>>
  BY <1>1 DEF Import!RefreshIndex
<1>3. Import!TypeOK'
  BY <1>2 DEF Import!TypeOK, Import!Described
<1>4. Recorded(registry)'
  BY <1>1, <1>2 DEF OwnersRight, Recorded, Import!Exists
<1>5. KnownRight'
  BY <1>1, <1>2 DEF KnownRight, Counts, Importing
<1>6. WholeRight'
  BY <1>1, <1>2 DEF WholeRight, Import!Described, Import!Exists
<1> QED
  BY <1>2, <1>3, <1>4, <1>5, <1>6, AtRest DEF DependsRight

\* What is cut short is a package that was being written, or all of a file.
LEMMA ImportKilled ==
  ASSUME ImportInv, Import!Kill
  PROVE  ImportInv'
<1> USE DEF ImportInv
<1>1. Importing /\ job' = Import!Idle /\ importKills' = importKills + 1
      /\ importKills < MaxImportKills
      /\ UNCHANGED <<never, selected, imports, importEdits, removed>>
  BY DEF Import!Kill, Importing
<1>2. \/ packages' = packages
      \/ /\ Goal \in BuildrootNames
         /\ \E left \in Import!LeftOf(packages[Goal]) \cup {Import!Plain("cut")} :
              packages' = [packages EXCEPT ![Goal] = left]
  BY <1>1 DEF Import!Kill, Goal, WritingRight, AtPackage
<1>3. importKills' \in 0..MaxImportKills /\ importKills' # 0
  BY <1>1, ImportFacts DEF Import!TypeOK
<1>4. registry' \in [Import!Symbols -> Import!Owners]
      /\ \A s \in Import!Symbols : registry'[s] = registry[s] \/ registry'[s] = Import!Nobody
  <2>1. Import!Nobody \in Import!Owners
    BY DEF Import!Owners
  <2> QED
    BY <2>1 DEF Import!Kill, Import!TypeOK
<1>5. index' \subseteq BuildrootNames
  BY DEF Import!Kill, Import!TypeOK
<1>6. /\ packages' \in [BuildrootNames ->
           [is : {"absent", "native", "bare", "cut", "described", "listed", "imported"},
            origin : Import!Symbols, depends : SUBSET BuildrootNames, import : 0..MaxImports]]
      /\ \A q \in BuildrootNames :
           \/ packages'[q] = packages[q]
           \/ /\ packages'[q].is \in {"bare", "cut", "described", "listed"}
              /\ packages'[q].import \in {0, packages[q].import}
  <2>1. ASSUME NEW q \in BuildrootNames,
               NEW left \in Import!LeftOf(packages[q]) \cup {Import!Plain("cut")}
        PROVE  /\ left \in [is : {"absent", "native", "bare", "cut", "described", "listed",
                                  "imported"},
                            origin : Import!Symbols, depends : SUBSET BuildrootNames,
                            import : 0..MaxImports]
               /\ left.is \in {"bare", "cut", "described", "listed"}
               /\ left.import \in {0, packages[q].import}
    <3>1. packages[q] \in [is : {"absent", "native", "bare", "cut", "described", "listed",
                                 "imported"},
                           origin : Import!Symbols, depends : SUBSET BuildrootNames,
                           import : 0..MaxImports]
      BY DEF Import!TypeOK
    <3>2. left \in {Import!Plain("bare"), Import!Plain("cut")}
          \/ \E is \in {"listed", "described"} : left = [packages[q] EXCEPT !.is = is]
      BY <2>1 DEF Import!LeftOf
    <3> QED
      BY <3>1, <3>2, PlainType
  <2> QED
    BY <1>2, <2>1 DEF Import!TypeOK
<1>7. Import!TypeOK'
  BY <1>1, <1>3, <1>4, <1>5, <1>6 DEF Import!TypeOK
<1>8. Recorded(registry)'
  <2>1. \A q \in BuildrootNames : Import!Exists(q) => Import!Exists(q)'
    BY <1>6 DEF Import!Exists
  <2>2. registry \in [Import!Symbols -> Import!Owners] /\ Recorded(registry)
    BY DEF Import!TypeOK, OwnersRight
  <2> QED
    BY <1>1, <1>4, <2>1, <2>2, OwnerCases, OwnerFields DEF Recorded
<1>9. (\A q \in BuildrootNames : packages[q].import <= imports)'
  BY <1>1, <1>6 DEF DependsRight, Import!TypeOK
<1>10. KnownRight'
  BY <1>3, <1>6 DEF KnownRight, Counts
<1>11. WholeRight'
  BY <1>3 DEF WholeRight
<1> QED
  BY <1>1, <1>7, <1>8, <1>9, <1>10, <1>11, AtRest

LEMMA PackageRemoved ==
  ASSUME ImportInv, Import!RemovePackage
  PROVE  ImportInv'
<1> USE DEF ImportInv
<1>1. PICK p \in BuildrootNames :
        /\ Import!Exists(p)
        /\ packages' = [packages EXCEPT ![p] = Import!Plain("absent")]
        /\ removed' = removed \cup {p}
  BY DEF Import!RemovePackage
<1>2. /\ ~ Importing /\ job' = Import!Idle /\ importEdits' \in 0..MaxImportEdits
      /\ UNCHANGED <<registry, index, never, selected, imports, importKills>>
  BY ImportFacts DEF Import!RemovePackage, Import!Edit, Importing, Import!TypeOK
<1>3. /\ packages' \in [BuildrootNames ->
           [is : {"absent", "native", "bare", "cut", "described", "listed", "imported"},
            origin : Import!Symbols, depends : SUBSET BuildrootNames, import : 0..MaxImports]]
      /\ packages'[p].is = "absent" /\ packages'[p].import = 0
      /\ \A q \in BuildrootNames : q # p => packages'[q] = packages[q]
  BY <1>1, PlainType DEF Import!TypeOK
<1>4. Import!TypeOK'
  BY <1>1, <1>2, <1>3 DEF Import!TypeOK
<1>5. Recorded(registry)'
  <2>1. registry \in [Import!Symbols -> Import!Owners] /\ Recorded(registry)
    BY DEF Import!TypeOK, OwnersRight
  <2>2. \A q \in BuildrootNames : Import!Exists(q) => Import!Exists(q)' \/ q \in removed'
    BY <1>1, <1>3 DEF Import!Exists
  <2> QED
    BY <1>1, <1>2, <2>1, <2>2, OwnerCases DEF Recorded
<1>6. (\A q \in BuildrootNames : packages[q].import <= imports)'
  BY <1>2, <1>3 DEF DependsRight, Import!TypeOK
<1>7. KnownRight'
  BY <1>2, <1>3 DEF KnownRight, Counts, Importing
<1>8. WholeRight'
  <2>1. index \subseteq BuildrootNames /\ ~ AtPackage
    BY <1>2 DEF Import!TypeOK, AtPackage
  <2> QED
    BY <1>1, <1>2, <1>3, <2>1 DEF WholeRight, Import!Exists
<1> QED
  BY <1>2, <1>4, <1>5, <1>6, <1>7, <1>8, AtRest

LEMMA PackageAdded ==
  ASSUME ImportInv, Import!AddPackage
  PROVE  ImportInv'
<1> USE DEF ImportInv
<1>1. PICK p \in BuildrootNames :
        /\ packages' = [packages EXCEPT ![p] = Import!Plain("native")]
        /\ removed' = removed \ {p}
  BY DEF Import!AddPackage
<1>2. /\ ~ Importing /\ job' = Import!Idle /\ importEdits' \in 0..MaxImportEdits
      /\ UNCHANGED <<registry, index, never, selected, imports, importKills>>
  BY ImportFacts DEF Import!AddPackage, Import!Edit, Importing, Import!TypeOK
<1>3. /\ packages' \in [BuildrootNames ->
           [is : {"absent", "native", "bare", "cut", "described", "listed", "imported"},
            origin : Import!Symbols, depends : SUBSET BuildrootNames, import : 0..MaxImports]]
      /\ packages'[p].is = "native" /\ packages'[p].import = 0
      /\ \A q \in BuildrootNames : q # p => packages'[q] = packages[q]
  BY <1>1, PlainType DEF Import!TypeOK
<1>4. Import!TypeOK'
  BY <1>1, <1>2, <1>3 DEF Import!TypeOK
<1>5. Recorded(registry)'
  <2>1. registry \in [Import!Symbols -> Import!Owners] /\ Recorded(registry)
    BY DEF Import!TypeOK, OwnersRight
  <2>2. \A q \in BuildrootNames : Import!Exists(q) \/ q \in removed => Import!Exists(q)' \/ q \in removed'
    BY <1>1, <1>3 DEF Import!Exists
  <2> QED
    BY <1>2, <2>1, <2>2, OwnerCases DEF Recorded
<1>6. (\A q \in BuildrootNames : packages[q].import <= imports)'
  BY <1>2, <1>3 DEF DependsRight, Import!TypeOK
<1>7. KnownRight'
  BY <1>2, <1>3 DEF KnownRight, Counts, Importing
<1>8. WholeRight'
  <2>1. index \subseteq BuildrootNames /\ ~ AtPackage
    BY <1>2 DEF Import!TypeOK, AtPackage
  <2> QED
    BY <1>1, <1>2, <1>3, <2>1 DEF WholeRight, Import!Exists
<1> QED
  BY <1>2, <1>4, <1>5, <1>6, <1>7, <1>8, AtRest

LEMMA OtherEdits ==
  ASSUME ImportInv, Import!Forbid \/ Import!Menuconfig
  PROVE  ImportInv'
<1> USE DEF ImportInv
<1>1. /\ ~ Importing /\ job' = Import!Idle /\ importEdits' \in 0..MaxImportEdits
      /\ UNCHANGED <<packages, registry, index, imports, importKills, removed>>
  BY ImportFacts DEF Import!Forbid, Import!Menuconfig, Import!Edit, Importing, Import!TypeOK
<1>2. never \subseteq never' /\ never' \subseteq BuildrootNames /\ selected' \subseteq Import!Symbols
  BY DEF Import!Forbid, Import!Menuconfig, Import!TypeOK, Import!OwnedSymbols
<1>3. Import!TypeOK'
  BY <1>1, <1>2 DEF Import!TypeOK
<1>4. Recorded(registry)'
  BY <1>1 DEF OwnersRight, Recorded, Import!Exists
<1>5. (\A q \in BuildrootNames : packages[q].import <= imports)'
  BY <1>1 DEF DependsRight
<1>6. KnownRight'
  BY <1>1, <1>2 DEF KnownRight, Counts, Importing
<1>7. WholeRight'
  BY <1>1 DEF WholeRight, AtPackage, Import!Exists
<1> QED
  BY <1>1, <1>3, <1>4, <1>5, <1>6, <1>7, AtRest

LEMMA ImportBegins ==
  ASSUME Import!Init
  PROVE  ImportInv
<1>1. ~ Importing /\ ~ AtPackage
  BY DEF Import!Init, Importing, AtPackage
<1>2. /\ UserPackages \subseteq BuildrootNames
      /\ DOMAIN Earlier \subseteq BuildrootNames \ (UserPackages \cup Failing)
      /\ \A p \in DOMAIN Earlier : Earlier[p] \in Import!Symbols /\ Found[Earlier[p]] = p
  BY ImportAssumption DEF Import!BuildrootImportAssumption, Failing
<1>3. ASSUME NEW p \in BuildrootNames
      PROVE  /\ packages[p].import = 0
             /\ packages[p].is = IF p \in UserPackages THEN "native"
                                 ELSE IF p \in DOMAIN Earlier THEN "imported" ELSE "absent"
             /\ p \in DOMAIN Earlier => packages[p].origin = Earlier[p]
             /\ packages[p] \in
                  [is : {"absent", "native", "bare", "cut", "described", "listed", "imported"},
                   origin : Import!Symbols, depends : SUBSET BuildrootNames,
                   import : 0..MaxImports]
  <2>1. CASE p \in DOMAIN Earlier
    <3> DEFINE needs == Depends[p] \cap (UserPackages \cup DOMAIN Earlier)
    <3>1. packages[p] = Import!Directory("imported", Earlier[p], needs, 0)
          /\ p \notin UserPackages
      BY <1>2, <2>1 DEF Import!Init
    <3>2. needs \in SUBSET BuildrootNames /\ 0 \in 0..MaxImports
      BY <1>2, ImportFacts
    <3> HIDE DEF needs
    <3> QED
      BY <1>2, <2>1, <3>1, <3>2 DEF Import!Directory
  <2>2. CASE p \notin DOMAIN Earlier
    BY <2>2, PlainType DEF Import!Init
  <2> QED
    BY <2>1, <2>2
<1>4. ASSUME NEW s \in Import!Symbols
      PROVE  registry[s] = Import!Nobody
             \/ \E p \in DOMAIN Earlier :
                  /\ registry[s] = Import!Imported(p) /\ p \in BuildrootNames
                  /\ Found[s] = p /\ packages[p].is = "imported"
  <2>1. CASE \E p \in DOMAIN Earlier : Earlier[p] = s
    <3>1. PICK p \in DOMAIN Earlier : Earlier[p] = s
      BY <2>1
    <3>2. registry[s] = Import!Imported(Found[s])
      BY <2>1 DEF Import!Init
    <3> QED
      BY <1>2, <1>3, <3>1, <3>2
  <2>2. CASE ~ \E p \in DOMAIN Earlier : Earlier[p] = s
    BY <2>2 DEF Import!Init
  <2> QED
    BY <2>1, <2>2
<1>5. Import!TypeOK
  <2>1. packages = [p \in BuildrootNames |-> packages[p]]
        /\ registry = [s \in Import!Symbols |-> registry[s]]
    BY DEF Import!Init
  <2>2. \A s \in Import!Symbols : registry[s] \in Import!Owners
    BY <1>4, OwnersType DEF Import!Owners
  <2>3. index \subseteq BuildrootNames
    BY <1>2 DEF Import!Init
  <2>4. packages \in [BuildrootNames ->
           [is : {"absent", "native", "bare", "cut", "described", "listed", "imported"},
            origin : Import!Symbols, depends : SUBSET BuildrootNames, import : 0..MaxImports]]
    BY <1>3, <2>1
  <2>5. registry \in [Import!Symbols -> Import!Owners]
    BY <2>1, <2>2
  <2>6. /\ never = {} /\ selected \subseteq Import!Symbols /\ job = Import!Idle
        /\ imports = 0 /\ importEdits = 0 /\ importKills = 0 /\ removed = {}
    BY DEF Import!Init
  <2>7. 0 \in 0..MaxImports /\ 0 \in 0..MaxImportEdits /\ 0 \in 0..MaxImportKills
    BY ImportFacts
  <2> QED
    BY <2>3, <2>4, <2>5, <2>6, <2>7 DEF Import!TypeOK
<1>6. OwnersRight
  <2>1. ASSUME NEW s \in Import!Symbols
        PROVE  /\ registry[s] # Import!Nobody => Import!Exists(registry[s].package)
               /\ registry[s].owner = "imported" => registry[s].package = Found[s]
    <3>1. CASE registry[s] = Import!Nobody
      BY <3>1, OwnerFields
    <3>2. CASE registry[s] # Import!Nobody
      <4>1. PICK p \in DOMAIN Earlier :
              /\ registry[s] = Import!Imported(p) /\ Found[s] = p
              /\ packages[p].is = "imported"
        BY <1>4, <3>2
      <4>2. registry[s].package = p
        BY <4>1, OwnerFields
      <4> QED
        BY <4>1, <4>2 DEF Import!Exists
    <3> QED
      BY <3>1, <3>2
  <2> QED
    BY <1>1, <2>1 DEF OwnersRight, Recorded
<1>7. JobRight /\ WritingRight /\ Reported /\ UserRight
  BY <1>1 DEF JobRight, WritingRight, Reported, UserRight
<1>8. DependsRight
  <2>1. imports = 0
    BY DEF Import!Init
  <2> QED
    BY <1>1, <1>3, <2>1 DEF DependsRight
<1>9. KnownRight
  <2> SUFFICES ASSUME NEW p \in BuildrootNames, packages[p].is = "imported"
               PROVE  /\ Found[packages[p].origin] = p /\ p \notin Failing
                      /\ registry[packages[p].origin] = Import!Imported(p)
    BY <1>1 DEF KnownRight
  <2>1. p \in DOMAIN Earlier /\ packages[p].origin = Earlier[p]
    BY <1>3
  <2> QED
    BY <1>2, <2>1 DEF Import!Init
<1>10. WholeRight
  BY <1>2, <1>3 DEF WholeRight, Import!Init, Import!Exists
<1> QED
  BY <1>5, <1>6, <1>7, <1>8, <1>9, <1>10 DEF ImportInv

LEMMA ImportStutters ==
  ASSUME ImportInv, UNCHANGED Import!vars
  PROVE  ImportInv'
<1> USE DEF Import!vars
<1>1. Import!TypeOK'
  BY DEF ImportInv, Import!TypeOK
<1>2. OwnersRight' /\ JobRight' /\ WritingRight' /\ Reported' /\ UserRight'
  BY DEF ImportInv, OwnersRight, Recorded, JobRight, WritingRight, Reported, UserRight,
         Import!Exists, Import!Readable, AtPackage, Importing, Goal
<1>3. DependsRight' /\ KnownRight' /\ WholeRight'
  BY DEF ImportInv, DependsRight, KnownRight, WholeRight, Exactly, Written, WantedNames,
         WantedPackages, Counts, Import!Exists, AtPackage, Importing, Goal
<1> QED
  BY <1>1, <1>2, <1>3 DEF ImportInv

LEMMA ImportInvariant == Import!Spec => []ImportInv
<1>1. ASSUME ImportInv, Import!Next PROVE ImportInv'
  BY <1>1, ImportStarts, SymbolImported, DirectoryReplaced, DescriptionWritten, KconfigWritten, OriginWritten,
     ImportFinished, OwnershipWritten, IndexRefreshed, ImportKilled, PackageRemoved,
     PackageAdded, OtherEdits DEF Import!Next
<1>2. ImportInv /\ [Import!Next]_(Import!vars) => ImportInv'
  BY <1>1, ImportStutters
<1> QED
  BY <1>2, ImportBegins, PTL DEF Import!Spec

\* The four promises that are invariants.
LEMMA PromisesKept ==
  ASSUME ImportInv
  PROVE  /\ Import!BestEffort /\ Import!DependsAreExact
         /\ Import!UpdateReplacesImported /\ Import!IndexIsUsable
<1> USE DEF ImportInv
<1>1. ASSUME Import!Ending
      PROVE  /\ Importing /\ job.pc = "registry" /\ ~ AtPackage /\ job.todo = {} /\ ~ job.check
             /\ job \in Import!Jobs /\ job.wanted \subseteq Import!Symbols
             /\ Recorded(job.owners)
  BY <1>1 DEF Import!Ending, Importing, AtPackage, JobRight, OwnersRight, Import!TypeOK,
              Import!Jobs, Import!Idle
<1>2. Import!BestEffort
  <2> SUFFICES ASSUME Import!Ending, NEW s \in job.wanted
               PROVE  /\ job.result[s] # "none"
                      /\ job.result[s] = "failed" =>
                           Found[s] \in Failing \cup {Import!Unfound}
                      /\ job.result[s] # "failed" /\ NameOf[s] \notin job.never =>
                           \/ Import!Exists(job.owners[s].package)
                           \/ job.owners[s].package \in removed
    BY DEF Import!BestEffort, Failing
  <2> QED
    BY <1>1 DEF Reported, Recorded
<1>3. Import!DependsAreExact
  <2> SUFFICES ASSUME Import!Ending, NEW p \in BuildrootNames,
                      packages[p].is = "imported", packages[p].import = imports
               PROVE  /\ \A d \in Depends[p] :
                           /\ Import!Exists(d)
                           /\ d \in WantedPackages => d \in WantedNames
                           => d \in packages[p].depends
                      /\ \A d \in packages[p].depends :
                           \/ Import!Exists(d) \/ d \in removed
                           \/ \E s \in job.wanted :
                                /\ NameOf[s] = d
                                /\ \/ job.result[s] = "failed" \/ d \in job.never
                                   \/ job.owners[s].package # d
    BY DEF Import!DependsAreExact, WantedPackages, WantedNames
  <2>1. Exactly(packages[p].depends, p)
    BY <1>1 DEF DependsRight, Written
  <2>2. ASSUME NEW d \in packages[p].depends, ~ Import!Exists(d), d \notin removed
        PROVE  \E s \in job.wanted :
                 /\ NameOf[s] = d
                 /\ \/ job.result[s] = "failed" \/ d \in job.never
                    \/ job.owners[s].package # d
    <3>1. PICK s \in job.wanted : NameOf[s] = d
      BY <2>1, <2>2 DEF Exactly, WantedNames
    <3>2. ASSUME job.result[s] # "failed", d \notin job.never
          PROVE  job.owners[s].package # d
      <4>1. job.owners[s] # Import!Nobody
        BY <1>1, <3>1, <3>2 DEF Reported
      <4> QED
        BY <1>1, <2>2, <4>1 DEF Recorded
    <3> QED
      BY <3>1, <3>2
  <2> QED
    BY <2>1, <2>2 DEF Exactly
<1>4. Import!UpdateReplacesImported
  <2> SUFFICES ASSUME Import!Ending, job.update, importKills = 0, NEW p \in BuildrootNames,
                      packages[p].is = "imported", packages[p].origin \in job.wanted,
                      p \notin never, NameOf[packages[p].origin] \notin never
               PROVE  packages[p].import = imports
    BY DEF Import!UpdateReplacesImported
  <2> QED
    BY <1>1 DEF KnownRight, Counts
<1>5. Import!IndexIsUsable
  <2> SUFFICES ASSUME job = Import!Idle, importKills = 0, NEW p \in index
               PROVE  packages[p].is \in {"native", "listed", "imported"} \/ p \in removed
    BY DEF Import!IndexIsUsable
  <2>1. ~ AtPackage /\ p \in BuildrootNames
    BY DEF AtPackage, Importing, Import!TypeOK
  <2> QED
    BY <2>1 DEF WholeRight, Import!Exists
<1> QED
  BY <1>2, <1>3, <1>4, <1>5

\* Only the user changes a package of the user's.
LEMMA UserKept ==
  ASSUME ImportInv, Import!Next, Importing, NEW p \in BuildrootNames,
         packages[p].is = "native", packages'[p] # packages[p]
  PROVE  \E s \in Import!Symbols : registry[s] = Import!Imported(p)
<1> USE DEF ImportInv
<1>1. ASSUME AtPackage, p = Goal
      PROVE  job.pc = "remove" /\ registry[job.symbol] = Import!Imported(p)
  <2>1. job.pc = "remove" /\ job.owners[job.symbol].owner = "imported"
    BY <1>1 DEF WritingRight, AtPackage
  <2>2. job.symbol \in Import!Symbols /\ job.owners[job.symbol] \in Import!Owners
    BY DEF Import!TypeOK, Import!Jobs, Importing
  <2>3. registry[job.symbol] = job.owners[job.symbol] /\ job.owners[job.symbol].package = p
    BY <1>1, <2>1, <2>2 DEF UserRight, OwnersRight, Recorded, Goal
  <2> QED
    BY <2>1, <2>2, <2>3, OwnerCases
<1>2. ASSUME NEW what, packages' = [packages EXCEPT ![Goal] = what], AtPackage
      PROVE  p = Goal /\ job.symbol \in Import!Symbols
  BY <1>2 DEF Import!TypeOK, Import!Jobs, Importing
<1>3. CASE \/ Import!RemoveDirectory \/ Import!CreateDirectory \/ Import!WriteDescription
           \/ Import!WriteKconfig \/ Import!WriteOrigin
  <2>1. AtPackage
    BY <1>3 DEF Import!RemoveDirectory, Import!CreateDirectory, Import!WriteDescription,
                Import!WriteKconfig, Import!WriteOrigin, AtPackage
  <2>2. PICK what : packages' = [packages EXCEPT ![Goal] = what]
    BY <1>3 DEF Import!RemoveDirectory, Import!CreateDirectory, Import!Replace,
                Import!WriteDescription, Import!WriteKconfig, Import!WriteOrigin,
                Import!Write, Goal
  <2> QED
    BY <1>1, <1>2, <2>1, <2>2
<1>4. CASE Import!Kill
  <2>1. AtPackage /\ \E what : packages' = [packages EXCEPT ![Goal] = what]
    BY <1>4 DEF Import!Kill, AtPackage, Goal
  <2> QED
    BY <1>1, <1>2, <2>1
<1>5. CASE Import!ImportOne
  BY <1>5 DEF Import!ImportOne
<1>6. CASE \/ Import!StartImport \/ Import!Finish \/ Import!WriteOwnership
           \/ Import!RefreshIndex
  BY <1>6 DEF Import!StartImport, Import!Finish, Import!WriteOwnership, Import!RefreshIndex
<1>7. CASE \/ Import!RemovePackage \/ Import!AddPackage \/ Import!Forbid \/ Import!Menuconfig
  BY <1>7 DEF Import!RemovePackage, Import!AddPackage, Import!Forbid, Import!Menuconfig,
              Import!Edit, Importing
<1> QED
  BY <1>3, <1>4, <1>5, <1>6, <1>7 DEF Import!Next

\* Every variable of an import stays in its type (buildroot_import.py).
THEOREM ImportTypeCorrect == Import!Spec => []Import!TypeOK
<1>1. ImportInv => Import!TypeOK
  BY DEF ImportInv
<1> QED
  BY <1>1, ImportInvariant, PTL

\* An import looks at every symbol whatever fails (buildroot_import.py:220-233),
\* what it writes depends on what is there and no more (268-275), --update writes
\* everything imported anew (237, 261), the index names what is whole (806), and
\* the packages of the user stay.
THEOREM ImportRight == Import!Spec => ImportIsRight
<1>1. ImportInv => /\ Import!BestEffort /\ Import!DependsAreExact
                   /\ Import!UpdateReplacesImported /\ Import!IndexIsUsable
  BY PromisesKept
<1>2. ImportInv /\ [Import!Next]_(Import!vars) =>
        [\A p \in BuildrootNames :
           /\ packages[p].is = "native" /\ packages'[p] # packages[p]
           /\ \A s \in Import!Symbols : registry[s] # Import!Imported(p)
           => job = Import!Idle]_(Import!vars)
  BY UserKept DEF Importing, Import!vars
<1> QED
  BY <1>1, <1>2, ImportInvariant, PTL
     DEF Import!Spec, ImportIsRight, Import!ImportIsRight, Import!NativeIsKept
=============================================================================
