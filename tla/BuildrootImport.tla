---------------------------- MODULE BuildrootImport ----------------------------
(***************************************************************************)
(* `buildroot import` (buildroot_import.py: import_buildroot_packages)     *)
(* turns the packages selected in a Buildroot configuration into packages  *)
(* of the repository.  Each selected symbol is looked at in turn: what the *)
(* repository has already, or must never have, is skipped; what cannot be  *)
(* read is reported and the rest still tried; for the others the directory *)
(* is removed, made and written, file after file, in steps of their own.   *)
(* At the end the ownership registry, which says for each symbol whose     *)
(* package it is, and packages/Kconfig are written anew.  A package may be *)
(* found from several symbols: its own, and those of its options, declared *)
(* in the same Config.in.                                                  *)
(*                                                                         *)
(* One import runs at a time.  It may end at any step, by a kill or by an  *)
(* error of the file system, which nothing catches, and between imports    *)
(* the user adds, removes and forbids packages and changes the selection   *)
(* with `buildroot menuconfig`.  The clone of Buildroot itself and the     *)
(* texts generated are left out.                                           *)
(***************************************************************************)
EXTENDS Naturals, Sequences

CONSTANTS
  Order,        \* the symbols, in the order of Buildroot's .config
  Names,        \* names of packages, and of symbols that are no package's own
  NameOf,       \* [symbol -> its own name, _symbol_name]
  Token,        \* [Names -> the symbol made of the name, symbol_token, if any]
  Underscored,  \* [Names -> the name with _ for -, if it is one of Names]
  Found,        \* [symbol -> the package found for it, or itself unfound]
  Unresolved,   \* packages whose address has variables left in it
  WithoutUrl,   \* packages whose archive Buildroot's files do not tell
  Depends,      \* [Names -> what Buildroot says the package needs]
  UserPackages, \* packages of the user's that the repository has at first
  Earlier,      \* [those an import had written before -> the symbol each is from]
  MaxImports,   \* how many imports there are
  MaxEdits,     \* how often the user edits something
  MaxKills      \* how many imports are killed

Symbols == {Order[i] : i \in DOMAIN Order}
Unfound == "unfound"

\* What the constants have to be; assumed by the module that gives them values.
BuildrootImportAssumption ==
  /\ Order \in Seq(Symbols) /\ Order # <<>>
  /\ Unfound \notin Names
  /\ NameOf \in [Symbols -> Names]
  /\ Token \in [Names -> Symbols \cup {Unfound}]
  /\ Found \in [Symbols -> Names \cup {Unfound}]
  /\ Depends \in [Names -> SUBSET Names]
  /\ UserPackages \subseteq Names
  /\ Earlier \in [DOMAIN Earlier -> Symbols]
  /\ DOMAIN Earlier \subseteq Names \ (UserPackages \cup Unresolved \cup WithoutUrl)
  /\ \A p \in DOMAIN Earlier : Found[Earlier[p]] = p
  /\ MaxImports \in Nat /\ MaxEdits \in Nat /\ MaxKills \in Nat

VARIABLES
  packages,   \* [Names -> the directory packages/<name>]
  registry,   \* [Symbols -> owner]: .imports/buildroot-ownership.yaml
  index,      \* the packages whose Kconfig packages/Kconfig sources
  never,      \* .imports/never-import.yaml
  selected,   \* the symbols that are =y in Buildroot's .config
  job,        \* the import at work
  imports,    \* imports started
  edits,      \* edits made
  kills,      \* imports killed
  removed     \* history: removed since the last whole import, by hand or by
              \* an import that was to write it anew and came no further

vars == <<packages, registry, index, never, selected, job, imports, edits,
          kills, removed>>

Idle == [pc |-> "idle"]
Nobody == [owner |-> "nobody", package |-> Unfound]
Native(p) == [owner |-> "native", package |-> p]
Imported(p) == [owner |-> "imported", package |-> p]

\* How much of a directory is there: nothing; a package of the user's; a
\* directory and at most a script; a package.yaml cut short; a whole
\* package.yaml; that and a Kconfig; and import.yaml, the last file written.
\* import.yaml names the symbol; the number of the import is history.
Directory(is, symbol, needs, n) ==
  [is |-> is, origin |-> symbol, depends |-> needs, import |-> n]
Plain(is) == Directory(is, Order[1], {}, 0)

Exists(p) == packages[p].is # "absent"

\* load_all_package_metadata: reads every package.yaml, and refuses a cut one.
Described == {p \in Names : packages[p].is \notin {"absent", "bare"}}
Readable == \A p \in Names : packages[p].is # "cut"

-----------------------------------------------------------------------------
(* Owners                                                                   *)

\* _existing_owners: the registry, then the packages under the symbols of their
\* names, lib-x and lib_x under the same one, but nothing that must never be
\* imported.  Of two packages the first that is read counts: either may.
ExistingOwners ==
  [s \in Symbols |->
    LET named == {p \in Described \ never : Token[p] = s}
        owner == IF registry[s] # Nobody THEN registry[s]
                 ELSE IF named # {} THEN Native(CHOOSE p \in named : TRUE)
                 ELSE Nobody
    IN IF owner.package \in never \/ NameOf[s] \in never THEN Nobody
       ELSE owner]

\* _buildroot_owned_symbols: and every symbol found in a package's directory.
OwnedSymbols ==
  {s \in Symbols : \/ ExistingOwners[s] # Nobody
                   \/ \E p \in Described : Found[s] \in {p, Underscored[p]}}

\* _write_ownership: without what must not be imported and what is gone.
Cleaned(owners) ==
  [s \in Symbols |->
    IF \/ owners[s] = Nobody
       \/ owners[s].package \in job.never \/ NameOf[s] \in job.never
       \/ ~Exists(owners[s].package)
      THEN Nobody ELSE owners[s]]

-----------------------------------------------------------------------------
(* An import                                                                *)

GoTo(pc) == job' = [job EXCEPT !.pc = pc]

\* import_buildroot_packages: --update, --check, and --package of one symbol.
StartImport ==
  /\ job = Idle /\ imports < MaxImports
  /\ imports' = imports + 1
  /\ \E update, check \in BOOLEAN,
        wanted \in {selected} \cup {{s} : s \in selected} :
       job' = IF ~Readable THEN Idle
              ELSE [pc |-> "next", update |-> update, check |-> check,
                    todo |-> wanted, wanted |-> wanted, owners |-> ExistingOwners,
                    never |-> never, symbol |-> Order[1], depends |-> {},
                    result |-> [s \in Symbols |-> "none"]]
  /\ UNCHANGED <<packages, registry, index, never, selected, edits, kills,
                 removed>>

\* One symbol is done; a failure is reported, and the rest still tried.
Report(s, result, owner) ==
  job' = [job EXCEPT !.pc = "next", !.result[s] = result, !.owners[s] = owner,
                     !.todo = @ \ {s}]

\* _import_one: known before Buildroot's files are read.
Skipped(s) ==
  LET owner == job.owners[s] IN
  \/ owner.owner = "native"
  \/ owner.package = NameOf[s] /\ ~job.update

\* The directory is somebody's, and not for --update to replace.
Occupied(s) ==
  LET owner == job.owners[s] IN
  /\ Exists(Found[s])
  /\ ~(job.update /\ owner.owner = "imported")

\* A fault: only what is there already.
KeptIfThere(p) == {d \in Depends[p] : Exists(d)}

\* What is written as the package's dependencies: those selected too, and
\* those that are there.
KeptDepends(p) ==
  {d \in Depends[p] :
     d \in {NameOf[s] : s \in job.wanted} \/ Exists(d)}

Outcome(result, owner) == [result |-> result, owner |-> owner]

\* What _import_one decides, unless to write: result and owner.
Decision(s) ==
  LET owner == job.owners[s]
      p == Found[s]
  IN  IF NameOf[s] \in job.never THEN Outcome("skipped", Nobody)
      ELSE IF Skipped(s) THEN Outcome("skipped", owner)
      ELSE IF p \in Unresolved \cup {Unfound} THEN Outcome("failed", owner)
      ELSE IF owner.package = p /\ ~job.update THEN Outcome("skipped", owner)
      ELSE IF Occupied(s) THEN Outcome("skipped", Native(p))
      ELSE IF p \in WithoutUrl THEN Outcome("failed", owner)
      ELSE IF job.check THEN Outcome("success", owner)
      ELSE Outcome("write", owner)

\* The first of the symbols still to do.
First(s) ==
  \E i \in DOMAIN Order :
    s = Order[i] /\ s \in job.todo /\ \A j \in 1..(i - 1) : Order[j] \notin job.todo

\* _write_package: where it starts, an old directory goes away first.
Open(s) ==
  job' = [job EXCEPT !.pc = IF Exists(Found[s]) THEN "remove" ELSE "create",
                     !.symbol = s, !.depends = KeptDepends(Found[s])]

\* _import_one, as far as it writes nothing.
ImportOne ==
  /\ job.pc = "next"
  /\ \E s \in Symbols :
       /\ First(s)
       /\ IF Decision(s).result = "write"
          THEN Open(s)
          ELSE Report(s, Decision(s).result, Decision(s).owner)
  /\ UNCHANGED <<packages, registry, index, never, selected, imports, edits, kills,
                 removed>>

Replace(is, next) ==
  /\ packages' = [packages EXCEPT ![Found[job.symbol]] = Plain(is)]
  /\ GoTo(next)
  /\ UNCHANGED <<registry, index, never, selected, imports, edits, kills>>

\* The old directory goes away, and a new one is made, with the build script.
RemoveDirectory ==
  /\ job.pc = "remove"
  /\ Replace("absent", "create")
  /\ removed' = removed \cup {Found[job.symbol]}

CreateDirectory ==
  /\ job.pc = "create"
  /\ Replace("bare", "describe")
  /\ removed' = removed \ {Found[job.symbol]}

Write(is, next) ==
  /\ packages' = [packages EXCEPT ![Found[job.symbol]] =
                    Directory(is, job.symbol, job.depends, imports)]
  /\ next
  /\ UNCHANGED <<registry, index, never, selected, imports, edits, kills,
                 removed>>

\* _write_package: package.yaml.
WriteDescription ==
  /\ job.pc = "describe"
  /\ Write("described", GoTo("kconfig"))

\* _write_generated_package_kconfig: every package is read to write this one.
WriteKconfig ==
  /\ job.pc = "kconfig"
  /\ IF Readable THEN Write("listed", GoTo("origin"))
     ELSE Write("described",
                Report(job.symbol, "failed", job.owners[job.symbol]))

\* _write_package: import.yaml; then _import_one records the owner.
WriteOrigin ==
  /\ job.pc = "origin"
  /\ Write("imported",
           Report(job.symbol, "success", Imported(Found[job.symbol])))

Finish ==
  /\ job.pc = "next" /\ job.todo = {}
  /\ IF job.check THEN job' = Idle ELSE GoTo("registry")
  /\ UNCHANGED <<packages, registry, index, never, selected, imports, edits,
                 kills, removed>>

WriteOwnership ==
  /\ job.pc = "registry"
  /\ registry' = Cleaned(job.owners)
  /\ GoTo("index")
  /\ UNCHANGED <<packages, index, never, selected, imports, edits, kills,
                 removed>>

\* _refresh_package_index: the packages as they are now.
RefreshIndex ==
  /\ job.pc = "index"
  /\ IF Readable THEN index' = Described /\ removed' = {}
     ELSE UNCHANGED <<index, removed>>
  /\ job' = Idle
  /\ UNCHANGED <<packages, registry, never, selected, imports, edits, kills>>

-----------------------------------------------------------------------------
(* What else may happen                                                     *)

\* What rmtree leaves of a directory when it stops on the way.
LeftOf(directory) ==
  LET fewer == CASE directory.is \in {"native", "imported"} -> {"listed", "described"}
                 [] directory.is = "listed" -> {"described"}
                 [] OTHER -> {}
  IN  {Plain("bare")} \cup {[directory EXCEPT !.is = is] : is \in fewer}

\* A kill, or an OSError: import_buildroot_packages catches a SmartBuildError
\* alone.  What was being removed is there in part, a file being written is cut
\* short: a directory without its package.yaml or with a part of it, a registry
\* or an index that is empty.
Kill ==
  /\ job # Idle /\ kills < MaxKills
  /\ kills' = kills + 1
  /\ job' = Idle
  /\ \/ packages' = packages
     \/ /\ job.pc \in {"remove", "describe"}
        /\ \E left \in IF job.pc = "remove" THEN LeftOf(packages[Found[job.symbol]])
                      ELSE {Plain("cut")} :
             packages' = [packages EXCEPT ![Found[job.symbol]] = left]
  /\ \/ registry' = registry
     \/ job.pc = "registry" /\ registry' = [s \in Symbols |-> Nobody]
  /\ \/ index' = index
     \/ job.pc = "index" /\ index' = {}
  /\ UNCHANGED <<never, selected, imports, edits, removed>>

Edit ==
  /\ job = Idle /\ edits < MaxEdits
  /\ edits' = edits + 1
  /\ UNCHANGED <<registry, index, job, imports, kills>>

RemovePackage ==
  /\ Edit
  /\ \E p \in Names :
       /\ Exists(p)
       /\ packages' = [packages EXCEPT ![p] = Plain("absent")]
       /\ removed' = removed \cup {p}
  /\ UNCHANGED <<never, selected>>

AddPackage ==
  /\ Edit
  /\ \E p \in Names :
       /\ ~Exists(p)
       /\ packages' = [packages EXCEPT ![p] = Plain("native")]
       /\ removed' = removed \ {p}
  /\ UNCHANGED <<never, selected>>

Forbid ==
  /\ Edit
  /\ \E p \in Names \ never : never' = never \cup {p}
  /\ UNCHANGED <<packages, selected, removed>>

\* run_buildroot_menuconfig: what is owned comes out selected whatever was
\* picked.
Menuconfig ==
  /\ Edit
  /\ Readable
  /\ \E picked \in SUBSET Symbols : selected' = picked \cup OwnedSymbols
  /\ UNCHANGED <<packages, never, removed>>

Init ==
  /\ packages = [p \in Names |->
       IF p \in UserPackages THEN Plain("native")
       ELSE IF p \in DOMAIN Earlier
         THEN Directory("imported", Earlier[p],
                        Depends[p] \cap (UserPackages \cup DOMAIN Earlier), 0)
       ELSE Plain("absent")]
  /\ registry = [s \in Symbols |->
       IF \E p \in DOMAIN Earlier : Earlier[p] = s THEN Imported(Found[s]) ELSE Nobody]
  /\ index = UserPackages \cup DOMAIN Earlier
  /\ never = {}
  /\ selected \in SUBSET Symbols
  /\ job = Idle
  /\ imports = 0 /\ edits = 0 /\ kills = 0
  /\ removed = {}

Next ==
  \/ StartImport \/ ImportOne \/ RemoveDirectory \/ CreateDirectory
  \/ WriteDescription \/ WriteKconfig \/ WriteOrigin
  \/ Finish \/ WriteOwnership \/ RefreshIndex
  \/ Kill
  \/ RemovePackage \/ AddPackage \/ Forbid \/ Menuconfig

Spec == Init /\ [][Next]_vars

-----------------------------------------------------------------------------
(* Properties                                                               *)

Owners ==
  {Nobody} \cup {Native(p) : p \in Names} \cup {Imported(p) : p \in Names}

\* What an import keeps while it is at work.
Jobs ==
  [pc : {"next", "remove", "create", "describe", "kconfig", "origin", "registry", "index"},
   update : BOOLEAN, check : BOOLEAN, todo : SUBSET Symbols,
   wanted : SUBSET Symbols, owners : [Symbols -> Owners], never : SUBSET Names,
   symbol : Symbols, depends : SUBSET Names,
   result : [Symbols -> {"none", "success", "skipped", "failed"}]]

\* Every variable stays in its type (the files of buildroot_import.py).
TypeOK ==
  /\ packages \in [Names ->
       [is : {"absent", "native", "bare", "cut", "described", "listed",
              "imported"},
        origin : Symbols, depends : SUBSET Names, import : 0..MaxImports]]
  /\ registry \in [Symbols -> Owners]
  /\ index \subseteq Names /\ never \subseteq Names
  /\ selected \subseteq Symbols
  /\ job \in {Idle} \cup Jobs
  /\ imports \in 0..MaxImports /\ edits \in 0..MaxEdits /\ kills \in 0..MaxKills
  /\ removed \subseteq Names

Ending == job # Idle /\ job.pc = "registry"

\* An import that ends has looked at every symbol; it failed for those alone
\* that cannot be read, and says of none that its package exists when it does
\* not, unless it was removed since the last whole import: by the user, or by an
\* import that removed it to write it anew and was killed before it made the
\* directory again.  (buildroot_import.py:220-237, 491-493)
BestEffort ==
  Ending => \A s \in job.wanted :
    /\ job.result[s] # "none"
    /\ job.result[s] = "failed" => Found[s] \in WithoutUrl \cup Unresolved \cup {Unfound}
    /\ job.result[s] # "failed" /\ NameOf[s] \notin job.never =>
         LET p == job.owners[s].package IN Exists(p) \/ p \in removed

\* Whatever the order of the symbols, a package that an import writes depends on
\* what Buildroot says and the repository then has, and on nothing else but what
\* failed, is forbidden or has a symbol that another package owns.  Left out are
\* packages found from a symbol that is wanted when none of their own name is (an
\* underscore, a capital, an option alone): they are missed when they come later.
\* (buildroot_import.py:268-275)
DependsAreExact ==
  Ending => \A p \in Names :
    packages[p].is = "imported" /\ packages[p].import = imports =>
      /\ \A d \in Depends[p] :
           /\ Exists(d)
           /\ d \in {Found[s] : s \in job.wanted} => d \in {NameOf[s] : s \in job.wanted}
           => d \in packages[p].depends
      /\ \A d \in packages[p].depends :
           \/ Exists(d) \/ d \in removed
           \/ \E s \in job.wanted : NameOf[s] = d /\
                \/ job.result[s] = "failed" \/ d \in job.never
                \/ job.owners[s].package # d

\* --update writes every imported package anew that is wanted, whichever symbol
\* it was found from.  After a kill the registry may not know it.
\* (buildroot_import.py:237, 261)
UpdateReplacesImported ==
  Ending /\ job.update /\ kills = 0 => \A p \in Names :
    /\ packages[p].is = "imported" /\ packages[p].origin \in job.wanted
    /\ p \notin never /\ NameOf[packages[p].origin] \notin never
    => packages[p].import = imports

\* packages/Kconfig names no package without a Kconfig, but those that the
\* user has removed since.  (buildroot_import.py:806)
IndexIsUsable ==
  job = Idle /\ kills = 0 => \A p \in index :
    packages[p].is \in {"native", "listed", "imported"} \/ p \in removed

\* A package of the user's is changed by the user only.  Left out are those in
\* the place of an imported one that the registry still has.
\* (buildroot_import.py:261)
NativeIsKept ==
  [][\A p \in Names :
       /\ packages[p].is = "native" /\ packages'[p] # packages[p]
       /\ \A s \in Symbols : registry[s] # Imported(p)
       => job = Idle]_vars

\* What an import promises of the packages it writes, of the others, and of
\* the index of all.
ImportIsRight ==
  /\ [](BestEffort /\ DependsAreExact /\ UpdateReplacesImported /\ IndexIsUsable)
  /\ NativeIsKept

=============================================================================
