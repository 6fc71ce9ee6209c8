# smart-build: specifications and proofs

smart-build (`src/src/smart_build`, Python) builds RT-Thread Smart for a
machine: it plans the tasks of a target, orders them, executes those whose
inputs changed, and leaves a kernel, packages, root filesystem images and a
manifest in `build/<machine>/`. Archives and toolchains in `downloads/`, the
`rt-thread` tree and the workspace configuration are shared by all machines.
This directory holds TLA+ models of its parts, the TLC configurations that
check them on small instances, and TLAPS proofs of what matters most for
instances of any size. File names below are relative to `src/src/smart_build/`,
and those that begin with `docs/` to `src/`.

1. [Inventory](#1-inventory) of the system
2. [Modules](#2-modules): which models what, and how it corresponds to the code
3. [Runs](#3-runs): what each checks, its bounds, the fairness it assumes
4. [Proofs](#4-proofs)
5. [What the models show about the code](#5-what-the-models-show-about-the-code)
6. [Not modelled](#6-not-modelled), and [what is open](#7-what-is-open)

## 1. Inventory

| Component | Keeps | Operations | Correct when | Module |
| --- | --- | --- | --- | --- |
| Task graph (`tasks.py:96-143`) | tasks by id, in-degrees | construction, `topological_order` | dependencies first, complete, the planner's order kept, cycles named exactly | TaskGraph |
| Cache (`cache.py`) | a stamp file per task | `signature`, `is_hit`, `write` | a hit means up-to-date outputs | Cache |
| Scheduler, build command (`scheduler.py`, `cli.py`, `manifest.py`) | results per task, logs, `build/<machine>/`, `manifest.json` | `run`, `build`, `clean`, `distclean` | each task once, in order, stops at the first failure; the manifest is of the build that wrote it | Scheduler, OrderedRun |
| Target planning (`tasks.py:145-994`, `domains/app.py`) | nothing: a list of tasks | `tasks_for_target`, added dependencies and inputs | no target a configuration has is refused; a task's inputs list all its executor reads | TargetPlan |
| Package resolution (`package_resolver.py`, `package_metadata.py`) | selection and requirements, while it runs | recursive selection, providers, versions, conflicts | closed under requirements, versions as required under every name | PackageResolver |
| Package sources (`domains/package_sources.py`) | `downloads/` archives, temporary and lock files; prepared trees | locked download; unpack, clone, local files, patches, restored configuration | only checked archives are unpacked; a tree is what is declared, and nothing else | ArchiveDownload, PackageSource |
| Package builders (`domains/package.py`, `cmake_package.py`, `ament_package.py`) | work, stage and stamp of a package | plan, prepare, run, collect, verify, pack | a stage that is taken as it is was made from what is there now | PackageStage |
| RT-Thread SCons packages (`domains/rtthread_scons_package.py`, `rtthread_scons.py`) | copy of the source, online packages, marker | `env-packages`, `build` | only the source and the chosen packages, whole, go into it | SconsPackage |
| ipkg (`domains/ipkg.py`) | `.ipk` files; installed files, status and lists | pack, read, install, upgrade, remove | torn archives refused; a failed installation changes nothing, or only its database entry is missing; no file without an owner | IpkgArchive, IpkgRuntime |
| Toolchains (`domains/toolchain.py`) | `downloads/toolchains/` | look up, validate, download, install | what is found is whole, and found again | ToolchainInstall |
| RT-Thread source, kernel (`domains/sources.py`, `domains/kernel.py`, `env_packages.py`) | shared `rt-thread`; `.config`, `packages/`, overlays of a BSP | clone beside and rename; update packages; build; `configure kernel` | never half a clone; a kernel has the packages selected for it | KernelBuild |
| Menus (`menuconfig.py`, `config.py`) | defconfig of a board, workspace configuration | `menuconfig`, `configure` of a package with options, resolution | what was saved is built, whatever is done for other machines at the same time | Menuconfig |
| Configuration commands (`configure.py`) | configuration saved beside package.yaml | seed, menu, copy back | what was chosen is what is built | PackageSource |
| Root filesystem and images (`domains/rootfs.py`, `domains/image.py`) | staged tree, manifest, images | stage, size, image, remove other images | an image has what is selected and nothing else, and it fits | RootfsImage, ImageSize |
| BusyBox (`domains/busybox.py`) | archive, prepared tree, stamps | fetch, prepare, build, stage, configure | the image is of the saved configuration | Busybox |
| QEMU (`domains/qemu.py`) | launcher, copy of the image | write launcher, smoke test | the image asked for is booted, no copy stays but of a test that was stopped | RootfsImage |
| Buildroot import (`buildroot_import.py`) | packages it wrote, ownership registry, index | `import`, `--update`, `--check` | the user's packages stay, imported ones are whole | BuildrootImport |
| Doctor, progress, errors | nothing that a build depends on | reports | - | - |

**Interaction.** A command resolves the configuration, resolves packages, and
calls the planner, which returns a list of tasks; each task carries its id,
dependencies, input and output paths, and an executor (a closure over the
domain module's code) or a command. `Scheduler.run` orders the list and, one
task after the other, asks the cache, executes, checks that the outputs exist,
and stamps. Tasks communicate through the file system only: the outputs of one
are among the inputs of the next. There is one thread per command; `--jobs` is
handed to the tools called. Commands for several machines share `downloads/`,
toolchains, `rt-thread` with its BSP directories, `packages/` with the saved
configurations, and `build/.config`; only package archives have a lock.

**What is hard.** Failures, kills and user edits at any point between reading
inputs, writing outputs and stamping them, followed by another build that
trusts the stamps; outputs whose content is never checked; commands racing for
shared files; downloads that are resumed by somebody else; several files that
belong together written one after the other; state that an earlier selection,
machine or revision has left behind. `PROJECT.json` lists the hazards at their
lines, with the properties that would see them go wrong.

## 2. Modules

```
Menuconfig          BuildrootImport      what is configured, and what there is
     |                    |
     v                    v
PackageResolver -----> TargetPlan        which packages, which tasks
                          |
                          v
                      TaskGraph          in which order
                          |
OrderedRun <-refines- Scheduler --extends--> Cache
                          |              the executors of the tasks:
     +---------------+----+----------+-----------------+--------------+
PackageSource   PackageStage   ToolchainInstall   RootfsImage     Busybox
     |          SconsPackage   KernelBuild        ImageSize
ArchiveDownload IpkgArchive         |             IpkgRuntime (on the device)
     |                              |
     +------refines-> PublishedOnce <-refines------+
```

Components that belong together have a module that puts them together: **Builds**
(Scheduler and TaskGraph), **Workspace** (ToolchainInstall and KernelBuild),
**Stages** (PackageStage and SconsPackage), **Ipkg** (IpkgRuntime and
IpkgArchive), **Images** (RootfsImage, ImageSize and Busybox) and
**Configuration** (Menuconfig, PackageSource and BuildrootImport) extend the first
and instantiate the others, with the constants and variables that these have
besides. The proofs of a component are about its own `Spec` in that module
(`Graph!Spec`, `K!Spec`, `Source!Spec`, ...), and the MC modules extend it. A
variable `part` says there which of the components a behaviour moves, the others
stay where they started; `MCBuilds` has a specification for each instead. They
share no state, so this checks each as it would be checked alone, and says no
more: what they owe each other is stated where they meet (the outputs an executor
leaves are those of Scheduler's `Produce` and `FailExecution`; the archive that
PackageSource unpacks is the one that ArchiveDownload verifies).

Each module has operators marked as faults ("A fault: ..."). They are what the
properties are measured against (`PROJECT.json`, `mutants`), and no part of the
specification. `TypeOK` stands in every module; a run checks that of TaskGraph
(`GraphTypeOK`), and the theorems of section 4 prove it of every component that has
theorems, but for Menuconfig and PackageSource, whose invariants say which shape
the state has.

**TaskGraph** (`TaskGraph.__init__`, `topological_order`). A task is its
position in the planner's list, the code's `order_index`; `name` and `deps` are
arbitrary, so that repeated ids, unknown dependencies, self-dependencies and
cycles all occur. `IndexTasks` refuses repeated ids, `RejectMissing` and
`CountDependencies` are the two ways through the counting loop, `Place` is one
round of the main loop (`ready.pop(0)`, then the children that become ready,
then the sort), `Finish` its end. The code keeps `ready` sorted by position, so
a set stands for the list and the least element for its head.

**Cache** (`cache.py`). A task's own inputs (files no other task makes, its
command, environment, executor) are one value of `Version`; its outputs are one
value of `Content[t]`, `Absent` if an output path is missing and `Partial` for
anything an interrupted executor can leave with every path in place. A
signature is the pair of own inputs and the outputs hashed with them, taken
from the file system when it is asked for. `Build(t, v, upstream)` is what the
executor makes: executors are assumed deterministic, up to what the properties
distinguish. `Reads[t]` and `Hashed[t]` are kept apart, because the code does:
what an executor opens need not be among the task's `inputs`. Tasks where it is
are `Sealed`.

**Scheduler** (`Scheduler.run`, `_run_build`, `write_manifest`, the clean
commands). The variables are the directory (`src`, `out`, `stamp`, `manifest`)
and the process (`run`, `plan`, `pos`, `step`, `status`, `seen`). One task is
`Skip`, or `Execute` (a miss), `ReadInputs`, `Produce` (a command may also exit
with 0 and leave an output missing), `StampTask`; each of these places can fail
(`FailBeforeExecution`: `is_hit` raises outside the `try`; `FailExecution`;
`FailVerification`; `FailManifest`) or be killed (`Crash`), with every partial
effect such an end can have: outputs absent or partial, a stamp or manifest not
written, written, or torn. `EditInput` happens at any time, also while the
build runs. `Clean` is `clean` and `distclean`; `CleanOutputs` and `CleanStamp`
are the parts an interrupted one, or a user with `rm`, can have removed.
`tainted`, `quiet` and `settled` are history variables: the properties read
them, no action is guarded by them. A task is tainted while an attempt at it
may have left outputs beside the stamp of an earlier one, or was stamped with
inputs edited since it read them.

**OrderedRun** is the promise: goal tasks finish at most once and only after
what they depend on, success means the whole goal, nothing finishes after a
failure. It knows no cache, no outputs and no positions.
`Scheduler!ImplementsOrder` is the refinement, under `goal <- Planned` and
`done <- Finished`.

**ArchiveDownload** (`_ensure_archive_available`, `_FileLock`,
`_download_archive`, `_download_archive_url`). Builds are processes. Each looks
for the archive without the lock, opens and locks the lock file, looks again,
calls curl (direct, direct from scratch when the server refuses to resume, the
local proxy, the proxy from scratch; then the mirror), checks the temporary
file, renames it, checks again, unlocks, and later unpacks. Files hold a
beginning of the right archive, all of it, or something else; curl may leave
anything its start allows, so wrong answers, cut transfers and exit codes that
do not match the file are all included. `lockFile` numbers the files the lock
path has named, since unlinking a locked file lets the next build lock another.
`Verified` fails on a missing file: the code's check raises then.

**PublishedOnce** is the promise of what builds fetch for each other: it is put
into place where there is nothing, at once and right; it stays; and nobody goes
on with anything else. It knows no locks, temporary files, attempts or
checksums. The archive of a source implements it with a lock
(`ArchiveDownload!ImplementsShared`, proved), the tree of RT-Thread without one
(`KernelBuild!ImplementsShared`, proved).

**PackageResolver** (`resolve_package_selection` and what it calls). A package
is its position in `load_all_package_metadata`, since the first that provides a
capability is its provider. `Describe` and `Configure` build up the package
descriptions (`depends` and `host_depends` are one relation here, the resolver
treats them alike) and the configuration entry by entry, so that every small
combination occurs; `Request` starts the walk. `calls` is the recursion of
`include`: per call under way, the names it has still to include, its
dependencies before its selections. The order inside each is any, which covers
every order of a description. `PassUnknown`, `RefuseUnknown`,
`RefuseRequirement`, `Revisit` and `Include` are the ways through one call,
`Return` its end; `RefuseConflict`, `RefuseSettings` and `Accept` are what
follows the walk. Values of options matter only by being legal or not.

**TargetPlan** (`create_default_plan`, `tasks_for_target` and what they call). The
plan is an operator of the configuration and the target: packages in the
resolver's order (`Resolved`), `Direct` dependencies by the first selected
provider and the `Closure` by the last (the code has two ways to find a provider,
and the model keeps both), real tasks for what the target needs and placeholders
for the rest, the closure of the target, and the order of TaskGraph. `Rejected`
has the refusals before there is a graph, that of an empty selection
(`tasks.py:689`) for every target that makes real packages; `PlanFor` has those of
the graph. `order` holds the tasks of the command at hand, which the actions
execute one by one; what one finds of another (`stage`, `stamp`, `ipk`, `rootfs`,
`image`) is the set of sources that went into it. `uses` says of which packages a
package takes something, which only those who wrote it know.

**PackageStage** (planners and executors of `domains/package.py`, packing in
`domains/ipkg.py`). The backends differ in a few conditions each, which records
give (`LibraryTask`, `LibraryExecutor`, ...): what the signature covers, whether
outputs are copied or written in place, what is required and checked, what is
read beside the sources. `Plan` looks at the stage an earlier build has left
(`_validate_existing_stage`, the listing of directories), then `HostSkip`,
`HostPrepare`, `HostGenerate` (an executable's generator), `Check`, `Validate`,
`Prepare`, `Run`, `Collect`, `Verify`, `Stamp`, `Pack` are the steps of the two
or three tasks; `RunFails` leaves any part of the outputs. Edits and kills
happen anywhere, also between planning and executing.

**SconsPackage** (`domains/rtthread_scons_package.py`). `Plan` fixes the
linkage; the steps of `env-packages` copy the source, write `.config`, run
`pkgs` and compare what it recorded with what is selected; those of `build` run
scons in the copy and take the declared files. The source may have been built
in by hand; `pkgs` may leave a package out or torn, with or without saying so in
each of the places where it can; and whatever lies in `packages/` is compiled.

**IpkgArchive** (`_write_ar`, `_read_ar`). A file is a sequence of cells, a
header some of them, so that every beginning of a file is a sequence too.
`Write` puts down the next cell, `Open` may come after any of them, `ReadMember`
is one turn of the reader's loop.

**IpkgRuntime** (`install_ipkg_runtime`, `remove_ipkg_runtime`,
`IpkgDatabase`). Members are written one by one, each with a probe, the
comparison with what is there, and the writing; a refusal rolls back what was
created, a kill does not. The database is two files, `status` and the list of
paths, and writing either may fail: `CommitFails` is outside the code's
rollback, so the files stay. An upgrade installs over what is there.

**ToolchainInstall** (`domains/toolchain.py`, `toolchain install`). `Candidates`
is the search order, `Valid` the checks of `Toolchain.validate`. A command
looks up, downloads to a file of its own, verifies, keeps the archive, extracts
into a directory of its own, checks, and renames; all without a lock, and with
`download-clean` removing things one by one beside it.

**KernelBuild** (`domains/sources.py`, `domains/kernel.py`, `env_packages.py`).
A machine's command clones `rt-thread` beside it and renames; updates the
packages of the BSP (normalised configuration, removal of what is not recorded,
`pkgs`, the three checks, removal again), copies the overlay, runs scons and
installs the kernel. Machines may share a BSP. `beside` is the history of those
whose BSP another command has used at the same time: nothing excludes that and
nothing is promised of it.

**Menuconfig** (`run_menuconfig`, `run_package_menuconfig`, `config.py`). A
configuration is a function from keys to values. The commands read both files; the
menu's writes the workspace configuration (`OpenMenu`, `WriteFrontend`), reads it
again when the menu starts (`StartMenu`), whoever wrote it last, and may save it
from within (`OpenSave`, `SaveInMenu`); in the end each writes both files.
`write_text` cuts a file when it opens it and writes from its start later
(`CutDefconfig`, `FillDefconfig`, `CutWorkspace`, `FillWorkspace`), so when two
commands have both cut a file, the text written last has the tail of the other
behind it: `Overlaid` is the file that results, split at any line in the order
`Line`, and perhaps `Unreadable`, as the line at the seam may have no `=`. `Torn`
is what a failing write leaves (`DefconfigFails`, `WorkspaceFails`), a beginning
of the text over what was there. `Built(m)` is what `build` resolves from the
files, or that it is refused; a command that finds a file unreadable does not
start (`Refused`), or stops (`GiveUp`). `chosen` is the history of what was last
saved for a machine, or `Unknown` while a command writes it, after a kill and when
its text was overlaid; `mixed` says that the workspace configuration has values of
two texts. `BoardsAssumption` says what the defconfigs of `boards/` are like
before any menu: each names its machine, a toolchain of it and a root filesystem
whose image can be made, and a full one has its packages chosen one by one
(`ROOTFS_PACKAGE_MODE=manual`).

**PackageSource** (`_make_source_executor`, `package_configuration`,
`execute_configuration`, `_board_configuration`). A tree is what it was made of:
revisions, patches in the order they were applied, local files, configuration
files. A build and a configuration session prepare it in the same way, file by
file; a session saves the files the menu made beside package.yaml.

**RootfsImage** (`domains/rootfs.py`, `image.py`, `qemu.py`). Trees are
functions from paths to contents. Staging removes the old tree, copies BusyBox's
and the runtime libraries, installs packages in turn (an identical file is
shared, another content is a conflict) and writes the manifest; the image
replaces those of other selections. Smoke tests copy, boot and judge beside it:
`CopyImage` opens image and copy, `Copied` is the end of `copy2`, and `StopSmoke`
a copying that fails or a kill anywhere, neither of which comes to the `finally`
that removes the copy (`left`).

**ImageSize** (`_image_size`, `_round_power_of_two` in `image.py` and
`busybox.py`) computes sizes in units of 256 bytes. `Fits` is an outside view of
what `mke2fs -t ext4` makes of an image with the configuration it comes with:
blocks of 1 KiB and an inode for each 4 KiB below 512 MiB, blocks of 4 KiB and
an inode for each 16 KiB from there on, a journal of an eighth at most.

**Busybox** (`domains/busybox.py`, `configure busybox`). A tree, a binary and an
image are known by the versions of what they were made from. The tasks fetch,
prepare (remove, extract, patch, configure, mark, stamp), build (remove the old
installation, make, stamp) and stage are skipped as the code skips them: by the
marker and two stamps. `doubt` names the ways in which what is built may differ
from what is saved (section 5).

**BuildrootImport** (`import_buildroot_packages`). A symbol leads to a package
(`Found`), perhaps another's; for each the import decides by registry, directory
and never-import list (`Decision`), removes the directory (`RemoveDirectory`),
makes it anew (`CreateDirectory`) and writes description, Kconfig and origin,
file after file; the registry and the index are written at the end. `Kill` is a
kill or an error of the file system at any of these steps, which nothing
catches. `Token` and `Underscored` are the two ways in which the code compares a
name with a symbol, and `removed` the history of what has no directory because
the user removed it, or an import that came no further. The repository may have
packages of an earlier import (`Earlier`).

## 3. Runs

| Run | Instance | Distinct states | Checks |
| --- | --- | --- | --- |
| `task_graph` | 3 tasks, 4 ids, all dependency sets | 641 thousand | `GraphTypeOK`, `OrderIsRight`, `CycleReportIsExact`, `SortEnds` |
| `builds` | source (uncached), lib, app; 2 versions; 3 builds, 2 edits | 196 thousand | `HitIsFresh`, `IncrementalEqualsClean`, `SettledBuildOnlySkips`, `ImplementsOrder`, `BuildEnds` |
| `archive` | 2 builds with 2 attempts each, a mirror, 1 kill, 1 file removed | 645 thousand | `ArchiveVerified`, `DownloadedOnce`, `CallsEnd` |
| `packages` | 3 packages (one native), 1 capability, 2 versions, 3 entries, 2 requests | 331 thousand | `SelectionIsClosure`, `VersionsAgree`, `RefusalIsJustified`, `ResolutionEnds` |
| `plan` | 5 packages of four kinds, one of the host; every target, every rootfs; 1 edit, 1 failure | 2.7 million | `PlanIsReal`, `StagesAreFresh` |
| `stages` | PackageStage: 5 backends, 2 edits, any number of builds; SconsPackage: 3 online packages, 2 edits, 1 fault | 2.4 million | `SkippedIsCurrent`, `PackedIsStaged`, `BuildsSettle`, `StagedIsExact` |
| `ipkg` | IpkgRuntime: 5 archives of 2 packages, 2 kills, 1 error; IpkgArchive: members of 0 to 3 cells | 672 thousand | `InstalledComplete`, `FilesHaveOwners`, `FailedInstallIsNothingOrAll`, `ReadIsExact` |
| `images` | RootfsImage: 5 selections, 2 smoke tests, 1 edit, 1 fault; Busybox: 2 edits, 2 faults; ImageSize: 7 x 7 trees, 10 sizes | 8.3 million | `ImageIsExact`, `SmokeBootsItsImage`, `ImageIsUsable`, `ImageIsCurrent`, `SecondBuildSkips` |
| `sources` | ToolchainInstall: 2 commands, 2 releases, 1 fault, edit and clean; KernelBuild: 2 machines of one BSP, and of a BSP each, 2 faults | 3.3 million | `InstalledIsWhole`, `SuccessIsLasting`, `KernelIsExact`, `ImplementsShared` |
| `configuration` | Menuconfig: 2 boards, 2 commands at once (interchangeable), 1 choice among those at work, 1 kill or failed write and no choice after it, lines in 5 groups; PackageSource: 2 machines and 2 menus, or 1 machine with 1 kill and, of 2 edits and 2 menus, 3; BuildrootImport: 7 symbols, an earlier import, 2 imports, 1 edit, 1 kill or error | 1.9 million | `SavedIsBuilt`, `MachineIsWhole`, `PreparedIsExact`, `ChoiceIsKept`, `ImportIsRight` |
| `packages_depends` | the instance of `packages`, 2 entries | stops | `DependsAreRequired` is violated (section 5) |
| `plan_host_tools` | a package and an executable of the host | stops | `HostToolsArePlanned` is violated (section 5) |

Deadlock is checked where a model never stops. `task_graph`, `packages`,
`builds`, `archive`, `images` and `configuration` stop by design: the sort or
the walk ends, or the bounds are used up.

**Task graph.** `OrderIsRight`: every task stands behind what it depends on, none
is missing or twice, and at each position stands the earliest task that could
stand there, which makes the order a function of the plan.
`CycleReportIsExact`: success exactly on acyclic graphs, and the ids in the
error are those on or behind a cycle. Three tasks give self-dependencies, two-
and three-cycles, tasks behind a cycle, diamonds without their top; the fourth
id is one that is not in the graph.

**Builds.** `HitIsFresh`: a task that would be skipped has the outputs its
executor would make now; excepted is one that failed, was killed or read an input
that was edited meanwhile, and that has an older stamp (section 5).
`IncrementalEqualsClean`: the manifest records what a build in an empty directory
would have recorded, computed by recursion along the plan.
`SettledBuildOnlySkips`: what was built undisturbed is not executed again.
"Change, fail, change back" needs three builds and two edits. Two versions suffice
because versions are only compared. A chain of an uncached and two cached tasks
has every combination that matters to a task: none, a cached, and an uncached task
before it, and a transitive one. Since the versions of one task can be exchanged
for each other, the instance begins with one of them.

**Archive.** Two builds are enough for one that holds the lock while the other
waits or takes the fast path; with two attempts each, a temporary file can be
left by one, resumed by the other, and left again. The safety properties speak
of the time before anything is removed from `downloads/`; `CallsEnd` of all the
time. The instance has `Checked = TRUE`; without a `sha256` `ArchiveVerified`
says nothing, as the code then checks nothing.

**Packages.** `SelectionIsClosure`: what the walk takes is the least set that
is closed under dependencies, selections and providers, defined without a walk,
and each package is in once. `VersionsAgree`: a package has the version
required under any of its names, even one the walk met after the package was
in, and no two packages conflict, whichever says so. `RefusalIsJustified`: a
name not found or two versions required of one package lie in *every* closed
set, so no order of the descriptions would have avoided them. Three entries
have a package reached by its name and by a capability, circles of two and
three packages, and two versions required of one package. The theorems speak of
any number of them.

**Plan.** `PlanIsReal`: every target of every rootfs selection is planned with
real tasks only, once each and in an order, or refused for one of the reasons
listed. `StagesAreFresh`: after a build that ended well every package that was
asked for is what a build from scratch would make. The packages are of every
kind that planning tells apart (executable, ament, library, host library, app),
needed by name, by capability and from the host, directly and through another.

**Stages.** `SkippedIsCurrent`: a stage that is taken as it is was made from
what is there now. `PackedIsStaged`: what is packed is what is in the stage.
`BuildsSettle`: while nothing changes, everything is skipped the second or third
time. Five backends stand for all: the others differ from these in a single
condition. Two edits make a change and take it back; the number of builds,
failures and kills has no bound. `StagedIsExact`: a build in RT-Thread's scripts
stages the source, the choices and the index as they are.

**ipkg.** `InstalledComplete`: the files of an installed package stay what they
were. `FilesHaveOwners`: no file is left that no list names.
`FailedInstallIsNothingOrAll`: an install that fails at a member leaves the root
filesystem as it was, one that fails at the database leaves every member in place;
what it has left then counts as `debris` of `FilesHaveOwners`. The archives are chosen so
that every case of the comparison occurs: an identical shared file, a changed
one, a file that was there before, a link in the way, an upgrade that drops a
path, an archive that turns out broken at its last member. `ReadIsExact`: of
all beginnings of all archives the reader takes the complete ones only; a size
is odd, even or zero, and headers are as long as two cells, so that everything
that may be confused with something else is tried.

**Images.** `ImageIsExact`: an image has every file of every selected package,
and nothing else. `SmokeBootsItsImage`: a test without another beside it boots
the image it was asked for, whatever an earlier one has left, and only a test that
was stopped leaves a copy. `ImageIsUsable`: what is staged
fits an expandable image, and an SD card has the size it must have; the sizes
are the powers of two around which the rounding changes, with the blocks on both
sides, 512 MiB, from which mke2fs takes other blocks and inodes, and the largest,
256 GiB. `ImageIsCurrent` and `SecondBuildSkips`: BusyBox is of the saved
configuration, patches and toolchain, and is not made twice.

**Sources.** `InstalledIsWhole` and `SuccessIsLasting`: an installed toolchain
is whole, and found by the next command, whatever others do.
`KernelIsExact`: a kernel has the packages selected for it, whole, and no
others. `ImplementsShared`: `rt-thread` is published once. Two commands suffice
for a race to an install path, as there is nothing a third could find that the
second has not. The constraint `MCAlone` leaves out what follows two commands at
once in one BSP, of which nothing is promised.

**Configuration.** `SavedIsBuilt`: what the last menu of a machine saved is what
is built for it, whatever commands for other machines do and however they end,
unless two of them leave a line in the workspace configuration that nothing can
read. `MachineIsWhole`: no machine is read with another's name, and with another's
toolchain only after two commands have written that file at once (`mixed`). Lines
are in five groups, enough for the text of one command to end before, within and
behind each part of the other's that these two tell apart. `PreparedIsExact`: the
tree a package is built in is what its description and the files beside it say.
`ChoiceIsKept`: every build and every menu has what the last session saved.
`ImportIsRight` is five promises of an import: best effort (what it calls there is
there, unless it was `removed` by the user or by an import that came no further),
exact dependencies, `--update` replaces what was imported, the index names what is
there, the user's packages stay. The seven symbols have an option that leads to a
package before its own symbol, a package before its dependencies, a name with an
underscore, one without an archive, one not found, and one the user has written.

**Fairness.** `SortEnds` and `BuildEnds` assume weak fairness of the next-state
relation, and of the scheduler's own steps (`ResolutionEnds` of the walk's):
this is single-threaded code that waits for nobody, if the commands it runs end
(it sets no time limit on them; a command that hangs hangs the build, and no
property denies that). User actions, kills and edits have no fairness.
`CallsEnd` assumes weak fairness of each build's own steps: curl is called with
time limits, and `flock` wakes a waiter when the lock is released. That weak
fairness is enough although builds compete for the lock is because each makes
boundedly many attempts. The other modules promise nothing about an end: they
are safety specifications, in which a command may stop anywhere, as a killed one
does.

## 4. Proofs

| Theorem | Of | Under |
| --- | --- | --- |
| `Builds_proofs!GraphTypeCorrect`, `OrderRespectsDependencies`, `OrderComplete`, `OrderRight`, `CycleReported` | `GraphTypeOK`, `DependenciesFirst`, `OrderIsComplete`, `OrderIsRight`, `CycleReportIsExact` of TaskGraph | `N` a natural number, finitely many ids |
| `Builds_proofs!TypeCorrect`, `HitsAreFresh`, `BuildsAreConsistent`, `BuildsImplementOrder`, `SettledIsSkipped`, `IncrementalIsClean` | `TypeOK`, `HitIsFresh`, `BuildConsistent`, `ImplementsOrder`, `SettledBuildOnlySkips`, `IncrementalEqualsClean` of Scheduler | the assumptions below |
| `ArchiveDownload_proofs!TypeCorrect`, `OneDownloader`, `OnlyVerifiedArchives`, `OnlyVerifiedExtracted`, `NoSecondDownload`, `ArchiveStays` | `TypeOK`, `DownloaderAlone`, `ArchiveVerified`, `ExtractsVerified`, `DownloadedOnce`, `ArchiveKept` | any number of builds, URLs, attempts, kills and removals |
| `ArchiveDownload_proofs!ArchiveIsShared` | `ImplementsShared` | nothing is ever removed (`MaxCleans = 0`) |
| `PackageResolver_proofs!TypeCorrect`, `SelectionClosed`, `VersionsRight`, `RefusalsJustified` | `TypeOK`, `SelectionIsClosure`, `VersionsAgree`, `RefusalIsJustified` | any descriptions and configuration; a package's default version is one of its versions |
| `Stages_proofs!TypeCorrect`, `SkipsAreCurrent`, `PacksAreStaged`, `SecondBuildSkips` | `TypeOK`, `SkippedIsCurrent`, `PackedIsStaged`, `BuildsSettle` of PackageStage | any versions and bounds, every set of the backends; no version is 0 |
| `Stages_proofs!SconsTypeCorrect`, `StagedExact` | `TypeOK`, `StagedIsExact` of SconsPackage | any packages, indexes, edits and faults; `StagedExact`: `Nested = {}` |
| `Ipkg_proofs!TypeCorrect`, `InstalledStaysComplete`, `EveryFileHasOwner`, `FailureIsNothingOrAll` | `TypeOK`, `InstalledComplete`, `FilesHaveOwners`, `FailedInstallIsNothingOrAll` of IpkgRuntime | any archives, root filesystem, kills and errors |
| `Ipkg_proofs!ArchiveTypeCorrect`, `ReadExact` | `TypeOK`, `ReadIsExact` of IpkgArchive | headers of any positive length, members of any size |
| `Workspace_proofs!TypeCorrect`, `OnlyWholeInstalls`, `SuccessLasts` | `TypeOK`, `InstalledIsWhole`, `SuccessIsLasting` of ToolchainInstall | any commands and releases; in the beginning only installs have written where installs go |
| `Workspace_proofs!KernelTypeCorrect`, `KernelExact`, `SourceIsShared` | `TypeOK`, `KernelIsExact`, `ImplementsShared` of KernelBuild | any machines, BSPs and packages (`KernelAssumption`) |
| `Images_proofs!RootfsTypeCorrect`, `ImageExact`, `SmokeBoots` | `TypeOK`, `ImageIsExact`, `SmokeBootsItsImage` of RootfsImage | any packages, selections and tests (`RootfsAssumption`) |
| `Images_proofs!SizeTypeCorrect`, `ImageUsable` | `TypeOK`, `ImageIsUsable` of ImageSize | trees and requests up to 256 GiB |
| `Images_proofs!MakeTypeCorrect`, `ImageCurrent`, `SecondSkips` | `TypeOK`, `ImageIsCurrent`, `SecondBuildSkips` of Busybox | any versions, edits and faults |
| `Configuration_proofs!MachineWhole`, `SavedBuilt` | `MachineIsWhole`, `SavedIsBuilt` of Menuconfig | any machines, packages, profiles, commands, choices, kills and failing writes, any order of the lines; the defconfigs of the repository (`BoardsAssumption`); package symbols are no keys of the menu, a native option is no package's symbol |
| `Configuration_proofs!SourceExact`, `ChoiceKept` | `PreparedIsExact`, `ChoiceIsKept` of PackageSource | any machines, revisions, patches, synchronised files, menus, edits and kills |
| `Configuration_proofs!ImportTypeCorrect`, `ImportRight` | `TypeOK`, `ImportIsRight` of BuildrootImport | any symbols, packages, imports, edits, kills and errors; a symbol has a name of its own (`BuildrootImportAssumption`) |

`DependenciesFirst`, `OrderIsComplete`, `BuildConsistent`, `DownloaderAlone`,
`ExtractsVerified` and `ArchiveKept` are stated in the modules, hold for every
instance by these theorems, and have no run of their own.

**Task graph.** The inductive invariant says what the counts are: the in-degree
of a task is the number of its dependencies not yet placed; `ready` is exactly
the unplaced tasks with in-degree zero; names are unique once indexed. The
properties follow: a task is taken from `ready`, so its dependencies are
placed; when `ready` is empty, unplaced tasks have positive in-degree, so each
waits for an unplaced one, which is what a trapped set is; and no trapped set
can lose a first element to the order. Uniqueness of names is why an in-degree
may be decremented once per placed task.

**Scheduler.** *Assumptions.* `CacheAssumption` and `BuildAssumption`: executors
are functions of what they read, and success leaves the outputs in place.
`StampAssumption`: a torn file is no signature (incomplete JSON does not parse,
`cache.py:17-21`). `TargetAssumption`: a target is a sequence without repetition
in which whatever a task depends on, reads or hashes comes earlier. The first half
is what `OrderRespectsDependencies` and `OrderComplete` prove of
`topological_order`; that a task is fed only by what it depends on is the
planner's rule. *Argument.* The invariant says: for every sealed task with a stamp
and not tainted, *if* the stamp is the signature of some own version and some
upstream outputs, the outputs are absent or are `Build` of these. This is stronger
than `HitIsFresh` in that it also holds while the stamp does not match, which is
what survives edits: after an edit nothing is a hit, and after the edit is taken
back the claim is still there. While a task executes, `seen` ties the outputs to
what was read, and it has no stamp that parses or is `tainted`, until it is
stamped with just that. For `BuildConsistent`: in a quiet build, every finished
task is fresh, and stays fresh because a later task writes only its own outputs
and comes after everything that is read before it. The refinement maps each action
to a step of OrderedRun or a stutter; `Skip` and `StampTask` are `Complete`, since
the finished tasks are the plan's prefix. For `SettledBuildOnlySkips` the
invariant gets three parts more (`SInv`): in a quiet build the cached tasks behind
it are hits; what is settled is closed under reading and hashing; and each settled
task is a hit if it is cached, and is fresh if it is not. An uncached task is
executed again in every build, so it is fresh again only because nothing it reads
has changed; the moment between an executor that left no output and the end of the
build is excepted (`Missed`), as it ends what is settled. For
`IncrementalEqualsClean` the end of a quiet build is compared with `CleanBuild`
along the plan: were there a task that differs, there would be a first one
(`Least`, the least-number principle, taken from the well-foundedness of finite
sets), all it reads would be as in the clean build, and it is fresh.

**Package stages.** The invariant has four parts besides the types. `StampTold`:
the files of a stage nothing has touched since it was stamped are made from what
the stamp says, whether or not the stamp still matches; that is again what
survives an edit that is taken back. While a task is executed, `tainted` is set
and the files are told by what was read. `PackTold` says the same of an `.ipk`
and its signature. `Undisturbed`: what a quiet build knows at each step. It has
planned with the listing that it will sign, and the stage is exact from
collecting on. `Settling`: one or two quiet builds in a row leave a stamp that
the next will compute again, except that the listing of the first build may be
older than its stage, which is why a backend with the listing in its signature
needs a third build.

**SCons packages.** `CopyRight` says at each place of a command how far the copy
is, whatever is edited meanwhile: configuration and header agree, and once what
`pkgs` has recorded, reported and listed looks good (`StateIsGood`), the online
packages that lie there are those of the configuration, whole
(`ExactlyConfigured`). `CopyCurrent` says the same of the source and the choices
of a command that nobody disturbed. The files are those of the source but for
what the copy leaves out at any depth (section 5), so `StagedExact` is stated of
sources that have no such directory, as the run is; the invariant is proved of
all.

**ipkg.** While a rollback is possible, the root filesystem is what it was before
the call but for files that were not there then and are listed in `made`
(`Traced`), and the members behind the one at hand are in place (`Placed`). What
held of the root filesystem before the call, that every installed package is
complete and every file has an owner, is kept as a claim about `before`, so it
holds again after a rollback, and after a commit with the new package added. A
commit that fails adds what it has written to the `debris`; that it leaves every
member is `Placed` at the last of them. A removal takes the files of the list one
by one; what it has taken is excused by `leaving` and `taken`.

**ipkg archives.** What is written of the file is a beginning of the whole, so the
cell at any offset is known from the members alone (`ImageCells`: where each
begins, its header, its payload). The reader stands at the start of a member
whose predecessors it has returned, so what it takes for a header is one, and
the size it finds there is the one that was written. It stops at the end of the
file, and takes an archive whose end is that of the last member.

**Toolchain.** A command that unpacks has a verified archive and a tree of its
own that is a beginning of the whole (`Unpacked`), so only a whole tree is
renamed. While a command installs, the places it has looked at are still empty
(`Sought`): only installs create anything, and only at the install root of their
release, and that is why a success cannot be hidden by what others install
later: whoever installs the same release has found no other place taken.
`RootAssumption` is about the beginning; `RootAssumption` and
`ReleaseAssumption` (a version names one release) are evaluated by `sources`.

**Kernel.** Commands at work in one BSP at the same time are both in `beside`
(`Alone`), so nobody else has changed the BSP of a machine that is not. Of such
a machine `Reached` says at each place what its BSP is like: normalised; then,
as an update that has fallen short of a package has not recorded it, either
`recorded` differs from what is wanted or all of it is whole; after the checks,
recorded, wanted and whole, and after the last removal nothing else, so what
scons compiles is just that. The refinement of PublishedOnce is as for the
archive, without a lock: `Rename` is `Publish` when nothing is there and fails
otherwise, and only a finished clone is renamed.

**Root filesystems.** While a tree is staged, every file in it has a source that
has it with that content (`Accounted`), and the packages installed so far are in
it with all their files (`Holds`): a file that is there already is shared when it
is identical, and anything else stops the staging. `Alone` says of a smoke test
that nothing ran beside that its copy is the image it was asked for, and
`CopiesInUse` that a copy is there only while some test works with it, or was
`left` by one that was stopped or could not finish copying.

**Image sizes.** Sizes are computed from what was configured and what is staged,
and the rest is arithmetic: four times the content and 8 MiB more are enough for
the blocks and the inodes that files of a block or more take beside the journal,
with mke2fs's parameters on both sides of 512 MiB (`BlocksTaken`, `BlocksLeft`),
rounding to blocks only adds, and between a number and its double there is a power
of two (`PowerBetween`, up to `MaxSize` and by cases, as the provers know no
exponents but literals).

**Busybox.** As for package stages, the marker and the two stamps make claims
about what lies beside them that hold whether they match or not (`PreparedSays`,
`BuiltSays`): the prepared tree has the patches and settings of its stamp, the
installation those of its own, unless one of the doubts is named. `Current` ties
what a command at work has read to what the user has. For `SecondBuildSkips`, a
good build leaves marker and stamps that all match (`Hits`), and `calm` ends with
the next change.

**Menus.** `MachineIsWhole` needs the invariant that whatever may be read as the
configuration of a machine is its own (`FilesReadable`): each defconfig, the
workspace configuration for the machine it names unless it is `mixed`, and what a
command at work has read and will write (`SessionsRight`). A part of such a text
is one too; for what an overlaid write leaves (`Overlaid`, `Torn`) there is a
lemma each. In a defconfig both texts are of one machine; in the workspace
configuration the machine's name comes with the text at the start or not at all,
and the toolchain behind it may be another's, which is what `mixed` says. For
`SavedIsBuilt` the claim has to survive whatever reads and writes the workspace
configuration, which counts for the machine it names only. A machine of which
something is promised has a defconfig that says it, alone and with the workspace
configuration over it (`ChosenBuilt`), and both say it in full (`Legible`): else a
key that one of them leaves open would be decided by the other. While a command
writes for a machine nothing is promised of it (`WritesAlone`). A command is sure
as long as no other is at a machine it may write for (`SureAlone`): it finds the
defconfig empty that it has cut, and between its two writes what it wrote, and
`sure` counts only if the workspace configuration has its text alone; a menu
opened without a choice shows what is promised (`OpeningShows`), and what the menu
of a package reads before and after it is open says the same (`PackageKept`). What
a menu saves resolves to what it showed, key by key.

**Package source.** `CommandFine` says for each place of a command how far it is:
what lies beside the tree while it is unpacked (`Unpacked`), which patches are
applied and which saved files are put back (`Prepare`, `Restores`), and which files
of the menu are saved (`Saves`). While machines prepare the same source, each in a
tree of its own, they read the same saved files; a save beside them puts them among
the `disturbed`. `ChoiceSaved` says that what the last session chose is in each
of the saved files. Two of these may have one place in the tree; the last is put
back over the first. For a tree made anew this is what `SavedOver` says, with
the greatest index; of the tree in the repository, in which a menu is opened, only
that it has one of them (`PutBackUpTo`), which is enough, as a session saves
the same file to both.

**Buildroot import.** What is known of an owner holds of the registry and of the
owners that a job keeps alike (`Recorded`): it is the package of the symbol's name
or the one found from it, and it is there unless the user, or an import that was
to write it anew, has `removed` it. For
`DependsAreExact`, a job's packages are compared with what is there while others
are still written (`Exactly`): a package that comes later was found from a wanted
symbol, and what is wanted under its own name was kept anyhow. For
`UpdateReplacesImported`, the symbol from which a package was imported knows it
(`KnownRight`), between imports from the registry and during one from the job,
which writes the registry only at the end; hence the condition `kills = 0`. For
`NativeIsKept` it is the other way round: what the job takes for imported, the
registry has as imported, or the job has written it itself (`UserRight`).

**Only model-checked.** Liveness (`SortEnds`, `BuildEnds`, `CallsEnd`,
`ResolutionEnds`), which is outside what the prover handles. What a recursive
definition computes for all inputs is reached only where a least counterexample
refutes itself by a first-order argument, as in `IncrementalEqualsClean`: the
induction theorems of the library cannot be instantiated. `PlanIsReal` and
`StagesAreFresh` are about operators of that kind: TargetPlan computes a plan by
recursion over the packages' dependencies.


## 5. What the models show about the code

The exceptions that properties make are real, and what the code does there
follows. The first two entries are the findings of `PROJECT.json`, each with a
run that TLC finds violated. What needed more than a look is marked with the
history variable or operator that keeps it apart.

**Packages and plans**

- *A dependency that nothing provides is passed over.* `docs/packages/
  package-yaml.md:22` calls `depends` "required packages or capabilities", but
  `include` refuses an unknown name only if it was requested or selected
  (`package_resolver.py:39-42, 50`): `packages_depends` shows a selection
  accepted without it. `packages/micropython/package.yaml` (`depends: libc`) is
  such a package. `SelectionIsClosure` is stated accordingly.
- *A host dependency that is an executable is never found.* The dependency is
  on `package:<name>:build` (`tasks.py:916`), the task of an executable is
  `package:<name>:target-build` (`domains/package.py:602`), and the build is
  refused: `plan_host_tools`, against `docs/packages/package-yaml.md:23`.
- *Three ways to choose a provider.* When two selected packages provide one
  capability, the resolver means the first in path order
  (`package_resolver.py:74`), task dependencies the one selected first
  (`tasks.py:850`, over the reversed list), the dependency closure the one
  selected last (`tasks.py:924`). `Unambiguous` in TargetPlan leaves such
  selections out. Conflicts given by a capability are ignored by the resolver
  (146) and excluded by the generated Kconfig (`package_kconfig.py:147`).
- *A package that uses an indirect dependency* without naming it stays stale
  when only that changes: its inputs have the stages of direct dependencies
  (`tasks.py:967`), its executor reads those of the whole closure
  (`domains/package.py:1041`). `NamesWhatItUses` in TargetPlan, `Sealed` in Cache.
- `build package:<host package>` is refused, and a package that needs an app is
  refused as a target although an image with both is built; `graph` refuses a
  workspace with `ROOTFS=none` that the same defconfig passes.

**Caching and stages**

- *A failing task leaves its previous stamp* (`scheduler.py:106-116` removes
  nothing). Build, change an input, build again and have the task fail after it
  has written some of its outputs, take the change back: the old stamp matches,
  the paths exist, and the task is skipped over outputs it did not make
  (`tainted`). A build killed while executing, and an input edited while the task
  executes (the signature is taken afterwards, `cache.py:30`), are the same
  exception. Without an older stamp that parses, a failure or a kill is harmless.
  `docs/compatibility.md` says that the content of outputs is not checked on a
  hit, and `docs/troubleshooting.md:59` names `clean` as the remedy. Torn stamps
  are harmless, unreadable ones being misses.
- *Packages with declared directories* (Python, ament): a failed build that
  leaves an empty directory makes planning refuse the package, or leave it out
  of a root filesystem, until it is cleaned. Since the listing is part of their
  signature, they are executed a second time when nothing has changed.
- *An ament package's signature* has neither toolchain nor dependency stages,
  and its build directory is kept; `SkippedIsCurrent` excepts it. The static
  archive of a library is checked for no architecture, and nothing is where
  `readelf` is missing.
- *A SCons package's copy leaves out* every directory named `build` or
  `packages`, and every `.config`, `rtconfig.h` and `pkg_config.h`, at any depth
  (`rtthread_scons_package.py:493`), while `docs/packages/package-yaml.md:271`
  speaks of "local generated state"; the run has no such files (`Nested = {}`).
  Linkage is chosen at planning, packages are read at execution, so an edit in
  between builds a mixture (`disturbed`). A package that the index no longer
  has is dropped.

**Sources and downloads**

- *A bad archive stays.* A temporary file with a wrong checksum is not removed
  (`domains/package_sources.py:268`); later attempts resume it and fail until
  somebody removes it. It never becomes the archive. BusyBox's and the
  toolchain's archives with a wrong digest are refused for good as well.
- *`download-clean` during a download* removes the lock file, and two builds can
  then be at the temporary file together. Every attempt still ends.
- *Toolchain.* `TOOLCHAIN_PATH` comes before Env's SDK (`toolchain.py:479`,
  other than `docs/getting-started.md:33`); a candidate that is there and not
  valid hides the later ones; the loser of a race to the install path ends with
  an uncaught `OSError` (469); nothing looks for the headers.
- *Package source.* The saved configuration of a source of kind `directory`, and
  of the bootloader, is never put back; a session interrupted while saving
  leaves some files of either choice (`Forgotten`); a session beside a build of
  the same machine loses the choice (`disturbed`).

**Kernel, BusyBox, images**

- *Kernel.* Files removed from a machine's `kernel-overlay/` stay in the BSP. A
  selected package that the index does not know is dropped without a word. Two
  commands in one BSP at once are not excluded (`beside`).
- *BusyBox.* A `.config` left by a menu that failed after saving, or saved and
  then taken back, is built all the same; a failed build whose edit is taken
  back leaves half an installation under the old stamp; edits during the
  preparation end in its stamp (`doubt` has one name for each).
- *Sizes.* An expandable image has room for bytes, not for inodes: five thousand
  files of less than 1 KiB do not fit, nor, in one of 512 MiB or more, where an inode
  is made for each 16 KiB, many of less than 4 KiB on average, other than
  `docs/rootfs/rootfs-options.md:32` has it.
  Only the full root filesystem's image is rounded to the power of two that an
  SD card needs (`image.py:62`, `busybox.py:710`).
- *Smoke tests.* The image is copied before the `try` whose `finally` removes the
  copy (`qemu.py:149, 153-176`): a copy that fails, or is killed half done, stays
  in `images/` (`left`) until the next test of that image.
- *Images.* Those of other selections are removed one by one before a file that
  is not one of them stops the build. The zeros that `mke2fs` was to fill stay
  when it fails. Two smoke tests of one image share the name of the copy
  (`busy`). A smoke test passes on the banner alone (`docs/compatibility.md:60`).

**Configuration**

- *A profile picked in the menu selects nothing:* what is saved is always
  `ROOTFS_PACKAGE_MODE=manual` (`menuconfig.py:520`, other than
  `docs/packages/using-packages.md:29`), and a profile written by hand is turned
  into its list by opening the menu.
- *The menu works on the workspace configuration itself*, which counts before
  the defconfig: a menu that is killed leaves its choices in force, and one that
  is left without saving still saves. A kill between cutting and filling the
  defconfig makes it open as the default machine (`Unknown`).
- *Two menus at once,* for whichever machines, can cut the workspace configuration
  both before either fills it; each then writes from the start (`config.py:100`), and
  the end of the longer text stays behind the shorter one. A machine is then built
  with another's toolchain, if its own says none in what is left (`mixed`), or no
  command can read the file at all, until it is removed (`SavedIsBuilt`,
  `workspace = Unreadable`).
- Keys the menu does not own are dropped by `menuconfig` and kept by the menu of
  a package. Two commands for one machine at once lose one's choices. An edit of
  a defconfig is masked while the workspace names that machine.

**Buildroot import**

- *Never-import is asked for the symbol's name only* (`buildroot_import.py:247`):
  an option's symbol imports the package (`docs/commands.md:88`).
- *The registry is written at the end* (237): the packages of a killed import
  count as the user's, and `--update` passes them over (`kills = 0` in
  `UpdateReplacesImported`). It also outlives the directory it speaks of:
  `--update` removes a package the user wrote where an imported one had been
  (261; left out of `NativeIsKept`). A registry cut short makes all packages the
  user's.
- *An import that ends while it replaces a package,* by a kill or an error, between
  removing the directory and making it again (491-493), leaves nothing of it; its
  registry entry stays, and every later import without `--update` calls it an "existing
  smart-build package" (252; `removed`).
- A `package.yaml` cut short by a kill stops every command that reads packages.
  Dependencies whose symbol does not spell the package's name are missed when they
  come later, and so are those found from an option alone; failed and forbidden
  ones dangle.

**On the device**

- *An install that fails at the database,* in writing the status or the list
  (`ipkg.py:401-410`, called at 352-353), is not rolled back: all files are there and
  in no list (`debris`), until an install of the same package succeeds.
- A file that two packages have is removed with the first of them, also one
  that was there before (`taken`); an upgrade leaves the paths it no longer has
  (`debris`), and an upgrade with changed content always conflicts. A kill
  leaves torn files that conflict with every later attempt.

## 6. Not modelled

- *One build of a machine at a time*: nothing in the code excludes a second, and
  all of `build/<machine>/` would be shared. The models assume it.
- *What the tools do.* Compilers, CMake, scons, `pkgs`, curl, git, make, kconfig
  and QEMU are environment: they do what they are asked to, fail, or leave part
  of it. `Build` in Cache is a function: timestamps in outputs, network contents
  of uncached tasks and tool versions outside the signature are outside. A
  killed command is assumed to take its tools with it; `pkgs` is assumed never
  to record a package it left torn.
- *Texts*: command lines, generated Kconfig files, launcher scripts, quoting of
  values, YAML validation, messages, logs and the progress display
  (`progress.py`, `errors.py`). A refused description is simply not there.
- *Configuration and machines* is modelled in part: `descriptions.py` and the
  checks of `board.yaml` in `machines.py` are validation of single files.
- *A menu's writes*: a value cut in its middle (a line is there, in part and
  unreadable, or gone), kconfiglib's copy of the old file, what an unreadable file
  says besides, and orders of lines other than one for all texts.
- *Scheduler and build command* is modelled in part: the commands of `cli.py`
  that only print, and `plan_batches` (`scheduler.py:32-60`), which nothing
  calls, are left out.
- *Package resolution* is modelled in part: menu categories
  (`package_categories.py`) are layout, descriptions are any.
- *Buildroot import* is modelled in part: the clone of Buildroot, the locking of
  prompts in its `Config.in` files and the texts generated are left out.
- `doctor.py` only reports; boards, packages and applications are data.
- *Trees* in RootfsImage are files with contents; modes, owners and links in
  staged trees are left out, as are names that leave the tree.
- Outside the prover's reach: liveness and `ENABLED`, induction over data
  (section 4 has the exception), recursive operators. No module here declares one.

## 7. What is open

All components with state are covered, and all but TargetPlan have theorems. What
a proof would need there: `PlanIsReal` a closure that is characterised without
recursion, as `SelectionIsClosure` does it for the resolver, and `StagesAreFresh`
an order in which packages are made of their dependencies.
