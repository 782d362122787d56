# Specifications of robotpkg

robotpkg compiles and installs robotics software. It has three parts:

- an infrastructure of GNU make fragments (`mk/`), which fetches, builds and
  packages software from several thousand lines of declarations;
- the package tools `robotpkg_add`, `robotpkg_delete`, `robotpkg_admin`,
  `robotpkg_info` and `robotpkg_create` (`pkgtools/pkg_install/dist`), C
  programs that install binary packages in a prefix and keep a database of what
  is installed. The infrastructure installs what it builds with these tools;
- the package directories, with the patches robotpkg applies to the software it
  builds. A few of them change what a program does at run time.

This directory holds TLA+ specifications of the package tools, of the targets
of make whose interruption matters, of the order of versions and of the patches
with behaviour of their own; the TLC configurations that check them, and TLAPS
proofs about them.

## 1. Inventory

| Part | State | Operations | What is hard | What makes it correct |
|---|---|---|---|---|
| Package database (`pkg_install/dist/lib`) | one directory per package in `PKG_DBDIR` (`+CONTENTS`, `+REQUIRED_BY`, `+INSTALLED_INFO`, `+PRESERVE`, ...), `pkgdb.byfile.db`, the prefix | store, retrieve, remove; iterate; delete the files of a packing list | no transaction spans these files; nothing is locked | an owner of a file is installed; `+REQUIRED_BY` is the inverse of the dependencies |
| `robotpkg_add` | a stack of `pkg_do()` calls | install, update (`-u`), with dependencies | recursion, replacement by a subprocess, failure labels | a failure leaves no trace; dependents are never forgotten |
| `robotpkg_delete` | two lists of packages | order, recurse, new leaves, preserve, remove | order, `-f`, `-k`, `-A`, errors in the middle | dependents go first; what is needed stays |
| `robotpkg_admin` | none between runs | `rebuild`, `rebuild-tree`, `set`, `unset` | run after crashes, on an inconsistent database | repairs what it says it repairs |
| `robotpkg_info`, `robotpkg_create` | none | read; write one archive | formatting | - |
| Patterns and versions (`dewey.c`, `mk/internal/libdewey.awk`) | none | match, order, reduce | two implementations, integer width | they agree; a reduction loses and adds no version |
| Package targets (`mk/pkg`, `mk/package`) | archives, links, `pkg_summary`, stale marker | package, tarup, depackage; install, deinstall, replace | a failure or interruption anywhere, another version installed than the tree's | what was marked or came to its end is whole where it is published |
| `make update` (`mk/update`, `mk/clean.mk`) | the list of packages to reinstall, its copies | deinstall dependents, rebuild, resume | interruption and resume, a clean in between, a tree that changes | everything removed is on the list |
| Phases (`mk/extract`, `patch`, `configure`, `build`, `install`) | cookies in `WRKDIR` | one per phase | out-of-date cookies | - |
| Sets and bulk (`mk/sets`, `mk/bulk`) | logs, broken marks | order, build all, go on after failures | marks of earlier runs | nothing is built on a broken dependency |
| Fetch, checksum (`mk/fetch`, `mk/checksum`) | `DISTDIR` | try sites, verify | retries, partial files | only verified files are used |
| File watch of Fast DDS (`middleware/fastdds/patches`) | two descriptors, two threads, two queues | construct, watch, call back, destroy | threads blocked in the kernel, merged events | no change the system tells of is lost; it ends when told to |
| ROS 2 nodes (`devel/ros2-rcl`, `ros2-rcpputils`, `middleware/ros2-rmw` patches) | the locale of the process and of each thread | parse a number; validate a name, name a thread | locales changed under a parser | numbers do not depend on the locale |
| Options, alternatives, system packages | none (evaluated by make) | - | - | - |
| `robotpkg_chk`, bootstrap, other package directories, vendored code | - | - | - | - |

The parts interact through the database and the prefix. `robotpkg_add` calls
itself for a dependency (`pkg_do()` is recursive) and runs `robotpkg_delete` as
a subprocess for the version it replaces. `make update` and `make package` call
the tools; what they rely on of them is the abstract specification
`PackageSet`. make reduces the requirements on a package with `libdewey.awk`
and the tools match the result with `dewey.c`. `PROJECT.json` lists every
component with its status, and the hazards with the line where each one bites.

## 2. Modules

| Module | Models | How |
|---|---|---|
| `PackageSet` | what the tools promise | a set of installed packages that have what they depend on, except those a tool no longer vouches for |
| `PkgDb` | the database and the prefix | `pkgdir`, `contents`, `requiredBy`, `automatic`, `preserve` are the record directories and the files in them; `byfile` is `pkgdb.byfile.db`; `disk` says whose version of a file is in the prefix. `DeletePackage`, `RemoveDepends` and `RemoveDirectory` are the library routines two programs use. |
| `PkgAdd` | `robotpkg_add` | `task` is the running call of `pkg_do()`, with the label it has reached in `pc`; `callers` is the call stack; `ret` is the value just returned. One action per call that writes, and one per failure of it. |
| `PkgDelete` | `robotpkg_delete` | `pkgs` and `sorted` are the lists of `sort_and_recurse()`; one action per list operation and per write. |
| `PkgAdmin` | `robotpkg_admin` | the loops of `rebuild` and `rebuild-tree`, one action per package visited; `set` and `unset`. |
| `PkgTools` | all three on one database | a user starts one program after the other with any option set; `Crash` interrupts the running one. The properties are here. |
| `PkgImplements` | the refinement | `PkgTools` implements `PackageSet` |
| `MakeUpdate` | `make update`, `make clean` | on `PackageSet`: `list`, `old` and `saved` are `_UPDATE_LIST`, its copy and `${WRKDIR}~update-list`; `upc` is the step make is at, `todo` the lines it has still to write or read |
| `MakePackage` | `make package`, `tarup`, `depackage` | `archive`, `links`, `summary`, `backup` are the repository; `stale` the markers; one action per command that writes |
| `Dewey` | `mkversion()` and `vtest()`, in C and in awk | operators on sequences of components; C integers wrap beyond `IntMax` |
| `Reduce` | `reduce()` of `libdewey.awk` | one step per requirement, for any order of versions |
| `Versions` | the two together | `Reduce` with the order of `Dewey` (`AwkLeq`); the properties that compare C with awk |
| `FileWatch` | the file watch of Fast DDS | `owner`, `watcher` and `caller` say where the three threads are; `pending`, `parsed`, `queue` are the events on their way; `exists` and `directory` are what is watched |
| `RosNode` | the patched parsing of numbers of ROS 2 | threads that parse while the application changes `global` and `own` locales |
| `PkgInv` | | the inductive invariant of `PkgTools` |
| `PkgProofs` | | theorems of `PkgTools`: types and control, the file index, `+REQUIRED_BY`, the order of removals |
| `PkgInstalled` | | theorems about the packages installed to their end: their dependencies, conflicts and marks, and what `robotpkg_admin` rebuilds |
| `PkgPromises` | | theorems about runs that are not interrupted: the refinement, what is left at rest, whose files are in place |
| `VersionsProofs`, `MakeUpdateProofs`, `MakePackageProofs`, `FileWatchProofs`, `RosNodeProofs` | | theorems of the module they are named after (of `Reduce`, too, in the first) |
| `MCPkgTools`, `MCMakeUpdate`, `MCMakePackage`, `MCVersions`, `MCFileWatch`, `MCRosNode` | | the instances for TLC |

`PkgTools` extends the three programs, which extend `PkgDb`: they share its
variables and each has its own for its control state. When `robotpkg_add` runs
`robotpkg_delete` on the version it replaces, the subprocess gets one package
and no options, so it is modelled inside `PkgAdd` by the same library
operations (`DeleteOldFiles`, `DeleteOldDepends`, `DeleteOldDirectory`).
`MakeUpdate` composes with the tools through `PackageSet`: its packages come
and go by `Db!Install` and `Db!Remove`, with the promise the refinement shows
the tools to keep when nothing is forced.

The variants next to some definitions (`DeletePackageKeepsIndex`,
`ToListInstalled`, ...) are plausible mistakes in the definition that follows;
no action uses them. Each shows that a property notices the mistake.

### Abstractions: the package tools

- Packages, patterns and files are values; `Matches[d]` is the set of names
  `pkg_match()` accepts, `Rank` the dewey order within a base name. The
  archives are constants: `Deps`, `Conflicts`, `Files`, `Preserved`.
- `+REQUIRED_BY` is a set of lines. The code appends without looking for a line
  that is there, and `remove_line()` removes all equal lines, so multiplicity
  is never observed.
- `pkg_do()` up to its first write is one action (`CheckPasses`,
  `CheckRefuses`, `CheckAborts`): it only reads, and no other program runs.
- `delete_package()` is one step, and `remove_files()` is one step, except when
  interrupted: the `Crash` actions leave any part of their effect.
- Any write may fail under the fault `"io"`: those of `robotpkg_add`, and with
  `"io"` in `DeleteFaults` the rewriting of a `+REQUIRED_BY` file by
  `robotpkg_delete`. The removal of files and directories (`unlink()`,
  `rmdir()`) does not fail, nor do the writes of `robotpkg_admin`.
- `done`, `orphaned`, `stale` and `uncleared` are auxiliary: what has been
  installed to the end; what is known to have lost a `+REQUIRED_BY` line; what
  was removed while `remove_line()` failed on a line that names it, which stays
  (`delete/pkg_delete.c:603-613` does not look at the result); and what has an
  automatic mark that could not be cleared (`add/perform.c:424` ends well all the
  same).
- `DependenciesAcyclic` is an assumption on the packages. The code has the
  comment "check cyclic dependencies?" in `install_depend_pkg()` and does not
  check; on a cycle it would call itself forever.
- Each PLIST file has a checksum, as `robotpkg_create` writes it, so
  `delete_package()` leaves a file whose contents are not the package's.
- Archives carry no `+INSTALLED_INFO` (`robotpkg_create` writes none), so
  `start_replacing()` always moves the old one.

### Abstractions: make

- A file of lines is a set; `Absent` is a file that is not there. The order of
  the list is that of dependencies, which `NextLine` respects.
- `owed`, `dropped` and `built` are auxiliary: the directories whose package an
  update has removed and not installed again, those of them make has given up
  by removing the list, and the version of the updated package each of its
  users was built with. A `clean
  confirm` cancels the update, so it clears the first two.
- Which targets `make update` has depends on files that exist when make reads
  the makefiles, so `Update` fixes them at the start (`deinstall`).
- `MakePackage` tells the version in the tree (`current`) from the installed
  one, which differ after `Pull`, and lets archives be partial. The writing of a
  summary may fail, which ends the command under `set -e`, and make may be
  interrupted anywhere; the removal and the renaming of a file do not fail. The
  repository and each directory of links has a summary, rewritten in turn by the
  same commands: that of the repository is modelled, and the failure of another
  one ends the command where it would.
- `unguarded` and `torn` are auxiliary: the versions make works on without a
  marker of theirs (`make depackage` makes none, `make tarup` makes one of the
  tree's version, which may be another), or broke off over; and whether a
  rewriting of the summary has broken off, and another has followed it.
- Lock targets (`acquire-lock`) do nothing (`mk/internal/locking.mk:29-30`), so
  no action stands for them.

### Abstractions: versions

A version is the sequence of the components it is read as; how the text is cut
into them is the same in both programs but for the letters, below. `IntMax` is
the largest int.

### Abstractions: the patches

- `FileWatch`: both systems are given one path, that of the directory of the
  file: the events the code reads on Linux have a name (`event->len`), which only
  those of a directory have. inotify has an event for each file of it that is
  created, deleted or modified, and removes its watch when the directory goes; a
  kqueue notes that the directory is written when a file of it comes or goes, and
  nothing when the contents of one change. It holds one event, whose notes
  accumulate until it is read (`EV_CLEAR`). `inotify_rm_watch()` queues one last
  event that reports nothing. Renames are left out: the mask of the code does
  not ask for them. So is the `stat()` of the file between the read and the
  parsing: no line of the patch uses the answer. The lines of the class the patch
  does not show are external: the promise, the start of the threads and the
  callback thread.
- `RosNode`: characters are numbers, and `Taken` says how many of them
  `strtod(3)` takes in a locale whose radix character is a dot or a comma.

## 3. Properties

`PkgTools`:

- `OwnerInstalled`: an entry of the file index names an installed package that
  lists the file.
- `RequiredByJustified`: a `+REQUIRED_BY` line names a package that has a pattern
  for this one, by which `remove_depend()` finds lines, and that is installed or
  `stale`: nothing but a failure of `remove_line()` leaves a line of what is gone.
- `DependencyRecorded`: a package installed to the end has all dependencies
  installed and is filed with them, unless it is `orphaned`.
- `FilesIntact`: the files of a package installed to the end are its own.
- `DependentsFirst`: no package that is still in the database is filed as
  requiring one whose files are being deleted, whatever lines are left of others.
- `NoConflict`, `AtRestClean`: see the comments there.
- Of steps: `PreservedKept`; `ExplicitIsManual`, what is asked for by name is
  not marked automatic, unless it replaces a version, whose mark it takes over,
  or the mark it had could not be cleared;
  `TreeRebuilt` and `IndexRebuilt`, what a rebuild that is not itself interrupted
  leaves. Liveness: `Terminates`.
- `ImplementsPackageSet` (`PkgImplements`): every step of the tools is a step of
  `PackageSet` or none. `installed` is `done`; a package is cut off when it is
  `orphaned`, when the version it needs is being replaced and its line moves
  with the version, or when `-f` removes what it needs; the tools are careful
  while `robotpkg_delete` runs without `-f`, and then may cut nothing off.

The others:

- `MakeUpdate`: `RemovedListed`, what an update removed and has not reinstalled
  is on the list the next run reads; `BuiltWithInstalled`, nothing stays
  installed that was built with another version of the package.
- `MakePackage`: `UnmarkedWhole`, what is published without a marker is whole,
  but for the versions in `unguarded`; `SuccessPublished` and
  `FailureWithdrawn`, a success has published what is installed, and a failure
  that was marked takes it back; `OthersKept`, the other packages stay listed
  where the next rewriting reads them, and in the copy when one has broken off.
- `Reduce`: `ReduceExact`, the reduced pattern matches what all requirements
  match; `GivesUpOnTwo`, nothing is given up but for two versions put apart.
- `Versions`: `AwkAgrees`, C and awk order versions alike; `LettersAsNumbers`, a
  letter sorts in the place of its number; `ReleaseOrder`, versions before a
  release come before it in their order.
- `FileWatch`: `DescriptorInUse`, `NoFileLeft`; `NoChangeLost`, what the system
  tells of reaches the callback: on NetBSD that the file comes or goes, not that
  its contents change; `LastReportTrue`, the last report is of a removal if what
  that means is gone: the file, on NetBSD the directory, for there the file's own
  removal is reported as a modification. Liveness: `ChangeReported`,
  `DestroyEnds`.
- `RosNode`: `LocaleIndependent`, `LocaleRestored`.

Each module has one type invariant, `TypeOK`. All are proved (section 5); the
runs check those of `FileWatch` and `RosNode`, where the types say most: reports
are made by a recursion over batches of events, and texts are sequences of
characters.

## 4. Runs

The state spaces are finite and TLC explores them whole, so a run covers every
sequence of steps, of any length, within its bounds.

| Run | Asks | States |
|---|---|---|
| `faults` | the package tools with scripts and writes that fail; the refinement | 1,052,172 |
| `crash` | interruptions between any two writes; lines that stay in `+REQUIRED_BY` files | 1,949,814 |
| `torn` | interruptions that leave a directory with part of its files; lines that stay | 1,320,524 |
| `forced` | `-f`, `-ff`, `-N`, `-k`, `-D`; preserved packages; `@pkgcfl`; `rebuild-tree`; `Terminates` | 354,143 |
| `versions` | 52 versions, up to three requirements out of 42 | 14,003 |
| `package` | two versions of the package, one other package | 586,846 |
| `update` | a library of two versions, an application, its plugin and a tool the plugin needs; two changes of the tree | 770,794 |
| `filewatch` | both platforms, three changes of the file | 16,360 |
| `rosnode` | two threads, three builds | 1,844 |

Bounds, and why they are enough:

- Package tools: `lib1` and `lib2` are versions of one library, `app` needs
  either, `tool` needs the first one, `plug` needs `app`, `tool` and `plug` ship
  the same file, and `demo` needs the library and what no archive exists of.
  That gives a chain of three, a pattern an update breaks and one it does not, a
  file conflict, new leaves at two depths and an installation that fails after
  its first dependency. The runs with crashes use `lib1`, `lib2` and `app`
  only: an interruption concerns one package, the version it replaces and one
  dependent. Lines that a failed `remove_line()` leaves are those of `app`, which
  has one version: they are left by `robotpkg_delete` (`crash`, `torn`), and it is
  the theorems that cover the one `robotpkg_add -u` runs. No counter is bounded.
- `update`: a dependent of a dependent is needed for the order of removal and of
  installation, and one that needs another package for a dependency missing
  when it is installed again; `MaxPulls = 2` lets the package change and a directory go, or
  the package change twice while an update is unfinished.
- `package`: `MaxVersion = 2`, the version in the tree and an earlier one that is
  installed: a run of make is about no other. The proofs are for any number.
- `versions`: an int of six bits, and heads up to `IntMax - 3`, the largest
  number whose difference with alpha is still an int. Three requirements are
  two bounds and one that replaces either.
- `filewatch`: `MaxChanges = 3` is a change before, during and after a read.
- `rosnode`: a second thread and the application interfere; a third would
  repeat the second.

Deadlock is checked except in `versions`, which ends after the last
requirement, and in `filewatch`, where a destroyed watch does nothing more.

Fairness. `PkgTools!FairSpec` assumes weak fairness of `Tools`, the steps of the
running program: it is a sequential process the system schedules. Nothing is
assumed of the user or of failures. `FileWatch!FairSpec` assumes weak fairness
of the owner's steps (not of the call of `destroy()`), of the watch thread's
and of the callback thread's, and strong fairness of `Read`: a read that has
something to return is not interrupted every time. A read that has nothing to
return need never be interrupted.

### Where the documentation and the code differ

Each of these runs checks one sentence of a manual page or comment and ends
with a counterexample. `PROJECT.json` quotes the sentence.

| Run | What happens |
|---|---|
| `lost_dependents` | `-u` moves `+REQUIRED_BY` to the new version and then fails: the file goes with the new directory. `robotpkg_delete` later removes a package that is needed. |
| `late_overlap` | The file list is compared before the dependencies are installed; a dependency that owns the file is not noticed. |
| `update_stale_list` | An update is resumed when the package is up to date: the list is not made again, and a package that depends on it since is removed and not reinstalled. |

More were met and have no run of their own.

- `-f` does not get past a dependency that cannot be found: the second loop of
  `check_dependencies()` (`add/perform.c:1284`) returns -1 for it, forced or
  not. The manual says of `-f` "a failure to find one will not be fatal"
  (`add/pkg_add.1:130-133`). Nor does it get past an install script that fails
  (`add/pkg_add.1:128`; `add/perform.c:1648`).
- `-u` over a directory without `+CONTENTS`, left by an interruption, takes the
  package for its own older version (`add/perform.c:454`), and
  `robotpkg_delete` removes the record just written.
- `robotpkg_admin rebuild`, "only intended for recovery after system crashes"
  (`admin/pkg_admin.1:259-263`), gives up at such a directory after it has
  unlinked the index (`admin/main.c:177`).
- `robotpkg_delete -k -R` keeps a preserved package and removes what only that
  package required, because `find_preserve_pkgs()` runs after
  `find_new_leaves()`.
- An update asked for without `-A` keeps the automatic mark of the old version
  (`add/pkg_add.1:113`; `add/perform.c:1337`).
- A letter in a version counts from 0 in awk and without a dot, from 1 and after
  a dot in C, which is what `pkg_info.1:322-326` says; and `r` without digits is
  a revision in C and a letter in awk. make may find a version to satisfy a
  requirement the tools refuse.
- If the marker cannot be made, `make package` ends well with nothing made:
  `do-package-failsafe` ends in `|| true` and `package-failed` only looks for
  the marker (`mk/package/package.mk:130-150`).
- A crash or a failure between the rename of `pkg_summary` and the end of its
  rewriting loses entries of other packages: the next run starts from what was
  written, or from an empty summary, and overwrites the copy that had them
  (`mk/pkg/package.mk:229-245`). A failing rewriting is followed at once by that
  of `package-failed`.
- `make depackage` makes no marker: interrupted after it has removed the archive,
  it leaves its link and its entry (`mk/pkg/package.mk:185-205`). `make tarup` of
  an installed version that is not the tree's marks the tree's: its own partial
  archive has no marker (`mk/package/package.mk:135-139`).
- `robotpkg_delete` removes a package though its lines in `+REQUIRED_BY` files
  could not be taken out (`delete/pkg_delete.c:603-613`): until `rebuild-tree`
  what it depended on is required by a package that is gone.
- A crash between the truncation of an update's list and its last line is made
  up for by no later run: the copy with suffix `.old` is there, but is
  overwritten by the copy of what was written (`mk/update/update.mk:235-236`).
- `make clean` removes `${WRKDIR}~uplist` before it moves the list to
  `${WRKDIR}~update-list` (`mk/clean.mk:149-150`): the first name is used
  nowhere else.
- On NetBSD the file watch opens the directory, so no change of the contents of
  the file is ever reported, and its creation and removal are reported as
  modifications (lines 76-83 and 126-134 of the patch).
- On NetBSD nothing wakes the thread blocked in `kevent()`, so the destructor of
  a file watch waits until a file of the directory comes or goes; on Linux it
  waits for ever once the directory has gone, and with it the watch whose removal
  would wake the thread. The kqueue is never closed; and a constructor that
  throws leaves its event descriptor open on both platforms.

The passing runs are set up around these: `orphaned`, `stale` and `uncleared` name
the packages the first finding and the failing writes are about; `faults` updates
with `-A` only and has no `-k`, and those of its packages that share a file do not
depend on each other; `dropped` names the directories `update_stale_list` is about;
`unguarded` and `torn` name what `make package` has no marker of and what a
rewriting lost; `update` has no fault `"tear"`, `package` none `"repository"`;
`AwkAgrees` leaves letters and components at the edge of an int out; `DestroyEnds`
asks for a pending event on NetBSD, and on Linux when the directory has gone.

## 5. Proofs

All theorems hold for every value of the constants that satisfies the
assumptions of the module; a theorem that needs more states it as a hypothesis.

| Theorem | Shows | Hypotheses |
|---|---|---|
| `PkgProofs`: `TypeCorrect`, `ControlCorrect` | `[]TypeOK`, `[]ControlInv` | |
| `OwnerCorrect` | `[]OwnerInstalled` | `NoTorn` |
| `RequiredCorrect` | `[]RequiredByJustified` | `NoTorn`, `NoForcedCheck` |
| `DependentsFirstCorrect` | `[]DependentsFirst` | `NoTorn`, `NoForcedCheck`, `NoSkipping` |
| `PkgInstalled`: `TreeRebuiltCorrect`, `IndexRebuiltCorrect` | `TreeRebuilt`, `IndexRebuilt` | `NoTorn` |
| `PreservedKeptCorrect`, `ExplicitIsManualCorrect` | `PreservedKept`, `ExplicitIsManual` | `NoTorn` |
| `DependencyRecordedCorrect` | `[]DependencyRecorded` | `NoTorn`, `NoForcedCheck`, `NoSkipping` |
| `NoConflictCorrect` | `[]NoConflict` | `NoTorn`, `NoLateConflict` |
| `PkgPromises`: `ImplementsCorrect` | `ImplementsPackageSet` | `NoCrash`, `NoForcedCheck`, `NoSkipping` |
| `AtRestCleanCorrect` | `[]AtRestClean` | `NoCrash`, `NoUnregistering` |
| `FilesIntactCorrect` | `[]FilesIntact` | `NoCrash`, `NoForcedAdd`, `NoLateOverlap` |
| `VersionsProofs`: `TypeCorrect`, `ReduceCorrect`, `GivesUpCorrect` | `[]TypeOK`, `[]ReduceExact`, `[]GivesUpOnTwo` | |
| `AwkOrders` | `AwkLeq` is total and transitive | |
| `AgreesCorrect`, `LettersCorrect`, `ReleaseCorrect` | `[]AwkAgrees`, `[]LettersAsNumbers`, `[]ReleaseOrder` | |
| `MakePackageProofs`: `TypeCorrect`, `UnmarkedCorrect`, `OthersCorrect`, `FailureCorrect` | `[]TypeOK`, `[]UnmarkedWhole`, `[]OthersKept`, `FailureWithdrawn` | |
| `SuccessCorrect` | `SuccessPublished` | `"repository" \notin Faults` |
| `MakeUpdateProofs`: `TypeCorrect` | `[]TypeOK` | |
| `ListCorrect` | `[]RemovedListed` | `"tear" \notin Faults` |
| `BuiltCorrect` | `[]BuiltWithInstalled` | `OneProvider` |
| `FileWatchProofs`: `TypeCorrect`, `DescriptorCorrect`, `FileCorrect` | `[]TypeOK`, `[]DescriptorInUse`, `[]NoFileLeft` | |
| `ChangeKept`, `LastReportCorrect` | `[]NoChangeLost`, `[]LastReportTrue` | |
| `RosNodeProofs`: `TypeCorrect`, `LocaleIndependentCorrect`, `LocaleRestoredCorrect` | `[]TypeOK`, `[]LocaleIndependent`, `LocaleRestored` | |

So every safety property that a passing run checks is a theorem. The hypotheses,
and why they are needed:

- `NoTorn`: no interruption leaves a directory without `+CONTENTS`
  (`"torn" \notin Faults`). Such a directory leads `-u` and `rebuild` to what
  section 4 lists. The run `torn` checks what holds even so, without `-u`.
- `NoCrash`: no interruption at all. One leaves a package half installed, which
  is what `AtRestClean` denies; and to `PackageSet` an interrupted update is a
  removal of what is still needed.
- `NoForcedCheck`: `robotpkg_add` is given neither `-D` nor `-f`, which keep
  dependents filed with a version that their patterns do not match.
- `NoSkipping`: `robotpkg_delete` is not given `-k`, which drops a preserved
  dependent from the list and then removes what it depends on.
- `NoUnregistering`: nor `-N`, which leaves the files of what it removes.
- `NoForcedAdd`: `robotpkg_add` is not given `-f`, which overwrites the files of
  other packages.
- `NoLateOverlap`, `NoLateConflict`: no package shares a file with, or excludes,
  one that may be installed while its own installation waits, in the set
  `Under[p]` that holds its dependencies and theirs. The checks are made before
  the dependencies are installed: the run `late_overlap` is the counterexample
  for files, and conflicts are checked at the same point.
- `"tear"`: a list of an update whose writing is torn loses what it had not
  written yet; `"repository"`: if the marker cannot be made, `make package` ends
  well with nothing made. Section 4 says so of both.
- `OneProvider`: the packages that match one requirement are made in one
  directory, the `DEPEND_DIR` of `mk/depends/resolve.mk`. Otherwise one may take
  the place of the package that is updated, and keep a user of it installed.

### The package tools

The inductive invariant is in `PkgInv`, in layers, each proved from those above
it:

- `ControlInv`: one program works on the database at a time; calls that wait do
  so in `check_dependencies()`; the task of a call refers to dependencies and
  files of its package only; a call that is replacing knows what it replaces.
  The types are not inductive without it: `MoveRequiredBy` writes a function on
  packages only if the version moved from is one, and `remove_pkg()` has a
  package to remove only if `sorted` is not empty.
- `StackInv`: levels fall along the call stack, so a call never works on a
  package a caller has begun, nor on one a caller replaces, which has the level
  of its newer version. It rests on `DependenciesAcyclic`.
- `DirsInv`: at most the directory of the running call has no `+CONTENTS`, and
  only while it is written or about to be removed. So a version to be replaced
  is not the package itself.
- `OwnerInv`: a call that has stored nothing yet, or has taken its files back,
  has no entry in the index; so removing its directory loses no owner. A call
  past `write_meta_data()` has its `+CONTENTS`; so it may store entries. The
  frame lemma `AddStepFrame` says that no step of a call disturbs this for the
  calls that wait.
- `RequiredInv`: the package of a call is filed nowhere until it registers; the
  dependents of a version being replaced accept the new one until their lines
  have moved; a package that is not installed has no lines, and is named by none
  unless it is `stale`; what `rebuild-tree` has computed stays true while it
  writes.
- `OrderInv`: a package in `sorted` is required only by packages before it, of
  those in the database. The first leaves the list when it leaves the database,
  so the order holds for the rest.
- `DoneInv`: a package of a call that has not registered, or that is being
  removed, is not one installed to its end, and those are all in the database.
- `RecordedInv`: `check_dependencies()` has found what the call will register
  with (`DependenciesFound`), and nothing takes that away before it does; the
  dependents of a version being replaced are served as well by the new one
  (`ReplacementFits`). `DependencyRecorded` alone is not inductive: the step
  that makes it true of a package is the last of a call, and what that step
  relies on was found many steps, and the installation of other packages, ago.
- `AdminInv`: what `rebuild-tree` has computed, and which of the files it has
  emptied or written; what `rebuild` has indexed.
- `PreserveInv`: what is about to be removed is not preserved, or may be.
- `ManualInv`: the call for the package the user named, at the bottom of the
  stack, is not automatic without `-A`.
- `UnderInv` and `ConflictInv`: a call that waits may have anything in `Under`
  installed meanwhile, and nothing else; what is installed does not clash with
  the package of a call that has been checked.
- `PresentInv`: without interruptions, a directory is of a package installed to
  its end, of a call, or of a removal. With it every action of the tools is a
  step of `PackageSet` or none: `ImplementsCorrect` takes them one by one.
- `DiskInv` and `FilesInv`: a file in place is of a package that lists it and
  that is installed or being installed; a call knows which of its files are
  written; no package installed lists a file of a call that has been checked.

To see TLC confirm a layer before its proof, or after a change of the code, add
`TypeOK`, `ControlInv`, `StackInv`, `DirsInv`, `OwnerInv`, `RequiredInv`,
`OrderInv`, `DoneInv`, `RecordedInv`, `AdminInv`, `PreserveInv` or `ManualInv` to
the `INVARIANTS` of `MCPkgTools_faults.cfg` or `MCPkgTools_crash.cfg`, and
`PresentInv`, `DiskInv`, `FilesInv` or `ConflictInv` to those of the former.

### The other modules

Each has its inductive invariant, `IInv` (`DInv` and more in
`FileWatchProofs`), at the head of its proof module.

- `VersionsProofs`: `mkversion()` is a recursion over components, in C and in
  awk, and so is the spelling of letters as numbers. `ResultMore` says of the
  three at once that the recursion is well defined and goes one component
  further; what it yields follows by induction over sequences. Two versions
  without letters are read alike, as vectors whose differences are ints
  (`Moderate`), so that the comparison in C does not wrap. `AwkOrders` shows the
  assumption of `Reduce` on the order to hold for the one make uses. For
  `ReduceExact`: after each requirement the upper bound matches what all upper
  bounds read so far match, the lower one likewise, and so does the version put
  apart; `==` is one of each. The proof of a step is about the order alone: of
  two upper bounds one implies the other.
- `MakePackageProofs`: what is installed is never newer than the tree, and
  nothing in the repository is of a version the tree has not had (`FutureClean`)
  or that another installed version has kept from being packaged
  (`MismatchClean`); from the marker on, make works on a marked version
  (`Marked`), or on one in `unguarded` (`Guarded`); while the summary is being
  rewritten the backup has its entries (`OneSummary`). For `SuccessPublished`, what make has made so far on its way to
  a success is there (`Published`).
- `MakeUpdateProofs`: what must be on the list is followed through the copy
  (`Copied`), the loop that writes (`UsersListed`: what is about to be removed is
  on the list already), the loop that reads (`LinesDone`) and a clean (`Moved`).
  `Users` is the least set closed under "depends on", so that the lemma it needs
  (fewer packages have fewer users) is one about closed sets. For
  `BuiltWithInstalled`: the updated package is installed in one version, the
  tree's while packages are built (`OneVersion`), and what was built with it uses
  it still (`BuiltByUsers`), so is removed with it.
- `FileWatchProofs`: descriptors are open as the owner has got to
  (`FolderOpen`, `WatchOpen`), and the watch thread has ended when they are
  closed (`Alive`). What becomes of a batch of inotify events is a recursion
  over the batch (`ReportsOfBatch`); `BatchTells` says what it yields: some
  report unless no event is about the file, and the last one true unless it says
  nothing of the last removal. With that `ReportInv` follows each change from the
  kernel to the callback, and says that the last thing the events on their way,
  or else the last report (`LastTold`), say of the file is whether it is there; on NetBSD, of
  the directory.
- `RosNodeProofs`: a thread that converts with `uselocale(3)` is in the C locale
  from the call that sets it to the one that restores it, whatever the
  application does meanwhile (`LocaleInv`).

Induction over data is by sets: `OverNumbers` and `OverSequences`
(`VersionsProofs`) say that a set with 0, or the empty sequence, that holds with
every element the next one holds them all. They come from `LeastNat`, which is
first-order where the library's induction theorems take an operator.

Left to TLC: `Terminates`, `ChangeReported` and `DestroyEnds`, since liveness is
outside the prover's reach; the violations of section 4; and what the runs show
under faults or options that the hypotheses above leave out: in `torn`,
`OwnerInstalled`, `RequiredByJustified` and `DependencyRecorded` when a directory
has no `+CONTENTS`. Those three hold there only without `-u`, so as theorems
they would need an invariant of their own, of `robotpkg_add` without it.

## 6. Not modelled

- Package tools: `-U` of `robotpkg_add` (replace a package by itself), `-n`,
  `-R`, `-x`, `-I`, the checks of platform, licence, signature and
  vulnerabilities; `-O`, `-F`, `-D`, `-p`, `-P` of `robotpkg_delete`; `@pkgdir`
  reference counts, `@exec` and `@unexec`; two tools at the same time.
- Versions: names, globs, alternatives and options in patterns; modifiers in
  upper case, which only C accepts; `reduce()` over several names.
- `make update` with `UPDATE_TARGET=replace`, and the check of recursion;
  `make replace`, `deinstall`, the deb format.
- The phases of a build and their cookies, dependency resolution, sets, bulk
  builds, fetch and checksum: their control is make's own, evaluated from
  declarations, around external programs; what they share with the modelled
  targets is the marker and the list.
- Failures to remove a file or a directory, and in the repository to rename one.
- The patches of `rmw` (a guard on the first character of a node name and on that
  after a slash of a topic name) and of `rcpputils` (the call that names a
  thread): one condition or one call each, without state.
- The other patches, and `bsd.hpp`: casts, includes and template
  specialisations without state.

## 7. Plan

1. The package tools on one database, and the abstract specification they
   implement (done).
2. `make update` and `make package` with interruption, on the abstract
   specification (done); the order of versions and the reduction of
   requirements, C against awk (done).
3. The patches that change behaviour (done).
4. The proofs of every safety property the runs check, and of the refinement
   (done).
5. Torn directories in the proofs: the invariant of the tools without `-u`.
6. `-U`, `mk/pkg/replace.mk`, and two tools at the same time on a database
   without locks.
7. `mk/bulk/bulk.mk`: broken marks, with the marker of `MakePackage`; the
   topological sort of `mk/sets/tsort-set.awk`.
