------------------------------- MODULE MakeUpdate ------------------------------
(****************************************************************************)
(* `make update' in the directory Self of one package, and `make clean'     *)
(* there (mk/update/update.mk, mk/clean.mk), on the set of packages that    *)
(* the package tools maintain (PackageSet).  The update removes the package *)
(* and all that depend on it, and reinstalls what is written in a list in   *)
(* WRKDIR, which is all a second run knows if the first one did not end.    *)
(*                                                                          *)
(* A file of lines is the set of the directories on its lines, or Absent.   *)
(* Its order is that of dependencies; the loop over it follows it.          *)
(****************************************************************************)
EXTENDS Naturals

CONSTANTS
    Package, Pattern, Matches, Deps,    \* as in PackageSet
    Dir,        \* the directories of ROBOTPKG_DIR
    DirOf,      \* DirOf[p]: the directory p is made in; one package is made
                \* in each, Self apart
    Self,
    Absent,
    UpdateClean,\* UPDATE_CLEAN
    Faults,     \* of "build", "script", "cleaner", "crash"; "tear": a crash
                \* while the list is written or moved
    MaxPulls    \* how many times ROBOTPKG_DIR changes: bounds the run

ASSUME MakeUpdateAssumption ==
    /\ Self \in Dir /\ DirOf \in [Package -> Dir]
    /\ \A p, q \in Package : DirOf[p] = DirOf[q] /\ DirOf[p] # Self => p = q
    /\ \A S \in SUBSET Dir : Absent # S
    /\ UpdateClean \in BOOLEAN
    /\ Faults \subseteq {"build", "script", "cleaner", "crash", "tear"}
    /\ MaxPulls \in Nat

VARIABLES
    installed,
    current,    \* PKGNAME: the version of the package in Self
    moved,      \* the directories that are gone from ROBOTPKG_DIR
    pulls,
    list, old,  \* _UPDATE_LIST and its copy with suffix .old
    saved,      \* ${WRKDIR}~update-list
    upc,        \* what make is doing
    todo,       \* the lines it has still to write or to read
    deinstall,  \* update-deinstall-dlist is one of the targets
    owed,       \* auxiliary: directories whose package an update has removed
                \* and not installed again
    dropped,    \* auxiliary: those of them on a list make has given up
    built       \* auxiliary: the versions of Self a package was built with

vars == <<installed, current, moved, pulls, list, old, saved, upc, todo,
          deinstall, owed, dropped, built>>

tree == <<current, moved, pulls>>
packages == <<installed, owed, dropped, built>>

Versions == {p \in Package : DirOf[p] = Self}

Db == INSTANCE PackageSet WITH cutoff <- {}, careful <- TRUE

TypeOK ==
    /\ installed \subseteq Package
    /\ current \in Versions
    /\ moved \subseteq Dir \ {Self}
    /\ pulls \in 0..MaxPulls
    /\ list \in {Absent} \cup SUBSET Dir
    /\ old \in {Absent} \cup SUBSET Dir
    /\ saved \in {Absent} \cup SUBSET Dir
    /\ upc \in {"none", "create", "truncate", "write", "deinstall", "remove",
                "do", "clean", "cleaner", "wipe", "restore"}
    /\ todo \subseteq Dir /\ (todo # {} => upc \in {"write", "do"})
    /\ deinstall \in BOOLEAN
    /\ owed \subseteq Dir /\ dropped \subseteq Dir
    /\ built \in [Package -> SUBSET Package]

Init ==
    /\ installed = {} /\ current \in Versions /\ moved = {} /\ pulls = 0
    /\ list = Absent /\ old = Absent /\ saved = Absent
    /\ upc = "none" /\ todo = {} /\ deinstall = FALSE
    /\ owed = {} /\ dropped = {} /\ built = [p \in Package |-> {}]

Exists(file) == file # Absent
Lines(file) == IF Exists(file) THEN file ELSE {}

InstalledIn(d) == {p \in installed : DirOf[p] = d}
Installable(d) == IF d = Self THEN {current} ELSE {p \in Package : DirOf[p] = d}

Uses(q, p) == \E d \in Deps[q] : p \in Matches[d]

\* pkg_info -r: the packages of Self and every one that depends on them,
\* recursively, which are those in every set that lacks none.
ClosedUsers(S) ==
    /\ installed \cap Versions \subseteq S
    /\ \A q \in installed : (\E p \in S : Uses(q, p)) => q \in S
Users == {q \in installed : \A S \in SUBSET installed : ClosedUsers(S) => q \in S}

\* .outdated: what is installed is not what the tree has.
Outdated == current \notin installed

-----------------------------------------------------------------------------
(* The operations on packages make uses, and their bookkeeping.             *)

Install(p) ==
    /\ Db!Install(p)
    /\ owed' = owed \ {DirOf[p]} /\ dropped' = dropped \ {DirOf[p]}
    /\ built' = [built EXCEPT ![p] =
                    IF p \in Users' THEN installed' \cap Versions ELSE {}]

RemoveByUpdate(p) ==
    /\ Db!Remove(p)
    /\ owed' = owed \cup {DirOf[p]}
    /\ UNCHANGED <<dropped, built>>

-----------------------------------------------------------------------------
(* What the user does otherwise, when make is not running.                  *)

\* ROBOTPKG_DIR is updated: the package has another version, or others are
\* no longer where they were.
Pull ==
    /\ upc = "none" /\ pulls < MaxPulls
    /\ \/ current' \in Versions \ {current} /\ UNCHANGED moved
       \/ moved' \in {moved \cup {d} : d \in Dir \ {Self}} /\ UNCHANGED current
    /\ pulls' = pulls + 1
    /\ UNCHANGED <<packages, list, old, saved, upc, todo, deinstall>>

\* make install, elsewhere or in Self, which has no other version installed.
UserInstall(p) ==
    /\ upc = "none" /\ DirOf[p] \notin moved
    /\ p \in Versions => p = current /\ installed \cap Versions = {}
    /\ Install(p)
    /\ UNCHANGED <<tree, list, old, saved, upc, todo, deinstall>>

UserDelete(p) ==
    /\ upc = "none"
    /\ Db!Remove(p)
    /\ UNCHANGED <<owed, dropped, built, tree, list, old, saved, upc, todo,
                   deinstall>>

-----------------------------------------------------------------------------
(* make update [confirm].                                                   *)

Goto(pc) == upc' = pc
Exit == upc' = "none" /\ todo' = {}

\* The ways on which a package is known to be left out: the list is removed
\* when make stops on it, and it is not made again when the package is up to
\* date, though others may have come to depend on it since.
GiveUpList ==
    /\ list' = Absent
    /\ dropped' = dropped \cup owed
Unlisted == {DirOf[q] : q \in Users} \ Lines(list)

\* Which targets there are is decided when make reads the makefiles.
Update(confirm) ==
    /\ upc = "none"
    /\ Exists(list) \/ confirm \/ Outdated
    /\ Goto(IF Outdated \/ ~Exists(list) THEN "create" ELSE "deinstall")
    /\ deinstall' = (Outdated \/ confirm)
    /\ dropped' = IF Exists(list) /\ ~Outdated /\ confirm
                  THEN dropped \cup Unlisted ELSE dropped
    /\ UNCHANGED <<installed, owed, built, tree, list, old, saved, todo>>

\* update-create-dlist: the old list is copied, if there is one.
CopyList ==
    /\ upc = "create"
    /\ installed \cap Versions # {} \/ Lines(list) # {}
    /\ old' = IF Exists(list) THEN list ELSE old
    /\ Goto("truncate")
    /\ UNCHANGED <<packages, tree, list, saved, todo, deinstall>>

ListSelf ==
    /\ upc = "create"
    /\ installed \cap Versions = {} /\ Lines(list) = {}
    /\ list' = {Self}
    /\ Goto("deinstall")
    /\ UNCHANGED <<packages, tree, old, saved, todo, deinstall>>

\* Variant: what is on the old list is not taken over.
ToListInstalled == {Self} \cup {DirOf[q] : q \in Users}
ToList == {Self} \cup Lines(old) \cup {DirOf[q] : q \in Users}

TruncateList ==
    /\ upc = "truncate"
    /\ list' = {}
    /\ todo' = ToList
    /\ Goto("write")
    /\ UNCHANGED <<packages, tree, old, saved, deinstall>>

WriteLine(d) ==
    /\ upc = "write" /\ d \in todo /\ todo \cap moved = {}
    /\ list' = list \cup {d}
    /\ todo' = todo \ {d}
    /\ UNCHANGED <<packages, tree, old, saved, upc, deinstall>>

\* A directory on the list does not exist: .err has been written to.
ListRefused ==
    /\ upc = "write" /\ todo \cap moved # {}
    /\ GiveUpList
    /\ Exit
    /\ UNCHANGED <<installed, owed, built, tree, old, saved, deinstall>>

ListWritten ==
    /\ upc = "write" /\ todo = {}
    /\ Goto("deinstall")
    /\ UNCHANGED <<packages, tree, list, old, saved, todo, deinstall>>

\* update-deinstall-dlist: nothing to do.
DeinstallSkipped ==
    /\ upc = "deinstall"
    /\ ~deinstall \/ installed \cap Versions = {}
    /\ Goto("do") /\ todo' = Lines(list)
    /\ UNCHANGED <<packages, tree, list, old, saved, deinstall>>

\* make cleaner in all other directories, then make deinstall.
DeinstallStarts ==
    /\ upc = "deinstall" /\ deinstall /\ installed \cap Versions # {}
    /\ Lines(list) \cap moved = {}
    /\ Goto("remove")
    /\ UNCHANGED <<packages, tree, list, old, saved, todo, deinstall>>

CleanerFails ==
    /\ upc = "deinstall" /\ deinstall /\ installed \cap Versions # {}
    /\ \/ Lines(list) \cap moved # {}
       \/ "cleaner" \in Faults /\ Lines(list) \ {Self} # {}
    /\ GiveUpList
    /\ Exit
    /\ UNCHANGED <<installed, owed, built, tree, old, saved, deinstall>>

\* Variant: robotpkg_delete -f of the package alone.
RemoveAlone(p) ==
    /\ upc = "remove" /\ p \in installed \cap Versions
    /\ installed' = installed \ {p}
    /\ owed' = owed \cup {DirOf[p]}
    /\ UNCHANGED <<dropped, built, tree, list, old, saved, upc, todo, deinstall>>

\* robotpkg_delete -r: dependents first.
RemovePackage(p) ==
    /\ upc = "remove" /\ p \in Users
    /\ \A q \in installed : ~Uses(q, p)
    /\ RemoveByUpdate(p)
    /\ UNCHANGED <<tree, list, old, saved, upc, todo, deinstall>>

Removed ==
    /\ upc = "remove" /\ installed \cap Versions = {}
    /\ Goto("do") /\ todo' = Lines(list)
    /\ UNCHANGED <<packages, tree, list, old, saved, deinstall>>

RemoveFails ==
    /\ upc = "remove" /\ "script" \in Faults /\ installed \cap Versions # {}
    /\ Exit
    /\ UNCHANGED <<packages, tree, list, old, saved, deinstall>>

-----------------------------------------------------------------------------
(* do-update.                                                               *)

\* d is the next line: those it depends on come before it.
NextLine(d) ==
    /\ upc = "do" /\ d \in todo
    /\ \A e \in todo \ {d} : \A p \in Installable(d), q \in Installable(e) :
           ~Uses(p, q)

AlreadyInstalled(d) ==
    IF d = Self THEN current \in installed ELSE InstalledIn(d) # {}

\* Already installed again, or in no directory any more.
SkipLine(d) ==
    /\ NextLine(d)
    /\ AlreadyInstalled(d) \/ d \in moved
    /\ todo' = todo \ {d}
    /\ UNCHANGED <<packages, tree, list, old, saved, upc, deinstall>>

\* make install there, which installs the missing dependencies first.
Missing(p) ==
    {q \in Package : /\ \E e \in Deps[p] :
                            q \in Matches[e] /\ Matches[e] \cap installed = {}
                     /\ q \in Versions => q = current}

InstallDependency(d) ==
    /\ NextLine(d) /\ ~AlreadyInstalled(d) /\ d \notin moved
    /\ \E p \in Installable(d) : \E q \in Missing(p) :
           DirOf[q] \notin moved /\ Install(q)
    /\ UNCHANGED <<tree, list, old, saved, upc, todo, deinstall>>

InstallLine(d) ==
    /\ NextLine(d) /\ ~AlreadyInstalled(d) /\ d \notin moved
    /\ \E p \in Installable(d) : Install(p)
    /\ todo' = todo \ {d}
    /\ UNCHANGED <<tree, list, old, saved, upc, deinstall>>

\* The first failure ends the loop, and make; the list stays.
InstallFails(d) ==
    /\ NextLine(d) /\ ~AlreadyInstalled(d) /\ d \notin moved
    /\ \/ "build" \in Faults
       \/ \E p \in Installable(d) : {DirOf[q] : q \in Missing(p)} \cap moved # {}
    /\ Exit
    /\ UNCHANGED <<packages, tree, list, old, saved, deinstall>>

DoneLines ==
    /\ upc = "do" /\ todo = {}
    /\ Goto("clean")
    /\ UNCHANGED <<packages, tree, list, old, saved, todo, deinstall>>

\* update-clean complains of what could not be installed again, or ...
UpdateIncomplete ==
    /\ upc = "clean" /\ Lines(list) \cap moved # {}
    /\ Exit
    /\ UNCHANGED <<packages, tree, list, old, saved, deinstall>>

RemoveList ==
    /\ upc = "clean" /\ Lines(list) \cap moved = {}
    /\ list' = Absent
    /\ Goto(IF UpdateClean THEN "cleaner" ELSE "none")
    /\ UNCHANGED <<packages, tree, old, saved, todo, deinstall>>

\* ... make cleaner in Self, which is make clean and is made without list.
UpdateCleaner ==
    /\ upc = "cleaner"
    /\ Goto("wipe")
    /\ UNCHANGED <<packages, tree, list, old, saved, todo, deinstall>>

-----------------------------------------------------------------------------
(* make clean [confirm] in Self.                                            *)

\* Some listed package other than that of Self is not installed.
Unfinished == \E d \in Lines(list) \ {Self} : InstalledIn(d) = {}

\* clean-save-update-list, unless the user confirms, which cancels an update.
Clean(confirm) ==
    /\ upc = "none"
    /\ IF ~confirm /\ Unfinished
       THEN saved' = list /\ list' = Absent /\ UNCHANGED <<owed, dropped>>
       ELSE /\ UNCHANGED <<saved, list>>
            /\ owed' = IF confirm THEN {} ELSE owed
            /\ dropped' = IF confirm THEN {} ELSE dropped
    /\ Goto("wipe")
    /\ UNCHANGED <<installed, built, tree, old, todo, deinstall>>

\* do-clean: WRKDIR and all that is in it.
Wipe ==
    /\ upc = "wipe"
    /\ list' = Absent /\ old' = Absent
    /\ Goto("restore")
    /\ UNCHANGED <<packages, tree, saved, todo, deinstall>>

\* clean-restore-update-list
Restore ==
    /\ upc = "restore"
    /\ list' = IF Exists(saved) THEN saved ELSE list
    /\ saved' = Absent
    /\ Goto("none")
    /\ UNCHANGED <<packages, tree, old, todo, deinstall>>

-----------------------------------------------------------------------------
Tearing == {"truncate", "write", "wipe", "restore"}

Crash ==
    /\ upc # "none"
    /\ IF upc \in Tearing THEN "tear" \in Faults ELSE "crash" \in Faults
    /\ Exit
    /\ UNCHANGED <<packages, tree, list, old, saved, deinstall>>

Make ==
    \/ CopyList \/ ListSelf \/ TruncateList \/ ListRefused \/ ListWritten
    \/ DeinstallSkipped \/ DeinstallStarts \/ CleanerFails \/ Removed
    \/ RemoveFails \/ DoneLines \/ UpdateIncomplete \/ RemoveList
    \/ UpdateCleaner \/ Wipe \/ Restore
    \/ \E d \in Dir : WriteLine(d) \/ SkipLine(d) \/ InstallDependency(d)
                      \/ InstallLine(d) \/ InstallFails(d)
    \/ \E p \in Package : RemovePackage(p)

User ==
    \/ Pull
    \/ \E p \in Package : UserInstall(p) \/ UserDelete(p)
    \/ \E confirm \in BOOLEAN : Update(confirm) \/ Clean(confirm)

Next == User \/ Make \/ Crash

Spec == Init /\ [][Next]_vars

-----------------------------------------------------------------------------
\* Every other package an update has removed and not installed again is on
\* the list the next run reads: neither failures nor interruptions, of the
\* removal or the installation, nor further changes of ROBOTPKG_DIR, nor
\* `make clean' lose one, unless make gives the list up (update.mk).
RemovedListed ==
    owed \ ({Self} \cup dropped) \subseteq
        CASE upc = "write"               -> list \cup todo
          [] upc = "truncate"            -> Lines(list) \cup ToList
          [] upc \in {"wipe", "restore"} -> Lines(list) \cup Lines(saved)
          [] OTHER                       -> Lines(list)

\* An update that ends has updated the package and all the packages that
\* depend upon it: none is left removed (update.mk, of the target `update').
UpdateCompletes == upc = "cleaner" => owed = {}

\* No installed package was built with a version of Self that is not the one
\* installed: the dependents go with it, and are built again after it.
BuiltWithInstalled ==
    \A p \in installed : built[p] \subseteq installed
=============================================================================
