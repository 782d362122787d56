-------------------------------- MODULE PkgTools -------------------------------
(****************************************************************************)
(* The package tools on one package database: a user runs robotpkg_add,     *)
(* robotpkg_delete and robotpkg_admin one after the other, with the options *)
(* of AddOptions, DeleteOptions and AdminCommands, and a run may be         *)
(* interrupted (power failure, kill) between any two of its writes.         *)
(****************************************************************************)
EXTENDS PkgAdd, PkgDelete, PkgAdmin

CONSTANTS
    AddOptions, DeleteOptions,  \* the flag sets the user passes
    AdminCommands               \* of "rebuild", "rebuild-tree", "set"

ASSUME PkgToolsAssumption ==
    /\ AddOptions \subseteq SUBSET {"A", "u", "D", "f"}
    /\ DeleteOptions \subseteq SUBSET {"r", "R", "A", "k", "f", "ff", "N"}

vars == <<dbvars, addvars, delvars, admvars>>

TypeOK == DbTypeOK /\ AddTypeOK /\ DelTypeOK /\ AdmTypeOK

Init == DbInit /\ AddInit /\ DelInit /\ AdmInit

Idle == task.pc = "none" /\ dpc = "none" /\ apc = "none"

\* The user may name an archive file that is not in PKG_PATH.
UserAdd ==
    /\ Idle
    /\ \E p \in Package, opts \in AddOptions : AddCommand(p, opts)
    /\ UNCHANGED <<delvars, admvars>>

UserDelete ==
    /\ Idle
    /\ \E S \in SUBSET contents, opts \in DeleteOptions :
           S # {} /\ DeleteCommand(S, opts)
    /\ UNCHANGED <<addvars, admvars>>

UserAdmin ==
    /\ Idle
    /\ \/ "rebuild" \in AdminCommands /\ RebuildCommand
       \/ "rebuild-tree" \in AdminCommands /\ RebuildTreeCommand
       \/ /\ "set" \in AdminCommands
          /\ \E p \in Package, yes \in BOOLEAN : SetAutomatic(p, yes)
    /\ UNCHANGED <<addvars, delvars>>

Tools ==
    \/ AddStep /\ UNCHANGED <<delvars, admvars>>
    \/ DeleteStep /\ UNCHANGED <<addvars, admvars>>
    \/ AdminStep /\ UNCHANGED <<addvars, delvars>>

-----------------------------------------------------------------------------
(* An interruption.  What a routine modelled as one step has done by then   *)
(* is any part of it; pkgdb.byfile.db is written out when it is closed.     *)

\* A directory without +CONTENTS, the torn state, only with "torn".
CrashBetween ==
    /\ pkgdir \subseteq contents \/ "torn" \in Faults
    /\ UNCHANGED dbvars

CrashWriting ==
    /\ task.pc = "meta"
    /\ contents' = contents \cup {task.pkg}
    /\ UNCHANGED <<pkgdir, requiredBy, automatic, preserve, byfile, disk, done,
                   orphaned, stale, uncleared>>

\* Entries not flushed are lost; the file being written may be partial.
CrashExtracting ==
    /\ task.pc = "extract"
    /\ \E lost \in SUBSET {f \in Files[task.pkg] : byfile[f] = task.pkg} :
           byfile' = [f \in File |-> IF f \in lost THEN None ELSE byfile[f]]
    /\ \/ UNCHANGED disk
       \/ \E f \in task.files, left \in {None, Partial} :
              disk' = [disk EXCEPT ![f] = left]
    /\ UNCHANGED <<pkgdir, contents, requiredBy, automatic, preserve, done,
                   orphaned, stale, uncleared>>

CrashDeleting(p) ==
    /\ \/ task.pc = "dfiles" /\ p = task.other
       \/ task.pc = "nukepkg" /\ p = task.pkg
       \/ dpc = "files" /\ p = Victim
    /\ \E gone \in SUBSET {f \in Files[p] : disk[f] = p},
          lost \in SUBSET Files[p] :
           /\ disk' = [f \in File |-> IF f \in gone THEN None ELSE disk[f]]
           /\ byfile' = [f \in File |-> IF f \in lost THEN None ELSE byfile[f]]
    /\ done' = done \ {p}
    /\ UNCHANGED <<pkgdir, contents, requiredBy, automatic, preserve, orphaned,
                   stale, uncleared>>

CrashUnregistering(p) ==
    /\ \/ task.pc = "dunreg" /\ p = task.other
       \/ dpc = "depends" /\ p = Victim
    /\ \E S \in SUBSET UNION {Providers(d) : d \in Deps[p]} :
           requiredBy' = [q \in Package |-> IF q \in S THEN requiredBy[q] \ {p}
                                                       ELSE requiredBy[q]]
    /\ UNCHANGED <<pkgdir, contents, automatic, preserve, byfile, disk, done,
                   orphaned, stale, uncleared>>

\* remove_files() takes the + files in no order: any of them are gone, the
\* directory is not.
CrashRemovingDirectory(p) ==
    /\ \/ task.pc = "drm" /\ p = task.other
       \/ task.pc = "nukepkgdb" /\ p = task.pkg
       \/ dpc = "directory" /\ p = Victim
    /\ \/ p \in contents /\ UNCHANGED contents
       \/ "torn" \in Faults /\ contents' = contents \ {p}
    /\ \/ UNCHANGED requiredBy
       \/ requiredBy' = [requiredBy EXCEPT ![p] = {}]
    /\ automatic' \in {automatic, automatic \ {p}}
    /\ preserve' \in {preserve, preserve \ {p}}
    /\ done' = done \ {p}
    /\ orphaned' = (orphaned \cup (requiredBy[p] \cap pkgdir)) \ {p}
    /\ UNCHANGED <<pkgdir, byfile, disk, stale, uncleared>>

Crash ==
    /\ "crash" \in Faults /\ ~Idle
    /\ \/ CrashBetween \/ CrashWriting \/ CrashExtracting
       \/ \E p \in Package : \/ CrashDeleting(p) \/ CrashUnregistering(p)
                             \/ CrashRemovingDirectory(p)
    /\ Exit("fail") /\ DelExit /\ AdmExit

Next == UserAdd \/ UserDelete \/ UserAdmin \/ Tools \/ Crash

Spec == Init /\ [][Next]_vars

\* A started program runs on; users and failures are under no obligation.
FairSpec == Spec /\ WF_vars(Tools)

-----------------------------------------------------------------------------
\* pkgdb.byfile.db names a package only for files of its packing list and
\* only while the package is installed: no failure path, removal or
\* interruption leaves an entry of a package that is gone.
OwnerInstalled ==
    \A f \in File : byfile[f] # None =>
        byfile[f] \in contents /\ f \in Files[byfile[f]]

\* A +REQUIRED_BY line names a package one of whose @pkgdep patterns matches
\* the package it is filed under.  remove_depend() finds lines by these
\* patterns, so any other line would never be removed again.  The package it
\* names is installed, unless remove_line() failed when it was last removed:
\* no other failure, interruption or order of commands leaves such a line.
RequiredByJustified ==
    \A p, q \in Package : q \in requiredBy[p] =>
        q \in contents \cup stale /\ \E d \in Deps[q] : p \in Matches[d]

\* Every dependency of a package installed to its end is installed and knows
\* it, so that robotpkg_delete refuses to remove it; unless the package is
\* one a failed update or a forced removal is known to have cut off.
DependencyRecorded ==
    \A q \in done \ orphaned : \A d \in Deps[q] :
        \E p \in Matches[d] \cap contents : q \in requiredBy[p]

\* The files of a package installed to its end are its own, on disk and in
\* pkgdb.byfile.db (which "rebuild" empties while it runs): neither a failed
\* installation being undone nor another package's removal takes any of them.
FilesIntact ==
    \A q \in done : \A f \in Files[q] :
        disk[f] = q /\ (apc # "rebuild" => byfile[f] = q)

\* No package is installed beside one that either's @pkgcfl excludes.
NoConflict ==
    \A p, q \in done : p # q => \A c \in Conflicts[p] : q \notin Matches[c]

\* robotpkg_delete without -f removes dependents before what they depend on:
\* nothing that is still in the database is filed as requiring the package
\* whose files it is deleting, and nothing at all as requiring the version
\* robotpkg_add is replacing.  (A line that remove_line() failed to take out
\* may name a package that is gone.)
DependentsFirst ==
    /\ dpc \in {"files", "depends", "directory"} /\ ~Forced =>
           requiredBy[Victim] \cap pkgdir = {}
    /\ task.pc \in {"dfiles", "dunreg", "drm"} => requiredBy[task.other] = {}

\* Without interruptions, no tool leaves a trace of a package that is not
\* installed to its end: no directory and no file, save the one whose writing
\* failed, which delete_package() finds changed and leaves.
AtRestClean ==
    Idle => /\ pkgdir = done
            /\ \A f \in File : disk[f] \in done \cup {None, Partial}

\* A program that has been started ends.
Terminates == ~Idle ~> Idle

-----------------------------------------------------------------------------
\* A +PRESERVE mark protects its package from every removal but -ff and
\* -f -N, the leaves of -R and -A and robotpkg_add's own removal included.
PreservedKept ==
    [][\A p \in (done \ done') \cap preserve :
           dpc = "files" /\ ("ff" \in delopts \/ {"f", "N"} \subseteq delopts)]_vars

\* A package the user installs without -A is not marked automatic once
\* robotpkg_add has ended with success, however it got to be installed, so
\* robotpkg_delete -A will not take it for a leaf; unless it was marked before
\* and the mark could not be cleared, which the exit status does not tell.
\* Only what replaces another version has the mark of that version (MoveMarks).
ExplicitIsManual ==
    [][callers = <<>> /\ task.pkg # None /\ task'.pkg = None /\ ret' = "ok"
           /\ "A" \notin addopts /\ ~Replacing
       => task.pkg \notin automatic' \ uncleared']_vars

\* robotpkg_admin rebuild-tree, not itself interrupted, repairs what -f and -D
\* have broken: every dependency that can be served is recorded, and every
\* record is of one, of an installed package.
TreeRebuilt ==
    [][apc = "write" /\ apc' = "none" /\ ~Crash =>
          /\ \A q \in contents : \A d \in Deps[q] : Providers(d) # {} =>
                 \E p \in Providers(d) : q \in requiredBy[p]
          /\ \A p \in contents : \A q \in requiredBy[p] :
                 q \in contents /\ \E d \in Deps[q] : p \in Matches[d]]_vars

\* robotpkg_admin rebuild, not itself interrupted, recovers the file index
\* from a crash: every file in place that is some package's has an owner.
IndexRebuilt ==
    [][apc = "rebuild" /\ apc' = "none" /\ ~Crash =>
          \A p \in contents : \A f \in Files[p] :
              disk[f] # None => byfile[f] # None]_vars

\* robotpkg_delete without -f does not take away the last package that
\* serves a dependency of one that stays installed.
RequiredKept ==
    [][dpc = "directory" /\ ~Forced =>
          \A q \in contents \ {Victim} : \A d \in Deps[q] :
              Providers(d) # {} => Providers(d)' # {}]_vars
=============================================================================
