--------------------------------- MODULE PkgAdd --------------------------------
(****************************************************************************)
(* robotpkg_add (add/perform.c).  pkg_do() installs one package: it checks  *)
(* it against the database, installs missing dependencies by calling itself,*)
(* and either writes the new package or replaces an installed version of    *)
(* it, for which it runs robotpkg_delete as a subprocess.  `task' is the    *)
(* running call, `callers' the calls that wait for it, `ret' what the last  *)
(* call to return handed to its caller.  Every state the program can be     *)
(* interrupted in, or fail in, is a value of pc.                            *)
(*                                                                          *)
(* addopts holds command line flags: "A" automatic, "u" update, "D" force   *)
(* the dependents' check, "f" force (which implies "D").                    *)
(****************************************************************************)
EXTENDS PkgDb

CONSTANTS
    Repo,       \* the packages PKG_PATH has an archive of: a dependency that
                \* is missing is looked for there
    Faults      \* what may fail: "script", "io"; "crash", "torn" (PkgTools)

ASSUME PkgAddAssumption == Repo \subseteq Package

VARIABLES task, callers, ret, addopts

addvars == <<task, callers, ret, addopts>>

PC == {"none", "check", "deps", "mkdir", "meta", "move", "marks", "delete",
       "dfiles", "dunreg", "drm", "pre", "extract", "post", "register",
       "nukepkg", "nukepkgdb"}

Task == [pkg : Package \cup {None}, pc : PC, other : Package \cup {None},
         todo : SUBSET Pattern, files : SUBSET File, deps : SUBSET Package,
         auto : BOOLEAN]

AddTypeOK ==
    /\ task \in Task
    /\ callers \in Seq(Task)
    /\ ret \in {"none", "ok", "fail"}
    /\ addopts \subseteq {"A", "u", "D", "f"}

NoTask == [pkg |-> None, pc |-> "none", other |-> None, todo |-> {},
           files |-> {}, deps |-> {}, auto |-> FALSE]

NewTask(p, auto) ==
    [pkg |-> p, pc |-> "check", other |-> None, todo |-> Deps[p],
     files |-> Files[p], deps |-> {}, auto |-> auto]

AddInit == task = NoTask /\ callers = <<>> /\ ret = "none" /\ addopts = {}

ForceAdd == "f" \in addopts
ForceDepending == ForceAdd \/ "D" \in addopts
Replacing == task.other # None

-----------------------------------------------------------------------------
(* Control: move within the running call, return to the caller, exit.       *)
Goto(pc) ==
    /\ task' = [task EXCEPT !.pc = pc]
    /\ UNCHANGED <<callers, ret, addopts>>

Return(status) ==
    /\ IF callers = <<>>
       THEN task' = NoTask /\ callers' = <<>>
       ELSE /\ task' = callers[Len(callers)]
            /\ callers' = SubSeq(callers, 1, Len(callers) - 1)
    /\ ret' = status
    /\ UNCHANGED addopts

Exit(status) ==
    /\ task' = NoTask /\ callers' = <<>> /\ ret' = status
    /\ UNCHANGED addopts

-----------------------------------------------------------------------------
(* pkg_do() up to its first write: all of it reads only.                    *)

\* robotpkg_add [opts] p, by a user.
AddCommand(p, opts) ==
    /\ task' = NewTask(p, "A" \in opts)
    /\ callers' = <<>> /\ ret' = "none" /\ addopts' = opts
    /\ UNCHANGED dbvars

\* Variant: the mark stays.
AlreadyInstalledKeepsMark ==
    /\ task.pc = "check"
    /\ task.pkg \in contents
    /\ UNCHANGED dbvars
    /\ Return("ok")

\* check_already_installed(): an explicit request clears the automatic mark;
\* whether that could be written or not, the call ends well.
AlreadyInstalled ==
    /\ task.pc = "check"
    /\ task.pkg \in contents
    /\ IF "A" \in addopts \/ task.pkg \notin automatic
       THEN UNCHANGED <<automatic, uncleared>>
       ELSE \/ MarkAutomatic(task.pkg, FALSE)
            \/ /\ "io" \in Faults
               /\ uncleared' = uncleared \cup {task.pkg}
               /\ UNCHANGED automatic
    /\ UNCHANGED <<pkgdir, contents, requiredBy, preserve, byfile, disk, done,
                   orphaned, stale>>
    /\ Return("ok")

\* check_other_installed(): the installed version p would replace.
IsOther(o) ==
    IF OtherVersions(task.pkg) = {} THEN o = None
                                    ELSE IsBest(o, OtherVersions(task.pkg))

\* Variant: the dependents are not asked.
BreaksNoDependents(o) == FALSE

\* The packages that need o would no longer be served by task.pkg.
BreaksDependents(o) ==
    \E q \in requiredBy[o] :
        \/ q \notin contents
        \/ /\ ~ForceDepending
           /\ \E d \in Deps[q] : o \in Matches[d] /\ task.pkg \notin Matches[d]

CannotReplace(o) == o # None /\ ("u" \notin addopts \/ BreaksDependents(o))

ConflictOwn(o) == \E c \in Conflicts[task.pkg] : Providers(c) \ {o} # {}

\* Variant: only the new package's @pkgcfl lines are looked at.
ConflictInstalledIgnored(o) == FALSE

ConflictInstalled(o) ==
    \E q \in contents \ {o} : \E c \in Conflicts[q] : task.pkg \in Matches[c]

\* Variant: the file index is not consulted.
ConflictFilesIgnored(o) == FALSE

ConflictFiles(o) ==
    ~ForceAdd /\ \E f \in Files[task.pkg] : byfile[f] \notin {None, o}

Unreadable(o) == pkgdir \ (contents \cup {o}) # {}

\* One of the checks of pkg_do() refuses the package.
CheckRefuses ==
    /\ task.pc = "check" /\ task.pkg \notin contents
    /\ \E o \in Package \cup {None} :
           /\ IsOther(o)
           /\ \/ CannotReplace(o)
              \/ ConflictOwn(o) /\ ~Unreadable(o)
              \/ ConflictInstalled(o)
              \/ ConflictFiles(o) /\ ~Unreadable(o)
    /\ UNCHANGED dbvars
    /\ Return("fail")

\* fopen_contents(): a directory without +CONTENTS ends the whole program.
CheckAborts ==
    /\ task.pc = "check" /\ task.pkg \notin contents
    /\ \E o \in Package \cup {None} :
           IsOther(o) /\ ~CannotReplace(o) /\ Unreadable(o)
    /\ UNCHANGED dbvars
    /\ Exit("fail")

CheckPasses ==
    /\ task.pc = "check" /\ task.pkg \notin contents
    /\ \E o \in Package \cup {None} :
           /\ IsOther(o)
           /\ ~CannotReplace(o) /\ ~Unreadable(o)
           /\ ~ConflictOwn(o) /\ ~ConflictInstalled(o) /\ ~ConflictFiles(o)
           /\ task' = [task EXCEPT !.other = o,
                                   !.pc = IF o = None THEN "deps" ELSE "mkdir"]
    /\ UNCHANGED <<callers, ret, addopts, dbvars>>

-----------------------------------------------------------------------------
(* check_dependencies() and install_depend_pkg().  Each pattern is looked   *)
(* at once; a missing one is installed by a recursive call of pkg_do().     *)

DepsFail == IF Replacing THEN Goto("nukepkgdb") ELSE Return("fail")

DepPresent(d) ==
    /\ task.pc = "deps" /\ ret = "none" /\ d \in task.todo
    /\ Providers(d) # {}
    /\ task' = [task EXCEPT !.todo = @ \ {d}]
    /\ UNCHANGED <<callers, ret, addopts, dbvars>>

DepInstall(d) ==
    /\ task.pc = "deps" /\ ret = "none" /\ d \in task.todo
    /\ Providers(d) = {}
    /\ \E q \in Package :
           /\ IsBest(q, Matches[d] \cap Repo)
           /\ callers' = Append(callers, [task EXCEPT !.todo = @ \ {d}])
           /\ task' = NewTask(q, TRUE)
    /\ UNCHANGED <<ret, addopts, dbvars>>

\* find_archive() finds nothing: fatal unless ForceDepends.
DepNoArchive(d) ==
    /\ task.pc = "deps" /\ ret = "none" /\ d \in task.todo
    /\ Providers(d) = {} /\ Matches[d] \cap Repo = {}
    /\ IF ForceAdd THEN /\ task' = [task EXCEPT !.todo = @ \ {d}]
                        /\ UNCHANGED <<callers, ret, addopts>>
                   ELSE DepsFail
    /\ UNCHANGED dbvars

\* A recursive call has returned.
DepReturned ==
    /\ task.pc = "deps" /\ ret # "none"
    /\ IF ret = "fail" /\ ~ForceAdd
       THEN IF Replacing THEN /\ task' = [task EXCEPT !.pc = "nukepkgdb"]
                              /\ ret' = "none"
                              /\ UNCHANGED <<callers, addopts>>
                         ELSE Return("fail")
       ELSE ret' = "none" /\ UNCHANGED <<task, callers, addopts>>
    /\ UNCHANGED dbvars

\* The second loop: every pattern must have a best installed match by now.
DepsResolved ==
    /\ task.pc = "deps" /\ ret = "none" /\ task.todo = {}
    /\ IF \E d \in Deps[task.pkg] : Providers(d) = {}
       THEN DepsFail
       ELSE /\ \E best \in [Deps[task.pkg] -> Package] :
                   /\ \A d \in Deps[task.pkg] : IsBest(best[d], Providers(d))
                   /\ task' = [task EXCEPT
                                 !.deps = {best[d] : d \in Deps[task.pkg]},
                                 !.pc = IF Replacing THEN "pre" ELSE "mkdir"]
            /\ UNCHANGED <<callers, ret, addopts>>
    /\ UNCHANGED dbvars

-----------------------------------------------------------------------------
(* write_meta_data(): the directory first, then the files of the archive.   *)

MakeDirectory ==
    /\ task.pc = "mkdir"
    /\ pkgdir' = pkgdir \cup {task.pkg}
    /\ UNCHANGED <<contents, requiredBy, automatic, preserve, byfile, disk,
                   done, orphaned, stale, uncleared>>
    /\ Goto("meta")

WriteMetaData ==
    /\ task.pc = "meta"
    /\ contents' = contents \cup {task.pkg}
    /\ preserve' = IF task.pkg \in Preserved THEN preserve \cup {task.pkg}
                                             ELSE preserve
    /\ UNCHANGED <<pkgdir, requiredBy, automatic, byfile, disk, done, orphaned,
                   stale, uncleared>>
    /\ Goto(IF Replacing THEN "move" ELSE "pre")

\* +CONTENTS, written first, may be there when another file fails.
WriteMetaDataFails ==
    /\ task.pc = "meta" /\ "io" \in Faults
    /\ contents' \in {contents, contents \cup {task.pkg}}
    /\ UNCHANGED <<pkgdir, requiredBy, automatic, preserve, byfile, disk, done,
                   orphaned, stale, uncleared>>
    /\ Goto("nukepkgdb")

-----------------------------------------------------------------------------
(* start_replacing(): move what the old directory knows to the new one, and *)
(* run robotpkg_delete, without -f, on the old version.                     *)

Moved(S) == IF task.other \in S THEN (S \ {task.other}) \cup {task.pkg} ELSE S

\* rename() of a +REQUIRED_BY that is absent or empty; of a file to itself.
MoveRequiredBy ==
    /\ task.pc = "move"
    /\ \/ requiredBy[task.other] = {} /\ UNCHANGED requiredBy
       \/ requiredBy' = [p \in Package |->
                            CASE p = task.pkg   -> requiredBy[task.other]
                              [] p = task.other -> {}
                              [] OTHER          -> requiredBy[p]]
    /\ UNCHANGED <<pkgdir, contents, automatic, preserve, byfile, disk, done,
                   orphaned, stale, uncleared>>
    /\ Goto("marks")

MoveMarks ==
    /\ task.pc = "marks"
    /\ preserve' = Moved(preserve)
    /\ automatic' = Moved(automatic)
    /\ UNCHANGED <<pkgdir, contents, requiredBy, byfile, disk, done, orphaned,
                   stale, uncleared>>
    /\ Goto("delete")

MoveFails ==
    /\ task.pc \in {"move", "marks"} /\ "io" \in Faults
    /\ UNCHANGED dbvars
    /\ Goto("nukepkgdb")

\* robotpkg_delete refuses, or its DEINSTALL script fails: nothing is deleted.
DeleteOldFails ==
    /\ task.pc = "delete"
    /\ \/ requiredBy[task.other] # {} \/ task.other \in preserve
       \/ task.other \notin contents
       \/ "script" \in Faults
    /\ UNCHANGED dbvars
    /\ Goto("nukepkgdb")

DeleteOldStarts ==
    /\ task.pc = "delete"
    /\ requiredBy[task.other] = {} /\ task.other \notin preserve
    /\ task.other \in contents
    /\ UNCHANGED dbvars
    /\ Goto("dfiles")

DeleteOldFiles ==
    /\ task.pc = "dfiles"
    /\ DeletePackage(task.other, FALSE, FALSE)
    /\ done' = done \ {task.other}
    /\ UNCHANGED <<pkgdir, contents, requiredBy, automatic, preserve, orphaned,
                   stale, uncleared>>
    /\ Goto("dunreg")

DeleteOldDepends ==
    /\ task.pc = "dunreg"
    /\ RemoveDepends(task.other, "io" \in Faults)
    /\ UNCHANGED <<pkgdir, contents, automatic, preserve, byfile, disk, done,
                   orphaned, uncleared>>
    /\ Goto("drm")

\* A failing POST-DEINSTALL script only changes the exit status.
DeleteOldDirectory ==
    /\ task.pc = "drm"
    /\ RemoveDirectory(task.other, {})
    /\ UNCHANGED <<byfile, disk>>
    /\ \/ Goto("deps")
       \/ "script" \in Faults /\ Goto("nukepkgdb")

-----------------------------------------------------------------------------
(* The rest of pkg_do(): scripts, extraction, registration.                 *)

PreInstall ==
    /\ task.pc = "pre"
    /\ UNCHANGED dbvars
    /\ \/ Goto("extract")
       \/ "script" \in Faults /\ Goto("nukepkgdb")

\* pkgdb_store() does not overwrite; the file of the prefix is overwritten.
Store(f) ==
    byfile' = [byfile EXCEPT ![f] = IF @ = None THEN task.pkg ELSE @]

ExtractFile(f) ==
    /\ task.pc = "extract" /\ f \in task.files
    /\ Store(f)
    /\ disk' = [disk EXCEPT ![f] = task.pkg]
    /\ task' = [task EXCEPT !.files = @ \ {f}]
    /\ UNCHANGED <<callers, ret, addopts, pkgdir, contents, requiredBy,
                   automatic, preserve, done, orphaned, stale, uncleared>>

\* The old file is unlinked before the new one is written.
ExtractFails(f) ==
    /\ task.pc = "extract" /\ f \in task.files /\ "io" \in Faults
    /\ \/ UNCHANGED <<byfile, disk>>
       \/ /\ Store(f)
          /\ \E left \in {disk[f], None, Partial} :
                 disk' = [disk EXCEPT ![f] = left]
    /\ UNCHANGED <<pkgdir, contents, requiredBy, automatic, preserve, done,
                   orphaned, stale, uncleared>>
    /\ Goto("nukepkg")

Extracted ==
    /\ task.pc = "extract" /\ task.files = {}
    /\ UNCHANGED dbvars
    /\ Goto("post")

\* POST-INSTALL script, then mark_as_automatic_installed(), whose failure is
\* not looked at.
PostInstall ==
    /\ task.pc = "post"
    /\ \/ /\ task.auto /\ task.pkg \in pkgdir
          /\ MarkAutomatic(task.pkg, TRUE)
          /\ Goto("register")
       \/ /\ task.auto /\ task.pkg \in pkgdir => "io" \in Faults
          /\ UNCHANGED <<automatic, uncleared>>
          /\ Goto("register")
       \/ /\ "script" \in Faults
          /\ UNCHANGED <<automatic, uncleared>>
          /\ Goto("nukepkg")
    /\ UNCHANGED <<pkgdir, contents, requiredBy, preserve, byfile, disk, done,
                   orphaned, stale>>

\* pkg_register_depends(): a +REQUIRED_BY that cannot be written is a warning.
RegisterDepend(q) ==
    /\ task.pc = "register" /\ q \in task.deps
    /\ \/ /\ q \in pkgdir
          /\ requiredBy' = [requiredBy EXCEPT ![q] = @ \cup {task.pkg}]
          /\ UNCHANGED orphaned
       \/ /\ q \notin pkgdir \/ "io" \in Faults
          /\ orphaned' = orphaned \cup {task.pkg}
          /\ UNCHANGED requiredBy
    /\ task' = [task EXCEPT !.deps = @ \ {q}]
    /\ UNCHANGED <<callers, ret, addopts, pkgdir, contents, automatic,
                   preserve, byfile, disk, done, stale, uncleared>>

Installed ==
    /\ task.pc = "register" /\ task.deps = {}
    /\ done' = done \cup {task.pkg}
    /\ UNCHANGED <<pkgdir, contents, requiredBy, automatic, preserve, byfile,
                   disk, orphaned, stale, uncleared>>
    /\ Return("ok")

-----------------------------------------------------------------------------
(* The labels nuke_pkg and nuke_pkgdb.                                      *)

NukePackage ==
    /\ task.pc = "nukepkg"
    /\ DeletePackage(task.pkg, FALSE, ForceAdd)
    /\ UNCHANGED <<pkgdir, contents, requiredBy, automatic, preserve, done,
                   orphaned, stale, uncleared>>
    /\ Goto("nukepkgdb")

\* Variant: the failure is returned and the directory left.
NukeNothing ==
    /\ task.pc = "nukepkgdb"
    /\ UNCHANGED dbvars
    /\ Return("fail")

NukeDirectory ==
    /\ task.pc = "nukepkgdb"
    /\ RemoveDirectory(task.pkg, requiredBy[task.pkg])
    /\ UNCHANGED <<byfile, disk>>
    /\ Return("fail")

-----------------------------------------------------------------------------
AddStep ==
    \/ AlreadyInstalled \/ CheckRefuses \/ CheckAborts \/ CheckPasses
    \/ \E d \in Pattern : DepPresent(d) \/ DepInstall(d) \/ DepNoArchive(d)
    \/ DepReturned \/ DepsResolved
    \/ MakeDirectory \/ WriteMetaData \/ WriteMetaDataFails
    \/ MoveRequiredBy \/ MoveMarks \/ MoveFails
    \/ DeleteOldFails \/ DeleteOldStarts \/ DeleteOldFiles
    \/ DeleteOldDepends \/ DeleteOldDirectory
    \/ PreInstall
    \/ \E f \in File : ExtractFile(f) \/ ExtractFails(f)
    \/ Extracted \/ PostInstall
    \/ \E q \in Package : RegisterDepend(q)
    \/ Installed
    \/ NukePackage \/ NukeDirectory
=============================================================================
