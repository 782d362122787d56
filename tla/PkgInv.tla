--------------------------------- MODULE PkgInv --------------------------------
(****************************************************************************)
(* The inductive invariant of PkgTools.  It says, for every point at which  *)
(* a tool can be, what the rest of its run relies on: which packages wait   *)
(* for the running call, which of them have a directory already, and which  *)
(* have file index entries or +REQUIRED_BY lines to lose.                   *)
(****************************************************************************)
EXTENDS PkgTools

-----------------------------------------------------------------------------
(* Control: the tasks are well formed and one program runs at a time.       *)

\* The part of a replacing call that has moved nothing but needs the old one.
Moving == {"move", "marks", "delete", "dfiles", "dunreg", "drm"}

TaskOK(t) ==
    /\ t \in Task
    /\ t.pc = "none" <=> t.pkg = None
    /\ t.pc \in Moving => t.other # None
    /\ t.pc # "none" =>
           /\ t.files \subseteq Files[t.pkg]
           /\ t.todo \subseteq Deps[t.pkg]
           /\ \A q \in t.deps : \E d \in Deps[t.pkg] : q \in Matches[d]

CallersOK ==
    /\ callers # <<>> => task.pc # "none"
    /\ \A i \in 1..Len(callers) : TaskOK(callers[i]) /\ callers[i].pc = "deps"

OneProgram ==
    /\ task.pc # "none" => dpc = "none" /\ apc = "none"
    /\ dpc # "none" => task.pc = "none" /\ apc = "none"
    /\ apc # "none" => task.pc = "none" /\ dpc = "none"

AddControl == AddTypeOK /\ TaskOK(task) /\ CallersOK

\* remove_pkg() works on the head of the list.
DelControl ==
    /\ DelTypeOK
    /\ dpc \in {"files", "depends", "directory"} => sorted # <<>>

ControlInv == TypeOK /\ AddControl /\ DelControl /\ OneProgram

-----------------------------------------------------------------------------
(* The call stack: pkg_do() calls itself for packages of lower levels, so   *)
(* no call works on the package, or the version, that a caller works on.    *)

Waiting == {callers[i] : i \in 1..Len(callers)}

OtherOK(t) == t.other # None => Base[t.other] = Base[t.pkg] /\ t.other # t.pkg

StackInv ==
    /\ \A t \in Waiting \cup {task} : OtherOK(t)
    /\ \A i \in 1..Len(callers) : Level[task.pkg] < Level[callers[i].pkg]
    /\ \A i, j \in 1..Len(callers) :
           i < j => Level[callers[j].pkg] < Level[callers[i].pkg]

\* Only a directory being written, or left unfinished, has no +CONTENTS.
DirsInv ==
    /\ contents \subseteq pkgdir
    /\ task.pc = "meta" => task.pkg \in pkgdir
    /\ pkgdir \ contents \subseteq
           IF task.pc \in {"meta", "nukepkgdb"} THEN {task.pkg} ELSE {}

-----------------------------------------------------------------------------
(* The file index.                                                          *)

\* The call has written +CONTENTS and not given up its directory.
Described(t) ==
    \/ t.pc \in Moving \cup {"pre", "extract", "post", "register", "nukepkg"}
    \/ t.pc = "deps" /\ t.other # None

\* The call has stored no file yet, or has taken its files back.
NothingStored(t) ==
    t.pc \in Moving \cup {"deps", "mkdir", "meta", "pre", "nukepkgdb"}

Unowned(p) == \A f \in File : byfile[f] # p

IndexOK(t) ==
    /\ Described(t) => t.pkg \in contents
    /\ NothingStored(t) => Unowned(t.pkg)

AddIndex ==
    /\ \A t \in Waiting \cup {task} : IndexOK(t)
    /\ task.pc \in {"dunreg", "drm"} => Unowned(task.other)

DelIndex == dpc \in {"depends", "directory"} => Unowned(Victim)

OwnerInv == OwnerInstalled /\ AddIndex /\ DelIndex

-----------------------------------------------------------------------------
(* The +REQUIRED_BY files, when no dependents' check was forced.            *)

\* q is installed and may be filed as requiring p.
Justified(q, p) == q \in contents /\ \E d \in Deps[q] : p \in Matches[d]

\* Nothing is left that names p, but for what a failed remove_line() left.
Unlisted(p) == p \in stale \/ \A q \in Package : p \notin requiredBy[q]

DbRequired ==
    /\ RequiredByJustified
    /\ \A p \in Package \ pkgdir : requiredBy[p] = {}

UnlistedOK(t) == t.pc \notin {"none", "check", "register"} => Unlisted(t.pkg)

\* The dependents of the version being replaced accept the new one; when its
\* directory goes, it is filed as requiring nothing.
ReplacedOK ==
    /\ task.pc \in {"mkdir", "meta", "move"} /\ Replacing =>
           \A q \in requiredBy[task.other] : Justified(q, task.pkg)
    /\ task.pc = "drm" => Unlisted(task.other)

AddRequired ==
    /\ ~ForceDepending
    /\ \A t \in Waiting \cup {task} : UnlistedOK(t)
    /\ ReplacedOK

DelRequired == dpc = "directory" => Unlisted(Victim)

TreeRequired ==
    apc \in {"remove", "write"} =>
        /\ atodo \subseteq pkgdir
        /\ \A p \in Package : \A q \in tree[p] : Justified(q, p)
        /\ \A p \in pkgdir \ atodo : apc = "remove" => requiredBy[p] = {}
        /\ \A p \in Package : apc = "write" => requiredBy[p] \subseteq tree[p]

RequiredInv == DbRequired /\ AddRequired /\ DelRequired /\ TreeRequired

-----------------------------------------------------------------------------
(* The order of removal, when no preserved package is skipped (-k).         *)

\* Of the packages in the database, only some before it in the list require a
\* package that is to be removed.
Ordered ==
    \A i \in 1..Len(sorted) :
        requiredBy[sorted[i]] \cap pkgdir \subseteq {sorted[j] : j \in 1..(i - 1)}

DelOrder ==
    /\ "k" \notin delopts
    /\ dpc = "forced" => Forced
    /\ dpc # "none" /\ ~Forced => Ordered

AddOrder == task.pc \in {"dfiles", "dunreg", "drm"} => requiredBy[task.other] = {}

OrderInv == DelOrder /\ AddOrder

-----------------------------------------------------------------------------
(* What is installed to its end.                                            *)

\* The files of the version being replaced are gone.
OldGone == {"dunreg", "drm", "deps", "pre", "extract", "post", "register",
            "nukepkg"}

UnfinishedOK(t) ==
    /\ t.pc \notin {"none", "check"} => t.pkg \notin done
    /\ t.other # None /\ t.pc \in OldGone => t.other \notin done

DoneInv ==
    /\ done \subseteq contents
    /\ \A t \in Waiting \cup {task} : UnfinishedOK(t)
    /\ dpc \in {"depends", "directory"} => Victim \notin done

\* The call has a directory in the database.
HasDirectory(t) == Described(t) \/ t.pc \in {"meta", "nukepkgdb"}

\* Without interruptions, a package in the database is installed to its end or
\* a program is at work on it.
PresentInv ==
    \A p \in pkgdir \ done :
        \/ \E t \in Waiting \cup {task} : HasDirectory(t) /\ p = t.pkg
        \/ task.pc \in {"dunreg", "drm"} /\ p = task.other
        \/ dpc \in {"depends", "directory"} /\ p = Victim

-----------------------------------------------------------------------------
(* Dependencies and their records.                                          *)

\* Nothing is filed as requiring the package of a call, but for what it has
\* taken over from the version it replaces.
FreshOK(t) ==
    \/ t.pc \notin {"none", "check"} /\ t.other = None
    \/ t.pc \in {"mkdir", "meta", "move"}
    => requiredBy[t.pkg] = {}

\* Who needs the version being replaced is served as well by the new one.
ReplacementFits ==
    task.pc \in {"mkdir", "meta", "move"} /\ Replacing =>
        \A q \in requiredBy[task.other] : \A d \in Deps[q] :
            task.other \in Matches[d] => task.pkg \in Matches[d]

\* check_dependencies() has found what the call is to register with.
Resolved ==
    \/ task.pc \in {"pre", "extract", "post", "register"}
    \/ task.pc \in {"mkdir", "meta"} /\ ~Replacing

DependenciesFound ==
    Resolved => \A d \in Deps[task.pkg] : \E p \in Matches[d] \cap contents :
        \/ p \in task.deps
        \/ task.pkg \in requiredBy[p] \cup orphaned

RecordedInv ==
    /\ \A t \in Waiting \cup {task} : FreshOK(t)
    /\ ReplacementFits
    /\ DependenciesFound
    /\ DependencyRecorded

-----------------------------------------------------------------------------
(* What robotpkg_admin has rebuilt so far.                                  *)

\* The tree is the relation the packages need, and the files follow it.
TreeInv ==
    apc \in {"remove", "write"} =>
        /\ pkgdir \subseteq contents
        /\ \A q \in pkgdir : \A d \in Deps[q] : Providers(d) # {} =>
               \E p \in Providers(d) : q \in tree[p]
        /\ \A p \in Package : \A q \in tree[p] : Justified(q, p)
        /\ \A p \in pkgdir \ atodo :
               requiredBy[p] = IF apc = "remove" THEN {} ELSE tree[p]
        /\ apc = "write" => \A p \in atodo : requiredBy[p] = {}
        /\ atodo \subseteq pkgdir

IndexInv ==
    apc = "rebuild" =>
        /\ atodo \subseteq contents
        /\ \A p \in contents \ atodo : \A f \in Files[p] :
               disk[f] # None => byfile[f] # None

AdminInv == TreeInv /\ IndexInv

-----------------------------------------------------------------------------
(* Marks.                                                                   *)

\* Preserved packages may be removed with -ff, and unregistered with -f -N.
MayRemovePreserved == "ff" \in delopts \/ {"f", "N"} \subseteq delopts

PreserveInv ==
    /\ task.pc = "dfiles" => task.other \notin preserve
    /\ dpc \in {"remove", "files", "depends", "directory"} =>
           MayRemovePreserved \/ Listed \cap preserve = {}

\* The call for the package the user has named.
Bottom == IF callers = <<>> THEN task ELSE callers[1]

\* Without -A nothing marks that package, but the mark of what it replaces.
ManualInv ==
    /\ automatic \subseteq pkgdir
    /\ "A" \notin addopts =>
           /\ ~Bottom.auto
           /\ Bottom.pc \notin {"none", "check"} /\ Bottom.other = None =>
                  Bottom.pkg \notin automatic

-----------------------------------------------------------------------------
(* What is installed while a call waits.  Under[p] stands for the packages  *)
(* that a call for p may install before it has written the files of p.      *)

\* Under holds the dependencies, as archives, and theirs.
CoversDeps(Under) ==
    \A p \in Package :
        /\ \A d \in Deps[p] : Matches[d] \cap Repo \subseteq Under[p]
        /\ \A q \in Under[p] : Under[q] \subseteq Under[p]

UnderInv(Under) ==
    /\ \A t \in Waiting : task.pkg \in Under[t.pkg]
    /\ \A i, j \in 1..Len(callers) :
           i < j => callers[j].pkg \in Under[callers[i].pkg]

Clash(p, q) ==
    \/ \E c \in Conflicts[p] : q \in Matches[c]
    \/ \E c \in Conflicts[q] : p \in Matches[c]

\* No package excludes one that is installed while its own call waits.
NoLateConflict(Under) ==
    \A p \in Package : \A q \in Under[p] : ~Clash(q, p)

\* The call has been checked against the packages that are installed.
PastCheck(t) == t.pc \notin {"none", "check"}

ConflictInv ==
    /\ NoConflict
    /\ \A t \in Waiting \cup {task} : PastCheck(t) =>
           \A q \in done \ {t.other} : ~Clash(q, t.pkg)

-----------------------------------------------------------------------------
(* The files of the packages, without interruptions.                        *)

\* A file in place is of a package that lists it, and that is installed or
\* being installed.  (Unregistering, -N, leaves the files of what it removes.)
DiskInv ==
    /\ ~UnregisterOnly
    /\ \A f \in File : disk[f] \in Package =>
           /\ f \in Files[disk[f]]
           /\ \/ disk[f] \in done
              \/ task.pc \in {"extract", "post", "register", "nukepkg"}
                 /\ disk[f] = task.pkg

\* Nothing is extracted yet.
Whole(t) == t.pc \in Moving \cup {"check", "deps", "mkdir", "meta", "pre"}

\* A removal has begun with an installed package.
RemovingInstalled ==
    /\ task.pc = "dfiles" => task.other \in contents
    /\ dpc = "files" => Victim \in contents

StoredInv ==
    /\ \A t \in Waiting \cup {task} : Whole(t) => t.files = Files[t.pkg]
    /\ task.pc \in {"extract", "post", "register"} =>
           \A f \in Files[task.pkg] \ task.files :
               disk[f] = task.pkg /\ byfile[f] = task.pkg
    /\ task.pc \in {"post", "register"} => task.files = {}

\* No package lists a file of one that is installed while its own call waits.
NoLateOverlap(Under) ==
    \A p \in Package : \A q \in Under[p] : Files[q] \cap Files[p] = {}

\* The call's files are of no other installed package.
FilesFree ==
    \A t \in Waiting \cup {task} : PastCheck(t) =>
        \A q \in done \ {t.other} : Files[q] \cap Files[t.pkg] = {}

\* What "rebuild" has visited has its files back.
Reindexed ==
    apc = "rebuild" => \A q \in done \ atodo : \A f \in Files[q] : byfile[f] = q

FilesInv ==
    ~ForceAdd /\ RemovingInstalled /\ StoredInv /\ FilesFree /\ Reindexed
        /\ FilesIntact
=============================================================================
