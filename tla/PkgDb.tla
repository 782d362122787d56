--------------------------------- MODULE PkgDb ---------------------------------
(****************************************************************************)
(* The package database shared by robotpkg_add, robotpkg_delete and         *)
(* robotpkg_admin (pkgtools/pkg_install/dist): one directory per installed  *)
(* package under PKG_DBDIR, holding +CONTENTS, +REQUIRED_BY, +PRESERVE and  *)
(* +INSTALLED_INFO, the pkgdb.byfile.db file index, and the installation    *)
(* prefix.  The module gives the state and the library routines by which    *)
(* more than one program changes it.                                        *)
(****************************************************************************)
EXTENDS Naturals, FiniteSets, Sequences

CONSTANTS
    Package,    \* full package names, version included ("foo-1.2")
    Pattern,    \* the patterns of @pkgdep and @pkgcfl lines
    File,       \* the files of the packing lists
    None,       \* no package: a null pointer, an absent key, an absent file
    Partial,    \* the contents of a file that was not written to its end
    Matches,    \* Matches[d]: the package names pkg_match() accepts for d
    Deps,       \* Deps[p]: the @pkgdep patterns of p's packing list
    Conflicts,  \* Conflicts[p]: its @pkgcfl patterns
    Files,      \* Files[p]: its file entries
    Base,       \* Base[p]: the name without its version
    Rank,       \* Rank[p]: the position of p's version in dewey order
    Level,      \* a layering of the packages: dependencies are in lower layers
    Preserved   \* the packages whose archive holds a +PRESERVE file

ASSUME PkgDbAssumption ==
    /\ None \notin Package /\ Partial \notin Package /\ None # Partial
    /\ Matches \in [Pattern -> SUBSET Package]
    /\ Deps \in [Package -> SUBSET Pattern]
    /\ Conflicts \in [Package -> SUBSET Pattern]
    /\ Files \in [Package -> SUBSET File]
    /\ Rank \in [Package -> Nat]
    /\ Preserved \subseteq Package

\* install_depend_pkg() does not look for cycles: it would never return.
ASSUME DependenciesAcyclic ==
    /\ Level \in [Package -> Nat]
    /\ \A p, q \in Package : Base[p] = Base[q] => Level[p] = Level[q]
    /\ \A p \in Package : \A d \in Deps[p] : \A q \in Matches[d] :
           Level[q] < Level[p]

VARIABLES
    pkgdir,     \* the packages that have a directory in PKG_DBDIR
    contents,   \* ... whose directory holds a +CONTENTS file
    requiredBy, \* requiredBy[p]: the lines of p's +REQUIRED_BY
    automatic,  \* ... with automatic=yes in +INSTALLED_INFO
    preserve,   \* ... with a +PRESERVE file
    byfile,     \* pkgdb.byfile.db: the package recorded as owner of a file
    disk,       \* the package whose version of the file is in the prefix
    done,       \* auxiliary: installed to the end and not being removed
    orphaned,   \* auxiliary: had a +REQUIRED_BY line destroyed by a failed
                \* update, a forced removal or a failed registration
    stale,      \* auxiliary: a line naming it was left when it was removed,
                \* because remove_line() failed
    uncleared   \* auxiliary: its automatic mark could not be cleared

dbvars == <<pkgdir, contents, requiredBy, automatic, preserve, byfile, disk,
            done, orphaned, stale, uncleared>>

DbTypeOK ==
    /\ pkgdir \subseteq Package
    /\ contents \subseteq Package
    /\ requiredBy \in [Package -> SUBSET Package]
    /\ automatic \subseteq Package
    /\ preserve \subseteq Package
    /\ byfile \in [File -> Package \cup {None}]
    /\ disk \in [File -> Package \cup {None, Partial}]
    /\ done \subseteq Package
    /\ orphaned \subseteq Package
    /\ stale \subseteq Package
    /\ uncleared \subseteq Package

DbInit ==
    /\ pkgdir = {} /\ contents = {}
    /\ requiredBy = [p \in Package |-> {}]
    /\ automatic = {} /\ preserve = {}
    /\ byfile = [f \in File |-> None]
    /\ disk = [f \in File |-> None]
    /\ done = {} /\ orphaned = {} /\ stale = {} /\ uncleared = {}

-----------------------------------------------------------------------------
\* p is a best candidate of S in the sense of pkg_order().
IsBest(p, S) == p \in S /\ \A q \in S : Rank[q] <= Rank[p]

\* What iterate_pkg_db() offers to a pattern: directories, +CONTENTS or not.
Providers(d) == Matches[d] \cap pkgdir

OtherVersions(p) == {q \in pkgdir : Base[q] = Base[p]}

\* Variant: the file index is left as it is.
DeletePackageKeepsIndex(p, keepfiles, force) ==
    /\ disk' = [f \in File |->
                   IF f \in Files[p] /\ ~keepfiles /\ (disk[f] = p \/ force)
                   THEN None ELSE disk[f]]
    /\ UNCHANGED byfile

\* delete_package(): a file whose contents are another package's fails its
\* checksum and stays unless forced; its database entry goes in all cases.
DeletePackage(p, keepfiles, force) ==
    /\ disk' = [f \in File |->
                   IF f \in Files[p] /\ ~keepfiles /\ (disk[f] = p \/ force)
                   THEN None ELSE disk[f]]
    /\ byfile' = [f \in File |-> IF f \in Files[p] THEN None ELSE byfile[f]]

\* The +REQUIRED_BY files with a line for p.
Holders(p) == {q \in Package : p \in requiredBy[q]}

\* What remove_depend() leaves of the +REQUIRED_BY files: it visits every
\* installed package a dependency of p matches, and fails on those of kept.
WithoutLines(p, kept) ==
    [q \in Package |-> IF q \notin kept /\ \E d \in Deps[p] : q \in Providers(d)
                       THEN requiredBy[q] \ {p} ELSE requiredBy[q]]

\* Variant: the lines stay behind.
RemoveNoDepends(p, mayFail) == UNCHANGED <<requiredBy, stale>>

\* remove_line() may fail on its temporary file or its rename(); the removal
\* goes on, and the directory with it.
RemoveDepends(p, mayFail) ==
    \E kept \in SUBSET Holders(p) :
        /\ kept # {} => mayFail
        /\ requiredBy' = WithoutLines(p, kept)
        /\ stale' = IF kept = {} THEN stale \ {p} ELSE stale \cup {p}

\* var_set() on the +INSTALLED_INFO of p has succeeded, or has failed.
MarkAutomatic(p, yes) ==
    /\ automatic' = IF yes THEN automatic \cup {p} ELSE automatic \ {p}
    /\ uncleared' = uncleared \ {p}

\* The directory and every + file of it go, with the dependents it listed.
RemoveDirectory(p, lost) ==
    /\ pkgdir' = pkgdir \ {p}
    /\ contents' = contents \ {p}
    /\ requiredBy' = [requiredBy EXCEPT ![p] = {}]
    /\ automatic' = automatic \ {p}
    /\ preserve' = preserve \ {p}
    /\ done' = done \ {p}
    /\ orphaned' = (orphaned \cup (lost \cap pkgdir)) \ {p}
    /\ uncleared' = uncleared \ {p}
    /\ UNCHANGED stale
=============================================================================
