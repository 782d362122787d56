-------------------------------- MODULE PkgAdmin -------------------------------
(****************************************************************************)
(* The commands of robotpkg_admin (admin/main.c) that write the database:   *)
(* rebuild, rebuild-tree, set automatic and unset automatic.                *)
(****************************************************************************)
EXTENDS PkgDb

VARIABLES
    apc,      \* where the program is
    atodo,    \* the packages it has still to visit
    tree      \* rebuild-tree: the +REQUIRED_BY files it has computed

admvars == <<apc, atodo, tree>>

NoTree == [p \in Package |-> {}]

AdmTypeOK ==
    /\ apc \in {"none", "rebuild", "remove", "write"}
    /\ atodo \subseteq Package
    /\ tree \in [Package -> SUBSET Package]

AdmInit == apc = "none" /\ atodo = {} /\ tree = NoTree

AdmExit == apc' = "none" /\ atodo' = {} /\ tree' = NoTree

-----------------------------------------------------------------------------
(* rebuild: unlink pkgdb.byfile.db, then add the packages one at a time.    *)

RebuildCommand ==
    /\ byfile' = [f \in File |-> None]
    /\ apc' = "rebuild" /\ atodo' = pkgdir /\ UNCHANGED tree
    /\ UNCHANGED <<pkgdir, contents, requiredBy, automatic, preserve, disk,
                   done, orphaned, stale, uncleared>>

\* Variant: only files with the contents the package gave them.
RebuildAddUnchanged(p) ==
    /\ apc = "rebuild" /\ p \in atodo /\ p \in contents
    /\ byfile' = [f \in File |->
                     IF f \in Files[p] /\ disk[f] = p /\ byfile[f] = None
                     THEN p ELSE byfile[f]]
    /\ atodo' = atodo \ {p}
    /\ UNCHANGED <<apc, tree, pkgdir, contents, requiredBy, automatic,
                   preserve, disk, done, orphaned, stale, uncleared>>

\* add_pkg(): the first package that lists an existing file gets it.
RebuildAdd(p) ==
    /\ apc = "rebuild" /\ p \in atodo /\ p \in contents
    /\ byfile' = [f \in File |->
                     IF f \in Files[p] /\ disk[f] # None /\ byfile[f] = None
                     THEN p ELSE byfile[f]]
    /\ atodo' = atodo \ {p}
    /\ UNCHANGED <<apc, tree, pkgdir, contents, requiredBy, automatic,
                   preserve, disk, done, orphaned, stale, uncleared>>

\* A directory without +CONTENTS ends the program.
RebuildAborts(p) ==
    /\ apc = "rebuild" /\ p \in atodo /\ p \notin contents
    /\ AdmExit /\ UNCHANGED dbvars

RebuildDone ==
    /\ apc = "rebuild" /\ atodo = {}
    /\ AdmExit /\ UNCHANGED dbvars

-----------------------------------------------------------------------------
(* rebuild-tree: compute every +REQUIRED_BY, remove them all, write them.   *)

\* Variant: the dependencies of a package instead of its dependents.
BackwardDepends(best) ==
    [p \in Package |-> {q \in pkgdir : \E d \in Deps[p] : best[d] = q}]

\* add_depends_of() over all packages: the best provider of each pattern.
ForwardDepends(best) ==
    [p \in Package |-> {q \in pkgdir : \E d \in Deps[q] : best[d] = p}]

\* A directory without +CONTENTS ends the program before it has written.
RebuildTreeCommand ==
    /\ pkgdir \subseteq contents
    /\ \E best \in [Pattern -> Package \cup {None}] :
           /\ \A d \in Pattern : IF Providers(d) = {} THEN best[d] = None
                                 ELSE IsBest(best[d], Providers(d))
           /\ tree' = ForwardDepends(best)
    /\ apc' = "remove" /\ atodo' = pkgdir
    /\ UNCHANGED dbvars

RemoveRequiredBy(p) ==
    /\ apc = "remove" /\ p \in atodo
    /\ requiredBy' = [requiredBy EXCEPT ![p] = {}]
    /\ orphaned' = orphaned \cup (requiredBy[p] \cap pkgdir)
    /\ atodo' = atodo \ {p}
    /\ UNCHANGED <<apc, tree, pkgdir, contents, automatic, preserve, byfile,
                   disk, done, stale, uncleared>>

RemovedRequiredBy ==
    /\ apc = "remove" /\ atodo = {}
    /\ apc' = "write" /\ atodo' = pkgdir
    /\ UNCHANGED <<tree, dbvars>>

WriteRequiredBy(p) ==
    /\ apc = "write" /\ p \in atodo
    /\ requiredBy' = [requiredBy EXCEPT ![p] = @ \cup tree[p]]
    /\ atodo' = atodo \ {p}
    /\ UNCHANGED <<apc, tree, pkgdir, contents, automatic, preserve, byfile,
                   disk, done, orphaned, stale, uncleared>>

\* Those left without a provider stay the reader's to repair.
RebuildTreeDone ==
    /\ apc = "write" /\ atodo = {}
    /\ orphaned' = {q \in pkgdir : \E d \in Deps[q] : Providers(d) = {}}
    /\ stale' = {}
    /\ UNCHANGED <<pkgdir, contents, requiredBy, automatic, preserve, byfile,
                   disk, done, uncleared>>
    /\ AdmExit

-----------------------------------------------------------------------------
\* set automatic=yes and unset automatic, on an installed package.
SetAutomatic(p, yes) ==
    /\ p \in pkgdir
    /\ MarkAutomatic(p, yes)
    /\ UNCHANGED <<pkgdir, contents, requiredBy, preserve, byfile, disk, done,
                   orphaned, stale, admvars>>

AdminStep ==
    \/ \E p \in Package : \/ RebuildAdd(p) \/ RebuildAborts(p)
                          \/ RemoveRequiredBy(p) \/ WriteRequiredBy(p)
    \/ RebuildDone \/ RemovedRequiredBy \/ RebuildTreeDone
=============================================================================
