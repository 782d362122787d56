------------------------------ MODULE PkgImplements ----------------------------
(****************************************************************************)
(* The package tools, which may fail anywhere but are not interrupted,      *)
(* implement the abstract set of packages.                                  *)
(****************************************************************************)
EXTENDS PkgInv

\* The dependents of a version being replaced: they are filed with the new
\* one from start_replacing() on, and are served again when it is installed.
Replaced(t) ==
    IF t.other # None /\ t.pc \notin {"none", "check", "mkdir", "meta", "move"}
    THEN requiredBy[t.pkg] ELSE {}

\* With -f, the dependents of the package robotpkg_delete removes.
Deserted ==
    IF Forced /\ dpc \in {"files", "depends", "directory"}
    THEN requiredBy[Victim] ELSE {}

Abstract == INSTANCE PackageSet WITH
    installed <- done,
    cutoff <- orphaned \cup Deserted
                  \cup UNION {Replaced(t) : t \in Waiting \cup {task}},
    careful <- dpc # "none" /\ ~Forced

\* A package is installed when what it depends on is, and nothing a package
\* vouched for needs is removed: not by robotpkg_delete, not by robotpkg_add
\* when it replaces a version, not by either when it fails half way.
ImplementsPackageSet == Abstract!Spec
=============================================================================
