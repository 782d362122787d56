------------------------------- MODULE PkgDelete -------------------------------
(****************************************************************************)
(* robotpkg_delete (delete/pkg_delete.c): order the packages to delete so   *)
(* that dependents come first, add dependents (-r) or new leaves (-R, -A),  *)
(* check for preserved packages, then remove one package after the other.   *)
(*                                                                          *)
(* delopts holds command line flags: "r", "R", "A", "k", "f", "ff", "N".    *)
(****************************************************************************)
EXTENDS PkgDb

CONSTANT DeleteFaults   \* what may fail: "script", DEINSTALL scripts; "io",
                        \* the rewriting of a +REQUIRED_BY file

VARIABLES
    dpc,      \* where the program is
    pkgs,     \* the packages not ordered yet
    sorted,   \* sorted_pkgs: the packages to remove, first one first
    delopts

delvars == <<dpc, pkgs, sorted, delopts>>

DelTypeOK ==
    /\ dpc \in {"none", "sort", "forced", "leaves", "preserve", "remove",
                "files", "depends", "directory"}
    /\ pkgs \subseteq Package
    /\ sorted \in Seq(Package)
    /\ delopts \subseteq {"r", "R", "A", "k", "f", "ff", "N"}

DelInit == dpc = "none" /\ pkgs = {} /\ sorted = <<>> /\ delopts = {}

Listed == {sorted[i] : i \in DOMAIN sorted}
Forced == delopts \cap {"f", "ff"} # {}
UnregisterOnly == "N" \in delopts
Victim == sorted[1]

DelGoto(pc) == dpc' = pc /\ UNCHANGED <<pkgs, sorted, delopts>>

\* The program ends, at its end or at the first error.
DelExit == dpc' = "none" /\ pkgs' = {} /\ sorted' = <<>> /\ UNCHANGED delopts

\* robotpkg_delete [opts] S, by a user, of installed packages.
DeleteCommand(S, opts) ==
    /\ dpc' = "sort" /\ pkgs' = S /\ sorted' = <<>> /\ delopts' = opts
    /\ UNCHANGED dbvars

-----------------------------------------------------------------------------
(* sort_and_recurse().                                                      *)

\* Variant: only dependents the user has named count.
ReadyAmongNamed(p) == requiredBy[p] \cap pkgs = {}

\* process_required_by(), actions 0 and 1: no dependent remains.
Ready(p) == requiredBy[p] \subseteq Listed

\* The dependents action 1 prepends to the list.
Missing(p) == requiredBy[p] \ (Listed \cup pkgs)

SortMove(p) ==
    /\ dpc = "sort" /\ p \in pkgs /\ Ready(p)
    /\ pkgs' = pkgs \ {p}
    /\ sorted' = Append(sorted, p)
    /\ UNCHANGED <<dpc, delopts, dbvars>>

SortRecurse(p) ==
    /\ dpc = "sort" /\ p \in pkgs /\ "r" \in delopts /\ Missing(p) # {}
    /\ pkgs' = pkgs \cup Missing(p)
    /\ UNCHANGED <<dpc, sorted, delopts, dbvars>>

\* Variant: the sorting loop goes on without progress.
SortRetries ==
    /\ dpc = "sort" /\ pkgs # {}
    /\ \A p \in pkgs : ~Ready(p) /\ ~("r" \in delopts /\ Missing(p) # {})
    /\ UNCHANGED dbvars
    /\ IF Forced THEN DelGoto("forced") ELSE DelGoto("sort")

\* No progress: what is left is still required by other packages.
SortStuck ==
    /\ dpc = "sort" /\ pkgs # {}
    /\ \A p \in pkgs : ~Ready(p) /\ ~("r" \in delopts /\ Missing(p) # {})
    /\ UNCHANGED dbvars
    /\ IF Forced THEN DelGoto("forced") ELSE DelExit

SortForced(p) ==
    /\ dpc = "forced" /\ p \in pkgs
    /\ pkgs' = pkgs \ {p}
    /\ sorted' = Append(sorted, p)
    /\ UNCHANGED <<dpc, delopts, dbvars>>

SortDone ==
    /\ dpc \in {"sort", "forced"} /\ pkgs = {}
    /\ DelGoto(IF delopts \cap {"R", "A"} # {} THEN "leaves" ELSE "preserve")
    /\ UNCHANGED dbvars

-----------------------------------------------------------------------------
(* find_new_leaves() and find_preserve_pkgs().                              *)

NewLeaf(p) ==
    /\ p \in pkgdir \ (preserve \cup Listed)
    /\ "R" \in delopts \/ p \in automatic
    /\ requiredBy[p] # {} /\ requiredBy[p] \subseteq Listed

AddLeaf(p) ==
    /\ dpc = "leaves" /\ NewLeaf(p)
    /\ sorted' = Append(sorted, p)
    /\ UNCHANGED <<dpc, pkgs, delopts, dbvars>>

LeavesDone ==
    /\ dpc = "leaves" /\ \A p \in Package : ~NewLeaf(p)
    /\ DelGoto("preserve")
    /\ UNCHANGED dbvars

\* -k drops the preserved packages from the list.
DropPreserved(i) ==
    /\ dpc = "preserve" /\ "k" \in delopts
    /\ i \in DOMAIN sorted /\ sorted[i] \in preserve
    /\ sorted' = SubSeq(sorted, 1, i - 1) \o SubSeq(sorted, i + 1, Len(sorted))
    /\ UNCHANGED <<dpc, pkgs, delopts, dbvars>>

\* Variant: a single -f is enough.
CheckPreserveOnce ==
    /\ dpc = "preserve"
    /\ UNCHANGED dbvars
    /\ \/ Listed \cap preserve = {} /\ DelGoto("remove")
       \/ /\ Listed \cap preserve # {} /\ "k" \notin delopts
          /\ IF Forced THEN DelGoto("remove") ELSE DelExit

\* Without it, -ff deletes them, -f -N unregisters them, or nothing is done.
CheckPreserve ==
    /\ dpc = "preserve"
    /\ UNCHANGED dbvars
    /\ \/ Listed \cap preserve = {} /\ DelGoto("remove")
       \/ /\ Listed \cap preserve # {} /\ "k" \notin delopts
          /\ IF "ff" \in delopts \/ {"f", "N"} \subseteq delopts
             THEN DelGoto("remove") ELSE DelExit

-----------------------------------------------------------------------------
(* The removal loop of main() and remove_pkg().                             *)

RemoveDone ==
    /\ dpc = "remove" /\ sorted = <<>>
    /\ UNCHANGED dbvars
    /\ DelExit

\* The error is counted; only -f goes on with the next package.
RemoveMissing ==
    /\ dpc = "remove" /\ sorted # <<>> /\ Victim \notin contents
    /\ UNCHANGED dbvars
    /\ IF Forced THEN sorted' = Tail(sorted) /\ UNCHANGED <<dpc, pkgs, delopts>>
                 ELSE DelExit

\* run_deinstall_script(DEINSTALL) succeeds, or is overridden by -f.
RemoveStarts ==
    /\ dpc = "remove" /\ sorted # <<>> /\ Victim \in contents
    /\ UNCHANGED dbvars
    /\ DelGoto("files")

DeinstallFails ==
    /\ dpc = "remove" /\ sorted # <<>> /\ Victim \in contents
    /\ "script" \in DeleteFaults /\ ~UnregisterOnly /\ ~Forced
    /\ UNCHANGED dbvars
    /\ DelExit

RemoveFiles ==
    /\ dpc = "files"
    /\ DeletePackage(Victim, UnregisterOnly, Forced)
    /\ done' = done \ {Victim}
    /\ UNCHANGED <<pkgdir, contents, requiredBy, automatic, preserve, orphaned,
                   stale, uncleared>>
    /\ DelGoto("depends")

RemoveFromDepends ==
    /\ dpc = "depends"
    /\ RemoveDepends(Victim, "io" \in DeleteFaults)
    /\ UNCHANGED <<pkgdir, contents, automatic, preserve, byfile, disk, done,
                   orphaned, uncleared>>
    /\ DelGoto("directory")

\* The directory goes; a failing POST-DEINSTALL script is an error after it.
RemovePkgDirectory ==
    /\ dpc = "directory"
    /\ RemoveDirectory(Victim, IF Forced THEN requiredBy[Victim] ELSE {})
    /\ UNCHANGED <<byfile, disk>>
    /\ \/ dpc' = "remove" /\ sorted' = Tail(sorted) /\ UNCHANGED <<pkgs, delopts>>
       \/ "script" \in DeleteFaults /\ ~UnregisterOnly /\ ~Forced /\ DelExit

-----------------------------------------------------------------------------
DeleteStep ==
    \/ \E p \in Package : SortMove(p) \/ SortRecurse(p) \/ SortForced(p)
                          \/ AddLeaf(p)
    \/ \E i \in DOMAIN sorted : DropPreserved(i)
    \/ SortStuck \/ SortDone \/ LeavesDone \/ CheckPreserve
    \/ RemoveDone \/ RemoveMissing \/ RemoveStarts \/ DeinstallFails
    \/ RemoveFiles \/ RemoveFromDepends \/ RemovePkgDirectory
=============================================================================
