------------------------------- MODULE PackageSet ------------------------------
(****************************************************************************)
(* What the package tools promise the rest of robotpkg, whatever their      *)
(* files look like: a set of installed packages, one of which comes or goes *)
(* at a time, and in which every package that is vouched for has what it    *)
(* depends on.  A tool may stop vouching for packages, and does so before   *)
(* it takes away what they need, but not when it has to be careful: then    *)
(* nothing may go that a package vouched for needs.                         *)
(****************************************************************************)
CONSTANTS Package, Pattern, Matches, Deps

VARIABLES
    installed,
    cutoff,     \* the packages nobody vouches for any more
    careful

Served(q) == \A d \in Deps[q] : Matches[d] \cap installed # {}

Promise == \A q \in installed \ cutoff : Served(q)

Init == installed = {} /\ cutoff = {} /\ careful = FALSE

Install(p) ==
    /\ p \notin installed /\ Served(p)
    /\ installed' = installed \cup {p}
    /\ cutoff' \subseteq cutoff
    /\ Promise'
    /\ careful' = careful

Remove(p) ==
    /\ p \in installed
    /\ installed' = installed \ {p}
    /\ Promise'
    /\ cutoff' = cutoff /\ careful' = careful

\* Packages are vouched for again, or leave the set.
Record ==
    /\ cutoff' \subseteq cutoff
    /\ Promise'
    /\ careful' \in BOOLEAN
    /\ UNCHANGED installed

CutOff ==
    /\ ~careful
    /\ cutoff \subseteq cutoff'
    /\ careful' \in BOOLEAN
    /\ UNCHANGED installed

Next == (\E p \in Package : Install(p) \/ Remove(p)) \/ Record \/ CutOff

Spec == Init /\ [][Next]_<<installed, cutoff, careful>>
=============================================================================
