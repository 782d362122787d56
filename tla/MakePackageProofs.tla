--------------------------- MODULE MakePackageProofs ----------------------------
(****************************************************************************)
(* What make publishes is whole unless it is marked, for any number of      *)
(* versions, whatever fails and wherever make is interrupted, in the        *)
(* rewriting of the summary and in `make depackage' too.  The invariant     *)
(* behind it says what has been done at each place make can be, and that    *)
(* nothing is in the repository yet of a version that the tree did not      *)
(* have, or that was not installed since.                                   *)
(* A success has published what is installed, if the marker can be made.    *)
(****************************************************************************)
EXTENDS MakePackage, TLAPS

NothingOf(v) ==
    /\ archive[v] = "none"
    /\ v \notin links /\ v \notin Entries(summary) /\ v \notin Entries(backup)

InOrder == installed # Absent => installed <= current

FutureClean ==
    \A v \in Version : v > current => NothingOf(v)

MismatchClean == installed \notin {Absent, current} => NothingOf(current)

Rewriting == upc \in {"rewrite", "redelist"}

\* What is listed is listed from the backup again.
OneSummary ==
    /\ upc = "delist" => summary # Absent
    /\ Rewriting =>
           /\ summary = Absent /\ backup # Absent
           /\ torn # "copied"
           /\ \A v \in Version \ (stale \cup unguarded) :
                  v \in backup => archive[v] = "whole"

Guarded == upc = "create" => installed = current \/ installed \in unguarded

Marked ==
    upc \in {"tarup", "create", "depends", "unlink", "link", "summary",
             "rewrite", "unmark", "withdraw", "delist", "redelist",
             "withdraw links", "give up"} =>
        current \in stale \/ target = "depackage"

Packaging == {"check", "mark", "tarup", "create", "depends", "unlink", "link",
              "summary", "rewrite", "unmark", "failed", "give up"}

Targets == upc \in Packaging => target # "depackage"

Created ==
    upc \in {"depends", "unlink", "link", "summary", "rewrite", "unmark"} =>
        archive[installed] = "whole"

Withdrawn ==
    /\ upc \in {"delist", "redelist", "withdraw links", "give up"} =>
           archive[current] = "none"
    /\ upc \in {"withdraw links", "give up"} => current \notin Entries(summary)
    /\ upc = "give up" => current \notin links

IInv ==
    /\ TypeOK
    /\ InOrder /\ FutureClean /\ MismatchClean
    /\ OneSummary /\ Guarded /\ Marked /\ Targets /\ Created /\ Withdrawn
    /\ UnmarkedWhole /\ OthersKept

LEMMA InitIInv == Init => IInv
BY MakePackageAssumption
DEF Init, IInv, TypeOK, InOrder, FutureClean, MismatchClean, OneSummary, Guarded, Marked,
    Targets, Created, Withdrawn, UnmarkedWhole, OthersKept, NothingOf, Entries,
    Entry, Version, Packaging, Guarded, Rewriting

\* What is installed afresh is of the version in the tree.
LEMMA InstalledInOrder ==
    ASSUME NEW c \in Version, NEW i, i = Absent \/ i = c
    PROVE  i # Absent => i <= c
BY DEF Version

\* Every step keeps the invariant.
LEMMA NextIInv ==
    ASSUME IInv, [Next]_vars
    PROVE  IInv'
<1>0. current \in Version /\ current # Absent
  BY MakePackageAssumption DEF IInv, TypeOK, Version
<1> USE MakePackageAssumption
    DEF IInv, TypeOK, InOrder, FutureClean, MismatchClean, OneSummary, Guarded, Marked,
        Targets, Created, Withdrawn, UnmarkedWhole, OthersKept, NothingOf,
        Entries, Entry, Version, Packaging, Goto, tree, repository, aux,
        Rewriting
<1>1. CASE Pull
  \* The new version is one nothing is in the repository of, and what is
  \* installed is another.
  BY <1>1 DEF Pull
<1>2. CASE Install
  BY <1>2 DEF Install
<1>3. CASE \E t \in {"package", "tarup", "depackage"} : Start(t)
  BY <1>3 DEF Start
<1>4. CASE CheckInstalled
  BY <1>4 DEF CheckInstalled
<1>5. CASE InstallFirst
  \* What is in the repository may be of the version installed now.
  <2>1. /\ UNCHANGED <<current, archive, links, summary, backup, stale, target>>
        /\ UNCHANGED <<unguarded, torn>>
        /\ installed = Absent /\ upc = "check"
        /\ \/ installed' = current /\ upc' = "mark"
           \/ installed' = installed /\ upc' = "none"
    BY <1>5 DEF InstallFirst
  <2>2. TypeOK'
    BY <1>0, <2>1
  <2>3. installed' # Absent => installed' <= current'
    <3>1. installed' = Absent \/ installed' = current'
      BY <2>1
    <3>2. current' \in Version
      BY <1>0, <2>1
    <3> HIDE MakePackageAssumption
        DEF IInv, TypeOK, InOrder, FutureClean, MismatchClean, OneSummary,
            Guarded, Marked, Targets, Created, Withdrawn, UnmarkedWhole, OthersKept,
            NothingOf, Entries, Entry, Version, Packaging, Goto, tree,
            repository, aux, Rewriting
    <3> QED BY <3>1, <3>2, InstalledInOrder
  <2>4. InOrder'
    BY <2>3
  <2>5. FutureClean' /\ MismatchClean'
    BY <1>0, <2>1
  <2>6. OneSummary' /\ Guarded' /\ Marked' /\ Targets' /\ Created' /\ Withdrawn'
    BY <1>0, <2>1
  <2>7. UnmarkedWhole' /\ OthersKept'
    BY <1>0, <2>1
  <2> QED BY <2>2, <2>4, <2>5, <2>6, <2>7
<1>6. CASE Mismatched
  BY <1>6 DEF Mismatched
<1>7. CASE SetStale
  BY <1>7 DEF SetStale
<1>8. CASE RemoveArchive
  BY <1>8 DEF RemoveArchive
<1>9. CASE CreateStarts
  BY <1>9 DEF CreateStarts
<1>10. CASE CreateEnds
  BY <1>10 DEF CreateEnds
<1>11. CASE ArchiveDepends
  BY <1>11 DEF ArchiveDepends
<1>12. CASE UnlinkPackage
  BY <1>12 DEF UnlinkPackage
<1>13. CASE LinkPackage
  BY <1>13 DEF LinkPackage
<1>14. CASE BackUpSummary
  BY <1>14 DEF BackUpSummary, BackUp
<1>15. CASE RewriteSummary
  BY <1>15 DEF RewriteSummary, Updated, Written, BrokenOff
<1>16. CASE UnsetStale
  \* Either all is made for the version in the tree, or nothing of it was there.
  BY <1>16 DEF UnsetStale
<1>17. CASE Success
  BY <1>17 DEF Success
<1>18. CASE Failure
  BY <1>18 DEF Failure
<1>19. CASE WithdrawArchive
  BY <1>19 DEF WithdrawArchive, Withdrawing
<1>20. CASE BackUpDelisted
  BY <1>20 DEF BackUpDelisted, BackUp
<1>21. CASE Delist
  BY <1>21 DEF Delist, Delisted, Written, BrokenOff
<1>22. CASE WithdrawLinks
  <2>1. /\ UNCHANGED <<current, installed, archive, summary, backup, stale>>
        /\ UNCHANGED <<target, torn>>
        /\ upc = "withdraw links" /\ links' = links \ {current}
        /\ unguarded' = unguarded \ {current}
        /\ \/ upc' = "none"
           \/ upc' = "give up" /\ target # "depackage"
    BY <1>22 DEF WithdrawLinks
  <2>2. TypeOK' /\ InOrder' /\ FutureClean' /\ MismatchClean'
    BY <2>1
  <2>3. OneSummary' /\ Guarded' /\ Marked' /\ Targets' /\ Created'
    BY <2>1
  <2>4. Withdrawn' /\ OthersKept'
    BY <2>1
  <2>5. UnmarkedWhole'
    BY <1>0, <2>1
  <2> QED BY <2>2, <2>3, <2>4, <2>5
<1>23. CASE GiveUp
  BY <1>23 DEF GiveUp
<1>24. CASE Crash
  \* Where no other step may follow unmarked, the version is marked.
  <2>1. CASE upc = "rewrite"
    BY <1>24, <2>1 DEF Crash, BrokenOff, Updated
  <2>2. CASE upc = "redelist"
    BY <1>24, <2>2 DEF Crash, BrokenOff, Delisted
  <2>3. CASE upc \notin {"rewrite", "redelist"}
    BY <1>24, <2>3 DEF Crash
  <2> QED BY <2>1, <2>2, <2>3
<1>25. CASE UNCHANGED vars
  <2>1. UNCHANGED <<current, installed, archive, links, summary, backup, stale,
                    target, upc, unguarded, torn>>
    BY <1>25 DEF vars
  <2>2. TypeOK' /\ InOrder' /\ FutureClean' /\ MismatchClean'
    BY <2>1
  <2>3. OneSummary' /\ Guarded' /\ Marked' /\ Targets' /\ Created' /\ Withdrawn'
    BY <2>1
  <2>4. UnmarkedWhole' /\ OthersKept'
    BY <2>1
  <2> QED BY <2>2, <2>3, <2>4
<1> QED
  BY <1>1, <1>2, <1>3, <1>4, <1>5, <1>6, <1>7, <1>8, <1>9, <1>10, <1>11,
     <1>12, <1>13, <1>14, <1>15, <1>16, <1>17, <1>18, <1>19, <1>20, <1>21,
     <1>22, <1>23, <1>24, <1>25 DEF Next

-----------------------------------------------------------------------------
\* For every number of versions, whatever fails and wherever make is stopped: an
\* archive is whole, and so is what is linked or listed, unless it is marked or
\* a depackage, or a tarup of another version than the tree's, broke off over it.
THEOREM UnmarkedCorrect == Spec => []UnmarkedWhole
<1>1. IInv /\ [Next]_vars => IInv'
  BY NextIInv
<1>2. IInv => UnmarkedWhole
  BY DEF IInv
<1> QED BY InitIInv, <1>1, <1>2, PTL DEF Spec

\* For all other packages of the repository: the summary keeps their entries
\* until a rewriting of it breaks off, and its copy until the rewriting after.
THEOREM OthersCorrect == Spec => []OthersKept
<1>1. IInv /\ [Next]_vars => IInv'
  BY NextIInv
<1>2. IInv => OthersKept
  BY DEF IInv
<1> QED BY InitIInv, <1>1, <1>2, PTL DEF Spec

\* A failure that was marked leaves nothing of the version in the tree.
THEOREM FailureCorrect == Spec => FailureWithdrawn
<1>1. IInv /\ [Next]_vars => IInv'
  BY NextIInv
<1>2. IInv => (GiveUp => /\ archive[current] = "none"
                         /\ current \notin links \cup Entries(summary))
  BY DEF IInv, Withdrawn, GiveUp
<1>3. IInv /\ [Next]_vars =>
          [GiveUp => /\ archive[current] = "none"
                     /\ current \notin links \cup Entries(summary)]_vars
  BY <1>2
<1> QED BY InitIInv, <1>1, <1>3, PTL DEF Spec, FailureWithdrawn

\* The types of the package targets hold, however often they are run or stopped.
THEOREM TypeCorrect == Spec => []TypeOK
<1>1. IInv /\ [Next]_vars => IInv'
  BY NextIInv
<1>2. IInv => TypeOK
  BY DEF IInv
<1> QED BY InitIInv, <1>1, <1>2, PTL DEF Spec

-----------------------------------------------------------------------------
(* What has been published on the way to success.                           *)

Listed == installed \in Entries(summary)
Linked == installed \in links \/ NoPublicBin

Published ==
    /\ upc \in {"summary", "rewrite", "unmark"} => Linked
    /\ upc = "unmark" => Listed
    /\ upc = "failed" /\ current \notin stale =>
           archive[installed] = "whole" /\ Linked /\ Listed

LEMMA PublishedStep ==
    ASSUME IInv, Published, [Next]_vars, "repository" \notin Faults
    PROVE  Published'
<1> USE DEF Published, Listed, Linked, Goto, tree, repository, aux
<1>1. CASE \/ Pull \/ Install \/ CheckInstalled \/ InstallFirst \/ Mismatched
           \/ \E t \in {"package", "tarup", "depackage"} : Start(t)
  BY <1>1
  DEF Pull, Install, CheckInstalled, InstallFirst, Mismatched, Start
\* What fails is marked.
<1>2. CASE SetStale \/ RemoveArchive \/ CreateStarts \/ ArchiveDepends
  BY <1>2 DEF SetStale, RemoveArchive, CreateStarts, ArchiveDepends, IInv,
              Marked, Targets, Packaging
<1>3. CASE CreateEnds
  BY <1>3 DEF CreateEnds, IInv, Marked, Targets, Packaging
<1>4. CASE UnlinkPackage \/ LinkPackage
  BY <1>4 DEF UnlinkPackage, LinkPackage, IInv, Marked, Targets, Packaging
<1>5. CASE BackUpSummary
  BY <1>5 DEF BackUpSummary, BackUp
<1>6. CASE RewriteSummary
  <2>1. CASE upc' = "failed"
    BY <1>6, <2>1 DEF RewriteSummary, IInv, Marked, Targets, Packaging
  <2>2. CASE upc' = "unmark" /\ Written(Updated)
    <3>1. installed \in summary'
      BY <1>6, <2>2 DEF RewriteSummary, Written, Updated, IInv, Created
    <3>2. summary' \in SUBSET Entry
      BY <1>6, <2>2, MakePackageAssumption
      DEF RewriteSummary, Written, Updated, IInv, TypeOK, OneSummary, Rewriting,
          Targets, Packaging, Entry
    <3>3. summary' # Absent
      BY <3>2, MakePackageAssumption DEF Entry, Version
    <3> QED BY <1>6, <2>2, <3>1, <3>3 DEF RewriteSummary, Entries
  <2> QED BY <1>6, <2>1, <2>2 DEF RewriteSummary
<1>7. CASE UnsetStale
  BY <1>7 DEF UnsetStale, IInv, Created, Entries
<1>8. CASE \/ Success \/ Failure \/ WithdrawArchive \/ BackUpDelisted \/ Delist
           \/ WithdrawLinks \/ GiveUp \/ Crash
  BY <1>8 DEF Success, Failure, WithdrawArchive, BackUpDelisted, Delist,
              WithdrawLinks, GiveUp, Crash
<1>9. CASE UNCHANGED vars
  BY <1>9 DEF vars, Entries
<1> QED BY <1>1, <1>2, <1>3, <1>4, <1>5, <1>6, <1>7, <1>8, <1>9 DEF Next

\* When make ends well, what is installed is archived, linked and listed: the
\* marker decides (package-failed), and nothing removes it but the last command
\* of package-failsafe.  A marker that cannot be made is the exception.
THEOREM SuccessCorrect ==
    ASSUME "repository" \notin Faults
    PROVE  Spec => SuccessPublished
<1> DEFINE A == Success => /\ archive[installed] = "whole"
                           /\ installed \in links \/ NoPublicBin
                           /\ installed \in Entries(summary)
<1>1. Init => IInv /\ Published
  BY InitIInv DEF Init, Published
<1>2. IInv /\ Published /\ [Next]_vars => (IInv /\ Published)'
  BY NextIInv, PublishedStep
<1>3. IInv /\ Published => A
  BY DEF Success, Published, Listed, Linked
<1>4. IInv /\ Published /\ [Next]_vars => [A]_vars
  BY <1>3
<1> QED BY <1>1, <1>2, <1>4, PTL DEF Spec, SuccessPublished
=============================================================================
