------------------------------ MODULE MakePackage ------------------------------
(****************************************************************************)
(* `make package', `make tarup' and `make depackage' in the directory of    *)
(* one package (mk/package/package.mk, mk/pkg/package.mk): the archive of   *)
(* the installed version is created in the repository, linked and listed in *)
(* its summary.  A marker tells, to make itself and to bulk builds, that    *)
(* the archive of the version in the tree is not to be trusted.             *)
(*                                                                          *)
(* The archive is that of what is installed, which `tarup' allows to be     *)
(* another version than the tree's; the marker and what is withdrawn go by  *)
(* the version of the tree.  The repository and the directories of links    *)
(* have a summary each, written alike: that of the repository is modelled.  *)
(****************************************************************************)
EXTENDS Integers

CONSTANTS
    MaxVersion,     \* versions are numbered in the order they appear
    Other,          \* the other packages of the repository
    Absent,
    NoPublicBin,    \* NO_PUBLIC_BIN is set: no links
    Faults          \* what may fail: "install", "create", "dependency",
                    \* "links"; "repository": the marker cannot be made;
                    \* "summary": the writing of a summary; "crash": make is
                    \* interrupted

ASSUME MakePackageAssumption ==
    /\ MaxVersion \in Nat /\ MaxVersion > 0
    /\ NoPublicBin \in BOOLEAN
    /\ \A S \in SUBSET (Other \cup 1..MaxVersion) : Absent # S
    /\ Absent \notin 1..MaxVersion /\ Other \cap 1..MaxVersion = {}
    /\ Faults \subseteq {"install", "create", "dependency", "links",
                         "repository", "summary", "crash"}

Version == 1..MaxVersion

VARIABLES
    current,    \* PKGNAME, the version in the tree
    installed,  \* _PKG_BEST_EXISTS PKGWILDCARD
    archive,    \* PKGREPOSITORY: "none", "partial" or "whole"
    links,      \* the links to archives in PKGPUBLICSUBDIR
    summary,    \* the entries of PKGSUMMARY
    backup,     \* the entries of PKGSUMMARY~
    stale,      \* the versions whose _PKGFILE_STALE is there
    target,     \* the target make was given
    upc,        \* where make is
    unguarded,  \* auxiliary: the versions make works on, or broke off over,
                \* without making a marker of theirs
    torn        \* auxiliary: a rewriting of the summary has broken off
                \* ("copied") and another has followed it ("lost")

aux == <<unguarded, torn>>
vars == <<current, installed, archive, links, summary, backup, stale, target,
          upc, unguarded, torn>>

tree == <<current, installed>>
repository == <<archive, links, summary, backup>>

Entry == Other \cup Version

TypeOK ==
    /\ current \in Version
    /\ installed \in {Absent} \cup Version
    /\ archive \in [Version -> {"none", "partial", "whole"}]
    /\ links \subseteq Version
    /\ summary \in {Absent} \cup SUBSET Entry
    /\ backup \in {Absent} \cup SUBSET Entry
    /\ stale \subseteq Version
    /\ target \in {"package", "tarup", "depackage"}
    /\ upc \in {"none", "check", "mark", "tarup", "create", "depends",
                "unlink", "link", "summary", "rewrite", "unmark", "failed",
                "withdraw", "delist", "redelist", "withdraw links", "give up"}
    /\ upc \notin {"none", "check"} => installed # Absent \/ target = "depackage"
    /\ unguarded \subseteq Version /\ torn \in {"no", "copied", "lost"}

Init ==
    /\ current = 1 /\ installed = Absent
    /\ archive = [v \in Version |-> "none"]
    /\ links = {} /\ summary = Other /\ backup = Absent
    /\ stale = {} /\ target = "package" /\ upc = "none"
    /\ unguarded = {} /\ torn = "no"

Goto(pc) == upc' = pc

-----------------------------------------------------------------------------
(* Between two runs of make.                                                *)

Pull ==
    /\ upc = "none" /\ current < MaxVersion
    /\ current' = current + 1
    /\ UNCHANGED <<installed, repository, stale, target, upc, aux>>

\* make install, robotpkg_delete.
Install ==
    /\ upc = "none"
    /\ installed' \in {Absent, current} \ {installed}
    /\ UNCHANGED <<current, repository, stale, target, upc, aux>>

Start(t) ==
    /\ upc = "none"
    /\ target' = t
    /\ Goto(IF t = "depackage" THEN "withdraw" ELSE "check")
    /\ UNCHANGED <<tree, repository, stale, aux>>

-----------------------------------------------------------------------------
(* real-package.                                                            *)

\* pkg-check-installed.
CheckInstalled ==
    /\ upc = "check"
    /\ \/ installed = current
       \/ installed # Absent /\ target = "tarup"
    /\ Goto("mark")
    /\ UNCHANGED <<tree, repository, stale, target, aux>>

InstallFirst ==
    /\ upc = "check" /\ installed = Absent
    /\ \/ installed' = current /\ Goto("mark")
       \/ "install" \in Faults /\ UNCHANGED installed /\ Goto("none")
    /\ UNCHANGED <<current, repository, stale, target, aux>>

Mismatched ==
    /\ upc = "check" /\ installed \notin {Absent, current}
    /\ target # "tarup"
    /\ Goto("none")
    /\ UNCHANGED <<tree, repository, stale, target, aux>>

\* package-set-stale.
SetStale ==
    /\ upc = "mark"
    /\ \/ stale' = stale \cup {current} /\ Goto("tarup")
       \/ "repository" \in Faults /\ UNCHANGED stale /\ Goto("failed")
    /\ UNCHANGED <<tree, repository, target, aux>>

\* pkg-tarup: what was there is removed, ...
RemoveArchive ==
    /\ upc = "tarup"
    /\ archive' = [archive EXCEPT ![installed] = "none"]
    /\ unguarded' = unguarded \cup ({installed} \ {current})
    /\ Goto("create")
    /\ UNCHANGED <<tree, links, summary, backup, stale, target, torn>>

CreateStarts ==
    /\ upc = "create" /\ archive[installed] = "none"
    /\ archive' = [archive EXCEPT ![installed] = "partial"]
    /\ UNCHANGED <<tree, links, summary, backup, stale, target, upc, aux>>

\* ... and removed when robotpkg_create fails.
CreateEnds ==
    /\ upc = "create" /\ archive[installed] = "partial"
    /\ \/ /\ archive' = [archive EXCEPT ![installed] = "whole"]
          /\ Goto("depends")
       \/ /\ "create" \in Faults
          /\ archive' = [archive EXCEPT ![installed] = "none"]
          /\ Goto("failed")
    /\ UNCHANGED <<tree, links, summary, backup, stale, target, aux>>

\* make tarup for every dependency no archive is there of.
ArchiveDepends ==
    /\ upc = "depends"
    /\ \/ Goto("unlink")
       \/ "dependency" \in Faults /\ Goto("failed")
    /\ UNCHANGED <<tree, repository, stale, target, aux>>

\* pkg-links
UnlinkPackage ==
    /\ upc = "unlink"
    /\ links' = links \ {installed}
    /\ Goto("link")
    /\ UNCHANGED <<tree, archive, summary, backup, stale, target, aux>>

\* Variant: a link that cannot be made is not an error.
LinkPackageAnyway ==
    /\ upc = "link"
    /\ \/ links' = IF NoPublicBin THEN links ELSE links \cup {installed}
       \/ "links" \in Faults /\ UNCHANGED links
    /\ Goto("summary")
    /\ UNCHANGED <<tree, archive, summary, backup, stale, target, aux>>

LinkPackage ==
    /\ upc = "link"
    /\ \/ /\ links' = IF NoPublicBin THEN links ELSE links \cup {installed}
          /\ Goto("summary")
       \/ "links" \in Faults /\ UNCHANGED links /\ Goto("failed")
    /\ UNCHANGED <<tree, archive, summary, backup, stale, target, aux>>

\* An absent or empty summary is created; it becomes the backup.
Entries(file) == IF file = Absent THEN {} ELSE file

BackUp(entries) ==
    /\ backup' = entries /\ summary' = Absent
    /\ torn' = IF torn = "no" THEN "no" ELSE "lost"

Written(entries) == summary' = entries /\ backup' = Absent /\ torn' = torn

\* gzip has written part of its output, or its file is not there yet.
BrokenOff(entries) ==
    /\ summary' \in {Absent} \cup SUBSET entries
    /\ torn' = IF summary' = entries \/ torn = "lost" THEN torn ELSE "copied"
    /\ backup' = backup

\* pkg-update-summary
BackUpSummary ==
    /\ upc = "summary"
    /\ BackUp(Entries(summary))
    /\ Goto("rewrite")
    /\ UNCHANGED <<tree, archive, links, stale, target, unguarded>>

\* Variant: the entries are taken from the file that is being written.
RewriteSummaryItself ==
    /\ upc = "rewrite"
    /\ Written(Entries(summary) \cup {v \in {installed} : archive[v] # "none"})
    /\ Goto("unmark")
    /\ UNCHANGED <<tree, archive, links, stale, target, unguarded>>

Updated == (backup \ {installed}) \cup {v \in {installed} : archive[v] # "none"}

\* The writing fails of this summary, or of that of a directory of links.
RewriteSummary ==
    /\ upc = "rewrite"
    /\ \/ Written(Updated) /\ Goto("unmark")
       \/ /\ "summary" \in Faults /\ Goto("failed")
          /\ Written(Updated) \/ BrokenOff(Updated)
    /\ UNCHANGED <<tree, archive, links, stale, target, unguarded>>

\* package-unset-stale, the last of package-failsafe.
UnsetStale ==
    /\ upc = "unmark"
    /\ stale' = stale \ {current} /\ unguarded' = unguarded \ {installed}
    /\ Goto("failed")
    /\ UNCHANGED <<tree, repository, target, torn>>

\* package-failed, which is reached whether package-failsafe failed or not.
Success ==
    /\ upc = "failed" /\ current \notin stale
    /\ Goto("none")
    /\ UNCHANGED <<tree, repository, stale, target, aux>>

\* Variant: the marker is removed first.
FailureUnmarked ==
    /\ upc = "failed" /\ current \in stale
    /\ stale' = stale \ {current}
    /\ Goto("withdraw")
    /\ UNCHANGED <<tree, repository, target, aux>>

Failure ==
    /\ upc = "failed" /\ current \in stale
    /\ Goto("withdraw")
    /\ UNCHANGED <<tree, repository, stale, target, aux>>

-----------------------------------------------------------------------------
(* pkg-unlink, in the repository and then where the links are.              *)

\* `make depackage' itself makes no marker.
Withdrawing ==
    /\ upc = "withdraw"
    /\ archive' = [archive EXCEPT ![current] = "none"]
    /\ unguarded' = unguarded
                    \cup (IF target = "depackage" THEN {current} ELSE {})
    /\ UNCHANGED <<tree, links, summary, backup, stale, target, torn>>

\* Variant: the entry stays in the summary.
WithdrawArchiveOnly ==
    Withdrawing /\ Goto("withdraw links")

\* A summary of no entries may be a file of some length.
WithdrawArchive ==
    /\ Withdrawing
    /\ \/ summary # Absent /\ Goto("delist")
       \/ Entries(summary) = {} /\ Goto("withdraw links")

BackUpDelisted ==
    /\ upc = "delist"
    /\ BackUp(summary)
    /\ Goto("redelist")
    /\ UNCHANGED <<tree, archive, links, stale, target, unguarded>>

Delisted == backup \ {current}

\* When this fails make stops, and package-failed before it removes the marker.
Delist ==
    /\ upc = "redelist"
    /\ \/ Written(Delisted) /\ Goto("withdraw links")
       \/ "summary" \in Faults /\ BrokenOff(Delisted) /\ Goto("none")
    /\ UNCHANGED <<tree, archive, links, stale, target, unguarded>>

\* The writing may fail of the summary of a directory of links.
WithdrawLinks ==
    /\ upc = "withdraw links"
    /\ links' = links \ {current}
    /\ \/ Goto(IF target = "depackage" THEN "none" ELSE "give up")
       \/ "summary" \in Faults /\ Goto("none")
    /\ unguarded' = unguarded \ {current}
    /\ UNCHANGED <<tree, archive, summary, backup, stale, target, torn>>

\* The end of package-failed.
GiveUp ==
    /\ upc = "give up"
    /\ stale' = stale \ {current}
    /\ Goto("none")
    /\ UNCHANGED <<tree, repository, target, aux>>

-----------------------------------------------------------------------------
Crash ==
    /\ upc # "none" /\ "crash" \in Faults
    /\ CASE upc = "rewrite" -> BrokenOff(Updated)
         [] upc = "redelist" -> BrokenOff(Delisted)
         [] OTHER -> UNCHANGED <<summary, backup, torn>>
    /\ Goto("none")
    /\ UNCHANGED <<tree, archive, links, stale, target, unguarded>>

Next ==
    \/ Pull \/ Install \/ \E t \in {"package", "tarup", "depackage"} : Start(t)
    \/ CheckInstalled \/ InstallFirst \/ Mismatched \/ SetStale
    \/ RemoveArchive \/ CreateStarts \/ CreateEnds \/ ArchiveDepends
    \/ UnlinkPackage \/ LinkPackage \/ BackUpSummary \/ RewriteSummary
    \/ UnsetStale \/ Success \/ Failure
    \/ WithdrawArchive \/ BackUpDelisted \/ Delist \/ WithdrawLinks \/ GiveUp
    \/ Crash

Spec == Init /\ [][Next]_vars

-----------------------------------------------------------------------------
\* What bulk builds and users take for good is good: an archive that no marker
\* is beside of is whole, and what is linked or listed is such an archive,
\* wherever an earlier make failed or was interrupted (package-set-stale,
\* bulk.mk's test for _PKGFILE_STALE).  Two targets make no marker of what they
\* work on, and are the exception from their start until they, or a later run,
\* have come to an end with that version: `make depackage', and `make tarup'
\* when the tree has another version than is installed.
UnmarkedWhole ==
    \A v \in Version \ (stale \cup unguarded) :
        /\ archive[v] # "partial"
        /\ v \in links \cup Entries(summary) => archive[v] = "whole"

\* make package that ends well has published what is installed.
SuccessPublished ==
    [][Success => /\ archive[installed] = "whole"
                  /\ installed \in links \/ NoPublicBin
                  /\ installed \in Entries(summary)]_vars

\* One that ends with an error it had marked has left no archive of the
\* version in the tree, nor a link to it nor an entry.
FailureWithdrawn ==
    [][GiveUp => /\ archive[current] = "none"
                 /\ current \notin links \cup Entries(summary)]_vars

\* The entries of the other packages are where the next rewriting finds them,
\* unless a rewriting broke off, failing or interrupted: what that one has lost
\* the copy still has (PKGSUMMARY~), until the next run makes the remains of the
\* summary the copy.
OthersKept ==
    /\ torn = "no" =>
           Other \subseteq Entries(IF upc \in {"rewrite", "redelist"} THEN backup
                                  ELSE summary)
    /\ torn = "copied" => Other \subseteq Entries(backup)
=============================================================================
