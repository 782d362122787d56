----------------------------- MODULE MakeUpdateProofs ---------------------------
(****************************************************************************)
(* Proofs about `make update', for any packages and dependencies and        *)
(* whatever fails or is interrupted.  No package it has removed is          *)
(* forgotten, if no crash tears the list while it is written or moved: the  *)
(* invariant follows the list through the files it is moved to, and the     *)
(* packages that are to be removed before they are.  And what is installed  *)
(* was built with what is installed, torn lists or not.                     *)
(****************************************************************************)
EXTENDS MakeUpdate, TLAPS

\* What the list must have on it.
Kept == owed \ ({Self} \cup dropped)

UserDirs == {DirOf[q] : q \in Users}

\* What is owed is not installed.
Gone == \A d \in owed \ {Self} : InstalledIn(d) = {}

\* The copy has what is about to be truncated.
Copied ==
    /\ upc = "write" => Exists(list)
    /\ upc = "truncate" => Lines(list) \subseteq Lines(old)

\* What is going to be removed is on the list already.
UsersListed ==
    /\ upc = "write" => UserDirs \subseteq list \cup todo
    /\ (upc = "deinstall" /\ deinstall) \/ upc = "remove" =>
           UserDirs \subseteq Lines(list) \cup {Self} \cup dropped

\* A line that has been read is that of a package installed again, or of none.
LinesDone ==
    upc \in {"do", "clean"} =>
        \A d \in Lines(list) \ todo : d \in moved \/ d \notin owed \ {Self}

\* The list is in one place when WRKDIR is removed.
Moved ==
    /\ upc = "cleaner" => Kept = {}
    /\ upc \in {"wipe", "restore"} => Kept \subseteq Lines(saved)
    /\ upc = "restore" => list = Absent
    /\ saved # Absent => upc \in {"wipe", "restore"}

IInv ==
    /\ TypeOK
    /\ Gone /\ Copied /\ UsersListed /\ LinesDone /\ Moved
    /\ RemovedListed

-----------------------------------------------------------------------------
\* Fewer packages have fewer users.
LEMMA UsersFewer ==
    ASSUME installed' \subseteq installed
    PROVE  Users' \subseteq Users
<1> SUFFICES ASSUME NEW q \in Users',
                    NEW S \in SUBSET installed, ClosedUsers(S)
             PROVE  q \in installed /\ q \in S
  BY DEF Users
<1> DEFINE T == S \cap installed'
<1>1. T \in SUBSET installed'
  OBVIOUS
<1>2. /\ installed' \cap Versions \subseteq T
      /\ \A r \in installed' : (\E p \in T : Uses(r, p)) => r \in T
  BY DEF ClosedUsers
<1>3. /\ q \in installed'
      /\ \A R \in SUBSET installed' :
            (/\ installed' \cap Versions \subseteq R
             /\ \A r \in installed' : (\E p \in R : Uses(r, p)) => r \in R)
            => q \in R
  BY DEF Users, ClosedUsers, Versions, Uses
<1> HIDE DEF T
<1>4. q \in T
  BY <1>1, <1>2, <1>3
<1> QED BY <1>3, <1>4 DEF T

LEMMA UsersKept ==
    ASSUME installed' = installed
    PROVE  Users' = Users
BY DEF Users, ClosedUsers, Versions, Uses

\* Without a package of Self there are no users.
LEMMA NoUsers ==
    ASSUME installed \cap Versions = {}
    PROVE  UserDirs = {}
<1>1. ClosedUsers({})
  BY DEF ClosedUsers
<1> QED BY <1>1 DEF Users, UserDirs

LEMMA UserDirsType ==
    ASSUME TypeOK
    PROVE  UserDirs \subseteq Dir
BY MakeUpdateAssumption DEF TypeOK, UserDirs, Users

LEMMA InitIInv == Init => IInv
<1> SUFFICES ASSUME Init PROVE IInv
  OBVIOUS
<1>1. TypeOK
  <2>1. built \in [Package -> SUBSET Package]
    BY DEF Init
  <2>2. pulls \in 0..MaxPulls
    BY MakeUpdateAssumption DEF Init
  <2> QED BY <2>1, <2>2, Zenon DEF Init, TypeOK
<1>2. Gone /\ Copied /\ LinesDone /\ Moved /\ RemovedListed
  BY DEF Init, Gone, Copied, LinesDone, Moved, RemovedListed, Kept, Lines,
         Exists
<1>3. UsersListed
  BY DEF Init, UsersListed
<1> QED BY <1>1, <1>2, <1>3 DEF IInv

-----------------------------------------------------------------------------
\* Between two makes.
LEMMA UserIInv ==
    ASSUME IInv, User
    PROVE  IInv'
<1> USE MakeUpdateAssumption
    DEF IInv, TypeOK, Gone, Copied, UsersListed, LinesDone, Moved,
        RemovedListed, Kept, Lines, Exists, InstalledIn, tree, packages,
        Goto, UserDirs
<1>1. CASE Pull
  BY <1>1 DEF Pull, Versions
<1>2. ASSUME NEW p \in Package, UserInstall(p)
      PROVE  IInv'
  BY <1>2 DEF UserInstall, Install, Db!Install, Versions
<1>3. ASSUME NEW p \in Package, UserDelete(p)
      PROVE  IInv'
  BY <1>3 DEF UserDelete, Db!Remove
<1>4. ASSUME NEW confirm \in BOOLEAN, Update(confirm)
      PROVE  IInv'
  <2>1. /\ UNCHANGED <<installed, owed, built, current, moved, pulls, list, old,
                        saved, todo>>
        /\ upc = "none" /\ upc' \in {"create", "deinstall"}
        /\ dropped \subseteq dropped' /\ dropped' \subseteq Dir
    BY <1>4, UserDirsType DEF Update, Unlisted
  <2>2. deinstall' \in BOOLEAN
    BY <1>4 DEF Update
  <2>3. upc' = "deinstall" /\ deinstall' =>
            UserDirs \subseteq Lines(list) \cup dropped'
    BY <1>4 DEF Update, Unlisted, Outdated
  <2>4. TypeOK' /\ Gone' /\ Copied' /\ LinesDone' /\ Moved' /\ RemovedListed'
    BY <2>1, <2>2
  <2>5. UsersListed'
    BY <2>1, <2>3, UsersKept
  <2> QED BY <2>4, <2>5
<1>5. ASSUME NEW confirm \in BOOLEAN, Clean(confirm)
      PROVE  IInv'
  BY <1>5 DEF Clean, Unfinished
<1> QED BY User, <1>1, <1>2, <1>3, <1>4, <1>5 DEF User

\* From the list that is made to the packages that are removed.
LEMMA RemovalIInv ==
    ASSUME IInv
    PROVE  /\ CopyList \/ ListSelf \/ TruncateList \/ ListRefused => IInv'
           /\ \A d \in Dir : WriteLine(d) => IInv'
           /\ ListWritten \/ DeinstallSkipped \/ DeinstallStarts => IInv'
           /\ CleanerFails \/ Removed \/ RemoveFails => IInv'
           /\ \A p \in Package : RemovePackage(p) => IInv'
<1> USE MakeUpdateAssumption
    DEF IInv, TypeOK, Gone, Copied, UsersListed, LinesDone, Moved,
        RemovedListed, Kept, Lines, Exists, InstalledIn, tree, packages,
        Goto, Exit, GiveUpList, UserDirs
<1>1. CASE CopyList
  BY <1>1, UsersKept DEF CopyList
<1>2. CASE ListSelf
  BY <1>2, UsersKept, NoUsers DEF ListSelf
<1>3. CASE TruncateList
  BY <1>3, UsersKept, UserDirsType DEF TruncateList, ToList
<1>4. CASE ListRefused
  BY <1>4 DEF ListRefused
<1>5. ASSUME NEW d \in Dir, WriteLine(d)
      PROVE  IInv'
  BY <1>5, UsersKept DEF WriteLine
<1>6. CASE ListWritten
  BY <1>6, UsersKept DEF ListWritten
<1>7. CASE DeinstallSkipped
  BY <1>7 DEF DeinstallSkipped
<1>8. CASE DeinstallStarts
  BY <1>8, UsersKept DEF DeinstallStarts
<1>9. CASE CleanerFails
  BY <1>9 DEF CleanerFails
<1>10. CASE Removed
  BY <1>10 DEF Removed
<1>11. CASE RemoveFails
  BY <1>11 DEF RemoveFails
<1>12. ASSUME NEW p \in Package, RemovePackage(p)
       PROVE  IInv'
  BY <1>12, UsersFewer DEF RemovePackage, RemoveByUpdate, Db!Remove
<1> QED BY <1>1, <1>2, <1>3, <1>4, <1>5, <1>6, <1>7, <1>8, <1>9, <1>10, <1>11,
           <1>12

\* From the packages that are installed again to the list that is removed.
LEMMA InstallationIInv ==
    ASSUME IInv
    PROVE  /\ \A d \in Dir : SkipLine(d) \/ InstallDependency(d) => IInv'
           /\ \A d \in Dir : InstallLine(d) \/ InstallFails(d) => IInv'
           /\ DoneLines \/ UpdateIncomplete \/ RemoveList => IInv'
           /\ UpdateCleaner \/ Wipe \/ Restore => IInv'
<1> USE MakeUpdateAssumption
    DEF IInv, TypeOK, Gone, Copied, UsersListed, LinesDone, Moved,
        RemovedListed, Kept, Lines, Exists, InstalledIn, tree, packages,
        Goto, Exit, NextLine
<1>1. ASSUME NEW d \in Dir, SkipLine(d)
      PROVE  IInv'
  BY <1>1 DEF SkipLine, AlreadyInstalled
<1>2. ASSUME NEW d \in Dir, InstallDependency(d)
      PROVE  IInv'
  BY <1>2 DEF InstallDependency, Install, Db!Install, Missing
<1>3. ASSUME NEW d \in Dir, InstallLine(d)
      PROVE  IInv'
  BY <1>3 DEF InstallLine, Install, Db!Install, Installable, Versions
<1>4. ASSUME NEW d \in Dir, InstallFails(d)
      PROVE  IInv'
  BY <1>4 DEF InstallFails
<1>5. CASE DoneLines
  BY <1>5 DEF DoneLines
<1>6. CASE UpdateIncomplete
  BY <1>6 DEF UpdateIncomplete
<1>7. CASE RemoveList
  BY <1>7 DEF RemoveList
<1>8. CASE UpdateCleaner
  BY <1>8 DEF UpdateCleaner
<1>9. CASE Wipe
  BY <1>9 DEF Wipe
<1>10. CASE Restore
  BY <1>10 DEF Restore
<1> QED BY <1>1, <1>2, <1>3, <1>4, <1>5, <1>6, <1>7, <1>8, <1>9, <1>10

\* Every step keeps the invariant.
LEMMA NextIInv ==
    ASSUME IInv, [Next]_vars, "tear" \notin Faults
    PROVE  IInv'
<1>1. CASE User
  BY <1>1, UserIInv
<1>2. CASE Make
  BY <1>2, RemovalIInv, InstallationIInv DEF Make
<1>3. CASE Crash
  BY <1>3
  DEF Crash, Tearing, Exit, IInv, TypeOK, Gone, Copied, UsersListed, LinesDone,
      Moved, RemovedListed, Kept, Lines, Exists, InstalledIn, tree, packages
<1>4. CASE UNCHANGED vars
  BY <1>4, UsersKept
  DEF vars, IInv, TypeOK, Gone, Copied, UsersListed, LinesDone, Moved,
      RemovedListed, Kept, Lines, Exists, InstalledIn, ToList, UserDirs
<1> QED BY <1>1, <1>2, <1>3, <1>4 DEF Next

-----------------------------------------------------------------------------
\* For all packages, dependencies and directories: what an update has removed
\* and not installed again is on the list the next run of make reads.
THEOREM ListCorrect ==
    ASSUME "tear" \notin Faults
    PROVE  Spec => []RemovedListed
<1>1. IInv /\ [Next]_vars => IInv'
  BY NextIInv
<1>2. IInv => RemovedListed
  BY DEF IInv
<1> QED BY InitIInv, <1>1, <1>2, PTL DEF Spec

-----------------------------------------------------------------------------
(* What the packages installed were built with, torn lists or not.          *)

\* Lines are added to a file that is there.
ListThere == upc = "write" => Exists(list)

\* Each dependency of a package has one directory: DEPEND_DIR of
\* mk/depends/resolve.mk.
OneProvider ==
    \A q \in Package : \A d \in Deps[q] : \A p, r \in Matches[d] \cap Package :
        DirOf[p] = DirOf[r]

\* Self is installed in one version, and in the tree's while packages are
\* installed again.
OneVersion ==
    /\ \A v, w \in installed \cap Versions : v = w
    /\ upc = "do" => installed \cap Versions \subseteq {current}
    /\ upc \in {"create", "truncate", "write", "deinstall"} /\ ~deinstall =>
           current \in installed

\* Who was built with Self still depends on it.
BuiltByUsers ==
    \A q \in installed : built[q] \subseteq Versions
                         /\ (built[q] # {} => q \in Users)

BuiltInv ==
    TypeOK /\ ListThere /\ OneVersion /\ BuiltByUsers /\ BuiltWithInstalled

LEMMA UsersMore ==
    ASSUME installed \subseteq installed'
    PROVE  Users \subseteq Users'
<1> SUFFICES ASSUME NEW q \in Users,
                    NEW S \in SUBSET installed', ClosedUsers(S)'
             PROVE  q \in installed' /\ q \in S
  BY DEF Users
<1> DEFINE T == S \cap installed
<1>1. T \in SUBSET installed
  OBVIOUS
<1>2. ClosedUsers(T)
  BY DEF ClosedUsers, Versions, Uses
<1>3. q \in installed /\ q \in T
  BY <1>1, <1>2 DEF Users
<1> QED BY <1>3

\* Who remains a user when a package nobody uses is removed.
LEMMA UsersLeft ==
    ASSUME NEW p, installed' = installed \ {p},
           \A q \in installed' : ~Uses(q, p)
    PROVE  Users \ {p} \subseteq Users'
<1> SUFFICES ASSUME NEW q \in Users, q # p,
                    NEW S \in SUBSET installed', ClosedUsers(S)'
             PROVE  q \in installed' /\ q \in S
  BY DEF Users
<1> DEFINE T == S \cup ({p} \cap installed)
<1>1. T \in SUBSET installed
  OBVIOUS
<1>2. ClosedUsers(T)
  BY DEF ClosedUsers, Versions, Uses
<1>3. q \in installed /\ q \in T
  BY <1>1, <1>2 DEF Users
<1> QED BY <1>3

LEMMA NoUsersLeft ==
    ASSUME installed' \cap Versions = {}
    PROVE  Users' = {}
<1>1. ClosedUsers({})'
  BY DEF ClosedUsers, Versions
<1> QED BY <1>1 DEF Users

\* robotpkg_delete does not remove what is used: no other package would serve.
LEMMA RemovedUnused ==
    ASSUME OneProvider, TypeOK, OneVersion, NEW p \in Package, Db!Remove(p)
    PROVE  \A q \in installed' : ~Uses(q, p)
<1> SUFFICES ASSUME NEW q \in installed', NEW d \in Deps[q], p \in Matches[d]
             PROVE  FALSE
  BY DEF Uses
<1>1. /\ installed' = installed \ {p} /\ p \in installed
      /\ installed \subseteq Package /\ q \in Package
  BY DEF Db!Remove, TypeOK
<1>2. PICK r \in Matches[d] : r \in installed'
  BY DEF Db!Remove, Db!Promise, Db!Served
<1>3. r # p /\ r \in Package /\ r \in installed
  BY <1>1, <1>2
<1>4. DirOf[r] = DirOf[p]
  BY <1>1, <1>2, <1>3 DEF OneProvider
<1>5. DirOf[p] = Self
  BY <1>3, <1>4, MakeUpdateAssumption
<1> QED BY <1>1, <1>3, <1>4, <1>5 DEF OneVersion, Versions

\* What is installed no more was used by nobody it could have been built with.
LEMMA RemoveBuilt ==
    ASSUME OneProvider, BuiltInv, NEW p \in Package, Db!Remove(p), built' = built
    PROVE  BuiltByUsers' /\ BuiltWithInstalled'
<1>1. installed' = installed \ {p} /\ p \in installed
  BY DEF Db!Remove
<1>2. Users \ {p} \subseteq Users'
  BY <1>1, RemovedUnused, UsersLeft DEF BuiltInv
<1> SUFFICES ASSUME NEW q \in installed'
             PROVE  /\ built[q] \subseteq Versions
                    /\ built[q] # {} => q \in Users'
                    /\ built[q] \subseteq installed'
  BY DEF BuiltByUsers, BuiltWithInstalled, Versions
<1>3. /\ q \in installed /\ q # p /\ built[q] \subseteq Versions
      /\ built[q] \subseteq installed
      /\ built[q] # {} => q \in Users'
  BY <1>1, <1>2 DEF BuiltInv, BuiltByUsers, BuiltWithInstalled
<1>4. p \notin built[q]
  <2> SUFFICES ASSUME p \in built[q] PROVE FALSE
    OBVIOUS
  <2>1. installed' \cap Versions = {}
    BY <1>1, <1>3 DEF BuiltInv, OneVersion
  <2> QED BY <1>3, <2>1, NoUsersLeft
<1> QED BY <1>1, <1>3, <1>4

LEMMA InstallBuilt ==
    ASSUME BuiltInv, NEW p \in Package, Install(p)
    PROVE  BuiltByUsers' /\ BuiltWithInstalled'
<1>1. installed' = installed \cup {p} /\ p \notin installed
  BY DEF Install, Db!Install
<1>2. \A q \in Package : built'[q] =
          IF q = p THEN IF p \in Users' THEN installed' \cap Versions ELSE {}
                   ELSE built[q]
  BY DEF Install, BuiltInv, TypeOK
<1>3. Users \subseteq Users'
  BY <1>1, UsersMore
<1> SUFFICES ASSUME NEW q \in installed'
             PROVE  /\ built'[q] \subseteq Versions
                    /\ built'[q] # {} => q \in Users'
                    /\ built'[q] \subseteq installed'
  BY DEF BuiltByUsers, BuiltWithInstalled, Versions
<1>4. q \in Package
  BY <1>1 DEF BuiltInv, TypeOK
<1>5. CASE q = p
  BY <1>2, <1>4, <1>5
<1>6. CASE q # p
  BY <1>1, <1>2, <1>3, <1>4, <1>6 DEF BuiltInv, BuiltByUsers, BuiltWithInstalled
<1> QED BY <1>5, <1>6

LEMMA TypeStep ==
    ASSUME TypeOK, ListThere, [Next]_vars
    PROVE  TypeOK' /\ ListThere'
<1> USE MakeUpdateAssumption
    DEF TypeOK, ListThere, Lines, Exists, tree, packages, Goto, Exit, GiveUpList
<1>1. CASE Pull
  BY <1>1 DEF Pull
<1>2. ASSUME NEW p \in Package, UserInstall(p) \/ UserDelete(p)
      PROVE  TypeOK' /\ ListThere'
  BY <1>2 DEF UserInstall, UserDelete, Install, Db!Install, Db!Remove, Versions
<1>3. ASSUME NEW confirm \in BOOLEAN, Update(confirm)
      PROVE  TypeOK' /\ ListThere'
  BY <1>3, UserDirsType DEF Update, Unlisted, UserDirs
<1>4. ASSUME NEW confirm \in BOOLEAN, Clean(confirm)
      PROVE  TypeOK' /\ ListThere'
  BY <1>4 DEF Clean
<1>5. CASE CopyList \/ ListSelf \/ ListRefused \/ ListWritten
  BY <1>5 DEF CopyList, ListSelf, ListRefused, ListWritten
<1>6. CASE TruncateList
  BY <1>6, UserDirsType DEF TruncateList, ToList, UserDirs
<1>7. CASE \/ DeinstallSkipped \/ DeinstallStarts \/ CleanerFails
           \/ Removed \/ RemoveFails
  BY <1>7 DEF DeinstallSkipped, DeinstallStarts, CleanerFails, Removed,
              RemoveFails
<1>8. ASSUME NEW p \in Package, RemovePackage(p)
      PROVE  TypeOK' /\ ListThere'
  BY <1>8 DEF RemovePackage, RemoveByUpdate, Db!Remove
<1>9. ASSUME NEW d \in Dir, WriteLine(d) \/ SkipLine(d) \/ InstallFails(d)
      PROVE  TypeOK' /\ ListThere'
  BY <1>9 DEF WriteLine, SkipLine, InstallFails, NextLine
<1>10. ASSUME NEW d \in Dir, InstallDependency(d)
       PROVE  TypeOK' /\ ListThere'
  BY <1>10 DEF InstallDependency, Install, Db!Install, Missing, NextLine, Versions
<1>11. ASSUME NEW d \in Dir, InstallLine(d)
       PROVE  TypeOK' /\ ListThere'
  BY <1>11 DEF InstallLine, Install, Db!Install, Installable, NextLine, Versions
<1>12. CASE DoneLines \/ UpdateIncomplete \/ RemoveList \/ UpdateCleaner
  BY <1>12 DEF DoneLines, UpdateIncomplete, RemoveList, UpdateCleaner
<1>13. CASE Wipe \/ Restore \/ Crash
  BY <1>13 DEF Wipe, Restore, Crash
<1>14. CASE UNCHANGED vars
  BY <1>14 DEF vars
<1> QED BY <1>1, <1>2, <1>3, <1>4, <1>5, <1>6, <1>7, <1>8, <1>9, <1>10, <1>11,
           <1>12, <1>13, <1>14 DEF Next, User, Make

LEMMA BuiltStep ==
    ASSUME OneProvider, BuiltInv, [Next]_vars
    PROVE  BuiltInv'
<1>0. /\ TypeOK' /\ TypeOK /\ ListThere'
      /\ OneVersion /\ BuiltByUsers /\ BuiltWithInstalled
  BY TypeStep DEF BuiltInv
<1>K. ASSUME UNCHANGED <<installed, built>>, OneVersion'
      PROVE  BuiltInv'
  <2>1. BuiltByUsers' /\ BuiltWithInstalled'
    BY <1>0, <1>K, UsersKept DEF BuiltByUsers, BuiltWithInstalled, Versions
  <2> QED BY <1>0, <1>K, <2>1 DEF BuiltInv
<1>I. ASSUME NEW p \in Package, Install(p), UNCHANGED <<current, upc>>,
             upc \in {"none", "do"},
             p \in Versions => p = current /\ installed \cap Versions \subseteq {p}
      PROVE  BuiltInv'
  <2>1. installed' = installed \cup {p} BY <1>I DEF Install, Db!Install
  <2>2. OneVersion' BY <1>0, <1>I, <2>1 DEF OneVersion, Versions
  <2> QED BY <1>0, <1>I, <2>2, InstallBuilt DEF BuiltInv
<1>R. ASSUME NEW p \in Package, Db!Remove(p), UNCHANGED <<built, current, upc>>,
             upc \in {"none", "remove"}
      PROVE  BuiltInv'
  <2>1. installed' = installed \ {p} BY <1>R DEF Db!Remove
  <2>2. OneVersion' BY <1>0, <1>R, <2>1 DEF OneVersion, Versions
  <2> QED BY <1>0, <1>R, <2>2, RemoveBuilt DEF BuiltInv
<1> USE DEF tree, packages, Goto, Exit, GiveUpList
<1>1. CASE Pull
  BY <1>0, <1>1, <1>K DEF Pull, OneVersion, Versions
<1>2. ASSUME NEW p \in Package, UserInstall(p)
      PROVE  BuiltInv'
  BY <1>2, <1>I DEF UserInstall
<1>3. ASSUME NEW p \in Package, UserDelete(p)
      PROVE  BuiltInv'
  BY <1>3, <1>R DEF UserDelete
<1>4. ASSUME NEW confirm \in BOOLEAN, Update(confirm)
      PROVE  BuiltInv'
  BY <1>0, <1>4, <1>K DEF Update, OneVersion, Outdated, Versions
<1>5. ASSUME NEW confirm \in BOOLEAN, Clean(confirm)
      PROVE  BuiltInv'
  BY <1>0, <1>5, <1>K DEF Clean, OneVersion, Versions
<1>6. CASE CopyList \/ ListSelf \/ TruncateList \/ ListRefused \/ ListWritten
  BY <1>0, <1>6, <1>K DEF CopyList, ListSelf, TruncateList, ListRefused,
                          ListWritten, OneVersion, Versions
<1>7. ASSUME NEW d \in Dir, WriteLine(d) \/ SkipLine(d) \/ InstallFails(d)
      PROVE  BuiltInv'
  BY <1>0, <1>7, <1>K DEF WriteLine, SkipLine, InstallFails, NextLine,
                          OneVersion, Versions
<1>8. CASE \/ DeinstallSkipped \/ DeinstallStarts \/ CleanerFails
           \/ Removed \/ RemoveFails
  <2>1. CASE DeinstallSkipped
    <3>1. installed \cap Versions \subseteq {current}
      BY <1>0, <2>1 DEF DeinstallSkipped, OneVersion, TypeOK
    <3> QED BY <1>0, <1>K, <2>1, <3>1 DEF DeinstallSkipped, OneVersion, Versions
  <2>2. CASE DeinstallStarts \/ CleanerFails \/ Removed \/ RemoveFails
    BY <1>0, <2>2, <1>K DEF DeinstallStarts, CleanerFails, Removed, RemoveFails,
                            OneVersion, Versions
  <2> QED BY <1>8, <2>1, <2>2
<1>9. ASSUME NEW p \in Package, RemovePackage(p)
      PROVE  BuiltInv'
  BY <1>9, <1>R DEF RemovePackage, RemoveByUpdate
<1>10. ASSUME NEW d \in Dir, InstallDependency(d)
       PROVE  BuiltInv'
  <2>1. PICK q \in Package : Install(q) /\ (q \in Versions => q = current)
    BY <1>10 DEF InstallDependency, Missing
  <2>2. upc = "do" /\ UNCHANGED <<current, upc>>
    BY <1>10 DEF InstallDependency, NextLine
  <2> QED BY <1>0, <1>I, <2>1, <2>2 DEF OneVersion
<1>11. ASSUME NEW d \in Dir, InstallLine(d)
       PROVE  BuiltInv'
  <2>1. PICK p \in Installable(d) : Install(p)
    BY <1>11 DEF InstallLine
  <2>2. p \in Package /\ (p \in Versions => p = current)
    BY <1>0, <2>1 DEF Installable, Versions, TypeOK
  <2>3. upc = "do" /\ UNCHANGED <<current, upc>>
    BY <1>11 DEF InstallLine, NextLine
  <2> QED BY <1>0, <1>I, <2>1, <2>2, <2>3 DEF OneVersion
<1>12. CASE DoneLines \/ UpdateIncomplete \/ RemoveList \/ UpdateCleaner
  BY <1>0, <1>12, <1>K DEF DoneLines, UpdateIncomplete, RemoveList,
                           UpdateCleaner, OneVersion, Versions
<1>13. CASE Wipe \/ Restore \/ Crash
  BY <1>0, <1>13, <1>K DEF Wipe, Restore, Crash, OneVersion, Versions
<1>14. CASE UNCHANGED vars
  BY <1>0, <1>14, <1>K DEF vars, OneVersion, Versions
<1> QED BY <1>1, <1>2, <1>3, <1>4, <1>5, <1>6, <1>7, <1>8, <1>9, <1>10, <1>11,
           <1>12, <1>13, <1>14 DEF Next, User, Make

\* The types of the update hold, whatever the set of packages and directories
\* and whatever is interrupted.
THEOREM TypeCorrect == Spec => []TypeOK
<1>1. Init => TypeOK /\ ListThere
  BY InitIInv DEF IInv, Init, ListThere
<1>2. TypeOK /\ ListThere /\ [Next]_vars => (TypeOK /\ ListThere)'
  BY TypeStep
<1> QED BY <1>1, <1>2, PTL DEF Spec

\* No package stays installed that was built with a version of Self that is
\* not: robotpkg_delete takes the users of the package with it (-r), and
\* refuses to remove it alone (update.mk, update-deinstall-dlist).
THEOREM BuiltCorrect ==
    ASSUME OneProvider
    PROVE  Spec => []BuiltWithInstalled
<1>1. Init => BuiltInv
  BY InitIInv
  DEF IInv, Init, BuiltInv, ListThere, OneVersion, BuiltByUsers, BuiltWithInstalled
<1>2. BuiltInv /\ [Next]_vars => BuiltInv'
  BY BuiltStep
<1>3. BuiltInv => BuiltWithInstalled
  BY DEF BuiltInv
<1> QED BY <1>1, <1>2, <1>3, PTL DEF Spec
=============================================================================
