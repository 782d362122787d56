------------------------------ MODULE PkgInstalled -----------------------------
(****************************************************************************)
(* Proofs about the packages installed to their end: they keep what they    *)
(* depend on and the records of it, and robotpkg_admin rebuilds what has    *)
(* been lost.                                                               *)
(****************************************************************************)
EXTENDS PkgProofs

-----------------------------------------------------------------------------
(* The labels of pkg_do(), and what happens between them.                   *)

\* The label a call can go to from the one it is at.
Flow(t, pc) ==
    \/ t.pc = "deps" /\ pc = "deps"
    \/ t.pc = "deps" /\ t.other = None /\ pc = "mkdir"
    \/ t.pc = "deps" /\ t.other # None /\ pc \in {"pre", "nukepkgdb"}
    \/ t.pc = "mkdir" /\ pc = "meta"
    \/ t.pc = "meta" /\ t.other = None /\ pc \in {"pre", "nukepkgdb"}
    \/ t.pc = "meta" /\ t.other # None /\ pc \in {"move", "nukepkgdb"}
    \/ t.pc = "move" /\ pc \in {"marks", "nukepkgdb"}
    \/ t.pc = "marks" /\ pc \in {"delete", "nukepkgdb"}
    \/ t.pc = "delete" /\ pc \in {"dfiles", "nukepkgdb"}
    \/ t.pc = "dfiles" /\ pc = "dunreg"
    \/ t.pc = "dunreg" /\ pc = "drm"
    \/ t.pc = "drm" /\ pc \in {"deps", "nukepkgdb"}
    \/ t.pc = "pre" /\ pc \in {"extract", "nukepkgdb"}
    \/ t.pc = "extract" /\ pc \in {"extract", "post", "nukepkg"}
    \/ t.pc = "post" /\ pc \in {"register", "nukepkg"}
    \/ t.pc = "register" /\ pc = "register"
    \/ t.pc = "nukepkg" /\ pc = "nukepkgdb"

\* The running call goes on, past its check.
GoesOn ==
    /\ callers' = callers /\ Flow(task, task'.pc)
    /\ task'.pkg = task.pkg /\ task'.other = task.other /\ task'.auto = task.auto

\* A dependency is missing, and nothing is written yet.
GivesUp ==
    /\ task.pc = "deps" /\ ~Replacing
    /\ UNCHANGED dbvars
    /\ Return("fail")

LEMMA AddStepFlow ==
    ASSUME AddControl, AddStep
    PROVE  \/ GoesOn
           \/ AlreadyInstalled \/ CheckRefuses \/ CheckAborts \/ CheckPasses
           \/ GivesUp \/ \E d \in Pattern : DepInstall(d)
           \/ Installed \/ NukeDirectory
<1> USE DEF PC
<1>0. task \in Task BY DEF AddControl, AddTypeOK
<1>G. ASSUME NEW pc \in PC, Goto(pc), Flow(task, pc) PROVE GoesOn
  BY <1>0, <1>G DEF Goto, Task, GoesOn
<1>1. ASSUME DepsFail, task.pc = "deps", UNCHANGED dbvars
      PROVE  GoesOn \/ GivesUp
  <2>1. CASE Replacing
    <3>1. Goto("nukepkgdb") /\ Flow(task, "nukepkgdb")
      BY <1>1, <2>1 DEF DepsFail, Replacing, Flow
    <3> QED BY <1>G, <3>1
  <2>2. CASE ~Replacing BY <1>1, <2>2 DEF DepsFail, GivesUp
  <2> QED BY <2>1, <2>2
<1>2. ASSUME NEW d \in Pattern, DepPresent(d) \/ DepNoArchive(d)
      PROVE  GoesOn \/ GivesUp
  <2>0. task.pc = "deps" /\ UNCHANGED dbvars BY <1>2 DEF DepPresent, DepNoArchive
  <2>1. CASE DepsFail BY <1>1, <2>0, <2>1
  <2>2. CASE ~DepsFail
    <3>1. callers' = callers /\ task' = [task EXCEPT !.todo = @ \ {d}]
      BY <1>2, <2>2 DEF DepPresent, DepNoArchive, ForceAdd
    <3> QED BY <1>0, <2>0, <3>1 DEF Task, GoesOn, Flow
  <2> QED BY <2>1, <2>2
<1>3. CASE DepReturned
  <2>0. task.pc = "deps" /\ UNCHANGED dbvars BY <1>3 DEF DepReturned
  <2>1. CASE ret = "fail" /\ ~ForceAdd /\ ~Replacing
    BY <1>3, <2>0, <2>1 DEF DepReturned, GivesUp
  <2>2. CASE ~(ret = "fail" /\ ~ForceAdd /\ ~Replacing)
    <3>1. /\ callers' = callers
          /\ \/ task' = task
             \/ task' = [task EXCEPT !.pc = "nukepkgdb"] /\ task.other # None
      BY <1>3, <2>2 DEF DepReturned, ForceAdd, Replacing
    <3> QED BY <1>0, <2>0, <3>1 DEF Task, GoesOn, Flow
  <2> QED BY <2>1, <2>2
<1>4. CASE DepsResolved
  <2>0. task.pc = "deps" /\ UNCHANGED dbvars BY <1>4 DEF DepsResolved
  <2>1. CASE DepsFail BY <1>1, <2>0, <2>1
  <2>2. CASE ~DepsFail
    <3>1. PICK best \in [Deps[task.pkg] -> Package] :
              task' = [task EXCEPT !.deps = {best[d] : d \in Deps[task.pkg]},
                                   !.pc = IF Replacing THEN "pre" ELSE "mkdir"]
      BY <1>4, <2>2 DEF DepsResolved
    <3>2. /\ task'.pkg = task.pkg /\ task'.other = task.other
          /\ task'.auto = task.auto
          /\ task'.pc = IF task.other # None THEN "pre" ELSE "mkdir"
      BY <1>0, <3>1 DEF Task, Replacing
    <3>3. callers' = callers BY <1>4, <2>2 DEF DepsResolved
    <3> QED BY <2>0, <3>2, <3>3 DEF GoesOn, Flow
  <2> QED BY <2>1, <2>2
<1>5. CASE MakeDirectory BY <1>5, <1>G DEF MakeDirectory, Flow
<1>6. CASE WriteMetaData
  <2>1. /\ task.pc = "meta"
        /\ Goto(IF Replacing THEN "move" ELSE "pre")
    BY <1>6 DEF WriteMetaData
  <2>2. CASE Replacing BY <1>G, <2>1, <2>2 DEF Flow, Replacing
  <2>3. CASE ~Replacing BY <1>G, <2>1, <2>3 DEF Flow, Replacing
  <2> QED BY <2>2, <2>3
<1>7. CASE WriteMetaDataFails BY <1>7, <1>G DEF WriteMetaDataFails, Flow
<1>8. CASE MoveRequiredBy BY <1>8, <1>G DEF MoveRequiredBy, Flow
<1>9. CASE MoveMarks BY <1>9, <1>G DEF MoveMarks, Flow
<1>10. CASE MoveFails BY <1>10, <1>G DEF MoveFails, Flow
<1>11. CASE DeleteOldFails BY <1>11, <1>G DEF DeleteOldFails, Flow
<1>12. CASE DeleteOldStarts BY <1>12, <1>G DEF DeleteOldStarts, Flow
<1>13. CASE DeleteOldFiles BY <1>13, <1>G DEF DeleteOldFiles, Flow
<1>14. CASE DeleteOldDepends BY <1>14, <1>G DEF DeleteOldDepends, Flow
<1>15. CASE DeleteOldDirectory BY <1>15, <1>G DEF DeleteOldDirectory, Flow
<1>16. CASE PreInstall BY <1>16, <1>G DEF PreInstall, Flow
<1>17. ASSUME NEW f \in File, ExtractFile(f) \/ ExtractFails(f) PROVE GoesOn
  <2>1. CASE ExtractFile(f) BY <1>0, <2>1 DEF ExtractFile, Task, GoesOn, Flow
  <2>2. CASE ExtractFails(f) BY <1>G, <2>2 DEF ExtractFails, Flow
  <2> QED BY <1>17, <2>1, <2>2
<1>18. CASE Extracted BY <1>18, <1>G DEF Extracted, Flow
<1>19. CASE PostInstall BY <1>19, <1>G DEF PostInstall, Flow
<1>20. ASSUME NEW q \in Package, RegisterDepend(q) PROVE GoesOn
  BY <1>0, <1>20 DEF RegisterDepend, Task, GoesOn, Flow
<1>21. CASE NukePackage BY <1>21, <1>G DEF NukePackage, Flow
<1> QED BY <1>2, <1>3, <1>4, <1>5, <1>6, <1>7, <1>8, <1>9, <1>10, <1>11, <1>12,
           <1>13, <1>14, <1>15, <1>16, <1>17, <1>18, <1>19, <1>20, <1>21
        DEF AddStep

\* The steps after which the database promises something else.
LEMMA AddStepWrites ==
    ASSUME AddStep
    PROVE  \/ UNCHANGED <<pkgdir, contents, requiredBy, done, orphaned>>
           \/ MakeDirectory \/ WriteMetaData \/ WriteMetaDataFails
           \/ MoveRequiredBy
           \/ DeleteOldFiles \/ DeleteOldDepends \/ DeleteOldDirectory
           \/ \E q \in Package : RegisterDepend(q)
           \/ Installed \/ NukeDirectory
<1> DEFINE Same == UNCHANGED <<pkgdir, contents, requiredBy, done, orphaned>>
<1>1. CASE AlreadyInstalled \/ CheckRefuses \/ CheckAborts \/ CheckPasses
  BY <1>1 DEF AlreadyInstalled, CheckRefuses, CheckAborts, CheckPasses, dbvars
<1>2. ASSUME NEW d \in Pattern, DepPresent(d) \/ DepInstall(d) \/ DepNoArchive(d)
      PROVE  Same
  BY <1>2 DEF DepPresent, DepInstall, DepNoArchive, dbvars
<1>3. CASE DepReturned \/ DepsResolved \/ MoveMarks \/ MoveFails
  BY <1>3 DEF DepReturned, DepsResolved, MoveMarks, MoveFails, dbvars
<1>4. CASE DeleteOldFails \/ DeleteOldStarts \/ PreInstall
  BY <1>4 DEF DeleteOldFails, DeleteOldStarts, PreInstall, dbvars
<1>5. CASE Extracted \/ PostInstall \/ NukePackage
  BY <1>5 DEF Extracted, PostInstall, NukePackage, dbvars
<1>6. ASSUME NEW f \in File, ExtractFile(f) \/ ExtractFails(f) PROVE Same
  BY <1>6 DEF ExtractFile, ExtractFails
<1> QED BY <1>1, <1>2, <1>3, <1>4, <1>5, <1>6 DEF AddStep

\* The calls that go on waiting and the one that runs next.
LEMMA AddStepStackMoves ==
    ASSUME AddControl, AddStep
    PROVE  \/ /\ Waiting' = Waiting
              /\ task'.pkg = task.pkg
              /\ GoesOn \/ CheckPasses
           \/ /\ Waiting' \subseteq Waiting
              /\ task' = NoTask \/ task' \in Waiting
              /\ \/ AlreadyInstalled \/ CheckRefuses \/ CheckAborts \/ GivesUp
                 \/ Installed \/ NukeDirectory
           \/ /\ \E d \in Pattern :
                     Waiting' = Waiting \cup {[task EXCEPT !.todo = @ \ {d}]}
              /\ \E q \in Package : task' = NewTask(q, TRUE)
              /\ task.pc = "deps" /\ UNCHANGED dbvars
<1>0. task \in Task BY DEF AddControl, AddTypeOK
<1>1. CASE GoesOn BY <1>1 DEF GoesOn, Waiting
<1>2. CASE CheckPasses
  <2>1. task'.pkg = task.pkg /\ callers' = callers
    BY <1>0, <1>2 DEF CheckPasses, Task
  <2>2. Waiting' = Waiting BY <2>1 DEF Waiting
  <2> QED BY <1>2, <2>1, <2>2
<1>3. CASE \/ AlreadyInstalled \/ CheckRefuses \/ GivesUp \/ Installed
           \/ NukeDirectory
  <2>1. \E status \in {"ok", "fail"} : Return(status)
    BY <1>3 DEF AlreadyInstalled, CheckRefuses, GivesUp, Installed, NukeDirectory
  <2> QED BY <1>3, <2>1, ReturnWaiting
<1>4. CASE CheckAborts
  <2>1. task' = NoTask /\ Waiting' = {}
    BY <1>4, EmptySeq DEF CheckAborts, Exit, Waiting
  <2> QED BY <1>4, <2>1
<1>5. ASSUME NEW d \in Pattern, DepInstall(d)
      PROVE  /\ Waiting' = Waiting \cup {[task EXCEPT !.todo = @ \ {d}]}
             /\ \E q \in Package : task' = NewTask(q, TRUE)
             /\ task.pc = "deps" /\ UNCHANGED dbvars
  BY <1>5, CallWaiting DEF DepInstall
<1> QED BY <1>1, <1>2, <1>3, <1>4, <1>5, AddStepFlow

\* The steps of a call at the labels where it writes the database.
LEMMA AtLabel ==
    ASSUME AddStep
    PROVE  /\ task.pc = "mkdir" => MakeDirectory
           /\ task.pc = "meta" => WriteMetaData \/ WriteMetaDataFails
           /\ task.pc = "move" => MoveRequiredBy \/ MoveFails
           /\ task.pc = "dfiles" => DeleteOldFiles
           /\ task.pc = "dunreg" => DeleteOldDepends
           /\ task.pc = "drm" => DeleteOldDirectory
           /\ task.pc = "register" =>
                  Installed \/ \E q \in Package : RegisterDepend(q)
           /\ task.pc = "nukepkg" => NukePackage
           /\ task.pc = "nukepkgdb" => NukeDirectory
BY DEF AddStep, AlreadyInstalled, CheckRefuses, CheckAborts, CheckPasses,
       DepPresent, DepInstall, DepNoArchive, DepReturned, DepsResolved,
       MakeDirectory, WriteMetaData, WriteMetaDataFails, MoveRequiredBy,
       MoveMarks, MoveFails, DeleteOldFails, DeleteOldStarts, DeleteOldFiles,
       DeleteOldDepends, DeleteOldDirectory, PreInstall, ExtractFile,
       ExtractFails, Extracted, PostInstall, RegisterDepend, Installed,
       NukePackage, NukeDirectory

\* A call works on packages of a lower level than those that wait for it.
LEMMA StackApart ==
    ASSUME AddControl, StackInv, NEW t \in Waiting
    PROVE  /\ t.pkg \in Package /\ t.pc = "deps" /\ task.pkg \in Package
           /\ t.pkg # task.pkg /\ t.other # task.pkg
           /\ task.other # None => t.pkg # task.other /\ t.other # task.other
           /\ \A p \in Package : Level[p] < Level[task.pkg] =>
                  p # t.pkg /\ p # t.other
<1>1. PICK i \in 1..Len(callers) : t = callers[i] BY DEF Waiting
<1>2. /\ TaskOK(t) /\ t.pc = "deps"
      /\ Level[task.pkg] < Level[t.pkg]
  BY <1>1 DEF AddControl, CallersOK, StackInv
<1>3. task.pc # "none" /\ TaskOK(task)
  <2>1. callers # <<>> BY <1>1, EmptySeq
  <2> QED BY <2>1 DEF AddControl, CallersOK
<1>4. /\ task.pkg \in Package /\ t.pkg \in Package
      /\ task.other \in Package \cup {None} /\ t.other \in Package \cup {None}
  BY <1>2, <1>3 DEF TaskOK, Task
<1>5. /\ Level[task.pkg] \in Nat /\ Level[t.pkg] \in Nat
      /\ \A p \in Package : Level[p] \in Nat
  BY <1>4, DependenciesAcyclic
<1>6. /\ task.other # None => Level[task.other] = Level[task.pkg]
      /\ t.other # None => Level[t.other] = Level[t.pkg]
  BY <1>4, DependenciesAcyclic DEF StackInv, OtherOK
<1>7. None \notin Package BY PkgDbAssumption
<1>8. t.other # task.pkg
  <2>1. CASE t.other = None BY <1>4, <1>7, <2>1
  <2>2. CASE t.other # None BY <1>2, <1>5, <1>6, <2>2
  <2> QED BY <2>1, <2>2
<1>9. task.other # None => t.other # task.other
  <2>1. CASE t.other = None BY <2>1
  <2>2. CASE t.other # None BY <1>2, <1>5, <1>6, <2>2
  <2> QED BY <2>1, <2>2
<1>10. t.pkg # task.pkg /\ (task.other # None => t.pkg # task.other)
  BY <1>2, <1>5, <1>6
<1>11. ASSUME NEW p \in Package, Level[p] < Level[task.pkg]
       PROVE  p # t.pkg /\ p # t.other
  <2>1. Level[p] < Level[t.pkg] BY <1>2, <1>5, <1>11
  <2>2. CASE t.other = None BY <1>5, <1>7, <2>1, <2>2
  <2>3. CASE t.other # None BY <1>5, <1>6, <2>1, <2>3
  <2> QED BY <2>2, <2>3
<1> QED BY <1>2, <1>4, <1>8, <1>9, <1>10, <1>11

-----------------------------------------------------------------------------
(* Which packages are installed to their end.                               *)

\* What a step of robotpkg_add does to the packages installed to their end.
LEMMA AddDone ==
    ASSUME AddStep
    PROVE  /\ ~Installed => done' \subseteq done
           /\ Installed => done' = done \cup {task.pkg}
<1>1. CASE Installed
  BY <1>1 DEF Installed, MakeDirectory
<1>2. CASE ~Installed
  BY <1>2, AddStepWrites
  DEF MakeDirectory, WriteMetaData, WriteMetaDataFails, MoveRequiredBy,
      DeleteOldFiles, DeleteOldDepends, DeleteOldDirectory, RegisterDepend,
      NukeDirectory, RemoveDirectory
<1> QED BY <1>1, <1>2

LEMMA AddStepDone ==
    ASSUME DbTypeOK, AddControl, StackInv, DirsInv, AddIndex, DoneInv, AddStep
    PROVE  /\ done' \subseteq contents'
           /\ \A t \in (Waiting \cup {task})' : UnfinishedOK(t)'
<1>0. /\ task \in Task /\ TaskOK(task) /\ UnfinishedOK(task) /\ IndexOK(task)
      /\ done \subseteq contents
  BY DEF AddControl, AddTypeOK, DoneInv, AddIndex
<1>1. done' \subseteq contents'
  <2>1. CASE UNCHANGED <<contents, done>> BY <1>0, <2>1
  <2>2. CASE \/ MakeDirectory \/ WriteMetaData \/ WriteMetaDataFails
             \/ MoveRequiredBy \/ DeleteOldFiles \/ DeleteOldDepends
             \/ DeleteOldDirectory \/ NukeDirectory
             \/ \E q \in Package : RegisterDepend(q)
    BY <1>0, <2>2
    DEF MakeDirectory, WriteMetaData, WriteMetaDataFails, MoveRequiredBy,
        DeleteOldFiles, DeleteOldDepends, DeleteOldDirectory, RegisterDepend,
        NukeDirectory, RemoveDirectory
  <2>3. CASE Installed
    BY <1>0, <2>3 DEF Installed, IndexOK, Described
  <2> QED BY <2>1, <2>2, <2>3, AddStepWrites
<1>2. done' \subseteq done \cup {task.pkg} BY AddDone
<1>W. \A t \in Waiting : UnfinishedOK(t)'
  <2>1. SUFFICES ASSUME NEW t \in Waiting PROVE UnfinishedOK(t)' OBVIOUS
  <2>2. t.pkg # task.pkg /\ t.other # task.pkg /\ UnfinishedOK(t)
    BY StackApart DEF DoneInv
  <2> QED BY <1>2, <2>2 DEF UnfinishedOK
<1>N. UnfinishedOK(NoTask)' BY DEF UnfinishedOK, NoTask
<1>3. ASSUME Waiting' \subseteq Waiting, task' = NoTask \/ task' \in Waiting
      PROVE  \A t \in (Waiting \cup {task})' : UnfinishedOK(t)'
  BY <1>3, <1>W, <1>N DEF UnfinishedOK
<1>4. ASSUME Waiting' = Waiting, UnfinishedOK(task)'
      PROVE  \A t \in (Waiting \cup {task})' : UnfinishedOK(t)'
  BY <1>4, <1>W DEF UnfinishedOK
<1>5. CASE Installed
  BY <1>1, <1>3, <1>5, ReturnWaiting DEF Installed
<1>6. CASE Waiting' = Waiting /\ GoesOn /\ ~Installed
  <2>1. done' \subseteq done /\ task'.pkg = task.pkg /\ task'.other = task.other
    BY <1>6, AddDone DEF GoesOn
  <2>2. task.pkg \notin done BY <1>0, <1>6 DEF GoesOn, Flow, UnfinishedOK
  <2>3. ASSUME task.other # None, task'.pc \in OldGone
        PROVE  task.other \notin done'
    <3>1. CASE task.pc \in OldGone BY <1>0, <2>1, <2>3, <3>1 DEF UnfinishedOK
    <3>2. CASE task.pc \notin OldGone
      <4>1. task.pc = "dfiles" BY <1>6, <2>3, <3>2 DEF GoesOn, Flow, OldGone
      <4> QED BY <4>1, AtLabel DEF DeleteOldFiles
    <3> QED BY <3>1, <3>2
  <2>4. UnfinishedOK(task)' BY <2>1, <2>2, <2>3 DEF UnfinishedOK
  <2> QED BY <1>1, <1>4, <1>6, <2>4
<1>7. CASE Waiting' = Waiting /\ CheckPasses
  <2>1. PICK o \in Package \cup {None} :
            task' = [task EXCEPT !.other = o,
                                 !.pc = IF o = None THEN "deps" ELSE "mkdir"]
    BY <1>7 DEF CheckPasses
  <2>2. /\ task'.pkg = task.pkg /\ task'.other = o
        /\ task'.pc = IF o = None THEN "deps" ELSE "mkdir"
    BY <1>0, <2>1 DEF Task
  <2>3. done' = done /\ task.pkg \notin done
    BY <1>0, <1>7 DEF CheckPasses, dbvars
  <2>4. UnfinishedOK(task)' BY <2>2, <2>3 DEF UnfinishedOK, OldGone
  <2> QED BY <1>1, <1>4, <1>7, <2>4
<1>8. ASSUME NEW d \in Pattern, NEW q \in Package,
             Waiting' = Waiting \cup {[task EXCEPT !.todo = @ \ {d}]},
             task' = NewTask(q, TRUE), task.pc = "deps", UNCHANGED dbvars
      PROVE  \A t \in (Waiting \cup {task})' : UnfinishedOK(t)'
  <2>0. PICK t : t = [task EXCEPT !.todo = @ \ {d}] OBVIOUS
  <2>1. t.pkg = task.pkg /\ t.other = task.other /\ t.pc = task.pc
    BY <1>0, <2>0 DEF Task
  <2>2. done' = done BY <1>8 DEF dbvars
  <2>3. UnfinishedOK(t)' BY <1>0, <2>1, <2>2 DEF UnfinishedOK
  <2>4. UnfinishedOK(task)' BY <1>8 DEF UnfinishedOK, NewTask, OldGone
  <2> QED BY <1>W, <1>8, <2>0, <2>3, <2>4 DEF UnfinishedOK
<1> QED BY <1>1, <1>3, <1>5, <1>6, <1>7, <1>8, AddStepStackMoves

\* No call of pkg_do() is under way, or one has just begun.
LEMMA RestStack ==
    ASSUME callers' = <<>>
    PROVE  Waiting' = {}
BY EmptySeq DEF Waiting

LEMMA DeleteStepDone ==
    ASSUME DbTypeOK, DelControl, done \subseteq contents,
           dpc \in {"depends", "directory"} => Victim \notin done, DeleteStep
    PROVE  /\ done' \subseteq done
           /\ done' \subseteq contents'
           /\ dpc' \in {"depends", "directory"} => Victim' \notin done'
           /\ dpc # "files" => done' = done
<1>1. CASE RemoveFiles
  BY <1>1 DEF RemoveFiles, DelGoto, Victim
<1>2. CASE RemoveFromDepends
  BY <1>2 DEF RemoveFromDepends, DelGoto, Victim
<1>3. CASE RemovePkgDirectory
  BY <1>3 DEF RemovePkgDirectory, RemoveDirectory, DelExit
<1>4. CASE UNCHANGED dbvars /\ dpc' \notin {"depends", "directory"}
  BY <1>4 DEF dbvars
<1>5. ASSUME NEW p \in Package,
             SortMove(p) \/ SortRecurse(p) \/ SortForced(p) \/ AddLeaf(p)
      PROVE  UNCHANGED dbvars /\ dpc' \notin {"depends", "directory"}
  BY <1>5 DEF SortMove, SortRecurse, SortForced, AddLeaf
<1>6. CASE \/ \E i \in DOMAIN sorted : DropPreserved(i)
           \/ SortStuck \/ SortDone \/ LeavesDone \/ CheckPreserve
           \/ RemoveDone \/ RemoveMissing \/ RemoveStarts \/ DeinstallFails
  <2>1. UNCHANGED dbvars /\ dpc' \notin {"depends", "directory"}
    BY <1>6
    DEF DropPreserved, SortStuck, SortDone, LeavesDone, CheckPreserve,
        RemoveDone, RemoveMissing, RemoveStarts, DeinstallFails, DelGoto, DelExit
  <2> QED BY <1>4, <2>1
<1> QED BY <1>1, <1>2, <1>3, <1>4, <1>5, <1>6 DEF DeleteStep

\* robotpkg_admin neither installs nor removes.
LEMMA AdminStepDone ==
    ASSUME AdminStep
    PROVE  UNCHANGED <<pkgdir, contents, automatic, preserve, disk, done>>
BY DEF AdminStep, RebuildAdd, RebuildAborts, RemoveRequiredBy, WriteRequiredBy,
       RebuildDone, RemovedRequiredBy, RebuildTreeDone, dbvars

\* An interrupted removal may leave the directory, but not a package installed
\* to its end.
LEMMA CrashDone ==
    ASSUME DbTypeOK, done \subseteq contents, "torn" \notin Faults, Crash
    PROVE  done' \subseteq done /\ done' \subseteq contents'
<1>1. CASE CrashBetween \/ CrashWriting \/ CrashExtracting
  BY <1>1 DEF CrashBetween, CrashWriting, CrashExtracting, dbvars
<1>2. ASSUME NEW p \in Package,
             \/ CrashDeleting(p) \/ CrashUnregistering(p)
             \/ CrashRemovingDirectory(p)
      PROVE  done' \subseteq done /\ done' \subseteq contents'
  BY <1>2 DEF CrashDeleting, CrashUnregistering, CrashRemovingDirectory
<1> QED BY <1>1, <1>2 DEF Crash

LEMMA DoneInit == Init => DoneInv
<1> SUFFICES ASSUME Init PROVE DoneInv OBVIOUS
<1>1. Waiting = {} BY EmptyStack DEF Init, AddInit
<1> QED BY <1>1 DEF Init, AddInit, DbInit, DelInit, NoTask, DoneInv, UnfinishedOK

LEMMA DoneStep ==
    ASSUME "torn" \notin Faults,
           ControlInv, StackInv, DirsInv, OwnerInv, DoneInv, [Next]_vars
    PROVE  DoneInv'
<1>0. /\ DbTypeOK /\ AddControl /\ DelControl /\ OneProgram /\ AddIndex
      /\ done \subseteq contents
      /\ dpc \in {"depends", "directory"} => Victim \notin done
  BY DEF ControlInv, TypeOK, OwnerInv, DoneInv
<1>R. ASSUME callers' = <<>>, task'.pc \in {"none", "check"}, task'.other = None
      PROVE  \A t \in (Waiting \cup {task})' : UnfinishedOK(t)'
  <2>1. Waiting' = {} BY <1>R, RestStack
  <2> QED BY <1>R, <2>1 DEF UnfinishedOK
<1>I. ASSUME UNCHANGED addvars, task.pc = "none", done' \subseteq done
      PROVE  \A t \in (Waiting \cup {task})' : UnfinishedOK(t)'
  <2>1. Waiting' = Waiting /\ task' = task BY <1>I DEF addvars, Waiting
  <2> QED BY <1>I, <2>1 DEF DoneInv, UnfinishedOK
<1>1. CASE UserAdd
  <2>1. PICK p \in Package, opts \in AddOptions : AddCommand(p, opts)
    BY <1>1 DEF UserAdd
  <2>2. /\ dpc' = "none" /\ callers' = <<>> /\ task'.pc = "check"
        /\ task'.other = None /\ UNCHANGED dbvars
    BY <1>1, <2>1 DEF UserAdd, Idle, AddCommand, NewTask, delvars
  <2> QED BY <1>0, <1>R, <2>2 DEF DoneInv, dbvars
<1>2. CASE UserDelete
  <2>1. /\ UNCHANGED <<addvars, dbvars>> /\ task.pc = "none" /\ dpc' = "sort"
    BY <1>2 DEF UserDelete, DeleteCommand, Idle
  <2> QED BY <1>0, <1>I, <2>1 DEF DoneInv, dbvars, addvars
<1>3. CASE UserAdmin
  <2>1. /\ UNCHANGED <<addvars, delvars>> /\ task.pc = "none" /\ dpc' = "none"
        /\ UNCHANGED <<contents, done>>
    BY <1>3 DEF UserAdmin, Idle, RebuildCommand, RebuildTreeCommand,
                SetAutomatic, dbvars, delvars
  <2> QED BY <1>0, <1>I, <2>1 DEF DoneInv, addvars
<1>4. CASE AddStep /\ UNCHANGED <<delvars, admvars>>
  <2>1. dpc' = "none"
    BY <1>0, <1>4, StepsOfTheRunning DEF OneProgram, delvars
  <2> QED BY <1>0, <1>4, <2>1, AddStepDone DEF DoneInv
<1>5. CASE DeleteStep /\ UNCHANGED <<addvars, admvars>>
  <2>1. task.pc = "none" BY <1>0, <1>5, StepsOfTheRunning DEF OneProgram
  <2>2. /\ done' \subseteq done /\ done' \subseteq contents'
        /\ dpc' \in {"depends", "directory"} => Victim' \notin done'
    BY <1>0, <1>5, DeleteStepDone
  <2> QED BY <1>I, <1>5, <2>1, <2>2 DEF DoneInv
<1>6. CASE AdminStep /\ UNCHANGED <<addvars, delvars>>
  <2>1. task.pc = "none" /\ dpc' = "none"
    BY <1>0, <1>6, StepsOfTheRunning DEF OneProgram, delvars
  <2>2. UNCHANGED <<contents, done>> BY <1>6, AdminStepDone
  <2> QED BY <1>0, <1>I, <1>6, <2>1, <2>2 DEF DoneInv
<1>7. CASE Crash
  <2>1. done' \subseteq contents' BY <1>0, <1>7, CrashDone
  <2>2. callers' = <<>> /\ task' = NoTask /\ dpc' = "none"
    BY <1>7 DEF Crash, Exit, DelExit
  <2> QED BY <1>R, <2>1, <2>2, NoTaskOK DEF DoneInv, NoTask
<1>8. CASE UNCHANGED vars
  BY <1>8 DEF vars, dbvars, addvars, delvars, DoneInv, UnfinishedOK, Waiting,
              Victim
<1> QED BY <1>1, <1>2, <1>3, <1>4, <1>5, <1>6, <1>7, <1>8 DEF Next, Tools

-----------------------------------------------------------------------------
(* What robotpkg_admin rebuilds.                                            *)

\* The tree holds a line for every dependency that has a provider.
LEMMA ForwardDependsComplete ==
    ASSUME DbTypeOK,
           NEW best \in [Pattern -> Package \cup {None}],
           \A d \in Pattern : IF Providers(d) = {} THEN best[d] = None
                             ELSE IsBest(best[d], Providers(d)),
           tree' = ForwardDepends(best)
    PROVE  \A q \in pkgdir : \A d \in Deps[q] : Providers(d) # {} =>
               \E p \in Providers(d) : q \in tree'[p]
<1> SUFFICES ASSUME NEW q \in pkgdir, NEW d \in Deps[q], Providers(d) # {}
             PROVE  \E p \in Providers(d) : q \in tree'[p]
  OBVIOUS
<1>1. d \in Pattern BY PkgDbAssumption DEF DbTypeOK
<1>2. best[d] \in Providers(d) BY <1>1 DEF IsBest
<1>3. best[d] \in Package BY <1>2 DEF Providers, DbTypeOK
<1>4. q \in tree'[best[d]] BY <1>3 DEF ForwardDepends
<1> QED BY <1>2, <1>4

LEMMA TreeStarts ==
    ASSUME DbTypeOK, RebuildTreeCommand
    PROVE  TreeInv'
<1>1. /\ pkgdir \subseteq contents /\ atodo' = pkgdir /\ apc' = "remove"
      /\ UNCHANGED dbvars
  BY DEF RebuildTreeCommand
<1>2. PICK best \in [Pattern -> Package \cup {None}] :
          /\ \A d \in Pattern : IF Providers(d) = {} THEN best[d] = None
                                ELSE IsBest(best[d], Providers(d))
          /\ tree' = ForwardDepends(best)
  BY DEF RebuildTreeCommand
<1>3. \A p \in Package : \A q \in tree'[p] : Justified(q, p)
  BY <1>1, <1>2, ForwardDependsJustified
<1>4. \A q \in pkgdir : \A d \in Deps[q] : Providers(d) # {} =>
          \E p \in Providers(d) : q \in tree'[p]
  BY <1>2, ForwardDependsComplete
<1> QED BY <1>1, <1>3, <1>4 DEF TreeInv, Justified, Providers, dbvars

\* Each step of rebuild-tree removes one file or writes one.
LEMMA AdminStepTree ==
    ASSUME DbTypeOK, TreeInv, AdminStep
    PROVE  TreeInv'
<1>1. CASE apc' \notin {"remove", "write"} BY <1>1 DEF TreeInv
<1>2. ASSUME NEW p \in Package, RebuildAdd(p) \/ RebuildAborts(p)
      PROVE  apc' \notin {"remove", "write"}
  BY <1>2 DEF RebuildAdd, RebuildAborts, AdmExit
<1>3. CASE RebuildDone \/ RebuildTreeDone
  BY <1>1, <1>3 DEF RebuildDone, RebuildTreeDone, AdmExit
<1>4. ASSUME NEW p \in Package, RemoveRequiredBy(p) PROVE TreeInv'
  <2>1. /\ apc = "remove" /\ apc' = "remove" /\ atodo' = atodo \ {p}
        /\ UNCHANGED <<tree, pkgdir, contents>>
        /\ requiredBy' = [requiredBy EXCEPT ![p] = {}]
    BY <1>4 DEF RemoveRequiredBy
  <2>2. \A q \in pkgdir \ (atodo \ {p}) : requiredBy'[q] = {}
    BY <2>1 DEF TreeInv, DbTypeOK
  <2> QED BY <2>1, <2>2 DEF TreeInv, Providers, Justified
<1>5. CASE RemovedRequiredBy
  BY <1>5 DEF RemovedRequiredBy, dbvars, TreeInv, Providers, Justified
<1>6. ASSUME NEW p \in Package, WriteRequiredBy(p) PROVE TreeInv'
  <2>1. /\ apc = "write" /\ apc' = "write" /\ p \in atodo /\ atodo' = atodo \ {p}
        /\ UNCHANGED <<tree, pkgdir, contents>>
        /\ requiredBy' = [requiredBy EXCEPT ![p] = @ \cup tree[p]]
    BY <1>6 DEF WriteRequiredBy
  <2>2. requiredBy[p] = {} BY <2>1 DEF TreeInv
  <2>3. /\ \A q \in pkgdir \ (atodo \ {p}) : requiredBy'[q] = tree[q]
        /\ \A q \in atodo \ {p} : requiredBy'[q] = {}
    BY <2>1, <2>2 DEF TreeInv, DbTypeOK
  <2> QED BY <2>1, <2>3 DEF TreeInv, Providers, Justified
<1> QED BY <1>1, <1>2, <1>3, <1>4, <1>5, <1>6 DEF AdminStep

\* Each step of rebuild gives the files of one package an owner.
LEMMA AdminStepIndex ==
    ASSUME DbTypeOK, IndexInv, AdminStep
    PROVE  IndexInv'
<1>1. CASE apc' # "rebuild" BY <1>1 DEF IndexInv
<1>2. ASSUME NEW p \in Package, RebuildAdd(p) PROVE IndexInv'
  <2>1. /\ apc = "rebuild" /\ atodo' = atodo \ {p} /\ UNCHANGED <<contents, disk>>
        /\ \A f \in File : byfile'[f] =
               IF f \in Files[p] /\ disk[f] # None /\ byfile[f] = None
               THEN p ELSE byfile[f]
    BY <1>2 DEF RebuildAdd
  <2>2. p # None BY PkgDbAssumption
  <2>3. \A q \in contents : Files[q] \subseteq File
    BY PkgDbAssumption DEF DbTypeOK
  <2>4. \A q \in contents \ (atodo \ {p}) : \A f \in Files[q] :
            disk[f] # None => byfile'[f] # None
    BY <2>1, <2>2, <2>3 DEF IndexInv
  <2> QED BY <2>1, <2>4 DEF IndexInv
<1>3. ASSUME NEW p \in Package,
             RebuildAborts(p) \/ RemoveRequiredBy(p) \/ WriteRequiredBy(p)
      PROVE  apc' # "rebuild"
  BY <1>3 DEF RebuildAborts, RemoveRequiredBy, WriteRequiredBy, AdmExit
<1>4. CASE RebuildDone \/ RebuildTreeDone \/ RemovedRequiredBy
  BY <1>1, <1>4 DEF RebuildDone, RebuildTreeDone, RemovedRequiredBy, AdmExit
<1> QED BY <1>1, <1>2, <1>3, <1>4 DEF AdminStep

LEMMA AdminInit == Init => AdminInv
BY DEF Init, AdmInit, AdminInv, TreeInv, IndexInv

LEMMA AdminInvStep ==
    ASSUME ControlInv, DirsInv, AdminInv, [Next]_vars
    PROVE  AdminInv'
<1>0. /\ DbTypeOK /\ OneProgram /\ TreeInv /\ IndexInv
  BY DEF ControlInv, TypeOK, AdminInv
<1>1. CASE apc' = "none" BY <1>1 DEF AdminInv, TreeInv, IndexInv
<1>2. CASE UserAdmin
  <2>1. CASE RebuildCommand
    <3>1. pkgdir = contents BY <1>2 DEF DirsInv, UserAdmin, Idle
    <3>2. IndexInv' BY <2>1, <3>1 DEF RebuildCommand, IndexInv
    <3> QED BY <2>1, <3>2 DEF RebuildCommand, AdminInv, TreeInv
  <2>2. CASE RebuildTreeCommand
    BY <1>0, <2>2, TreeStarts DEF RebuildTreeCommand, AdminInv, IndexInv
  <2>3. CASE ~RebuildCommand /\ ~RebuildTreeCommand
    <3>1. apc' = "none"
      BY <1>2, <2>3 DEF UserAdmin, Idle, SetAutomatic, admvars
    <3> QED BY <1>1, <3>1
  <2> QED BY <2>1, <2>2, <2>3
<1>3. CASE AdminStep
  BY <1>0, <1>3, AdminStepTree, AdminStepIndex DEF AdminInv
<1>4. CASE \/ AddStep /\ UNCHANGED admvars
           \/ DeleteStep /\ UNCHANGED admvars
           \/ UserAdd \/ UserDelete \/ Crash
  <2>1. apc' = "none"
    BY <1>0, <1>4, StepsOfTheRunning
    DEF OneProgram, UserAdd, UserDelete, Idle, Crash, AdmExit, admvars
  <2> QED BY <1>1, <2>1
<1>5. CASE UNCHANGED vars
  BY <1>0, <1>5
  DEF vars, dbvars, admvars, AdminInv, TreeInv, IndexInv, Providers, Justified
<1> QED BY <1>2, <1>3, <1>4, <1>5 DEF Next, Tools

\* robotpkg_admin rebuild-tree (admin/main.c, add_depends_of() and what follows)
\* leaves, when it ends, a line for every dependency that an installed package
\* can serve, and no line that no dependency of an installed package asks for,
\* whatever -f, -D and a failed remove_line() had left in the +REQUIRED_BY files.
THEOREM TreeRebuiltCorrect ==
    ASSUME "torn" \notin Faults
    PROVE  Spec => TreeRebuilt
<1> DEFINE IInv == ControlInv /\ StackInv /\ DirsInv /\ OwnerInv /\ AdminInv
           Rebuilt ==
               apc = "write" /\ apc' = "none" /\ ~Crash =>
                   /\ \A q \in contents : \A d \in Deps[q] : Providers(d) # {} =>
                          \E p \in Providers(d) : q \in requiredBy[p]
                   /\ \A p \in contents : \A q \in requiredBy[p] :
                          q \in contents /\ \E d \in Deps[q] : p \in Matches[d]
<1>1. Init => IInv BY ControlInit, OwnerInit, AdminInit
<1>2. IInv /\ [Next]_vars => IInv' BY ControlStep, OwnerStep, AdminInvStep
<1>3. IInv /\ [Next]_vars => Rebuilt
  <2> SUFFICES ASSUME IInv, [Next]_vars, apc = "write", apc' = "none", ~Crash
               PROVE  Rebuilt
    OBVIOUS
  <2>1. /\ DbTypeOK /\ OneProgram /\ contents = pkgdir /\ TreeInv
        /\ contents \subseteq Package
    BY DEF ControlInv, TypeOK, DbTypeOK, OneProgram, DirsInv, AdminInv
  <2>2. RebuildTreeDone
    <3>1. AdminStep
      BY <2>1, StepsOfTheRunning
      DEF Next, Tools, OneProgram, UserAdd, UserDelete, UserAdmin, Idle, vars,
          admvars
    <3> QED BY <3>1 DEF AdminStep, RebuildAdd, RebuildAborts, RemoveRequiredBy,
                        WriteRequiredBy, RebuildDone, RemovedRequiredBy
  <2>3. atodo = {} BY <2>2 DEF RebuildTreeDone
  <2>4. \A p \in pkgdir : requiredBy[p] = tree[p]
    BY <2>1, <2>3 DEF TreeInv
  <2>5. ASSUME NEW q \in contents, NEW d \in Deps[q], Providers(d) # {}
        PROVE  \E p \in Providers(d) : q \in requiredBy[p]
    BY <2>1, <2>4, <2>5 DEF TreeInv, Providers
  <2>6. \A p \in contents : \A q \in requiredBy[p] :
            q \in contents /\ \E d \in Deps[q] : p \in Matches[d]
    BY <2>1, <2>4 DEF TreeInv, Justified
  <2> QED BY <2>5, <2>6
<1>4. Spec => []IInv BY <1>1, <1>2, PTL DEF Spec
<1> HIDE DEF IInv
<1>5. IInv /\ [Next]_vars => [Rebuilt]_vars BY <1>3
<1> QED BY <1>4, <1>5, PTL DEF Spec, TreeRebuilt

\* robotpkg_admin rebuild (admin/main.c, add_pkg()) gives every file that is in
\* place and that an installed package lists an owner in pkgdb.byfile.db, and
\* never stops at a directory without +CONTENTS, if no interruption leaves one.
THEOREM IndexRebuiltCorrect ==
    ASSUME "torn" \notin Faults
    PROVE  Spec => IndexRebuilt
<1> DEFINE IInv == ControlInv /\ StackInv /\ DirsInv /\ OwnerInv /\ AdminInv
           Rebuilt ==
               apc = "rebuild" /\ apc' = "none" /\ ~Crash =>
                   \A p \in contents : \A f \in Files[p] :
                       disk[f] # None => byfile[f] # None
<1>1. Init => IInv BY ControlInit, OwnerInit, AdminInit
<1>2. IInv /\ [Next]_vars => IInv' BY ControlStep, OwnerStep, AdminInvStep
<1>3. IInv /\ [Next]_vars => Rebuilt
  <2> SUFFICES ASSUME IInv, [Next]_vars, apc = "rebuild", apc' = "none", ~Crash
               PROVE  Rebuilt
    OBVIOUS
  <2>1. OneProgram /\ IndexInv BY DEF ControlInv, AdminInv
  <2>2. AdminStep
    BY <2>1, StepsOfTheRunning
    DEF Next, Tools, OneProgram, UserAdd, UserDelete, UserAdmin, Idle, vars,
        admvars
  <2>3. \A p \in Package : ~RebuildAborts(p)
    BY <2>1 DEF RebuildAborts, IndexInv
  <2>4. RebuildDone
    BY <2>2, <2>3 DEF AdminStep, RebuildAdd, RemoveRequiredBy, WriteRequiredBy,
                      RebuildTreeDone, RemovedRequiredBy
  <2>5. atodo = {} BY <2>4 DEF RebuildDone
  <2> QED BY <2>1, <2>5 DEF IndexInv
<1>4. Spec => []IInv BY <1>1, <1>2, PTL DEF Spec
<1> HIDE DEF IInv
<1>5. IInv /\ [Next]_vars => [Rebuilt]_vars BY <1>3
<1> QED BY <1>4, <1>5, PTL DEF Spec, IndexRebuilt

-----------------------------------------------------------------------------
(* What a call relies on about dependencies and their records.              *)

\* A call registers with packages of lower levels only.
LEMMA RegistersBelow ==
    ASSUME AddControl, NEW q \in Package, RegisterDepend(q)
    PROVE  Level[q] < Level[task.pkg] /\ q # task.pkg
<1>1. TaskOK(task) /\ task.pc = "register" /\ q \in task.deps
  BY DEF AddControl, RegisterDepend
<1>2. task.pkg \in Package BY <1>1 DEF TaskOK, Task
<1>3. \E d \in Deps[task.pkg] : q \in Matches[d] BY <1>1 DEF TaskOK
<1> QED BY <1>2, <1>3, DependenciesAcyclic

\* A package of the stack that nothing requires stays so.
LEMMA StaysFresh ==
    ASSUME DbTypeOK, AddControl, AddStep,
           NEW p \in Package, requiredBy[p] = {},
           task.pc = "move" => p # task.pkg,
           \A q \in Package : RegisterDepend(q) => q # p
    PROVE  requiredBy'[p] = {}
<1>1. CASE UNCHANGED requiredBy BY <1>1
<1>2. CASE MakeDirectory \/ WriteMetaData \/ WriteMetaDataFails \/ DeleteOldFiles
           \/ Installed
  BY <1>2 DEF MakeDirectory, WriteMetaData, WriteMetaDataFails, DeleteOldFiles,
              Installed
<1>3. CASE MoveRequiredBy BY <1>3 DEF MoveRequiredBy
<1>4. CASE DeleteOldDepends
  BY <1>4 DEF DeleteOldDepends, RemoveDepends, WithoutLines
<1>5. CASE DeleteOldDirectory \/ NukeDirectory
  BY <1>5 DEF DeleteOldDirectory, NukeDirectory, RemoveDirectory, DbTypeOK
<1>6. ASSUME NEW q \in Package, RegisterDepend(q) PROVE requiredBy'[p] = {}
  BY <1>6 DEF RegisterDepend, DbTypeOK
<1> QED BY <1>1, <1>2, <1>3, <1>4, <1>5, <1>6, AddStepWrites

LEMMA AddStepFresh ==
    ASSUME DbTypeOK, AddControl, StackInv, DirsInv, DbRequired,
           \A t \in Waiting \cup {task} : FreshOK(t), AddStep
    PROVE  \A t \in (Waiting \cup {task})' : FreshOK(t)'
<1>0. task \in Task /\ TaskOK(task) /\ FreshOK(task)
  BY DEF AddControl, AddTypeOK
<1>W. \A t \in Waiting : FreshOK(t)'
  <2> SUFFICES ASSUME NEW t \in Waiting, t.other = None
               PROVE  requiredBy'[t.pkg] = {}
    BY StackApart DEF FreshOK
  <2>1. t.pkg \in Package /\ t.pc = "deps" /\ t.pkg # task.pkg
    BY StackApart
  <2>2. requiredBy[t.pkg] = {} BY <2>1 DEF FreshOK
  <2>3. \A q \in Package : RegisterDepend(q) => q # t.pkg
    BY StackApart, RegistersBelow
  <2> QED BY <2>1, <2>2, <2>3, StaysFresh
<1>N. FreshOK(NoTask)' BY DEF FreshOK, NoTask
<1>1. CASE Waiting' = Waiting /\ GoesOn
  <2> SUFFICES ASSUME \/ task'.pc \notin {"none", "check"} /\ task'.other = None
                      \/ task'.pc \in {"mkdir", "meta", "move"}
               PROVE  requiredBy'[task.pkg] = {}
    BY <1>W, <1>1 DEF FreshOK, GoesOn
  <2>1. /\ task.pc \notin {"none", "check"} /\ task.other = None
        \/ task.pc \in {"mkdir", "meta"}
    BY <1>1 DEF GoesOn, Flow
  <2>2. requiredBy[task.pkg] = {} /\ task.pc # "move" /\ task.pkg \in Package
    BY <1>0, <2>1 DEF FreshOK, TaskOK, Task, Moving
  <2> QED BY <2>2, RegistersBelow, StaysFresh
<1>2. CASE Waiting' = Waiting /\ CheckPasses
  <2>1. /\ task.pc = "check" /\ task.pkg \notin contents
        /\ task'.pkg = task.pkg /\ requiredBy' = requiredBy
    BY <1>0, <1>2 DEF CheckPasses, dbvars, Task
  <2>2. task.pkg \in Package \ pkgdir
    BY <1>0, <2>1 DEF DirsInv, TaskOK, Task
  <2>3. requiredBy'[task'.pkg] = {} BY <2>1, <2>2 DEF DbRequired
  <2> QED BY <1>W, <1>2, <2>3 DEF FreshOK
<1>3. CASE Waiting' \subseteq Waiting /\ (task' = NoTask \/ task' \in Waiting)
  BY <1>3, <1>W, <1>N DEF FreshOK
<1>4. ASSUME NEW d \in Pattern, NEW q \in Package,
             Waiting' = Waiting \cup {[task EXCEPT !.todo = @ \ {d}]},
             task' = NewTask(q, TRUE), UNCHANGED dbvars
      PROVE  \A t \in (Waiting \cup {task})' : FreshOK(t)'
  <2>0. PICK t : t = [task EXCEPT !.todo = @ \ {d}] OBVIOUS
  <2>1. FreshOK(t)' BY <1>0, <1>4, <2>0 DEF FreshOK, Task, dbvars
  <2>2. FreshOK(task)' BY <1>4 DEF FreshOK, NewTask
  <2> QED BY <1>W, <1>4, <2>0, <2>1, <2>2 DEF FreshOK
<1> QED BY <1>1, <1>2, <1>3, <1>4, AddStepStackMoves

\* check_other_installed() has asked the dependents of the old version.
LEMMA AddStepFits ==
    ASSUME AddControl, AddRequired, ReplacementFits, AddStep
    PROVE  ReplacementFits'
<1>0. task \in Task BY DEF AddControl, AddTypeOK
<1>1. SUFFICES ASSUME task'.pc \in {"mkdir", "meta", "move"}, Replacing'
               PROVE  \A q \in requiredBy'[task'.other] : \A d \in Deps[q] :
                          task'.other \in Matches[d] => task'.pkg \in Matches[d]
  BY DEF ReplacementFits
<1>2. CASE CheckPasses
  <2>1. PICK o \in Package \cup {None} :
            /\ ~CannotReplace(o)
            /\ task' = [task EXCEPT !.other = o,
                                    !.pc = IF o = None THEN "deps" ELSE "mkdir"]
    BY <1>2 DEF CheckPasses
  <2>2. task'.pkg = task.pkg /\ task'.other = o /\ requiredBy' = requiredBy
    BY <1>0, <1>2, <2>1 DEF CheckPasses, Task, dbvars
  <2>3. ~BreaksDependents(o)
    BY <1>1, <2>1, <2>2 DEF CannotReplace, Replacing
  <2> QED BY <2>2, <2>3 DEF BreaksDependents, AddRequired
<1>3. CASE GoesOn
  <2>1. /\ task.pc \in {"mkdir", "meta"} /\ task.other # None
        /\ task'.other = task.other /\ task'.pkg = task.pkg
    BY <1>1, <1>3 DEF GoesOn, Flow, Replacing
  <2>2. requiredBy' = requiredBy
    BY <2>1, AtLabel DEF MakeDirectory, WriteMetaData, WriteMetaDataFails
  <2> QED BY <2>1, <2>2 DEF ReplacementFits, Replacing
<1>4. CASE task' = NoTask \/ task' \in Waiting
  <2>1. task'.pc \in {"none", "deps"}
    BY <1>4, NoTaskOK DEF AddControl, CallersOK, Waiting
  <2> QED BY <1>1, <2>1
<1>5. CASE \E q \in Package : task' = NewTask(q, TRUE)
  BY <1>1, <1>5 DEF NewTask
<1> QED BY <1>2, <1>3, <1>4, <1>5, AddStepStackMoves

\* The step on which check_dependencies() is satisfied.
LEMMA AddStepResolves ==
    ASSUME AddControl, AddStep, Resolved'
    PROVE  \/ Resolved /\ GoesOn
           \/ DepsResolved /\ \A d \in Deps[task.pkg] : Providers(d) # {}
<1>0. task \in Task BY DEF AddControl, AddTypeOK
<1>1. CASE GoesOn /\ task.pc # "deps"
  BY <1>1 DEF GoesOn, Flow, Resolved, Replacing
<1>2. CASE task.pc = "deps"
  <2>1. ASSUME NEW status \in {"ok", "fail"}, Return(status) PROVE FALSE
    BY <2>1, ReturnPc DEF Resolved
  <2>2. ASSUME DepsFail PROVE FALSE
    BY <1>0, <2>1, <2>2 DEF DepsFail, Goto, Task, PC, Resolved
  <2>3. ASSUME NEW d \in Pattern, DepPresent(d) \/ DepInstall(d) \/ DepNoArchive(d)
        PROVE  FALSE
    BY <1>0, <1>2, <2>2, <2>3
    DEF DepPresent, DepInstall, DepNoArchive, NewTask, Task, Resolved
  <2>4. CASE DepReturned
    BY <1>0, <1>2, <2>1, <2>4 DEF DepReturned, Task, Resolved
  <2>5. CASE DepsResolved BY <2>2, <2>5 DEF DepsResolved
  <2> QED BY <1>2, <2>3, <2>4, <2>5
          DEF AddStep, AlreadyInstalled, CheckRefuses, CheckAborts, CheckPasses,
              MakeDirectory, WriteMetaData, WriteMetaDataFails, MoveRequiredBy,
              MoveMarks, MoveFails, DeleteOldFails, DeleteOldStarts,
              DeleteOldFiles, DeleteOldDepends, DeleteOldDirectory, PreInstall,
              ExtractFile, ExtractFails, Extracted, PostInstall, RegisterDepend,
              Installed, NukePackage, NukeDirectory
<1>3. CASE CheckPasses
  <2>1. PICK o \in Package \cup {None} :
            task' = [task EXCEPT !.other = o,
                                 !.pc = IF o = None THEN "deps" ELSE "mkdir"]
    BY <1>3 DEF CheckPasses
  <2>2. task'.other = o /\ task'.pc = IF o = None THEN "deps" ELSE "mkdir"
    BY <1>0, <2>1 DEF Task
  <2> QED BY <2>2 DEF Resolved, Replacing
<1>4. CASE task' = NoTask \/ task' \in Waiting
  <2>1. task'.pc \in {"none", "deps"}
    BY <1>4, NoTaskOK DEF AddControl, CallersOK, Waiting
  <2> QED BY <2>1 DEF Resolved
<1>5. CASE \E q \in Package : task' = NewTask(q, TRUE)
  BY <1>5 DEF NewTask, Resolved
<1> QED BY <1>1, <1>2, <1>3, <1>4, <1>5, AddStepStackMoves

\* Only registration takes a dependency off its list.
LEMMA KeepsDependencies ==
    ASSUME AddControl, AddStep, Resolved, GoesOn,
           \A q \in Package : ~RegisterDepend(q)
    PROVE  task'.deps = task.deps
<1>0. task \in Task BY DEF AddControl, AddTypeOK
<1>G. ASSUME NEW pc \in PC, Goto(pc) PROVE task'.deps = task.deps
  BY <1>0, <1>G DEF Goto, Task
<1> USE DEF PC
<1>1. CASE task.pc \in {"mkdir", "meta"}
  <2>1. MakeDirectory \/ WriteMetaData \/ WriteMetaDataFails
    BY <1>1, AtLabel
  <2> QED BY <1>G, <2>1 DEF MakeDirectory, WriteMetaData, WriteMetaDataFails
<1>2. CASE task.pc \in {"pre", "extract", "post"}
  <2>1. \/ PreInstall \/ Extracted \/ PostInstall
        \/ \E f \in File : ExtractFile(f) \/ ExtractFails(f)
    BY <1>2
    DEF AddStep, AlreadyInstalled, CheckRefuses, CheckAborts, CheckPasses,
        DepPresent, DepInstall, DepNoArchive, DepReturned, DepsResolved,
        MakeDirectory, WriteMetaData, WriteMetaDataFails, MoveRequiredBy,
        MoveMarks, MoveFails, DeleteOldFails, DeleteOldStarts, DeleteOldFiles,
        DeleteOldDepends, DeleteOldDirectory, RegisterDepend, Installed,
        NukePackage, NukeDirectory
  <2>2. CASE PreInstall \/ Extracted \/ PostInstall
    BY <1>G, <2>2 DEF PreInstall, Extracted, PostInstall
  <2>3. ASSUME NEW f \in File, ExtractFile(f) \/ ExtractFails(f)
        PROVE  task'.deps = task.deps
    BY <1>0, <1>G, <2>3 DEF ExtractFile, ExtractFails, Task
  <2> QED BY <2>1, <2>2, <2>3
<1>3. CASE task.pc = "register"
  <2>1. Return("ok") BY <1>3, AtLabel DEF Installed
  <2>2. task'.pc \in {"none", "deps"} BY <2>1, ReturnPc
  <2> QED BY <1>3, <2>2 DEF GoesOn, Flow
<1> QED BY <1>1, <1>2, <1>3 DEF Resolved

LEMMA AddStepFound ==
    ASSUME DbTypeOK, AddControl, DirsInv, DependenciesFound, AddStep
    PROVE  DependenciesFound'
<1>0. task \in Task /\ TaskOK(task) BY DEF AddControl, AddTypeOK
<1>1. SUFFICES ASSUME Resolved', NEW d \in Deps[task'.pkg]
               PROVE  \E p \in Matches[d] \cap contents' :
                          \/ p \in task'.deps
                          \/ task'.pkg \in requiredBy'[p] \cup orphaned'
  BY DEF DependenciesFound
<1>2. CASE DepsResolved /\ \A e \in Deps[task.pkg] : Providers(e) # {}
  <2>1. PICK best \in [Deps[task.pkg] -> Package] :
            /\ \A e \in Deps[task.pkg] : IsBest(best[e], Providers(e))
            /\ task' = [task EXCEPT !.deps = {best[e] : e \in Deps[task.pkg]},
                                    !.pc = IF Replacing THEN "pre" ELSE "mkdir"]
    BY <1>2 DEF DepsResolved
  <2>2. /\ task'.pkg = task.pkg
        /\ task'.deps = {best[e] : e \in Deps[task.pkg]}
        /\ task.pc = "deps" /\ contents' = contents
    BY <1>0, <1>2, <2>1 DEF DepsResolved, Task, dbvars
  <2>3. best[d] \in Matches[d] \cap contents
    BY <2>1, <2>2 DEF IsBest, Providers, DirsInv
  <2> QED BY <2>2, <2>3
<1>3. CASE Resolved /\ GoesOn
  <2>1. /\ task'.pkg = task.pkg
        /\ task.pc \in {"mkdir", "meta", "pre", "extract", "post", "register"}
        /\ task.pc \in {"mkdir", "meta"} => ~Replacing
        /\ task.pkg \in Package
    BY <1>0, <1>3 DEF GoesOn, Resolved, TaskOK, Task
  <2>2. PICK p \in Matches[d] \cap contents :
            p \in task.deps \/ task.pkg \in requiredBy[p] \cup orphaned
    BY <1>3, <2>1 DEF DependenciesFound
  <2>3. p \in Package BY <2>2 DEF DbTypeOK
  <2>4. CASE \A q \in Package : ~RegisterDepend(q)
    <3>1. contents \subseteq contents' /\ UNCHANGED <<requiredBy, orphaned>>
      BY <2>1, <2>4, AddStepWrites
      DEF MakeDirectory, WriteMetaData, WriteMetaDataFails, Installed,
          MoveRequiredBy, DeleteOldFiles, DeleteOldDepends, DeleteOldDirectory,
          NukeDirectory
    <3>2. task'.deps = task.deps BY <1>3, <2>4, KeepsDependencies
    <3> QED BY <2>1, <2>2, <3>1, <3>2
  <2>5. ASSUME NEW q \in Package, RegisterDepend(q)
        PROVE  \/ p \in task'.deps
               \/ task.pkg \in requiredBy'[p] \cup orphaned'
    <3>1. task'.deps = task.deps \ {q}
      BY <1>0, <2>5 DEF RegisterDepend, Task
    <3>2. /\ orphaned \subseteq orphaned'
          /\ requiredBy[p] \subseteq requiredBy'[p]
          /\ task.pkg \in requiredBy'[q] \cup orphaned'
      BY <2>3, <2>5 DEF RegisterDepend, DbTypeOK
    <3> QED BY <2>2, <3>1, <3>2
  <2>7. CASE \E q \in Package : RegisterDepend(q)
    BY <2>1, <2>2, <2>5, <2>7 DEF RegisterDepend
  <2> QED BY <2>1, <2>4, <2>5, <2>7, AddStepWrites
          DEF MoveRequiredBy, DeleteOldFiles, DeleteOldDepends,
              DeleteOldDirectory, NukeDirectory
<1> QED BY <1>1, <1>2, <1>3, AddStepResolves

-----------------------------------------------------------------------------
(* The records of what is installed to its end.                             *)

\* A step keeps the records if it keeps the lines of those that stay.
LEMMA RecordsKept ==
    ASSUME DependencyRecorded, done' \ orphaned' \subseteq done \ orphaned,
           \A p \in contents : \A q \in requiredBy[p] :
               q \in done' \ orphaned' => p \in contents' /\ q \in requiredBy'[p]
    PROVE  DependencyRecorded'
BY DEF DependencyRecorded

\* A directory goes without breaking a record when those that lose a line are
\* known to be cut off.
LEMMA RemoveDirectoryRecords ==
    ASSUME DbTypeOK, DependencyRecorded, done \subseteq pkgdir,
           NEW p \in Package, NEW lost, RemoveDirectory(p, lost),
           requiredBy[p] \cap pkgdir \subseteq lost
    PROVE  DependencyRecorded'
<1>1. /\ contents' = contents \ {p} /\ done' = done \ {p}
      /\ orphaned' = (orphaned \cup (lost \cap pkgdir)) \ {p}
      /\ \A r \in Package : r # p => requiredBy'[r] = requiredBy[r]
  BY DEF RemoveDirectory, DbTypeOK
<1>2. contents \subseteq Package BY DEF DbTypeOK
<1>3. \A q \in requiredBy[p] : q \notin done' \ orphaned' BY <1>1
<1>4. done' \ orphaned' \subseteq done \ orphaned BY <1>1
<1> QED BY <1>1, <1>2, <1>3, <1>4, RecordsKept

\* The lines that go, or stay, are of a package that is being removed.
LEMMA RemoveDependsRecords ==
    ASSUME DbTypeOK, DependencyRecorded, NEW p \in Package, p \notin done,
           NEW mayFail, RemoveDepends(p, mayFail),
           UNCHANGED <<contents, done, orphaned>>
    PROVE  DependencyRecorded'
<1>1. \A r \in Package : requiredBy[r] \subseteq requiredBy'[r] \cup {p}
  BY DEF RemoveDepends, WithoutLines
<1> QED BY <1>1, RecordsKept DEF DbTypeOK

LEMMA AddStepRecorded ==
    ASSUME DbTypeOK, AddControl, StackInv, DirsInv, AddIndex, AddOrder, DoneInv,
           \A t \in Waiting \cup {task} : FreshOK(t),
           ReplacementFits, DependenciesFound, DependencyRecorded, AddStep
    PROVE  DependencyRecorded'
<1>0. /\ TaskOK(task) /\ FreshOK(task) /\ UnfinishedOK(task) /\ IndexOK(task)
      /\ task.pc # "none" => task.pkg \in Package
      /\ task.pc \in Moving => task.other \in Package
      /\ contents \subseteq Package /\ done \subseteq pkgdir
  BY DEF AddControl, AddTypeOK, DoneInv, AddIndex, TaskOK, Task, DbTypeOK, DirsInv
<1>1. CASE UNCHANGED <<pkgdir, contents, requiredBy, done, orphaned>>
  BY <1>1, RecordsKept
<1>2. CASE MakeDirectory \/ WriteMetaData \/ WriteMetaDataFails
  <2>1. contents \subseteq contents' /\ UNCHANGED <<requiredBy, done, orphaned>>
    BY <1>2 DEF MakeDirectory, WriteMetaData, WriteMetaDataFails
  <2> QED BY <2>1, RecordsKept
<1>3. CASE MoveRequiredBy
  <2>1. /\ task.pc = "move" /\ UNCHANGED <<contents, done, orphaned>>
        /\ task.other \in Package /\ task.pkg \in Package
        /\ Replacing /\ task.other # task.pkg
    BY <1>0, <1>3 DEF MoveRequiredBy, Moving, TaskOK, Replacing, StackInv, OtherOK
  <2>2. requiredBy[task.pkg] = {} /\ task.pkg \in contents
    BY <1>0, <2>1 DEF FreshOK, IndexOK, Described, Moving
  <2>3. CASE requiredBy' = requiredBy BY <2>1, <2>3, RecordsKept
  <2>4. CASE requiredBy' # requiredBy
    <3>0. \A p \in Package :
              requiredBy'[p] = CASE p = task.pkg   -> requiredBy[task.other]
                                 [] p = task.other -> {}
                                 [] OTHER          -> requiredBy[p]
      BY <1>3, <2>4 DEF MoveRequiredBy
    <3>1. /\ requiredBy'[task.pkg] = requiredBy[task.other]
          /\ \A p \in Package : p # task.pkg /\ p # task.other =>
                 requiredBy'[p] = requiredBy[p]
      <4>1. requiredBy'[task.pkg] = requiredBy[task.other] BY <2>1, <3>0
      <4>2. ASSUME NEW p \in Package, p # task.pkg, p # task.other
            PROVE  requiredBy'[p] = requiredBy[p]
        BY <3>0, <4>2
      <4> QED BY <4>1, <4>2
    <3>2. ASSUME NEW q \in done \ orphaned, NEW d \in Deps[q]
          PROVE  \E p \in Matches[d] \cap contents : q \in requiredBy'[p]
      <4>1. PICK p \in Matches[d] \cap contents : q \in requiredBy[p]
        BY <3>2 DEF DependencyRecorded
      <4>2. CASE p = task.other
        <5>1. task.pkg \in Matches[d]
          BY <2>1, <4>1, <4>2 DEF ReplacementFits
        <5> QED BY <2>2, <3>1, <4>1, <4>2, <5>1
      <4>3. CASE p # task.other
        BY <1>0, <2>2, <3>1, <4>1, <4>3
      <4> QED BY <4>2, <4>3
    <3> QED BY <2>1, <3>2 DEF DependencyRecorded
  <2> QED BY <2>3, <2>4
<1>4. CASE DeleteOldFiles
  <2>1. done' \subseteq done /\ UNCHANGED <<contents, requiredBy, orphaned>>
    BY <1>4 DEF DeleteOldFiles
  <2> QED BY <2>1, RecordsKept
<1>5. CASE DeleteOldDepends
  <2>1. task.other \in Package /\ task.other \notin done
    BY <1>0, <1>5 DEF DeleteOldDepends, Moving, UnfinishedOK, OldGone, TaskOK
  <2> QED BY <1>5, <2>1, RemoveDependsRecords DEF DeleteOldDepends
<1>6. CASE DeleteOldDirectory
  <2>1. task.other \in Package /\ requiredBy[task.other] = {}
    BY <1>0, <1>6 DEF DeleteOldDirectory, Moving, AddOrder
  <2> QED BY <1>0, <1>6, <2>1, RemoveDirectoryRecords DEF DeleteOldDirectory
<1>7. ASSUME NEW q \in Package, RegisterDepend(q) PROVE DependencyRecorded'
  <2>1. /\ UNCHANGED <<contents, done>> /\ orphaned \subseteq orphaned'
        /\ \A p \in Package : requiredBy[p] \subseteq requiredBy'[p]
    BY <1>7 DEF RegisterDepend, DbTypeOK
  <2> QED BY <1>0, <2>1, RecordsKept
<1>8. CASE Installed
  <2>1. /\ task.pc = "register" /\ task.deps = {}
        /\ done' = done \cup {task.pkg}
        /\ UNCHANGED <<contents, requiredBy, orphaned>>
    BY <1>8 DEF Installed
  <2>2. task.pkg \notin orphaned =>
            \A d \in Deps[task.pkg] : \E p \in Matches[d] \cap contents :
                task.pkg \in requiredBy[p]
    BY <2>1 DEF DependenciesFound, Resolved
  <2> QED BY <2>1, <2>2 DEF DependencyRecorded
<1>9. CASE NukeDirectory
  <2>1. task.pkg \in Package BY <1>0, <1>9 DEF NukeDirectory
  <2> QED BY <1>0, <1>9, <2>1, RemoveDirectoryRecords DEF NukeDirectory
<1> QED BY <1>1, <1>2, <1>3, <1>4, <1>5, <1>6, <1>7, <1>8, <1>9, AddStepWrites

LEMMA DeleteStepRecorded ==
    ASSUME DbTypeOK, DelControl, DirsInv, DoneInv, DependentsFirst,
           DependencyRecorded, DeleteStep
    PROVE  DependencyRecorded'
<1>0. /\ dpc \in {"files", "depends", "directory"} => Victim \in Package
      /\ done \subseteq pkgdir
  BY VictimIsPackage DEF DoneInv, DirsInv
<1>1. CASE UNCHANGED dbvars BY <1>1, RecordsKept DEF dbvars
<1>2. CASE RemoveFiles
  <2>1. done' \subseteq done /\ UNCHANGED <<contents, requiredBy, orphaned>>
    BY <1>2 DEF RemoveFiles
  <2> QED BY <2>1, RecordsKept
<1>3. CASE RemoveFromDepends
  BY <1>0, <1>3, RemoveDependsRecords DEF RemoveFromDepends, DoneInv
<1>4. CASE RemovePkgDirectory
  <2>1. requiredBy[Victim] \cap pkgdir
            \subseteq IF Forced THEN requiredBy[Victim] ELSE {}
    BY <1>4 DEF RemovePkgDirectory, DependentsFirst
  <2> QED BY <1>0, <1>4, <2>1, RemoveDirectoryRecords DEF RemovePkgDirectory
<1> QED BY <1>1, <1>2, <1>3, <1>4
        DEF DeleteStep, SortMove, SortRecurse, SortForced, AddLeaf,
            DropPreserved, SortStuck, SortDone, LeavesDone, CheckPreserve,
            RemoveDone, RemoveMissing, RemoveStarts, DeinstallFails

LEMMA AdminStepRecorded ==
    ASSUME DbTypeOK, DirsInv, DoneInv, TreeInv, DependencyRecorded, AdminStep
    PROVE  DependencyRecorded'
<1>0. /\ UNCHANGED <<contents, done>> /\ contents \subseteq Package
      /\ done \subseteq pkgdir
  BY AdminStepDone DEF DbTypeOK, DoneInv, DirsInv
<1>1. CASE UNCHANGED <<requiredBy, orphaned>> BY <1>0, <1>1, RecordsKept
<1>2. ASSUME NEW p \in Package, RemoveRequiredBy(p) PROVE DependencyRecorded'
  <2>1. /\ orphaned' = orphaned \cup (requiredBy[p] \cap pkgdir)
        /\ \A r \in Package : r # p => requiredBy'[r] = requiredBy[r]
    BY <1>2 DEF RemoveRequiredBy, DbTypeOK
  <2> QED BY <1>0, <2>1, RecordsKept
<1>3. ASSUME NEW p \in Package, WriteRequiredBy(p) PROVE DependencyRecorded'
  <2>1. /\ orphaned' = orphaned
        /\ \A r \in Package : requiredBy[r] \subseteq requiredBy'[r]
    BY <1>3 DEF WriteRequiredBy, DbTypeOK
  <2> QED BY <1>0, <2>1, RecordsKept
<1>4. CASE RebuildTreeDone
  <2>1. /\ apc = "write" /\ atodo = {} /\ requiredBy' = requiredBy
        /\ orphaned' = {q \in pkgdir : \E d \in Deps[q] : Providers(d) = {}}
    BY <1>4 DEF RebuildTreeDone
  <2>2. /\ pkgdir = contents
        /\ \A p \in pkgdir : requiredBy[p] = tree[p]
    BY <2>1 DEF TreeInv, DirsInv
  <2>3. ASSUME NEW q \in done \ orphaned', NEW d \in Deps[q]
        PROVE  \E p \in Matches[d] \cap contents : q \in requiredBy[p]
    <3>1. q \in pkgdir /\ Providers(d) # {}
      BY <2>1, <2>2, <2>3 DEF DoneInv
    <3>2. PICK p \in Providers(d) : q \in tree[p]
      BY <2>1, <3>1 DEF TreeInv
    <3> QED BY <2>2, <3>2 DEF Providers
  <2> QED BY <1>0, <2>1, <2>3 DEF DependencyRecorded
<1>5. ASSUME NEW p \in Package, RebuildAdd(p) \/ RebuildAborts(p)
      PROVE  UNCHANGED <<requiredBy, orphaned>>
  BY <1>5 DEF RebuildAdd, RebuildAborts, dbvars
<1>6. CASE RebuildDone \/ RemovedRequiredBy
  BY <1>1, <1>6 DEF RebuildDone, RemovedRequiredBy, dbvars
<1> QED BY <1>1, <1>2, <1>3, <1>4, <1>5, <1>6 DEF AdminStep

LEMMA CrashRecorded ==
    ASSUME ControlInv, DirsInv, DoneInv, DependencyRecorded,
           "torn" \notin Faults, Crash
    PROVE  DependencyRecorded'
<1>0. DbTypeOK /\ contents \subseteq Package /\ done \subseteq pkgdir
  BY DEF ControlInv, TypeOK, DbTypeOK, DoneInv, DirsInv
<1>1. CASE CrashBetween \/ CrashWriting \/ CrashExtracting
  <2>1. contents \subseteq contents' /\ UNCHANGED <<requiredBy, done, orphaned>>
    BY <1>1 DEF CrashBetween, CrashWriting, CrashExtracting, dbvars
  <2> QED BY <2>1, RecordsKept
<1>2. ASSUME NEW p \in Package, CrashDeleting(p) PROVE DependencyRecorded'
  <2>1. done' \subseteq done /\ UNCHANGED <<contents, requiredBy, orphaned>>
    BY <1>2 DEF CrashDeleting
  <2> QED BY <2>1, RecordsKept
<1>3. ASSUME NEW p \in Package, CrashUnregistering(p) PROVE DependencyRecorded'
  <2>1. UnfinishedOK(task) BY DEF DoneInv
  <2>2. p \notin done
    BY <1>3, <2>1, PkgDbAssumption
    DEF CrashUnregistering, UnfinishedOK, OldGone, DoneInv
  <2>3. \A r \in Package : requiredBy[r] \subseteq requiredBy'[r] \cup {p}
    BY <1>3 DEF CrashUnregistering
  <2> QED BY <1>0, <1>3, <2>2, <2>3, RecordsKept DEF CrashUnregistering
<1>4. ASSUME NEW p \in Package, CrashRemovingDirectory(p)
      PROVE  DependencyRecorded'
  <2>1. /\ contents' = contents /\ done' = done \ {p}
        /\ orphaned' = (orphaned \cup (requiredBy[p] \cap pkgdir)) \ {p}
        /\ \A r \in Package : r # p => requiredBy'[r] = requiredBy[r]
    BY <1>0, <1>4 DEF CrashRemovingDirectory, DbTypeOK
  <2>2. \A q \in requiredBy[p] : q \notin done' \ orphaned' BY <1>0, <2>1
  <2> QED BY <1>0, <2>1, <2>2, RecordsKept
<1> QED BY <1>1, <1>2, <1>3, <1>4 DEF Crash

LEMMA RecordedInit == Init => RecordedInv
<1> SUFFICES ASSUME Init PROVE RecordedInv OBVIOUS
<1>1. Waiting = {} BY EmptyStack DEF Init, AddInit
<1> QED BY <1>1 DEF Init, AddInit, DbInit, NoTask, RecordedInv, FreshOK,
                    ReplacementFits, DependenciesFound, Resolved,
                    DependencyRecorded

LEMMA RecordedStep ==
    ASSUME "torn" \notin Faults,
           ControlInv, StackInv, DirsInv, OwnerInv, RequiredInv, OrderInv,
           AdminInv, DoneInv, RecordedInv, [Next]_vars
    PROVE  RecordedInv'
<1>0. /\ DbTypeOK /\ AddControl /\ DelControl /\ OneProgram
      /\ AddIndex /\ DbRequired /\ AddRequired /\ AddOrder /\ TreeInv
      /\ \A t \in Waiting \cup {task} : FreshOK(t)
      /\ ReplacementFits /\ DependenciesFound /\ DependencyRecorded
  BY DEF ControlInv, TypeOK, OwnerInv, RequiredInv, OrderInv, AdminInv,
         RecordedInv
<1>R. ASSUME callers' = <<>>, task'.pc \in {"none", "check"}, DependencyRecorded'
      PROVE  RecordedInv'
  <2>1. Waiting' = {} BY <1>R, RestStack
  <2> QED BY <1>R, <2>1 DEF RecordedInv, FreshOK, ReplacementFits,
                            DependenciesFound, Resolved
<1>I. ASSUME UNCHANGED addvars, task.pc = "none", DependencyRecorded'
      PROVE  RecordedInv'
  <2>1. callers' = <<>> /\ task'.pc = "none"
    BY <1>0, <1>I, RestCallers DEF addvars
  <2> QED BY <1>I, <1>R, <2>1
<1>1. CASE UserAdd
  <2>1. callers' = <<>> /\ task'.pc = "check" /\ UNCHANGED dbvars
    BY <1>1 DEF UserAdd, AddCommand, NewTask
  <2>2. DependencyRecorded' BY <1>0, <2>1 DEF dbvars, DependencyRecorded
  <2> QED BY <1>R, <2>1, <2>2
<1>2. CASE UserDelete \/ UserAdmin
  <2>1. /\ UNCHANGED addvars /\ task.pc = "none"
        /\ UNCHANGED <<contents, requiredBy, done, orphaned>>
    BY <1>2 DEF UserDelete, DeleteCommand, UserAdmin, Idle, RebuildCommand,
                RebuildTreeCommand, SetAutomatic, dbvars
  <2>2. DependencyRecorded' BY <1>0, <2>1 DEF DependencyRecorded
  <2> QED BY <1>I, <2>1, <2>2
<1>3. CASE AddStep
  <2>1. DependencyRecorded' BY <1>0, <1>3, AddStepRecorded
  <2>2. \A t \in (Waiting \cup {task})' : FreshOK(t)'
    BY <1>0, <1>3, AddStepFresh
  <2>3. ReplacementFits' BY <1>0, <1>3, AddStepFits
  <2>4. DependenciesFound' BY <1>0, <1>3, AddStepFound
  <2> QED BY <2>1, <2>2, <2>3, <2>4 DEF RecordedInv
<1>4. CASE DeleteStep /\ UNCHANGED addvars
  <2>1. task.pc = "none" BY <1>0, <1>4, StepsOfTheRunning DEF OneProgram
  <2>2. DependencyRecorded'
    BY <1>0, <1>4, OrderSuffices, DeleteStepRecorded
  <2> QED BY <1>4, <1>I, <2>1, <2>2
<1>5. CASE AdminStep /\ UNCHANGED addvars
  <2>1. task.pc = "none" BY <1>0, <1>5, StepsOfTheRunning DEF OneProgram
  <2>2. DependencyRecorded' BY <1>0, <1>5, AdminStepRecorded
  <2> QED BY <1>5, <1>I, <2>1, <2>2
<1>6. CASE Crash
  <2>1. callers' = <<>> /\ task'.pc = "none"
    BY <1>6, NoTaskOK DEF Crash, Exit
  <2> QED BY <1>0, <1>6, <1>R, <2>1, CrashRecorded
<1>7. CASE UNCHANGED vars
  BY <1>0, <1>7
  DEF vars, dbvars, addvars, RecordedInv, FreshOK, ReplacementFits, Replacing,
      DependenciesFound, Resolved, DependencyRecorded, Waiting
<1> QED BY <1>1, <1>2, <1>3, <1>4, <1>5, <1>6, <1>7 DEF Next, Tools

\* A package installed to its end and not cut off has every dependency, and is
\* in the +REQUIRED_BY of the package that serves it (pkg_register_depends(),
\* add/perform.c), so robotpkg_delete refuses to take that one away: through
\* failed installations, updates that keep the dependents, removals, rebuilds
\* of the tree and interruptions that leave no torn directory.
THEOREM DependencyRecordedCorrect ==
    ASSUME "torn" \notin Faults, NoForcedCheck, NoSkipping
    PROVE  Spec => []DependencyRecorded
<1> DEFINE IInv == /\ ControlInv /\ StackInv /\ DirsInv /\ OwnerInv
                   /\ RequiredInv /\ OrderInv /\ AdminInv /\ DoneInv
                   /\ RecordedInv
<1>1. Init => IInv
  BY ControlInit, OwnerInit, RequiredInit, OrderInit, AdminInit, DoneInit,
     RecordedInit
<1>2. IInv /\ [Next]_vars => IInv'
  BY ControlStep, OwnerStep, RequiredStep, OrderStep, AdminInvStep, DoneStep,
     RecordedStep
<1>3. IInv => DependencyRecorded BY DEF RecordedInv
<1> QED BY <1>1, <1>2, <1>3, PTL DEF Spec

-----------------------------------------------------------------------------
(* Preserved packages.                                                      *)

\* The old version's files go when robotpkg_delete has accepted it.
LEMMA AddStartsDelete ==
    ASSUME AddControl, AddStep, task'.pc = "dfiles"
    PROVE  DeleteOldStarts
<1>1. task \in Task BY DEF AddControl, AddTypeOK
<1>2. DeleteOldFiles \/ DeleteOldDepends => task'.pc \in {"dunreg", "drm"}
  BY <1>1 DEF DeleteOldFiles, DeleteOldDepends, Goto, Task
<1> QED BY <1>2, AddEntersDelete

\* The running robotpkg_delete has found no mark on the old version.
LEMMA AddStepPreserve ==
    ASSUME AddControl, AddStep, task'.pc = "dfiles"
    PROVE  task'.other \notin preserve'
<1>1. task \in Task BY DEF AddControl, AddTypeOK
<1> QED BY <1>1, AddStartsDelete DEF DeleteOldStarts, Goto, Task, dbvars

\* What is left of the list was on it.
LEMMA TailListed ==
    ASSUME DelControl, sorted # <<>>, sorted' = Tail(sorted)
    PROVE  Listed' \subseteq Listed
<1>1. /\ Len(sorted) \in Nat \ {0} /\ Len(sorted') = Len(sorted) - 1
      /\ \A i \in 1..Len(sorted') : sorted'[i] = sorted[i + 1]
      /\ DOMAIN sorted = 1..Len(sorted) /\ DOMAIN sorted' = 1..Len(sorted')
  BY HeadTailProperties, EmptySeq, LenProperties DEF DelControl, DelTypeOK
<1>2. \A i \in 1..Len(sorted') : i + 1 \in 1..Len(sorted) BY <1>1
<1> QED BY <1>1, <1>2 DEF Listed

LEMMA VictimListed ==
    ASSUME DelControl, dpc \in {"files", "depends", "directory"}
    PROVE  Victim \in Listed
<1>1. /\ Len(sorted) \in Nat \ {0} /\ DOMAIN sorted = 1..Len(sorted)
  BY EmptySeq, LenProperties DEF DelControl, DelTypeOK
<1> QED BY <1>1 DEF Listed, Victim

\* find_preserve_pkgs() is asked before the first removal.
LEMMA DeleteStepPreserve ==
    ASSUME DelControl, DeleteStep,
           dpc \in {"remove", "files", "depends", "directory"} =>
               MayRemovePreserved \/ Listed \cap preserve = {}
    PROVE  dpc' \in {"remove", "files", "depends", "directory"} =>
               MayRemovePreserved' \/ (Listed \cap preserve)' = {}
<1> DEFINE Removing == dpc \in {"remove", "files", "depends", "directory"}
           Kept == MayRemovePreserved \/ Listed \cap preserve = {}
<1>K. ASSUME delopts' = delopts, preserve' \subseteq preserve,
             Listed' \subseteq Listed, Kept
      PROVE  Kept'
  BY <1>K DEF MayRemovePreserved
<1>1. ASSUME NEW p \in Package,
             SortMove(p) \/ SortRecurse(p) \/ SortForced(p) \/ AddLeaf(p)
      PROVE  ~Removing'
  BY <1>1 DEF SortMove, SortRecurse, SortForced, AddLeaf
<1>2. CASE \/ \E i \in DOMAIN sorted : DropPreserved(i)
           \/ SortStuck \/ SortDone \/ LeavesDone \/ RemoveDone \/ DeinstallFails
  BY <1>2 DEF DropPreserved, SortStuck, SortDone, LeavesDone, RemoveDone,
              DeinstallFails, DelGoto, DelExit
<1>3. CASE CheckPreserve
  <2>1. CASE DelExit BY <2>1 DEF DelExit
  <2>2. CASE ~DelExit
    <3>1. Kept /\ UNCHANGED <<sorted, delopts, preserve>>
      BY <1>3, <2>2 DEF CheckPreserve, DelGoto, MayRemovePreserved, dbvars
    <3> QED BY <3>1 DEF MayRemovePreserved, Listed
  <2> QED BY <2>1, <2>2
<1>4. CASE RemoveMissing
  <2>1. CASE DelExit BY <2>1 DEF DelExit
  <2>2. CASE ~DelExit
    <3>1. /\ sorted # <<>> /\ sorted' = Tail(sorted) /\ delopts' = delopts
          /\ preserve' = preserve /\ Kept
      BY <1>4, <2>2 DEF RemoveMissing, dbvars
    <3> QED BY <1>K, <3>1, TailListed
  <2> QED BY <2>1, <2>2
<1>5. CASE RemoveStarts \/ RemoveFiles \/ RemoveFromDepends
  <2>1. Kept /\ UNCHANGED <<sorted, delopts, preserve>>
    BY <1>5 DEF RemoveStarts, RemoveFiles, RemoveFromDepends, DelGoto, dbvars
  <2> QED BY <2>1 DEF MayRemovePreserved, Listed
<1>6. CASE RemovePkgDirectory
  <2>1. CASE DelExit BY <2>1 DEF DelExit
  <2>2. CASE ~DelExit
    <3>1. /\ sorted # <<>> /\ sorted' = Tail(sorted) /\ delopts' = delopts
          /\ preserve' \subseteq preserve /\ Kept
      BY <1>6, <2>2 DEF RemovePkgDirectory, RemoveDirectory, DelControl
    <3> QED BY <1>K, <3>1, TailListed
  <2> QED BY <2>1, <2>2
<1> QED BY <1>1, <1>2, <1>3, <1>4, <1>5, <1>6 DEF DeleteStep

LEMMA PreserveInit == Init => PreserveInv
BY DEF Init, AddInit, DelInit, NoTask, PreserveInv

LEMMA PreserveStep ==
    ASSUME ControlInv, PreserveInv, [Next]_vars
    PROVE  PreserveInv'
<1>0. AddControl /\ DelControl /\ OneProgram BY DEF ControlInv
<1>1. CASE UserAdd
  BY <1>1 DEF UserAdd, Idle, AddCommand, NewTask, delvars, PreserveInv
<1>2. CASE UserDelete \/ UserAdmin
  BY <1>2 DEF UserDelete, UserAdmin, Idle, DeleteCommand, addvars, delvars,
              PreserveInv
<1>3. CASE AddStep /\ UNCHANGED delvars
  <2>1. dpc' = "none"
    BY <1>0, <1>3, StepsOfTheRunning DEF OneProgram, delvars
  <2> QED BY <1>0, <1>3, <2>1, AddStepPreserve DEF PreserveInv
<1>4. CASE DeleteStep /\ UNCHANGED addvars
  <2>1. task'.pc = "none"
    BY <1>0, <1>4, StepsOfTheRunning DEF OneProgram, addvars
  <2> QED BY <1>0, <1>4, <2>1, DeleteStepPreserve DEF PreserveInv
<1>5. CASE AdminStep /\ UNCHANGED <<addvars, delvars>>
  BY <1>0, <1>5, StepsOfTheRunning
  DEF OneProgram, addvars, delvars, PreserveInv
<1>6. CASE Crash
  BY <1>6, NoTaskOK DEF Crash, Exit, DelExit, PreserveInv
<1>7. CASE UNCHANGED vars
  BY <1>7 DEF vars, dbvars, addvars, delvars, PreserveInv, MayRemovePreserved,
              Listed
<1> QED BY <1>1, <1>2, <1>3, <1>4, <1>5, <1>6, <1>7 DEF Next, Tools

\* The packages a step takes away, and the program that does.
LEMMA WhoseRemoval ==
    ASSUME ControlInv, DoneInv, [Next]_vars, NEW p \in done \ done'
    PROVE  \/ task.pc = "dfiles" /\ p = task.other
           \/ dpc = "files" /\ p = Victim
<1>0. /\ DbTypeOK /\ DelControl /\ UnfinishedOK(task) /\ TaskOK(task)
      /\ done \subseteq contents
      /\ dpc \in {"depends", "directory"} => Victim \notin done
  BY DEF ControlInv, TypeOK, AddControl, DoneInv
<1>1. CASE UserAdd \/ UserDelete \/ UserAdmin \/ UNCHANGED vars
  BY <1>1 DEF UserAdd, UserDelete, UserAdmin, AddCommand, DeleteCommand,
              RebuildCommand, RebuildTreeCommand, SetAutomatic, vars, dbvars
<1>2. CASE AddStep
  <2>1. CASE DeleteOldFiles BY <2>1 DEF DeleteOldFiles
  <2>2. CASE DeleteOldDirectory
    <3>1. p = task.other /\ task.pc = "drm"
      BY <2>2 DEF DeleteOldDirectory, RemoveDirectory
    <3> QED BY <1>0, <3>1 DEF UnfinishedOK, OldGone, TaskOK, Moving
  <2>3. CASE NukeDirectory
    BY <1>0, <2>3 DEF NukeDirectory, RemoveDirectory, UnfinishedOK
  <2> QED BY <1>2, <2>1, <2>2, <2>3, AddStepWrites
          DEF MakeDirectory, WriteMetaData, WriteMetaDataFails, MoveRequiredBy,
              DeleteOldDepends, RegisterDepend, Installed
<1>3. CASE DeleteStep
  <2>1. dpc = "files" BY <1>0, <1>3, DeleteStepDone
  <2>2. RemoveFiles \/ UNCHANGED dbvars
    BY <1>3, <2>1
    DEF DeleteStep, SortMove, SortRecurse, SortForced, AddLeaf, DropPreserved,
        SortStuck, SortDone, LeavesDone, CheckPreserve, RemoveDone,
        RemoveMissing, RemoveStarts, DeinstallFails, RemoveFromDepends,
        RemovePkgDirectory
  <2> QED BY <2>1, <2>2 DEF RemoveFiles, dbvars
<1>4. CASE AdminStep BY <1>4, AdminStepDone
<1>5. CASE Crash
  <2>1. PICK q \in Package : CrashDeleting(q) \/ CrashRemovingDirectory(q)
    BY <1>5 DEF Crash, CrashBetween, CrashWriting, CrashExtracting,
                CrashUnregistering, dbvars
  <2>2. p = q BY <2>1 DEF CrashDeleting, CrashRemovingDirectory
  <2>3. task.pc = "drm" => task.other # None BY <1>0 DEF TaskOK, Moving
  <2> QED BY <1>0, <2>1, <2>2, <2>3
          DEF CrashDeleting, CrashRemovingDirectory, UnfinishedOK, OldGone
<1> QED BY <1>1, <1>2, <1>3, <1>4, <1>5 DEF Next, Tools

\* A package with a +PRESERVE file is taken away by robotpkg_delete -ff or -f -N
\* only (find_preserve_pkgs(), delete/pkg_delete.c): neither as a leaf of -R or
\* -A, nor as the old version of an update, nor by an interrupted removal.
THEOREM PreservedKeptCorrect ==
    ASSUME "torn" \notin Faults
    PROVE  Spec => PreservedKept
<1> DEFINE IInv == /\ ControlInv /\ StackInv /\ DirsInv /\ OwnerInv /\ DoneInv
                   /\ PreserveInv
           Kept == \A p \in (done \ done') \cap preserve :
               dpc = "files" /\ ("ff" \in delopts \/ {"f", "N"} \subseteq delopts)
<1>1. Init => IInv BY ControlInit, OwnerInit, DoneInit, PreserveInit
<1>2. IInv /\ [Next]_vars => IInv'
  BY ControlStep, OwnerStep, DoneStep, PreserveStep
<1>3. IInv /\ [Next]_vars => Kept
  <2> SUFFICES ASSUME IInv, [Next]_vars, NEW p \in (done \ done') \cap preserve
               PROVE  /\ dpc = "files"
                      /\ "ff" \in delopts \/ {"f", "N"} \subseteq delopts
    OBVIOUS
  <2>1. dpc = "files" /\ p = Victim BY WhoseRemoval DEF PreserveInv
  <2>2. Victim \in Listed BY <2>1, VictimListed DEF ControlInv
  <2> QED BY <2>1, <2>2 DEF PreserveInv, MayRemovePreserved
<1>4. Spec => []IInv BY <1>1, <1>2, PTL DEF Spec
<1> HIDE DEF IInv
<1>5. IInv /\ [Next]_vars => [Kept]_vars BY <1>3
<1> QED BY <1>4, <1>5, PTL DEF Spec, PreservedKept

-----------------------------------------------------------------------------
(* Conflicts.                                                               *)

\* The calls of the stack are for packages that the calls below them need.
LEMMA AddStepUnder ==
    ASSUME AddControl, AddStep,
           NEW Under \in [Package -> SUBSET Package], CoversDeps(Under),
           UnderInv(Under)
    PROVE  UnderInv(Under)'
<1>1. CASE callers' = callers /\ task'.pkg = task.pkg
  BY <1>1 DEF UnderInv, Waiting
<1>2. CASE CheckPasses
  <2>1. callers' = callers /\ task'.pkg = task.pkg
    BY <1>2 DEF CheckPasses, AddControl, AddTypeOK, Task
  <2> QED BY <1>1, <2>1
<1>3. ASSUME NEW status \in {"ok", "fail"}, Return(status) PROVE UnderInv(Under)'
  <2>1. CASE callers = <<>>
    <3>1. Waiting' = {} /\ Len(callers') = 0
      BY <1>3, <2>1, ReturnControl, RestStack, EmptySeq
    <3> QED BY <3>1 DEF UnderInv
  <2>2. CASE callers # <<>>
    <3>1. /\ task' = callers[Len(callers)] /\ Len(callers) \in Nat \ {0}
          /\ Len(callers') = Len(callers) - 1
          /\ \A i \in 1..Len(callers') : callers'[i] = callers[i]
      BY <1>3, <2>2, ReturnControl
    <3>2. \A i \in 1..Len(callers') : /\ i \in 1..Len(callers)
                                      /\ Len(callers) \in 1..Len(callers)
                                      /\ i < Len(callers)
      BY <3>1
    <3>3. \A i \in 1..Len(callers') : task'.pkg \in Under[callers'[i].pkg]
      BY <3>1, <3>2 DEF UnderInv
    <3>4. \A i, j \in 1..Len(callers') :
              i < j => callers'[j].pkg \in Under[callers'[i].pkg]
      BY <3>1, <3>2 DEF UnderInv
    <3> QED BY <3>3, <3>4 DEF UnderInv, Waiting
  <2> QED BY <2>1, <2>2
<1>4. CASE Exit("fail")
  <2>1. Waiting' = {} /\ Len(callers') = 0
    BY <1>4, RestStack, EmptySeq DEF Exit
  <2> QED BY <2>1 DEF UnderInv
<1>5. ASSUME NEW d \in Pattern, DepInstall(d) PROVE UnderInv(Under)'
  <2>1. PICK t : t = [task EXCEPT !.todo = @ \ {d}] OBVIOUS
  <2>2. /\ Waiting' = Waiting \cup {t}
        /\ Len(callers) \in Nat /\ Len(callers') = Len(callers) + 1
        /\ \A i \in 1..Len(callers) : callers'[i] = callers[i]
        /\ callers'[Len(callers')] = t
        /\ task.pkg \in Package
    BY <1>5, <2>1, CallWaiting
  <2>3. t.pkg = task.pkg BY <2>1 DEF AddControl, AddTypeOK, Task
  <2>4. PICK q \in Package : IsBest(q, Matches[d] \cap Repo) /\ task'.pkg = q
    BY <1>5 DEF DepInstall, NewTask
  <2>5. d \in Deps[task.pkg]
    BY <1>5 DEF DepInstall, AddControl, TaskOK
  <2>6. q \in Under[task.pkg] BY <2>2, <2>4, <2>5 DEF CoversDeps, IsBest
  <2>7. ASSUME NEW s \in Waiting PROVE q \in Under[s.pkg]
    <3>1. s.pkg \in Package BY DEF Waiting, AddControl, CallersOK, TaskOK, Task
    <3>2. task.pkg \in Under[s.pkg] BY DEF UnderInv
    <3> QED BY <2>6, <3>1, <3>2 DEF CoversDeps
  <2>8. \A s \in Waiting' : q \in Under[s.pkg] BY <2>2, <2>3, <2>6, <2>7
  <2>9. ASSUME NEW i \in 1..Len(callers'), NEW j \in 1..Len(callers'), i < j
        PROVE  callers'[j].pkg \in Under[callers'[i].pkg]
    <3>1. i \in 1..Len(callers) /\ callers'[i] = callers[i] BY <2>2, <2>9
    <3>2. CASE j \in 1..Len(callers)
      BY <2>2, <2>9, <3>1, <3>2 DEF UnderInv
    <3>3. CASE j = Len(callers) + 1
      <4>1. callers'[j].pkg = task.pkg BY <2>2, <2>3, <3>3
      <4> QED BY <3>1, <4>1 DEF UnderInv, Waiting
    <3> QED BY <2>2, <3>2, <3>3
  <2> QED BY <2>4, <2>8, <2>9 DEF UnderInv
<1> QED BY <1>1, <1>2, <1>3, <1>4, <1>5, AddMoves

LEMMA UnderInit ==
    ASSUME NEW Under PROVE Init => UnderInv(Under)
<1> SUFFICES ASSUME Init PROVE UnderInv(Under) OBVIOUS
<1>1. Waiting = {} /\ 1..Len(callers) = {} BY EmptyStack DEF Init, AddInit
<1> QED BY <1>1 DEF UnderInv

LEMMA UnderStep ==
    ASSUME NEW Under \in [Package -> SUBSET Package], CoversDeps(Under),
           ControlInv, UnderInv(Under), [Next]_vars
    PROVE  UnderInv(Under)'
<1>1. CASE callers' = <<>>
  <2>1. Waiting' = {} /\ Len(callers') = 0 BY <1>1, RestStack, EmptySeq
  <2> QED BY <2>1 DEF UnderInv
<1>2. CASE UNCHANGED addvars BY <1>2 DEF addvars, UnderInv, Waiting
<1>3. CASE AddStep BY <1>3, AddStepUnder DEF ControlInv
<1>4. CASE UserAdd \/ Crash
  BY <1>1, <1>4 DEF UserAdd, AddCommand, Crash, Exit
<1>5. CASE UserDelete \/ UserAdmin \/ UNCHANGED vars
  BY <1>2, <1>5 DEF UserDelete, UserAdmin, vars
<1> QED BY <1>2, <1>3, <1>4, <1>5 DEF Next, Tools

\* pkg_do() looks for conflicts once, before it installs the dependencies.
LEMMA AddStepConflicts ==
    ASSUME ControlInv, StackInv, DirsInv, DoneInv, ConflictInv, AddStep,
           NEW Under \in [Package -> SUBSET Package], UnderInv(Under),
           NoLateConflict(Under)
    PROVE  ConflictInv'
<1> DEFINE Apart(t) == PastCheck(t) => \A q \in done \ {t.other} : ~Clash(q, t.pkg)
<1>0. /\ AddControl /\ task \in Task /\ TaskOK(task) /\ UnfinishedOK(task)
      /\ done \subseteq contents /\ done \subseteq Package /\ Apart(task)
      /\ \A t \in Waiting : Apart(t)
  BY DEF ControlInv, TypeOK, DbTypeOK, AddControl, AddTypeOK, DoneInv, ConflictInv
<1>1. Installed => ~(task.other \in done) /\ PastCheck(task)
  BY <1>0, PkgDbAssumption DEF Installed, UnfinishedOK, OldGone, PastCheck
<1>2. NoConflict'
  <2>1. SUFFICES ASSUME NEW p \in done', NEW q \in done', p # q,
                        NEW c \in Conflicts[p]
                 PROVE  q \notin Matches[c]
    BY DEF NoConflict
  <2>2. CASE p \in done /\ q \in done BY <2>1, <2>2 DEF ConflictInv, NoConflict
  <2>3. CASE /\ Installed
             /\ \/ p = task.pkg /\ q \in done
                \/ q = task.pkg /\ p \in done
    BY <1>0, <1>1, <2>1, <2>3 DEF Clash
  <2>4. CASE ~Installed
    <3>1. done' \subseteq done BY <2>4, AddDone
    <3> QED BY <2>1, <2>2, <3>1
  <2>5. CASE Installed
    <3>1. done' = done \cup {task.pkg} BY <2>5, AddDone
    <3>2. \/ p \in done /\ q \in done
          \/ p = task.pkg /\ q \in done
          \/ q = task.pkg /\ p \in done
      BY <2>1, <3>1
    <3> QED BY <2>2, <2>3, <2>5, <3>2
  <2> QED BY <2>4, <2>5
<1>W. \A t \in Waiting : Apart(t)'
  <2>1. SUFFICES ASSUME NEW t \in Waiting, NEW q \in done' \ {t.other}
                 PROVE  ~Clash(q, t.pkg)
    BY DEF PastCheck
  <2>2. t.pkg \in Package /\ PastCheck(t)
    BY <1>0, StackLevels DEF PastCheck
  <2>3. CASE q \in done BY <1>0, <2>1, <2>2, <2>3
  <2>4. CASE q = task.pkg BY <2>2, <2>4 DEF UnderInv, NoLateConflict
  <2> QED BY <2>1, <2>3, <2>4, AddDone
<1>N. Apart(NoTask)' BY DEF PastCheck, NoTask
<1>P. \A t : PastCheck(t)' = PastCheck(t) BY DEF PastCheck
<1>3. ASSUME Waiting' = Waiting, Apart(task)'
      PROVE  \A t \in (Waiting \cup {task})' : Apart(t)'
  BY <1>3, <1>W
<1>4. CASE Waiting' \subseteq Waiting /\ (task' = NoTask \/ task' \in Waiting)
  <2>1. \A t \in (Waiting \cup {task})' : Apart(t)' BY <1>4, <1>W, <1>N
  <2> QED BY <1>2, <2>1 DEF ConflictInv
<1>5. CASE Waiting' = Waiting /\ GoesOn /\ ~Installed
  <2>1. /\ task'.pkg = task.pkg /\ task'.other = task.other /\ PastCheck(task)
        /\ done' \subseteq done
    BY <1>5, AddDone DEF GoesOn, Flow, PastCheck
  <2>2. Apart(task)' BY <1>0, <2>1
  <2> QED BY <1>2, <1>3, <1>5, <2>2 DEF ConflictInv
<1>6. CASE Waiting' = Waiting /\ CheckPasses
  <2>1. PICK o \in Package \cup {None} :
            /\ ~ConflictOwn(o) /\ ~ConflictInstalled(o)
            /\ task' = [task EXCEPT !.other = o,
                                    !.pc = IF o = None THEN "deps" ELSE "mkdir"]
    BY <1>6 DEF CheckPasses
  <2>2. task'.pkg = task.pkg /\ task'.other = o /\ done' = done
    BY <1>0, <1>6, <2>1 DEF CheckPasses, Task, dbvars
  <2>3. ASSUME NEW q \in done \ {o} PROVE ~Clash(q, task.pkg)
    <3>1. q \in contents \ {o} /\ q \in pkgdir BY <1>0, <2>3 DEF DirsInv
    <3> QED BY <2>1, <3>1 DEF Clash, ConflictOwn, ConflictInstalled, Providers
  <2>4. Apart(task)' BY <2>2, <2>3
  <2> QED BY <1>2, <1>3, <1>6, <2>4 DEF ConflictInv
<1>7. ASSUME NEW d \in Pattern, NEW q \in Package,
             Waiting' = Waiting \cup {[task EXCEPT !.todo = @ \ {d}]},
             task' = NewTask(q, TRUE), UNCHANGED dbvars
      PROVE  ConflictInv'
  <2>0. PICK t : t = [task EXCEPT !.todo = @ \ {d}] OBVIOUS
  <2>1. t.pkg = task.pkg /\ t.other = task.other /\ t.pc = task.pc
    BY <1>0, <2>0 DEF Task
  <2>2. done' = done BY <1>7 DEF dbvars
  <2>3. Apart(t)' BY <1>0, <2>1, <2>2 DEF PastCheck
  <2>4. Apart(task)' BY <1>7 DEF PastCheck, NewTask
  <2>5. \A s \in (Waiting \cup {task})' : Apart(s)'
    BY <1>W, <1>7, <2>0, <2>3, <2>4
  <2> QED BY <1>2, <2>5 DEF ConflictInv
<1>8. CASE Installed
  <2>1. /\ Waiting' \subseteq Waiting
        /\ task' = NoTask \/ task' \in Waiting
    BY <1>0, <1>8, ReturnWaiting DEF Installed
  <2> QED BY <1>4, <2>1
<1> QED BY <1>0, <1>4, <1>5, <1>6, <1>7, <1>8, AddStepStackMoves

LEMMA ConflictInit == Init => ConflictInv
<1> SUFFICES ASSUME Init PROVE ConflictInv OBVIOUS
<1>1. Waiting = {} BY EmptyStack DEF Init, AddInit
<1> QED BY <1>1 DEF Init, AddInit, DbInit, NoTask, ConflictInv, NoConflict,
                    PastCheck

\* Programs other than robotpkg_add install nothing.
LEMMA OnlyAddInstalls ==
    ASSUME "torn" \notin Faults, ControlInv, DoneInv, [Next]_vars, ~AddStep
    PROVE  done' \subseteq done
<1>0. /\ DbTypeOK /\ DelControl /\ done \subseteq contents
      /\ dpc \in {"depends", "directory"} => Victim \notin done
  BY DEF ControlInv, TypeOK, DoneInv
<1>1. CASE UserAdd \/ UserDelete \/ UserAdmin \/ UNCHANGED vars
  BY <1>1 DEF UserAdd, UserDelete, UserAdmin, AddCommand, DeleteCommand,
              RebuildCommand, RebuildTreeCommand, SetAutomatic, vars, dbvars
<1>2. CASE DeleteStep BY <1>0, <1>2, DeleteStepDone
<1>3. CASE AdminStep BY <1>3, AdminStepDone
<1>4. CASE Crash BY <1>0, <1>4, CrashDone
<1> QED BY <1>1, <1>2, <1>3, <1>4 DEF Next, Tools

LEMMA ConflictStep ==
    ASSUME "torn" \notin Faults,
           NEW Under \in [Package -> SUBSET Package], NoLateConflict(Under),
           ControlInv, StackInv, DirsInv, DoneInv, UnderInv(Under), ConflictInv,
           [Next]_vars
    PROVE  ConflictInv'
<1>1. CASE AddStep BY <1>1, AddStepConflicts
<1>2. CASE ~AddStep
  <2>1. done' \subseteq done BY <1>2, OnlyAddInstalls
  <2>2. NoConflict' BY <2>1 DEF ConflictInv, NoConflict
  <2>3. CASE UNCHANGED addvars
    <3>1. (Waiting \cup {task})' = Waiting \cup {task}
      BY <2>3 DEF addvars, Waiting
    <3> QED BY <2>1, <2>2, <3>1 DEF ConflictInv, PastCheck
  <2>4. CASE UserAdd \/ Crash
    <3>1. callers' = <<>> /\ task'.pc \in {"none", "check"}
      BY <2>4, NoTaskOK DEF UserAdd, AddCommand, NewTask, Crash, Exit
    <3>2. Waiting' = {} BY <3>1, RestStack
    <3> QED BY <2>2, <3>1, <3>2 DEF ConflictInv, PastCheck
  <2> QED BY <1>2, <2>3, <2>4 DEF Next, Tools, UserDelete, UserAdmin, vars
<1> QED BY <1>1, <1>2

\* No two packages of which one excludes the other (check_conflicts() and
\* check_conflicts_of_installed(), add/perform.c) are installed side by side,
\* whatever fails and wherever a program is interrupted, when no package
\* excludes one that its own installation may bring in: pkg_do() does not look
\* again after it has installed the dependencies.
THEOREM NoConflictCorrect ==
    ASSUME "torn" \notin Faults,
           NEW Under \in [Package -> SUBSET Package], CoversDeps(Under),
           NoLateConflict(Under)
    PROVE  Spec => []NoConflict
<1> DEFINE IInv == /\ ControlInv /\ StackInv /\ DirsInv /\ OwnerInv /\ DoneInv
                   /\ UnderInv(Under) /\ ConflictInv
<1>1. Init => IInv
  BY ControlInit, OwnerInit, DoneInit, UnderInit, ConflictInit
<1>2. IInv /\ [Next]_vars => IInv'
  BY ControlStep, OwnerStep, DoneStep, UnderStep, ConflictStep
<1>3. IInv => NoConflict BY DEF ConflictInv
<1> QED BY <1>1, <1>2, <1>3, PTL DEF Spec

-----------------------------------------------------------------------------
(* Automatic marks.                                                         *)

\* The first call stays the first until it ends.
LEMMA BottomMoves ==
    ASSUME AddControl, AddStep
    PROVE  \/ callers # <<>> /\ Bottom' = Bottom
           \/ Bottom' = NoTask
           \/ /\ callers = <<>> /\ Bottom' = task'
              /\ GoesOn \/ CheckPasses
           \/ /\ callers = <<>> /\ UNCHANGED automatic
              /\ Bottom'.pkg = task.pkg /\ Bottom'.other = task.other
              /\ Bottom'.auto = task.auto /\ Bottom'.pc = task.pc
<1>1. CASE GoesOn \/ CheckPasses
  <2>1. callers' = callers BY <1>1 DEF GoesOn, CheckPasses
  <2> QED BY <1>1, <2>1 DEF Bottom
<1>2. CASE CheckAborts BY <1>2 DEF CheckAborts, Exit, Bottom
<1>3. CASE \/ AlreadyInstalled \/ CheckRefuses \/ GivesUp \/ Installed
           \/ NukeDirectory
  <2>1. PICK status \in {"ok", "fail"} : Return(status)
    BY <1>3 DEF AlreadyInstalled, CheckRefuses, GivesUp, Installed, NukeDirectory
  <2>2. /\ callers = <<>> => task' = NoTask /\ callers' = <<>>
        /\ callers # <<>> =>
               /\ task' = callers[Len(callers)] /\ Len(callers) \in Nat \ {0}
               /\ Len(callers') = Len(callers) - 1
               /\ \A i \in 1..Len(callers') : callers'[i] = callers[i]
    BY <2>1, ReturnControl
  <2>3. CASE callers = <<>> BY <2>2, <2>3 DEF Bottom
  <2>4. CASE callers # <<>> /\ callers' = <<>>
    <3>1. Len(callers) = 1 BY <2>2, <2>4, EmptySeq
    <3> QED BY <2>2, <2>4, <3>1 DEF Bottom
  <2>5. CASE callers # <<>> /\ callers' # <<>>
    <3>1. callers' \in Seq(Task)
      BY <2>1, ReturnControl DEF AddControl, AddTypeOK
    <3>2. Len(callers') \in Nat \ {0} BY <2>5, <3>1, EmptySeq, LenProperties
    <3> QED BY <2>2, <2>5, <3>2 DEF Bottom
  <2> QED BY <2>3, <2>4, <2>5
<1>4. ASSUME NEW d \in Pattern, DepInstall(d)
      PROVE  \/ callers # <<>> /\ Bottom' = Bottom
             \/ /\ callers = <<>> /\ UNCHANGED automatic
                /\ Bottom'.pkg = task.pkg /\ Bottom'.other = task.other
                /\ Bottom'.auto = task.auto /\ Bottom'.pc = task.pc
  <2>1. PICK t : t = [task EXCEPT !.todo = @ \ {d}] OBVIOUS
  <2>2. /\ Len(callers) \in Nat /\ Len(callers') = Len(callers) + 1
        /\ \A i \in 1..Len(callers) : callers'[i] = callers[i]
        /\ callers'[Len(callers')] = t
    BY <1>4, <2>1, CallWaiting
  <2>3. callers' # <<>> BY <2>2, EmptySeq
  <2>4. CASE callers = <<>>
    <3>1. callers'[1] = t BY <2>2, <2>4, EmptySeq
    <3>2. /\ t.pkg = task.pkg /\ t.other = task.other /\ t.auto = task.auto
          /\ t.pc = task.pc
      BY <2>1 DEF AddControl, AddTypeOK, Task
    <3> QED BY <1>4, <2>3, <2>4, <3>1, <3>2 DEF Bottom, DepInstall, dbvars
  <2>5. CASE callers # <<>>
    <3>1. 1 \in 1..Len(callers)
      BY <2>2, <2>5, EmptySeq DEF AddControl, AddTypeOK
    <3> QED BY <2>2, <2>3, <2>5, <3>1 DEF Bottom
  <2> QED BY <2>4, <2>5
<1> QED BY <1>1, <1>2, <1>3, <1>4, AddStepFlow

\* What a step of robotpkg_add marks.
LEMMA AddStepMarks ==
    ASSUME AddStep
    PROVE  \/ automatic' \subseteq automatic
           \/ /\ PostInstall /\ task.auto /\ task.pkg \in pkgdir
              /\ automatic' = automatic \cup {task.pkg}
           \/ /\ MoveMarks
              /\ automatic' \subseteq automatic \cup {task.pkg}
<1>1. CASE AlreadyInstalled \/ CheckRefuses \/ CheckAborts \/ CheckPasses
  BY <1>1 DEF AlreadyInstalled, MarkAutomatic, CheckRefuses, CheckAborts,
              CheckPasses, dbvars
<1>2. ASSUME NEW d \in Pattern, DepPresent(d) \/ DepInstall(d) \/ DepNoArchive(d)
      PROVE  automatic' = automatic
  BY <1>2 DEF DepPresent, DepInstall, DepNoArchive, dbvars
<1>3. CASE \/ DepReturned \/ DepsResolved \/ MakeDirectory \/ WriteMetaData
           \/ WriteMetaDataFails \/ MoveRequiredBy \/ MoveFails
  BY <1>3 DEF DepReturned, DepsResolved, MakeDirectory, WriteMetaData,
              WriteMetaDataFails, MoveRequiredBy, MoveFails, dbvars
<1>4. CASE MoveMarks BY <1>4 DEF MoveMarks, Moved
<1>5. CASE \/ DeleteOldFails \/ DeleteOldStarts \/ DeleteOldFiles
           \/ DeleteOldDepends \/ DeleteOldDirectory \/ NukeDirectory
  BY <1>5 DEF DeleteOldFails, DeleteOldStarts, DeleteOldFiles, DeleteOldDepends,
              DeleteOldDirectory, NukeDirectory, RemoveDirectory, dbvars
<1>6. CASE PostInstall BY <1>6 DEF PostInstall, MarkAutomatic
<1>7. CASE PreInstall \/ Extracted \/ Installed \/ NukePackage
  BY <1>7 DEF PreInstall, Extracted, Installed, NukePackage, dbvars
<1>8. ASSUME NEW f \in File, ExtractFile(f) \/ ExtractFails(f)
      PROVE  automatic' = automatic
  BY <1>8 DEF ExtractFile, ExtractFails
<1>9. ASSUME NEW q \in Package, RegisterDepend(q) PROVE automatic' = automatic
  BY <1>9 DEF RegisterDepend
<1> QED BY <1>1, <1>2, <1>3, <1>4, <1>5, <1>6, <1>7, <1>8, <1>9 DEF AddStep

\* A mark goes with the directory it is in.
LEMMA AddStepMarked ==
    ASSUME AddControl, DirsInv, AddIndex, automatic \subseteq pkgdir, AddStep
    PROVE  automatic' \subseteq pkgdir'
<1>0. IndexOK(task) BY DEF AddIndex
<1>1. CASE MoveMarks
  <2>1. task.pkg \in pkgdir BY <1>0, <1>1 DEF MoveMarks, IndexOK, Described,
                                              Moving, DirsInv
  <2> QED BY <1>1, <2>1 DEF MoveMarks, Moved
<1>2. CASE PostInstall BY <1>2 DEF PostInstall, MarkAutomatic
<1>3. CASE DeleteOldDirectory \/ NukeDirectory
  BY <1>3 DEF DeleteOldDirectory, NukeDirectory, RemoveDirectory
<1>4. CASE ~MoveMarks /\ ~PostInstall /\ ~DeleteOldDirectory /\ ~NukeDirectory
  <2>1. automatic' \subseteq automatic BY <1>4, AddStepMarks
  <2>2. pkgdir \subseteq pkgdir'
    BY <1>4, AddStepWrites
    DEF MakeDirectory, WriteMetaData, WriteMetaDataFails, MoveRequiredBy,
        DeleteOldFiles, DeleteOldDepends, RegisterDepend, Installed
  <2> QED BY <2>1, <2>2
<1> QED BY <1>1, <1>2, <1>3, <1>4

\* The calls above the first one work on other packages.
LEMMA AboveBottom ==
    ASSUME AddControl, StackInv, callers # <<>>
    PROVE  Bottom \in Waiting /\ Bottom.pkg # task.pkg
<1>1. 1 \in 1..Len(callers)
  BY EmptySeq, LenProperties DEF AddControl, AddTypeOK
<1>2. Bottom \in Waiting BY <1>1 DEF Bottom, Waiting
<1> QED BY <1>2, StackApart

LEMMA AddStepManual ==
    ASSUME AddControl, StackInv, DirsInv, AddIndex, ManualInv, AddStep
    PROVE  ManualInv'
<1>1. addopts' = addopts BY AddOptsFixed
<1>2. automatic' \subseteq pkgdir' BY AddStepMarked DEF ManualInv
<1>3. SUFFICES ASSUME "A" \notin addopts
               PROVE  /\ ~Bottom'.auto
                      /\ Bottom'.pc \notin {"none", "check"} /\ Bottom'.other = None
                             => Bottom'.pkg \notin automatic'
  BY <1>1, <1>2 DEF ManualInv
<1>4. /\ ~Bottom.auto
      /\ Bottom.pc \notin {"none", "check"} /\ Bottom.other = None
             => Bottom.pkg \notin automatic
  BY <1>3 DEF ManualInv
<1>5. CASE callers # <<>> /\ Bottom' = Bottom
  <2>1. Bottom.pkg # task.pkg BY <1>5, AboveBottom
  <2>2. Bottom.pkg \notin automatic => Bottom.pkg \notin automatic'
    BY <2>1, AddStepMarks
  <2> QED BY <1>4, <1>5, <2>2
<1>6. CASE Bottom' = NoTask BY <1>6 DEF NoTask
<1>7. CASE callers = <<>> /\ Bottom' = task' /\ GoesOn
  <2>1. Bottom = task BY <1>7 DEF Bottom
  <2>2. /\ task'.pkg = task.pkg /\ task'.other = task.other
        /\ task'.auto = task.auto /\ task.pc \notin {"none", "check"}
    BY <1>7 DEF GoesOn, Flow
  <2>3. task.other = None => ~MoveMarks
    BY DEF AddControl, TaskOK, Moving, MoveMarks
  <2> QED BY <1>4, <1>7, <2>1, <2>2, <2>3, AddStepMarks
<1>8. CASE callers = <<>> /\ Bottom' = task' /\ CheckPasses
  <2>1. Bottom = task /\ automatic' = automatic
    BY <1>8 DEF Bottom, CheckPasses, dbvars
  <2>2. task'.pkg = task.pkg /\ task'.auto = task.auto
    BY <1>8 DEF CheckPasses, AddControl, AddTypeOK, Task
  <2>3. task.pkg \notin pkgdir BY <1>8 DEF CheckPasses, DirsInv
  <2> QED BY <1>4, <1>8, <2>1, <2>2, <2>3 DEF ManualInv
<1>9. CASE /\ callers = <<>> /\ UNCHANGED automatic
           /\ Bottom'.pkg = task.pkg /\ Bottom'.other = task.other
           /\ Bottom'.auto = task.auto /\ Bottom'.pc = task.pc
  <2>1. Bottom = task BY <1>9 DEF Bottom
  <2> QED BY <1>4, <1>9, <2>1
<1> QED BY <1>5, <1>6, <1>7, <1>8, <1>9, BottomMoves

LEMMA ManualInit == Init => ManualInv
BY DEF Init, DbInit, AddInit, NoTask, ManualInv, Bottom

LEMMA ManualStep ==
    ASSUME "torn" \notin Faults,
           ControlInv, StackInv, DirsInv, OwnerInv, ManualInv, [Next]_vars
    PROVE  ManualInv'
<1>0. /\ AddControl /\ OneProgram /\ AddIndex /\ automatic \subseteq pkgdir
  BY DEF ControlInv, OwnerInv, ManualInv
<1>R. ASSUME task.pc = "none", UNCHANGED addvars, automatic' \subseteq pkgdir'
      PROVE  ManualInv'
  <2>1. callers = <<>> BY <1>0, <1>R, RestCallers
  <2>2. Bottom = task /\ Bottom' = task /\ addopts' = addopts /\ task' = task
    BY <1>R, <2>1 DEF Bottom, addvars
  <2> QED BY <1>R, <2>2 DEF ManualInv
<1>1. CASE UserAdd
  <2>1. PICK p \in Package, opts \in AddOptions : AddCommand(p, opts)
    BY <1>1 DEF UserAdd
  <2>2. /\ Bottom' = NewTask(p, "A" \in opts) /\ addopts' = opts
        /\ UNCHANGED <<automatic, pkgdir>>
    BY <2>1 DEF AddCommand, Bottom, dbvars
  <2>3. Bottom'.pc = "check" /\ Bottom'.auto = ("A" \in opts)
    BY <2>2 DEF NewTask
  <2> QED BY <1>0, <2>2, <2>3 DEF ManualInv
<1>2. CASE UserDelete
  BY <1>0, <1>2, <1>R DEF UserDelete, Idle, DeleteCommand, dbvars
<1>3. CASE UserAdmin
  <2>1. automatic' \subseteq pkgdir'
    BY <1>0, <1>3
    DEF UserAdmin, RebuildCommand, RebuildTreeCommand, SetAutomatic,
        MarkAutomatic, dbvars
  <2> QED BY <1>3, <1>R, <2>1 DEF UserAdmin, Idle
<1>4. CASE AddStep BY <1>0, <1>4, AddStepManual
<1>5. CASE DeleteStep /\ UNCHANGED addvars
  <2>1. task.pc = "none" BY <1>0, <1>5, StepsOfTheRunning DEF OneProgram
  <2>2. automatic' \subseteq pkgdir'
    BY <1>0, <1>5
    DEF DeleteStep, SortMove, SortRecurse, SortForced, AddLeaf, DropPreserved,
        SortStuck, SortDone, LeavesDone, CheckPreserve, RemoveDone,
        RemoveMissing, RemoveStarts, DeinstallFails, RemoveFiles,
        RemoveFromDepends, RemovePkgDirectory, RemoveDirectory, dbvars
  <2> QED BY <1>5, <1>R, <2>1, <2>2
<1>6. CASE AdminStep /\ UNCHANGED addvars
  <2>1. task.pc = "none" BY <1>0, <1>6, StepsOfTheRunning DEF OneProgram
  <2> QED BY <1>0, <1>6, <1>R, <2>1, AdminStepDone
<1>7. CASE Crash
  <2>1. Bottom' = NoTask BY <1>7 DEF Crash, Exit, Bottom
  <2>2. automatic' \subseteq automatic /\ pkgdir' = pkgdir
    BY <1>7 DEF Crash, CrashBetween, CrashWriting, CrashExtracting, CrashDeleting,
                CrashUnregistering, CrashRemovingDirectory, dbvars
  <2> QED BY <1>0, <2>1, <2>2 DEF ManualInv, NoTask
<1>8. CASE UNCHANGED vars
  BY <1>8 DEF vars, dbvars, addvars, ManualInv, Bottom
<1> QED BY <1>1, <1>2, <1>3, <1>4, <1>5, <1>6, <1>7, <1>8 DEF Next, Tools

\* What a user asks robotpkg_add for without -A is not marked automatic when the
\* program ends with success (check_already_installed() and the end of pkg_do(),
\* add/perform.c), however it got to be installed: so robotpkg_delete -A does not
\* take it for a leaf.  The exceptions are the mark of a version that it replaces
\* and a mark that check_already_installed() could not clear.
THEOREM ExplicitIsManualCorrect ==
    ASSUME "torn" \notin Faults
    PROVE  Spec => ExplicitIsManual
<1> DEFINE IInv == ControlInv /\ StackInv /\ DirsInv /\ OwnerInv /\ ManualInv
           Manual ==
               callers = <<>> /\ task.pkg # None /\ task'.pkg = None /\ ret' = "ok"
                   /\ "A" \notin addopts /\ ~Replacing
               => task.pkg \notin automatic' \ uncleared'
<1>1. Init => IInv BY ControlInit, OwnerInit, ManualInit
<1>2. IInv /\ [Next]_vars => IInv' BY ControlStep, OwnerStep, ManualStep
<1>3. IInv /\ [Next]_vars => Manual
  <2> SUFFICES ASSUME IInv, [Next]_vars,
                      callers = <<>>, task.pkg # None, task'.pkg = None,
                      ret' = "ok", "A" \notin addopts, ~Replacing
               PROVE  task.pkg \notin automatic' \ uncleared'
    OBVIOUS
  <2>1. /\ AddControl /\ OneProgram /\ TaskOK(task) /\ task.pc # "none"
        /\ Bottom = task
    BY DEF ControlInv, AddControl, TaskOK, Bottom
  <2>2. AddStep
    BY <2>1, StepsOfTheRunning
    DEF Next, Tools, UserAdd, UserDelete, UserAdmin, Idle, Crash, Exit, vars,
        addvars
  <2>3. \/ AlreadyInstalled \/ CheckRefuses \/ GivesUp \/ Installed
        \/ NukeDirectory \/ CheckAborts
    <3>1. ~GoesOn BY DEF GoesOn
    <3>2. ~CheckPasses
      BY <2>1 DEF CheckPasses, AddControl, AddTypeOK, Task
    <3>3. ~\E d \in Pattern : DepInstall(d)
      BY PkgDbAssumption DEF DepInstall, NewTask
    <3> QED BY <2>1, <2>2, <3>1, <3>2, <3>3, AddStepFlow
  <2>4. AlreadyInstalled \/ Installed
    BY <2>3
    DEF CheckRefuses, CheckAborts, GivesUp, NukeDirectory, Return, Exit
  <2>5. CASE AlreadyInstalled BY <2>5 DEF AlreadyInstalled, MarkAutomatic
  <2>6. CASE Installed
    BY <2>1, <2>6 DEF Installed, ManualInv, Replacing
  <2> QED BY <2>4, <2>5, <2>6
<1>4. Spec => []IInv BY <1>1, <1>2, PTL DEF Spec
<1> HIDE DEF IInv
<1>5. IInv /\ [Next]_vars => [Manual]_vars BY <1>3
<1> QED BY <1>4, <1>5, PTL DEF Spec, ExplicitIsManual
=============================================================================
