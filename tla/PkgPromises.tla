------------------------------ MODULE PkgPromises ------------------------------
(****************************************************************************)
(* Proofs of what the package tools promise when nothing interrupts them:   *)
(* whatever fails, a package in the database is installed to its end or a   *)
(* program is at work on it, and the tools implement PackageSet.            *)
(****************************************************************************)
EXTENDS PkgInstalled, PkgImplements

-----------------------------------------------------------------------------
(* The packages in the database.                                            *)

\* The caller that waits last resumes, and no other.
LEMMA ReturnStack ==
    ASSUME AddControl, NEW status \in {"ok", "fail"}, Return(status)
    PROVE  Waiting \subseteq (Waiting \cup {task})'
<1>1. SUFFICES ASSUME NEW i \in 1..Len(callers)
               PROVE  callers[i] \in (Waiting \cup {task})'
  BY DEF Waiting
<1>2. callers # <<>> BY <1>1, EmptyStack
<1>3. /\ task' = callers[Len(callers)] /\ Len(callers) \in Nat \ {0}
      /\ Len(callers') = Len(callers) - 1
      /\ \A j \in 1..Len(callers') : callers'[j] = callers[j]
  BY <1>2, ReturnControl
<1>4. CASE i = Len(callers) BY <1>3, <1>4
<1>5. CASE i # Len(callers)
  <2>1. i \in 1..Len(callers') BY <1>3, <1>5
  <2> QED BY <1>3, <2>1 DEF Waiting
<1> QED BY <1>4, <1>5

\* fopen_contents() finds every +CONTENTS.
LEMMA NeverAborts ==
    ASSUME DirsInv
    PROVE  ~CheckAborts
BY DEF DirsInv, CheckAborts, Unreadable

\* A package a step of robotpkg_add leaves unfinished has a call of its own.
LEMMA AddStepPresent ==
    ASSUME DbTypeOK, AddControl, DirsInv, PresentInv, dpc = "none", dpc' = "none",
           AddStep
    PROVE  PresentInv'
<1>0. task \in Task /\ TaskOK(task) BY DEF AddControl, AddTypeOK
<1> DEFINE Busy(p) == \/ \E t \in Waiting \cup {task} : HasDirectory(t) /\ p = t.pkg
                      \/ task.pc \in {"dunreg", "drm"} /\ p = task.other
<1>1. SUFFICES ASSUME NEW p \in pkgdir' \ done'
               PROVE  Busy(p)'
  BY DEF PresentInv
<1>H. \A t : HasDirectory(t)' = HasDirectory(t) BY DEF HasDirectory, Described
<1>2. CASE GoesOn
  <2>0. Waiting' = Waiting /\ task'.pkg = task.pkg /\ task'.other = task.other
    BY <1>2 DEF GoesOn, Waiting
  <2>1. HasDirectory(task) => HasDirectory(task)'
    BY <1>0, <1>2 DEF GoesOn, Flow, HasDirectory, Described, Moving, TaskOK
  <2>2. CASE p \in pkgdir \ done
    <3>1. CASE \E t \in Waiting \cup {task} : HasDirectory(t) /\ p = t.pkg
      BY <2>0, <2>1, <3>1 DEF HasDirectory, Described
    <3>2. CASE task.pc \in {"dunreg", "drm"} /\ p = task.other
      <4>1. CASE task.pc = "dunreg"
        BY <1>2, <2>0, <3>2, <4>1 DEF GoesOn, Flow
      <4>2. CASE task.pc = "drm"
        BY <1>1, <3>2, <4>2, AtLabel DEF DeleteOldDirectory, RemoveDirectory
      <4> QED BY <3>2, <4>1, <4>2
    <3> QED BY <2>2, <3>1, <3>2 DEF PresentInv
  <2>3. CASE p \notin pkgdir
    <3>1. p = task.pkg /\ task'.pc = "meta"
      BY <1>0, <1>1, <2>3, AddStepWrites
      DEF MakeDirectory, WriteMetaData, WriteMetaDataFails, MoveRequiredBy,
          DeleteOldFiles, DeleteOldDepends, DeleteOldDirectory, RegisterDepend,
          Installed, NukeDirectory, RemoveDirectory, Goto, Task, PC
    <3> QED BY <2>0, <3>1 DEF HasDirectory
  <2>4. CASE p \in done
    <3>1. p = task.other /\ task'.pc = "dunreg"
      BY <1>0, <1>1, <1>2, <2>4, AddStepWrites
      DEF MakeDirectory, WriteMetaData, WriteMetaDataFails, MoveRequiredBy,
          DeleteOldFiles, DeleteOldDepends, DeleteOldDirectory, RegisterDepend,
          Installed, NukeDirectory, RemoveDirectory, Goto, Task, PC, GoesOn, Flow
    <3> QED BY <2>0, <3>1
  <2> QED BY <2>2, <2>3, <2>4
<1>3. CASE CheckPasses
  <2>1. /\ callers' = callers /\ task.pc = "check" /\ p \in pkgdir \ done
    BY <1>1, <1>3 DEF CheckPasses, dbvars
  <2>2. PICK t \in Waiting : HasDirectory(t) /\ p = t.pkg
    BY <2>1 DEF PresentInv, HasDirectory, Described, Moving
  <2> QED BY <1>H, <2>1, <2>2 DEF Waiting
<1>4. CASE AlreadyInstalled \/ CheckRefuses \/ GivesUp \/ Installed \/ NukeDirectory
  <2>1. Waiting \subseteq (Waiting \cup {task})'
    BY <1>4, ReturnStack
    DEF AlreadyInstalled, CheckRefuses, GivesUp, Installed, NukeDirectory
  <2>2. /\ p \in pkgdir \ done
        /\ HasDirectory(task) => p # task.pkg
        /\ task.pc \notin {"dunreg", "drm"}
    BY <1>1, <1>4
    DEF AlreadyInstalled, CheckRefuses, GivesUp, Installed, NukeDirectory,
        RemoveDirectory, HasDirectory, Described, Moving, Replacing, dbvars
  <2>3. PICK t \in Waiting : HasDirectory(t) /\ p = t.pkg
    BY <2>2 DEF PresentInv
  <2> QED BY <1>H, <2>1, <2>3
<1>5. ASSUME NEW d \in Pattern, DepInstall(d) PROVE Busy(p)'
  <2>1. PICK t : t = [task EXCEPT !.todo = @ \ {d}] OBVIOUS
  <2>2. /\ Waiting' = Waiting \cup {t} /\ task.pc = "deps" /\ UNCHANGED dbvars
    BY <1>5, <2>1, CallWaiting DEF DepInstall
  <2>3. HasDirectory(t) = HasDirectory(task) /\ t.pkg = task.pkg
    BY <1>0, <2>1 DEF HasDirectory, Described, Task
  <2>4. p \in pkgdir \ done BY <1>1, <2>2 DEF dbvars
  <2>5. PICK u \in Waiting \cup {task} : HasDirectory(u) /\ p = u.pkg
    BY <2>2, <2>4 DEF PresentInv
  <2> QED BY <1>H, <2>2, <2>3, <2>5
<1> QED BY <1>2, <1>3, <1>4, <1>5, AddStepFlow, NeverAborts

LEMMA DeleteStepPresent ==
    ASSUME DbTypeOK, PresentInv, task.pc = "none", callers = <<>>,
           UNCHANGED addvars, DeleteStep
    PROVE  PresentInv'
<1>0. /\ Waiting = {} /\ ~HasDirectory(task)
      /\ task' = task
  BY EmptyStack DEF HasDirectory, Described, Moving, addvars
<1>1. pkgdir \ done \subseteq
          IF dpc \in {"depends", "directory"} THEN {Victim} ELSE {}
  BY <1>0 DEF PresentInv
<1>2. CASE RemoveFiles
  <2>1. pkgdir' \ done' \subseteq {Victim'} /\ dpc' = "depends"
    BY <1>1, <1>2 DEF RemoveFiles, DelGoto, Victim
  <2> QED BY <2>1 DEF PresentInv
<1>3. CASE RemoveFromDepends
  <2>1. pkgdir' \ done' \subseteq {Victim'} /\ dpc' = "directory"
    BY <1>1, <1>3 DEF RemoveFromDepends, DelGoto, Victim
  <2> QED BY <2>1 DEF PresentInv
<1>4. CASE RemovePkgDirectory
  <2>1. pkgdir' \ done' = {}
    BY <1>1, <1>4 DEF RemovePkgDirectory, RemoveDirectory
  <2> QED BY <2>1 DEF PresentInv
<1>5. ASSUME UNCHANGED dbvars, dpc \notin {"depends", "directory"}
      PROVE  PresentInv'
  <2>1. pkgdir' \ done' = {} BY <1>1, <1>5 DEF dbvars
  <2> QED BY <2>1 DEF PresentInv
<1>6. ASSUME NEW p \in Package,
             SortMove(p) \/ SortRecurse(p) \/ SortForced(p) \/ AddLeaf(p)
      PROVE  PresentInv'
  BY <1>5, <1>6 DEF SortMove, SortRecurse, SortForced, AddLeaf
<1>7. CASE \/ \E i \in DOMAIN sorted : DropPreserved(i)
           \/ SortStuck \/ SortDone \/ LeavesDone \/ CheckPreserve
           \/ RemoveDone \/ RemoveMissing \/ RemoveStarts \/ DeinstallFails
  BY <1>5, <1>7
  DEF DropPreserved, SortStuck, SortDone, LeavesDone, CheckPreserve, RemoveDone,
      RemoveMissing, RemoveStarts, DeinstallFails
<1> QED BY <1>2, <1>3, <1>4, <1>6, <1>7 DEF DeleteStep

LEMMA PresentInit == Init => PresentInv
BY DEF Init, DbInit, PresentInv

LEMMA PresentStep ==
    ASSUME "crash" \notin Faults, ControlInv, DirsInv, PresentInv, [Next]_vars
    PROVE  PresentInv'
<1>0. DbTypeOK /\ AddControl /\ OneProgram BY DEF ControlInv, TypeOK
\* With no program at work every directory is of a package that is done.
<1>R. ASSUME task.pc = "none", dpc = "none", UNCHANGED <<pkgdir, done>>
      PROVE  PresentInv'
  <2>1. Waiting = {} BY <1>0, <1>R, RestCallers, EmptyStack
  <2>2. pkgdir \ done = {}
    BY <1>R, <2>1 DEF PresentInv, HasDirectory, Described, Moving
  <2> QED BY <1>R, <2>2 DEF PresentInv
<1>1. CASE UserAdd \/ UserDelete \/ UserAdmin
  <2>1. task.pc = "none" /\ dpc = "none" /\ UNCHANGED <<pkgdir, done>>
    BY <1>1 DEF UserAdd, UserDelete, UserAdmin, Idle, AddCommand, DeleteCommand,
                RebuildCommand, RebuildTreeCommand, SetAutomatic, dbvars
  <2> QED BY <1>R, <2>1
<1>2. CASE AddStep /\ UNCHANGED delvars
  <2>1. dpc = "none" /\ dpc' = "none"
    BY <1>0, <1>2, StepsOfTheRunning DEF OneProgram, delvars
  <2> QED BY <1>0, <1>2, <2>1, AddStepPresent
<1>3. CASE DeleteStep /\ UNCHANGED addvars
  <2>1. task.pc = "none" BY <1>0, <1>3, StepsOfTheRunning DEF OneProgram
  <2> QED BY <1>0, <1>3, <2>1, RestCallers, DeleteStepPresent
<1>4. CASE AdminStep
  <2>1. task.pc = "none" /\ dpc = "none"
    BY <1>0, <1>4, StepsOfTheRunning DEF OneProgram
  <2> QED BY <1>4, <1>R, <2>1, AdminStepDone
<1>5. ~Crash BY DEF Crash
<1>6. CASE UNCHANGED vars
  BY <1>6 DEF vars, dbvars, addvars, delvars, PresentInv, HasDirectory, Described,
              Waiting, Victim
<1> QED BY <1>1, <1>2, <1>3, <1>4, <1>5, <1>6 DEF Next, Tools

-----------------------------------------------------------------------------
(* The refinement: what the abstract set promises.                          *)

\* Whoever lost a record since, or is about to, is known to be cut off.
Cutoff == orphaned \cup Deserted \cup UNION {Replaced(t) : t \in Waiting \cup {task}}

Careful == dpc # "none" /\ ~Forced

\* A dependency is served by a package that is installed to its end: one that
\* is being written or removed is filed as required by those cut off only.
LEMMA PromiseHolds ==
    ASSUME PresentInv, OrderInv, DependentsFirst, DirsInv, DoneInv, RecordedInv
    PROVE  Abstract!Promise
<1> SUFFICES ASSUME NEW q \in done \ Cutoff, NEW d \in Deps[q]
             PROVE  Matches[d] \cap done # {}
  BY DEF Abstract!Promise, Abstract!Served, Cutoff
<1>1. PICK p \in Matches[d] \cap contents : q \in requiredBy[p]
  BY DEF RecordedInv, DependencyRecorded, Cutoff
<1>2. SUFFICES ASSUME p \notin done PROVE FALSE BY <1>1
<1>3. p \in pkgdir \ done BY <1>1, <1>2 DEF DirsInv
<1>4. ASSUME NEW t \in Waiting \cup {task}, HasDirectory(t), p = t.pkg
      PROVE  FALSE
  <2>1. FreshOK(t) BY DEF RecordedInv
  <2>2. q \notin Replaced(t) BY <1>4 DEF Cutoff
  <2> QED BY <1>1, <1>4, <2>1, <2>2
          DEF FreshOK, Replaced, HasDirectory, Described, Moving
<1>5. CASE task.pc \in {"dunreg", "drm"} /\ p = task.other
  BY <1>1, <1>5 DEF OrderInv, AddOrder
<1>6. CASE dpc \in {"depends", "directory"} /\ p = Victim
  <2>1. q \in pkgdir BY DEF DirsInv, DoneInv
  <2> QED BY <1>1, <1>6, <2>1 DEF DependentsFirst, Deserted, Cutoff
<1> QED BY <1>3, <1>4, <1>5, <1>6 DEF PresentInv

LEMMA AsRecord ==
    ASSUME Abstract!Promise', done' = done, Cutoff' \subseteq Cutoff
    PROVE  Abstract!Next
BY DEF Abstract!Next, Abstract!Record, Cutoff

LEMMA AsCutOff ==
    ASSUME ~Careful, done' = done, Cutoff \subseteq Cutoff'
    PROVE  Abstract!Next
BY DEF Abstract!Next, Abstract!CutOff, Cutoff, Careful

LEMMA AsRemove ==
    ASSUME Abstract!Promise', NEW p \in Package, p \in done, done' = done \ {p},
           Cutoff' = Cutoff, Careful' = Careful
    PROVE  Abstract!Next
BY DEF Abstract!Next, Abstract!Remove, Cutoff, Careful

LEMMA AsInstall ==
    ASSUME Abstract!Promise', NEW p \in Package, p \notin done,
           \A d \in Deps[p] : Matches[d] \cap done # {},
           done' = done \cup {p}, Cutoff' \subseteq Cutoff, Careful' = Careful
    PROVE  Abstract!Next
BY DEF Abstract!Next, Abstract!Install, Abstract!Served, Cutoff, Careful

-----------------------------------------------------------------------------
(* The refinement: the steps of robotpkg_add.                               *)

WaitingCutoff == UNION {Replaced(t) : t \in Waiting \cup {task}}

\* A call that goes on, calls or returns cuts nobody off.
LEMMA AddStepCutoff ==
    ASSUME DbTypeOK, AddControl, \A t \in Waiting \cup {task} : FreshOK(t),
           AddStep, \A p \in Package : requiredBy'[p] \subseteq requiredBy[p]
    PROVE  WaitingCutoff' \subseteq WaitingCutoff
<1>0. /\ task \in Task /\ TaskOK(task) /\ FreshOK(task)
      /\ \A t \in Waiting \cup {task} : t.pc # "none" => t.pkg \in Package
      /\ \A t \in Waiting : t.pc = "deps"
  BY DEF AddControl, AddTypeOK, TaskOK, Task, CallersOK, Waiting
<1>S. \A t \in Waiting \cup {task} : Replaced(t)' \subseteq Replaced(t)
  BY <1>0 DEF Replaced
<1>N. Replaced(NoTask)' = {} BY DEF Replaced, NoTask
<1>1. CASE Waiting' = Waiting /\ GoesOn
  <2>1. Replaced(task)' \subseteq Replaced(task)
    BY <1>0, <1>1 DEF GoesOn, Flow, Replaced, FreshOK
  <2> QED BY <1>1, <1>S, <2>1 DEF WaitingCutoff, Replaced
<1>2. CASE Waiting' = Waiting /\ CheckPasses
  <2>1. PICK o \in Package \cup {None} :
            task' = [task EXCEPT !.other = o,
                                 !.pc = IF o = None THEN "deps" ELSE "mkdir"]
    BY <1>2 DEF CheckPasses
  <2>2. task'.other = o /\ task'.pc = IF o = None THEN "deps" ELSE "mkdir"
    BY <1>0, <2>1 DEF Task
  <2>3. Replaced(task)' = {} BY <2>2 DEF Replaced
  <2> QED BY <1>2, <1>S, <2>3 DEF WaitingCutoff, Replaced
<1>3. CASE Waiting' \subseteq Waiting /\ (task' = NoTask \/ task' \in Waiting)
  BY <1>3, <1>S, <1>N DEF WaitingCutoff, Replaced
<1>4. ASSUME NEW d \in Pattern, NEW q \in Package,
             Waiting' = Waiting \cup {[task EXCEPT !.todo = @ \ {d}]},
             task' = NewTask(q, TRUE)
      PROVE  WaitingCutoff' \subseteq WaitingCutoff
  <2>0. PICK t : t = [task EXCEPT !.todo = @ \ {d}] OBVIOUS
  <2>1. /\ t.pc = task.pc /\ t.pkg = task.pkg /\ t.other = task.other
        /\ requiredBy'[task.pkg] \subseteq requiredBy[task.pkg]
           \/ task.pc = "none"
    BY <1>0, <2>0 DEF Task
  <2>2. Replaced(t)' \subseteq Replaced(task) BY <2>1 DEF Replaced
  <2>3. Replaced(task)' = {} BY <1>4 DEF Replaced, NewTask
  <2>4. ASSUME NEW u \in (Waiting \cup {task})'
        PROVE  Replaced(u)' \subseteq WaitingCutoff
    <3>1. CASE u \in Waiting BY <1>S, <3>1 DEF WaitingCutoff
    <3>2. CASE u = t BY <2>2, <3>2 DEF WaitingCutoff, Replaced
    <3>3. CASE u = task' BY <2>3, <3>3 DEF Replaced
    <3> QED BY <1>4, <2>0, <3>1, <3>2, <3>3
  <2> QED BY <2>4 DEF WaitingCutoff
<1> QED BY <1>1, <1>2, <1>3, <1>4, AddStepStackMoves

\* What pkg_do() registers a package with is installed to its end.
LEMMA InstalledServed ==
    ASSUME AddControl, StackInv, DirsInv, OneProgram, PresentInv,
           DependenciesFound, Installed
    PROVE  \A d \in Deps[task.pkg] : Matches[d] \cap done # {}
<1> SUFFICES ASSUME NEW d \in Deps[task.pkg] PROVE Matches[d] \cap done # {}
  OBVIOUS
<1>0. /\ task.pc = "register" /\ task.deps = {} /\ task.pkg \in Package
      /\ dpc = "none"
  BY DEF Installed, AddControl, TaskOK, Task, OneProgram
<1>1. PICK p \in Matches[d] \cap contents : TRUE
  BY <1>0 DEF DependenciesFound, Resolved
<1>2. d \in Pattern BY <1>0, PkgDbAssumption
<1>3. p \in Package BY <1>1, <1>2, PkgDbAssumption
<1>4. Level[p] < Level[task.pkg] BY <1>0, <1>1, <1>3, DependenciesAcyclic
<1>5. p # task.pkg BY <1>0, <1>4, DependenciesAcyclic
<1>6. \A t \in Waiting : p # t.pkg BY <1>3, <1>4, StackApart
<1>7. p \in done BY <1>0, <1>1, <1>5, <1>6 DEF PresentInv, DirsInv
<1> QED BY <1>1, <1>7

\* The step at which the old version's dependents are moved to the new one, and
\* a failed registration, cut packages off.
LEMMA AddStepCutsOff ==
    ASSUME DbTypeOK, AddControl, StackInv, dpc = "none", UNCHANGED delvars,
           MoveRequiredBy \/ \E q \in Package : RegisterDepend(q)
    PROVE  Abstract!Next
<1>0. task \in Task /\ task.pc # "none" /\ TaskOK(task)
  BY DEF AddControl, AddTypeOK, MoveRequiredBy, RegisterDepend
<1>1. ~Careful BY DEF Careful
<1>2. done' = done BY DEF MoveRequiredBy, RegisterDepend
<1>3. Deserted = {} BY DEF Deserted
<1>4. orphaned \subseteq orphaned' BY DEF MoveRequiredBy, RegisterDepend
<1>5. callers' = callers BY DEF MoveRequiredBy, RegisterDepend, Goto
<1>6. Waiting' = Waiting BY <1>5 DEF Waiting
<1>7. \A t \in Waiting \cup {task} : Replaced(t) \subseteq Cutoff'
  <2>1. CASE MoveRequiredBy
    <3>1. task.pc = "move" /\ task.other \in Package
      BY <1>0, <2>1 DEF MoveRequiredBy, TaskOK, Moving, Task
    <3>2. Replaced(task) = {} BY <3>1 DEF Replaced
    <3>3. ASSUME NEW t \in Waiting PROVE Replaced(t)' = Replaced(t)
      <4>1. t.pkg \in Package /\ t.pkg # task.pkg /\ t.pkg # task.other
        BY <1>0, <3>1, StackApart, PkgDbAssumption
      <4>2. requiredBy'[t.pkg] = requiredBy[t.pkg]
        BY <2>1, <4>1 DEF MoveRequiredBy
      <4> QED BY <4>2 DEF Replaced
    <3> QED BY <1>6, <3>2, <3>3 DEF Cutoff, Replaced
  <2>2. ASSUME NEW q \in Package, RegisterDepend(q)
        PROVE  \A t \in Waiting \cup {task} : Replaced(t) \subseteq Cutoff'
    <3>1. /\ task'.pkg = task.pkg /\ task'.other = task.other
          /\ task'.pc = task.pc
          /\ \A p \in Package : requiredBy[p] \subseteq requiredBy'[p]
          /\ task.pkg \in Package
      BY <1>0, <2>2 DEF RegisterDepend, Task, DbTypeOK, TaskOK
    <3>2. Replaced(task) \subseteq Replaced(task)' BY <3>1 DEF Replaced
    <3>3. ASSUME NEW t \in Waiting PROVE Replaced(t) \subseteq Replaced(t)'
      BY <3>1, StackApart DEF Replaced
    <3> QED BY <1>6, <3>2, <3>3 DEF Cutoff, Replaced
  <2> QED BY <2>1, <2>2
<1>8. Cutoff \subseteq Cutoff'
  <2>1. orphaned' \subseteq Cutoff' BY DEF Cutoff
  <2> QED BY <1>3, <1>4, <1>7, <2>1 DEF Cutoff
<1> QED BY <1>1, <1>2, <1>8, AsCutOff

LEMMA AddStepRefines ==
    ASSUME ControlInv, StackInv, DirsInv, DoneInv, PresentInv, RecordedInv,
           Abstract!Promise', task.pc # "none", UNCHANGED delvars, AddStep
    PROVE  Abstract!Next
<1>0. /\ DbTypeOK /\ AddControl /\ OneProgram /\ dpc = "none"
      /\ task \in Task /\ TaskOK(task) /\ FreshOK(task) /\ UnfinishedOK(task)
      /\ \A t \in Waiting \cup {task} : FreshOK(t)
      /\ DependenciesFound
  BY DEF ControlInv, TypeOK, AddControl, AddTypeOK, OneProgram, DoneInv,
         RecordedInv
<1>D. Deserted = {} /\ Deserted' = {} /\ Careful' = Careful
  BY <1>0 DEF Deserted, Careful, Forced, delvars
<1>C. ASSUME orphaned' \subseteq Cutoff,
             \A p \in Package : requiredBy'[p] \subseteq requiredBy[p]
      PROVE  Cutoff' \subseteq Cutoff
  <2>1. WaitingCutoff' \subseteq WaitingCutoff BY <1>0, <1>C, AddStepCutoff
  <2> QED BY <1>C, <1>D, <2>1 DEF Cutoff, WaitingCutoff
<1>O. orphaned \subseteq Cutoff BY DEF Cutoff
<1>1. CASE UNCHANGED <<pkgdir, contents, requiredBy, done, orphaned>>
  BY <1>1, <1>C, <1>O, AsRecord
<1>2. CASE MakeDirectory \/ WriteMetaData \/ WriteMetaDataFails
  <2>1. UNCHANGED <<requiredBy, done, orphaned>>
    BY <1>2 DEF MakeDirectory, WriteMetaData, WriteMetaDataFails
  <2> QED BY <2>1, <1>C, <1>O, AsRecord
<1>3. CASE MoveRequiredBy \/ \E q \in Package : RegisterDepend(q)
  BY <1>0, <1>3, AddStepCutsOff DEF ControlInv
<1>4. CASE DeleteOldFiles
  <2>1. /\ task.pc = "dfiles" /\ done' = done \ {task.other}
        /\ UNCHANGED <<requiredBy, orphaned, callers>>
        /\ task'.pc = "dunreg" /\ task'.pkg = task.pkg /\ task'.other = task.other
    BY <1>0, <1>4 DEF DeleteOldFiles, Goto, Task, PC
  <2>2. Replaced(task)' = Replaced(task) BY <2>1 DEF Replaced
  <2>3. WaitingCutoff' = WaitingCutoff
    BY <2>1, <2>2 DEF WaitingCutoff, Waiting, Replaced
  <2>4. Cutoff' = Cutoff BY <1>D, <2>1, <2>3 DEF Cutoff, WaitingCutoff
  <2>5. CASE task.other \in done
    BY <1>0, <1>D, <2>1, <2>4, <2>5, AsRemove DEF DbTypeOK
  <2>6. CASE task.other \notin done BY <2>1, <2>4, <2>6, AsRecord
  <2> QED BY <2>5, <2>6
<1>5. CASE DeleteOldDepends
  <2>1. /\ UNCHANGED <<done, orphaned>>
        /\ \A p \in Package : requiredBy'[p] \subseteq requiredBy[p]
    BY <1>5 DEF DeleteOldDepends, RemoveDepends, WithoutLines
  <2> QED BY <2>1, <1>C, <1>O, AsRecord
<1>6. CASE DeleteOldDirectory
  <2>1. task.other \notin done
    BY <1>0, <1>6 DEF DeleteOldDirectory, UnfinishedOK, OldGone, TaskOK, Moving
  <2>2. /\ done' = done /\ orphaned' \subseteq orphaned
        /\ \A p \in Package : requiredBy'[p] \subseteq requiredBy[p]
    BY <1>0, <1>6, <2>1 DEF DeleteOldDirectory, RemoveDirectory, DbTypeOK
  <2> QED BY <2>2, <1>C, <1>O, AsRecord
<1>7. CASE Installed
  <2>1. /\ task.pkg \in Package /\ task.pkg \notin done
        /\ done' = done \cup {task.pkg} /\ UNCHANGED <<requiredBy, orphaned>>
    BY <1>0, <1>7 DEF Installed, UnfinishedOK, TaskOK, Task
  <2>2. \A d \in Deps[task.pkg] : Matches[d] \cap done # {}
    BY <1>0, <1>7, InstalledServed
  <2> QED BY <1>C, <1>D, <1>O, <2>1, <2>2, AsInstall
<1>8. CASE NukeDirectory
  <2>1. task.pc = "nukepkgdb" /\ task.pkg \in Package /\ task.pkg \notin done
    BY <1>0, <1>8 DEF NukeDirectory, UnfinishedOK, TaskOK, Task
  <2>2. requiredBy[task.pkg] \subseteq Replaced(task)
    BY <1>0, <2>1 DEF FreshOK, Replaced
  <2>3. /\ done' = done /\ orphaned' \subseteq orphaned \cup requiredBy[task.pkg]
        /\ \A p \in Package : requiredBy'[p] \subseteq requiredBy[p]
    BY <1>0, <1>8, <2>1 DEF NukeDirectory, RemoveDirectory, DbTypeOK
  <2>4. orphaned' \subseteq Cutoff BY <2>2, <2>3 DEF Cutoff
  <2> QED BY <1>C, <2>3, <2>4, AsRecord
<1> QED BY <1>1, <1>2, <1>3, <1>4, <1>5, <1>6, <1>7, <1>8, AddStepWrites

-----------------------------------------------------------------------------
(* The refinement: robotpkg_delete, robotpkg_admin and the user.            *)

\* When no call of pkg_do() is under way.
LEMMA RestCutoff ==
    ASSUME callers = <<>>, task.pc \in {"none", "check"}
    PROVE  Cutoff = orphaned \cup Deserted
<1>1. Waiting = {} BY EmptyStack
<1>2. Replaced(task) = {} BY DEF Replaced
<1> QED BY <1>1, <1>2 DEF Cutoff

LEMMA RestCutoffNext ==
    ASSUME callers' = <<>>, task'.pc \in {"none", "check"}
    PROVE  Cutoff' = orphaned' \cup Deserted'
<1>1. Waiting' = {} BY RestStack
<1>2. Replaced(task)' = {} BY DEF Replaced
<1> QED BY <1>1, <1>2 DEF Cutoff

LEMMA DeleteStepRefines ==
    ASSUME ControlInv, DoneInv, DependentsFirst, Abstract!Promise',
           task.pc = "none", UNCHANGED addvars, DeleteStep
    PROVE  Abstract!Next
<1>0. /\ DbTypeOK /\ DelControl /\ dpc # "none"
      /\ dpc \in {"files", "depends", "directory"} => Victim \in Package
  BY VictimIsPackage, StepsOfTheRunning DEF ControlInv, TypeOK
<1>C. Cutoff = orphaned \cup Deserted /\ Cutoff' = orphaned' \cup Deserted'
  BY RestCallers, RestCutoff, RestCutoffNext DEF ControlInv, addvars
<1>D. ASSUME UNCHANGED dbvars, dpc' \notin {"files", "depends", "directory"}
      PROVE  Abstract!Next
  BY <1>C, <1>D, AsRecord DEF Deserted, dbvars
<1>1. CASE RemoveFiles
  <2>1. /\ dpc = "files" /\ dpc' = "depends" /\ done' = done \ {Victim}
        /\ UNCHANGED <<requiredBy, orphaned, sorted, delopts>>
    BY <1>1 DEF RemoveFiles, DelGoto
  <2>2. Cutoff' = Cutoff /\ Careful' = Careful
    BY <1>C, <2>1 DEF Deserted, Forced, Victim, Careful
  <2>3. CASE Victim \in done BY <1>0, <2>1, <2>2, <2>3, AsRemove
  <2>4. CASE Victim \notin done BY <2>1, <2>2, <2>4, AsRecord
  <2> QED BY <2>3, <2>4
<1>2. CASE RemoveFromDepends
  <2>1. /\ dpc = "depends" /\ dpc' = "directory" /\ UNCHANGED <<done, orphaned>>
        /\ UNCHANGED <<sorted, delopts>>
        /\ \A p \in Package : requiredBy'[p] \subseteq requiredBy[p]
    BY <1>2 DEF RemoveFromDepends, DelGoto, RemoveDepends, WithoutLines
  <2>2. Deserted' \subseteq Deserted
    BY <1>0, <2>1 DEF Deserted, Forced, Victim
  <2> QED BY <1>C, <2>1, <2>2, AsRecord
<1>3. CASE RemovePkgDirectory
  <2>1. /\ dpc = "directory" /\ dpc' \in {"remove", "none"}
        /\ done' = done \ {Victim}
        /\ orphaned' \subseteq
               orphaned \cup IF Forced THEN requiredBy[Victim] ELSE {}
    BY <1>3 DEF RemovePkgDirectory, RemoveDirectory, DelExit
  <2>2. done' = done BY <2>1 DEF DoneInv
  <2>3. orphaned' \subseteq orphaned \cup Deserted BY <2>1 DEF Deserted
  <2>4. Deserted' = {} BY <2>1 DEF Deserted
  <2> QED BY <1>C, <2>2, <2>3, <2>4, AsRecord
<1>4. CASE RemoveStarts
  <2>1. /\ dpc = "remove" /\ dpc' = "files" /\ UNCHANGED dbvars
        /\ UNCHANGED <<sorted, delopts>>
    BY <1>4 DEF RemoveStarts, DelGoto
  <2>2. Deserted = {} BY <2>1 DEF Deserted
  <2>3. CASE Forced
    BY <1>C, <2>1, <2>2, <2>3, AsCutOff DEF Careful, dbvars
  <2>4. CASE ~Forced
    <3>1. Deserted' = {} BY <2>1, <2>4 DEF Deserted, Forced
    <3> QED BY <1>C, <2>1, <2>2, <3>1, AsRecord DEF dbvars
  <2> QED BY <2>3, <2>4
<1>5. ASSUME NEW p \in Package,
             SortMove(p) \/ SortRecurse(p) \/ SortForced(p) \/ AddLeaf(p)
      PROVE  Abstract!Next
  BY <1>5, <1>D DEF SortMove, SortRecurse, SortForced, AddLeaf
<1>6. CASE \/ \E i \in DOMAIN sorted : DropPreserved(i)
           \/ SortStuck \/ SortDone \/ LeavesDone \/ CheckPreserve
           \/ RemoveDone \/ RemoveMissing \/ DeinstallFails
  BY <1>6, <1>D
  DEF DropPreserved, SortStuck, SortDone, LeavesDone, CheckPreserve, RemoveDone,
      RemoveMissing, DeinstallFails, DelGoto, DelExit
<1> QED BY <1>1, <1>2, <1>3, <1>4, <1>5, <1>6 DEF DeleteStep

LEMMA AdminStepRefines ==
    ASSUME ControlInv, DirsInv, PresentInv, RecordedInv, Abstract!Promise',
           task.pc = "none", dpc = "none", UNCHANGED <<addvars, delvars>>,
           AdminStep
    PROVE  Abstract!Next
<1>0. callers = <<>> /\ callers' = <<>> /\ task' = task /\ dpc' = "none"
  BY RestCallers DEF ControlInv, addvars, delvars
<1>1. Deserted = {} /\ Deserted' = {} BY <1>0 DEF Deserted
<1>2. Cutoff = orphaned /\ Cutoff' = orphaned'
  BY <1>0, <1>1, RestCutoff, RestCutoffNext
<1>3. done' = done BY AdminStepDone
<1>4. CASE UNCHANGED orphaned BY <1>2, <1>3, <1>4, AsRecord
<1>5. ASSUME NEW p \in Package, RemoveRequiredBy(p) PROVE Abstract!Next
  BY <1>2, <1>3, <1>5, AsCutOff DEF RemoveRequiredBy, Careful
<1>6. CASE RebuildTreeDone
  <2>1. Waiting = {} BY <1>0, EmptyStack
  <2>2. pkgdir \subseteq done
    BY <2>1 DEF PresentInv, HasDirectory, Described, Moving
  <2>3. orphaned' = {q \in pkgdir : \E d \in Deps[q] : Providers(d) = {}}
    BY <1>6 DEF RebuildTreeDone
  <2>4. \A q \in done \ orphaned : \A d \in Deps[q] : Providers(d) # {}
    BY DEF RecordedInv, DependencyRecorded, Providers, DirsInv
  <2>5. orphaned' \subseteq orphaned BY <2>2, <2>3, <2>4
  <2> QED BY <1>2, <1>3, <2>5, AsRecord
<1> QED BY <1>4, <1>5, <1>6
        DEF AdminStep, RebuildAdd, RebuildAborts, WriteRequiredBy, RebuildDone,
            RemovedRequiredBy, dbvars

LEMMA InitRefines == Init => Abstract!Init
<1> SUFFICES ASSUME Init PROVE Abstract!Init OBVIOUS
<1>1. callers = <<>> /\ task.pc = "none" BY DEF Init, AddInit, NoTask
<1>2. Cutoff = orphaned \cup Deserted BY <1>1, RestCutoff
<1> QED BY <1>2 DEF Init, DbInit, DelInit, Abstract!Init, Deserted, Cutoff

-----------------------------------------------------------------------------
(* The invariant and what follows from it.                                  *)

PromiseInv == /\ ControlInv /\ StackInv /\ DirsInv /\ OwnerInv /\ RequiredInv
              /\ OrderInv /\ AdminInv /\ DoneInv /\ RecordedInv /\ PresentInv

LEMMA PromiseInit == Init => PromiseInv
BY ControlInit, OwnerInit, RequiredInit, OrderInit, AdminInit, DoneInit,
   RecordedInit, PresentInit DEF PromiseInv

LEMMA PromiseStep ==
    ASSUME "torn" \notin Faults, "crash" \notin Faults, NoForcedCheck,
           NoSkipping, PromiseInv, [Next]_vars
    PROVE  PromiseInv'
BY ControlStep, OwnerStep, RequiredStep, OrderStep, AdminInvStep, DoneStep,
   RecordedStep, PresentStep DEF PromiseInv

LEMMA InvPromises == PromiseInv => Abstract!Promise
BY OrderSuffices, PromiseHolds DEF PromiseInv

LEMMA NextRefines ==
    ASSUME "torn" \notin Faults, "crash" \notin Faults, NoForcedCheck,
           NoSkipping, PromiseInv, [Next]_vars
    PROVE  [Abstract!Next]_<<done, Cutoff, Careful>>
<1>0. /\ ControlInv /\ StackInv /\ DirsInv /\ DoneInv /\ RecordedInv
      /\ PresentInv /\ DependentsFirst /\ OneProgram /\ AddControl
  BY OrderSuffices DEF PromiseInv, ControlInv
<1>P. Abstract!Promise'
  <2>1. PromiseInv' BY PromiseStep
  <2> QED BY <2>1, InvPromises, PTL
<1>1. CASE UserAdd \/ UserDelete \/ UserAdmin
  <2>1. /\ callers = <<>> /\ task.pc = "none" /\ dpc = "none"
        /\ UNCHANGED <<done, orphaned>>
        /\ callers' = <<>> /\ task'.pc \in {"none", "check"}
        /\ dpc' \in {"none", "sort"}
    BY <1>0, <1>1, RestCallers
    DEF UserAdd, UserDelete, UserAdmin, Idle, AddCommand, NewTask, DeleteCommand,
        RebuildCommand, RebuildTreeCommand, SetAutomatic, dbvars, addvars,
        delvars
  <2>2. Deserted' = {} BY <2>1 DEF Deserted
  <2>3. Cutoff' \subseteq Cutoff
    BY <2>1, <2>2, RestCutoff, RestCutoffNext
  <2> QED BY <1>P, <2>1, <2>3, AsRecord
<1>2. CASE AddStep /\ UNCHANGED delvars
  BY <1>0, <1>2, <1>P, StepsOfTheRunning, AddStepRefines
<1>3. CASE DeleteStep /\ UNCHANGED addvars
  BY <1>0, <1>3, <1>P, StepsOfTheRunning, DeleteStepRefines DEF OneProgram
<1>4. CASE AdminStep /\ UNCHANGED <<addvars, delvars>>
  BY <1>0, <1>4, <1>P, StepsOfTheRunning, AdminStepRefines DEF OneProgram
<1>5. ~Crash BY DEF Crash
<1>6. CASE UNCHANGED vars
  BY <1>6 DEF vars, dbvars, addvars, delvars, Cutoff, Deserted, Replaced,
              Waiting, Forced, Victim, Careful
<1> QED BY <1>1, <1>2, <1>3, <1>4, <1>5, <1>6 DEF Next, Tools

\* Whatever fails, robotpkg_add adds to the packages installed to their end one
\* whose dependencies are, and neither it, when it replaces or undoes, nor
\* robotpkg_delete takes away what a package vouched for needs; -f cuts those it
\* deserts off first.  Packages are vouched for again only when they are served.
THEOREM ImplementsCorrect ==
    ASSUME "torn" \notin Faults, "crash" \notin Faults, NoForcedCheck, NoSkipping
    PROVE  Spec => ImplementsPackageSet
<1>1. Init => Abstract!Init BY InitRefines
<1>2. PromiseInv /\ [Next]_vars => [Abstract!Next]_<<done, Cutoff, Careful>>
  BY NextRefines
<1>3. Spec => []PromiseInv BY PromiseInit, PromiseStep, PTL DEF Spec
<1> QED BY <1>1, <1>2, <1>3, PTL
        DEF Spec, ImplementsPackageSet, Abstract!Spec, Cutoff, Careful

-----------------------------------------------------------------------------
(* The files in the prefix.                                                 *)

\* The user unregisters no package.
NoUnregistering == \A opts \in DeleteOptions : "N" \notin opts

\* The steps of robotpkg_add that change a file or an entry of the index.
LEMMA AddFileWrites ==
    ASSUME AddStep
    PROVE  \/ UNCHANGED <<byfile, disk>>
           \/ DeleteOldFiles
           \/ \E f \in File : ExtractFile(f) \/ ExtractFails(f)
           \/ NukePackage
<1>1. CASE AlreadyInstalled \/ CheckRefuses \/ CheckAborts \/ CheckPasses
  BY <1>1 DEF AlreadyInstalled, CheckRefuses, CheckAborts, CheckPasses, dbvars
<1>2. ASSUME NEW d \in Pattern, DepPresent(d) \/ DepInstall(d) \/ DepNoArchive(d)
      PROVE  UNCHANGED <<byfile, disk>>
  BY <1>2 DEF DepPresent, DepInstall, DepNoArchive, dbvars
<1>3. CASE \/ DepReturned \/ DepsResolved \/ MakeDirectory \/ WriteMetaData
           \/ WriteMetaDataFails \/ MoveRequiredBy \/ MoveMarks \/ MoveFails
  BY <1>3 DEF DepReturned, DepsResolved, MakeDirectory, WriteMetaData,
              WriteMetaDataFails, MoveRequiredBy, MoveMarks, MoveFails, dbvars
<1>4. CASE \/ DeleteOldFails \/ DeleteOldStarts \/ DeleteOldDepends
           \/ DeleteOldDirectory \/ PreInstall \/ Extracted \/ PostInstall
           \/ Installed \/ NukeDirectory
  BY <1>4 DEF DeleteOldFails, DeleteOldStarts, DeleteOldDepends,
              DeleteOldDirectory, PreInstall, Extracted, PostInstall, Installed,
              NukeDirectory, dbvars
<1>5. ASSUME NEW q \in Package, RegisterDepend(q)
      PROVE  UNCHANGED <<byfile, disk>>
  BY <1>5 DEF RegisterDepend
<1> QED BY <1>1, <1>2, <1>3, <1>4, <1>5 DEF AddStep

\* delete_package() leaves no file of the package, and no new one.
LEMMA DeletePackageDisk ==
    ASSUME DbTypeOK, NEW p \in Package, NEW force, DeletePackage(p, FALSE, force)
    PROVE  \A f \in File : disk'[f] \in Package =>
               /\ disk'[f] = disk[f]
               /\ f \in Files[p] => disk'[f] # p
BY PkgDbAssumption DEF DeletePackage, DbTypeOK

LEMMA AddStepDisk ==
    ASSUME DbTypeOK, AddControl, DoneInv, DiskInv, AddStep
    PROVE  \A f \in File : disk'[f] \in Package =>
               /\ f \in Files[disk'[f]]
               /\ \/ disk'[f] \in done'
                  \/ task'.pc \in {"extract", "post", "register", "nukepkg"}
                     /\ disk'[f] = task'.pkg
<1> DEFINE Working == {"extract", "post", "register", "nukepkg"}
<1>0. /\ task \in Task /\ TaskOK(task) /\ UnfinishedOK(task)
      /\ task.pc # "none" => task.pkg \in Package
      /\ task.pc \in Moving => task.other \in Package
      /\ task.pc # "none" => task.files \subseteq Files[task.pkg]
  BY DEF AddControl, AddTypeOK, TaskOK, Task, DoneInv
<1>1. SUFFICES ASSUME NEW f \in File, disk'[f] \in Package
               PROVE  /\ f \in Files[disk'[f]]
                      /\ \/ disk'[f] \in done'
                         \/ task'.pc \in Working /\ disk'[f] = task'.pkg
  OBVIOUS
<1>2. CASE DeleteOldFiles
  <2>1. disk'[f] = disk[f] /\ (f \in Files[task.other] => disk[f] # task.other)
    BY <1>0, <1>1, <1>2, DeletePackageDisk DEF DeleteOldFiles, Moving
  <2>2. f \in Files[disk[f]] /\ disk[f] \in done
    BY <1>1, <1>2, <2>1 DEF DiskInv, DeleteOldFiles
  <2> QED BY <1>2, <2>1, <2>2 DEF DeleteOldFiles
<1>3. ASSUME NEW g \in File, ExtractFile(g)
      PROVE  /\ f \in Files[disk'[f]]
             /\ \/ disk'[f] \in done'
                \/ task'.pc \in Working /\ disk'[f] = task'.pkg
  <2>1. /\ disk'[f] = IF f = g THEN task.pkg ELSE disk[f]
        /\ done' = done /\ task.pc = "extract" /\ g \in Files[task.pkg]
        /\ task'.pc = "extract" /\ task'.pkg = task.pkg
    BY <1>0, <1>3 DEF ExtractFile, Task, DbTypeOK
  <2> QED BY <1>1, <2>1 DEF DiskInv
<1>4. ASSUME NEW g \in File, ExtractFails(g)
      PROVE  /\ f \in Files[disk'[f]]
             /\ \/ disk'[f] \in done'
                \/ task'.pc \in Working /\ disk'[f] = task'.pkg
  <2>1. /\ disk'[f] = disk[f] \/ disk'[f] \in {None, Partial}
        /\ done' = done /\ task.pc = "extract"
        /\ task'.pc = "nukepkg" /\ task'.pkg = task.pkg
    BY <1>0, <1>4 DEF ExtractFails, Goto, Task, PC, DbTypeOK
  <2> QED BY <1>1, <2>1, PkgDbAssumption DEF DiskInv
<1>5. CASE NukePackage
  <2>1. disk'[f] = disk[f] /\ (f \in Files[task.pkg] => disk[f] # task.pkg)
    BY <1>0, <1>1, <1>5, DeletePackageDisk DEF NukePackage
  <2> QED BY <1>1, <1>5, <2>1 DEF NukePackage, DiskInv
<1>6. CASE UNCHANGED disk /\ ~DeleteOldFiles /\ ~NukePackage
  <2>1. /\ f \in Files[disk[f]]
        /\ \/ disk[f] \in done
           \/ task.pc \in Working /\ disk[f] = task.pkg
    BY <1>1, <1>6 DEF DiskInv
  <2>2. CASE disk[f] \in done
    <3>1. done \subseteq done'
      <4>1. DeleteOldDirectory => task.other \notin done
        BY <1>0, PkgDbAssumption
        DEF DeleteOldDirectory, UnfinishedOK, OldGone, Moving
      <4>2. NukeDirectory => task.pkg \notin done
        BY <1>0 DEF NukeDirectory, UnfinishedOK
      <4> QED BY <1>6, <4>1, <4>2, AddStepWrites
              DEF MakeDirectory, WriteMetaData, WriteMetaDataFails,
                  MoveRequiredBy, DeleteOldDepends, DeleteOldDirectory,
                  RegisterDepend, Installed, NukeDirectory, RemoveDirectory
    <3> QED BY <1>6, <2>1, <2>2, <3>1
  <2>3. CASE task.pc \in Working /\ disk[f] = task.pkg
    <3>1. CASE GoesOn
      <4>1. task.pc # "nukepkg" BY <1>6, AtLabel
      <4>2. task'.pc \in Working /\ task'.pkg = task.pkg
        BY <2>3, <3>1, <4>1 DEF GoesOn, Flow
      <4> QED BY <1>6, <2>1, <2>3, <4>2
    <3>2. CASE Installed BY <1>6, <2>1, <2>3, <3>2 DEF Installed
    <3> QED BY <2>3, <3>1, <3>2, AddStepFlow
            DEF AlreadyInstalled, CheckRefuses, CheckAborts, CheckPasses, GivesUp,
                DepInstall, NukeDirectory
  <2> QED BY <2>1, <2>2, <2>3
<1> QED BY <1>2, <1>3, <1>4, <1>5, <1>6, AddFileWrites

\* robotpkg_delete removes the files of a package before it forgets it.
LEMMA DeleteStepDisk ==
    ASSUME DbTypeOK, DelControl, DoneInv, DiskInv, task.pc = "none",
           UNCHANGED task, DeleteStep
    PROVE  DiskInv'
<1>1. delopts' = delopts
  BY DEF DeleteStep, SortMove, SortRecurse, SortForced, AddLeaf, DropPreserved,
         SortStuck, SortDone, LeavesDone, CheckPreserve, RemoveDone,
         RemoveMissing, RemoveStarts, DeinstallFails, RemoveFiles,
         RemoveFromDepends, RemovePkgDirectory, DelGoto, DelExit
<1>2. \A f \in File : disk[f] \in Package => f \in Files[disk[f]] /\ disk[f] \in done
  BY DEF DiskInv
<1>3. CASE RemoveFiles
  <2>1. Victim \in Package BY <1>3, VictimIsPackage DEF RemoveFiles
  <2>2. DeletePackage(Victim, FALSE, Forced) /\ done' = done \ {Victim}
    BY <1>3 DEF RemoveFiles, DiskInv, DeletePackage, UnregisterOnly
  <2>3. \A f \in File : disk'[f] \in Package =>
            disk'[f] = disk[f] /\ (f \in Files[Victim] => disk'[f] # Victim)
    BY <2>1, <2>2, DeletePackageDisk
  <2> QED BY <1>1, <1>2, <2>2, <2>3 DEF DiskInv, UnregisterOnly
<1>4. CASE ~RemoveFiles
  <2>1. UNCHANGED disk
    BY <1>4
    DEF DeleteStep, SortMove, SortRecurse, SortForced, AddLeaf, DropPreserved,
        SortStuck, SortDone, LeavesDone, CheckPreserve, RemoveDone,
        RemoveMissing, RemoveStarts, DeinstallFails, RemoveFromDepends,
        RemovePkgDirectory, dbvars
  <2>2. done' = done
    <3>1. CASE dpc # "files" BY <3>1, DeleteStepDone DEF DoneInv
    <3>2. CASE dpc = "files"
      BY <1>4, <3>2
      DEF DeleteStep, SortMove, SortRecurse, SortForced, AddLeaf, DropPreserved,
          SortStuck, SortDone, LeavesDone, CheckPreserve, RemoveDone,
          RemoveMissing, RemoveStarts, DeinstallFails, RemoveFromDepends,
          RemovePkgDirectory
    <3> QED BY <3>1, <3>2
  <2> QED BY <1>1, <1>2, <2>1, <2>2 DEF DiskInv, UnregisterOnly
<1> QED BY <1>3, <1>4

LEMMA DiskInit == Init => DiskInv
BY PkgDbAssumption DEF Init, DbInit, DelInit, DiskInv, UnregisterOnly

LEMMA DiskStep ==
    ASSUME "crash" \notin Faults, NoUnregistering, ControlInv, DoneInv, DiskInv,
           [Next]_vars
    PROVE  DiskInv'
<1>0. /\ DbTypeOK /\ AddControl /\ DelControl /\ OneProgram
  BY DEF ControlInv, TypeOK
\* With no call under way, what is in place is of the packages installed.
<1>R. ASSUME task.pc = "none", UNCHANGED <<disk, done>>, ~UnregisterOnly'
      PROVE  DiskInv'
  BY <1>R DEF DiskInv
<1>1. CASE UserAdd \/ UserAdmin
  <2>1. /\ task.pc = "none" /\ UNCHANGED <<disk, done>> /\ delopts' = delopts
    BY <1>1 DEF UserAdd, UserAdmin, Idle, AddCommand, RebuildCommand,
                RebuildTreeCommand, SetAutomatic, dbvars, delvars
  <2> QED BY <1>R, <2>1 DEF DiskInv, UnregisterOnly
<1>2. CASE UserDelete
  <2>1. /\ task.pc = "none" /\ UNCHANGED <<disk, done>>
        /\ delopts' \in DeleteOptions
    BY <1>2 DEF UserDelete, Idle, DeleteCommand, dbvars
  <2> QED BY <1>R, <2>1 DEF NoUnregistering, UnregisterOnly
<1>3. CASE AddStep /\ UNCHANGED delvars
  BY <1>0, <1>3, AddStepDisk DEF DiskInv, UnregisterOnly, delvars
<1>4. CASE DeleteStep /\ UNCHANGED addvars
  <2>1. task.pc = "none" BY <1>0, <1>4, StepsOfTheRunning DEF OneProgram
  <2> QED BY <1>0, <1>4, <2>1, DeleteStepDisk DEF addvars
<1>5. CASE AdminStep /\ UNCHANGED delvars
  <2>1. task.pc = "none" BY <1>0, <1>5, StepsOfTheRunning DEF OneProgram
  <2> QED BY <1>5, <1>R, <2>1, AdminStepDone DEF DiskInv, UnregisterOnly, delvars
<1>6. ~Crash BY DEF Crash
<1>7. CASE UNCHANGED vars
  BY <1>7 DEF vars, dbvars, addvars, delvars, DiskInv, UnregisterOnly
<1> QED BY <1>1, <1>2, <1>3, <1>4, <1>5, <1>6, <1>7 DEF Next, Tools

\* Whatever fails, no tool leaves a trace of a package that is not installed to
\* its end (nuke_pkg and nuke_pkgdb of pkg_do(), add/perform.c; remove_pkg(),
\* delete/pkg_delete.c): every directory of the database is of a package that
\* is, and every file, but one that was not written to its end.  Two things do
\* leave one and are left out: an interruption, and robotpkg_delete -N, whose
\* purpose it is.
THEOREM AtRestCleanCorrect ==
    ASSUME "torn" \notin Faults, "crash" \notin Faults, NoUnregistering
    PROVE  Spec => []AtRestClean
<1> DEFINE IInv == /\ ControlInv /\ StackInv /\ DirsInv /\ OwnerInv /\ DoneInv
                   /\ PresentInv /\ DiskInv
<1>1. Init => IInv
  BY ControlInit, OwnerInit, DoneInit, PresentInit, DiskInit
<1>2. IInv /\ [Next]_vars => IInv'
  BY ControlStep, OwnerStep, DoneStep, PresentStep, DiskStep
<1>3. IInv => AtRestClean
  <2> SUFFICES ASSUME IInv, Idle
               PROVE  /\ pkgdir = done
                      /\ \A f \in File : disk[f] \in done \cup {None, Partial}
    BY DEF AtRestClean
  <2>1. task.pc = "none" /\ dpc = "none" BY DEF Idle
  <2>2. Waiting = {}
    BY <2>1, RestCallers, EmptyStack DEF ControlInv
  <2>3. pkgdir \ done = {}
    BY <2>1, <2>2 DEF PresentInv, HasDirectory, Described, Moving
  <2>4. done \subseteq pkgdir BY DEF DoneInv, DirsInv
  <2>5. \A f \in File : disk[f] \in done \cup {None, Partial}
    BY <2>1 DEF DiskInv, ControlInv, TypeOK, DbTypeOK
  <2> QED BY <2>3, <2>4, <2>5
<1> QED BY <1>1, <1>2, <1>3, PTL DEF Spec

-----------------------------------------------------------------------------
(* The files of the packages installed.                                     *)

\* The user does not force an installation.
NoForcedAdd == \A opts \in AddOptions : "f" \notin opts

\* What a removal takes away was installed to its end.
LEMMA RemovalsOfInstalled ==
    ASSUME ControlInv, StackInv, DirsInv, PresentInv, RemovingInstalled
    PROVE  /\ task.pc = "dfiles" => task.other \in done
           /\ dpc = "files" => Victim \in done
           /\ task.pc = "none" /\ dpc = "none" => contents \subseteq done
<1>0. /\ AddControl /\ TaskOK(task) /\ OneProgram /\ OtherOK(task)
      /\ contents \subseteq pkgdir
  BY DEF ControlInv, AddControl, StackInv, DirsInv
<1>1. CASE task.pc = "dfiles"
  <2>1. /\ task.other # None /\ task.other \in contents /\ dpc = "none"
        /\ task.other # task.pkg
    BY <1>0, <1>1 DEF TaskOK, Moving, RemovingInstalled, OneProgram, OtherOK
  <2>2. \A t \in Waiting : t.pkg # task.other
    BY <1>0, <2>1, StackApart
  <2> QED BY <1>0, <1>1, <2>1, <2>2 DEF PresentInv
<1>2. CASE task.pc = "none"
  <2>1. Waiting = {} BY <1>0, <1>2, RestCallers, EmptyStack
  <2>2. \A p \in pkgdir \ done : dpc \in {"depends", "directory"}
    BY <1>2, <2>1 DEF PresentInv, HasDirectory, Described, Moving
  <2> QED BY <1>0, <1>2, <2>2 DEF RemovingInstalled
<1>3. dpc = "files" => task.pc = "none" BY <1>0 DEF OneProgram
<1> QED BY <1>1, <1>2, <1>3

LEMMA RemovingStep ==
    ASSUME ControlInv, RemovingInstalled, [Next]_vars
    PROVE  RemovingInstalled'
<1>0. /\ AddControl /\ DelControl /\ OneProgram /\ task \in Task
  BY DEF ControlInv, AddControl, AddTypeOK
<1>1. CASE AddStep /\ UNCHANGED delvars
  <2>1. dpc' = "none"
    BY <1>0, <1>1, StepsOfTheRunning DEF OneProgram, delvars
  <2>2. task'.pc = "dfiles" => task'.other \in contents'
    BY <1>0, <1>1, AddStartsDelete DEF DeleteOldStarts, Goto, Task, dbvars
  <2> QED BY <2>1, <2>2 DEF RemovingInstalled
<1>2. CASE DeleteStep /\ UNCHANGED addvars
  <2>1. task'.pc = "none"
    BY <1>0, <1>2, StepsOfTheRunning DEF OneProgram, addvars
  <2>2. dpc' = "files" => RemoveStarts
    BY <1>2
    DEF DeleteStep, SortMove, SortRecurse, SortForced, AddLeaf, DropPreserved,
        SortStuck, SortDone, LeavesDone, CheckPreserve, RemoveDone,
        RemoveMissing, DeinstallFails, RemoveFiles, RemoveFromDepends,
        RemovePkgDirectory, DelGoto, DelExit
  <2>3. RemoveStarts => Victim' \in contents'
    BY DEF RemoveStarts, DelGoto, Victim, dbvars
  <2> QED BY <2>1, <2>2, <2>3 DEF RemovingInstalled
<1>3. CASE AdminStep /\ UNCHANGED <<addvars, delvars>>
  BY <1>0, <1>3, StepsOfTheRunning
  DEF OneProgram, addvars, delvars, RemovingInstalled
<1>4. CASE UserAdd \/ UserDelete \/ UserAdmin
  BY <1>4 DEF UserAdd, UserDelete, UserAdmin, Idle, AddCommand, NewTask,
              DeleteCommand, addvars, delvars, RemovingInstalled
<1>5. CASE Crash BY <1>5, NoTaskOK DEF Crash, Exit, DelExit, RemovingInstalled
<1>6. CASE UNCHANGED vars
  BY <1>6 DEF vars, dbvars, addvars, delvars, RemovingInstalled, Victim
<1> QED BY <1>1, <1>2, <1>3, <1>4, <1>5, <1>6 DEF Next, Tools

\* pkgdb_store() finds no other package's entry.
LEMMA ExtractsOwn ==
    ASSUME ControlInv, StackInv, DirsInv, OwnerInv, DoneInv, PresentInv,
           FilesFree, task.pc = "extract", NEW f \in Files[task.pkg]
    PROVE  byfile[f] \in {None, task.pkg}
<1>1. SUFFICES ASSUME byfile[f] # None, byfile[f] # task.pkg PROVE FALSE
  OBVIOUS
<1>0. /\ AddControl /\ TaskOK(task) /\ UnfinishedOK(task) /\ dpc = "none"
      /\ task.pkg \in Package /\ f \in File
      /\ \A t \in Waiting : IndexOK(t)
  BY PkgDbAssumption
  DEF ControlInv, AddControl, AddTypeOK, TaskOK, Task, OneProgram, DoneInv,
      OwnerInv, AddIndex
<1> DEFINE o == byfile[f]
<1>2. o \in contents /\ f \in Files[o] BY <1>0, <1>1 DEF OwnerInv, OwnerInstalled
<1>3. CASE o \in done
  <2>1. o # task.other
    BY <1>0, <1>1, <1>3 DEF UnfinishedOK, OldGone
  <2> QED BY <1>2, <1>3, <2>1 DEF FilesFree, PastCheck
<1>4. CASE o \notin done
  <2>1. o \in pkgdir
    BY <1>2 DEF DirsInv
  <2>2. PICK t \in Waiting : o = t.pkg
    BY <1>0, <1>1, <1>4, <2>1 DEF PresentInv
  <2>3. NothingStored(t) BY <1>0, StackApart DEF NothingStored
  <2> QED BY <1>0, <2>2, <2>3 DEF IndexOK, Unowned
<1> QED BY <1>3, <1>4

\* Only extraction takes a file from those the call has still to write.
LEMMA AddStepFiles ==
    ASSUME AddControl, AddStep
    PROVE  \/ task'.files = task.files \/ \E f \in File : ExtractFile(f)
           \/ task' \in Waiting \/ task'.pc \in {"none", "check"}
<1> USE DEF PC
<1> DEFINE Goal == \/ task'.files = task.files
                   \/ task' \in Waiting \/ task'.pc \in {"none", "check"}
<1>0. task \in Task BY DEF AddControl, AddTypeOK
<1>G. ASSUME NEW pc \in PC, Goto(pc) PROVE Goal
  BY <1>0, <1>G DEF Goto, Task
<1>R. ASSUME NEW status \in {"ok", "fail"}, Return(status) PROVE Goal
  BY <1>R, ReturnWaiting, NoTaskOK
<1>1. CASE AlreadyInstalled \/ CheckRefuses \/ Installed \/ NukeDirectory
  BY <1>1, <1>R DEF AlreadyInstalled, CheckRefuses, Installed, NukeDirectory
<1>2. CASE CheckAborts BY <1>2, NoTaskOK DEF CheckAborts, Exit
<1>3. CASE CheckPasses BY <1>0, <1>3 DEF CheckPasses, Task
<1>4. ASSUME NEW d \in Pattern, DepPresent(d) \/ DepInstall(d) PROVE Goal
  BY <1>0, <1>4 DEF DepPresent, DepInstall, NewTask, Task
<1>5. ASSUME DepsFail PROVE Goal BY <1>5, <1>R, <1>G DEF DepsFail
<1>6. ASSUME NEW d \in Pattern, DepNoArchive(d) PROVE Goal
  <2>1. CASE DepsFail BY <1>5, <2>1
  <2>2. CASE ~DepsFail
    <3>1. task' = [task EXCEPT !.todo = @ \ {d}]
      BY <1>6, <2>2 DEF DepNoArchive
    <3> QED BY <1>0, <3>1 DEF Task
  <2> QED BY <2>1, <2>2
<1>7. CASE DepReturned
  <2>1. CASE Return("fail") BY <1>R, <2>1
  <2>2. CASE ~Return("fail")
    <3>1. task' = task \/ task' = [task EXCEPT !.pc = "nukepkgdb"]
      BY <1>7, <2>2 DEF DepReturned
    <3> QED BY <1>0, <3>1 DEF Task
  <2> QED BY <2>1, <2>2
<1>8. CASE DepsResolved
  <2>1. CASE DepsFail BY <1>5, <2>1
  <2>2. CASE ~DepsFail
    <3>1. PICK best \in [Deps[task.pkg] -> Package] :
              task' = [task EXCEPT !.deps = {best[d] : d \in Deps[task.pkg]},
                                   !.pc = IF Replacing THEN "pre" ELSE "mkdir"]
      BY <1>8, <2>2 DEF DepsResolved
    <3> QED BY <1>0, <3>1 DEF Task
  <2> QED BY <2>1, <2>2
<1>9. CASE WriteMetaData
  <2>1. \E pc \in {"move", "pre"} : Goto(pc) BY <1>9 DEF WriteMetaData
  <2> QED BY <1>G, <2>1
<1>10. CASE \/ MakeDirectory \/ WriteMetaDataFails
            \/ MoveRequiredBy \/ MoveMarks \/ MoveFails
  BY <1>10, <1>G DEF MakeDirectory, WriteMetaDataFails, MoveRequiredBy,
                     MoveMarks, MoveFails
<1>11. CASE \/ DeleteOldFails \/ DeleteOldStarts \/ DeleteOldFiles
            \/ DeleteOldDepends \/ DeleteOldDirectory
  BY <1>11, <1>G DEF DeleteOldFails, DeleteOldStarts, DeleteOldFiles,
                     DeleteOldDepends, DeleteOldDirectory
<1>12. ASSUME NEW f \in File, ExtractFails(f) PROVE Goal
  BY <1>12, <1>G DEF ExtractFails
<1>13. CASE PreInstall \/ Extracted \/ PostInstall \/ NukePackage
  BY <1>13, <1>G DEF PreInstall, Extracted, PostInstall, NukePackage
<1>14. ASSUME NEW q \in Package, RegisterDepend(q) PROVE Goal
  BY <1>0, <1>14 DEF RegisterDepend, Task
<1> QED BY <1>1, <1>2, <1>3, <1>4, <1>6, <1>7, <1>8, <1>9, <1>10, <1>11, <1>12,
           <1>13, <1>14 DEF AddStep

\* The steps at the label "extract".
LEMMA AtExtract ==
    ASSUME AddStep, task.pc = "extract"
    PROVE  Extracted \/ \E f \in File : ExtractFile(f) \/ ExtractFails(f)
BY DEF AddStep, AlreadyInstalled, CheckRefuses, CheckAborts, CheckPasses,
       DepPresent, DepInstall, DepNoArchive, DepReturned, DepsResolved,
       MakeDirectory, WriteMetaData, WriteMetaDataFails, MoveRequiredBy,
       MoveMarks, MoveFails, DeleteOldFails, DeleteOldStarts, DeleteOldFiles,
       DeleteOldDepends, DeleteOldDirectory, PreInstall, PostInstall,
       RegisterDepend, Installed, NukePackage, NukeDirectory

\* What the running call has written is its own, until it takes it back.
LEMMA StoredGoesOn ==
    ASSUME ControlInv, StackInv, DirsInv, OwnerInv, DoneInv, PresentInv,
           FilesFree, StoredInv, AddStep, GoesOn
    PROVE  /\ Whole(task)' => task'.files = Files[task.pkg]
           /\ task'.pc \in {"extract", "post", "register"} =>
                  \A f \in Files[task.pkg] \ task'.files :
                      disk'[f] = task.pkg /\ byfile'[f] = task.pkg
           /\ task'.pc \in {"post", "register"} => task'.files = {}
<1>0. /\ AddControl /\ task \in Task /\ DbTypeOK /\ task'.pkg = task.pkg
      /\ Flow(task, task'.pc)
  BY DEF ControlInv, TypeOK, AddControl, AddTypeOK, GoesOn
<1>1. ASSUME NEW g \in File, ExtractFile(g)
      PROVE  /\ task'.pc = "extract" /\ task'.files = task.files \ {g}
             /\ \A f \in Files[task.pkg] \ task'.files :
                    disk'[f] = task.pkg /\ byfile'[f] = task.pkg
  <2>1. /\ task.pc = "extract" /\ task.pkg \in Package
        /\ task'.pc = "extract" /\ task'.files = task.files \ {g}
        /\ g \in Files[task.pkg] /\ Files[task.pkg] \subseteq File
    BY <1>0, <1>1, PkgDbAssumption DEF ExtractFile, AddControl, TaskOK, Task
  <2>2. /\ \A f \in File : disk'[f] = IF f = g THEN task.pkg ELSE disk[f]
        /\ \A f \in File : byfile'[f] = IF f = g /\ byfile[f] = None
                                        THEN task.pkg ELSE byfile[f]
    BY <1>0, <1>1 DEF ExtractFile, Store, DbTypeOK
  <2>3. byfile'[g] = task.pkg
    BY <2>1, <2>2, ExtractsOwn
  <2>4. \A f \in Files[task.pkg] \ task.files :
            disk[f] = task.pkg /\ byfile[f] = task.pkg
    BY <2>1 DEF StoredInv
  <2>5. ASSUME NEW f \in Files[task.pkg] \ task'.files
        PROVE  disk'[f] = task.pkg /\ byfile'[f] = task.pkg
    <3>1. f \in File BY <2>1
    <3>2. CASE f = g BY <2>2, <2>3, <3>1, <3>2
    <3>3. CASE f # g BY <2>1, <2>2, <2>4, <2>5, <3>1, <3>3
    <3> QED BY <3>2, <3>3
  <2> QED BY <2>1, <2>5
<1>2. CASE \A f \in File : ~ExtractFile(f)
  <2>1. task'.files = task.files
    <3>1. task' \notin Waiting
      BY <1>0, StackApart
    <3>2. task'.pc \notin {"none", "check"} BY <1>0 DEF Flow
    <3> QED BY <1>0, <1>2, <3>1, <3>2, AddStepFiles
  <2>2. Whole(task)' => Whole(task) BY <1>0 DEF Whole, Flow, Moving
  <2>3. /\ task'.pc \in {"extract", "post", "register"} =>
               \/ task.pc = "pre"
               \/ task.pc \in {"extract", "post", "register"}
                  /\ UNCHANGED <<disk, byfile>>
    <3>1. ASSUME NEW f \in File, ExtractFails(f) PROVE task'.pc = "nukepkg"
      BY <1>0, <3>1 DEF ExtractFails, Goto, Task, PC
    <3>2. NukePackage \/ DeleteOldFiles => task.pc \in {"nukepkg", "dfiles"}
      BY DEF NukePackage, DeleteOldFiles
    <3> QED BY <1>0, <1>2, <3>1, <3>2, AddFileWrites DEF Flow
  <2>4. task'.pc \in {"post", "register"} => task.files = {}
    <3>1. CASE task.pc = "extract" /\ task'.pc = "post"
      <4>1. ASSUME NEW f \in File, ExtractFails(f) PROVE task'.pc = "nukepkg"
        BY <1>0, <4>1 DEF ExtractFails, Goto, Task, PC
      <4>2. Extracted BY <1>2, <3>1, <4>1, AtExtract
      <4> QED BY <4>2 DEF Extracted
    <3>2. CASE task.pc \in {"post", "register"} BY <3>2 DEF StoredInv
    <3> QED BY <1>0, <3>1, <3>2 DEF Flow
  <2>5. task.pc = "pre" => task.files = Files[task.pkg]
    BY DEF StoredInv, Whole
  <2> QED BY <1>0, <2>1, <2>2, <2>3, <2>4, <2>5 DEF StoredInv
<1>3. ASSUME NEW g \in File, ExtractFile(g)
      PROVE  task'.pc \notin {"post", "register"} /\ ~Whole(task)'
  BY <1>1, <1>3 DEF Whole, Moving
<1> QED BY <1>1, <1>2, <1>3

LEMMA AddStepStored ==
    ASSUME ControlInv, StackInv, DirsInv, OwnerInv, DoneInv, PresentInv,
           FilesFree, StoredInv, AddStep
    PROVE  StoredInv'
<1> DEFINE Unwritten(t) == Whole(t) => t.files = Files[t.pkg]
<1>0. /\ AddControl /\ task \in Task
      /\ \A t \in Waiting \cup {task} : Unwritten(t)
  BY DEF ControlInv, AddControl, AddTypeOK, StoredInv
<1>W. \A t : Unwritten(t)' = Unwritten(t) BY DEF Whole, Moving
<1>1. CASE Waiting' = Waiting /\ GoesOn
  <2>1. task'.pkg = task.pkg BY <1>1 DEF GoesOn
  <2>2. Unwritten(task)' BY <1>1, <2>1, StoredGoesOn
  <2>3. \A t \in (Waiting \cup {task})' : Unwritten(t)'
    BY <1>0, <1>W, <1>1, <2>2
  <2> QED BY <1>1, <2>1, <2>3, StoredGoesOn DEF StoredInv
<1>2. CASE Waiting' = Waiting /\ CheckPasses
  <2>1. /\ task'.pkg = task.pkg /\ task'.files = task.files
        /\ task.pc = "check" /\ task'.pc \in {"deps", "mkdir"}
    BY <1>0, <1>2 DEF CheckPasses, Task
  <2>2. Unwritten(task)' BY <1>0, <2>1 DEF Whole
  <2>3. \A t \in (Waiting \cup {task})' : Unwritten(t)'
    BY <1>0, <1>W, <1>2, <2>2
  <2> QED BY <2>1, <2>3 DEF StoredInv
<1>3. CASE Waiting' \subseteq Waiting /\ (task' = NoTask \/ task' \in Waiting)
  <2>1. task'.pc \in {"none", "deps"}
    BY <1>0, <1>3, NoTaskOK DEF AddControl, CallersOK, Waiting
  <2>2. Unwritten(NoTask)' BY NoTaskOK DEF Whole, Moving
  <2>3. \A t \in (Waiting \cup {task})' : Unwritten(t)'
    BY <1>0, <1>W, <1>3, <2>2
  <2> QED BY <2>1, <2>3 DEF StoredInv
<1>4. ASSUME NEW d \in Pattern, NEW q \in Package,
             Waiting' = Waiting \cup {[task EXCEPT !.todo = @ \ {d}]},
             task' = NewTask(q, TRUE)
      PROVE  StoredInv'
  <2>0. PICK t : t = [task EXCEPT !.todo = @ \ {d}] OBVIOUS
  <2>1. t.pkg = task.pkg /\ t.files = task.files /\ t.pc = task.pc
    BY <1>0, <2>0 DEF Task
  <2>2. Unwritten(t) BY <1>0, <2>1 DEF Whole
  <2>3. Unwritten(task)' /\ task'.pc = "check" BY <1>4 DEF NewTask
  <2>4. \A s \in (Waiting \cup {task})' : Unwritten(s)'
    BY <1>0, <1>W, <1>4, <2>0, <2>2, <2>3
  <2> QED BY <2>3, <2>4 DEF StoredInv
<1> QED BY <1>0, <1>1, <1>2, <1>3, <1>4, AddStepStackMoves

\* check_conflicts() of the file index, and what is installed meanwhile.
LEMMA AddStepFree ==
    ASSUME ControlInv, StackInv, DoneInv, FilesInv, AddStep,
           NEW Under \in [Package -> SUBSET Package], UnderInv(Under),
           NoLateOverlap(Under)
    PROVE  FilesFree'
<1> DEFINE Free(t) == PastCheck(t) => \A q \in done \ {t.other} :
                                          Files[q] \cap Files[t.pkg] = {}
<1>0. /\ AddControl /\ task \in Task /\ TaskOK(task) /\ OneProgram
      /\ done \subseteq Package /\ Free(task) /\ FilesIntact /\ ~ForceAdd
      /\ \A t \in Waiting : Free(t)
  BY DEF ControlInv, TypeOK, DbTypeOK, AddControl, AddTypeOK, FilesInv, FilesFree
<1>W. \A t \in Waiting : Free(t)'
  <2>1. SUFFICES ASSUME NEW t \in Waiting, NEW q \in done' \ {t.other}
                 PROVE  Files[q] \cap Files[t.pkg] = {}
    BY DEF PastCheck
  <2>2. t.pkg \in Package /\ PastCheck(t)
    BY <1>0, StackLevels DEF PastCheck
  <2>3. CASE q \in done BY <1>0, <2>1, <2>2, <2>3
  <2>4. CASE q = task.pkg BY <2>2, <2>4 DEF UnderInv, NoLateOverlap
  <2> QED BY <2>1, <2>3, <2>4, AddDone
<1>N. Free(NoTask)' BY DEF PastCheck, NoTask
<1>P. \A t : PastCheck(t)' = PastCheck(t) BY DEF PastCheck
<1>3. ASSUME Waiting' = Waiting, Free(task)'
      PROVE  FilesFree'
  BY <1>3, <1>W DEF FilesFree
<1>4. CASE Waiting' \subseteq Waiting /\ (task' = NoTask \/ task' \in Waiting)
  <2>1. \A t \in (Waiting \cup {task})' : Free(t)' BY <1>4, <1>W, <1>N
  <2> QED BY <2>1 DEF FilesFree
<1>5. CASE Waiting' = Waiting /\ GoesOn /\ ~Installed
  <2>1. /\ task'.pkg = task.pkg /\ task'.other = task.other /\ PastCheck(task)
        /\ done' \subseteq done
    BY <1>5, AddDone DEF GoesOn, Flow, PastCheck
  <2> QED BY <1>0, <1>3, <1>5, <2>1
<1>6. CASE Waiting' = Waiting /\ CheckPasses
  <2>1. PICK o \in Package \cup {None} :
            /\ ~ConflictFiles(o)
            /\ task' = [task EXCEPT !.other = o,
                                    !.pc = IF o = None THEN "deps" ELSE "mkdir"]
    BY <1>6 DEF CheckPasses
  <2>2. /\ task'.pkg = task.pkg /\ task'.other = o /\ done' = done
        /\ apc # "rebuild"
    BY <1>0, <1>6, <2>1 DEF CheckPasses, Task, OneProgram, dbvars
  <2>3. ASSUME NEW q \in done \ {o}, NEW f \in Files[q] \cap Files[task.pkg]
        PROVE  FALSE
    <3>1. byfile[f] = q /\ q # None
      BY <1>0, <2>2, <2>3, PkgDbAssumption DEF FilesIntact
    <3> QED BY <1>0, <2>1, <2>3, <3>1 DEF ConflictFiles
  <2>4. Free(task)' BY <2>2, <2>3
  <2> QED BY <1>3, <1>6, <2>4
<1>7. ASSUME NEW d \in Pattern, NEW q \in Package,
             Waiting' = Waiting \cup {[task EXCEPT !.todo = @ \ {d}]},
             task' = NewTask(q, TRUE), UNCHANGED dbvars
      PROVE  FilesFree'
  <2>0. PICK t : t = [task EXCEPT !.todo = @ \ {d}] OBVIOUS
  <2>1. t.pkg = task.pkg /\ t.other = task.other /\ t.pc = task.pc
    BY <1>0, <2>0 DEF Task
  <2>2. done' = done BY <1>7 DEF dbvars
  <2>3. Free(t)' BY <1>0, <2>1, <2>2 DEF PastCheck
  <2>4. Free(task)' BY <1>7 DEF PastCheck, NewTask
  <2>5. \A s \in (Waiting \cup {task})' : Free(s)'
    BY <1>W, <1>7, <2>0, <2>3, <2>4
  <2> QED BY <2>5 DEF FilesFree
<1>8. CASE Installed
  <2>1. /\ Waiting' \subseteq Waiting
        /\ task' = NoTask \/ task' \in Waiting
    BY <1>0, <1>8, ReturnWaiting DEF Installed
  <2> QED BY <1>4, <2>1
<1> QED BY <1>0, <1>4, <1>5, <1>6, <1>7, <1>8, AddStepStackMoves

\* No step of robotpkg_add touches a file of another installed package.
LEMMA AddStepIntact ==
    ASSUME ControlInv, StackInv, DirsInv, DoneInv, PresentInv, FilesInv, AddStep
    PROVE  FilesIntact'
<1>0. /\ AddControl /\ TaskOK(task) /\ DbTypeOK /\ UnfinishedOK(task)
      /\ ~ForceAdd /\ apc # "rebuild" /\ done \subseteq Package
      /\ task.pc # "none" /\ task.pkg \in Package
  BY StepsOfTheRunning
  DEF ControlInv, TypeOK, DbTypeOK, AddControl, OneProgram, DoneInv, FilesInv,
      TaskOK, Task
<1>1. SUFFICES ASSUME NEW q \in done', NEW f \in Files[q]
               PROVE  disk'[f] = q /\ byfile'[f] = q
  BY DEF FilesIntact
<1>2. CASE q \notin done
  <2>1. Installed /\ q = task.pkg BY <1>1, <1>2, AddDone
  <2>2. task.pc = "register" /\ UNCHANGED <<disk, byfile>>
    BY <2>1 DEF Installed
  <2> QED BY <1>1, <2>1, <2>2 DEF FilesInv, StoredInv
<1>3. CASE q \in done
  <2>0. /\ disk[f] = q /\ byfile[f] = q /\ q \in Package /\ f \in File
    BY <1>0, <1>1, <1>3, PkgDbAssumption DEF FilesInv, FilesIntact
  <2>1. CASE UNCHANGED <<byfile, disk>> BY <2>0, <2>1
  <2>2. CASE DeleteOldFiles
    <3>1. /\ task.pc = "dfiles" /\ DeletePackage(task.other, FALSE, FALSE)
          /\ done' = done \ {task.other}
      BY <2>2 DEF DeleteOldFiles
    <3>2. task.other \in done /\ task.other # q
      BY <1>1, <3>1, RemovalsOfInstalled DEF FilesInv
    <3>3. f \notin Files[task.other]
      BY <2>0, <3>2 DEF FilesInv, FilesIntact
    <3> QED BY <2>0, <3>1, <3>3 DEF DeletePackage
  <2>3. ASSUME task.pc \in {"extract", "nukepkg"} PROVE f \notin Files[task.pkg]
    <3>1. q # task.other BY <1>0, <1>3, <2>0, <2>3, PkgDbAssumption
                         DEF UnfinishedOK, OldGone
    <3> QED BY <1>1, <1>3, <2>3, <3>1 DEF FilesInv, FilesFree, PastCheck
  <2>4. ASSUME NEW g \in File, ExtractFile(g) \/ ExtractFails(g)
        PROVE  disk'[f] = disk[f] /\ byfile'[f] = byfile[f]
    <3>1. task.pc = "extract" /\ g \in task.files /\ g # f
      BY <1>0, <2>3, <2>4 DEF ExtractFile, ExtractFails, TaskOK
    <3> QED BY <1>0, <2>0, <2>4, <3>1 DEF ExtractFile, ExtractFails, Store, DbTypeOK
  <2>5. CASE NukePackage
    <3>1. task.pc = "nukepkg" /\ DeletePackage(task.pkg, FALSE, ForceAdd)
      BY <2>5 DEF NukePackage
    <3> QED BY <2>0, <2>3, <3>1 DEF DeletePackage
  <2> QED BY <2>0, <2>1, <2>2, <2>4, <2>5, AddFileWrites
<1> QED BY <1>2, <1>3

\* No removal takes a file of another installed package, whatever is forced.
LEMMA DeleteStepIntact ==
    ASSUME ControlInv, StackInv, DirsInv, DoneInv, PresentInv, FilesInv,
           DeleteStep, UNCHANGED admvars
    PROVE  FilesIntact'
<1>0. /\ DbTypeOK /\ DelControl /\ apc # "rebuild" /\ done \subseteq Package
      /\ apc' = apc
  BY StepsOfTheRunning
  DEF ControlInv, TypeOK, DbTypeOK, OneProgram, admvars
<1>1. done' \subseteq done BY <1>0, DeleteStepDone DEF DoneInv
<1>2. ASSUME UNCHANGED <<byfile, disk>> PROVE FilesIntact'
  BY <1>0, <1>1, <1>2 DEF FilesInv, FilesIntact
<1>3. CASE RemoveFiles
  <2>1. /\ dpc = "files" /\ DeletePackage(Victim, UnregisterOnly, Forced)
        /\ done' = done \ {Victim}
    BY <1>3 DEF RemoveFiles
  <2>2. Victim \in done BY <2>1, RemovalsOfInstalled DEF FilesInv
  <2>3. SUFFICES ASSUME NEW q \in done', NEW f \in Files[q]
                 PROVE  disk'[f] = q /\ byfile'[f] = q
    BY DEF FilesIntact
  <2>4. /\ disk[f] = q /\ byfile[f] = q /\ f \in File /\ q # Victim
    BY <1>0, <2>1, <2>3, PkgDbAssumption DEF FilesInv, FilesIntact
  <2>5. f \notin Files[Victim] BY <2>2, <2>4 DEF FilesInv, FilesIntact
  <2> QED BY <2>1, <2>4, <2>5 DEF DeletePackage
<1>4. CASE ~RemoveFiles
  BY <1>2, <1>4
  DEF DeleteStep, SortMove, SortRecurse, SortForced, AddLeaf, DropPreserved,
      SortStuck, SortDone, LeavesDone, CheckPreserve, RemoveDone,
      RemoveMissing, RemoveStarts, DeinstallFails, RemoveFromDepends,
      RemovePkgDirectory, dbvars
<1> QED BY <1>3, <1>4

\* "rebuild" gives each file back to the package that had it.
LEMMA AdminStepIntact ==
    ASSUME ControlInv, StackInv, DirsInv, OwnerInv, DoneInv, PresentInv,
           AdminInv, FilesInv, AdminStep
    PROVE  FilesIntact' /\ Reindexed'
<1>0. /\ DbTypeOK /\ done \subseteq Package /\ done \subseteq contents
      /\ apc # "none" /\ task.pc = "none" /\ dpc = "none"
      /\ OwnerInstalled /\ IndexInv
      /\ UNCHANGED <<done, disk>>
  BY StepsOfTheRunning, AdminStepDone
  DEF ControlInv, TypeOK, DbTypeOK, OneProgram, DoneInv, OwnerInv, AdminInv
<1>1. \A q \in done : \A f \in Files[q] :
          /\ disk[f] = q /\ f \in File /\ q # None
          /\ apc # "rebuild" \/ q \notin atodo => byfile[f] = q
  BY <1>0, PkgDbAssumption DEF FilesInv, FilesIntact, Reindexed
<1>2. contents \subseteq done BY <1>0, RemovalsOfInstalled DEF FilesInv
<1>3. ASSUME NEW p \in Package, RebuildAdd(p)
      PROVE  FilesIntact' /\ Reindexed'
  <2>1. /\ apc = "rebuild" /\ apc' = apc /\ atodo' = atodo \ {p}
        /\ \A f \in File : byfile'[f] =
               IF f \in Files[p] /\ disk[f] # None /\ byfile[f] = None
               THEN p ELSE byfile[f]
    BY <1>3 DEF RebuildAdd
  <2>2. ASSUME NEW q \in done \ (atodo \ {p}), NEW f \in Files[q]
        PROVE  byfile'[f] = q
    <3>1. CASE q = p
      <4>1. CASE byfile[f] = None BY <1>1, <2>1, <2>2, <3>1, <4>1
      <4>2. CASE byfile[f] # None
        <5>1. byfile[f] \in done /\ f \in Files[byfile[f]]
          BY <1>0, <1>1, <1>2, <2>2, <4>2 DEF OwnerInstalled
        <5>2. disk[f] = byfile[f] /\ disk[f] = q BY <1>1, <2>2, <5>1
        <5> QED BY <1>1, <2>1, <2>2, <4>2, <5>2
      <4> QED BY <4>1, <4>2
    <3>2. CASE q # p BY <1>1, <2>1, <2>2, <3>2
    <3> QED BY <3>1, <3>2
  <2> QED BY <1>0, <1>1, <2>1, <2>2 DEF FilesIntact, Reindexed
<1>4. ASSUME NEW p \in Package, RebuildAborts(p)
      PROVE  FilesIntact' /\ Reindexed'
  BY <1>0, <1>4 DEF RebuildAborts, IndexInv
<1>5. ASSUME NEW p \in Package, RemoveRequiredBy(p) \/ WriteRequiredBy(p)
      PROVE  FilesIntact' /\ Reindexed'
  BY <1>0, <1>1, <1>5
  DEF RemoveRequiredBy, WriteRequiredBy, FilesIntact, Reindexed
<1>6. CASE RebuildDone \/ RemovedRequiredBy \/ RebuildTreeDone
  <2>1. /\ apc' # "rebuild" /\ byfile' = byfile
        /\ apc = "rebuild" => atodo = {}
    BY <1>6 DEF RebuildDone, RemovedRequiredBy, RebuildTreeDone, AdmExit, dbvars
  <2> QED BY <1>0, <1>1, <2>1 DEF FilesIntact, Reindexed
<1> QED BY <1>3, <1>4, <1>5, <1>6 DEF AdminStep

LEMMA FilesInit == Init => FilesInv
<1> SUFFICES ASSUME Init PROVE FilesInv OBVIOUS
<1>1. Waiting = {} BY EmptyStack DEF Init, AddInit
<1>2. /\ task = NoTask /\ addopts = {} /\ dpc = "none" /\ apc = "none"
      /\ done = {}
  BY DEF Init, DbInit, AddInit, DelInit, AdmInit
<1> QED BY <1>1, <1>2
        DEF FilesInv, ForceAdd, RemovingInstalled, StoredInv, Whole, Moving,
            FilesFree, PastCheck, Reindexed, FilesIntact, NoTask

LEMMA FilesStep ==
    ASSUME "torn" \notin Faults, "crash" \notin Faults, NoForcedAdd,
           NEW Under \in [Package -> SUBSET Package], NoLateOverlap(Under),
           ControlInv, StackInv, DirsInv, OwnerInv, DoneInv, PresentInv,
           AdminInv, UnderInv(Under), FilesInv, [Next]_vars
    PROVE  FilesInv'
<1>0. /\ ~ForceAdd /\ StoredInv /\ FilesFree /\ Reindexed /\ FilesIntact
      /\ RemovingInstalled' /\ OneProgram
  BY RemovingStep DEF FilesInv, ControlInv
\* The call stack stays, and no package is installed.
<1>S. ASSUME UNCHANGED addvars, task.pc = "none", done' \subseteq done
      PROVE  ~ForceAdd' /\ StoredInv' /\ FilesFree'
  <2>1. (Waiting \cup {task})' = Waiting \cup {task}
    BY <1>S DEF addvars, Waiting
  <2>2. task' = task /\ addopts' = addopts BY <1>S DEF addvars
  <2> QED BY <1>0, <1>S, <2>1, <2>2
          DEF StoredInv, FilesFree, ForceAdd, Whole, Moving, PastCheck
<1>1. CASE UserAdd
  <2>1. PICK p \in Package, opts \in AddOptions : AddCommand(p, opts)
    BY <1>1 DEF UserAdd
  <2>2. ~ForceAdd' BY <2>1 DEF AddCommand, NoForcedAdd, ForceAdd
  <2>3. Waiting' = {} BY <2>1, RestStack DEF AddCommand
  <2>4. task' = NewTask(p, "A" \in opts) /\ UNCHANGED dbvars /\ apc' = "none"
    BY <1>1, <2>1 DEF AddCommand, UserAdd, Idle, admvars
  <2>5. StoredInv' /\ FilesFree'
    BY <2>3, <2>4 DEF StoredInv, FilesFree, NewTask, PastCheck
  <2>6. apc = "none" /\ UNCHANGED <<done, disk, byfile>>
    BY <1>1, <2>4 DEF UserAdd, Idle, dbvars
  <2>7. Reindexed' /\ FilesIntact'
    BY <1>0, <2>4, <2>6 DEF Reindexed, FilesIntact
  <2> QED BY <1>0, <2>2, <2>5, <2>7 DEF FilesInv
<1>2. CASE UserDelete
  <2>1. task.pc = "none" /\ UNCHANGED <<addvars, apc, atodo, done, disk, byfile>>
    BY <1>2 DEF UserDelete, Idle, DeleteCommand, dbvars, admvars
  <2>2. Reindexed' /\ FilesIntact'
    BY <1>0, <2>1 DEF Reindexed, FilesIntact
  <2> QED BY <1>0, <1>S, <2>1, <2>2 DEF FilesInv
<1>3. CASE UserAdmin
  <2>1. /\ task.pc = "none" /\ UNCHANGED <<addvars, done, disk>>
        /\ apc = "none" /\ done \subseteq pkgdir
    BY <1>3 DEF UserAdmin, Idle, RebuildCommand, RebuildTreeCommand,
                SetAutomatic, dbvars, DoneInv, DirsInv
  <2>2. CASE RebuildCommand
    BY <1>0, <1>S, <2>1, <2>2
    DEF RebuildCommand, FilesInv, Reindexed, FilesIntact
  <2>3. CASE ~RebuildCommand
    <3>1. apc' # "rebuild" /\ byfile' = byfile
      BY <1>3, <2>1, <2>3
      DEF UserAdmin, RebuildTreeCommand, SetAutomatic, dbvars, admvars
    <3>2. Reindexed' /\ FilesIntact'
      BY <1>0, <2>1, <3>1 DEF Reindexed, FilesIntact
    <3> QED BY <1>0, <1>S, <2>1, <3>2 DEF FilesInv
  <2> QED BY <2>2, <2>3
<1>4. CASE AddStep /\ UNCHANGED admvars
  <2>1. ~ForceAdd' BY <1>0, <1>4, AddOptsFixed DEF ForceAdd
  <2>2. apc' # "rebuild"
    BY <1>0, <1>4, StepsOfTheRunning DEF OneProgram, admvars
  <2> QED BY <1>0, <1>4, <2>1, <2>2, AddStepStored, AddStepFree, AddStepIntact
          DEF FilesInv, Reindexed
<1>5. CASE DeleteStep /\ UNCHANGED <<addvars, admvars>>
  <2>1. task.pc = "none" /\ apc = "none" /\ apc' = apc
    BY <1>0, <1>5, StepsOfTheRunning DEF OneProgram, admvars
  <2>2. done' \subseteq done
    BY <1>5, DeleteStepDone DEF ControlInv, TypeOK, DoneInv
  <2>3. Reindexed' BY <2>1 DEF Reindexed
  <2> QED BY <1>0, <1>5, <1>S, <2>1, <2>2, <2>3, DeleteStepIntact DEF FilesInv
<1>6. CASE AdminStep /\ UNCHANGED addvars
  <2>1. task.pc = "none" /\ done' \subseteq done
    BY <1>0, <1>6, StepsOfTheRunning, AdminStepDone DEF OneProgram
  <2> QED BY <1>0, <1>6, <1>S, <2>1, AdminStepIntact DEF FilesInv
<1>7. ~Crash BY DEF Crash
<1>8. CASE UNCHANGED vars
  BY <1>0, <1>8
  DEF vars, dbvars, addvars, admvars, FilesInv, ForceAdd, StoredInv, Whole,
      Moving, FilesFree, PastCheck, Waiting, Reindexed, FilesIntact
<1> QED BY <1>1, <1>2, <1>3, <1>4, <1>5, <1>6, <1>7, <1>8 DEF Next, Tools

\* Neither a failed installation being undone nor the removal of another
\* package, forced or not, takes a file of a package installed to its end
\* (delete_package() goes by the names of +CONTENTS, lib/plist.c), as long as
\* robotpkg_add -f does not overrule the check of the file index and no
\* package that is installed while another one's call waits shares a file
\* with it: that check is made before the dependencies are installed.
THEOREM FilesIntactCorrect ==
    ASSUME "torn" \notin Faults, "crash" \notin Faults, NoForcedAdd,
           NEW Under \in [Package -> SUBSET Package], CoversDeps(Under),
           NoLateOverlap(Under)
    PROVE  Spec => []FilesIntact
<1> DEFINE IInv == /\ ControlInv /\ StackInv /\ DirsInv /\ OwnerInv /\ DoneInv
                   /\ PresentInv /\ AdminInv /\ UnderInv(Under) /\ FilesInv
<1>1. Init => IInv
  BY ControlInit, OwnerInit, DoneInit, PresentInit, AdminInit, UnderInit,
     FilesInit
<1>2. IInv /\ [Next]_vars => IInv'
  BY ControlStep, OwnerStep, DoneStep, PresentStep, AdminInvStep, UnderStep,
     FilesStep
<1>3. IInv => FilesIntact BY DEF FilesInv
<1> QED BY <1>1, <1>2, <1>3, PTL DEF Spec
=============================================================================
