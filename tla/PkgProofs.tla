------------------------------- MODULE PkgProofs -------------------------------
(****************************************************************************)
(* Proofs about PkgTools, by the invariant of PkgInv: the types, the        *)
(* control of the programs, the call stack of robotpkg_add, and, as long as *)
(* no interruption leaves a directory without +CONTENTS ("torn"), that the  *)
(* file index names installed packages only, whatever fails and wherever a  *)
(* program is interrupted, that every line of a +REQUIRED_BY file is one    *)
(* remove_depend() will find again, and that robotpkg_delete without -f     *)
(* removes dependents first, when the user forces no dependents' check (-D, *)
(* -f) and skips no preserved package (-k).                                 *)
(****************************************************************************)
EXTENDS PkgInv, SequenceTheorems, TLAPS

-----------------------------------------------------------------------------
(* Sequences, as the call stack and the list of packages to delete use them. *)

\* Popping the last element leaves the others in place.
LEMMA PopLast ==
    ASSUME NEW S, NEW s \in Seq(S), s # <<>>
    PROVE  /\ Len(s) \in Nat \ {0}
           /\ s[Len(s)] \in S
           /\ SubSeq(s, 1, Len(s) - 1) \in Seq(S)
           /\ Len(SubSeq(s, 1, Len(s) - 1)) = Len(s) - 1
           /\ \A i \in 1..(Len(s) - 1) : SubSeq(s, 1, Len(s) - 1)[i] = s[i]
<1>1. Len(s) \in Nat \ {0} BY EmptySeq
<1>2. \A i \in 1..Len(s) : s[i] \in S BY ElementOfSeq
<1>3. \A i \in 1..(Len(s) - 1) : s[i] \in S BY <1>1, <1>2
<1> DEFINE n == Len(s) - 1
           t == SubSeq(s, 1, n)
<1>4. n \in Nat /\ 1..n \subseteq 1..Len(s) BY <1>1
<1>5. 1 \in Int /\ n \in Int /\ \A i \in 1..n : s[i] \in S BY <1>3, <1>4
<1>6. /\ t \in Seq(S)
      /\ Len(t) = IF 1 <= n THEN n - 1 + 1 ELSE 0
      /\ \A i \in 1..(n - 1 + 1) : t[i] = s[1 + i - 1]
  <2> HIDE DEF n
  <2> QED BY <1>5, SubSeqProperties
<1>7. Len(t) = n
  <2> HIDE DEF n, t
  <2> QED BY <1>4, <1>6
<1>8. \A i \in 1..n : t[i] = s[i]
  <2> HIDE DEF n, t
  <2>1. n - 1 + 1 = n /\ \A i \in 1..n : 1 + i - 1 = i BY <1>4
  <2> QED BY <1>6, <2>1
<1>9. s[Len(s)] \in S BY <1>1, <1>2
<1> QED BY <1>1, <1>6, <1>7, <1>8, <1>9

\* Dropping one element leaves a sequence over the same set.
LEMMA DropOne ==
    ASSUME NEW S, NEW s \in Seq(S), NEW i \in 1..Len(s)
    PROVE  SubSeq(s, 1, i - 1) \o SubSeq(s, i + 1, Len(s)) \in Seq(S)
<1>1. Len(s) \in Nat /\ \A j \in 1..Len(s) : s[j] \in S
  BY LenProperties, ElementOfSeq
<1>2. /\ \A j \in 1..(i - 1) : s[j] \in S
      /\ \A j \in (i + 1)..Len(s) : s[j] \in S
      /\ 1 \in Int /\ i - 1 \in Int /\ i + 1 \in Int /\ Len(s) \in Int
  BY <1>1
<1>3. SubSeq(s, 1, i - 1) \in Seq(S) BY <1>2, SubSeqProperties
<1>4. SubSeq(s, i + 1, Len(s)) \in Seq(S) BY <1>2, SubSeqProperties
<1> QED BY <1>3, <1>4, ConcatProperties

-----------------------------------------------------------------------------
(* Control of robotpkg_add: moving on, returning, exiting, calling.         *)

LEMMA NoTaskOK == TaskOK(NoTask) /\ NoTask.pc = "none"
BY PkgDbAssumption DEF TaskOK, NoTask, Task, PC, Moving

LEMMA NewTaskOK ==
    ASSUME NEW p \in Package, NEW auto \in BOOLEAN
    PROVE  TaskOK(NewTask(p, auto)) /\ NewTask(p, auto).pc = "check"
BY PkgDbAssumption DEF TaskOK, NewTask, Task, PC, Moving

\* Moving on keeps everything about the task but where it is.
LEMMA GotoControl ==
    ASSUME AddControl, task.pc # "none", NEW pc \in PC \ {"none"}, Goto(pc),
           pc \in Moving => task.other # None
    PROVE  AddControl' /\ task' = [task EXCEPT !.pc = pc]
<1>1. TaskOK([task EXCEPT !.pc = pc])
  BY DEF AddControl, AddTypeOK, TaskOK, Task
<1>2. [task EXCEPT !.pc = pc] \in Task /\ [task EXCEPT !.pc = pc].pc = pc
  BY DEF AddControl, AddTypeOK, Task
<1>3. UNCHANGED <<callers, ret, addopts>> /\ task' = [task EXCEPT !.pc = pc]
  BY DEF Goto
<1> QED BY <1>1, <1>2, <1>3 DEF AddControl, AddTypeOK, CallersOK, TaskOK

LEMMA ExitControl ==
    ASSUME AddControl, NEW status \in {"ok", "fail"}, Exit(status)
    PROVE  AddControl' /\ task'.pc = "none"
<1>1. task' = NoTask /\ callers' = <<>> /\ ret' = status /\ addopts' = addopts
  BY DEF Exit
<1>2. callers' \in Seq(Task) /\ Len(callers') = 0 BY <1>1, EmptySeq
<1>3. NoTask \in Task BY NoTaskOK DEF TaskOK
<1> QED BY <1>1, <1>2, <1>3, NoTaskOK
        DEF AddControl, AddTypeOK, CallersOK, TaskOK

\* A return resumes the caller, which waits in check_dependencies().
LEMMA ReturnControl ==
    ASSUME AddControl, NEW status \in {"ok", "fail"}, Return(status)
    PROVE  /\ AddControl'
           /\ callers = <<>> => task' = NoTask /\ callers' = <<>>
           /\ callers # <<>> =>
                  /\ task' = callers[Len(callers)] /\ Len(callers) \in Nat \ {0}
                  /\ Len(callers') = Len(callers) - 1
                  /\ \A i \in 1..Len(callers') : callers'[i] = callers[i]
<1>1. ret' = status /\ addopts' = addopts BY DEF Return
<1>2. callers \in Seq(Task) BY DEF AddControl, AddTypeOK
<1>3. CASE callers = <<>>
  <2>1. Exit(status) BY <1>1, <1>3 DEF Return, Exit
  <2>2. AddControl' BY <2>1, ExitControl
  <2> QED BY <1>3, <2>1, <2>2 DEF Exit
<1>4. CASE callers # <<>>
  <2>1. /\ task' = callers[Len(callers)]
        /\ callers' = SubSeq(callers, 1, Len(callers) - 1)
    BY <1>4 DEF Return
  <2>2. /\ Len(callers) \in Nat \ {0}
        /\ callers' \in Seq(Task)
        /\ Len(callers') = Len(callers) - 1
        /\ \A i \in 1..(Len(callers) - 1) : callers'[i] = callers[i]
    BY <1>2, <1>4, <2>1, PopLast
  <2>3. Len(callers) \in 1..Len(callers) BY <2>2
  <2>4. TaskOK(task)' /\ task'.pc = "deps" /\ task' \in Task
    BY <2>1, <2>3 DEF AddControl, CallersOK, TaskOK
  <2>5. \A i \in 1..Len(callers') : TaskOK(callers'[i]) /\ callers'[i].pc = "deps"
    BY <2>2 DEF AddControl, CallersOK
  <2>6. TaskOK(task') BY <2>4 DEF TaskOK
  <2> QED BY <1>1, <1>4, <2>1, <2>2, <2>4, <2>5
          DEF AddControl, AddTypeOK, CallersOK, TaskOK
<1> QED BY <1>3, <1>4

\* The running call waits and a new one starts.
LEMMA CallControl ==
    ASSUME AddControl, NEW t, TaskOK(t), t.pc = "deps", NEW q \in Package,
           callers' = Append(callers, t), task' = NewTask(q, TRUE),
           UNCHANGED <<ret, addopts>>
    PROVE  /\ AddControl'
           /\ Len(callers) \in Nat /\ Len(callers') = Len(callers) + 1
           /\ \A i \in 1..Len(callers) : callers'[i] = callers[i]
           /\ callers'[Len(callers')] = t
<1>1. TaskOK(task') /\ task'.pc = "check" /\ task' \in Task
  BY NewTaskOK DEF TaskOK
<1>2. callers \in Seq(Task) /\ t \in Task
  BY DEF AddControl, AddTypeOK, TaskOK
<1>3. /\ callers' \in Seq(Task)
      /\ Len(callers') = Len(callers) + 1
      /\ \A i \in 1..Len(callers) : callers'[i] = callers[i]
      /\ callers'[Len(callers) + 1] = t
      /\ Len(callers) \in Nat
  BY <1>2, AppendProperties, LenProperties
<1>4. \A i \in 1..Len(callers') : TaskOK(callers'[i]) /\ callers'[i].pc = "deps"
  <2>1. SUFFICES ASSUME NEW i \in 1..Len(callers')
                 PROVE  TaskOK(callers'[i]) /\ callers'[i].pc = "deps"
    OBVIOUS
  <2>2. CASE i \in 1..Len(callers)
    BY <1>3, <2>2 DEF AddControl, CallersOK
  <2>3. CASE i = Len(callers) + 1
    BY <1>3, <2>3
  <2> QED BY <1>3, <2>2, <2>3
<1> QED BY <1>1, <1>3, <1>4 DEF AddControl, AddTypeOK, CallersOK, TaskOK

\* Every step of robotpkg_add leaves well formed tasks.
LEMMA AddStepControl ==
    ASSUME DbTypeOK, AddControl, AddStep
    PROVE  AddControl'
<1> USE DEF PC, Moving
<1>0. /\ task \in Task /\ callers \in Seq(Task) /\ TaskOK(task)
      /\ task.pc # "none" => task.pkg \in Package
  BY DEF AddControl, AddTypeOK, TaskOK, Task
<1>1. CASE AlreadyInstalled
  BY <1>1, ReturnControl DEF AlreadyInstalled
<1>2. CASE CheckRefuses
  BY <1>2, ReturnControl DEF CheckRefuses
<1>3. CASE CheckAborts
  BY <1>3, ExitControl DEF CheckAborts
<1>4. CASE CheckPasses
  <2>1. PICK o \in Package \cup {None} :
            task' = [task EXCEPT !.other = o,
                                 !.pc = IF o = None THEN "deps" ELSE "mkdir"]
    BY <1>4 DEF CheckPasses
  <2>2. task.pc = "check" /\ UNCHANGED <<callers, ret, addopts>>
    BY <1>4 DEF CheckPasses
  <2>3. TaskOK(task') /\ task'.pc # "none" /\ task' \in Task
    BY <1>0, <2>1, <2>2 DEF TaskOK, Task
  <2> QED BY <2>2, <2>3 DEF AddControl, AddTypeOK, CallersOK, TaskOK
<1>5. ASSUME NEW d \in Pattern, DepPresent(d) PROVE AddControl'
  <2>1. /\ task' = [task EXCEPT !.todo = @ \ {d}] /\ task.pc = "deps"
        /\ UNCHANGED <<callers, ret, addopts>>
    BY <1>5 DEF DepPresent
  <2>2. TaskOK(task') /\ task'.pc # "none" /\ task' \in Task
    BY <1>0, <2>1 DEF TaskOK, Task
  <2> QED BY <2>1, <2>2 DEF AddControl, AddTypeOK, CallersOK, TaskOK
<1>6. ASSUME NEW d \in Pattern, DepInstall(d) PROVE AddControl'
  <2> DEFINE t == [task EXCEPT !.todo = @ \ {d}]
  <2>1. PICK q \in Package : /\ callers' = Append(callers, t)
                             /\ task' = NewTask(q, TRUE)
    BY <1>6 DEF DepInstall
  <2>2. task.pc = "deps" /\ UNCHANGED <<ret, addopts>>
    BY <1>6 DEF DepInstall
  <2>3. TaskOK(t) /\ t.pc = "deps"
    BY <1>0, <2>2 DEF TaskOK, Task
  <2> HIDE DEF t
  <2> QED BY <2>1, <2>2, <2>3, CallControl
<1>7. ASSUME DepsFail, task.pc = "deps" PROVE AddControl'
  BY <1>7, ReturnControl, GotoControl DEF DepsFail
<1>8. ASSUME NEW d \in Pattern, DepNoArchive(d) PROVE AddControl'
  <2>1. CASE ForceAdd
    <3>1. /\ task' = [task EXCEPT !.todo = @ \ {d}] /\ task.pc = "deps"
          /\ UNCHANGED <<callers, ret, addopts>>
      BY <1>8, <2>1 DEF DepNoArchive, ForceAdd
    <3>2. TaskOK(task') /\ task'.pc # "none" /\ task' \in Task
      BY <1>0, <3>1 DEF TaskOK, Task
    <3> QED BY <3>1, <3>2 DEF AddControl, AddTypeOK, CallersOK, TaskOK
  <2>2. CASE ~ForceAdd
    BY <1>7, <1>8, <2>2 DEF DepNoArchive
  <2> QED BY <2>1, <2>2
<1>9. CASE DepReturned
  <2>1. task.pc = "deps" BY <1>9 DEF DepReturned
  <2>2. CASE ret = "fail" /\ ~ForceAdd /\ Replacing
    <3>1. /\ task' = [task EXCEPT !.pc = "nukepkgdb"] /\ ret' = "none"
          /\ UNCHANGED <<callers, addopts>>
      BY <1>9, <2>2 DEF DepReturned
    <3>2. TaskOK(task') /\ task'.pc # "none" /\ task' \in Task
      BY <1>0, <2>1, <3>1 DEF TaskOK, Task
    <3> QED BY <3>1, <3>2 DEF AddControl, AddTypeOK, CallersOK, TaskOK
  <2>3. CASE ret = "fail" /\ ~ForceAdd /\ ~Replacing
    BY <1>9, <2>3, ReturnControl DEF DepReturned
  <2>4. CASE ~(ret = "fail" /\ ~ForceAdd)
    <3>1. ret' = "none" /\ UNCHANGED <<task, callers, addopts>>
      BY <1>9, <2>4 DEF DepReturned, ForceAdd
    <3> QED BY <3>1 DEF AddControl, AddTypeOK, CallersOK, TaskOK
  <2> QED BY <2>2, <2>3, <2>4
<1>10. CASE DepsResolved
  <2>1. task.pc = "deps" BY <1>10 DEF DepsResolved
  <2>2. CASE \E d \in Deps[task.pkg] : Providers(d) = {}
    BY <1>7, <1>10, <2>1, <2>2 DEF DepsResolved
  <2>3. CASE ~\E d \in Deps[task.pkg] : Providers(d) = {}
    <3>1. PICK best \in [Deps[task.pkg] -> Package] :
              /\ \A d \in Deps[task.pkg] : IsBest(best[d], Providers(d))
              /\ task' = [task EXCEPT
                            !.deps = {best[d] : d \in Deps[task.pkg]},
                            !.pc = IF Replacing THEN "pre" ELSE "mkdir"]
      BY <1>10, <2>3 DEF DepsResolved
    <3>2. UNCHANGED <<callers, ret, addopts>>
      BY <1>10, <2>3 DEF DepsResolved
    <3> DEFINE D == {best[d] : d \in Deps[task.pkg]}
    <3>3. D \in SUBSET Package
          /\ \A q \in D : \E d \in Deps[task.pkg] : q \in Matches[d]
      BY <3>1 DEF IsBest, Providers
    <3>4. PICK pc \in {"pre", "mkdir"} :
              task' = [task EXCEPT !.deps = D, !.pc = pc]
      BY <3>1
    <3> HIDE DEF D
    <3>5. TaskOK(task') /\ task'.pc # "none" /\ task' \in Task
      BY <1>0, <2>1, <3>3, <3>4 DEF TaskOK, Task
    <3> QED BY <3>2, <3>5 DEF AddControl, AddTypeOK, CallersOK, TaskOK
  <2> QED BY <2>2, <2>3
<1>11. CASE MakeDirectory BY <1>11, GotoControl DEF MakeDirectory
<1>12. CASE WriteMetaData
  <2>1. task.pc = "meta" /\ Goto(IF Replacing THEN "move" ELSE "pre")
    BY <1>12 DEF WriteMetaData
  <2>2. CASE Replacing BY <2>1, <2>2, GotoControl DEF Replacing
  <2>3. CASE ~Replacing BY <2>1, <2>3, GotoControl
  <2> QED BY <2>2, <2>3
<1>13. CASE WriteMetaDataFails BY <1>13, GotoControl DEF WriteMetaDataFails
<1>14. CASE MoveRequiredBy BY <1>0, <1>14, GotoControl DEF MoveRequiredBy, TaskOK
<1>15. CASE MoveMarks BY <1>0, <1>15, GotoControl DEF MoveMarks, TaskOK
<1>16. CASE MoveFails BY <1>16, GotoControl DEF MoveFails
<1>17. CASE DeleteOldFails BY <1>17, GotoControl DEF DeleteOldFails
<1>18. CASE DeleteOldStarts
  BY <1>0, <1>18, GotoControl DEF DeleteOldStarts, TaskOK
<1>19. CASE DeleteOldFiles BY <1>0, <1>19, GotoControl DEF DeleteOldFiles, TaskOK
<1>20. CASE DeleteOldDepends
  BY <1>0, <1>20, GotoControl DEF DeleteOldDepends, TaskOK
<1>21. CASE DeleteOldDirectory BY <1>21, GotoControl DEF DeleteOldDirectory
<1>22. CASE PreInstall BY <1>22, GotoControl DEF PreInstall
<1>23. ASSUME NEW f \in File, ExtractFile(f) PROVE AddControl'
  <2>1. /\ task' = [task EXCEPT !.files = @ \ {f}] /\ task.pc = "extract"
        /\ UNCHANGED <<callers, ret, addopts>>
    BY <1>23 DEF ExtractFile
  <2>2. TaskOK(task') /\ task'.pc # "none" /\ task' \in Task
    BY <1>0, <2>1 DEF TaskOK, Task
  <2> QED BY <2>1, <2>2 DEF AddControl, AddTypeOK, CallersOK, TaskOK
<1>24. ASSUME NEW f \in File, ExtractFails(f) PROVE AddControl'
  BY <1>24, GotoControl DEF ExtractFails
<1>25. CASE Extracted BY <1>25, GotoControl DEF Extracted
<1>26. CASE PostInstall BY <1>26, GotoControl DEF PostInstall
<1>27. ASSUME NEW q \in Package, RegisterDepend(q) PROVE AddControl'
  <2>1. /\ task' = [task EXCEPT !.deps = @ \ {q}] /\ task.pc = "register"
        /\ UNCHANGED <<callers, ret, addopts>>
    BY <1>27 DEF RegisterDepend
  <2>2. TaskOK(task') /\ task'.pc # "none" /\ task' \in Task
    BY <1>0, <2>1 DEF TaskOK, Task
  <2> QED BY <2>1, <2>2 DEF AddControl, AddTypeOK, CallersOK, TaskOK
<1>28. CASE Installed BY <1>28, ReturnControl DEF Installed
<1>29. CASE NukePackage BY <1>29, GotoControl DEF NukePackage
<1>30. CASE NukeDirectory BY <1>30, ReturnControl DEF NukeDirectory
<1> QED
  BY <1>1, <1>2, <1>3, <1>4, <1>5, <1>6, <1>8, <1>9, <1>10, <1>11, <1>12,
     <1>13, <1>14, <1>15, <1>16, <1>17, <1>18, <1>19, <1>20, <1>21, <1>22,
     <1>23, <1>24, <1>25, <1>26, <1>27, <1>28, <1>29, <1>30
  DEF AddStep

-----------------------------------------------------------------------------
(* Types of the database.                                                   *)

LEMMA DeletePackageTypes ==
    ASSUME DbTypeOK, NEW p, NEW k, NEW force, DeletePackage(p, k, force)
    PROVE  /\ byfile' \in [File -> Package \cup {None}]
           /\ disk' \in [File -> Package \cup {None, Partial}]
BY DEF DbTypeOK, DeletePackage

LEMMA RemoveDependsTypes ==
    ASSUME DbTypeOK, NEW p \in Package, NEW mayFail, RemoveDepends(p, mayFail)
    PROVE  requiredBy' \in [Package -> SUBSET Package] /\ stale' \subseteq Package
BY DEF DbTypeOK, RemoveDepends, WithoutLines

LEMMA RemoveDirectoryTypes ==
    ASSUME DbTypeOK, NEW p, NEW lost \in SUBSET Package,
           RemoveDirectory(p, lost), UNCHANGED <<byfile, disk>>
    PROVE  DbTypeOK'
BY DEF DbTypeOK, RemoveDirectory

\* Every step of robotpkg_add leaves a database of the right type.
LEMMA AddStepTypes ==
    ASSUME DbTypeOK, AddControl, AddStep
    PROVE  DbTypeOK'
<1> USE DEF PC, Moving
<1>0. /\ task.pc # "none" => task.pkg \in Package
      /\ task.pc \in Moving => task.other \in Package
      /\ task.pc # "none" => task.files \subseteq File
  BY DEF AddControl, AddTypeOK, TaskOK, Task
<1>1. CASE UNCHANGED dbvars
  BY <1>1 DEF DbTypeOK, dbvars
<1>2. CASE \/ CheckRefuses \/ CheckAborts \/ CheckPasses
           \/ \E d \in Pattern : DepPresent(d) \/ DepInstall(d) \/ DepNoArchive(d)
           \/ DepReturned \/ DepsResolved
           \/ MoveFails \/ DeleteOldFails \/ DeleteOldStarts
           \/ PreInstall \/ Extracted
  <2>1. UNCHANGED dbvars
    BY <1>2 DEF CheckRefuses, CheckAborts, CheckPasses, DepPresent, DepInstall,
                DepNoArchive, DepReturned, DepsResolved, MoveFails,
                DeleteOldFails, DeleteOldStarts, PreInstall, Extracted
  <2> QED BY <1>1, <2>1
<1>3. CASE AlreadyInstalled
  BY <1>0, <1>3 DEF AlreadyInstalled, MarkAutomatic, DbTypeOK
<1>4. CASE MakeDirectory
  BY <1>0, <1>4 DEF MakeDirectory, DbTypeOK
<1>5. CASE WriteMetaData
  BY <1>0, <1>5 DEF WriteMetaData, DbTypeOK
<1>6. CASE WriteMetaDataFails
  BY <1>0, <1>6 DEF WriteMetaDataFails, DbTypeOK
<1>7. CASE MoveRequiredBy
  <2>1. task.pkg \in Package /\ task.other \in Package
    BY <1>0, <1>7 DEF MoveRequiredBy
  <2>2. requiredBy' \in [Package -> SUBSET Package]
    <3>1. CASE UNCHANGED requiredBy BY <3>1 DEF DbTypeOK
    <3>2. CASE requiredBy' = [p \in Package |->
                            CASE p = task.pkg   -> requiredBy[task.other]
                              [] p = task.other -> {}
                              [] OTHER          -> requiredBy[p]]
      BY <2>1, <3>2 DEF DbTypeOK
    <3> QED BY <1>7, <3>1, <3>2 DEF MoveRequiredBy
  <2> QED BY <1>7, <2>2 DEF MoveRequiredBy, DbTypeOK
<1>8. CASE MoveMarks
  BY <1>0, <1>8 DEF MoveMarks, Moved, DbTypeOK
<1>9. CASE DeleteOldFiles
  <2>1. DeletePackage(task.other, FALSE, FALSE) BY <1>9 DEF DeleteOldFiles
  <2>2. /\ byfile' \in [File -> Package \cup {None}]
        /\ disk' \in [File -> Package \cup {None, Partial}]
    BY <2>1, DeletePackageTypes
  <2> QED BY <1>9, <2>2 DEF DeleteOldFiles, DbTypeOK
<1>10. CASE DeleteOldDepends
  <2>1. requiredBy' \in [Package -> SUBSET Package] /\ stale' \subseteq Package
    BY <1>0, <1>10, RemoveDependsTypes DEF DeleteOldDepends
  <2> QED BY <1>10, <2>1 DEF DeleteOldDepends, DbTypeOK
<1>11. CASE DeleteOldDirectory
  BY <1>11, RemoveDirectoryTypes DEF DeleteOldDirectory
<1>12. ASSUME NEW f \in File, ExtractFile(f) PROVE DbTypeOK'
  BY <1>0, <1>12 DEF ExtractFile, Store, DbTypeOK
<1>13. ASSUME NEW f \in File, ExtractFails(f) PROVE DbTypeOK'
  BY <1>0, <1>13 DEF ExtractFails, Store, DbTypeOK
<1>14. CASE PostInstall
  BY <1>0, <1>14 DEF PostInstall, MarkAutomatic, DbTypeOK
<1>15. ASSUME NEW q \in Package, RegisterDepend(q) PROVE DbTypeOK'
  BY <1>0, <1>15 DEF RegisterDepend, DbTypeOK
<1>16. CASE Installed
  BY <1>0, <1>16 DEF Installed, DbTypeOK
<1>17. CASE NukePackage
  <2>1. /\ byfile' \in [File -> Package \cup {None}]
        /\ disk' \in [File -> Package \cup {None, Partial}]
    BY <1>17, DeletePackageTypes DEF NukePackage
  <2> QED BY <1>17, <2>1 DEF NukePackage, DbTypeOK
<1>18. CASE NukeDirectory
  <2>1. requiredBy[task.pkg] \in SUBSET Package
    BY <1>0, <1>18 DEF NukeDirectory, DbTypeOK
  <2> QED BY <1>18, <2>1, RemoveDirectoryTypes DEF NukeDirectory
<1> QED
  BY <1>2, <1>3, <1>4, <1>5, <1>6, <1>7, <1>8, <1>9, <1>10, <1>11, <1>12,
     <1>13, <1>14, <1>15, <1>16, <1>17, <1>18
  DEF AddStep

-----------------------------------------------------------------------------
(* robotpkg_delete and robotpkg_admin.                                      *)

\* While packages are being removed, the list is not empty.
LEMMA DeleteStepTypes ==
    ASSUME DbTypeOK, DelControl, DeleteStep
    PROVE  DbTypeOK' /\ DelControl'
<1>0. /\ sorted \in Seq(Package) /\ pkgs \subseteq Package
      /\ requiredBy \in [Package -> SUBSET Package]
  BY DEF DelControl, DelTypeOK, DbTypeOK
<1>00. \A p \in Package : Append(sorted, p) \in Seq(Package)
  BY <1>0, AppendProperties
<1>1. CASE \E p \in Package : SortMove(p) \/ SortForced(p)
  <2>1. PICK p \in Package : /\ pkgs' = pkgs \ {p} /\ sorted' = Append(sorted, p)
                             /\ UNCHANGED <<dpc, delopts, dbvars>>
                             /\ dpc \in {"sort", "forced"}
    BY <1>1 DEF SortMove, SortForced
  <2> QED BY <1>0, <1>00, <2>1 DEF DelControl, DelTypeOK, DbTypeOK, dbvars
<1>2. ASSUME NEW p \in Package, SortRecurse(p) PROVE DbTypeOK' /\ DelControl'
  BY <1>0, <1>2
  DEF SortRecurse, Missing, DelControl, DelTypeOK, DbTypeOK, dbvars
<1>3. ASSUME NEW p \in Package, AddLeaf(p) PROVE DbTypeOK' /\ DelControl'
  BY <1>0, <1>00, <1>3 DEF AddLeaf, DelControl, DelTypeOK, DbTypeOK, dbvars
<1>4. ASSUME NEW i \in DOMAIN sorted, DropPreserved(i)
      PROVE  DbTypeOK' /\ DelControl'
  <2>1. i \in 1..Len(sorted) BY <1>0, <1>4, LenProperties
  <2>2. sorted' \in Seq(Package)
    BY <1>0, <1>4, <2>1, DropOne DEF DropPreserved
  <2> QED BY <1>4, <2>2
          DEF DropPreserved, DelControl, DelTypeOK, DbTypeOK, dbvars
<1>5. ASSUME DelExit PROVE DelControl'
  <2>1. <<>> \in Seq(Package) BY EmptySeq
  <2> QED BY <1>5, <2>1 DEF DelExit, DelControl, DelTypeOK
<1>6. ASSUME NEW pc \in {"forced", "leaves", "preserve", "remove"}, DelGoto(pc)
      PROVE  DelControl'
  BY <1>6 DEF DelGoto, DelControl, DelTypeOK
<1>7. CASE \/ SortStuck \/ SortDone \/ LeavesDone \/ CheckPreserve
           \/ RemoveDone \/ DeinstallFails
  <2>1. UNCHANGED dbvars
    BY <1>7 DEF SortStuck, SortDone, LeavesDone, CheckPreserve, RemoveDone,
                DeinstallFails
  <2>2. DelControl'
    BY <1>5, <1>6, <1>7 DEF SortStuck, SortDone, LeavesDone, CheckPreserve,
                            RemoveDone, DeinstallFails
  <2> QED BY <2>1, <2>2 DEF DbTypeOK, dbvars
<1>8. ASSUME sorted # <<>>
      PROVE  sorted[1] \in Package /\ Tail(sorted) \in Seq(Package)
  <2>1. 1 \in 1..Len(sorted) BY <1>0, <1>8, EmptySeq
  <2> QED BY <1>0, <1>8, <2>1, HeadTailProperties, ElementOfSeq
<1>9. CASE RemoveMissing
  <2>1. UNCHANGED dbvars /\ sorted # <<>> /\ dpc = "remove"
    BY <1>9 DEF RemoveMissing
  <2>2. CASE Forced
    BY <1>8, <1>9, <2>1, <2>2
    DEF RemoveMissing, Forced, DelControl, DelTypeOK, DbTypeOK, dbvars
  <2>3. CASE ~Forced
    BY <1>5, <1>9, <2>1, <2>3 DEF RemoveMissing, Forced, DbTypeOK, dbvars
  <2> QED BY <2>2, <2>3
<1>10. CASE RemoveStarts
  BY <1>10 DEF RemoveStarts, DelGoto, DelControl, DelTypeOK, DbTypeOK, dbvars
<1>11. CASE RemoveFiles
  <2>1. /\ byfile' \in [File -> Package \cup {None}]
        /\ disk' \in [File -> Package \cup {None, Partial}]
    BY <1>11, DeletePackageTypes DEF RemoveFiles
  <2> QED BY <1>11, <2>1 DEF RemoveFiles, DelGoto, DelControl, DelTypeOK, DbTypeOK
<1>12. CASE RemoveFromDepends
  <2>1. Victim \in Package
    BY <1>8, <1>12 DEF RemoveFromDepends, DelControl, Victim
  <2>2. requiredBy' \in [Package -> SUBSET Package] /\ stale' \subseteq Package
    BY <1>12, <2>1, RemoveDependsTypes DEF RemoveFromDepends
  <2> QED BY <1>12, <2>2
          DEF RemoveFromDepends, DelGoto, DelControl, DelTypeOK, DbTypeOK
<1>13. CASE RemovePkgDirectory
  <2>1. sorted # <<>> BY <1>13 DEF RemovePkgDirectory, DelControl
  <2>2. requiredBy[Victim] \in SUBSET Package BY <1>0, <1>8, <2>1 DEF Victim
  <2>3. DbTypeOK'
    BY <1>13, <2>2, RemoveDirectoryTypes DEF RemovePkgDirectory
  <2>4. DelControl'
    BY <1>5, <1>8, <1>13, <2>1 DEF RemovePkgDirectory, DelControl, DelTypeOK
  <2> QED BY <2>3, <2>4
<1> QED
  BY <1>1, <1>2, <1>3, <1>4, <1>7, <1>9, <1>10, <1>11, <1>12, <1>13
  DEF DeleteStep

LEMMA AdminStepTypes ==
    ASSUME DbTypeOK, AdmTypeOK, AdminStep
    PROVE  DbTypeOK' /\ AdmTypeOK'
<1>1. ASSUME NEW p \in Package, RebuildAdd(p) PROVE DbTypeOK' /\ AdmTypeOK'
  BY <1>1 DEF RebuildAdd, DbTypeOK, AdmTypeOK
<1>2. ASSUME NEW p \in Package, RebuildAborts(p) PROVE DbTypeOK' /\ AdmTypeOK'
  BY <1>2 DEF RebuildAborts, AdmExit, NoTree, DbTypeOK, AdmTypeOK, dbvars
<1>3. ASSUME NEW p \in Package, RemoveRequiredBy(p)
      PROVE  DbTypeOK' /\ AdmTypeOK'
  BY <1>3 DEF RemoveRequiredBy, DbTypeOK, AdmTypeOK
<1>4. ASSUME NEW p \in Package, WriteRequiredBy(p)
      PROVE  DbTypeOK' /\ AdmTypeOK'
  BY <1>4 DEF WriteRequiredBy, DbTypeOK, AdmTypeOK
<1>5. CASE RebuildDone
  BY <1>5 DEF RebuildDone, AdmExit, NoTree, DbTypeOK, AdmTypeOK, dbvars
<1>6. CASE RemovedRequiredBy
  BY <1>6 DEF RemovedRequiredBy, DbTypeOK, AdmTypeOK, dbvars
<1>7. CASE RebuildTreeDone
  BY <1>7 DEF RebuildTreeDone, AdmExit, NoTree, DbTypeOK, AdmTypeOK
<1> QED BY <1>1, <1>2, <1>3, <1>4, <1>5, <1>6, <1>7 DEF AdminStep

-----------------------------------------------------------------------------
(* The user's commands and interruptions.                                   *)

\* A step of a program is one of the program that runs.
LEMMA StepsOfTheRunning ==
    /\ AddStep => task.pc # "none"
    /\ DeleteStep => dpc # "none"
    /\ AdminStep => apc # "none"
<1>1. AddStep => task.pc # "none"
  BY DEF AddStep, AlreadyInstalled, CheckRefuses, CheckAborts, CheckPasses,
         DepPresent, DepInstall, DepNoArchive, DepReturned, DepsResolved,
         MakeDirectory, WriteMetaData, WriteMetaDataFails, MoveRequiredBy,
         MoveMarks, MoveFails, DeleteOldFails, DeleteOldStarts, DeleteOldFiles,
         DeleteOldDepends, DeleteOldDirectory, PreInstall, ExtractFile,
         ExtractFails, Extracted, PostInstall, RegisterDepend, Installed,
         NukePackage, NukeDirectory
<1>2. DeleteStep => dpc # "none"
  BY DEF DeleteStep, SortMove, SortRecurse, SortForced, AddLeaf, DropPreserved,
         SortStuck, SortDone, LeavesDone, CheckPreserve, RemoveDone,
         RemoveMissing, RemoveStarts, DeinstallFails, RemoveFiles,
         RemoveFromDepends, RemovePkgDirectory
<1>3. AdminStep => apc # "none"
  BY DEF AdminStep, RebuildAdd, RebuildAborts, RemoveRequiredBy,
         WriteRequiredBy, RebuildDone, RemovedRequiredBy, RebuildTreeDone
<1> QED BY <1>1, <1>2, <1>3

LEMMA UserAddControl ==
    ASSUME ControlInv, UserAdd
    PROVE  ControlInv'
<1>1. PICK p \in Package, opts \in AddOptions : AddCommand(p, opts)
  BY DEF UserAdd
<1>2. p \in Package /\ opts \subseteq {"A", "u", "D", "f"}
  BY PkgAddAssumption, PkgToolsAssumption
<1>3. TaskOK(NewTask(p, "A" \in opts)) /\ NewTask(p, "A" \in opts) \in Task
  <2>1. ("A" \in opts) \in BOOLEAN OBVIOUS
  <2>2. TaskOK(NewTask(p, "A" \in opts)) BY <1>2, <2>1, NewTaskOK, Zenon
  <2> QED BY <2>2 DEF TaskOK
<1>4. /\ task' = NewTask(p, "A" \in opts) /\ callers' = <<>>
      /\ ret' = "none" /\ addopts' = opts /\ UNCHANGED dbvars
  BY <1>1 DEF AddCommand
<1>5. callers' \in Seq(Task) /\ Len(callers') = 0 BY <1>4, EmptySeq
<1>6. AddControl'
  BY <1>2, <1>3, <1>4, <1>5 DEF AddControl, AddTypeOK, CallersOK, TaskOK
<1>7. UNCHANGED <<delvars, admvars>> /\ dpc = "none" /\ apc = "none"
  BY DEF UserAdd, Idle
<1> QED BY <1>4, <1>6, <1>7
        DEF ControlInv, TypeOK, AddControl, DelControl, OneProgram, DbTypeOK,
            DelTypeOK, AdmTypeOK, dbvars, delvars, admvars

LEMMA UserDeleteControl ==
    ASSUME ControlInv, UserDelete
    PROVE  ControlInv'
<1>1. PICK S \in SUBSET contents, opts \in DeleteOptions : DeleteCommand(S, opts)
  BY DEF UserDelete
<1>2. /\ S \subseteq Package
      /\ opts \subseteq {"r", "R", "A", "k", "f", "ff", "N"}
  BY PkgToolsAssumption DEF ControlInv, TypeOK, DbTypeOK
<1>3. /\ dpc' = "sort" /\ pkgs' = S /\ sorted' = <<>> /\ delopts' = opts
      /\ UNCHANGED dbvars
  BY <1>1 DEF DeleteCommand
<1>4. sorted' \in Seq(Package) BY <1>3, EmptySeq
<1>5. UNCHANGED <<addvars, admvars>> /\ task.pc = "none" /\ apc = "none"
  BY DEF UserDelete, Idle
<1>6. DelControl' BY <1>2, <1>3, <1>4 DEF DelControl, DelTypeOK
<1>7. AddControl'
  BY <1>5 DEF ControlInv, AddControl, AddTypeOK, CallersOK, TaskOK, addvars
<1> QED BY <1>3, <1>5, <1>6, <1>7
        DEF ControlInv, TypeOK, AddControl, DelControl, OneProgram, DbTypeOK,
            AdmTypeOK, dbvars, addvars, admvars

LEMMA UserAdminControl ==
    ASSUME ControlInv, UserAdmin
    PROVE  ControlInv'
<1>1. UNCHANGED <<addvars, delvars>> /\ task.pc = "none" /\ dpc = "none"
  BY DEF UserAdmin, Idle
<1>2. DbTypeOK' /\ AdmTypeOK'
  <2>1. CASE RebuildCommand
    BY <2>1 DEF ControlInv, TypeOK, RebuildCommand, DbTypeOK, AdmTypeOK
  <2>2. CASE RebuildTreeCommand
    <3>1. PICK best : tree' = ForwardDepends(best)
      BY <2>2 DEF RebuildTreeCommand
    <3>2. tree' \in [Package -> SUBSET Package]
      BY <3>1 DEF ForwardDepends, ControlInv, TypeOK, DbTypeOK
    <3> QED BY <2>2, <3>2
            DEF ControlInv, TypeOK, RebuildTreeCommand, DbTypeOK, AdmTypeOK, dbvars
  <2>3. ASSUME NEW p \in Package, NEW yes \in BOOLEAN, SetAutomatic(p, yes)
        PROVE  DbTypeOK' /\ AdmTypeOK'
    BY <2>3 DEF ControlInv, TypeOK, SetAutomatic, MarkAutomatic, DbTypeOK,
            AdmTypeOK, admvars
  <2> QED BY <2>1, <2>2, <2>3 DEF UserAdmin
<1>3. AddControl' /\ DelControl'
  BY <1>1 DEF ControlInv, AddControl, AddTypeOK, CallersOK, TaskOK, addvars,
              DelControl, DelTypeOK, delvars
<1> QED BY <1>1, <1>2, <1>3
        DEF ControlInv, TypeOK, AddControl, DelControl, OneProgram, addvars, delvars

LEMMA ToolsControl ==
    ASSUME ControlInv, Tools
    PROVE  ControlInv'
<1>1. DbTypeOK /\ AddControl /\ DelControl /\ AdmTypeOK /\ OneProgram
  BY DEF ControlInv, TypeOK
<1>2. CASE AddStep /\ UNCHANGED <<delvars, admvars>>
  <2>1. DbTypeOK' /\ AddControl' /\ task.pc # "none"
    BY <1>1, <1>2, AddStepTypes, AddStepControl, StepsOfTheRunning
  <2>2. DelControl' /\ AdmTypeOK' /\ OneProgram'
    BY <1>1, <1>2, <2>1
    DEF OneProgram, DelControl, DelTypeOK, AdmTypeOK, delvars, admvars
  <2> QED BY <2>1, <2>2 DEF ControlInv, TypeOK, AddControl, DelControl
<1>3. CASE DeleteStep /\ UNCHANGED <<addvars, admvars>>
  <2>1. DbTypeOK' /\ DelControl' /\ dpc # "none"
    BY <1>1, <1>3, DeleteStepTypes, StepsOfTheRunning
  <2>2. AddControl' /\ AdmTypeOK' /\ OneProgram'
    BY <1>1, <1>3, <2>1
    DEF OneProgram, AddControl, AddTypeOK, CallersOK, TaskOK, AdmTypeOK,
        addvars, admvars
  <2> QED BY <2>1, <2>2 DEF ControlInv, TypeOK, AddControl, DelControl
<1>4. CASE AdminStep /\ UNCHANGED <<addvars, delvars>>
  <2>1. DbTypeOK' /\ AdmTypeOK' /\ apc # "none"
    BY <1>1, <1>4, AdminStepTypes, StepsOfTheRunning
  <2>2. AddControl' /\ DelControl' /\ OneProgram'
    BY <1>1, <1>4, <2>1
    DEF OneProgram, AddControl, AddTypeOK, CallersOK, TaskOK, DelControl,
        DelTypeOK, addvars, delvars
  <2> QED BY <2>1, <2>2 DEF ControlInv, TypeOK, AddControl, DelControl
<1> QED BY <1>2, <1>3, <1>4 DEF Tools

\* An interruption leaves a database of the right type.
LEMMA CrashTypes ==
    ASSUME ControlInv, Crash
    PROVE  DbTypeOK'
<1>0. /\ DbTypeOK
      /\ task.pc # "none" => task.pkg \in Package
  BY DEF ControlInv, TypeOK, AddControl, AddTypeOK, TaskOK, Task
<1>1. CASE CrashBetween BY <1>0, <1>1 DEF CrashBetween, DbTypeOK, dbvars
<1>2. CASE CrashWriting BY <1>0, <1>2 DEF CrashWriting, DbTypeOK
<1>3. CASE CrashExtracting
  <2>1. byfile' \in [File -> Package \cup {None}]
    BY <1>0, <1>3 DEF CrashExtracting, DbTypeOK
  <2>2. disk' \in [File -> Package \cup {None, Partial}]
    BY <1>0, <1>3 DEF CrashExtracting, DbTypeOK
  <2> QED BY <1>0, <1>3, <2>1, <2>2 DEF CrashExtracting, DbTypeOK
<1>4. ASSUME NEW p \in Package, CrashDeleting(p) PROVE DbTypeOK'
  BY <1>0, <1>4 DEF CrashDeleting, DbTypeOK
<1>5. ASSUME NEW p \in Package, CrashUnregistering(p) PROVE DbTypeOK'
  BY <1>0, <1>5 DEF CrashUnregistering, DbTypeOK
<1>6. ASSUME NEW p \in Package, CrashRemovingDirectory(p) PROVE DbTypeOK'
  BY <1>0, <1>6 DEF CrashRemovingDirectory, DbTypeOK
<1> QED BY <1>1, <1>2, <1>3, <1>4, <1>5, <1>6 DEF Crash

LEMMA CrashControl ==
    ASSUME ControlInv, Crash
    PROVE  ControlInv'
<1>1. DbTypeOK' BY CrashTypes
<1>2. Exit("fail") /\ DelExit /\ AdmExit BY DEF Crash
<1>3. AddControl' /\ task'.pc = "none"
  BY <1>2, ExitControl DEF ControlInv
<1>4. DelControl' /\ dpc' = "none"
  <2>1. <<>> \in Seq(Package) BY EmptySeq
  <2> QED BY <1>2, <2>1 DEF ControlInv, DelExit, DelControl, DelTypeOK
<1>5. AdmTypeOK' /\ apc' = "none"
  BY <1>2 DEF AdmExit, AdmTypeOK, NoTree
<1> QED BY <1>1, <1>3, <1>4, <1>5
        DEF ControlInv, TypeOK, AddControl, DelControl, OneProgram

-----------------------------------------------------------------------------
(* Type correctness.                                                        *)

LEMMA ControlInit == Init => ControlInv
<1> SUFFICES ASSUME Init PROVE ControlInv OBVIOUS
<1> USE DEF Init
<1>1. DbTypeOK BY DEF DbInit, DbTypeOK
<1>2. <<>> \in Seq(Task) /\ <<>> \in Seq(Package) /\ Len(<<>>) = 0 BY EmptySeq
<1>3. AddControl /\ task.pc = "none"
  BY <1>2, NoTaskOK DEF AddInit, AddControl, AddTypeOK, CallersOK, TaskOK
<1>4. DelControl /\ dpc = "none" BY <1>2 DEF DelInit, DelControl, DelTypeOK
<1>5. AdmTypeOK /\ apc = "none" BY DEF AdmInit, AdmTypeOK, NoTree
<1> QED BY <1>1, <1>3, <1>4, <1>5
        DEF ControlInv, TypeOK, AddControl, DelControl, OneProgram

LEMMA ControlStep == ControlInv /\ [Next]_vars => ControlInv'
<1> SUFFICES ASSUME ControlInv, [Next]_vars PROVE ControlInv' OBVIOUS
<1>1. CASE UNCHANGED vars
  BY <1>1 DEF ControlInv, TypeOK, DbTypeOK, AddControl, AddTypeOK, TaskOK,
              CallersOK, DelControl, DelTypeOK, AdmTypeOK, OneProgram, vars,
              dbvars, addvars, delvars, admvars
<1> QED BY <1>1, UserAddControl, UserDeleteControl, UserAdminControl,
           ToolsControl, CrashControl DEF Next

\* At most one program works on the database at a time, a call of pkg_do()
\* waits only in check_dependencies(), and a replacing call knows the version
\* it replaces (perform.c:1210-1235, 1328-1362).
THEOREM ControlCorrect == Spec => []ControlInv
<1> QED BY ControlInit, ControlStep, PTL DEF Spec

\* The state of every reachable database and program has its type.
THEOREM TypeCorrect == Spec => []TypeOK
<1>1. ControlInv => TypeOK BY DEF ControlInv
<1> QED BY <1>1, ControlCorrect, PTL

-----------------------------------------------------------------------------
(* The call stack.                                                          *)

\* What a step of robotpkg_add does to its control state.
LEMMA AddMoves ==
    ASSUME AddControl, AddStep
    PROVE  \/ /\ callers' = callers /\ task'.pkg = task.pkg
              /\ task'.other = task.other
           \/ CheckPasses
           \/ Return("ok") \/ Return("fail") \/ Exit("fail")
           \/ \E d \in Pattern : DepInstall(d)
<1>0. task \in Task BY DEF AddControl, AddTypeOK
<1>1. ASSUME NEW pc \in PC, Goto(pc)
      PROVE  /\ callers' = callers /\ task'.pkg = task.pkg
             /\ task'.other = task.other
  BY <1>0, <1>1 DEF Goto, Task
<1>2. CASE AlreadyInstalled \/ Installed
  BY <1>2 DEF AlreadyInstalled, Installed
<1>3. CASE CheckRefuses \/ CheckAborts \/ NukeDirectory
  BY <1>3 DEF CheckRefuses, CheckAborts, NukeDirectory
<1>4. ASSUME DepsFail
      PROVE  \/ /\ callers' = callers /\ task'.pkg = task.pkg
                /\ task'.other = task.other
             \/ Return("fail")
  BY <1>1, <1>4 DEF DepsFail, PC
<1>5. ASSUME NEW d \in Pattern, DepPresent(d) \/ DepNoArchive(d)
      PROVE  \/ /\ callers' = callers /\ task'.pkg = task.pkg
                /\ task'.other = task.other
             \/ Return("fail")
  <2>1. CASE DepsFail BY <1>4, <2>1
  <2>2. CASE ~DepsFail
    <3>1. callers' = callers /\ task' = [task EXCEPT !.todo = @ \ {d}]
      BY <1>5, <2>2 DEF DepPresent, DepNoArchive, ForceAdd
    <3> QED BY <1>0, <3>1 DEF Task
  <2> QED BY <2>1, <2>2
<1>6. CASE DepReturned
  <2>1. CASE Return("fail") BY <2>1
  <2>2. CASE ~Return("fail")
    <3>1. /\ callers' = callers
          /\ task' = task \/ task' = [task EXCEPT !.pc = "nukepkgdb"]
      BY <1>6, <2>2 DEF DepReturned, ForceAdd, Replacing
    <3> QED BY <1>0, <3>1 DEF Task
  <2> QED BY <2>1, <2>2
<1>7. CASE DepsResolved
  <2>1. CASE DepsFail BY <1>4, <2>1
  <2>2. CASE ~DepsFail
    <3>1. /\ callers' = callers
          /\ \E D, pc : task' = [task EXCEPT !.deps = D, !.pc = pc]
      BY <1>7, <2>2 DEF DepsResolved
    <3> QED BY <1>0, <3>1 DEF Task
  <2> QED BY <2>1, <2>2
<1>8. CASE \/ MakeDirectory \/ WriteMetaData \/ WriteMetaDataFails
           \/ MoveRequiredBy \/ MoveMarks \/ MoveFails
  BY <1>1, <1>8 DEF MakeDirectory, WriteMetaData, WriteMetaDataFails,
                    MoveRequiredBy, MoveMarks, MoveFails, PC
<1>9. CASE \/ DeleteOldFails \/ DeleteOldStarts \/ DeleteOldFiles
           \/ DeleteOldDepends \/ DeleteOldDirectory \/ PreInstall
  BY <1>1, <1>9 DEF DeleteOldFails, DeleteOldStarts, DeleteOldFiles,
                    DeleteOldDepends, DeleteOldDirectory, PreInstall, PC
<1>10. ASSUME NEW f \in File, ExtractFile(f) \/ ExtractFails(f)
       PROVE  /\ callers' = callers /\ task'.pkg = task.pkg
              /\ task'.other = task.other
  <2>1. CASE ExtractFile(f) BY <1>0, <2>1 DEF ExtractFile, Task
  <2>2. CASE ExtractFails(f) BY <1>1, <2>2 DEF ExtractFails, PC
  <2> QED BY <1>10, <2>1, <2>2
<1>11. ASSUME NEW q \in Package, RegisterDepend(q)
       PROVE  /\ callers' = callers /\ task'.pkg = task.pkg
              /\ task'.other = task.other
  BY <1>0, <1>11 DEF RegisterDepend, Task
<1>12. CASE Extracted \/ PostInstall \/ NukePackage
  BY <1>1, <1>12 DEF Extracted, PostInstall, NukePackage, PC
<1> QED BY <1>2, <1>3, <1>5, <1>6, <1>7, <1>8, <1>9, <1>10, <1>11, <1>12
        DEF AddStep

\* A return takes a call off the stack.
LEMMA ReturnWaiting ==
    ASSUME AddControl, NEW status \in {"ok", "fail"}, Return(status)
    PROVE  /\ Waiting' \subseteq Waiting
           /\ \/ task' = NoTask /\ Waiting' = {}
              \/ task' \in Waiting
<1>1. /\ callers = <<>> => task' = NoTask /\ callers' = <<>>
      /\ callers # <<>> =>
             /\ task' = callers[Len(callers)] /\ Len(callers) \in Nat \ {0}
             /\ Len(callers') = Len(callers) - 1
             /\ \A i \in 1..Len(callers') : callers'[i] = callers[i]
  BY ReturnControl
<1>2. CASE callers = <<>>
  <2>1. Len(callers') = 0 BY <1>1, <1>2, EmptySeq
  <2>2. Waiting' = {} BY <2>1 DEF Waiting
  <2> QED BY <1>1, <1>2, <2>2
<1>3. CASE callers # <<>>
  <2>1. Len(callers) \in 1..Len(callers) BY <1>1, <1>3
  <2>2. \A i \in 1..Len(callers') : i \in 1..Len(callers) BY <1>1, <1>3
  <2> QED BY <1>1, <1>3, <2>1, <2>2 DEF Waiting
<1> QED BY <1>2, <1>3

\* A call puts the calling task on it.
LEMMA CallWaiting ==
    ASSUME AddControl, NEW d \in Pattern, DepInstall(d)
    PROVE  \E q \in Package :
             /\ Level[q] < Level[task.pkg] /\ task.pkg \in Package
             /\ task.pc = "deps"
             /\ task' = NewTask(q, TRUE)
             /\ Waiting' = Waiting \cup {[task EXCEPT !.todo = @ \ {d}]}
             /\ Len(callers) \in Nat /\ Len(callers') = Len(callers) + 1
             /\ \A i \in 1..Len(callers) : callers'[i] = callers[i]
             /\ callers'[Len(callers')] = [task EXCEPT !.todo = @ \ {d}]
<1> DEFINE t == [task EXCEPT !.todo = @ \ {d}]
<1>1. PICK q \in Package : /\ IsBest(q, Matches[d] \cap Repo)
                           /\ callers' = Append(callers, t)
                           /\ task' = NewTask(q, TRUE)
  BY DEF DepInstall
<1>2. /\ task.pc = "deps" /\ UNCHANGED <<ret, addopts>> /\ d \in task.todo
      /\ task \in Task /\ TaskOK(task)
  BY DEF DepInstall, AddControl, AddTypeOK
<1>3. TaskOK(t) /\ t.pc = "deps" BY <1>2 DEF TaskOK, Task, Moving
<1>4. /\ Len(callers) \in Nat /\ Len(callers') = Len(callers) + 1
      /\ \A i \in 1..Len(callers) : callers'[i] = callers[i]
      /\ callers'[Len(callers')] = t
  <2> HIDE DEF t
  <2> QED BY <1>1, <1>2, <1>3, CallControl
<1>5. Waiting' = Waiting \cup {t}
  <2> HIDE DEF t
  <2>1. /\ 1..Len(callers') = 1..Len(callers) \cup {Len(callers')}
    BY <1>4
  <2> QED BY <1>4, <2>1 DEF Waiting
<1>6. task.pkg \in Package /\ d \in Deps[task.pkg] /\ q \in Matches[d]
  BY <1>1, <1>2 DEF TaskOK, Task, IsBest
<1>7. Level[q] < Level[task.pkg] BY <1>6, DependenciesAcyclic
<1>8. /\ Level[q] < Level[task.pkg] /\ task.pkg \in Package
      /\ task.pc = "deps" /\ task' = NewTask(q, TRUE)
  BY <1>1, <1>2, <1>6, <1>7
<1> HIDE DEF t
<1> QED BY <1>4, <1>5, <1>8 DEF t

\* The levels fall along the stack.
LEMMA StackLevels ==
    ASSUME AddControl, StackInv, NEW t \in Waiting
    PROVE  /\ task.pkg \in Package /\ t.pkg \in Package /\ t.pc = "deps"
           /\ t.pkg # task.pkg
           /\ task.other # None => t.pkg # task.other
<1>1. PICK i \in 1..Len(callers) : t = callers[i] BY DEF Waiting
<1>2. /\ TaskOK(t) /\ t.pc = "deps"
      /\ Level[task.pkg] < Level[t.pkg]
  BY <1>1 DEF AddControl, CallersOK, StackInv
<1>3. task.pc # "none" /\ TaskOK(task)
  <2>1. callers # <<>> BY <1>1, EmptySeq
  <2> QED BY <2>1 DEF AddControl, CallersOK
<1>4. /\ task.pkg \in Package /\ t.pkg \in Package
      /\ task.other \in Package \cup {None}
  BY <1>2, <1>3 DEF TaskOK, Task
<1>5. Level[task.pkg] \in Nat /\ Level[t.pkg] \in Nat
  BY <1>4, DependenciesAcyclic
<1>6. task.other # None => Level[task.other] = Level[task.pkg]
  BY <1>4, DependenciesAcyclic DEF StackInv, OtherOK
<1> QED BY <1>2, <1>4, <1>5, <1>6

LEMMA EmptyStack ==
    ASSUME callers = <<>>
    PROVE  Waiting = {} /\ 1..Len(callers) = {}
<1>1. Len(callers) = 0 BY EmptySeq
<1> QED BY <1>1 DEF Waiting

\* Between programs, and for a call that has just begun, there is no stack.
LEMMA StackStarts ==
    ASSUME callers' = <<>>, task'.other = None
    PROVE  StackInv'
<1>1. Len(callers') = 0 BY EmptySeq
<1> QED BY <1>1 DEF StackInv, Waiting, OtherOK

LEMMA AddStepStack ==
    ASSUME AddControl, StackInv, DirsInv, AddStep
    PROVE  StackInv'
<1>1. CASE callers' = callers /\ task'.pkg = task.pkg /\ task'.other = task.other
  BY <1>1 DEF StackInv, Waiting, OtherOK
<1>2. CASE CheckPasses
  <2>0. task \in Task /\ TaskOK(task) BY DEF AddControl, AddTypeOK
  <2>1. PICK o \in Package \cup {None} :
            /\ IsOther(o)
            /\ task' = [task EXCEPT !.other = o,
                                    !.pc = IF o = None THEN "deps" ELSE "mkdir"]
    BY <1>2 DEF CheckPasses
  <2>2. task.pc = "check" /\ task.pkg \notin contents /\ callers' = callers
    BY <1>2 DEF CheckPasses
  <2>3. task'.pkg = task.pkg /\ task'.other = o BY <2>0, <2>1 DEF Task
  <2>4. task.pkg \notin pkgdir BY <2>2 DEF DirsInv
  <2>5. o # None => o \in pkgdir /\ Base[o] = Base[task.pkg]
    BY <2>1 DEF IsOther, OtherVersions, IsBest
  <2>6. OtherOK(task') BY <2>3, <2>4, <2>5 DEF OtherOK
  <2> QED BY <2>2, <2>3, <2>6 DEF StackInv, Waiting, OtherOK
<1>3. ASSUME NEW status \in {"ok", "fail"}, Return(status) PROVE StackInv'
  <2>1. /\ callers = <<>> => task' = NoTask /\ callers' = <<>>
        /\ callers # <<>> =>
               /\ task' = callers[Len(callers)] /\ Len(callers) \in Nat \ {0}
               /\ Len(callers') = Len(callers) - 1
               /\ \A i \in 1..Len(callers') : callers'[i] = callers[i]
    BY <1>3, ReturnControl
  <2>2. CASE callers = <<>>
    BY <2>1, <2>2, StackStarts DEF NoTask
  <2>3. CASE callers # <<>>
    <3>1. Waiting' \subseteq Waiting /\ task' \in Waiting
      <4>1. Len(callers) \in 1..Len(callers) BY <2>1, <2>3
      <4>2. \A i \in 1..Len(callers') : i \in 1..Len(callers) BY <2>1, <2>3
      <4> QED BY <2>1, <2>3, <4>1, <4>2 DEF Waiting
    <3>2. \A t \in (Waiting \cup {task})' : OtherOK(t)
      BY <3>1 DEF StackInv
    <3>3. \A i \in 1..Len(callers') : /\ i \in 1..Len(callers)
                                      /\ Len(callers) \in 1..Len(callers)
                                      /\ i < Len(callers)
      BY <2>1, <2>3
    <3>4. \A i \in 1..Len(callers') : Level[task'.pkg] < Level[callers'[i].pkg]
      BY <2>1, <2>3, <3>3 DEF StackInv
    <3>5. \A i, j \in 1..Len(callers') :
              i < j => Level[callers'[j].pkg] < Level[callers'[i].pkg]
      BY <2>1, <2>3, <3>3 DEF StackInv
    <3> QED BY <3>2, <3>4, <3>5 DEF StackInv, OtherOK
  <2> QED BY <2>2, <2>3
<1>4. CASE Exit("fail")
  BY <1>4, StackStarts DEF Exit, NoTask
<1>5. ASSUME NEW d \in Pattern, DepInstall(d) PROVE StackInv'
  <2> DEFINE t == [task EXCEPT !.todo = @ \ {d}]
             n == Len(callers)
  <2>1. PICK q \in Package :
             /\ Level[q] < Level[task.pkg] /\ task.pkg \in Package
             /\ task' = NewTask(q, TRUE)
             /\ Waiting' = Waiting \cup {t}
             /\ n \in Nat /\ Len(callers') = n + 1
             /\ \A i \in 1..n : callers'[i] = callers[i]
             /\ callers'[Len(callers')] = t
    BY <1>5, CallWaiting
  <2>2. t.pkg = task.pkg /\ t.other = task.other
    BY DEF AddControl, AddTypeOK, Task
  <2> HIDE DEF t, n
  <2>3. task'.pkg = q /\ task'.other = None BY <2>1 DEF NewTask
  <2>4. \A s \in (Waiting \cup {task})' : OtherOK(s)
    <3>1. OtherOK(t) BY <2>2 DEF StackInv, OtherOK
    <3>2. OtherOK(task') BY <2>3 DEF OtherOK
    <3>3. \A s \in Waiting : OtherOK(s) BY DEF StackInv
    <3> QED BY <2>1, <3>1, <3>2, <3>3
  <2>5. \A i \in 1..Len(callers') :
            \/ i \in 1..n /\ callers'[i] = callers[i]
            \/ i = n + 1 /\ callers'[i] = t
    BY <2>1
  <2>6. \A i \in 1..n : /\ callers[i].pkg \in Package
                        /\ Level[task.pkg] < Level[callers[i].pkg]
    BY DEF n, AddControl, CallersOK, TaskOK, Task, StackInv
  <2>7. \A i \in 1..Len(callers') : Level[q] < Level[callers'[i].pkg]
    <3>1. SUFFICES ASSUME NEW i \in 1..Len(callers')
                   PROVE  Level[q] < Level[callers'[i].pkg]
      OBVIOUS
    <3>2. CASE callers'[i] = t BY <2>1, <2>2, <3>2
    <3>3. CASE i \in 1..n /\ callers'[i] = callers[i]
      <4>1. /\ Level[q] \in Nat /\ Level[task.pkg] \in Nat
            /\ Level[callers[i].pkg] \in Nat
        BY <2>1, <2>6, <3>3, DependenciesAcyclic
      <4> QED BY <2>1, <2>6, <3>3, <4>1
    <3> QED BY <2>5, <3>2, <3>3
  <2>8. \A i, j \in 1..Len(callers') :
            i < j => Level[callers'[j].pkg] < Level[callers'[i].pkg]
    <3>1. SUFFICES ASSUME NEW i \in 1..Len(callers'), NEW j \in 1..Len(callers'),
                          i < j
                   PROVE  Level[callers'[j].pkg] < Level[callers'[i].pkg]
      OBVIOUS
    <3>2. i \in 1..n /\ callers'[i] = callers[i] BY <2>1, <3>1
    <3>3. CASE callers'[j] = t BY <2>2, <2>6, <3>2, <3>3
    <3>4. CASE j \in 1..n /\ callers'[j] = callers[j]
      BY <3>1, <3>2, <3>4 DEF StackInv, n
    <3> QED BY <2>5, <3>3, <3>4
  <2> QED BY <2>3, <2>4, <2>7, <2>8 DEF StackInv, OtherOK
<1> QED BY <1>1, <1>2, <1>3, <1>4, <1>5, AddMoves

-----------------------------------------------------------------------------
(* The directories of the database.                                         *)

LEMMA ReturnPc ==
    ASSUME AddControl, NEW status \in {"ok", "fail"}, Return(status)
    PROVE  task'.pc \in {"none", "deps"}
<1>1. \A t \in Waiting : t.pc = "deps" BY DEF Waiting, AddControl, CallersOK
<1> QED BY <1>1, ReturnWaiting, NoTaskOK

\* The steps that write or remove no directory, nor work in an unfinished one.
LEMMA AddDirectories ==
    ASSUME AddControl, AddStep
    PROVE  \/ /\ UNCHANGED <<pkgdir, contents>>
              /\ task.pc \notin {"meta", "nukepkgdb"} /\ task'.pc # "meta"
           \/ MakeDirectory \/ WriteMetaData \/ WriteMetaDataFails
           \/ DeleteOldDirectory \/ NukeDirectory
<1> DEFINE Goal == /\ UNCHANGED <<pkgdir, contents>>
                   /\ task.pc \notin {"meta", "nukepkgdb"} /\ task'.pc # "meta"
<1>0. task \in Task BY DEF AddControl, AddTypeOK
<1>1. ASSUME NEW pc \in PC, Goto(pc) PROVE task'.pc = pc
  BY <1>0, <1>1 DEF Goto, Task
<1>2. CASE \/ AlreadyInstalled \/ CheckRefuses \/ Installed
  BY <1>2, ReturnPc DEF AlreadyInstalled, CheckRefuses, Installed, dbvars
<1>3. CASE CheckAborts
  BY <1>3, NoTaskOK DEF CheckAborts, Exit, dbvars
<1>4. CASE CheckPasses
  BY <1>0, <1>4 DEF CheckPasses, Task, dbvars
<1>5. ASSUME DepsFail PROVE task'.pc # "meta"
  BY <1>1, <1>5, ReturnPc DEF DepsFail, PC
<1>6. ASSUME NEW d \in Pattern, DepPresent(d) PROVE Goal
  BY <1>0, <1>6 DEF DepPresent, Task, dbvars
<1>7. ASSUME NEW d \in Pattern, DepInstall(d) PROVE Goal
  BY <1>7 DEF DepInstall, NewTask, dbvars
<1>8. ASSUME NEW d \in Pattern, DepNoArchive(d) PROVE Goal
  <2>1. task.pc = "deps" /\ UNCHANGED dbvars BY <1>8 DEF DepNoArchive
  <2>2. CASE DepsFail BY <1>5, <2>1, <2>2 DEF dbvars
  <2>3. CASE ~DepsFail
    BY <1>0, <1>8, <2>1, <2>3 DEF DepNoArchive, Task, dbvars
  <2> QED BY <2>2, <2>3
<1>9. CASE DepReturned
  <2>1. task.pc = "deps" /\ UNCHANGED dbvars BY <1>9 DEF DepReturned
  <2>2. CASE Return("fail") BY <2>1, <2>2, ReturnPc DEF dbvars
  <2>3. CASE ~Return("fail")
    <3>1. task' = task \/ task' = [task EXCEPT !.pc = "nukepkgdb"]
      BY <1>9, <2>3 DEF DepReturned
    <3> QED BY <1>0, <2>1, <3>1 DEF Task, dbvars
  <2> QED BY <2>2, <2>3
<1>10. CASE DepsResolved
  <2>1. task.pc = "deps" /\ UNCHANGED dbvars BY <1>10 DEF DepsResolved
  <2>2. CASE DepsFail BY <1>5, <2>1, <2>2 DEF dbvars
  <2>3. CASE ~DepsFail
    <3>1. PICK best \in [Deps[task.pkg] -> Package] :
              task' = [task EXCEPT !.deps = {best[d] : d \in Deps[task.pkg]},
                                   !.pc = IF Replacing THEN "pre" ELSE "mkdir"]
      BY <1>10, <2>3 DEF DepsResolved
    <3>2. task'.pc \in {"pre", "mkdir"} BY <1>0, <3>1 DEF Task
    <3> QED BY <2>1, <3>2 DEF dbvars
  <2> QED BY <2>2, <2>3
<1>11. CASE MoveRequiredBy \/ MoveMarks \/ MoveFails
  BY <1>1, <1>11 DEF MoveRequiredBy, MoveMarks, MoveFails, PC, dbvars
<1>12. CASE \/ DeleteOldFails \/ DeleteOldStarts \/ DeleteOldFiles
            \/ DeleteOldDepends \/ PreInstall
  BY <1>1, <1>12 DEF DeleteOldFails, DeleteOldStarts, DeleteOldFiles,
                     DeleteOldDepends, PreInstall, PC, dbvars
<1>13. ASSUME NEW f \in File, ExtractFile(f) \/ ExtractFails(f) PROVE Goal
  <2>1. CASE ExtractFile(f) BY <1>0, <2>1 DEF ExtractFile, Task
  <2>2. CASE ExtractFails(f) BY <1>1, <2>2 DEF ExtractFails, PC
  <2> QED BY <1>13, <2>1, <2>2
<1>14. ASSUME NEW q \in Package, RegisterDepend(q) PROVE Goal
  BY <1>0, <1>14 DEF RegisterDepend, Task
<1>15. CASE Extracted \/ PostInstall \/ NukePackage
  BY <1>1, <1>15 DEF Extracted, PostInstall, NukePackage, PC, dbvars
<1> QED BY <1>2, <1>3, <1>4, <1>6, <1>7, <1>8, <1>9, <1>10, <1>11, <1>12,
           <1>13, <1>14, <1>15 DEF AddStep

LEMMA AddStepDirs ==
    ASSUME AddControl, DirsInv, AddStep
    PROVE  DirsInv'
<1>0. task \in Task BY DEF AddControl, AddTypeOK
<1>1. ASSUME NEW pc \in PC, Goto(pc)
      PROVE  task'.pc = pc /\ task'.pkg = task.pkg
  BY <1>0, <1>1 DEF Goto, Task
<1>2. CASE /\ UNCHANGED <<pkgdir, contents>>
           /\ task.pc \notin {"meta", "nukepkgdb"} /\ task'.pc # "meta"
  BY <1>2 DEF DirsInv
<1>3. CASE MakeDirectory
  BY <1>1, <1>3 DEF MakeDirectory, PC, DirsInv
<1>4. CASE WriteMetaData
  <2>1. \E pc \in PC \ {"meta"} : Goto(pc)
    BY <1>4 DEF WriteMetaData, PC
  <2> QED BY <1>1, <1>4, <2>1 DEF WriteMetaData, DirsInv
<1>5. CASE WriteMetaDataFails
  BY <1>1, <1>5 DEF WriteMetaDataFails, PC, DirsInv
<1>6. CASE DeleteOldDirectory
  BY <1>1, <1>6 DEF DeleteOldDirectory, RemoveDirectory, PC, DirsInv
<1>7. CASE NukeDirectory
  BY <1>7, ReturnPc DEF NukeDirectory, RemoveDirectory, DirsInv
<1> QED BY <1>2, <1>3, <1>4, <1>5, <1>6, <1>7, AddDirectories

-----------------------------------------------------------------------------
(* The file index: what the steps of robotpkg_add do to it.                 *)

LEMMA AddIndexWrites ==
    ASSUME AddStep
    PROVE  \/ UNCHANGED <<contents, byfile>>
           \/ WriteMetaData \/ WriteMetaDataFails
           \/ DeleteOldFiles \/ DeleteOldDirectory
           \/ \E f \in File : ExtractFile(f) \/ ExtractFails(f)
           \/ NukePackage \/ NukeDirectory
<1>1. CASE AlreadyInstalled \/ CheckRefuses \/ CheckAborts \/ CheckPasses
  BY <1>1 DEF AlreadyInstalled, CheckRefuses, CheckAborts, CheckPasses, dbvars
<1>2. ASSUME NEW d \in Pattern, DepPresent(d) \/ DepInstall(d) \/ DepNoArchive(d)
      PROVE  UNCHANGED <<contents, byfile>>
  BY <1>2 DEF DepPresent, DepInstall, DepNoArchive, dbvars
<1>3. CASE DepReturned \/ DepsResolved \/ MakeDirectory \/ MoveRequiredBy
  BY <1>3 DEF DepReturned, DepsResolved, MakeDirectory, MoveRequiredBy, dbvars
<1>4. CASE MoveMarks \/ MoveFails \/ DeleteOldFails \/ DeleteOldStarts
  BY <1>4 DEF MoveMarks, MoveFails, DeleteOldFails, DeleteOldStarts, dbvars
<1>5. CASE DeleteOldDepends \/ PreInstall \/ Extracted \/ PostInstall \/ Installed
  BY <1>5 DEF DeleteOldDepends, PreInstall, Extracted, PostInstall, Installed,
              dbvars
<1>6. ASSUME NEW q \in Package, RegisterDepend(q)
      PROVE  UNCHANGED <<contents, byfile>>
  BY <1>6 DEF RegisterDepend
<1> QED BY <1>1, <1>2, <1>3, <1>4, <1>5, <1>6 DEF AddStep

\* delete_package() leaves no entry of the package, and makes none.
LEMMA DeletePackageIndex ==
    ASSUME DbTypeOK, OwnerInstalled, NEW p \in Package, NEW k, NEW force,
           DeletePackage(p, k, force)
    PROVE  /\ Unowned(p)'
           /\ \A q \in Package : Unowned(q) => Unowned(q)'
           /\ \A f \in File : byfile'[f] # None => byfile'[f] = byfile[f]
<1>1. \A f \in File : byfile'[f] = IF f \in Files[p] THEN None ELSE byfile[f]
  BY DEF DeletePackage
<1>2. None \notin Package BY PkgDbAssumption
<1> QED BY <1>1, <1>2 DEF Unowned, OwnerInstalled

\* pkgdb_store() makes entries of the package being installed only.
LEMMA StoreIndex ==
    ASSUME DbTypeOK, NEW f \in File, Store(f)
    PROVE  \A g \in File :
               \/ byfile'[g] = byfile[g]
               \/ g = f /\ byfile'[g] = task.pkg
BY DEF Store, DbTypeOK

\* A step of robotpkg_add leaves the packages it does not work on alone.
LEMMA AddStepFrame ==
    ASSUME DbTypeOK, AddControl, OwnerInstalled, AddStep,
           NEW p \in Package, p # task.pkg, p # task.other
    PROVE  /\ p \in contents => p \in contents'
           /\ Unowned(p) => Unowned(p)'
<1>0. /\ task.pc # "none" => task.pkg \in Package
      /\ task.pc \in Moving => task.other \in Package
  BY DEF AddControl, AddTypeOK, TaskOK, Task
<1>1. CASE UNCHANGED <<contents, byfile>> BY <1>1 DEF Unowned
<1>2. CASE WriteMetaData \/ WriteMetaDataFails
  BY <1>2 DEF WriteMetaData, WriteMetaDataFails, Unowned
<1>3. CASE DeleteOldFiles
  <2>1. task.other \in Package BY <1>0, <1>3 DEF DeleteOldFiles, Moving
  <2>2. Unowned(p) => Unowned(p)'
    BY <1>3, <2>1, DeletePackageIndex DEF DeleteOldFiles
  <2> QED BY <1>3, <2>2 DEF DeleteOldFiles
<1>4. CASE DeleteOldDirectory \/ NukeDirectory
  BY <1>4 DEF DeleteOldDirectory, NukeDirectory, RemoveDirectory, Unowned
<1>5. ASSUME NEW f \in File, ExtractFile(f) \/ ExtractFails(f)
      PROVE  contents' = contents /\ (Unowned(p) => Unowned(p)')
  <2>1. contents' = contents BY <1>5 DEF ExtractFile, ExtractFails
  <2>2. UNCHANGED byfile \/ Store(f) BY <1>5 DEF ExtractFile, ExtractFails
  <2> QED BY <2>1, <2>2, StoreIndex DEF Unowned
<1>6. CASE NukePackage
  <2>1. task.pkg \in Package BY <1>0, <1>6 DEF NukePackage
  <2>2. Unowned(p) => Unowned(p)'
    BY <1>6, <2>1, DeletePackageIndex DEF NukePackage
  <2> QED BY <1>6, <2>2 DEF NukePackage
<1> QED BY <1>1, <1>2, <1>3, <1>4, <1>5, <1>6, AddIndexWrites

\* Nothing a waiting call relies on changes under it.
LEMMA AddStepWaiting ==
    ASSUME DbTypeOK, AddControl, StackInv, OwnerInstalled, AddIndex, AddStep,
           NEW t \in Waiting
    PROVE  IndexOK(t)'
<1>1. t.pkg \in Package /\ t.pkg # task.pkg BY StackLevels
<1>2. t.pkg # task.other
  <2>1. None \notin Package BY PkgDbAssumption
  <2> QED BY <1>1, <2>1, StackLevels
<1>3. IndexOK(t) BY DEF AddIndex
<1>4. /\ t.pkg \in contents => t.pkg \in contents'
      /\ Unowned(t.pkg) => Unowned(t.pkg)'
  BY <1>1, <1>2, AddStepFrame
<1> QED BY <1>3, <1>4 DEF IndexOK, Described, NothingStored

LEMMA AddStepOwnerInstalled ==
    ASSUME DbTypeOK, AddControl, OwnerInstalled, AddIndex, AddStep
    PROVE  OwnerInstalled'
<1>0. /\ task.pc # "none" => task.pkg \in Package
      /\ task.pc # "none" => task.files \subseteq Files[task.pkg]
      /\ task.pc \in Moving => task.other \in Package
      /\ IndexOK(task)
  BY DEF AddControl, AddTypeOK, TaskOK, Task, AddIndex
<1>1. CASE UNCHANGED <<contents, byfile>> BY <1>1 DEF OwnerInstalled
<1>2. CASE WriteMetaData \/ WriteMetaDataFails
  BY <1>2 DEF WriteMetaData, WriteMetaDataFails, OwnerInstalled
<1>3. CASE DeleteOldFiles
  <2>1. task.other \in Package BY <1>0, <1>3 DEF DeleteOldFiles, Moving
  <2>2. \A f \in File : byfile'[f] # None => byfile'[f] = byfile[f]
    BY <1>3, <2>1, DeletePackageIndex DEF DeleteOldFiles
  <2> QED BY <1>3, <2>2 DEF DeleteOldFiles, OwnerInstalled
<1>4. CASE DeleteOldDirectory
  <2>1. Unowned(task.other) BY <1>4 DEF DeleteOldDirectory, AddIndex
  <2> QED BY <1>4, <2>1 DEF DeleteOldDirectory, RemoveDirectory, Unowned,
                            OwnerInstalled
<1>5. ASSUME NEW f \in File, ExtractFile(f) \/ ExtractFails(f)
      PROVE  OwnerInstalled'
  <2>1. contents' = contents /\ task.pc = "extract" /\ f \in task.files
    BY <1>5 DEF ExtractFile, ExtractFails
  <2>2. UNCHANGED byfile \/ Store(f) BY <1>5 DEF ExtractFile, ExtractFails
  <2>3. task.pkg \in contents /\ f \in Files[task.pkg]
    BY <1>0, <2>1 DEF IndexOK, Described
  <2> QED BY <2>1, <2>2, <2>3, StoreIndex DEF OwnerInstalled
<1>6. CASE NukePackage
  <2>1. task.pkg \in Package BY <1>0, <1>6 DEF NukePackage
  <2>2. \A f \in File : byfile'[f] # None => byfile'[f] = byfile[f]
    BY <1>6, <2>1, DeletePackageIndex DEF NukePackage
  <2> QED BY <1>6, <2>2 DEF NukePackage, OwnerInstalled
<1>7. CASE NukeDirectory
  <2>1. Unowned(task.pkg)
    BY <1>0, <1>7 DEF NukeDirectory, IndexOK, NothingStored
  <2> QED BY <1>7, <2>1 DEF NukeDirectory, RemoveDirectory, Unowned,
                            OwnerInstalled
<1> QED BY <1>1, <1>2, <1>3, <1>4, <1>5, <1>6, <1>7, AddIndexWrites

LEMMA AddStepIndex ==
    ASSUME DbTypeOK, AddControl, StackInv, OwnerInstalled, AddIndex, AddStep
    PROVE  AddIndex'
<1> USE DEF PC, Moving
<1>0. /\ task \in Task /\ TaskOK(task) /\ IndexOK(task)
      /\ task.pc # "none" => task.pkg \in Package
      /\ task.pc \in Moving => task.other \in Package
  BY DEF AddControl, AddTypeOK, TaskOK, Task, AddIndex
<1>W. \A t \in Waiting : IndexOK(t)' /\ t.pc = "deps"
  BY AddStepWaiting, StackLevels
<1>N. IndexOK(NoTask)' /\ NoTask.pc = "none"
  BY DEF IndexOK, Described, NothingStored, NoTask
<1>R. ASSUME NEW status \in {"ok", "fail"}, Return(status) PROVE AddIndex'
  <2>1. Waiting' \subseteq Waiting /\ (task' = NoTask \/ task' \in Waiting)
    BY <1>R, ReturnWaiting
  <2>2. IndexOK(task)' /\ task'.pc \notin {"dunreg", "drm"}
    BY <1>W, <1>N, <2>1 DEF IndexOK, Described, NothingStored
  <2>3. \A t \in Waiting' : IndexOK(t)' BY <1>W, <2>1
  <2> QED BY <2>2, <2>3 DEF AddIndex, IndexOK, Described, NothingStored
<1>S. ASSUME callers' = callers, IndexOK(task)',
             task'.pc \in {"dunreg", "drm"} => Unowned(task.other)'
      PROVE  AddIndex'
  BY <1>W, <1>S DEF AddIndex, Waiting, IndexOK, Described, NothingStored
<1>G. ASSUME NEW pc \in PC, Goto(pc)
      PROVE  /\ callers' = callers /\ task'.pc = pc
             /\ task'.pkg = task.pkg /\ task'.other = task.other
  BY <1>0, <1>G DEF Goto, Task
<1>K. ASSUME UNCHANGED <<contents, byfile>>, callers' = callers,
             task'.pkg = task.pkg, task'.other = task.other,
             Described(task') => Described(task),
             NothingStored(task') => NothingStored(task),
             task'.pc \in {"dunreg", "drm"} => task.pc \in {"dunreg", "drm"}
      PROVE  AddIndex'
  <2>1. IndexOK(task)' BY <1>0, <1>K DEF IndexOK, Described, NothingStored, Unowned
  <2>2. task'.pc \in {"dunreg", "drm"} => Unowned(task.other)'
    BY <1>K DEF AddIndex, Unowned
  <2> QED BY <1>K, <1>S, <2>1, <2>2
<1> USE DEF dbvars, Described, NothingStored
<1>1. CASE AlreadyInstalled \/ CheckRefuses \/ Installed \/ NukeDirectory
  BY <1>1, <1>R DEF AlreadyInstalled, CheckRefuses, Installed, NukeDirectory
<1>2. CASE CheckAborts
  <2>1. task' = NoTask /\ callers' = <<>> BY <1>2 DEF CheckAborts, Exit
  <2>2. Waiting' = {} BY <2>1, EmptySeq DEF Waiting
  <2> QED BY <1>N, <2>1, <2>2 DEF AddIndex, IndexOK
<1>3. CASE CheckPasses
  <2>1. PICK o \in Package \cup {None} :
            task' = [task EXCEPT !.other = o,
                                 !.pc = IF o = None THEN "deps" ELSE "mkdir"]
    BY <1>3 DEF CheckPasses
  <2>2. /\ task'.pkg = task.pkg /\ task'.other = o
        /\ task'.pc = IF o = None THEN "deps" ELSE "mkdir"
    BY <1>0, <2>1 DEF Task
  <2>3. /\ UNCHANGED <<contents, byfile>> /\ callers' = callers
        /\ task.pkg \notin contents /\ task.pc = "check"
    BY <1>3 DEF CheckPasses
  <2>4. Unowned(task.pkg)
    <3>1. task.pkg # None BY <1>0, <2>3, PkgDbAssumption
    <3> QED BY <2>3, <3>1 DEF OwnerInstalled, Unowned
  <2>5. IndexOK(task)' BY <2>2, <2>3, <2>4 DEF IndexOK, Unowned
  <2> QED BY <1>S, <2>2, <2>3, <2>5
<1>4. ASSUME NEW d \in Pattern, DepPresent(d) PROVE AddIndex'
  BY <1>0, <1>4, <1>K DEF DepPresent, Task
<1>5. ASSUME NEW d \in Pattern, DepInstall(d) PROVE AddIndex'
  <2>0. PICK t : t = [task EXCEPT !.todo = @ \ {d}] OBVIOUS
  <2>1. PICK q \in Package : /\ task.pc = "deps" /\ task' = NewTask(q, TRUE)
                             /\ Waiting' = Waiting \cup {t}
    BY <1>5, <2>0, CallWaiting
  <2>2. UNCHANGED <<contents, byfile>> BY <1>5 DEF DepInstall
  <2>3. t.pkg = task.pkg /\ t.other = task.other /\ t.pc = task.pc
    BY <1>0, <2>0 DEF Task
  <2>4. IndexOK(t)' BY <1>0, <2>1, <2>2, <2>3 DEF IndexOK, Unowned
  <2>5. task'.pc = "check" BY <2>1 DEF NewTask
  <2>6. IndexOK(task)' BY <2>5 DEF IndexOK
  <2>7. \A s \in Waiting' : IndexOK(s)' BY <1>W, <2>1, <2>4 DEF IndexOK
  <2> QED BY <2>5, <2>6, <2>7 DEF AddIndex, IndexOK
<1>6. ASSUME DepsFail, task.pc = "deps", UNCHANGED <<contents, byfile>>
      PROVE  AddIndex'
  BY <1>6, <1>R, <1>G, <1>K DEF DepsFail
<1>7. ASSUME NEW d \in Pattern, DepNoArchive(d) PROVE AddIndex'
  <2>1. UNCHANGED <<contents, byfile>> /\ task.pc = "deps"
    BY <1>7 DEF DepNoArchive
  <2>2. CASE DepsFail BY <1>6, <2>1, <2>2
  <2>3. CASE ~DepsFail
    <3>1. task' = [task EXCEPT !.todo = @ \ {d}] /\ callers' = callers
      BY <1>7, <2>3 DEF DepNoArchive, ForceAdd
    <3> QED BY <1>0, <1>K, <2>1, <3>1 DEF Task
  <2> QED BY <2>2, <2>3
<1>8. CASE DepReturned
  <2>1. UNCHANGED <<contents, byfile>> /\ task.pc = "deps"
    BY <1>8 DEF DepReturned
  <2>2. CASE Return("fail") BY <1>R, <2>2
  <2>3. CASE ~Return("fail")
    <3>1. /\ callers' = callers
          /\ \/ task' = task
             \/ task' = [task EXCEPT !.pc = "nukepkgdb"] /\ task.other # None
      BY <1>8, <2>3 DEF DepReturned, Replacing
    <3> QED BY <1>0, <1>K, <2>1, <3>1 DEF Task
  <2> QED BY <2>2, <2>3
<1>9. CASE DepsResolved
  <2>1. UNCHANGED <<contents, byfile>> /\ task.pc = "deps"
    BY <1>9 DEF DepsResolved
  <2>2. CASE DepsFail BY <1>6, <2>1, <2>2
  <2>3. CASE ~DepsFail
    <3>1. PICK best \in [Deps[task.pkg] -> Package] :
              task' = [task EXCEPT !.deps = {best[d] : d \in Deps[task.pkg]},
                                   !.pc = IF Replacing THEN "pre" ELSE "mkdir"]
      BY <1>9, <2>3 DEF DepsResolved
    <3>2. /\ task'.pkg = task.pkg /\ task'.other = task.other
          /\ task'.pc = IF task.other # None THEN "pre" ELSE "mkdir"
      BY <1>0, <3>1 DEF Task, Replacing
    <3>3. callers' = callers BY <1>9, <2>3 DEF DepsResolved
    <3> QED BY <1>K, <2>1, <3>2, <3>3
  <2> QED BY <2>2, <2>3
<1>10. CASE MakeDirectory
  BY <1>10, <1>G, <1>K DEF MakeDirectory
<1>11. CASE WriteMetaData
  <2>1. PICK pc \in {"move", "pre"} : Goto(pc) BY <1>11 DEF WriteMetaData
  <2>2. /\ task.pc = "meta" /\ byfile' = byfile /\ task.pkg \in contents'
    BY <1>11 DEF WriteMetaData
  <2>3. /\ callers' = callers /\ task'.pc = pc
        /\ task'.pkg = task.pkg /\ task'.other = task.other
    BY <1>G, <2>1
  <2>4. IndexOK(task)' BY <1>0, <2>2, <2>3 DEF IndexOK, Unowned
  <2> QED BY <1>S, <2>3, <2>4
<1>12. CASE WriteMetaDataFails
  <2>1. /\ callers' = callers /\ task'.pc = "nukepkgdb" /\ byfile' = byfile
        /\ task'.pkg = task.pkg /\ task.pc = "meta"
    BY <1>12, <1>G DEF WriteMetaDataFails
  <2>2. IndexOK(task)' BY <1>0, <2>1 DEF IndexOK, Unowned
  <2> QED BY <1>S, <2>1, <2>2
<1>13. CASE MoveRequiredBy \/ MoveMarks \/ MoveFails
  BY <1>13, <1>G, <1>K DEF MoveRequiredBy, MoveMarks, MoveFails
<1>14. CASE DeleteOldFails \/ DeleteOldStarts \/ DeleteOldDepends
  BY <1>14, <1>G, <1>K DEF DeleteOldFails, DeleteOldStarts, DeleteOldDepends
<1>15. CASE DeleteOldFiles
  <2>1. /\ task.pc = "dfiles" /\ contents' = contents
        /\ DeletePackage(task.other, FALSE, FALSE)
    BY <1>15 DEF DeleteOldFiles
  <2>2. /\ callers' = callers /\ task'.pc = "dunreg"
        /\ task'.pkg = task.pkg /\ task'.other = task.other
    BY <1>15, <1>G DEF DeleteOldFiles
  <2>3. /\ Unowned(task.other)'
        /\ Unowned(task.pkg) => Unowned(task.pkg)'
    BY <1>0, <2>1, <2>2, DeletePackageIndex DEF Unowned
  <2>4. IndexOK(task)' BY <1>0, <2>1, <2>2, <2>3 DEF IndexOK, Unowned
  <2> QED BY <1>S, <2>2, <2>3, <2>4
<1>16. CASE DeleteOldDirectory
  <2>1. /\ task.pc = "drm" /\ contents' = contents \ {task.other}
        /\ byfile' = byfile
    BY <1>16 DEF DeleteOldDirectory, RemoveDirectory
  <2>2. /\ callers' = callers /\ task'.pc \in {"deps", "nukepkgdb"}
        /\ task'.pkg = task.pkg /\ task'.other = task.other
    BY <1>16, <1>G DEF DeleteOldDirectory
  <2>3. task.other # task.pkg
    BY <1>0, <2>1, PkgDbAssumption DEF StackInv, OtherOK
  <2>4. IndexOK(task)' BY <1>0, <2>1, <2>2, <2>3 DEF IndexOK, Unowned
  <2> QED BY <1>S, <2>2, <2>4
<1>17. CASE PreInstall \/ Extracted \/ PostInstall
  BY <1>17, <1>G, <1>K DEF PreInstall, Extracted, PostInstall
<1>18. ASSUME NEW f \in File, ExtractFile(f) \/ ExtractFails(f) PROVE AddIndex'
  <2>1. /\ callers' = callers /\ task'.pkg = task.pkg
        /\ task'.pc \in {"extract", "nukepkg"} /\ task.pc = "extract"
        /\ contents' = contents
    <3>1. CASE ExtractFile(f) BY <1>0, <3>1 DEF ExtractFile, Task
    <3>2. CASE ExtractFails(f) BY <1>G, <3>2 DEF ExtractFails
    <3> QED BY <1>18, <3>1, <3>2
  <2>2. IndexOK(task)' BY <1>0, <2>1 DEF IndexOK
  <2> QED BY <1>S, <2>1, <2>2
<1>19. ASSUME NEW q \in Package, RegisterDepend(q) PROVE AddIndex'
  BY <1>0, <1>19, <1>K DEF RegisterDepend, Task
<1>20. CASE NukePackage
  <2>1. /\ callers' = callers /\ task'.pc = "nukepkgdb" /\ task'.pkg = task.pkg
        /\ DeletePackage(task.pkg, FALSE, ForceAdd) /\ task.pc = "nukepkg"
    BY <1>20, <1>G DEF NukePackage
  <2>2. Unowned(task.pkg)' BY <1>0, <2>1, DeletePackageIndex
  <2>3. IndexOK(task)' BY <2>1, <2>2 DEF IndexOK, Unowned
  <2> QED BY <1>S, <2>1, <2>3
<1> QED BY <1>1, <1>2, <1>3, <1>4, <1>5, <1>7, <1>8, <1>9, <1>10, <1>11,
           <1>12, <1>13, <1>14, <1>15, <1>16, <1>17, <1>18, <1>19, <1>20
        DEF AddStep

-----------------------------------------------------------------------------
(* robotpkg_delete and robotpkg_admin, which run when robotpkg_add does not. *)

\* No call of pkg_do() is under way.
LEMMA RestIndex ==
    ASSUME callers' = <<>>, task'.pc \in {"none", "check"}
    PROVE  AddIndex'
<1>1. Waiting' = {} BY EmptySeq DEF Waiting
<1> QED BY <1>1 DEF AddIndex, IndexOK, Described, NothingStored, Moving

LEMMA RestCallers ==
    ASSUME AddControl, task.pc = "none"
    PROVE  callers = <<>>
BY DEF AddControl, CallersOK

LEMMA DeleteStepOwner ==
    ASSUME DbTypeOK, DelControl, DirsInv, OwnerInstalled, DelIndex,
           task.pc = "none", task' = task, DeleteStep
    PROVE  DirsInv' /\ OwnerInstalled' /\ DelIndex'
<1>1. CASE UNCHANGED dbvars /\ dpc' \notin {"depends", "directory"}
  BY <1>1 DEF dbvars, DirsInv, OwnerInstalled, DelIndex
<1>2. dpc \in {"files", "depends", "directory"} => Victim \in Package
  <2>1. sorted # <<>> => 1 \in 1..Len(sorted)
    BY EmptySeq, LenProperties DEF DelControl, DelTypeOK
  <2> QED BY <2>1, ElementOfSeq DEF DelControl, DelTypeOK, Victim
<1>3. CASE RemoveFiles
  <2>1. Unowned(Victim)' /\ Victim' = Victim
    BY <1>2, <1>3, DeletePackageIndex
    DEF RemoveFiles, DelGoto, Unowned, Victim
  <2>2. \A f \in File : byfile'[f] # None => byfile'[f] = byfile[f]
    BY <1>2, <1>3, DeletePackageIndex DEF RemoveFiles
  <2> QED BY <1>3, <2>1, <2>2 DEF RemoveFiles, DirsInv, OwnerInstalled, DelIndex
<1>4. CASE RemoveFromDepends
  <2>1. dpc = "depends" /\ UNCHANGED <<pkgdir, contents, byfile, sorted>>
    BY <1>4 DEF RemoveFromDepends, DelGoto
  <2> QED BY <2>1 DEF DirsInv, OwnerInstalled, DelIndex, Unowned, Victim
<1>5. CASE RemovePkgDirectory
  <2>1. Unowned(Victim) /\ dpc' \in {"remove", "none"}
    BY <1>5 DEF RemovePkgDirectory, DelExit, DelIndex
  <2>2. /\ contents' = contents \ {Victim} /\ pkgdir' = pkgdir \ {Victim}
        /\ byfile' = byfile
    BY <1>5 DEF RemovePkgDirectory, RemoveDirectory
  <2> QED BY <2>1, <2>2 DEF DirsInv, OwnerInstalled, DelIndex, Unowned
<1>6. ASSUME NEW p \in Package,
             SortMove(p) \/ SortRecurse(p) \/ SortForced(p) \/ AddLeaf(p)
      PROVE  UNCHANGED dbvars /\ dpc' \notin {"depends", "directory"}
  BY <1>6 DEF SortMove, SortRecurse, SortForced, AddLeaf
<1>7. CASE \/ \E i \in DOMAIN sorted : DropPreserved(i)
           \/ SortStuck \/ SortDone \/ LeavesDone \/ CheckPreserve
           \/ RemoveDone \/ RemoveMissing \/ RemoveStarts \/ DeinstallFails
  <2>1. UNCHANGED dbvars /\ dpc' \notin {"depends", "directory"}
    BY <1>7
    DEF DropPreserved, SortStuck, SortDone, LeavesDone, CheckPreserve,
        RemoveDone, RemoveMissing, RemoveStarts, DeinstallFails, DelGoto, DelExit
  <2> QED BY <1>1, <2>1
<1> QED BY <1>1, <1>3, <1>4, <1>5, <1>6, <1>7 DEF DeleteStep

LEMMA AdminStepOwner ==
    ASSUME DbTypeOK, DirsInv, OwnerInstalled, task' = task, AdminStep
    PROVE  DirsInv' /\ OwnerInstalled'
<1>1. ASSUME NEW p \in Package, RebuildAdd(p) PROVE DirsInv' /\ OwnerInstalled'
  BY <1>1 DEF RebuildAdd, DirsInv, OwnerInstalled
<1>2. ASSUME NEW p \in Package, RebuildAborts(p)
      PROVE  DirsInv' /\ OwnerInstalled'
  BY <1>2 DEF RebuildAborts, dbvars, DirsInv, OwnerInstalled
<1>3. ASSUME NEW p \in Package, RemoveRequiredBy(p) \/ WriteRequiredBy(p)
      PROVE  DirsInv' /\ OwnerInstalled'
  BY <1>3 DEF RemoveRequiredBy, WriteRequiredBy, DirsInv, OwnerInstalled
<1>4. CASE RebuildDone \/ RemovedRequiredBy \/ RebuildTreeDone
  BY <1>4 DEF RebuildDone, RemovedRequiredBy, RebuildTreeDone, dbvars, DirsInv,
              OwnerInstalled
<1> QED BY <1>1, <1>2, <1>3, <1>4 DEF AdminStep

\* An interruption that is not torn leaves every directory its +CONTENTS.
LEMMA CrashOwner ==
    ASSUME ControlInv, DirsInv, OwnerInstalled, "torn" \notin Faults, Crash
    PROVE  DirsInv' /\ OwnerInstalled'
<1>0. task'.pc = "none"
  BY CrashControl, NoTaskOK DEF Crash, Exit
<1>1. ASSUME pkgdir' = contents' PROVE DirsInv'
  BY <1>0, <1>1 DEF DirsInv
<1>2. ASSUME task.pc \notin {"meta", "nukepkgdb"} PROVE pkgdir = contents
  BY <1>2 DEF DirsInv
<1>3. dpc # "none" => task.pc = "none" BY DEF ControlInv, OneProgram
<1>4. CASE CrashBetween
  <2>1. pkgdir = contents /\ UNCHANGED dbvars
    BY <1>4 DEF CrashBetween, DirsInv
  <2> QED BY <1>1, <2>1 DEF dbvars, OwnerInstalled
<1>5. CASE CrashWriting
  <2>1. /\ contents' = contents \cup {task.pkg} /\ task.pc = "meta"
        /\ UNCHANGED <<pkgdir, byfile>>
    BY <1>5 DEF CrashWriting
  <2>2. pkgdir' = contents' BY <2>1 DEF DirsInv
  <2> QED BY <1>1, <2>1, <2>2 DEF OwnerInstalled
<1>6. CASE CrashExtracting
  <2>1. UNCHANGED <<pkgdir, contents>> /\ task.pc = "extract"
    BY <1>6 DEF CrashExtracting
  <2>2. \A f \in File : byfile'[f] # None => byfile'[f] = byfile[f]
    BY <1>6 DEF CrashExtracting
  <2> QED BY <1>1, <1>2, <2>1, <2>2 DEF OwnerInstalled
<1>7. ASSUME NEW p \in Package, CrashDeleting(p)
      PROVE  DirsInv' /\ OwnerInstalled'
  <2>1. /\ UNCHANGED <<pkgdir, contents>>
        /\ task.pc \in {"dfiles", "nukepkg"} \/ dpc = "files"
    BY <1>7 DEF CrashDeleting
  <2>2. \A f \in File : byfile'[f] # None => byfile'[f] = byfile[f]
    BY <1>7 DEF CrashDeleting
  <2> QED BY <1>1, <1>2, <1>3, <2>1, <2>2 DEF OwnerInstalled
<1>8. ASSUME NEW p \in Package, CrashUnregistering(p)
      PROVE  DirsInv' /\ OwnerInstalled'
  BY <1>1, <1>2, <1>3, <1>8 DEF CrashUnregistering, OwnerInstalled
<1>9. ASSUME NEW p \in Package, CrashRemovingDirectory(p)
      PROVE  DirsInv' /\ OwnerInstalled'
  <2>1. /\ p \in contents /\ UNCHANGED <<pkgdir, contents, byfile>>
        /\ \/ task.pc = "drm" \/ dpc = "directory"
           \/ task.pc = "nukepkgdb" /\ p = task.pkg
    BY <1>9 DEF CrashRemovingDirectory
  <2>2. pkgdir = contents
    BY <1>2, <1>3, <2>1 DEF DirsInv
  <2> QED BY <1>1, <2>1, <2>2 DEF OwnerInstalled
<1> QED BY <1>4, <1>5, <1>6, <1>7, <1>8, <1>9 DEF Crash

-----------------------------------------------------------------------------
(* The invariant.                                                           *)

LEMMA OwnerInit == Init => StackInv /\ DirsInv /\ OwnerInv
<1> SUFFICES ASSUME Init PROVE StackInv /\ DirsInv /\ OwnerInv OBVIOUS
<1>1. Waiting = {} /\ 1..Len(callers) = {} BY EmptyStack DEF Init, AddInit
<1>2. StackInv BY <1>1 DEF Init, AddInit, NoTask, StackInv, OtherOK
<1>3. DirsInv BY DEF Init, AddInit, DbInit, NoTask, DirsInv
<1>4. OwnerInstalled BY DEF Init, DbInit, OwnerInstalled
<1>5. AddIndex /\ DelIndex
  BY <1>1 DEF Init, AddInit, DelInit, NoTask, AddIndex, DelIndex, IndexOK,
              Described, NothingStored, Moving
<1> QED BY <1>2, <1>3, <1>4, <1>5 DEF OwnerInv

LEMMA OwnerStep ==
    ASSUME "torn" \notin Faults,
           ControlInv, StackInv, DirsInv, OwnerInv, [Next]_vars
    PROVE  StackInv' /\ DirsInv' /\ OwnerInv'
<1> USE DEF OwnerInv
<1>0. /\ DbTypeOK /\ AddControl /\ DelControl /\ OneProgram
  BY DEF ControlInv, TypeOK
<1>A. ASSUME UNCHANGED addvars, task.pc = "none"
      PROVE  StackInv' /\ AddIndex'
  <2>1. callers = <<>> /\ callers' = callers /\ task' = task
    BY <1>0, <1>A, RestCallers DEF addvars
  <2> QED BY <1>A, <2>1, RestIndex DEF StackInv, Waiting, OtherOK
<1>1. CASE UserAdd
  <2>1. PICK p \in Package, opts \in AddOptions : AddCommand(p, opts)
    BY <1>1 DEF UserAdd
  <2>2. /\ task.pc = "none" /\ dpc' = dpc /\ dpc = "none"
        /\ callers' = <<>> /\ task'.pc = "check" /\ task'.other = None
        /\ UNCHANGED dbvars
    BY <1>1, <2>1 DEF UserAdd, Idle, AddCommand, NewTask, delvars
  <2>3. DirsInv' /\ OwnerInstalled' /\ DelIndex'
    BY <2>2 DEF DirsInv, OwnerInstalled, DelIndex, dbvars
  <2> QED BY <2>2, <2>3, StackStarts, RestIndex
<1>2. CASE UserDelete
  <2>1. /\ UNCHANGED <<addvars, dbvars>> /\ task.pc = "none" /\ dpc' = "sort"
    BY <1>2 DEF UserDelete, DeleteCommand, Idle
  <2>2. DirsInv' /\ OwnerInstalled' /\ DelIndex'
    BY <2>1 DEF DirsInv, OwnerInstalled, DelIndex, dbvars, addvars
  <2> QED BY <1>A, <2>1, <2>2
<1>3. CASE UserAdmin
  <2>1. /\ UNCHANGED <<addvars, delvars>> /\ task.pc = "none" /\ dpc = "none"
        /\ UNCHANGED <<pkgdir, contents>>
        /\ byfile' = byfile \/ byfile' = [f \in File |-> None]
    BY <1>3 DEF UserAdmin, Idle, RebuildCommand, RebuildTreeCommand,
                SetAutomatic, dbvars
  <2>2. DirsInv' /\ OwnerInstalled' /\ DelIndex'
    BY <2>1 DEF DirsInv, OwnerInstalled, DelIndex, addvars, delvars
  <2> QED BY <1>A, <2>1, <2>2
<1>4. CASE AddStep /\ UNCHANGED <<delvars, admvars>>
  <2>1. dpc = "none" /\ dpc' = dpc
    BY <1>0, <1>4, StepsOfTheRunning DEF OneProgram, delvars
  <2>2. DelIndex' BY <2>1 DEF DelIndex
  <2> QED BY <1>0, <1>4, <2>2, AddStepStack, AddStepDirs, AddStepIndex,
             AddStepOwnerInstalled
<1>5. CASE DeleteStep /\ UNCHANGED <<addvars, admvars>>
  <2>1. task.pc = "none" /\ task' = task
    BY <1>0, <1>5, StepsOfTheRunning DEF OneProgram, addvars
  <2>2. DirsInv' /\ OwnerInstalled' /\ DelIndex'
    BY <1>0, <1>5, <2>1, DeleteStepOwner
  <2> QED BY <1>A, <1>5, <2>1, <2>2
<1>6. CASE AdminStep /\ UNCHANGED <<addvars, delvars>>
  <2>1. task.pc = "none" /\ dpc = "none" /\ dpc' = dpc /\ task' = task
    BY <1>0, <1>6, StepsOfTheRunning DEF OneProgram, addvars, delvars
  <2>2. DirsInv' /\ OwnerInstalled' BY <1>0, <1>6, <2>1, AdminStepOwner
  <2>3. DelIndex' BY <2>1 DEF DelIndex
  <2> QED BY <1>A, <1>6, <2>1, <2>2, <2>3
<1>7. CASE Crash
  <2>1. DirsInv' /\ OwnerInstalled' BY <1>7, CrashOwner
  <2>2. callers' = <<>> /\ task' = NoTask /\ dpc' = "none"
    BY <1>7 DEF Crash, Exit, DelExit
  <2>3. StackInv' /\ AddIndex'
    BY <2>2, StackStarts, RestIndex, NoTaskOK DEF NoTask
  <2>4. DelIndex' BY <2>2 DEF DelIndex
  <2> QED BY <2>1, <2>3, <2>4
<1>8. CASE UNCHANGED vars
  BY <1>8 DEF vars, dbvars, addvars, delvars, StackInv, Waiting, OtherOK,
              DirsInv, OwnerInstalled, AddIndex, IndexOK, Described,
              NothingStored, Unowned, DelIndex, Victim
<1> QED BY <1>1, <1>2, <1>3, <1>4, <1>5, <1>6, <1>7, <1>8 DEF Next, Tools

\* pkgdb.byfile.db names a package only for files of its packing list and
\* while it is installed, whatever fails and wherever a program is interrupted
\* (the labels nuke_pkg and nuke_pkgdb of perform.c, remove_pkg() and
\* delete_package()), if no interruption leaves a torn directory.
THEOREM OwnerCorrect ==
    ASSUME "torn" \notin Faults
    PROVE  Spec => []OwnerInstalled
<1> DEFINE IInv == ControlInv /\ StackInv /\ DirsInv /\ OwnerInv
<1>1. Init => IInv BY ControlInit, OwnerInit
<1>2. IInv /\ [Next]_vars => IInv' BY ControlStep, OwnerStep
<1>3. IInv => OwnerInstalled BY DEF OwnerInv
<1> QED BY <1>1, <1>2, <1>3, PTL DEF Spec

-----------------------------------------------------------------------------
(* The +REQUIRED_BY files: what the steps of robotpkg_add do to them.       *)

LEMMA AddOptsFixed ==
    ASSUME AddStep
    PROVE  addopts' = addopts
<1>1. ASSUME NEW pc, Goto(pc) PROVE addopts' = addopts BY <1>1 DEF Goto
<1>2. ASSUME NEW status, Return(status) \/ Exit(status)
      PROVE  addopts' = addopts
  BY <1>2 DEF Return, Exit
<1>3. CASE \/ AlreadyInstalled \/ CheckRefuses \/ CheckAborts \/ CheckPasses
           \/ Installed \/ NukeDirectory \/ Extracted \/ PostInstall
           \/ NukePackage \/ PreInstall
  BY <1>1, <1>2, <1>3
  DEF AlreadyInstalled, CheckRefuses, CheckAborts, CheckPasses, Installed,
      NukeDirectory, Extracted, PostInstall, NukePackage, PreInstall
<1>4. ASSUME NEW d \in Pattern, DepPresent(d) \/ DepInstall(d) \/ DepNoArchive(d)
      PROVE  addopts' = addopts
  BY <1>1, <1>2, <1>4 DEF DepPresent, DepInstall, DepNoArchive, DepsFail
<1>5. CASE DepReturned \/ DepsResolved
  BY <1>1, <1>2, <1>5 DEF DepReturned, DepsResolved, DepsFail
<1>6. CASE \/ MakeDirectory \/ WriteMetaData \/ WriteMetaDataFails
           \/ MoveRequiredBy \/ MoveMarks \/ MoveFails
  BY <1>1, <1>6 DEF MakeDirectory, WriteMetaData, WriteMetaDataFails,
                    MoveRequiredBy, MoveMarks, MoveFails
<1>7. CASE \/ DeleteOldFails \/ DeleteOldStarts \/ DeleteOldFiles
           \/ DeleteOldDepends \/ DeleteOldDirectory
  BY <1>1, <1>7 DEF DeleteOldFails, DeleteOldStarts, DeleteOldFiles,
                    DeleteOldDepends, DeleteOldDirectory
<1>8. ASSUME NEW f \in File, ExtractFile(f) \/ ExtractFails(f)
      PROVE  addopts' = addopts
  BY <1>1, <1>8 DEF ExtractFile, ExtractFails
<1>9. ASSUME NEW q \in Package, RegisterDepend(q) PROVE addopts' = addopts
  BY <1>9 DEF RegisterDepend
<1> QED BY <1>3, <1>4, <1>5, <1>6, <1>7, <1>8, <1>9 DEF AddStep

LEMMA AddRequiredWrites ==
    ASSUME AddStep
    PROVE  \/ UNCHANGED <<pkgdir, contents, requiredBy, stale>>
           \/ MakeDirectory \/ WriteMetaData \/ WriteMetaDataFails
           \/ MoveRequiredBy \/ DeleteOldDepends \/ DeleteOldDirectory
           \/ \E q \in Package : RegisterDepend(q)
           \/ NukeDirectory
<1>1. CASE AlreadyInstalled \/ CheckRefuses \/ CheckAborts \/ CheckPasses
  BY <1>1 DEF AlreadyInstalled, CheckRefuses, CheckAborts, CheckPasses, dbvars
<1>2. ASSUME NEW d \in Pattern, DepPresent(d) \/ DepInstall(d) \/ DepNoArchive(d)
      PROVE  UNCHANGED <<pkgdir, contents, requiredBy, stale>>
  BY <1>2 DEF DepPresent, DepInstall, DepNoArchive, dbvars
<1>3. CASE DepReturned \/ DepsResolved \/ MoveMarks \/ MoveFails
  BY <1>3 DEF DepReturned, DepsResolved, MoveMarks, MoveFails, dbvars
<1>4. CASE DeleteOldFails \/ DeleteOldStarts \/ DeleteOldFiles
  BY <1>4 DEF DeleteOldFails, DeleteOldStarts, DeleteOldFiles, dbvars
<1>5. CASE PreInstall \/ Extracted \/ PostInstall \/ Installed \/ NukePackage
  BY <1>5 DEF PreInstall, Extracted, PostInstall, Installed, NukePackage, dbvars
<1>6. ASSUME NEW f \in File, ExtractFile(f) \/ ExtractFails(f)
      PROVE  UNCHANGED <<pkgdir, contents, requiredBy, stale>>
  BY <1>6 DEF ExtractFile, ExtractFails
<1> QED BY <1>1, <1>2, <1>3, <1>4, <1>5, <1>6 DEF AddStep

\* remove_depend() looks where p's patterns lead, which is everywhere p is.
LEMMA RemoveDependsUnlists ==
    ASSUME DbTypeOK, DbRequired, UNCHANGED <<pkgdir, contents>>,
           NEW p \in Package, NEW mayFail, RemoveDepends(p, mayFail)
    PROVE  /\ Unlisted(p)' /\ DbRequired'
           /\ \A q \in Package : requiredBy'[q] \subseteq requiredBy[q]
           /\ \A q \in Package : Unlisted(q) => Unlisted(q)'
<1>1. PICK kept \in SUBSET Holders(p) :
          /\ requiredBy' = WithoutLines(p, kept)
          /\ stale' = IF kept = {} THEN stale \ {p} ELSE stale \cup {p}
  BY DEF RemoveDepends
<1>2. \A q \in Package :
          requiredBy'[q] = IF q \notin kept /\ \E d \in Deps[p] : q \in Providers(d)
                           THEN requiredBy[q] \ {p} ELSE requiredBy[q]
  BY <1>1 DEF WithoutLines
<1>3. ASSUME NEW q \in Package, p \in requiredBy[q]
      PROVE  \E d \in Deps[p] : q \in Providers(d)
  BY <1>3 DEF DbRequired, RequiredByJustified, Providers
<1>4. p \in stale' \/ \A q \in Package : p \notin requiredBy'[q]
  BY <1>1, <1>2, <1>3
<1>5. \A q \in Package : requiredBy'[q] \subseteq requiredBy[q] BY <1>2
<1>6. \A q \in Package : q # p /\ q \in stale => q \in stale' BY <1>1
<1>7. RequiredByJustified'
  BY <1>4, <1>5, <1>6 DEF DbRequired, RequiredByJustified
<1>8. \A q \in Package \ pkgdir' : requiredBy'[q] = {}
  BY <1>5 DEF DbRequired
<1>9. \A q \in Package : Unlisted(q) => Unlisted(q)'
  BY <1>4, <1>5, <1>6 DEF Unlisted
<1> QED BY <1>4, <1>5, <1>7, <1>8, <1>9 DEF Unlisted, DbRequired

\* The directory of p may go when p is listed nowhere, but in stale lines.
LEMMA RemoveDirectoryRequired ==
    ASSUME DbTypeOK, DbRequired, NEW p \in Package, Unlisted(p),
           NEW lost, RemoveDirectory(p, lost)
    PROVE  /\ DbRequired'
           /\ \A q \in Package : requiredBy'[q] \subseteq requiredBy[q]
           /\ \A q \in Package : Unlisted(q) => Unlisted(q)'
<1>1. /\ pkgdir' = pkgdir \ {p} /\ contents' = contents \ {p}
      /\ stale' = stale
      /\ \A q \in Package :
             requiredBy'[q] = IF q = p THEN {} ELSE requiredBy[q]
  BY DEF RemoveDirectory, DbTypeOK
<1>2. RequiredByJustified'
  BY <1>1 DEF DbRequired, RequiredByJustified, Unlisted
<1>3. \A q \in Package \ pkgdir' : requiredBy'[q] = {} BY <1>1 DEF DbRequired
<1>4. \A q \in Package : Unlisted(q) => Unlisted(q)' BY <1>1 DEF Unlisted
<1> QED BY <1>1, <1>2, <1>3, <1>4 DEF DbRequired

\* The lines a step of robotpkg_add writes.
LEMMA AddStepLines ==
    ASSUME DbTypeOK, AddControl, DirsInv, AddIndex, DbRequired, AddRequired,
           AddStep
    PROVE  /\ DbRequired'
           /\ \A p \in Package :
                  p # task.pkg \/ task.pc # "register" =>
                      (Unlisted(p) => Unlisted(p)')
<1> USE DEF Moving
<1>0. /\ TaskOK(task)
      /\ task.pc # "none" => task.pkg \in Package
      /\ task.pc \in Moving => task.other \in Package
      /\ Described(task) => task.pkg \in contents
  BY DEF AddControl, AddTypeOK, TaskOK, Task, AddIndex, IndexOK
<1>L. ASSUME stale' = stale,
             \A q \in Package : requiredBy'[q] \subseteq requiredBy[q]
      PROVE  \A p \in Package : Unlisted(p) => Unlisted(p)'
  BY <1>L DEF Unlisted
<1>1. CASE UNCHANGED <<pkgdir, contents, requiredBy, stale>>
  BY <1>1, <1>L DEF DbRequired, RequiredByJustified
<1>2. CASE MakeDirectory \/ WriteMetaData \/ WriteMetaDataFails
  <2>1. /\ pkgdir \subseteq pkgdir' /\ contents \subseteq contents'
        /\ UNCHANGED <<requiredBy, stale>>
    BY <1>2 DEF MakeDirectory, WriteMetaData, WriteMetaDataFails
  <2> QED BY <1>L, <2>1 DEF DbRequired, RequiredByJustified
<1>3. CASE MoveRequiredBy
  <2>1. /\ task.pc = "move" /\ UNCHANGED <<pkgdir, contents, stale>>
        /\ task.pkg \in contents /\ task.other \in Package /\ task.pkg \in Package
    BY <1>0, <1>3 DEF MoveRequiredBy, Described
  <2>2. CASE UNCHANGED requiredBy
    BY <1>L, <2>1, <2>2 DEF DbRequired, RequiredByJustified
  <2>3. CASE ~UNCHANGED requiredBy
    <3>1. \A p \in Package :
              requiredBy'[p] = CASE p = task.pkg   -> requiredBy[task.other]
                                 [] p = task.other -> {}
                                 [] OTHER          -> requiredBy[p]
      BY <1>3, <2>3 DEF MoveRequiredBy
    <3>2. \A q \in requiredBy[task.other] : Justified(q, task.pkg)
      <4>1. Replacing BY <1>0, <2>1 DEF Replacing, TaskOK
      <4> QED BY <2>1, <4>1 DEF AddRequired, ReplacedOK
    <3>3. RequiredByJustified'
      BY <2>1, <3>1, <3>2 DEF DbRequired, RequiredByJustified, Justified
    <3>4. \A p \in Package \ pkgdir' : requiredBy'[p] = {}
      BY <2>1, <3>1 DEF DbRequired, DirsInv
    <3>5. \A p \in Package : Unlisted(p) => Unlisted(p)'
      BY <2>1, <3>1 DEF Unlisted
    <3> QED BY <3>3, <3>4, <3>5 DEF DbRequired
  <2> QED BY <2>2, <2>3
<1>4. CASE DeleteOldDepends
  <2>1. task.pc = "dunreg" /\ UNCHANGED <<pkgdir, contents>>
    BY <1>4 DEF DeleteOldDepends
  <2> QED BY <1>0, <1>4, <2>1, RemoveDependsUnlists DEF DeleteOldDepends
<1>5. CASE DeleteOldDirectory
  <2>1. task.other \in Package /\ Unlisted(task.other)
    BY <1>0, <1>5 DEF DeleteOldDirectory, AddRequired, ReplacedOK
  <2> QED BY <1>5, <2>1, RemoveDirectoryRequired DEF DeleteOldDirectory
<1>6. ASSUME NEW q \in Package, RegisterDepend(q)
      PROVE  /\ DbRequired'
             /\ \A p \in Package :
                  p # task.pkg \/ task.pc # "register" =>
                      (Unlisted(p) => Unlisted(p)')
  <2>1. /\ task.pc = "register" /\ UNCHANGED <<pkgdir, contents, stale>>
        /\ q \in task.deps /\ task.pkg \in contents /\ task.pkg \in Package
    BY <1>0, <1>6 DEF RegisterDepend, Described
  <2>2. CASE UNCHANGED requiredBy
    BY <1>L, <2>1, <2>2 DEF DbRequired, RequiredByJustified
  <2>3. CASE ~UNCHANGED requiredBy
    <3>1. /\ q \in pkgdir
          /\ \A p \in Package :
                 requiredBy'[p] = IF p = q THEN requiredBy[p] \cup {task.pkg}
                                           ELSE requiredBy[p]
      BY <1>6, <2>3 DEF RegisterDepend, DbTypeOK
    <3>2. \E d \in Deps[task.pkg] : q \in Matches[d] BY <1>0, <2>1 DEF TaskOK
    <3>3. RequiredByJustified'
      <4>1. ASSUME NEW p \in Package, NEW r \in Package, r \in requiredBy'[p]
            PROVE  /\ r \in contents \cup stale
                   /\ \E d \in Deps[r] : p \in Matches[d]
        <5>1. CASE r \in requiredBy[p]
          BY <5>1 DEF DbRequired, RequiredByJustified
        <5>2. CASE r \notin requiredBy[p]
          <6>1. p = q /\ r = task.pkg BY <3>1, <4>1, <5>2
          <6> QED BY <2>1, <3>2, <6>1
        <5> QED BY <5>1, <5>2
      <4> QED BY <2>1, <4>1 DEF RequiredByJustified
    <3> QED BY <2>1, <3>1, <3>3 DEF DbRequired, Unlisted
  <2> QED BY <2>2, <2>3
<1>7. CASE NukeDirectory
  <2>1. task.pkg \in Package /\ Unlisted(task.pkg)
    BY <1>0, <1>7 DEF NukeDirectory, AddRequired, UnlistedOK
  <2> QED BY <1>7, <2>1, RemoveDirectoryRequired DEF NukeDirectory
<1> QED BY <1>1, <1>2, <1>3, <1>4, <1>5, <1>6, <1>7, AddRequiredWrites

-----------------------------------------------------------------------------
(* What the running call and the waiting ones rely on.                      *)

\* The check of the dependents: they accept the new version.
LEMMA CheckServes ==
    ASSUME DbRequired, ~ForceDepending, NEW o \in Package, ~CannotReplace(o),
           o # None
    PROVE  \A q \in requiredBy[o] : q \in Package => Justified(q, task.pkg)
<1>1. ~BreaksDependents(o) BY DEF CannotReplace
<1> SUFFICES ASSUME NEW q \in requiredBy[o], q \in Package
             PROVE  Justified(q, task.pkg)
  OBVIOUS
<1>2. \E d \in Deps[q] : o \in Matches[d] BY DEF DbRequired, RequiredByJustified
<1> QED BY <1>1, <1>2 DEF BreaksDependents, Justified

\* The version to replace keeps dependents that accept the new one.
LEMMA AddStepReplaced ==
    ASSUME DbTypeOK, AddControl, DbRequired, AddRequired, AddStep
    PROVE  ReplacedOK'
<1> USE DEF PC, Moving
<1>0. task \in Task BY DEF AddControl, AddTypeOK
<1>G. ASSUME NEW pc \in PC, Goto(pc)
      PROVE  task'.pc = pc /\ task'.pkg = task.pkg /\ task'.other = task.other
  BY <1>0, <1>G DEF Goto, Task
<1>N. ASSUME \/ task'.pc \notin {"mkdir", "meta", "move", "drm"}
             \/ task'.pc # "drm" /\ task'.other = None
      PROVE  ReplacedOK'
  BY <1>N DEF ReplacedOK, Replacing
<1>R. ASSUME NEW status \in {"ok", "fail"}, Return(status)
      PROVE  ReplacedOK'
  BY <1>N, <1>R, ReturnPc
<1>1. CASE AlreadyInstalled \/ CheckRefuses \/ Installed \/ NukeDirectory
  BY <1>1, <1>R DEF AlreadyInstalled, CheckRefuses, Installed, NukeDirectory
<1>2. CASE CheckAborts
  BY <1>2, <1>N, NoTaskOK DEF CheckAborts, Exit
<1>3. CASE CheckPasses
  <2>1. PICK o \in Package \cup {None} :
            /\ ~CannotReplace(o)
            /\ task' = [task EXCEPT !.other = o,
                                    !.pc = IF o = None THEN "deps" ELSE "mkdir"]
    BY <1>3 DEF CheckPasses
  <2>2. /\ task'.pkg = task.pkg /\ task'.other = o
        /\ task'.pc \in {"deps", "mkdir"}
    BY <1>0, <2>1 DEF Task
  <2>3. UNCHANGED <<contents, requiredBy>> BY <1>3 DEF CheckPasses, dbvars
  <2>4. CASE o = None BY <1>N, <2>2, <2>4
  <2>5. CASE o # None
    <3>1. requiredBy[o] \subseteq Package BY <2>5 DEF DbTypeOK
    <3>2. \A q \in requiredBy[o] : Justified(q, task.pkg)
      BY <2>1, <2>5, <3>1, CheckServes DEF AddRequired
    <3> QED BY <2>2, <2>3, <3>2 DEF ReplacedOK, Justified
  <2> QED BY <2>4, <2>5
<1>4. ASSUME NEW d \in Pattern, DepPresent(d) PROVE ReplacedOK'
  BY <1>0, <1>4, <1>N DEF DepPresent, Task
<1>5. ASSUME NEW d \in Pattern, DepInstall(d) PROVE ReplacedOK'
  BY <1>5, <1>N DEF DepInstall, NewTask
<1>6. ASSUME DepsFail PROVE ReplacedOK'
  BY <1>6, <1>R, <1>G, <1>N DEF DepsFail
<1>7. ASSUME NEW d \in Pattern, DepNoArchive(d) PROVE ReplacedOK'
  BY <1>0, <1>6, <1>7, <1>N DEF DepNoArchive, Task, ForceAdd
<1>8. CASE DepReturned
  <2>1. CASE Return("fail") BY <1>R, <2>1
  <2>2. CASE ~Return("fail")
    <3>1. /\ task.pc = "deps"
          /\ task' = task \/ task' = [task EXCEPT !.pc = "nukepkgdb"]
      BY <1>8, <2>2 DEF DepReturned
    <3> QED BY <1>0, <1>N, <3>1 DEF Task
  <2> QED BY <2>1, <2>2
<1>9. CASE DepsResolved
  <2>1. CASE DepsFail BY <1>6, <2>1
  <2>2. CASE ~DepsFail
    <3>1. PICK best \in [Deps[task.pkg] -> Package] :
              task' = [task EXCEPT !.deps = {best[d] : d \in Deps[task.pkg]},
                                   !.pc = IF Replacing THEN "pre" ELSE "mkdir"]
      BY <1>9, <2>2 DEF DepsResolved
    <3>2. /\ task'.other = task.other
          /\ task'.pc = IF task.other # None THEN "pre" ELSE "mkdir"
      BY <1>0, <3>1 DEF Task, Replacing
    <3> QED BY <1>N, <3>2
  <2> QED BY <2>1, <2>2
<1>10. CASE MakeDirectory
  <2>1. /\ task.pc = "mkdir" /\ UNCHANGED <<contents, requiredBy>>
        /\ task'.pkg = task.pkg /\ task'.other = task.other /\ task'.pc = "meta"
    BY <1>10, <1>G DEF MakeDirectory
  <2> QED BY <2>1 DEF AddRequired, ReplacedOK, Replacing, Justified
<1>11. CASE WriteMetaData
  <2>1. \E pc \in {"move", "pre"} : Goto(pc) BY <1>11 DEF WriteMetaData
  <2>2. /\ task.pc = "meta" /\ contents \subseteq contents'
        /\ requiredBy' = requiredBy
        /\ task'.pkg = task.pkg /\ task'.other = task.other /\ task'.pc # "drm"
    BY <1>11, <1>G, <2>1 DEF WriteMetaData
  <2> QED BY <2>2 DEF AddRequired, ReplacedOK, Replacing, Justified
<1>12. CASE WriteMetaDataFails \/ MoveRequiredBy \/ MoveMarks \/ MoveFails
  BY <1>12, <1>G, <1>N
  DEF WriteMetaDataFails, MoveRequiredBy, MoveMarks, MoveFails
<1>13. CASE \/ DeleteOldFails \/ DeleteOldStarts \/ DeleteOldFiles
            \/ DeleteOldDirectory
  BY <1>13, <1>G, <1>N
  DEF DeleteOldFails, DeleteOldStarts, DeleteOldFiles, DeleteOldDirectory
<1>17. CASE DeleteOldDepends
  <2>1. task.other \in Package
    BY <1>17 DEF DeleteOldDepends, AddControl, AddTypeOK, TaskOK, Task
  <2>2. task'.pc = "drm" /\ task'.other = task.other
    BY <1>17, <1>G DEF DeleteOldDepends
  <2>3. \/ task.other \in stale'
        \/ \A q \in Package : task.other \notin requiredBy'[q]
    BY <1>17, <2>1, RemoveDependsUnlists DEF DeleteOldDepends, Unlisted
  <2> QED BY <2>2, <2>3 DEF ReplacedOK, Unlisted
<1>14. CASE PreInstall \/ Extracted \/ PostInstall \/ NukePackage
  BY <1>14, <1>G, <1>N DEF PreInstall, Extracted, PostInstall, NukePackage
<1>15. ASSUME NEW f \in File, ExtractFile(f) \/ ExtractFails(f)
       PROVE  ReplacedOK'
  <2>1. CASE ExtractFile(f) BY <1>0, <1>N, <2>1 DEF ExtractFile, Task
  <2>2. CASE ExtractFails(f) BY <1>G, <1>N, <2>2 DEF ExtractFails
  <2> QED BY <1>15, <2>1, <2>2
<1>16. ASSUME NEW q \in Package, RegisterDepend(q) PROVE ReplacedOK'
  BY <1>0, <1>16, <1>N DEF RegisterDepend, Task
<1> QED BY <1>1, <1>2, <1>3, <1>4, <1>5, <1>7, <1>8, <1>9, <1>10, <1>11,
           <1>12, <1>13, <1>14, <1>15, <1>16, <1>17 DEF AddStep

\* What a call that checks its package or registers it can do next.
LEMMA LeavesCheck ==
    ASSUME AddStep, task.pc \in {"check", "register"}
    PROVE  \/ CheckPasses \/ Return("ok") \/ Return("fail") \/ Exit("fail")
           \/ \E q \in Package : RegisterDepend(q)
BY DEF AddStep, AlreadyInstalled, CheckRefuses, CheckAborts, DepPresent,
       DepInstall, DepNoArchive, DepReturned, DepsResolved, MakeDirectory,
       WriteMetaData, WriteMetaDataFails, MoveRequiredBy, MoveMarks, MoveFails,
       DeleteOldFails, DeleteOldStarts, DeleteOldFiles, DeleteOldDepends,
       DeleteOldDirectory, PreInstall, ExtractFile, ExtractFails, Extracted,
       PostInstall, Installed, NukePackage, NukeDirectory

LEMMA AddStepUnlisted ==
    ASSUME DbTypeOK, AddControl, StackInv, DirsInv, AddIndex, DbRequired,
           AddRequired, AddStep
    PROVE  \A t \in (Waiting \cup {task})' : UnlistedOK(t)'
<1>0. /\ task \in Task /\ TaskOK(task) /\ UnlistedOK(task)
      /\ task.pc # "none" => task.pkg \in Package
      /\ task.pc # "none"
  BY StepsOfTheRunning DEF AddControl, AddTypeOK, TaskOK, Task, AddRequired
<1>W. \A t \in Waiting : UnlistedOK(t)'
  <2>1. SUFFICES ASSUME NEW t \in Waiting PROVE UnlistedOK(t)' OBVIOUS
  <2>2. t.pkg \in Package /\ t.pkg # task.pkg /\ t.pc = "deps" BY StackLevels
  <2>3. Unlisted(t.pkg) BY <2>2 DEF AddRequired, UnlistedOK
  <2> QED BY <2>2, <2>3, AddStepLines DEF UnlistedOK
<1>S. ASSUME Waiting' \subseteq Waiting, UnlistedOK(task)'
      PROVE  \A t \in (Waiting \cup {task})' : UnlistedOK(t)'
  BY <1>W, <1>S DEF UnlistedOK
<1>R. ASSUME NEW status \in {"ok", "fail"}, Return(status)
      PROVE  \A t \in (Waiting \cup {task})' : UnlistedOK(t)'
  <2>1. /\ Waiting' \subseteq Waiting
        /\ task' = NoTask \/ task' \in Waiting
    BY <1>R, ReturnWaiting
  <2>2. task' = NoTask => UnlistedOK(task)' BY NoTaskOK DEF UnlistedOK
  <2>3. task' \in Waiting => UnlistedOK(task)' BY <1>W DEF UnlistedOK
  <2> QED BY <1>S, <2>1, <2>2, <2>3
<1>1. CASE Exit("fail")
  <2>1. Waiting' = {} /\ task' = NoTask
    BY <1>1, EmptySeq DEF Exit, Waiting
  <2>2. UnlistedOK(task)' BY <2>1, NoTaskOK DEF UnlistedOK
  <2> QED BY <1>S, <2>1, <2>2
<1>2. CASE CheckPasses
  <2>1. /\ callers' = callers /\ task'.pkg = task.pkg
        /\ task.pkg \notin contents /\ UNCHANGED <<requiredBy, stale>>
    BY <1>0, <1>2 DEF CheckPasses, Task, dbvars
  <2>2. task.pkg \in stale' \/ \A q \in Package : task.pkg \notin requiredBy'[q]
    BY <1>0, <2>1 DEF DbRequired, RequiredByJustified
  <2>3. UnlistedOK(task)' BY <2>1, <2>2 DEF UnlistedOK, Unlisted
  <2>4. Waiting' = Waiting BY <2>1 DEF Waiting
  <2> QED BY <1>S, <2>3, <2>4
<1>3. CASE /\ callers' = callers /\ task'.pkg = task.pkg
           /\ task.pc \notin {"check", "register"}
  <2>1. Unlisted(task.pkg) BY <1>0, <1>3 DEF UnlistedOK
  <2>2. task.pkg \in stale' \/ \A q \in Package : task.pkg \notin requiredBy'[q]
    BY <1>0, <1>3, <2>1, AddStepLines DEF Unlisted
  <2>3. UnlistedOK(task)' BY <1>3, <2>2 DEF UnlistedOK, Unlisted
  <2>4. Waiting' = Waiting BY <1>3 DEF Waiting
  <2> QED BY <1>S, <2>3, <2>4
<1>4. ASSUME NEW q \in Package, RegisterDepend(q)
      PROVE  \A t \in (Waiting \cup {task})' : UnlistedOK(t)'
  <2>1. task'.pc = "register" /\ callers' = callers
    BY <1>0, <1>4 DEF RegisterDepend, Task
  <2>2. UnlistedOK(task)' /\ Waiting' = Waiting
    BY <2>1 DEF UnlistedOK, Waiting
  <2> QED BY <1>S, <2>2
<1>5. ASSUME NEW d \in Pattern, DepInstall(d)
      PROVE  \A t \in (Waiting \cup {task})' : UnlistedOK(t)'
  <2>0. PICK t : t = [task EXCEPT !.todo = @ \ {d}] OBVIOUS
  <2>1. PICK q \in Package : /\ task.pc = "deps" /\ task' = NewTask(q, TRUE)
                             /\ Waiting' = Waiting \cup {t}
    BY <1>5, <2>0, CallWaiting
  <2>2. UNCHANGED <<requiredBy, stale>> BY <1>5 DEF DepInstall, dbvars
  <2>3. t.pkg = task.pkg /\ t.pc = task.pc BY <1>0, <2>0 DEF Task
  <2>4. UnlistedOK(t)' BY <1>0, <2>1, <2>2, <2>3 DEF UnlistedOK, Unlisted
  <2>5. UnlistedOK(task)' BY <2>1 DEF UnlistedOK, NewTask
  <2> QED BY <1>W, <2>1, <2>4, <2>5 DEF UnlistedOK
<1> QED BY <1>R, <1>1, <1>2, <1>3, <1>4, <1>5, AddMoves, LeavesCheck

-----------------------------------------------------------------------------
(* robotpkg_delete, robotpkg_admin, interruptions.                          *)

\* Fewer lines, the same directories, no +CONTENTS lost.
LEMMA FewerLines ==
    ASSUME DbRequired, UNCHANGED <<pkgdir, stale>>, contents \subseteq contents',
           \A q \in Package : requiredBy'[q] \subseteq requiredBy[q]
    PROVE  DbRequired'
BY DEF DbRequired, RequiredByJustified

LEMMA VictimIsPackage ==
    ASSUME DelControl, dpc \in {"files", "depends", "directory"}
    PROVE  Victim \in Package
<1>1. 1 \in 1..Len(sorted)
  BY EmptySeq, LenProperties DEF DelControl, DelTypeOK
<1> QED BY <1>1, ElementOfSeq DEF DelControl, DelTypeOK, Victim

LEMMA DeleteStepRequired ==
    ASSUME DbTypeOK, DelControl, DbRequired, DelRequired, DeleteStep
    PROVE  DbRequired' /\ DelRequired'
<1>1. CASE RemoveFiles
  <2>1. UNCHANGED <<pkgdir, contents, requiredBy, stale>> /\ dpc' = "depends"
    BY <1>1 DEF RemoveFiles, DelGoto
  <2> QED BY <2>1, FewerLines DEF DelRequired
<1>2. CASE RemoveFromDepends
  <2>1. dpc = "depends" /\ UNCHANGED <<pkgdir, contents, sorted>>
    BY <1>2 DEF RemoveFromDepends, DelGoto
  <2>2. Victim \in Package BY <2>1, VictimIsPackage
  <2>3. /\ Victim \in stale' \/ \A q \in Package : Victim \notin requiredBy'[q]
        /\ DbRequired'
    BY <1>2, <2>1, <2>2, RemoveDependsUnlists DEF RemoveFromDepends, Unlisted
  <2> QED BY <2>1, <2>3 DEF DelRequired, Unlisted, Victim
<1>3. CASE RemovePkgDirectory
  <2>1. /\ dpc = "directory" /\ dpc' \in {"remove", "none"}
    BY <1>3 DEF RemovePkgDirectory, DelExit
  <2>2. Victim \in Package /\ Unlisted(Victim)
    BY <2>1, VictimIsPackage DEF DelRequired
  <2>3. DbRequired' BY <1>3, <2>2, RemoveDirectoryRequired DEF RemovePkgDirectory
  <2> QED BY <2>1, <2>3 DEF DelRequired
<1>4. CASE UNCHANGED dbvars /\ dpc' # "directory"
  BY <1>4, FewerLines DEF dbvars, DelRequired
<1>5. ASSUME NEW p \in Package,
             SortMove(p) \/ SortRecurse(p) \/ SortForced(p) \/ AddLeaf(p)
      PROVE  UNCHANGED dbvars /\ dpc' # "directory"
  BY <1>5 DEF SortMove, SortRecurse, SortForced, AddLeaf
<1>6. CASE \/ \E i \in DOMAIN sorted : DropPreserved(i)
           \/ SortStuck \/ SortDone \/ LeavesDone \/ CheckPreserve
           \/ RemoveDone \/ RemoveMissing \/ RemoveStarts \/ DeinstallFails
  <2>1. UNCHANGED dbvars /\ dpc' # "directory"
    BY <1>6
    DEF DropPreserved, SortStuck, SortDone, LeavesDone, CheckPreserve,
        RemoveDone, RemoveMissing, RemoveStarts, DeinstallFails, DelGoto, DelExit
  <2> QED BY <1>4, <2>1
<1> QED BY <1>1, <1>2, <1>3, <1>4, <1>5, <1>6 DEF DeleteStep

\* What rebuild-tree computes is justified.
LEMMA ForwardDependsJustified ==
    ASSUME DbTypeOK, pkgdir \subseteq contents,
           NEW best \in [Pattern -> Package \cup {None}],
           \A d \in Pattern : IF Providers(d) = {} THEN best[d] = None
                             ELSE IsBest(best[d], Providers(d)),
           tree' = ForwardDepends(best)
    PROVE  \A p \in Package : \A q \in tree'[p] : Justified(q, p)
<1> SUFFICES ASSUME NEW p \in Package, NEW q \in tree'[p]
             PROVE  Justified(q, p)
  OBVIOUS
<1>1. q \in pkgdir /\ \E d \in Deps[q] : best[d] = p BY DEF ForwardDepends
<1>2. PICK d \in Deps[q] : best[d] = p BY <1>1
<1>3. q \in Package /\ d \in Pattern BY <1>1, PkgDbAssumption DEF DbTypeOK
<1>4. p \in Providers(d) BY <1>2, <1>3, PkgDbAssumption DEF IsBest
<1> QED BY <1>1, <1>4 DEF Justified, Providers

LEMMA AdminStepRequired ==
    ASSUME DbTypeOK, AdmTypeOK, DbRequired, TreeRequired, AdminStep
    PROVE  DbRequired' /\ TreeRequired'
<1>1. CASE /\ apc' \notin {"remove", "write"}
           /\ UNCHANGED <<pkgdir, contents, requiredBy, stale>>
  BY <1>1, FewerLines DEF TreeRequired
<1>2. ASSUME NEW p \in Package, RebuildAdd(p) \/ RebuildAborts(p)
      PROVE  /\ apc' \notin {"remove", "write"}
             /\ UNCHANGED <<pkgdir, contents, requiredBy, stale>>
  BY <1>2 DEF RebuildAdd, RebuildAborts, AdmExit, dbvars
<1>3. CASE RebuildDone
  BY <1>1, <1>3 DEF RebuildDone, AdmExit, dbvars
<1>7. CASE RebuildTreeDone
  <2>1. /\ UNCHANGED <<pkgdir, contents, requiredBy>> /\ apc' = "none"
        /\ apc = "write"
    BY <1>7 DEF RebuildTreeDone, AdmExit
  <2>2. \A p \in Package : \A q \in requiredBy[p] : Justified(q, p)
    BY <2>1 DEF TreeRequired
  <2> QED BY <2>1, <2>2 DEF DbRequired, RequiredByJustified, Justified, TreeRequired
<1>4. CASE RemovedRequiredBy
  <2>1. /\ UNCHANGED <<pkgdir, contents, requiredBy, stale, tree>>
        /\ apc = "remove" /\ atodo = {} /\ atodo' = pkgdir /\ apc' = "write"
    BY <1>4 DEF RemovedRequiredBy, dbvars
  <2>2. \A p \in Package : requiredBy[p] = {}
    BY <2>1 DEF TreeRequired, DbRequired
  <2>3. TreeRequired' BY <2>1, <2>2 DEF TreeRequired, Justified
  <2> QED BY <2>1, <2>3, FewerLines
<1>5. ASSUME NEW p \in Package, RemoveRequiredBy(p)
      PROVE  DbRequired' /\ TreeRequired'
  <2>1. /\ UNCHANGED <<pkgdir, contents, stale, tree, apc>>
        /\ apc = "remove" /\ atodo' = atodo \ {p}
        /\ \A q \in Package :
               requiredBy'[q] = IF q = p THEN {} ELSE requiredBy[q]
    BY <1>5 DEF RemoveRequiredBy, DbTypeOK
  <2>2. TreeRequired' BY <2>1 DEF TreeRequired, Justified, DbTypeOK
  <2> QED BY <2>1, <2>2, FewerLines
<1>6. ASSUME NEW p \in Package, WriteRequiredBy(p)
      PROVE  DbRequired' /\ TreeRequired'
  <2>1. /\ UNCHANGED <<pkgdir, contents, stale, tree, apc>>
        /\ apc = "write" /\ atodo' \subseteq atodo /\ p \in atodo
        /\ \A q \in Package :
               requiredBy'[q] = IF q = p THEN requiredBy[q] \cup tree[q]
                                         ELSE requiredBy[q]
    BY <1>6 DEF WriteRequiredBy, DbTypeOK
  <2>2. p \in pkgdir /\ \A q \in tree[p] : Justified(q, p)
    BY <2>1 DEF TreeRequired
  <2>3. RequiredByJustified'
    <3>1. ASSUME NEW q \in Package, NEW r \in Package, r \in requiredBy'[q]
          PROVE  r \in contents \cup stale /\ \E d \in Deps[r] : q \in Matches[d]
      <4>1. CASE r \in requiredBy[q]
        BY <4>1 DEF DbRequired, RequiredByJustified
      <4>2. CASE r \notin requiredBy[q]
        <5>1. q = p /\ r \in tree[p] BY <2>1, <3>1, <4>2
        <5> QED BY <2>2, <5>1 DEF Justified
      <4> QED BY <4>1, <4>2
    <3> QED BY <2>1, <3>1 DEF RequiredByJustified
  <2>4. \A q \in Package \ pkgdir' : requiredBy'[q] = {}
    BY <2>1, <2>2 DEF DbRequired
  <2>5. TreeRequired' BY <2>1 DEF TreeRequired, Justified
  <2> QED BY <2>3, <2>4, <2>5 DEF DbRequired
<1> QED BY <1>1, <1>2, <1>3, <1>4, <1>5, <1>6, <1>7 DEF AdminStep

LEMMA CrashRequired ==
    ASSUME ControlInv, DbRequired, "torn" \notin Faults, Crash
    PROVE  DbRequired'
<1>0. DbTypeOK BY DEF ControlInv, TypeOK
<1>1. CASE CrashBetween \/ CrashWriting \/ CrashExtracting
  BY <1>1, FewerLines DEF CrashBetween, CrashWriting, CrashExtracting, dbvars
<1>2. ASSUME NEW p \in Package, CrashDeleting(p) PROVE DbRequired'
  BY <1>2, FewerLines DEF CrashDeleting
<1>3. ASSUME NEW p \in Package, CrashUnregistering(p) PROVE DbRequired'
  <2>1. \A q \in Package : requiredBy'[q] \subseteq requiredBy[q]
    BY <1>3 DEF CrashUnregistering
  <2> QED BY <1>3, <2>1, FewerLines DEF CrashUnregistering
<1>4. ASSUME NEW p \in Package, CrashRemovingDirectory(p) PROVE DbRequired'
  <2>1. \A q \in Package : requiredBy'[q] \subseteq requiredBy[q]
    BY <1>0, <1>4 DEF CrashRemovingDirectory, DbTypeOK
  <2> QED BY <1>4, <2>1, FewerLines DEF CrashRemovingDirectory
<1> QED BY <1>1, <1>2, <1>3, <1>4 DEF Crash

-----------------------------------------------------------------------------
(* The invariant.                                                           *)

\* The user forces no dependents' check.
NoForcedCheck == \A opts \in AddOptions : opts \cap {"D", "f"} = {}

LEMMA RequiredInit == Init => RequiredInv
<1> SUFFICES ASSUME Init PROVE RequiredInv OBVIOUS
<1>1. Waiting = {} BY EmptyStack DEF Init, AddInit
<1>2. DbRequired BY DEF Init, DbInit, DbRequired, RequiredByJustified
<1>3. AddRequired
  BY <1>1 DEF Init, AddInit, NoTask, AddRequired, UnlistedOK, ReplacedOK,
              ForceDepending, ForceAdd
<1>4. DelRequired /\ TreeRequired
  BY DEF Init, DelInit, AdmInit, DelRequired, TreeRequired
<1> QED BY <1>2, <1>3, <1>4 DEF RequiredInv

\* Outside pkg_do() only the flags matter.
LEMMA RestRequired ==
    ASSUME callers' = <<>>, task'.pc \in {"none", "check"}, ~ForceDepending'
    PROVE  AddRequired'
<1>1. Waiting' = {} BY EmptySeq DEF Waiting
<1> QED BY <1>1 DEF AddRequired, UnlistedOK, ReplacedOK

LEMMA RequiredStep ==
    ASSUME "torn" \notin Faults, NoForcedCheck,
           ControlInv, StackInv, DirsInv, OwnerInv, RequiredInv, [Next]_vars
    PROVE  RequiredInv'
<1>0. /\ DbTypeOK /\ AddControl /\ DelControl /\ AdmTypeOK /\ OneProgram
      /\ AddIndex
      /\ DbRequired /\ AddRequired /\ DelRequired /\ TreeRequired
  BY DEF ControlInv, TypeOK, OwnerInv, RequiredInv
<1>A. ASSUME UNCHANGED addvars, task.pc = "none" PROVE AddRequired'
  <2>1. callers' = <<>> /\ task'.pc = "none" /\ addopts' = addopts
    BY <1>0, <1>A, RestCallers DEF addvars
  <2>2. ~ForceDepending'
    BY <1>0, <2>1 DEF AddRequired, ForceDepending, ForceAdd
  <2> QED BY <2>1, <2>2, RestRequired
<1>D. ASSUME UNCHANGED <<pkgdir, contents, requiredBy, stale>> PROVE DbRequired'
  BY <1>0, <1>D, FewerLines
<1>I. ASSUME dpc' = "none" PROVE DelRequired' BY <1>I DEF DelRequired
<1>T. ASSUME apc' = "none" PROVE TreeRequired' BY <1>T DEF TreeRequired
<1>1. CASE UserAdd
  <2>1. PICK p \in Package, opts \in AddOptions : AddCommand(p, opts)
    BY <1>1 DEF UserAdd
  <2>2. /\ dpc' = "none" /\ apc' = "none" /\ callers' = <<>>
        /\ task'.pc = "check" /\ addopts' = opts /\ UNCHANGED dbvars
    BY <1>1, <2>1 DEF UserAdd, Idle, AddCommand, NewTask, delvars, admvars
  <2>3. ~ForceDepending' BY <2>2 DEF NoForcedCheck, ForceDepending, ForceAdd
  <2>4. AddRequired' BY <2>2, <2>3, RestRequired
  <2>5. DbRequired' BY <1>D, <2>2 DEF dbvars
  <2> QED BY <1>I, <1>T, <2>2, <2>4, <2>5 DEF RequiredInv
<1>2. CASE UserDelete
  <2>1. /\ UNCHANGED <<addvars, dbvars>> /\ task.pc = "none"
        /\ dpc' = "sort" /\ apc' = "none"
    BY <1>2 DEF UserDelete, DeleteCommand, Idle, admvars
  <2>2. DbRequired' BY <1>D, <2>1 DEF dbvars
  <2>3. DelRequired' BY <2>1 DEF DelRequired
  <2> QED BY <1>A, <1>T, <2>1, <2>2, <2>3 DEF RequiredInv
<1>3. CASE UserAdmin
  <2>1. /\ UNCHANGED <<addvars, delvars>> /\ task.pc = "none" /\ dpc' = "none"
        /\ UNCHANGED <<pkgdir, contents, requiredBy, stale>>
    BY <1>3 DEF UserAdmin, Idle, RebuildCommand, RebuildTreeCommand,
                SetAutomatic, dbvars, delvars
  <2>2. TreeRequired'
    <3>1. CASE RebuildTreeCommand
      <4>1. /\ pkgdir \subseteq contents /\ atodo' = pkgdir /\ apc' = "remove"
            /\ UNCHANGED dbvars
        BY <3>1 DEF RebuildTreeCommand
      <4>2. \A p \in Package : \A q \in tree'[p] : Justified(q, p)
        BY <1>0, <3>1, ForwardDependsJustified DEF RebuildTreeCommand
      <4> QED BY <4>1, <4>2 DEF TreeRequired, Justified, dbvars
    <3>2. CASE ~RebuildTreeCommand
      <4>1. apc' \notin {"remove", "write"}
        BY <1>3, <3>2 DEF UserAdmin, Idle, RebuildCommand, SetAutomatic, admvars
      <4> QED BY <4>1 DEF TreeRequired
    <3> QED BY <3>1, <3>2
  <2> QED BY <1>A, <1>D, <1>I, <2>1, <2>2 DEF RequiredInv
<1>4. CASE AddStep /\ UNCHANGED <<delvars, admvars>>
  <2>1. dpc' = "none" /\ apc' = "none"
    BY <1>0, <1>4, StepsOfTheRunning DEF OneProgram, delvars, admvars
  <2>2. DbRequired' BY <1>0, <1>4, AddStepLines
  <2>3. ~ForceDepending'
    BY <1>0, <1>4, AddOptsFixed DEF AddRequired, ForceDepending, ForceAdd
  <2>4. ReplacedOK' BY <1>0, <1>4, AddStepReplaced
  <2>5. \A t \in (Waiting \cup {task})' : UnlistedOK(t)'
    BY <1>0, <1>4, AddStepUnlisted
  <2>6. AddRequired' BY <2>3, <2>4, <2>5 DEF AddRequired, UnlistedOK
  <2> QED BY <1>I, <1>T, <2>1, <2>2, <2>6 DEF RequiredInv
<1>5. CASE DeleteStep /\ UNCHANGED <<addvars, admvars>>
  <2>1. task.pc = "none" /\ apc' = "none"
    BY <1>0, <1>5, StepsOfTheRunning DEF OneProgram, admvars
  <2>2. DbRequired' /\ DelRequired' BY <1>0, <1>5, DeleteStepRequired
  <2> QED BY <1>A, <1>T, <1>5, <2>1, <2>2 DEF RequiredInv
<1>6. CASE AdminStep /\ UNCHANGED <<addvars, delvars>>
  <2>1. task.pc = "none" /\ dpc' = "none"
    BY <1>0, <1>6, StepsOfTheRunning DEF OneProgram, delvars
  <2>2. DbRequired' /\ TreeRequired' BY <1>0, <1>6, AdminStepRequired
  <2> QED BY <1>A, <1>I, <1>6, <2>1, <2>2 DEF RequiredInv
<1>7. CASE Crash
  <2>1. /\ callers' = <<>> /\ task' = NoTask /\ addopts' = addopts
        /\ dpc' = "none" /\ apc' = "none"
    BY <1>7 DEF Crash, Exit, DelExit, AdmExit
  <2>2. ~ForceDepending'
    BY <1>0, <2>1 DEF AddRequired, ForceDepending, ForceAdd
  <2>3. AddRequired' BY <2>1, <2>2, RestRequired, NoTaskOK
  <2>4. DbRequired' BY <1>0, <1>7, CrashRequired
  <2> QED BY <1>I, <1>T, <2>1, <2>3, <2>4 DEF RequiredInv
<1>8. CASE UNCHANGED vars
  BY <1>0, <1>8
  DEF vars, dbvars, addvars, delvars, admvars, RequiredInv, DbRequired,
      RequiredByJustified, AddRequired, ForceDepending, ForceAdd, Waiting,
      UnlistedOK, Unlisted, ReplacedOK, Replacing, Justified, DelRequired,
      Victim, TreeRequired
<1> QED BY <1>1, <1>2, <1>3, <1>4, <1>5, <1>6, <1>7, <1>8 DEF Next, Tools

\* A +REQUIRED_BY line stands where one of its package's @pkgdep patterns
\* leads, so remove_depend() (delete/pkg_delete.c:497) finds it when the package
\* goes, and it names a package that is installed, unless remove_line() failed
\* when that package was removed: through failures, updates, interruptions and
\* robotpkg_admin rebuild-tree, which takes the left lines out.
THEOREM RequiredCorrect ==
    ASSUME "torn" \notin Faults, NoForcedCheck
    PROVE  Spec => []RequiredByJustified
<1> DEFINE IInv == ControlInv /\ StackInv /\ DirsInv /\ OwnerInv /\ RequiredInv
<1>1. Init => IInv BY ControlInit, OwnerInit, RequiredInit
<1>2. IInv /\ [Next]_vars => IInv' BY ControlStep, OwnerStep, RequiredStep
<1>3. IInv => RequiredByJustified BY DEF RequiredInv, DbRequired
<1> QED BY <1>1, <1>2, <1>3, PTL DEF Spec

-----------------------------------------------------------------------------
(* The order of removal: the list of packages to delete.                    *)

\* The user does not skip preserved packages.
NoSkipping == \A opts \in DeleteOptions : "k" \notin opts

\* A package required by packages of the list only goes to its end.
LEMMA AppendOrdered ==
    ASSUME DelControl, Ordered, NEW p \in Package, requiredBy[p] \subseteq Listed,
           sorted' = Append(sorted, p), UNCHANGED <<requiredBy, pkgdir>>
    PROVE  Ordered'
<1> DEFINE n == Len(sorted)
<1>1. /\ n \in Nat /\ Len(sorted') = n + 1
      /\ \A i \in 1..n : sorted'[i] = sorted[i]
      /\ sorted'[n + 1] = p
      /\ DOMAIN sorted = 1..n
  BY AppendProperties, LenProperties DEF DelControl, DelTypeOK
<1> HIDE DEF n
<1>2. SUFFICES ASSUME NEW i \in 1..Len(sorted')
               PROVE  requiredBy[sorted'[i]] \cap pkgdir \subseteq
                          {sorted'[j] : j \in 1..(i - 1)}
  BY DEF Ordered
<1>3. /\ i \in Nat /\ 1..(i - 1) \subseteq 1..n
      /\ i \in 1..n \/ i = n + 1
  BY <1>1
<1>4. {sorted'[j] : j \in 1..(i - 1)} = {sorted[j] : j \in 1..(i - 1)}
  BY <1>1, <1>3
<1>5. CASE i \in 1..n
  BY <1>1, <1>4, <1>5 DEF Ordered, n
<1>6. CASE i = n + 1
  <2>1. 1..(i - 1) = 1..n BY <1>1, <1>6
  <2> QED BY <1>1, <1>4, <1>6, <2>1 DEF Listed
<1> QED BY <1>3, <1>5, <1>6

\* The head of the list leaves it with its directory.
LEMMA TailOrdered ==
    ASSUME DelControl, Ordered, sorted # <<>>, sorted' = Tail(sorted),
           pkgdir' = pkgdir \ {Victim},
           \A q \in Package : requiredBy'[q] \subseteq requiredBy[q]
    PROVE  Ordered'
<1>1. /\ Len(sorted) \in Nat \ {0} /\ Len(sorted') = Len(sorted) - 1
      /\ \A i \in 1..Len(sorted') : sorted'[i] = sorted[i + 1]
      /\ \A i \in 1..Len(sorted) : sorted[i] \in Package
  BY HeadTailProperties, EmptySeq, ElementOfSeq DEF DelControl, DelTypeOK
<1>2. SUFFICES ASSUME NEW i \in 1..Len(sorted')
               PROVE  requiredBy'[sorted'[i]] \cap pkgdir' \subseteq
                          {sorted'[j] : j \in 1..(i - 1)}
  BY DEF Ordered
<1>3. i + 1 \in 1..Len(sorted) /\ sorted'[i] = sorted[i + 1] BY <1>1
<1>4. ASSUME NEW r \in requiredBy'[sorted'[i]] \cap pkgdir'
      PROVE  \E j \in 1..(i - 1) : r = sorted'[j]
  <2>1. r \in requiredBy[sorted[i + 1]] \cap pkgdir /\ r # sorted[1]
    BY <1>1, <1>3, <1>4 DEF Victim
  <2>2. PICK j \in 1..((i + 1) - 1) : r = sorted[j]
    BY <1>3, <2>1 DEF Ordered
  <2>3. /\ j - 1 \in 1..(i - 1) /\ j - 1 \in 1..Len(sorted')
        /\ (j - 1) + 1 = j
    BY <1>1, <1>3, <2>1, <2>2
  <2>4. sorted'[j - 1] = sorted[j] BY <1>1, <2>3
  <2> QED BY <2>2, <2>3, <2>4
<1> QED BY <1>4

\* Removing lines keeps the order.
LEMMA FewerOrdered ==
    ASSUME DelControl, Ordered, UNCHANGED <<sorted, pkgdir>>,
           \A q \in Package : requiredBy'[q] \subseteq requiredBy[q]
    PROVE  Ordered'
<1>1. \A i \in 1..Len(sorted) : sorted[i] \in Package
  BY ElementOfSeq DEF DelControl, DelTypeOK
<1> QED BY <1>1 DEF Ordered

-----------------------------------------------------------------------------
(* robotpkg_delete.                                                         *)

LEMMA DeleteStepOrder ==
    ASSUME DbTypeOK, DelControl, DbRequired, DelRequired, DelOrder, DeleteStep
    PROVE  DelOrder'
<1>0. /\ dpc # "none" BY StepsOfTheRunning
<1>E. ASSUME delopts' = delopts, dpc' # "forced", dpc' = "none" \/ Forced
      PROVE  DelOrder'
  BY <1>E DEF DelOrder, Forced
<1>K. ASSUME delopts' = delopts, dpc' = "forced" => Forced, ~Forced => Ordered'
      PROVE  DelOrder'
  BY <1>K DEF DelOrder, Forced
<1>O. ASSUME ~Forced PROVE Ordered BY <1>0, <1>O DEF DelOrder
<1>S. ASSUME UNCHANGED <<sorted, requiredBy, pkgdir>> PROVE Ordered => Ordered'
  BY <1>S DEF Ordered
<1>1. ASSUME NEW p \in Package, SortMove(p) PROVE DelOrder'
  <2>1. /\ delopts' = delopts /\ dpc' = "sort" /\ UNCHANGED <<requiredBy, pkgdir>>
        /\ sorted' = Append(sorted, p) /\ requiredBy[p] \subseteq Listed
    BY <1>1 DEF SortMove, Ready, dbvars
  <2>2. ~Forced => Ordered' BY <1>O, <2>1, AppendOrdered
  <2> QED BY <1>K, <2>1, <2>2
<1>2. ASSUME NEW p \in Package, SortRecurse(p) PROVE DelOrder'
  <2>1. /\ delopts' = delopts /\ dpc' = "sort"
        /\ UNCHANGED <<sorted, requiredBy, pkgdir>>
    BY <1>2 DEF SortRecurse, dbvars
  <2> QED BY <1>K, <1>O, <1>S, <2>1
<1>3. ASSUME NEW p \in Package, SortForced(p) PROVE DelOrder'
  BY <1>3, <1>K DEF SortForced, DelOrder
<1>4. ASSUME NEW p \in Package, AddLeaf(p) PROVE DelOrder'
  <2>1. /\ delopts' = delopts /\ dpc' = "leaves" /\ UNCHANGED <<requiredBy, pkgdir>>
        /\ sorted' = Append(sorted, p) /\ requiredBy[p] \subseteq Listed
    BY <1>4 DEF AddLeaf, NewLeaf, dbvars
  <2>2. ~Forced => Ordered' BY <1>O, <2>1, AppendOrdered
  <2> QED BY <1>K, <2>1, <2>2
<1>5. ASSUME NEW i \in DOMAIN sorted, DropPreserved(i) PROVE DelOrder'
  BY <1>5 DEF DropPreserved, DelOrder
<1>6. CASE SortStuck
  <2>1. CASE Forced
    <3>1. delopts' = delopts /\ dpc' = "forced"
      BY <1>6, <2>1 DEF SortStuck, DelGoto
    <3> QED BY <1>K, <2>1, <3>1
  <2>2. CASE ~Forced
    BY <1>6, <1>E, <2>2 DEF SortStuck, DelExit
  <2> QED BY <2>1, <2>2
<1>7. CASE SortDone \/ LeavesDone \/ RemoveStarts
  <2>1. /\ delopts' = delopts /\ dpc' # "forced"
        /\ UNCHANGED <<sorted, requiredBy, pkgdir>>
    BY <1>7 DEF SortDone, LeavesDone, RemoveStarts, DelGoto, dbvars
  <2> QED BY <1>K, <1>O, <1>S, <2>1
<1>8. CASE CheckPreserve \/ RemoveDone \/ DeinstallFails
  <2>1. CASE DelExit BY <1>E, <2>1 DEF DelExit
  <2>2. CASE ~DelExit
    <3>1. /\ delopts' = delopts /\ dpc' = "remove"
          /\ UNCHANGED <<sorted, requiredBy, pkgdir>>
      BY <1>8, <2>2 DEF CheckPreserve, RemoveDone, DeinstallFails, DelGoto,
                        Forced, dbvars
    <3> QED BY <1>K, <1>O, <1>S, <3>1
  <2> QED BY <2>1, <2>2
<1>9. CASE RemoveMissing
  <2>1. CASE DelExit BY <1>E, <2>1 DEF DelExit
  <2>2. CASE ~DelExit
    <3>1. Forced /\ delopts' = delopts /\ dpc' = "remove"
      BY <1>9, <2>2 DEF RemoveMissing
    <3> QED BY <1>E, <3>1
  <2> QED BY <2>1, <2>2
<1>10. CASE RemoveFiles
  <2>1. /\ delopts' = delopts /\ dpc' = "depends"
        /\ UNCHANGED <<sorted, requiredBy, pkgdir>>
    BY <1>10 DEF RemoveFiles, DelGoto
  <2> QED BY <1>K, <1>O, <1>S, <2>1
<1>11. CASE RemoveFromDepends
  <2>1. /\ delopts' = delopts /\ dpc' = "directory" /\ dpc = "depends"
        /\ UNCHANGED <<sorted, pkgdir, contents>>
    BY <1>11 DEF RemoveFromDepends, DelGoto
  <2>2. \A q \in Package : requiredBy'[q] \subseteq requiredBy[q]
    BY <1>11, <2>1, VictimIsPackage, RemoveDependsUnlists DEF RemoveFromDepends
  <2> QED BY <1>K, <1>O, <2>1, <2>2, FewerOrdered
<1>12. CASE RemovePkgDirectory
  <2>1. CASE DelExit BY <1>E, <2>1 DEF DelExit
  <2>2. CASE ~DelExit
    <3>1. /\ delopts' = delopts /\ dpc' = "remove" /\ sorted' = Tail(sorted)
          /\ dpc = "directory"
      BY <1>12, <2>2 DEF RemovePkgDirectory
    <3>2. sorted # <<>> /\ Victim \in Package /\ Unlisted(Victim)
      BY <3>1, VictimIsPackage DEF DelControl, DelRequired
    <3>3. \A q \in Package : requiredBy'[q] \subseteq requiredBy[q]
      BY <1>12, <3>2, RemoveDirectoryRequired DEF RemovePkgDirectory
    <3>4. pkgdir' = pkgdir \ {Victim}
      BY <1>12 DEF RemovePkgDirectory, RemoveDirectory
    <3> QED BY <1>K, <1>O, <3>1, <3>2, <3>3, <3>4, TailOrdered
  <2> QED BY <2>1, <2>2
<1> QED BY <1>1, <1>2, <1>3, <1>4, <1>5, <1>6, <1>7, <1>8, <1>9, <1>10, <1>11,
           <1>12 DEF DeleteStep

-----------------------------------------------------------------------------
(* The removal of the old version by robotpkg_add.                          *)

\* It is under way only after robotpkg_delete has accepted it.
LEMMA AddEntersDelete ==
    ASSUME AddControl, AddStep, task'.pc \in {"dfiles", "dunreg", "drm"}
    PROVE  DeleteOldStarts \/ DeleteOldFiles \/ DeleteOldDepends
<1> USE DEF PC
<1> DEFINE Deleting == task'.pc \in {"dfiles", "dunreg", "drm"}
<1>0. task \in Task BY DEF AddControl, AddTypeOK
<1>G. ASSUME NEW pc \in PC, Goto(pc) PROVE task'.pc = pc
  BY <1>0, <1>G DEF Goto, Task
<1>R. ASSUME NEW status \in {"ok", "fail"}, Return(status) PROVE ~Deleting
  BY <1>R, ReturnPc
<1>1. CASE AlreadyInstalled \/ CheckRefuses \/ Installed \/ NukeDirectory
  BY <1>1, <1>R DEF AlreadyInstalled, CheckRefuses, Installed, NukeDirectory
<1>2. CASE CheckAborts BY <1>2, NoTaskOK DEF CheckAborts, Exit
<1>3. CASE CheckPasses BY <1>0, <1>3 DEF CheckPasses, Task
<1>4. ASSUME NEW d \in Pattern, DepPresent(d) \/ DepInstall(d) PROVE ~Deleting
  BY <1>0, <1>4 DEF DepPresent, DepInstall, NewTask, Task
<1>5. ASSUME DepsFail PROVE ~Deleting
  BY <1>5, <1>R, <1>G DEF DepsFail
<1>6. ASSUME NEW d \in Pattern, DepNoArchive(d) PROVE ~Deleting
  BY <1>0, <1>5, <1>6 DEF DepNoArchive, Task, ForceAdd
<1>7. CASE DepReturned
  <2>1. CASE Return("fail") BY <1>R, <2>1
  <2>2. CASE ~Return("fail")
    <3>1. /\ task.pc = "deps"
          /\ task' = task \/ task' = [task EXCEPT !.pc = "nukepkgdb"]
      BY <1>7, <2>2 DEF DepReturned
    <3> QED BY <1>0, <3>1 DEF Task
  <2> QED BY <2>1, <2>2
<1>8. CASE DepsResolved
  <2>1. CASE DepsFail BY <1>5, <2>1
  <2>2. CASE ~DepsFail
    <3>1. PICK best \in [Deps[task.pkg] -> Package] :
              task' = [task EXCEPT !.deps = {best[d] : d \in Deps[task.pkg]},
                                   !.pc = IF Replacing THEN "pre" ELSE "mkdir"]
      BY <1>8, <2>2 DEF DepsResolved
    <3>2. task'.pc \in {"pre", "mkdir"} BY <1>0, <3>1 DEF Task
    <3> QED BY <3>2
  <2> QED BY <2>1, <2>2
<1>9. CASE WriteMetaData
  <2>1. \E pc \in {"move", "pre"} : Goto(pc) BY <1>9 DEF WriteMetaData
  <2> QED BY <1>G, <2>1
<1>10. CASE \/ MakeDirectory \/ WriteMetaDataFails
            \/ MoveRequiredBy \/ MoveMarks \/ MoveFails
  BY <1>10, <1>G DEF MakeDirectory, WriteMetaDataFails, MoveRequiredBy,
                     MoveMarks, MoveFails
<1>11. CASE DeleteOldFails \/ DeleteOldDirectory \/ PreInstall
  BY <1>11, <1>G DEF DeleteOldFails, DeleteOldDirectory, PreInstall
<1>12. ASSUME NEW f \in File, ExtractFile(f) \/ ExtractFails(f) PROVE ~Deleting
  <2>1. CASE ExtractFile(f) BY <1>0, <2>1 DEF ExtractFile, Task
  <2>2. CASE ExtractFails(f) BY <1>G, <2>2 DEF ExtractFails
  <2> QED BY <1>12, <2>1, <2>2
<1>13. CASE Extracted \/ PostInstall \/ NukePackage
  BY <1>13, <1>G DEF Extracted, PostInstall, NukePackage
<1>14. ASSUME NEW q \in Package, RegisterDepend(q) PROVE ~Deleting
  BY <1>0, <1>14 DEF RegisterDepend, Task
<1> QED BY <1>1, <1>2, <1>3, <1>4, <1>6, <1>7, <1>8, <1>9, <1>10, <1>11, <1>12,
           <1>13, <1>14 DEF AddStep

LEMMA AddStepOrder ==
    ASSUME DbTypeOK, AddControl, DbRequired, AddOrder, AddStep
    PROVE  AddOrder'
<1>0. task \in Task /\ TaskOK(task)
  BY DEF AddControl, AddTypeOK
<1>1. SUFFICES ASSUME task'.pc \in {"dfiles", "dunreg", "drm"}
               PROVE  requiredBy'[task'.other] = {}
  BY DEF AddOrder
<1>2. DeleteOldStarts \/ DeleteOldFiles \/ DeleteOldDepends
  BY <1>1, AddEntersDelete
<1>3. /\ task'.other = task.other /\ task.pc \in {"delete", "dfiles", "dunreg"}
  BY <1>0, <1>2 DEF DeleteOldStarts, DeleteOldFiles, DeleteOldDepends, Goto, Task
<1>4. requiredBy[task.other] = {} /\ task.other \in Package
  BY <1>0, <1>2, <1>3 DEF DeleteOldStarts, DeleteOldFiles, DeleteOldDepends,
                          AddOrder, TaskOK, Task, Moving
<1>5. requiredBy'[task.other] \subseteq requiredBy[task.other]
  <2>1. CASE DeleteOldStarts \/ DeleteOldFiles
    BY <2>1 DEF DeleteOldStarts, DeleteOldFiles, dbvars
  <2>2. CASE DeleteOldDepends
    BY <1>4, <2>2, RemoveDependsUnlists DEF DeleteOldDepends
  <2> QED BY <1>2, <2>1, <2>2
<1> QED BY <1>3, <1>4, <1>5

-----------------------------------------------------------------------------
(* The invariant.                                                           *)

LEMMA OrderInit == Init => OrderInv
BY DEF Init, AddInit, DelInit, NoTask, OrderInv, AddOrder, DelOrder

LEMMA OrderStep ==
    ASSUME NoSkipping, ControlInv, RequiredInv, OrderInv, [Next]_vars
    PROVE  OrderInv'
<1>0. /\ DbTypeOK /\ AddControl /\ DelControl /\ OneProgram
      /\ DbRequired /\ DelRequired /\ DelOrder /\ AddOrder
  BY DEF ControlInv, TypeOK, RequiredInv, OrderInv
<1>A. ASSUME task'.pc \in {"none", "check"} PROVE AddOrder'
  BY <1>A DEF AddOrder
<1>D. ASSUME dpc' = "none", delopts' = delopts PROVE DelOrder'
  BY <1>0, <1>D DEF DelOrder
<1>1. CASE UserAdd
  BY <1>1, <1>A, <1>D DEF UserAdd, Idle, AddCommand, NewTask, delvars, OrderInv
<1>2. CASE UserDelete
  <2>1. PICK S \in SUBSET contents, opts \in DeleteOptions : DeleteCommand(S, opts)
    BY <1>2 DEF UserDelete
  <2>2. /\ dpc' = "sort" /\ sorted' = <<>> /\ delopts' = opts
        /\ task'.pc = "none"
    BY <1>2, <2>1 DEF UserDelete, Idle, DeleteCommand, addvars
  <2>3. Len(sorted') = 0 BY <2>2, EmptySeq
  <2>4. DelOrder' BY <2>2, <2>3 DEF NoSkipping, DelOrder, Ordered
  <2> QED BY <1>A, <2>2, <2>4 DEF OrderInv
<1>3. CASE UserAdmin
  BY <1>3, <1>A, <1>D DEF UserAdmin, Idle, addvars, delvars, OrderInv
<1>4. CASE AddStep /\ UNCHANGED <<delvars, admvars>>
  <2>1. dpc' = "none" /\ delopts' = delopts
    BY <1>0, <1>4, StepsOfTheRunning DEF OneProgram, delvars
  <2> QED BY <1>0, <1>4, <1>D, <2>1, AddStepOrder DEF OrderInv
<1>5. CASE DeleteStep /\ UNCHANGED <<addvars, admvars>>
  <2>1. task'.pc = "none"
    BY <1>0, <1>5, StepsOfTheRunning DEF OneProgram, addvars
  <2> QED BY <1>0, <1>5, <1>A, <2>1, DeleteStepOrder DEF OrderInv
<1>6. CASE AdminStep /\ UNCHANGED <<addvars, delvars>>
  <2>1. task'.pc = "none" /\ dpc' = "none" /\ delopts' = delopts
    BY <1>0, <1>6, StepsOfTheRunning DEF OneProgram, addvars, delvars
  <2> QED BY <1>A, <1>D, <2>1 DEF OrderInv
<1>7. CASE Crash
  BY <1>7, <1>A, <1>D, NoTaskOK DEF Crash, Exit, DelExit, OrderInv
<1>8. CASE UNCHANGED vars
  BY <1>8 DEF vars, dbvars, addvars, delvars, OrderInv, AddOrder, DelOrder,
              Ordered, Forced
<1> QED BY <1>1, <1>2, <1>3, <1>4, <1>5, <1>6, <1>7, <1>8 DEF Next, Tools

\* The head of the list is required by nothing that is before it.
LEMMA OrderSuffices ==
    ASSUME ControlInv, OrderInv
    PROVE  DependentsFirst
<1>1. ASSUME dpc \in {"files", "depends", "directory"}, ~Forced
      PROVE  requiredBy[Victim] \cap pkgdir = {}
  <2>1. sorted # <<>> /\ Ordered
    BY <1>1 DEF ControlInv, DelControl, OrderInv, DelOrder
  <2>2. 1 \in 1..Len(sorted)
    BY <2>1, EmptySeq, LenProperties DEF ControlInv, DelControl, DelTypeOK
  <2>3. requiredBy[sorted[1]] \cap pkgdir \subseteq {sorted[j] : j \in 1..(1 - 1)}
    BY <2>1, <2>2 DEF Ordered
  <2> QED BY <2>3 DEF Victim
<1> QED BY <1>1 DEF DependentsFirst, OrderInv, AddOrder

\* sort_and_recurse() and find_new_leaves() (delete/pkg_delete.c) order the
\* packages so that, without -f, no package of the database is filed as
\* requiring one whose files robotpkg_delete deletes, lines that a failed
\* remove_line() has left included; and none at all as requiring the version a
\* replacing robotpkg_add removes.
\* -k breaks the order: it drops dependents and keeps what they depend on.
THEOREM DependentsFirstCorrect ==
    ASSUME "torn" \notin Faults, NoForcedCheck, NoSkipping
    PROVE  Spec => []DependentsFirst
<1> DEFINE IInv == /\ ControlInv /\ StackInv /\ DirsInv /\ OwnerInv
                   /\ RequiredInv /\ OrderInv
<1>1. Init => IInv BY ControlInit, OwnerInit, RequiredInit, OrderInit
<1>2. IInv /\ [Next]_vars => IInv'
  BY ControlStep, OwnerStep, RequiredStep, OrderStep
<1>3. IInv => DependentsFirst BY OrderSuffices
<1> QED BY <1>1, <1>2, <1>3, PTL DEF Spec
=============================================================================
