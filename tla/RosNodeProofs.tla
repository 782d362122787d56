------------------------------ MODULE RosNodeProofs -----------------------------
(****************************************************************************)
(* Theorems of RosNode, for any threads and numbers: the types and, by      *)
(* following the locale of each thread through a conversion, that a         *)
(* parameter is read alike under every locale and the thread gets its own   *)
(* back.                                                                    *)
(****************************************************************************)
EXTENDS RosNode, SequenceTheorems, TLAPS

\* A thread that converts a number with uselocale(3) is in the C locale, and
\* goes back to the one it had.
LocaleInv ==
    \A t \in Thread :
        /\ build = "uselocale" /\ pc[t] \in {"strtod", "restore"} =>
               own[t] = "C"
        /\ build = "uselocale" /\ pc[t] = "double" => own[t] = old[t]

IInv == TypeOK /\ LocaleInv /\ LocaleIndependent

\* What is left of an infinity after its sign and its dot is text.
LEMMA SkippedType ==
    ASSUME NEW w \in Infinities
    PROVE  Skipped(w) \in Seq(Char)
<1> DEFINE First(i) == Alpha(w[i]) /\ \A j \in 1..(i - 1) : ~Alpha(w[j])
           first == CHOOSE i \in DOMAIN w : First(i)
<1>1. /\ w \in Seq(Char) /\ Len(w) \in Nat /\ DOMAIN w = 1..Len(w)
  <2>1. <<Dot, 105, 110, 102>> \in Seq(Char)
    BY DEF Char, Dot
  <2>2. <<Dash, Dot, 105, 110, 102>> \in Seq(Char)
    BY DEF Char, Dot, Dash
  <2>3. w \in Seq(Char)
    BY <2>1, <2>2 DEF Infinities
  <2> QED BY <2>3
<1>2. \E i \in DOMAIN w : First(i)
  <2>1. CASE w = <<Dot, 105, 110, 102>>
    <3>1. 2 \in DOMAIN w /\ First(2)
      BY <2>1 DEF Alpha, Dot
    <3> QED BY <3>1
  <2>2. CASE w = <<Dash, Dot, 105, 110, 102>>
    <3>1. 3 \in DOMAIN w /\ First(3)
      BY <2>2 DEF Alpha, Dot, Dash
    <3> QED BY <3>1
  <2> QED BY <2>1, <2>2 DEF Infinities
<1>3. first \in 1..Len(w)
  BY <1>1, <1>2
<1>4. \A i \in 1..Len(w) : w[i] \in Char
  BY <1>1, ElementOfSeq
<1> HIDE DEF first
<1>5. SubSeq(w, first, Len(w)) \in Seq(Char)
  BY <1>1, <1>3, <1>4, SubSeqProperties
<1> QED BY <1>5 DEF Skipped, first

LEMMA IInvInit == Init => IInv
<1> SUFFICES ASSUME Init PROVE IInv
  OBVIOUS
<1>1. TypeOK
  BY DEF Init, TypeOK, Locales
<1>2. \A t \in Thread : pc[t] = "idle"
  BY DEF Init
<1> QED BY <1>1, <1>2
        DEF IInv, LocaleInv, LocaleIndependent

\* The conversion of a number.
LEMMA GetValueStep ==
    ASSUME IInv, NEW t \in Thread, NEW w \in Scalars, GetValue(t, w)
    PROVE  IInv'
<1>1. (IF w \in Infinities THEN Skipped(w) ELSE w) \in Seq(Char)
  BY RosNodeAssumption, SkippedType
<1>2. TypeOK'
  BY <1>1 DEF IInv, TypeOK, GetValue, Locales
<1>3. LocaleInv' /\ LocaleIndependent'
  BY DEF IInv, TypeOK, GetValue, LocaleInv, LocaleIndependent
<1> QED BY <1>2, <1>3 DEF IInv

LEMMA StrtodStep ==
    ASSUME IInv, NEW t \in Thread, Strtod(t)
    PROVE  IInv'
<1>1. TypeOK'
  BY DEF IInv, TypeOK, Strtod
<1>2. build # "neither" => LocaleOf(t) = "C"
  BY RosNodeAssumption DEF IInv, TypeOK, LocaleInv, Strtod, LocaleOf
<1>3. LocaleInv'
  BY DEF IInv, TypeOK, Strtod, LocaleInv
<1>4. LocaleIndependent'
  BY <1>2 DEF IInv, TypeOK, Strtod, LocaleIndependent
<1> QED BY <1>1, <1>3, <1>4 DEF IInv

LEMMA OtherStep ==
    ASSUME IInv, NEW t \in Thread,
           \/ Restore(t) \/ Return(t)
           \/ \E l \in Locales \cup {"global"} : UseLocale(t, l)
    PROVE  IInv'
<1>1. CASE Restore(t)
  BY <1>1 DEF IInv, TypeOK, Restore, LocaleInv, LocaleIndependent
<1>2. CASE Return(t)
  <2>1. TypeOK'
    BY <1>2 DEF IInv, TypeOK, Return
  <2>2. LocaleInv' /\ LocaleIndependent'
    BY <1>2 DEF IInv, TypeOK, Return, LocaleInv, LocaleIndependent
  <2> QED BY <2>1, <2>2 DEF IInv
<1>3. ASSUME NEW l \in Locales \cup {"global"}, UseLocale(t, l)
      PROVE  IInv'
  BY <1>3 DEF IInv, TypeOK, UseLocale, LocaleInv, LocaleIndependent
<1> QED BY <1>1, <1>2, <1>3

LEMMA IInvStep ==
    ASSUME IInv, [Next]_vars
    PROVE  IInv'
<1>1. ASSUME NEW l \in Locales, SetLocale(l)
      PROVE  IInv'
  BY <1>1 DEF IInv, TypeOK, SetLocale, LocaleInv, LocaleIndependent
<1>2. CASE UNCHANGED vars
  BY <1>2 DEF vars, IInv, TypeOK, LocaleInv, LocaleIndependent
<1> QED BY <1>1, <1>2, GetValueStep, StrtodStep, OtherStep DEF Next

\* Only the build that swaps locales has one to restore (the fallbacks of
\* strtod_locale_independent()), and what is converted is text.
THEOREM TypeCorrect == Spec => []TypeOK
<1>1. IInv => TypeOK
  BY DEF IInv
<1> QED BY IInvInit, IInvStep, <1>1, PTL DEF Spec

\* With strtod_l(3) or uselocale(3), any number of threads read parameters
\* alike whatever the locales of the process and of the threads become.
THEOREM LocaleIndependentCorrect == Spec => []LocaleIndependent
<1>1. IInv => LocaleIndependent
  BY DEF IInv
<1> QED BY IInvInit, IInvStep, <1>1, PTL DEF Spec

\* A conversion gives the thread back the locale it had, and no other thread's
\* conversion touches it.
THEOREM LocaleRestoredCorrect == Spec => LocaleRestored
<1> DEFINE A(t) == /\ pc[t] = "idle" /\ pc'[t] = "strtod" /\ own'[t] # own[t] =>
                          old'[t] = own[t]
                   /\ pc'[t] = "double" =>
                          own'[t] = IF build = "uselocale" THEN old[t] ELSE own[t]
<1>1. ASSUME IInv, Next, NEW t \in Thread
      PROVE  A(t)
  <2> USE DEF IInv, TypeOK, LocaleInv
  <2>1. ASSUME NEW u \in Thread, NEW w \in Scalars, GetValue(u, w)
        PROVE  A(t)
    BY <1>1, <2>1 DEF GetValue
  <2>2. ASSUME NEW u \in Thread, Strtod(u) \/ Restore(u) \/ Return(u)
        PROVE  A(t)
    BY <1>1, <2>2 DEF Strtod, Restore, Return
  <2>3. ASSUME NEW u \in Thread, NEW l, UseLocale(u, l)
        PROVE  A(t)
    BY <1>1, <2>3 DEF UseLocale
  <2>4. ASSUME NEW l, SetLocale(l)
        PROVE  A(t)
    BY <1>1, <2>4 DEF SetLocale
  <2> QED BY <1>1, <2>1, <2>2, <2>3, <2>4 DEF Next
<1>2. IInv /\ [Next]_vars => [\A t \in Thread : A(t)]_vars
  BY <1>1
<1> QED BY IInvInit, IInvStep, <1>2, PTL DEF Spec, LocaleRestored
=============================================================================
