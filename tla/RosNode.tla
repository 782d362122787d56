-------------------------------- MODULE RosNode --------------------------------
(****************************************************************************)
(* What robotpkg's patch to rcl changes in the threads of a ROS 2 node that *)
(* read the numbers of parameter files.  Threads share the locale of the    *)
(* process, which the application changes with setlocale(3); uselocale(3)   *)
(* gives a thread one of its own.  Text is a sequence of characters.        *)
(****************************************************************************)
EXTENDS Naturals, Sequences

CONSTANTS
    Thread,
    Scalars,    \* numbers of parameter files
    Builds      \* of "strtod_l", "uselocale", "neither": what configure found

Char == 0..127

Comma == 44
Dash == 45
Dot == 46

ASSUME RosNodeAssumption ==
    /\ Scalars \subseteq Seq(Char) \ {<<>>}
    /\ Builds \subseteq {"strtod_l", "uselocale", "neither"}

Locales == {"C", "comma"}

VARIABLES
    build,
    global,     \* the locale of the process
    own,        \* own[t]: the locale of thread t, or "global"
    pc,         \* pc[t]: what thread t is doing
    word,       \* word[t]: the text it is looking at
    old,        \* old[t]: old_locale
    result      \* result[t]: how many characters were converted

vars == <<build, global, own, pc, word, old, result>>

TypeOK ==
    /\ build \in Builds /\ global \in Locales
    /\ own \in [Thread -> Locales \cup {"global"}]
    /\ pc \in [Thread -> {"idle", "strtod", "restore", "double"}]
    /\ \A t \in Thread : pc[t] = "restore" => build = "uselocale"
    /\ word \in [Thread -> Seq(Char)]
    /\ old \in [Thread -> Locales \cup {"global"}]
    /\ DOMAIN result = Thread

Init ==
    /\ build \in Builds /\ global = "C"
    /\ own = [t \in Thread |-> "global"]
    /\ pc = [t \in Thread |-> "idle"]
    /\ word = [t \in Thread |-> <<>>]
    /\ old = [t \in Thread |-> "global"]
    /\ result = [t \in Thread |-> 0]

-----------------------------------------------------------------------------
(* get_value() and strtod_locale_independent() of rcl_yaml_param_parser.    *)

Digit(c) == c \in 48..57
Alpha(c) == c \in 65..90 \cup 97..122

\* ".inf" and the like, signed or not: strtod(3) is given the letters.
Infinities == {<<Dot, 105, 110, 102>>, <<Dash, Dot, 105, 110, 102>>}

\* The loop over iter_ptr: it stops at the first letter.
Skipped(w) ==
    LET first == CHOOSE i \in DOMAIN w :
                     Alpha(w[i]) /\ \A j \in 1..(i - 1) : ~Alpha(w[j])
    IN  SubSeq(w, first, Len(w))

\* How many chars strtod(3) takes: a number up to what is neither a digit
\* nor the first radix character of the locale, or "inf".
Taken(w, locale) ==
    LET radix == IF locale = "C" THEN Dot ELSE Comma
        number(n) == /\ \A i \in 1..n : Digit(w[i]) \/ w[i] = radix
                     /\ \A i, j \in 1..n : w[i] = radix /\ w[j] = radix => i = j
    IN  IF w = <<105, 110, 102>> THEN 3
        ELSE CHOOSE n \in 0..Len(w) :
                 number(n) /\ (n < Len(w) => ~number(n + 1))

GetValue(t, w) ==
    /\ pc[t] = "idle"
    /\ word' = [word EXCEPT ![t] = IF w \in Infinities THEN Skipped(w) ELSE w]
    /\ pc' = [pc EXCEPT ![t] = "strtod"]
    /\ IF build = "uselocale"
       THEN old' = [old EXCEPT ![t] = own[t]] /\ own' = [own EXCEPT ![t] = "C"]
       ELSE UNCHANGED <<old, own>>
    /\ UNCHANGED <<build, global, result>>

\* Variant: uselocale(3) is thought to be for the process.
LocaleOfProcess(t) == IF build = "strtod_l" THEN "C" ELSE global

\* The locale strtod_l(3) or strtod(3) uses.
LocaleOf(t) ==
    IF build = "strtod_l" THEN "C"
    ELSE IF own[t] = "global" THEN global ELSE own[t]

\* Variant: every build goes back to the old locale.
StrtodRestoring(t) ==
    /\ pc[t] = "strtod"
    /\ result' = [result EXCEPT ![t] = Taken(word[t], LocaleOf(t))]
    /\ pc' = [pc EXCEPT ![t] = "restore"]
    /\ UNCHANGED <<build, global, own, word, old>>

Strtod(t) ==
    /\ pc[t] = "strtod"
    /\ result' = [result EXCEPT ![t] = Taken(word[t], LocaleOf(t))]
    /\ pc' = [pc EXCEPT ![t] = IF build = "uselocale" THEN "restore"
                                                      ELSE "double"]
    /\ UNCHANGED <<build, global, own, word, old>>

\* Variant: the thread goes back to the locale of the process.
RestoreGlobal(t) ==
    /\ pc[t] = "restore"
    /\ own' = [own EXCEPT ![t] = "global"]
    /\ pc' = [pc EXCEPT ![t] = "double"]
    /\ UNCHANGED <<build, global, word, old, result>>

\* uselocale(old_locale)
Restore(t) ==
    /\ pc[t] = "restore"
    /\ own' = [own EXCEPT ![t] = old[t]]
    /\ pc' = [pc EXCEPT ![t] = "double"]
    /\ UNCHANGED <<build, global, word, old, result>>

\* The function returns to the thread.
Return(t) ==
    /\ pc[t] = "double"
    /\ pc' = [pc EXCEPT ![t] = "idle"]
    /\ word' = [word EXCEPT ![t] = <<>>]
    /\ old' = [old EXCEPT ![t] = "global"]
    /\ result' = [result EXCEPT ![t] = 0]
    /\ UNCHANGED <<build, global, own>>

-----------------------------------------------------------------------------
(* The application.                                                         *)

SetLocale(l) ==
    /\ global' = l
    /\ UNCHANGED <<build, own, pc, word, old, result>>

UseLocale(t, l) ==
    /\ pc[t] = "idle"
    /\ own' = [own EXCEPT ![t] = l]
    /\ UNCHANGED <<build, global, pc, word, old, result>>

Next ==
    \/ \E t \in Thread :
           \/ \E w \in Scalars : GetValue(t, w)
           \/ Strtod(t) \/ Restore(t) \/ Return(t)
           \/ \E l \in Locales \cup {"global"} : UseLocale(t, l)
    \/ \E l \in Locales : SetLocale(l)

Spec == Init /\ [][Next]_vars

-----------------------------------------------------------------------------
\* What a parameter file says does not depend on the locale of the process
\* or of the thread, whatever other threads do meanwhile; unless configure
\* found neither strtod_l(3) nor uselocale(3).
LocaleIndependent ==
    \A t \in Thread : pc[t] \in {"restore", "double"} /\ build # "neither" =>
        result[t] = Taken(word[t], "C")

\* A thread that reads a parameter has the locale it had when it is done.
LocaleRestored ==
    [][\A t \in Thread :
          /\ pc[t] = "idle" /\ pc'[t] = "strtod" /\ own'[t] # own[t] =>
                 old'[t] = own[t]
          /\ pc'[t] = "double" => own'[t] = IF build = "uselocale" THEN old[t]
                                                                   ELSE own[t]
      ]_vars
=============================================================================
