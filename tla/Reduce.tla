---------------------------------- MODULE Reduce --------------------------------
(****************************************************************************)
(* How make reduces the requirements on one package, name<op><version>, to  *)
(* an interval of versions (reduce() in mk/internal/libdewey.awk), for any  *)
(* order of versions.  Names, alternatives and options are left out.        *)
(****************************************************************************)
EXTENDS Naturals, FiniteSets

CONSTANTS
    Version,
    Required,       \* the versions requirements are made of
    Leq(_, _),      \* the order: vtest with <=
    None,
    MaxTargets      \* how many requirements there are: bounds the run

ASSUME RequiredAssumption == Required \subseteq Version /\ None \notin Version
ASSUME NoOperatorAssumption == None \notin {"<", "<=", ">", ">=", "==", "!="}
ASSUME TotalAssumption ==
    \A a, b \in Version : Leq(a, b) \/ Leq(b, a)
ASSUME TransitiveAssumption ==
    \A a, b, c \in Version : Leq(a, b) /\ Leq(b, c) => Leq(a, c)

Upper == {"<", "<="}
Lower == {">", ">="}
Op == Upper \cup Lower \cup {"==", "!="}

VARIABLES
    min, minop, max, maxop,     \* the interval, as far as it is bounded
    ne,                         \* the version put apart
    failed,                     \* "" has been returned
    targets                     \* auxiliary: the requirements read

vars == <<min, minop, max, maxop, ne, failed, targets>>

TypeOK ==
    /\ min \in Version \cup {None} /\ minop \in Lower \cup {None}
    /\ max \in Version \cup {None} /\ maxop \in Upper \cup {None}
    /\ minop # None => min \in Version
    /\ maxop # None => max \in Version
    /\ ne \in Version \cup {None}
    /\ failed \in BOOLEAN
    /\ targets \subseteq Op \X Required

Init ==
    /\ min = None /\ minop = None /\ max = None /\ maxop = None
    /\ ne = None /\ failed = FALSE /\ targets = {}

Vtest(a, op, b) ==
    CASE op = "<"  -> ~Leq(b, a)
      [] op = "<=" -> Leq(a, b)
      [] op = ">"  -> ~Leq(a, b)
      [] op = ">=" -> Leq(b, a)
      [] op = "==" -> Leq(a, b) /\ Leq(b, a)
      [] op = "!=" -> ~(Leq(a, b) /\ Leq(b, a))

\* A version that the bound there is accepts is a tighter one; of two equal
\* ones the strict one stays.  Variant: compared with the new operator.
TighterNew(v, op, bound, t) == op = None \/ Vtest(v, t, bound)
Tighter(v, op, bound, t) == op = None \/ Vtest(v, op, bound)

NarrowMax(t, v) ==
    IF t \in Upper \cup {"=="} /\ Tighter(v, maxop, max, t)
    THEN max' = v /\ maxop' = IF t = "==" THEN "<=" ELSE t
    ELSE UNCHANGED <<max, maxop>>

NarrowMin(t, v) ==
    IF t \in Lower \cup {"=="} /\ Tighter(v, minop, min, t)
    THEN min' = v /\ minop' = IF t = "==" THEN ">=" ELSE t
    ELSE UNCHANGED <<min, minop>>

\* Two versions cannot be put apart.  Variant: nor one twice.
SetApartOnce(t, v) ==
    IF t = "!=" THEN IF ne # None THEN failed' = TRUE /\ UNCHANGED ne
                     ELSE ne' = v /\ UNCHANGED failed
    ELSE UNCHANGED <<ne, failed>>
SetApart(t, v) ==
    IF t = "!=" THEN IF ne # None /\ v # ne
                     THEN failed' = TRUE /\ UNCHANGED ne
                     ELSE ne' = v /\ UNCHANGED failed
    ELSE UNCHANGED <<ne, failed>>

Target(t, v) ==
    /\ ~failed /\ Cardinality(targets) < MaxTargets
    /\ NarrowMax(t, v) /\ NarrowMin(t, v) /\ SetApart(t, v)
    /\ targets' = targets \cup {<<t, v>>}

Next == \E t \in Op, v \in Required : Target(t, v)

Spec == Init /\ [][Next]_vars

-----------------------------------------------------------------------------
(* What is returned after the last requirement.                             *)

Bounded == minop # None /\ maxop # None
Empty == Bounded /\ (~Vtest(max, minop, min) \/ ~Vtest(min, maxop, max))

\* The versions the returned pattern matches.
Accepts(v) ==
    /\ ~Empty
    /\ IF Bounded /\ Vtest(min, "==", max)
       THEN Vtest(v, "==", min)
       ELSE /\ minop # None => Vtest(v, minop, min)
            /\ maxop # None => Vtest(v, maxop, max)
    /\ ne # None => Vtest(v, "!=", ne)

\* The pattern matches the versions that all the requirements match, and
\* there is none when nothing is returned, unless two versions had to be put
\* apart, which reduce() gives up on.
ReduceExact ==
    ~failed => \A v \in Version :
        Accepts(v) <=> \A r \in targets : Vtest(v, r[1], r[2])

\* reduce() gives up on nothing else.
GivesUpOnTwo ==
    failed => \E r, s \in targets : r[1] = "!=" /\ s[1] = "!=" /\ r[2] # s[2]
=============================================================================
