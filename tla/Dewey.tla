---------------------------------- MODULE Dewey ---------------------------------
(****************************************************************************)
(* The order of versions, which is computed twice: by the package tools in  *)
(* C (pkg_install lib/dewey.c) and by make in awk (mk/internal/             *)
(* libdewey.awk).  Both make a version a vector of integers and a revision, *)
(* component by component, and compare the vectors.                         *)
(*                                                                          *)
(* A version is the sequence of the components it is read as: numbers,      *)
(* modifiers by their value (alpha, beta, rc, and 0 for a dot, an           *)
(* underscore or pl), letters by their place in the alphabet, revisions.    *)
(****************************************************************************)
EXTENDS Integers, Sequences

CONSTANT IntMax     \* the largest int: 2^(w-1) - 1, where ints have w bits

\* The place of a letter is an int.
ASSUME IntAssumption == IntMax \in Nat /\ IntMax > 26

Alpha == -3
Beta == -2
RC == -1
Dot == 0
R == 18     \* the place of r, which marks a revision

Number(n) == [kind |-> "number", value |-> n]
Modifier(m) == [kind |-> "modifier", value |-> m]
Letter(k) == [kind |-> "letter", value |-> k]
Revision(n) == [kind |-> "revision", value |-> n]

\* The value an int has after signed overflow, as the builds compute it.
Wrap(n) == ((n + IntMax + 1) % (2 * IntMax + 2)) - (IntMax + 1)

Nothing == [v |-> <<>>, revision |-> 0]

-----------------------------------------------------------------------------
(* In C.                                                                    *)

\* Variant: a letter has no dot before it, and a counts as 0, as in awk.
ComponentNoDot(ap, t) ==
    CASE t.kind = "number"   -> [ap EXCEPT !.v = Append(@, Wrap(t.value))]
      [] t.kind = "modifier" -> [ap EXCEPT !.v = Append(@, t.value)]
      [] t.kind = "revision" -> [ap EXCEPT !.revision = Wrap(t.value)]
      [] t.kind = "letter"   -> [ap EXCEPT !.v = Append(@, t.value - 1)]

\* mkcomponent(): a letter stands for a dot and its number, but r for a
\* revision even without digits.
Component(ap, t) ==
    CASE t.kind = "number"   -> [ap EXCEPT !.v = Append(@, Wrap(t.value))]
      [] t.kind = "modifier" -> [ap EXCEPT !.v = Append(@, t.value)]
      [] t.kind = "revision" -> [ap EXCEPT !.revision = Wrap(t.value)]
      [] t.kind = "letter" /\ t.value = R -> [ap EXCEPT !.revision = 0]
      [] t.kind = "letter" /\ t.value # R ->
             [ap EXCEPT !.v = @ \o <<Dot, t.value>>]

MkVersion(version) ==
    LET ap[i \in 0..Len(version)] ==
            IF i = 0 THEN Nothing ELSE Component(ap[i - 1], version[i])
    IN  ap[Len(version)]

Digit(ap, i) == IF i <= Len(ap.v) THEN ap.v[i] ELSE 0

\* The places where the vectors differ, the shorter one filled with zeroes.
Differ(l, r) ==
    {i \in DOMAIN l.v \cup DOMAIN r.v : Digit(l, i) # Digit(r, i)}

First(S) == CHOOSE i \in S : \A j \in S : i <= j

\* vtest(): an int, which only its sign matters of.  Variant: the revision
\* is forgotten; the end of the shorter vector is the end.
CmpShort(l, r) ==
    LET D == {i \in DOMAIN l.v \cap DOMAIN r.v : Digit(l, i) # Digit(r, i)}
    IN  IF D = {} THEN Wrap(l.revision - r.revision)
        ELSE Wrap(Digit(l, First(D)) - Digit(r, First(D)))
CmpNoRevision(l, r) ==
    IF Differ(l, r) = {} THEN 0
    ELSE LET i == First(Differ(l, r)) IN Wrap(Digit(l, i) - Digit(r, i))
Cmp(l, r) ==
    IF Differ(l, r) = {} THEN Wrap(l.revision - r.revision)
    ELSE LET i == First(Differ(l, r)) IN Wrap(Digit(l, i) - Digit(r, i))

-----------------------------------------------------------------------------
(* In awk, where numbers do not overflow.                                   *)

AwkComponent(ap, t) ==
    CASE t.kind = "number"   -> [ap EXCEPT !.v = Append(@, t.value)]
      [] t.kind = "modifier" -> [ap EXCEPT !.v = Append(@, t.value)]
      [] t.kind = "revision" -> [ap EXCEPT !.revision = t.value]
      [] t.kind = "letter"   -> [ap EXCEPT !.v = Append(@, t.value - 1)]

AwkMkVersion(version) ==
    LET ap[i \in 0..Len(version)] ==
            IF i = 0 THEN Nothing ELSE AwkComponent(ap[i - 1], version[i])
    IN  ap[Len(version)]

AwkCmp(l, r) ==
    IF Differ(l, r) = {} THEN l.revision - r.revision
    ELSE LET i == First(Differ(l, r)) IN Digit(l, i) - Digit(r, i)
=============================================================================
