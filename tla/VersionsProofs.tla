------------------------------ MODULE VersionsProofs ----------------------------
(****************************************************************************)
(* Theorems of Versions, for any versions and any width of an int.          *)
(*                                                                          *)
(* mkversion() goes over a version component by component.  What it yields  *)
(* is proved by induction over the components, of the program in C, of the  *)
(* one in awk, and of the spelling of letters as numbers: three recursions  *)
(* of the same form.                                                        *)
(*                                                                          *)
(* reduce() is exact for every total order of versions, of which the one of *)
(* awk is shown to be one, and every sequence of requirements: each of the  *)
(* two bounds, and the version put apart, says at every moment what the     *)
(* requirements of its kind read so far say together.                       *)
(****************************************************************************)
EXTENDS Versions, SequenceTheorems, WellFoundedInduction, TLAPS

-----------------------------------------------------------------------------
(* Induction, over numbers and over sequences, for a set in the place of a  *)
(* predicate.                                                               *)

\* A non-empty set of natural numbers has a least one.
LEMMA LeastNat ==
    ASSUME NEW T, T \subseteq Nat, T # {}
    PROVE  \E n \in T : \A m \in T : n <= m
<1> DEFINE Below == OpToRel(<, Nat)
<1>1. IsWellFoundedOn(Below, Nat)
  BY NatLessThanWellFounded, Zenon
<1> HIDE DEF Below
<1>2. PICK n \in T : \A m \in T : ~ (<<m, n>> \in Below)
  BY <1>1, WFMin, Zenon
<1>3. ASSUME NEW m \in T, m < n PROVE FALSE
  <2>1. <<m, n>> \in Below
    BY <1>3 DEF Below, OpToRel
  <2> QED BY <1>2, <2>1
<1> QED BY <1>2, <1>3

LEMMA OverNumbers ==
    ASSUME NEW T, 0 \in T, \A n \in Nat : n \in T => n + 1 \in T
    PROVE  Nat \subseteq T
<1> SUFFICES ASSUME Nat \ T # {} PROVE FALSE
  OBVIOUS
<1>1. PICK n \in Nat \ T : \A m \in Nat \ T : n <= m
  <2> DEFINE U == Nat \ T
  <2>1. U \subseteq Nat /\ U # {}
    OBVIOUS
  <2> HIDE DEF U
  <2>2. \E n \in U : \A m \in U : n <= m
    BY <2>1, LeastNat
  <2> QED BY <2>2 DEF U
<1>2. n - 1 \in Nat /\ n - 1 \in T
  BY <1>1
<1> QED BY <1>1, <1>2

LEMMA OverSequences ==
    ASSUME NEW S, NEW T, <<>> \in T,
           \A s \in Seq(S), e \in S : s \in T => Append(s, e) \in T
    PROVE  Seq(S) \subseteq T
<1> DEFINE N == {n \in Nat : \A s \in Seq(S) : Len(s) = n => s \in T}
<1>1. 0 \in N
  OBVIOUS
<1>2. ASSUME NEW n \in Nat, n \in N PROVE n + 1 \in N
  <2> SUFFICES ASSUME NEW s \in Seq(S), Len(s) = n + 1 PROVE s \in T
    OBVIOUS
  <2> DEFINE a == [i \in 1..n |-> s[i]]
             e == s[n + 1]
  <2>1. a \in Seq(S) /\ Len(a) = n /\ e \in S
    OBVIOUS
  <2>2. s = Append(a, e)
    <3>1. /\ Append(a, e) \in Seq(S) /\ Len(Append(a, e)) = Len(s)
          /\ \A i \in 1..Len(s) : Append(a, e)[i] = s[i]
      BY <2>1
    <3> HIDE DEF a, e
    <3> QED BY <3>1, SeqEqual
  <2> QED BY <1>2, <2>1, <2>2
<1> HIDE DEF N
<1>3. Nat \subseteq N
  BY <1>1, <1>2, OverNumbers
<1> QED BY <1>3 DEF N

-----------------------------------------------------------------------------
(* The recursions over the components of a version.                         *)

Start(by) == IF by = "letters" THEN <<>> ELSE Nothing

OneMore(by, made, t) ==
    CASE by = "C" -> Component(made, t)
      [] by = "awk" -> AwkComponent(made, t)
      [] by = "letters" -> made \o Spell(t)

Makes(by, v, f) ==
    f = [i \in 0..Len(v) |->
            IF i = 0 THEN Start(by) ELSE OneMore(by, f[i - 1], v[i])]

Result(by, v) == (CHOOSE f : Makes(by, v, f))[Len(v)]

\* The three are the programs and the spelling.
LEMMA ResultIs ==
    ASSUME NEW v
    PROVE  /\ MkVersion(v) = Result("C", v)
           /\ AwkMkVersion(v) = Result("awk", v)
           /\ Spelt(v) = Result("letters", v)
<1>1. MkVersion(v) = Result("C", v)
  BY DEF MkVersion, Result, Makes, Start, OneMore
<1>2. AwkMkVersion(v) = Result("awk", v)
  BY DEF AwkMkVersion, Result, Makes, Start, OneMore
<1>3. Spelt(v) = Result("letters", v)
  BY DEF Spelt, Result, Makes, Start, OneMore
<1> QED BY <1>1, <1>2, <1>3

\* A recursion over one component more goes over the others as before.
LEMMA MakesMore ==
    ASSUME NEW by, NEW S, NEW s \in Seq(S), NEW e \in S, NEW f, Makes(by, s, f)
    PROVE  LET g == [i \in 0..Len(s) + 1 |->
                        IF i = Len(s) + 1 THEN OneMore(by, f[Len(s)], e)
                        ELSE f[i]]
           IN  Makes(by, Append(s, e), g)
<1> DEFINE n == Len(s)
           a == Append(s, e)
           g == [i \in 0..n + 1 |->
                    IF i = n + 1 THEN OneMore(by, f[n], e) ELSE f[i]]
<1>1. /\ n \in Nat /\ Len(a) = n + 1 /\ a[n + 1] = e
      /\ \A i \in 1..n : a[i] = s[i]
  OBVIOUS
<1>2. f = [i \in 0..n |-> IF i = 0 THEN Start(by) ELSE OneMore(by, f[i - 1], s[i])]
  BY DEF Makes
<1> HIDE DEF n, a
<1>3. ASSUME NEW i \in 0..n + 1
      PROVE  g[i] = IF i = 0 THEN Start(by) ELSE OneMore(by, g[i - 1], a[i])
  <2>1. CASE i = n + 1
    BY <1>1, <2>1
  <2>2. CASE i \in 1..n
    <3>1. g[i] = f[i] /\ g[i - 1] = f[i - 1]
      BY <1>1, <2>2
    <3>2. f[i] = OneMore(by, f[i - 1], s[i])
      <4>1. i \in 0..n /\ i # 0
        BY <1>1, <2>2
      <4> QED BY <1>2, <4>1
    <3> QED BY <1>1, <2>2, <3>1, <3>2
  <2>3. CASE i = 0
    BY <1>1, <1>2, <2>3
  <2> QED BY <1>1, <2>1, <2>2, <2>3
<1>4. g = [i \in 0..n + 1 |-> IF i = 0 THEN Start(by) ELSE OneMore(by, g[i - 1], a[i])]
  <2>1. g = [i \in 0..n + 1 |-> g[i]]
    OBVIOUS
  <2> HIDE DEF g
  <2> QED BY <1>3, <2>1
<1>5. Makes(by, a, g)
  BY <1>1, <1>4 DEF Makes
<1> QED BY <1>5 DEF n, a

LEMMA Made ==
    ASSUME NEW by, NEW S, NEW v \in Seq(S)
    PROVE  \E f : Makes(by, v, f)
<1> DEFINE T == {s \in Seq(S) : \E f : Makes(by, s, f)}
<1>1. <<>> \in T
  <2> DEFINE f == [i \in 0..0 |-> Start(by)]
  <2>1. Makes(by, <<>>, f)
    BY DEF Makes
  <2> QED BY <2>1
<1>2. ASSUME NEW s \in Seq(S), NEW e \in S, s \in T
      PROVE  Append(s, e) \in T
  <2>1. PICK f : Makes(by, s, f)
    BY <1>2
  <2>2. \E g : Makes(by, Append(s, e), g)
    BY <2>1, MakesMore
  <2>3. Append(s, e) \in Seq(S)
    OBVIOUS
  <2> QED BY <2>2, <2>3
<1>3. Seq(S) \subseteq T
  <2> HIDE DEF T
  <2> QED BY <1>1, <1>2, OverSequences
<1> QED BY <1>3

\* The recursion is determined.
LEMMA MadeOnce ==
    ASSUME NEW by, NEW S, NEW v \in Seq(S), NEW f, NEW g,
           Makes(by, v, f), Makes(by, v, g)
    PROVE  f = g
<1> DEFINE n == Len(v)
           T == {i \in Nat : i \in 0..n => f[i] = g[i]}
<1>1. /\ f = [i \in 0..n |-> IF i = 0 THEN Start(by) ELSE OneMore(by, f[i - 1], v[i])]
      /\ g = [i \in 0..n |-> IF i = 0 THEN Start(by) ELSE OneMore(by, g[i - 1], v[i])]
  BY DEF Makes
<1>2. n \in Nat
  OBVIOUS
<1> HIDE DEF n
<1>3. 0 \in T
  BY <1>1, <1>2
<1>4. ASSUME NEW i \in Nat, i \in T PROVE i + 1 \in T
  <2> SUFFICES ASSUME i + 1 \in 0..n PROVE f[i + 1] = g[i + 1]
    OBVIOUS
  <2>1. i \in 0..n /\ f[i] = g[i] /\ i + 1 # 0 /\ (i + 1) - 1 = i
    BY <1>2, <1>4
  <2>2. /\ f[i + 1] = OneMore(by, f[(i + 1) - 1], v[i + 1])
        /\ g[i + 1] = OneMore(by, g[(i + 1) - 1], v[i + 1])
    BY <1>1, <2>1
  <2> QED BY <2>1, <2>2
<1>5. Nat \subseteq T
  <2> HIDE DEF T
  <2> QED BY <1>3, <1>4, OverNumbers
<1>6. \A i \in 0..n : f[i] = g[i]
  BY <1>2, <1>5
<1>7. f = [i \in 0..n |-> f[i]] /\ g = [i \in 0..n |-> g[i]]
  BY <1>1
<1> QED BY <1>6, <1>7

\* What the recursions yield, one component at a time.
LEMMA ResultNone ==
    ASSUME NEW by
    PROVE  Result(by, <<>>) = Start(by)
<1>1. <<>> \in Seq({})
  OBVIOUS
<1>2. Makes(by, <<>>, CHOOSE f : Makes(by, <<>>, f))
  BY <1>1, Made
<1> QED BY <1>2 DEF Result, Makes

LEMMA ResultMore ==
    ASSUME NEW by, NEW S, NEW s \in Seq(S), NEW e \in S
    PROVE  Result(by, Append(s, e)) = OneMore(by, Result(by, s), e)
<1> DEFINE n == Len(s)
           f == CHOOSE f : Makes(by, s, f)
           h == CHOOSE h : Makes(by, Append(s, e), h)
           g == [i \in 0..n + 1 |->
                    IF i = n + 1 THEN OneMore(by, f[n], e) ELSE f[i]]
<1>1. n \in Nat /\ Append(s, e) \in Seq(S) /\ Len(Append(s, e)) = n + 1
  OBVIOUS
<1>2. Makes(by, s, f)
  BY Made
<1>3. Makes(by, Append(s, e), h)
  BY <1>1, Made
<1>4. Makes(by, Append(s, e), g)
  <2> HIDE DEF f
  <2> QED BY <1>2, MakesMore
<1>5. h = g
  <2> HIDE DEF g, h
  <2> QED BY <1>1, <1>3, <1>4, MadeOnce
<1>6. g[n + 1] = OneMore(by, f[n], e)
  BY <1>1
<1> QED BY <1>1, <1>5, <1>6 DEF Result

-----------------------------------------------------------------------------
(* The vectors, and where they differ.                                      *)

Vectors == [v : Seq(Int), revision : Int]

Places == Nat \ {0}

LEMMA WrapIs ==
    ASSUME NEW n \in Int
    PROVE  /\ Wrap(n) \in Int
           /\ -IntMax <= n /\ n <= IntMax => Wrap(n) = n
<1> DEFINE m == n + IntMax + 1
           k == 2 * IntMax + 2
<1>1. m \in Int /\ k \in Nat /\ k > 0 /\ IntMax \in Nat
  BY IntAssumption
<1>2. m % k \in Int
  BY <1>1
<1>3. -IntMax <= n /\ n <= IntMax => m % k = m
  BY <1>1
<1> QED BY <1>1, <1>2, <1>3 DEF Wrap

LEMMA DigitIs ==
    ASSUME NEW l \in Vectors, NEW i \in Places
    PROVE  Digit(l, i) \in Int
BY DEF Vectors, Places, Digit

\* Beyond their ends two vectors do not differ.
LEMMA DifferIs ==
    ASSUME NEW l \in Vectors, NEW r \in Vectors
    PROVE  Differ(l, r) = {i \in Places : Digit(l, i) # Digit(r, i)}
BY DEF Vectors, Places, Digit, Differ

LEMMA FirstIs ==
    ASSUME NEW D, D \subseteq Nat, NEW i \in D, \A j \in D : i <= j
    PROVE  First(D) = i
<1>1. First(D) \in D /\ \A j \in D : First(D) <= j
  BY DEF First
<1>2. First(D) <= i /\ i <= First(D)
  BY <1>1
<1>3. First(D) \in Nat /\ i \in Nat
  BY <1>1
<1> QED BY <1>2, <1>3

\* Two vectors are equal at all places, or there is a first one where they
\* differ.
SameTo(l, r, n) == \A i \in Places : i < n => Digit(l, i) = Digit(r, i)
DifferFirst(l, r, n) ==
    n \in Places /\ SameTo(l, r, n) /\ Digit(l, n) # Digit(r, n)
Same(l, r) == \A i \in Places : Digit(l, i) = Digit(r, i)

LEMMA SameOrNot ==
    ASSUME NEW l \in Vectors, NEW r \in Vectors
    PROVE  Same(l, r) \/ \E n : DifferFirst(l, r, n)
<1> SUFFICES ASSUME ~Same(l, r) PROVE \E n : DifferFirst(l, r, n)
  OBVIOUS
<1> DEFINE D == {i \in Places : Digit(l, i) # Digit(r, i)}
<1>1. D \subseteq Nat /\ D # {}
  BY DEF Places, Same
<1>2. \E n \in D : \A m \in D : n <= m
  <2> HIDE DEF D
  <2> QED BY <1>1, LeastNat
<1>3. PICK n \in D : \A m \in D : n <= m
  BY <1>2
<1>4. SameTo(l, r, n)
  BY <1>3 DEF SameTo, Places
<1> QED BY <1>3, <1>4 DEF DifferFirst

\* What the comparisons yield.
LEMMA CmpSame ==
    ASSUME NEW l \in Vectors, NEW r \in Vectors, Same(l, r)
    PROVE  /\ Cmp(l, r) = Wrap(l.revision - r.revision)
           /\ AwkCmp(l, r) = l.revision - r.revision
<1>1. Differ(l, r) = {}
  BY DifferIs DEF Same
<1> QED BY <1>1 DEF Cmp, AwkCmp

LEMMA CmpDiffer ==
    ASSUME NEW l \in Vectors, NEW r \in Vectors, NEW n, DifferFirst(l, r, n)
    PROVE  /\ Cmp(l, r) = Wrap(Digit(l, n) - Digit(r, n))
           /\ AwkCmp(l, r) = Digit(l, n) - Digit(r, n)
<1> DEFINE D == Differ(l, r)
<1>1. D = {i \in Places : Digit(l, i) # Digit(r, i)}
  BY DifferIs
<1>2. D \subseteq Nat /\ n \in D
  BY <1>1 DEF DifferFirst, Places
<1>3. \A j \in D : n <= j
  BY <1>1 DEF DifferFirst, SameTo, Places
<1>4. First(D) = n /\ D # {}
  <2> HIDE DEF D
  <2> QED BY <1>2, <1>3, FirstIs
<1> QED BY <1>4 DEF Cmp, AwkCmp

-----------------------------------------------------------------------------
(* The order of awk, with which make reduces requirements.                  *)

LEMMA AwkOpposite ==
    ASSUME NEW l \in Vectors, NEW r \in Vectors
    PROVE  AwkCmp(l, r) \in Int /\ AwkCmp(r, l) = -AwkCmp(l, r)
<1>1. l.revision \in Int /\ r.revision \in Int
  BY DEF Vectors
<1>2. CASE Same(l, r)
  <2>1. Same(r, l)
    BY <1>2 DEF Same
  <2> QED BY <1>1, <1>2, <2>1, CmpSame
<1>3. CASE \E n : DifferFirst(l, r, n)
  <2>1. PICK n : DifferFirst(l, r, n)
    BY <1>3
  <2>2. DifferFirst(r, l, n) /\ n \in Places
    BY <2>1 DEF DifferFirst, SameTo
  <2>3. Digit(l, n) \in Int /\ Digit(r, n) \in Int
    BY <2>2, DigitIs
  <2> QED BY <2>1, <2>2, <2>3, CmpDiffer
<1> QED BY <1>2, <1>3, SameOrNot

\* When l comes before or with r.
LEMMA AwkLess ==
    ASSUME NEW l \in Vectors, NEW r \in Vectors
    PROVE  AwkCmp(l, r) <= 0 <=>
               \/ Same(l, r) /\ l.revision <= r.revision
               \/ \E n \in Places : SameTo(l, r, n) /\ Digit(l, n) < Digit(r, n)
<1>1. l.revision \in Int /\ r.revision \in Int
  BY DEF Vectors
<1>2. ASSUME NEW n \in Places PROVE Digit(l, n) \in Int /\ Digit(r, n) \in Int
  BY DigitIs
<1>3. CASE Same(l, r)
  <2>1. AwkCmp(l, r) = l.revision - r.revision
    BY <1>3, CmpSame
  <2>2. ~\E n \in Places : Digit(l, n) < Digit(r, n)
    BY <1>2, <1>3 DEF Same
  <2> QED BY <1>1, <1>3, <2>1, <2>2
<1>4. ASSUME NEW n, DifferFirst(l, r, n)
      PROVE  AwkCmp(l, r) <= 0 <=>
                 \E m \in Places : SameTo(l, r, m) /\ Digit(l, m) < Digit(r, m)
  <2>1. n \in Places /\ AwkCmp(l, r) = Digit(l, n) - Digit(r, n)
    BY <1>4, CmpDiffer DEF DifferFirst
  <2>2. \A m \in Places : SameTo(l, r, m) /\ Digit(l, m) < Digit(r, m) => m = n
    BY <1>2, <1>4 DEF DifferFirst, SameTo, Places
  <2> QED BY <1>2, <1>4, <2>1, <2>2 DEF DifferFirst
<1>5. (\E n : DifferFirst(l, r, n)) => ~Same(l, r)
  BY DEF DifferFirst, Same
<1> QED BY <1>3, <1>4, <1>5, SameOrNot

LEMMA AwkTransitive ==
    ASSUME NEW a \in Vectors, NEW b \in Vectors, NEW c \in Vectors,
           AwkCmp(a, b) <= 0, AwkCmp(b, c) <= 0
    PROVE  AwkCmp(a, c) <= 0
<1> DEFINE Less(l, r) ==
             \E n \in Places : SameTo(l, r, n) /\ Digit(l, n) < Digit(r, n)
<1>1. /\ (Same(a, b) /\ a.revision <= b.revision) \/ Less(a, b)
      /\ (Same(b, c) /\ b.revision <= c.revision) \/ Less(b, c)
  BY AwkLess
<1>2. a.revision \in Int /\ b.revision \in Int /\ c.revision \in Int
  BY DEF Vectors
<1>3. \A n \in Places : Digit(a, n) \in Int /\ Digit(b, n) \in Int /\ Digit(c, n) \in Int
  BY DigitIs
<1>4. CASE Same(a, b) /\ Same(b, c) /\ a.revision <= b.revision
           /\ b.revision <= c.revision
  <2>1. Same(a, c) /\ a.revision <= c.revision
    BY <1>2, <1>4 DEF Same
  <2> QED BY <2>1, AwkLess
<1>5. CASE Same(a, b) /\ Less(b, c)
  <2>1. Less(a, c)
    BY <1>5 DEF Same, SameTo
  <2> QED BY <2>1, AwkLess
<1>6. CASE Less(a, b) /\ Same(b, c)
  <2>1. Less(a, c)
    BY <1>6 DEF Same, SameTo
  <2> QED BY <2>1, AwkLess
<1>7. CASE Less(a, b) /\ Less(b, c)
  <2>1. PICK m \in Places : SameTo(a, b, m) /\ Digit(a, m) < Digit(b, m)
    BY <1>7
  <2>2. PICK n \in Places : SameTo(b, c, n) /\ Digit(b, n) < Digit(c, n)
    BY <1>7
  <2>3. CASE m < n
    <3>1. SameTo(a, c, m) /\ Digit(b, m) = Digit(c, m)
      BY <2>1, <2>2, <2>3 DEF SameTo, Places
    <3>2. Less(a, c)
      BY <2>1, <3>1
    <3> QED BY <3>2, AwkLess
  <2>4. CASE n <= m
    <3>1. SameTo(a, c, n)
      BY <2>1, <2>2, <2>4 DEF SameTo, Places
    <3>2. Digit(a, n) <= Digit(b, n)
      BY <1>3, <2>1, <2>4 DEF SameTo, Places
    <3>3. Digit(a, n) < Digit(c, n)
      BY <1>3, <2>2, <3>2
    <3>4. Less(a, c)
      BY <3>1, <3>3
    <3> QED BY <3>4, AwkLess
  <2> QED BY <2>3, <2>4 DEF Places
<1> QED BY <1>1, <1>4, <1>5, <1>6, <1>7

-----------------------------------------------------------------------------
(* What versions are read as.                                               *)

LEMMA ReadNothing ==
    /\ MkVersion(<<>>) = Nothing
    /\ AwkMkVersion(<<>>) = Nothing
    /\ Spelt(<<>>) = <<>>
BY ResultIs, ResultNone DEF Start

LEMMA ReadMore ==
    ASSUME NEW s \in Seq(Components), NEW t \in Components
    PROVE  /\ MkVersion(Append(s, t)) = Component(MkVersion(s), t)
           /\ AwkMkVersion(Append(s, t)) = AwkComponent(AwkMkVersion(s), t)
           /\ Spelt(Append(s, t)) = Spelt(s) \o Spell(t)
<1>1. \A by : Result(by, Append(s, t)) = OneMore(by, Result(by, s), t)
  BY ResultMore
<1> QED BY <1>1, ResultIs DEF OneMore

\* The kinds of components, and that they exclude each other.
LEMMA ComponentKinds ==
    ASSUME NEW t \in Components
    PROVE  \/ t.kind \in {"number", "revision"} /\ t.value \in Nat
           \/ t.kind = "modifier" /\ t.value \in Int
           \/ t.kind = "letter" /\ t.value \in 1..26
BY DEF Components, Alpha, Dot

LEMMA ComponentIs ==
    ASSUME NEW ap \in Vectors, NEW t \in Components
    PROVE  /\ t.kind = "number" =>
                /\ Component(ap, t) =
                       [v |-> Append(ap.v, Wrap(t.value)), revision |-> ap.revision]
                /\ AwkComponent(ap, t) =
                       [v |-> Append(ap.v, t.value), revision |-> ap.revision]
           /\ t.kind = "modifier" =>
                /\ Component(ap, t) =
                       [v |-> Append(ap.v, t.value), revision |-> ap.revision]
                /\ AwkComponent(ap, t) = Component(ap, t)
           /\ t.kind = "revision" =>
                /\ Component(ap, t) = [v |-> ap.v, revision |-> Wrap(t.value)]
                /\ AwkComponent(ap, t) = [v |-> ap.v, revision |-> t.value]
           /\ t.kind = "letter" =>
                /\ t.value = R =>
                       Component(ap, t) = [v |-> ap.v, revision |-> 0]
                /\ t.value # R =>
                       Component(ap, t) =
                           [v |-> ap.v \o <<Dot, t.value>>, revision |-> ap.revision]
                /\ AwkComponent(ap, t) =
                       [v |-> Append(ap.v, t.value - 1), revision |-> ap.revision]
<1>1. /\ \A w : [ap EXCEPT !.v = w] = [v |-> w, revision |-> ap.revision]
      /\ \A n : [ap EXCEPT !.revision = n] = [v |-> ap.v, revision |-> n]
  BY DEF Vectors
<1>2. CASE t.kind = "number"
  BY <1>1, <1>2 DEF Component, AwkComponent
<1>3. CASE t.kind = "modifier"
  BY <1>1, <1>3 DEF Component, AwkComponent
<1>4. CASE t.kind = "revision"
  BY <1>1, <1>4 DEF Component, AwkComponent
<1>5. CASE t.kind = "letter"
  BY <1>1, <1>5 DEF Component, AwkComponent
<1> QED BY <1>2, <1>3, <1>4, <1>5, ComponentKinds

LEMMA ComponentType ==
    ASSUME NEW ap \in Vectors, NEW t \in Components
    PROVE  Component(ap, t) \in Vectors /\ AwkComponent(ap, t) \in Vectors
<1>1. ap.v \in Seq(Int) /\ ap.revision \in Int
  BY DEF Vectors
<1>2. t.value \in Int /\ Wrap(t.value) \in Int
  BY ComponentKinds, WrapIs
<1>3. /\ \A n \in Int : Append(ap.v, n) \in Seq(Int)
      /\ ap.v \o <<Dot, t.value>> \in Seq(Int)
  BY <1>1, <1>2 DEF Dot
<1>4. ASSUME NEW w \in Seq(Int), NEW n \in Int
      PROVE  [v |-> w, revision |-> n] \in Vectors
  BY DEF Vectors
<1>5. CASE t.kind = "number"
  <2>1. /\ Component(ap, t) =
               [v |-> Append(ap.v, Wrap(t.value)), revision |-> ap.revision]
        /\ AwkComponent(ap, t) =
               [v |-> Append(ap.v, t.value), revision |-> ap.revision]
    BY <1>5, ComponentIs
  <2> QED BY <1>1, <1>2, <1>3, <1>4, <2>1
<1>6. CASE t.kind = "modifier"
  <2>1. /\ Component(ap, t) =
               [v |-> Append(ap.v, t.value), revision |-> ap.revision]
        /\ AwkComponent(ap, t) = Component(ap, t)
    BY <1>6, ComponentIs
  <2> QED BY <1>1, <1>2, <1>3, <1>4, <2>1
<1>7. CASE t.kind = "revision"
  <2>1. /\ Component(ap, t) = [v |-> ap.v, revision |-> Wrap(t.value)]
        /\ AwkComponent(ap, t) = [v |-> ap.v, revision |-> t.value]
    BY <1>7, ComponentIs
  <2> QED BY <1>1, <1>2, <1>4, <2>1
<1>8. CASE t.kind = "letter"
  <2>1. /\ \/ Component(ap, t) = [v |-> ap.v, revision |-> 0]
           \/ Component(ap, t) =
                  [v |-> ap.v \o <<Dot, t.value>>, revision |-> ap.revision]
        /\ AwkComponent(ap, t) =
               [v |-> Append(ap.v, t.value - 1), revision |-> ap.revision]
    BY <1>8, ComponentIs
  <2>2. t.value - 1 \in Int
    BY <1>2
  <2>3. Append(ap.v, t.value - 1) \in Seq(Int)
    BY <1>3, <2>2
  <2>4. /\ [v |-> Append(ap.v, t.value - 1), revision |-> ap.revision] \in Vectors
        /\ [v |-> ap.v \o <<Dot, t.value>>, revision |-> ap.revision] \in Vectors
    BY <1>1, <1>3, <1>4, <2>3
  <2>5. [v |-> ap.v, revision |-> 0] \in Vectors
    BY <1>1 DEF Vectors
  <2> QED BY <2>1, <2>4, <2>5
<1> QED BY <1>5, <1>6, <1>7, <1>8, ComponentKinds

LEMMA VectorType ==
    ASSUME NEW s \in Seq(Components)
    PROVE  MkVersion(s) \in Vectors /\ AwkMkVersion(s) \in Vectors
<1> DEFINE T == {w \in Seq(Components) :
                    MkVersion(w) \in Vectors /\ AwkMkVersion(w) \in Vectors}
<1>1. <<>> \in T
  <2>1. <<>> \in Seq(Int) /\ 0 \in Int
    OBVIOUS
  <2>2. Nothing \in Vectors
    BY <2>1 DEF Vectors, Nothing
  <2>3. <<>> \in Seq(Components)
    OBVIOUS
  <2> QED BY <2>2, <2>3, ReadNothing
<1>2. \A w \in Seq(Components), t \in Components : w \in T => Append(w, t) \in T
  BY ReadMore, ComponentType
<1>3. Seq(Components) \subseteq T
  <2> HIDE DEF T
  <2> QED BY <1>1, <1>2, OverSequences
<1> QED BY <1>3

\* Of the versions there are.
LEMMA VersionsRead ==
    ASSUME NEW v \in Version
    PROVE  /\ v \in Seq(Components)
           /\ Vector[v] = MkVersion(v) /\ AwkVector[v] = AwkMkVersion(v)
           /\ Vector[v] \in Vectors /\ AwkVector[v] \in Vectors
BY VersionAssumption, VectorType DEF Vector, AwkVector

\* make's order of versions is total and transitive, whatever versions there
\* are (AwkLeq): it is one reduce() is exact for.
THEOREM AwkOrders ==
    \A a, b, c \in Version :
        /\ AwkLeq(a, b) \/ AwkLeq(b, a)
        /\ AwkLeq(a, b) /\ AwkLeq(b, c) => AwkLeq(a, c)
<1> SUFFICES ASSUME NEW a \in Version, NEW b \in Version, NEW c \in Version
             PROVE  /\ AwkLeq(a, b) \/ AwkLeq(b, a)
                    /\ AwkLeq(a, b) /\ AwkLeq(b, c) => AwkLeq(a, c)
  OBVIOUS
<1>1. /\ AwkVector[a] \in Vectors /\ AwkVector[b] \in Vectors
      /\ AwkVector[c] \in Vectors
  BY VersionsRead
<1>2. AwkLeq(a, b) \/ AwkLeq(b, a)
  BY <1>1, AwkOpposite DEF AwkLeq
<1>3. AwkLeq(a, b) /\ AwkLeq(b, c) => AwkLeq(a, c)
  BY <1>1, AwkTransitive DEF AwkLeq
<1> QED BY <1>2, <1>3

-----------------------------------------------------------------------------
(* The two programs.                                                        *)

LEMMA AppendPlaces ==
    ASSUME NEW w \in Seq(Int), NEW n \in Int
    PROVE  /\ Append(w, n) \in Seq(Int) /\ Len(Append(w, n)) = Len(w) + 1
           /\ \A i \in DOMAIN Append(w, n) :
                  \/ i = Len(w) + 1 /\ Append(w, n)[i] = n
                  \/ i \in DOMAIN w /\ Append(w, n)[i] = w[i]
OBVIOUS

\* A vector whose differences with others of its kind are ints.
Moderate ==
    {l \in Vectors : /\ \A i \in DOMAIN l.v : l.v[i] \in Alpha..(IntMax + Alpha)
                     /\ l.revision \in 0..IntMax}

LEMMA ReadAlike ==
    ASSUME NEW s \in Seq(Components), ~HasLetter(s), Small(s)
    PROVE  MkVersion(s) = AwkMkVersion(s) /\ MkVersion(s) \in Moderate
<1> DEFINE Plain(w) == ~HasLetter(w) /\ Small(w)
           T == {w \in Seq(Components) : Plain(w) =>
                    MkVersion(w) = AwkMkVersion(w) /\ MkVersion(w) \in Moderate}
<1>1. <<>> \in T
  <2>1. <<>> \in Seq(Int) /\ DOMAIN <<>> = {} /\ 0 \in 0..IntMax
    BY IntAssumption
  <2>2. Nothing \in Moderate
    <3>1. Nothing \in Vectors
      BY <2>1 DEF Vectors, Nothing
    <3> QED BY <2>1, <3>1 DEF Nothing, Moderate
  <2> QED BY <2>2, ReadNothing
<1>2. ASSUME NEW w \in Seq(Components), NEW t \in Components, w \in T
      PROVE  Append(w, t) \in T
  <2> SUFFICES ASSUME Plain(Append(w, t))
               PROVE  /\ MkVersion(Append(w, t)) = AwkMkVersion(Append(w, t))
                      /\ MkVersion(Append(w, t)) \in Moderate
    OBVIOUS
  <2> DEFINE ap == MkVersion(w)
  <2>1. /\ \A i \in DOMAIN w : i \in DOMAIN Append(w, t) /\ Append(w, t)[i] = w[i]
        /\ Len(Append(w, t)) \in DOMAIN Append(w, t)
        /\ Append(w, t)[Len(Append(w, t))] = t
    OBVIOUS
  <2>2. Plain(w) /\ t.kind # "letter"
    BY <2>1 DEF HasLetter, Small
  <2>3. /\ t.kind = "number" => t.value <= IntMax + Alpha
        /\ t.kind = "revision" => t.value <= IntMax
    BY <2>1 DEF Small
  <2>4. ap = AwkMkVersion(w) /\ ap \in Moderate /\ ap \in Vectors
    BY <1>2, <2>2 DEF Moderate
  <2>5. t.kind \in {"number", "revision"} => Wrap(t.value) = t.value
    BY <2>3, ComponentKinds, WrapIs, IntAssumption DEF Alpha
  <2> HIDE DEF ap
  <2>6. Component(ap, t) = AwkComponent(ap, t)
    <3>1. CASE t.kind = "number"
      <4>1. Wrap(t.value) = t.value
        BY <2>5, <3>1
      <4>2. /\ Component(ap, t) =
                   [v |-> Append(ap.v, Wrap(t.value)), revision |-> ap.revision]
            /\ AwkComponent(ap, t) =
                   [v |-> Append(ap.v, t.value), revision |-> ap.revision]
        BY <2>4, <3>1, ComponentIs
      <4> QED BY <4>1, <4>2
    <3>2. CASE t.kind = "modifier"
      BY <2>4, <3>2, ComponentIs
    <3>3. CASE t.kind = "revision"
      <4>1. Wrap(t.value) = t.value
        BY <2>5, <3>3
      <4>2. /\ Component(ap, t) = [v |-> ap.v, revision |-> Wrap(t.value)]
            /\ AwkComponent(ap, t) = [v |-> ap.v, revision |-> t.value]
        BY <2>4, <3>3, ComponentIs
      <4> QED BY <4>1, <4>2
    <3> QED BY <2>2, <3>1, <3>2, <3>3, ComponentKinds
  <2>7. /\ t.kind = "number" => t.value \in Alpha..(IntMax + Alpha)
        /\ t.kind = "revision" => t.value \in 0..IntMax
        /\ t.kind = "modifier" => t.value \in Alpha..(IntMax + Alpha)
    BY <2>3, IntAssumption DEF Components, Alpha, Dot
  <2>8. ASSUME NEW n \in Alpha..(IntMax + Alpha)
        PROVE  [v |-> Append(ap.v, n), revision |-> ap.revision] \in Moderate
    <3>1. ap.v \in Seq(Int) /\ n \in Int
      BY <2>4, IntAssumption DEF Vectors, Alpha
    <3>2. /\ Append(ap.v, n) \in Seq(Int)
          /\ \A i \in DOMAIN Append(ap.v, n) :
                 \/ Append(ap.v, n)[i] = n
                 \/ i \in DOMAIN ap.v /\ Append(ap.v, n)[i] = ap.v[i]
      BY <3>1, AppendPlaces
    <3>3. /\ \A i \in DOMAIN ap.v : ap.v[i] \in Alpha..(IntMax + Alpha)
          /\ ap.revision \in 0..IntMax /\ ap.revision \in Int
      BY <2>4 DEF Moderate
    <3>4. \A i \in DOMAIN Append(ap.v, n) :
              Append(ap.v, n)[i] \in Alpha..(IntMax + Alpha)
      BY <3>2, <3>3
    <3>5. [v |-> Append(ap.v, n), revision |-> ap.revision] \in Vectors
      BY <3>2, <3>3 DEF Vectors
    <3> QED BY <3>3, <3>4, <3>5 DEF Moderate
  <2>9. ASSUME NEW n \in 0..IntMax
        PROVE  [v |-> ap.v, revision |-> n] \in Moderate
    BY <2>4, IntAssumption DEF Moderate, Vectors
  <2>10. AwkComponent(ap, t) \in Moderate
    BY <2>2, <2>4, <2>7, <2>8, <2>9, ComponentIs, ComponentKinds
  <2> QED BY <2>4, <2>6, <2>10, ReadMore DEF ap
<1>3. Seq(Components) \subseteq T
  <2> HIDE DEF T
  <2> QED BY <1>1, <1>2, OverSequences
<1> QED BY <1>3

\* Between such vectors the comparison in C does not overflow.
LEMMA CompareAlike ==
    ASSUME NEW l \in Moderate, NEW r \in Moderate
    PROVE  Cmp(l, r) = AwkCmp(l, r)
<1>1. l \in Vectors /\ r \in Vectors
  BY DEF Moderate
<1>2. CASE Same(l, r)
  <2>1. l.revision - r.revision \in -IntMax..IntMax
    BY IntAssumption DEF Moderate
  <2> QED BY <1>1, <1>2, <2>1, CmpSame, WrapIs, IntAssumption
<1>3. CASE \E n : DifferFirst(l, r, n)
  <2>1. PICK n : DifferFirst(l, r, n)
    BY <1>3
  <2>2. n \in Places
    BY <2>1 DEF DifferFirst
  <2>3. /\ Digit(l, n) \in Alpha..(IntMax + Alpha)
        /\ Digit(r, n) \in Alpha..(IntMax + Alpha)
    BY <2>2, IntAssumption DEF Digit, Moderate, Vectors, Places, Alpha
  <2>4. Digit(l, n) - Digit(r, n) \in -IntMax..IntMax
    BY <2>3, IntAssumption DEF Alpha
  <2> QED BY <1>1, <2>1, <2>4, CmpDiffer, WrapIs, IntAssumption
<1> QED BY <1>1, <1>2, <1>3, SameOrNot

-----------------------------------------------------------------------------
(* Letters, and versions before a release.                                  *)

LEMMA ReadNumber ==
    ASSUME NEW s \in Seq(Components), NEW m \in Alpha..Dot, NEW k \in Nat
    PROVE  /\ s \o <<Modifier(m), Number(k)>> \in Seq(Components)
           /\ MkVersion(s \o <<Modifier(m), Number(k)>>) =
                  [v |-> Append(Append(MkVersion(s).v, m), Wrap(k)),
                   revision |-> MkVersion(s).revision]
<1> DEFINE a == Append(s, Modifier(m))
           ap == MkVersion(s)
<1>1. Modifier(m) \in Components /\ Number(k) \in Components
  BY DEF Modifier, Number, Components
<1>2. a \in Seq(Components) /\ Append(a, Number(k)) \in Seq(Components)
  BY <1>1
<1>3. s \o <<Modifier(m), Number(k)>> = Append(a, Number(k))
  <2> DEFINE x == Modifier(m)
             y == Number(k)
  <2>1. x \in Components /\ y \in Components
    BY <1>1
  <2> HIDE DEF x, y
  <2>2. s \o <<x, y>> = Append(Append(s, x), y)
    BY <2>1
  <2> QED BY <2>2 DEF x, y
<1>4. ap \in Vectors
  BY VectorType
<1>5. MkVersion(a) = [v |-> Append(ap.v, m), revision |-> ap.revision]
  <2>1. MkVersion(a) = Component(ap, Modifier(m))
    BY <1>1, ReadMore
  <2> HIDE DEF ap, a
  <2>2. Modifier(m).kind = "modifier" /\ Modifier(m).value = m
    BY DEF Modifier
  <2> QED BY <1>1, <1>4, <2>1, <2>2, ComponentIs
<1>6. MkVersion(Append(a, Number(k))) =
          [v |-> Append(Append(ap.v, m), Wrap(k)), revision |-> ap.revision]
  <2>1. MkVersion(a) \in Vectors
    BY <1>2, VectorType
  <2>2. MkVersion(Append(a, Number(k))) = Component(MkVersion(a), Number(k))
    BY <1>1, <1>2, ReadMore
  <2>3. Number(k).kind = "number" /\ Number(k).value = k
    BY DEF Number
  <2> HIDE DEF ap, a
  <2>4. Component(MkVersion(a), Number(k)) =
            [v |-> Append(MkVersion(a).v, Wrap(k)), revision |-> MkVersion(a).revision]
    BY <1>1, <2>1, <2>3, ComponentIs
  <2>5. MkVersion(a).v = Append(ap.v, m) /\ MkVersion(a).revision = ap.revision
    BY <1>5
  <2> QED BY <2>2, <2>4, <2>5
<1> QED BY <1>2, <1>3, <1>6

\* A version reads as its spelling does.
LEMMA ReadSpelt ==
    ASSUME NEW s \in Seq(Components), \A i \in DOMAIN s : s[i] # Letter(R)
    PROVE  MkVersion(Spelt(s)) = MkVersion(s)
<1> DEFINE NoR(w) == \A i \in DOMAIN w : w[i] # Letter(R)
           T == {w \in Seq(Components) :
                    /\ Spelt(w) \in Seq(Components)
                    /\ NoR(w) => MkVersion(Spelt(w)) = MkVersion(w)}
<1>1. <<>> \in T
  <2>1. <<>> \in Seq(Components) /\ Spelt(<<>>) = <<>>
    BY ReadNothing
  <2> QED BY <2>1
<1>2. ASSUME NEW w \in Seq(Components), NEW t \in Components, w \in T
      PROVE  Append(w, t) \in T
  <2> DEFINE a == Append(w, t)
             p == Spelt(w)
  <2>1. /\ NoR(a) => NoR(w) /\ t # Letter(R)
        /\ a \in Seq(Components)
    <3>1. /\ \A i \in DOMAIN w : i \in DOMAIN a /\ a[i] = w[i]
          /\ Len(a) \in DOMAIN a /\ a[Len(a)] = t /\ a \in Seq(Components)
      OBVIOUS
    <3> HIDE DEF a
    <3> QED BY <3>1
  <2>2. /\ NoR(w) => MkVersion(p) = MkVersion(w)
        /\ p \in Seq(Components)
    BY <1>2
  <2>3. Spelt(a) = p \o Spell(t) /\ MkVersion(a) = Component(MkVersion(w), t)
    BY ReadMore
  <2>4. MkVersion(w) \in Vectors
    BY VectorType
  <2> HIDE DEF a, p
  <2>5. CASE t.kind = "letter"
    <3>1. t.value \in Nat /\ Wrap(t.value) = t.value
      <4>1. t.value \in 1..26
        BY <2>5, ComponentKinds
      <4>2. ASSUME NEW k \in 1..26 PROVE k \in Nat /\ Wrap(k) = k
        <5>1. k \in Int /\ -IntMax <= k /\ k <= IntMax
          BY IntAssumption
        <5> QED BY <5>1, WrapIs
      <4> QED BY <4>1, <4>2
    <3>2. Spelt(a) = p \o <<Modifier(Dot), Number(t.value)>>
      BY <2>3, <2>5 DEF Spell
    <3>3. Dot \in Alpha..Dot
      BY DEF Alpha, Dot
    <3>4. /\ Spelt(a) \in Seq(Components)
          /\ MkVersion(Spelt(a)) =
                 [v |-> Append(Append(MkVersion(p).v, Dot), t.value),
                  revision |-> MkVersion(p).revision]
      BY <2>2, <3>1, <3>2, <3>3, ReadNumber
    <3>5. ASSUME NoR(a)
          PROVE  MkVersion(Spelt(a)) = MkVersion(a)
      <4>1. MkVersion(p) = MkVersion(w) /\ t # Letter(R)
        BY <2>1, <2>2, <3>5
      <4>2. t.value # R
        BY <2>5, <4>1 DEF Letter, Components
      <4>3. MkVersion(a) = [v |-> MkVersion(w).v \o <<Dot, t.value>>,
                            revision |-> MkVersion(w).revision]
        BY <2>3, <2>4, <2>5, <4>2, ComponentIs
      <4>4. ASSUME NEW x \in Seq(Int), NEW y \in Int, NEW z \in Int
            PROVE  x \o <<y, z>> = Append(Append(x, y), z)
        OBVIOUS
      <4>5. MkVersion(w).v \in Seq(Int) /\ Dot \in Int /\ t.value \in Int
        BY <2>4, <3>1 DEF Vectors, Dot
      <4>6. MkVersion(w).v \o <<Dot, t.value>>
                = Append(Append(MkVersion(w).v, Dot), t.value)
        BY <4>4, <4>5
      <4> QED BY <3>4, <4>1, <4>3, <4>6
    <3> QED BY <2>1, <3>4, <3>5 DEF a
  <2>6. CASE t.kind # "letter"
    <3>1. p \o <<t>> = Append(p, t) /\ Append(p, t) \in Seq(Components)
      BY <2>2
    <3>2. Spelt(a) = Append(p, t)
      BY <2>3, <2>6, <3>1 DEF Spell
    <3>3. MkVersion(Append(p, t)) = Component(MkVersion(p), t)
      BY <2>2, ReadMore
    <3> QED BY <2>1, <2>2, <2>3, <3>1, <3>2, <3>3 DEF a
  <2> QED BY <2>5, <2>6
<1>3. Seq(Components) \subseteq T
  <2> HIDE DEF T
  <2> QED BY <1>1, <1>2, OverSequences
<1> QED BY <1>3

\* Two vectors that go on from the same one are told apart by the first
\* component they add, and nothing added counts as 0.
LEMMA GoesOn ==
    ASSUME NEW w \in Seq(Int), NEW n \in Int, NEW m \in Int, n < m,
           -IntMax <= n - m, NEW k \in Int, NEW j \in Int,
           NEW e \in Int, NEW f \in Int
    PROVE  /\ Cmp([v |-> Append(Append(w, n), k), revision |-> e],
                  [v |-> Append(Append(w, m), j), revision |-> f]) < 0
           /\ m = 0 => Cmp([v |-> Append(Append(w, n), k), revision |-> e],
                           [v |-> w, revision |-> f]) < 0
<1> DEFINE p == Len(w) + 1
           l == [v |-> Append(Append(w, n), k), revision |-> e]
           r == [v |-> Append(Append(w, m), j), revision |-> f]
           q == [v |-> w, revision |-> f]
<1>1. ASSUME NEW x \in Int, NEW y \in Int
      PROVE  /\ Append(Append(w, x), y) \in Seq(Int)
             /\ Len(Append(Append(w, x), y)) = p + 1
             /\ Append(Append(w, x), y)[p] = x
             /\ \A i \in 1..Len(w) : Append(Append(w, x), y)[i] = w[i]
  OBVIOUS
<1>2. l \in Vectors /\ r \in Vectors /\ q \in Vectors
  BY <1>1 DEF Vectors
<1>3. p \in Nat \ {0} /\ \A i \in Places : i < p => i \in 1..Len(w)
  BY DEF Places
<1>4. Digit(l, p) = n /\ Digit(r, p) = m /\ Digit(q, p) = 0
  BY <1>1 DEF Digit
<1>5. SameTo(l, r, p) /\ SameTo(l, q, p)
  <2> SUFFICES ASSUME NEW i \in Places, i < p
               PROVE  Digit(l, i) = Digit(r, i) /\ Digit(l, i) = Digit(q, i)
    BY DEF SameTo
  <2>1. i \in 1..Len(w) /\ i <= p + 1
    BY <1>3
  <2> QED BY <1>1, <2>1 DEF Digit
<1> HIDE DEF l, r, q, p
<1>6. DifferFirst(l, r, p)
  BY <1>3, <1>4, <1>5 DEF DifferFirst, Places
<1>7. m = 0 => DifferFirst(l, q, p)
  BY <1>3, <1>4, <1>5 DEF DifferFirst, Places
<1>8. Wrap(n - m) = n - m
  BY WrapIs, IntAssumption
<1>9. Cmp(l, r) < 0
  BY <1>2, <1>4, <1>6, <1>8, CmpDiffer
<1>10. m = 0 => Cmp(l, q) < 0
  BY <1>2, <1>4, <1>7, <1>8, CmpDiffer
<1> QED BY <1>9, <1>10 DEF l, r, q

-----------------------------------------------------------------------------
(* The three properties, for any versions.                                  *)

LEMMA Agrees ==
    ASSUME NEW v \in Version, NEW u \in Version,
           \A w \in {v, u} : ~HasLetter(w) /\ Small(w)
    PROVE  Cmp(Vector[v], Vector[u]) = AwkCmp(AwkVector[v], AwkVector[u])
<1>1. v \in Seq(Components) /\ u \in Seq(Components)
  BY VersionsRead
<1>2. /\ MkVersion(v) = AwkMkVersion(v) /\ MkVersion(v) \in Moderate
      /\ MkVersion(u) = AwkMkVersion(u) /\ MkVersion(u) \in Moderate
  BY <1>1, ReadAlike
<1> QED BY <1>2, VersionsRead, CompareAlike

LEMMA Releases ==
    ASSUME NEW u \in Version, NEW m \in Nat, NEW n \in Nat
    PROVE  LET Pre(modifier, k) == MkVersion(u \o <<Modifier(modifier), Number(k)>>)
           IN  /\ Cmp(Pre(Alpha, m), Pre(Beta, n)) < 0
               /\ Cmp(Pre(Beta, m), Pre(RC, n)) < 0
               /\ Cmp(Pre(RC, m), Vector[u]) < 0
<1> DEFINE w == MkVersion(u).v
           e == MkVersion(u).revision
           Pre(modifier, k) == MkVersion(u \o <<Modifier(modifier), Number(k)>>)
<1>1. /\ u \in Seq(Components) /\ w \in Seq(Int) /\ e \in Int
      /\ Vector[u] = [v |-> w, revision |-> e]
  BY VersionsRead, VectorType DEF Vectors
<1>2. ASSUME NEW modifier \in Alpha..Dot, NEW k \in Nat
      PROVE  Pre(modifier, k) =
                 [v |-> Append(Append(w, modifier), Wrap(k)), revision |-> e]
  BY <1>1, ReadNumber
<1>3. /\ Alpha \in Alpha..Dot /\ Beta \in Alpha..Dot /\ RC \in Alpha..Dot
      /\ Alpha = -3 /\ Beta = -2 /\ RC = -1
  BY DEF Alpha, Beta, RC, Dot
<1>4. Wrap(m) \in Int /\ Wrap(n) \in Int /\ -IntMax <= -1
  BY WrapIs, IntAssumption
<1> HIDE DEF w, e, Pre
<1>5. Cmp(Pre(Alpha, m), Pre(Beta, n)) < 0
  <2>1. /\ Pre(Alpha, m) = [v |-> Append(Append(w, -3), Wrap(m)), revision |-> e]
        /\ Pre(Beta, n) = [v |-> Append(Append(w, -2), Wrap(n)), revision |-> e]
    BY <1>2, <1>3
  <2>2. -3 \in Int /\ -2 \in Int /\ -3 < -2 /\ -IntMax <= (-3) - (-2)
    BY <1>4
  <2>3. \A k, j \in Int :
            Cmp([v |-> Append(Append(w, -3), k), revision |-> e],
                [v |-> Append(Append(w, -2), j), revision |-> e]) < 0
    BY <1>1, <2>2, GoesOn
  <2> QED BY <1>4, <2>1, <2>3
<1>6. Cmp(Pre(Beta, m), Pre(RC, n)) < 0
  <2>1. /\ Pre(Beta, m) = [v |-> Append(Append(w, -2), Wrap(m)), revision |-> e]
        /\ Pre(RC, n) = [v |-> Append(Append(w, -1), Wrap(n)), revision |-> e]
    BY <1>2, <1>3
  <2>2. -2 \in Int /\ -1 \in Int /\ -2 < -1 /\ -IntMax <= (-2) - (-1)
    BY <1>4
  <2>3. \A k, j \in Int :
            Cmp([v |-> Append(Append(w, -2), k), revision |-> e],
                [v |-> Append(Append(w, -1), j), revision |-> e]) < 0
    BY <1>1, <2>2, GoesOn
  <2> QED BY <1>4, <2>1, <2>3
<1>7. Cmp(Pre(RC, m), Vector[u]) < 0
  <2>1. Pre(RC, m) = [v |-> Append(Append(w, -1), Wrap(m)), revision |-> e]
    BY <1>2, <1>3
  <2>2. -1 \in Int /\ 0 \in Int /\ -1 < 0 /\ -IntMax <= (-1) - 0
    BY <1>4
  <2>3. \A k, j, f \in Int :
            Cmp([v |-> Append(Append(w, -1), k), revision |-> e],
                [v |-> w, revision |-> f]) < 0
    BY <1>1, <2>2, GoesOn
  <2> QED BY <1>1, <1>4, <2>1, <2>3
<1> QED BY <1>5, <1>6, <1>7 DEF Pre


-----------------------------------------------------------------------------
(* reduce(), for any total order of versions.                               *)

\* What is left of a requirement above and below.
UpperOf(op) == IF op = "==" THEN "<=" ELSE op
LowerOf(op) == IF op = "==" THEN ">=" ELSE op

IsUpper(op) == op \in Upper \cup {"=="}
IsLower(op) == op \in Lower \cup {"=="}

BelowAll(v, S) == \A r \in S : IsUpper(r[1]) => Vtest(v, UpperOf(r[1]), r[2])
AboveAll(v, S) == \A r \in S : IsLower(r[1]) => Vtest(v, LowerOf(r[1]), r[2])
ApartAll(v, S) == \A r \in S : r[1] = "!=" => Vtest(v, "!=", r[2])

BelowMax(v) == maxop # None => Vtest(v, maxop, max)
AboveMin(v) == minop # None => Vtest(v, minop, min)
ApartNe(v) == ne # None => Vtest(v, "!=", ne)

MaxExact == \A v \in Version : BelowAll(v, targets) <=> BelowMax(v)
MinExact == \A v \in Version : AboveAll(v, targets) <=> AboveMin(v)
NeExact == ~failed => \A v \in Version : ApartAll(v, targets) <=> ApartNe(v)

NeAsked == ne # None => <<"!=", ne>> \in targets

IInv ==
    /\ TypeOK
    /\ MaxExact /\ MinExact /\ NeExact
    /\ NeAsked /\ GivesUpOnTwo

USE DEF Upper, Lower, Op

-----------------------------------------------------------------------------
\* The types are kept by one requirement.
LEMMA TypeStep ==
    ASSUME TypeOK, Next
    PROVE  TypeOK'
<1>1. PICK t \in Op, v \in Required : Target(t, v)
  BY DEF Next
<1>2. v \in Version
  BY RequiredAssumption
<1>3. /\ max' \in Version \cup {None} /\ maxop' \in Upper \cup {None}
      /\ maxop' # None => max' \in Version
  BY <1>1, <1>2 DEF Target, NarrowMax, TypeOK
<1>4. /\ min' \in Version \cup {None} /\ minop' \in Lower \cup {None}
      /\ minop' # None => min' \in Version
  BY <1>1, <1>2 DEF Target, NarrowMin, TypeOK
<1>5. ne' \in Version \cup {None} /\ failed' \in BOOLEAN
  BY <1>1, <1>2 DEF Target, SetApart, TypeOK
<1>6. targets' \subseteq Op \X Required
  BY <1>1 DEF Target, TypeOK
<1> QED BY <1>3, <1>4, <1>5, <1>6 DEF TypeOK

\* A version below the new bound, which the bound there accepts, is below
\* that one; and the new one is implied by the bound there otherwise.
LEMMA TighterMax ==
    ASSUME NEW t \in Upper, NEW op \in Upper,
           NEW v \in Version, NEW bound \in Version, NEW u \in Version
    PROVE  /\ Vtest(v, op, bound) => (Vtest(u, t, v) => Vtest(u, op, bound))
           /\ ~Vtest(v, op, bound) => (Vtest(u, op, bound) => Vtest(u, t, v))
BY TotalAssumption, TransitiveAssumption DEF Vtest

LEMMA TighterMin ==
    ASSUME NEW t \in Lower, NEW op \in Lower,
           NEW v \in Version, NEW bound \in Version, NEW u \in Version
    PROVE  /\ Vtest(v, op, bound) => (Vtest(u, t, v) => Vtest(u, op, bound))
           /\ ~Vtest(v, op, bound) => (Vtest(u, op, bound) => Vtest(u, t, v))
BY TotalAssumption, TransitiveAssumption DEF Vtest

\* The upper bound says what the requirements that bound from there say.
LEMMA MaxStep ==
    ASSUME TypeOK, MaxExact, Next
    PROVE  MaxExact'
<1>1. PICK t \in Op, v \in Required : Target(t, v)
  BY DEF Next
<1> DEFINE strict == UpperOf(t)
<1>2. v \in Version /\ (IsUpper(t) => strict \in Upper)
  BY RequiredAssumption DEF IsUpper, UpperOf
<1>3. targets' = targets \cup {<<t, v>>}
  BY <1>1 DEF Target
<1>4. SUFFICES ASSUME NEW u \in Version
               PROVE  BelowAll(u, targets')
                      <=> (maxop' # None => Vtest(u, maxop', max'))
  BY DEF MaxExact, BelowMax
<1>5. BelowAll(u, targets')
      <=> BelowAll(u, targets) /\ (IsUpper(t) => Vtest(u, strict, v))
  <2>1. \A r : r \in targets' <=> r \in targets \/ r = <<t, v>>
    BY <1>3
  <2>2. <<t, v>>[1] = t /\ <<t, v>>[2] = v
    OBVIOUS
  <2> QED BY <2>1, <2>2 DEF BelowAll
<1>6. BelowAll(u, targets) <=> (maxop # None => Vtest(u, maxop, max))
  BY DEF MaxExact, BelowMax
<1>7. CASE ~IsUpper(t)
  <2>1. max' = max /\ maxop' = maxop
    BY <1>1, <1>7 DEF Target, NarrowMax, IsUpper
  <2> QED BY <1>5, <1>6, <1>7, <2>1
<1>8. CASE IsUpper(t) /\ maxop = None
  <2>1. max' = v /\ maxop' = strict
    BY <1>1, <1>8 DEF Target, NarrowMax, IsUpper, Tighter, UpperOf
  <2>2. strict # None
    BY <1>2, <1>8, NoOperatorAssumption
  <2> QED BY <1>5, <1>6, <1>8, <2>1, <2>2
<1>9. CASE IsUpper(t) /\ maxop # None
  <2>1. maxop \in Upper /\ max \in Version
    BY <1>9 DEF TypeOK
  <2>2. /\ Vtest(v, maxop, max) =>
               (Vtest(u, strict, v) => Vtest(u, maxop, max))
        /\ ~Vtest(v, maxop, max) =>
               (Vtest(u, maxop, max) => Vtest(u, strict, v))
    BY <1>2, <1>9, <2>1, TighterMax
  <2>3. CASE Vtest(v, maxop, max)
    <3>1. max' = v /\ maxop' = strict
      BY <1>1, <1>9, <2>3 DEF Target, NarrowMax, IsUpper, Tighter, UpperOf
    <3>2. strict # None
      BY <1>2, <1>9, NoOperatorAssumption
    <3> QED BY <1>5, <1>6, <1>9, <2>2, <2>3, <3>1, <3>2
  <2>4. CASE ~Vtest(v, maxop, max)
    <3>1. max' = max /\ maxop' = maxop
      BY <1>1, <1>9, <2>4 DEF Target, NarrowMax, Tighter
    <3> QED BY <1>5, <1>6, <1>9, <2>2, <2>4, <3>1
  <2> QED BY <2>3, <2>4
<1> QED BY <1>7, <1>8, <1>9

\* The lower bound says what the requirements that bound from there say.
LEMMA MinStep ==
    ASSUME TypeOK, MinExact, Next
    PROVE  MinExact'
<1>1. PICK t \in Op, v \in Required : Target(t, v)
  BY DEF Next
<1> DEFINE strict == LowerOf(t)
<1>2. v \in Version /\ (IsLower(t) => strict \in Lower)
  BY RequiredAssumption DEF IsLower, LowerOf
<1>3. targets' = targets \cup {<<t, v>>}
  BY <1>1 DEF Target
<1>4. SUFFICES ASSUME NEW u \in Version
               PROVE  AboveAll(u, targets')
                      <=> (minop' # None => Vtest(u, minop', min'))
  BY DEF MinExact, AboveMin
<1>5. AboveAll(u, targets')
      <=> AboveAll(u, targets) /\ (IsLower(t) => Vtest(u, strict, v))
  <2>1. \A r : r \in targets' <=> r \in targets \/ r = <<t, v>>
    BY <1>3
  <2>2. <<t, v>>[1] = t /\ <<t, v>>[2] = v
    OBVIOUS
  <2> QED BY <2>1, <2>2 DEF AboveAll
<1>6. AboveAll(u, targets) <=> (minop # None => Vtest(u, minop, min))
  BY DEF MinExact, AboveMin
<1>7. CASE ~IsLower(t)
  <2>1. min' = min /\ minop' = minop
    BY <1>1, <1>7 DEF Target, NarrowMin, IsLower
  <2> QED BY <1>5, <1>6, <1>7, <2>1
<1>8. CASE IsLower(t) /\ minop = None
  <2>1. min' = v /\ minop' = strict
    BY <1>1, <1>8 DEF Target, NarrowMin, IsLower, Tighter, LowerOf
  <2>2. strict # None
    BY <1>2, <1>8, NoOperatorAssumption
  <2> QED BY <1>5, <1>6, <1>8, <2>1, <2>2
<1>9. CASE IsLower(t) /\ minop # None
  <2>1. minop \in Lower /\ min \in Version
    BY <1>9 DEF TypeOK
  <2>2. /\ Vtest(v, minop, min) =>
               (Vtest(u, strict, v) => Vtest(u, minop, min))
        /\ ~Vtest(v, minop, min) =>
               (Vtest(u, minop, min) => Vtest(u, strict, v))
    BY <1>2, <1>9, <2>1, TighterMin
  <2>3. CASE Vtest(v, minop, min)
    <3>1. min' = v /\ minop' = strict
      BY <1>1, <1>9, <2>3 DEF Target, NarrowMin, IsLower, Tighter, LowerOf
    <3>2. strict # None
      BY <1>2, <1>9, NoOperatorAssumption
    <3> QED BY <1>5, <1>6, <1>9, <2>2, <2>3, <3>1, <3>2
  <2>4. CASE ~Vtest(v, minop, min)
    <3>1. min' = min /\ minop' = minop
      BY <1>1, <1>9, <2>4 DEF Target, NarrowMin, Tighter
    <3> QED BY <1>5, <1>6, <1>9, <2>2, <2>4, <3>1
  <2> QED BY <2>3, <2>4
<1> QED BY <1>7, <1>8, <1>9

\* The version put apart is that of all != read, until reduce() gives up.
LEMMA NeStep ==
    ASSUME TypeOK, NeExact, NeAsked, Next
    PROVE  NeExact' /\ NeAsked'
<1>1. PICK t \in Op, v \in Required : Target(t, v)
  BY DEF Next
<1>2. v \in Version /\ v # None
  BY RequiredAssumption
<1>3. targets' = targets \cup {<<t, v>>} /\ ~failed
  BY <1>1 DEF Target
<1>4. NeAsked'
  BY <1>1, <1>2, <1>3 DEF Target, SetApart, NeAsked
<1>5. ASSUME ~failed', NEW u \in Version
      PROVE  ApartAll(u, targets') <=> (ne' # None => Vtest(u, "!=", ne'))
  <2>1. ApartAll(u, targets')
        <=> ApartAll(u, targets) /\ (t = "!=" => Vtest(u, "!=", v))
    <3>1. \A r : r \in targets' <=> r \in targets \/ r = <<t, v>>
      BY <1>3
    <3>2. <<t, v>>[1] = t /\ <<t, v>>[2] = v
      OBVIOUS
    <3> QED BY <3>1, <3>2 DEF ApartAll
  <2>2. ApartAll(u, targets) <=> (ne # None => Vtest(u, "!=", ne))
    BY <1>3 DEF NeExact, ApartNe
  <2>3. CASE t # "!="
    <3>1. ne' = ne
      BY <1>1, <2>3 DEF Target, SetApart
    <3> QED BY <2>1, <2>2, <2>3, <3>1
  <2>4. CASE t = "!="
    <3>1. ne' = v /\ (ne # None => ne = v)
      BY <1>1, <1>3, <1>5, <2>4 DEF Target, SetApart
    <3> QED BY <1>2, <2>1, <2>2, <2>4, <3>1
  <2> QED BY <2>3, <2>4
<1> QED BY <1>4, <1>5 DEF NeExact, ApartNe

LEMMA GivesUpStep ==
    ASSUME TypeOK, NeAsked, GivesUpOnTwo, Next
    PROVE  GivesUpOnTwo'
<1>1. PICK t \in Op, v \in Required : Target(t, v)
  BY DEF Next
<1>2. targets' = targets \cup {<<t, v>>} /\ ~failed
  BY <1>1 DEF Target
<1>3. SUFFICES ASSUME failed'
               PROVE  \E r, s \in targets' :
                          r[1] = "!=" /\ s[1] = "!=" /\ r[2] # s[2]
  BY DEF GivesUpOnTwo
<1>4. t = "!=" /\ ne # None /\ v # ne
  BY <1>1, <1>2, <1>3 DEF Target, SetApart
<1>5. <<"!=", ne>> \in targets' /\ <<"!=", v>> \in targets'
  BY <1>2, <1>4 DEF NeAsked
<1>6. /\ <<"!=", ne>>[1] = "!=" /\ <<"!=", ne>>[2] = ne
      /\ <<"!=", v>>[1] = "!=" /\ <<"!=", v>>[2] = v
  OBVIOUS
<1> QED BY <1>4, <1>5, <1>6

-----------------------------------------------------------------------------
\* A requirement is met when its parts are.
LEMMA PartsOfAll ==
    ASSUME TypeOK, NEW u \in Version
    PROVE  (\A r \in targets : Vtest(u, r[1], r[2]))
           <=> /\ BelowAll(u, targets) /\ AboveAll(u, targets)
               /\ ApartAll(u, targets)
<1>1. ASSUME NEW r \in targets
      PROVE  Vtest(u, r[1], r[2]) <=>
                 /\ IsUpper(r[1]) => Vtest(u, UpperOf(r[1]), r[2])
                 /\ IsLower(r[1]) => Vtest(u, LowerOf(r[1]), r[2])
                 /\ r[1] = "!=" => Vtest(u, "!=", r[2])
  <2>1. r[1] \in Op
    BY <1>1 DEF TypeOK
  <2>2. CASE r[1] \in Upper
    BY <2>2 DEF IsUpper, IsLower, UpperOf
  <2>3. CASE r[1] \in Lower
    BY <2>3 DEF IsUpper, IsLower, LowerOf
  <2>4. CASE r[1] = "=="
    BY <2>4 DEF IsUpper, IsLower, UpperOf, LowerOf, Vtest
  <2>5. CASE r[1] = "!="
    BY <2>5 DEF IsUpper, IsLower
  <2> QED BY <2>1, <2>2, <2>3, <2>4, <2>5
<1> QED BY <1>1 DEF BelowAll, AboveAll, ApartAll

\* What is returned accepts what is between the bounds: nothing is when the
\* bounds exclude each other, and one version when they meet.
LEMMA AcceptsBetween ==
    ASSUME TypeOK, NEW u \in Version
    PROVE  Accepts(u) <=> BelowMax(u) /\ AboveMin(u) /\ ApartNe(u)
<1>1. CASE ~Bounded
  BY <1>1 DEF Accepts, Empty, Bounded, BelowMax, AboveMin, ApartNe
<1>2. CASE Bounded
  <2>1. /\ minop \in Lower /\ maxop \in Upper /\ min \in Version /\ max \in Version
        /\ minop # None /\ maxop # None
    BY <1>2 DEF TypeOK, Bounded
  <2>2. Empty => ~(Vtest(u, maxop, max) /\ Vtest(u, minop, min))
    <3>1. \A a, b, c \in Version : Leq(a, b) /\ Leq(b, c) => Leq(a, c)
      BY TransitiveAssumption
    <3>2. \A a, b \in Version : Leq(a, b) \/ Leq(b, a)
      BY TotalAssumption
    <3> QED BY <1>2, <2>1, <3>1, <3>2 DEF Empty, Vtest
  <2>3. ASSUME ~Empty, Vtest(min, "==", max)
        PROVE  Vtest(u, "==", min)
               <=> Vtest(u, maxop, max) /\ Vtest(u, minop, min)
    BY <1>2, <2>1, <2>3, TotalAssumption, TransitiveAssumption DEF Empty, Vtest
  <2> QED BY <1>2, <2>1, <2>2, <2>3 DEF Accepts, BelowMax, AboveMin, ApartNe
<1> QED BY <1>1, <1>2

LEMMA ExactOfIInv == IInv => ReduceExact
<1> SUFFICES ASSUME IInv, ~failed, NEW u \in Version
             PROVE  Accepts(u) <=> \A r \in targets : Vtest(u, r[1], r[2])
  BY DEF ReduceExact
<1>1. Accepts(u) <=> BelowMax(u) /\ AboveMin(u) /\ ApartNe(u)
  BY AcceptsBetween DEF IInv
<1>2. (\A r \in targets : Vtest(u, r[1], r[2]))
      <=> BelowAll(u, targets) /\ AboveAll(u, targets) /\ ApartAll(u, targets)
  BY PartsOfAll DEF IInv
<1>3. /\ BelowAll(u, targets) <=> BelowMax(u)
      /\ AboveAll(u, targets) <=> AboveMin(u)
      /\ ApartAll(u, targets) <=> ApartNe(u)
  BY DEF IInv, MaxExact, MinExact, NeExact
<1> QED BY <1>1, <1>2, <1>3

LEMMA InitIInv == Init => IInv
<1> SUFFICES ASSUME Init PROVE IInv
  OBVIOUS
<1>1. TypeOK
  BY DEF Init, TypeOK
<1>2. MaxExact /\ MinExact /\ NeExact
  BY DEF Init, MaxExact, MinExact, NeExact, BelowAll, AboveAll, ApartAll,
         BelowMax, AboveMin, ApartNe
<1>3. NeAsked /\ GivesUpOnTwo
  BY DEF Init, NeAsked, GivesUpOnTwo
<1> QED BY <1>1, <1>2, <1>3 DEF IInv

LEMMA NextIInv == IInv /\ [Next]_vars => IInv'
<1> SUFFICES ASSUME IInv, [Next]_vars PROVE IInv'
  OBVIOUS
<1>1. CASE Next
  BY <1>1, TypeStep, MaxStep, MinStep, NeStep, GivesUpStep DEF IInv
<1>2. CASE UNCHANGED vars
  BY <1>2 DEF vars, IInv, TypeOK, MaxExact, MinExact, NeExact, NeAsked,
              GivesUpOnTwo, BelowMax, AboveMin, ApartNe
<1> QED BY <1>1, <1>2

\* The pattern that reduce() of libdewey.awk returns matches exactly the
\* versions that all its requirements match, whatever the versions, their
\* order and the number of requirements, as long as one version at most is
\* put apart.
THEOREM ReduceCorrect == Spec => []ReduceExact
<1>1. IInv => ReduceExact
  BY ExactOfIInv
<1> QED BY InitIInv, NextIInv, <1>1, PTL DEF Spec

\* It returns nothing, where something might match, only for two different
\* versions to put apart.
THEOREM GivesUpCorrect == Spec => []GivesUpOnTwo
<1>1. IInv => GivesUpOnTwo
  BY DEF IInv
<1> QED BY InitIInv, NextIInv, <1>1, PTL DEF Spec

\* The types of the reduced pattern hold, whatever the requirements.
THEOREM TypeCorrect == Spec => []TypeOK
<1>1. IInv => TypeOK
  BY DEF IInv
<1> QED BY InitIInv, NextIInv, <1>1, PTL DEF Spec

-----------------------------------------------------------------------------
\* Whatever is required, C and awk order versions alike: none that make finds
\* to satisfy a requirement is refused by the tools, or the other way round,
\* unless it has letters or components at the edge of an int (AwkAgrees).
THEOREM AgreesCorrect == Spec => []AwkAgrees
<1>1. ASSUME TypeOK PROVE AwkAgrees
  <2>1. \A r \in targets : r[2] \in Version
    BY <1>1, RequiredAssumption DEF TypeOK
  <2> QED BY <2>1, Agrees DEF AwkAgrees
<1> QED BY <1>1, TypeCorrect, PTL

\* A letter sorts in the place of its number, but r, which marks a revision
\* (LettersAsNumbers).
THEOREM LettersCorrect == Spec => []LettersAsNumbers
<1>1. \A v \in Version :
          (\A i \in DOMAIN v : v[i] # Letter(R)) =>
              MkVersion(Spelt(v)) = Vector[v]
  BY VersionsRead, ReadSpelt
<1>2. LettersAsNumbers
  BY <1>1 DEF LettersAsNumbers
<1> QED BY <1>2, PTL

\* Alphas come before betas, those before release candidates, and those before
\* the release, whatever numbers they have (ReleaseOrder).
THEOREM ReleaseCorrect == Spec => []ReleaseOrder
<1>1. ASSUME TypeOK PROVE ReleaseOrder
  <2>1. \A r \in targets : r[2] \in Version
    BY <1>1, RequiredAssumption DEF TypeOK
  <2>2. 0 \in Nat /\ IntMax \in Nat
    BY IntAssumption
  <2> QED BY <2>1, <2>2, Releases DEF ReleaseOrder
<1> QED BY <1>1, TypeCorrect, PTL
=============================================================================
