-------------------------------- MODULE Versions --------------------------------
(****************************************************************************)
(* Reduce with the order libdewey.awk computes, and how that order compares *)
(* with the one of the package tools, which match what make has written.    *)
(****************************************************************************)
EXTENDS Dewey, Reduce

\* What a version is read as.
Components ==
    [kind : {"number", "revision"}, value : Nat]
    \cup [kind : {"modifier"}, value : Alpha..Dot]
    \cup [kind : {"letter"}, value : 1..26]

ASSUME VersionAssumption == Version \subseteq Seq(Components)

Vector == [v \in Version |-> MkVersion(v)]
AwkVector == [v \in Version |-> AwkMkVersion(v)]

\* The order make reduces requirements by.
AwkLeq(a, b) == AwkCmp(AwkVector[a], AwkVector[b]) <= 0

Sign(n) == IF n > 0 THEN 1 ELSE IF n < 0 THEN -1 ELSE 0

HasLetter(v) == \E i \in DOMAIN v : v[i].kind = "letter"

\* No component is so large that its difference with another is no int.
Small(v) ==
    \A i \in DOMAIN v :
        /\ v[i].kind = "number" => v[i].value <= IntMax + Alpha
        /\ v[i].kind = "revision" => v[i].value <= IntMax

\* Both programs order the same versions in the same way: nothing make finds
\* to satisfy a requirement is refused by the tools, or the other way round.
\* Versions with letters are not among them, nor those with large components.
AwkAgrees ==
    \A r \in targets : \A v \in Version :
        (\A w \in {v, r[2]} : ~HasLetter(w) /\ Small(w)) =>
            Sign(Cmp(Vector[v], Vector[r[2]]))
            = Sign(AwkCmp(AwkVector[v], AwkVector[r[2]]))

\* A letter sorts in the place of its number (pkg_info.1: 1.2e is 1.2.5), r
\* excepted.
Spell(t) ==
    IF t.kind = "letter" THEN <<Modifier(Dot), Number(t.value)>> ELSE <<t>>
Spelt(v) ==
    LET s[i \in 0..Len(v)] ==
            IF i = 0 THEN <<>> ELSE s[i - 1] \o Spell(v[i])
    IN  s[Len(v)]
LettersAsNumbers ==
    \A r \in targets : \A v \in Version :
        HasLetter(v) /\ (\A i \in DOMAIN v : v[i] # Letter(R)) =>
            Sign(Cmp(Vector[v], Vector[r[2]]))
            = Sign(Cmp(MkVersion(Spelt(v)), Vector[r[2]]))

\* An alpha comes before a beta, that before a release candidate, and that
\* before the release, whatever numbers they have (pkg_info.1).
ReleaseOrder ==
    \A r \in targets : \A m, n \in {0, IntMax} :
        LET Pre(modifier, k) ==
                MkVersion(r[2] \o <<Modifier(modifier), Number(k)>>)
        IN  /\ Cmp(Pre(Alpha, m), Pre(Beta, n)) < 0
            /\ Cmp(Pre(Beta, m), Pre(RC, n)) < 0
            /\ Cmp(Pre(RC, m), Vector[r[2]]) < 0
=============================================================================
