------------------------------- MODULE MCVersions -------------------------------
(****************************************************************************)
(* Versions of one or two numbers, with modifiers, letters and revisions.   *)
(* The largest number is the largest whose difference with alpha is an int. *)
(****************************************************************************)
EXTENDS Versions

Heads == {<<Number(1)>>, <<Number(IntMax + Alpha)>>}
Middles ==
    {<<>>} \cup {<<Modifier(m), Number(n)>> : m \in Alpha..Dot, n \in {0, 1}}
    \cup {<<Letter(k)>> : k \in {1, 5, R}} \cup {<<Modifier(Dot), Letter(5)>>}
Tails == {<<>>, <<Revision(1)>>}
MCVersion == {h \o m \o t : h \in Heads, m \in Middles, t \in Tails}

MCRequired ==
    {<<Number(1)>>, <<Number(1), Modifier(Dot), Number(0)>>,
     <<Number(1), Revision(1)>>, <<Number(1), Modifier(RC), Number(1)>>,
     <<Number(1), Modifier(Dot), Number(1)>>, <<Number(1), Letter(1)>>,
     <<Number(IntMax + Alpha), Modifier(Alpha), Number(0)>>}
=============================================================================
