------------------------------- MODULE MCRosNode -------------------------------
(****************************************************************************)
(* RosNode with two threads and every build.                                *)
(****************************************************************************)
EXTENDS RosNode

CONSTANTS t1, t2

MCThread == {t1, t2}
\* "1.5", "-.inf"
MCScalars == {<<49, Dot, 53>>, <<Dash, Dot, 105, 110, 102>>}

MCBuilds == {"strtod_l", "uselocale", "neither"}
=============================================================================
