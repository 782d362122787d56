----------------------------- MODULE MCMakePackage -----------------------------
(* MakePackage with one other package.                                      *)
EXTENDS MakePackage

CONSTANT other

MCOther == {other}
=============================================================================
