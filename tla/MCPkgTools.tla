------------------------------- MODULE MCPkgTools ------------------------------
(****************************************************************************)
(* Instances of PkgTools for TLC.  lib1 and lib2 are versions of one        *)
(* library; app needs any version of it, tool the first one, plug needs     *)
(* app; tool and plug ship the same file; demo needs the library and what   *)
(* there is no archive of.                                                  *)
(****************************************************************************)
EXTENDS PkgImplements

CONSTANTS lib1, lib2, app, tool, plug, demo, f1, f2, f3

AllPackages == {lib1, lib2, app, tool, plug, demo}
TwoLevels == {lib1, lib2, app, tool}
OneUser == {lib1, lib2, app}

AllPatterns == {"lib>=1", "lib<2", "app", "missing"}
AllFiles == {f1, f2, f3}

Accepted(d) == CASE d = "lib>=1" -> {lib1, lib2}
                 [] d = "lib<2"  -> {lib1}
                 [] d = "app"    -> {app}
                 [] OTHER        -> {}

MCMatches == [d \in Pattern |-> Accepted(d) \cap Package]

MCDeps == [p \in Package |->
    CASE p = app -> {"lib>=1"} [] p = tool -> {"lib<2"} [] p = plug -> {"app"}
      [] p = demo -> {"lib>=1", "missing"} [] OTHER -> {}]

NoConflicts == [p \in Package |-> {}]
ToolExcludesApp == [p \in Package |-> IF p = tool THEN {"app"} ELSE {}]

MCFiles == [p \in Package |->
    CASE p \in {lib1, lib2} -> {f1} [] p = app -> {f2} [] OTHER -> {f3}]
AppOverlapsLib == [p \in Package |-> IF p = tool THEN {f3} ELSE {f1}]

MCBase == [p \in Package |->
    CASE p \in {lib1, lib2} -> "lib" [] p = app -> "app" [] p = tool -> "tool"
      [] p = plug -> "plug" [] OTHER -> "demo"]

MCLevel == [p \in Package |->
    CASE p \in {lib1, lib2} -> 0 [] p = plug -> 2 [] OTHER -> 1]

MCRank == [p \in Package |-> IF p = lib2 THEN 2 ELSE 1]

Plain == {{}}
PlainOrUpdate == {{}, {"u"}}
AutoUpdate == {{}, {"A", "u"}}
ForcedAdds == {{}, {"D", "u"}, {"f", "u"}}

Removals == {{}, {"r"}, {"A"}, {"r", "R"}}
Recursive == {{"r"}}
PlainOrLeaves == {{}, {"r", "R"}}
ForcedRemovals == {{"r"}, {"f"}, {"ff"}, {"f", "N"}, {"k", "R"}}

Nothing == {}
TheApplication == {app}
=============================================================================
