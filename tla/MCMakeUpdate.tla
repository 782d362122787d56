------------------------------ MODULE MCMakeUpdate -----------------------------
(****************************************************************************)
(* MakeUpdate for a library with two versions, an application that uses it  *)
(* and a plugin of the application, which uses a tool as well.              *)
(****************************************************************************)
EXTENDS MakeUpdate

CONSTANTS lib1, lib2, app, plug, tool

MCPackage == {lib1, lib2, app, plug, tool}
MCPattern == {"lib", "app", "tool"}
MCMatches == [d \in MCPattern |->
    CASE d = "lib" -> {lib1, lib2} [] d = "app" -> {app} [] OTHER -> {tool}]
MCDeps == [p \in MCPackage |->
    CASE p = app -> {"lib"} [] p = plug -> {"app", "tool"} [] OTHER -> {}]
MCDir == {"libs/lib", "apps/app", "apps/plug", "tools/tool"}
MCDirOf == [p \in MCPackage |->
    CASE p = app -> "apps/app" [] p = plug -> "apps/plug"
      [] p = tool -> "tools/tool" [] OTHER -> "libs/lib"]
=============================================================================
