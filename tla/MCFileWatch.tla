------------------------------ MODULE MCFileWatch ------------------------------
(****************************************************************************)
(* FileWatch on both platforms, over three changes of the watched file.     *)
(****************************************************************************)
EXTENDS FileWatch

MCPlatforms == {"linux", "netbsd"}
=============================================================================
