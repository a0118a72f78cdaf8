------------------------------ MODULE MCImports ------------------------------
(* Two imports of any kind into two slugs. *)
EXTENDS Imports

EveryKind == Archives \cup Directories
=============================================================================
