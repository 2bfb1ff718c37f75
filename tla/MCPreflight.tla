---------------------------- MODULE MCPreflight ----------------------------
(***************************************************************************)
(* Preflight for TLC: two files in one directory.                          *)
(***************************************************************************)
EXTENDS Preflight

CONSTANTS f1, f2, d1

MCDirOf == [f \in Files |-> d1]
=============================================================================
