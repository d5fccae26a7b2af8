---------------------------- MODULE MCScriptPool ----------------------------
(***************************************************************************)
(* Instances of ScriptPool for TLC.                                         *)
(***************************************************************************)
EXTENDS ScriptPool, TLC

CONSTANTS g1, g2, j1, j2, j3

Symmetric == Permutations(Goroutine) \cup Permutations(Runtime)
=============================================================================
