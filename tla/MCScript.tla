------------------------------ MODULE MCScript ------------------------------
EXTENDS ScriptProperties, TLC

(* Workers do the same things.                                             *)
Symmetry == Permutations(Workers)
==============================================================================
