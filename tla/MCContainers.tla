---------------------------- MODULE MCContainers ----------------------------
EXTENDS ContainersProperties, TLC

(* Threads do the same things, and what is stored is not looked into.      *)
Symmetry == Permutations(Threads) \cup Permutations(Values)
==============================================================================
