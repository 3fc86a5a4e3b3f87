------------------------------ MODULE MCSocket ------------------------------
EXTENDS SocketProperties, TLC

(* Clients do the same things, and so do handlers, and so do closers.      *)
Symmetry == Permutations(Clients) \cup Permutations(Handlers) \cup Permutations(Closers)
==============================================================================
