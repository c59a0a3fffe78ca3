--------------------------- MODULE MCContentReads ---------------------------
(* TLC instances of ContentReads. *)
EXTENDS ContentReads, TLC

Symmetry == Permutations(Users) \cup Permutations(Posts) \cup Permutations(Categories)
=============================================================================
