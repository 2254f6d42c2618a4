------------------------------ MODULE MCThreads ------------------------------
(* An instance of Threads for TLC: symmetry. *)
EXTENDS Threads, TLC

Symmetry == Permutations(Users) \cup Permutations(Slugs) \cup Permutations(Posts)
=============================================================================
