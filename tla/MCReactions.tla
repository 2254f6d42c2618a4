------------------------------ MODULE MCReactions ------------------------------
(* An instance of Reactions for TLC: symmetry. *)
EXTENDS Reactions, TLC

Symmetry ==
    Permutations(Slugs) \cup Permutations(Users) \cup Permutations(Types)
    \cup Permutations(Requests)
=============================================================================
