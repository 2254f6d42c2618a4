------------------------------- MODULE MCPastes -------------------------------
(* Instances of Pastes for TLC: symmetry. *)
EXTENDS Pastes, TLC

Symmetry == Permutations(Slugs) \cup Permutations(Counters)
=============================================================================
