---------------------------- MODULE MCRateLimiter ----------------------------
(* Instances of RateLimiter for TLC: limits and symmetry. *)
EXTENDS RateLimiter, TLC

TwoEach == [k \in Keys |-> 2]

Symmetry == Permutations(Keys) \cup Permutations(Requests)
=============================================================================
