------------------------------ MODULE MCTwoFactor ------------------------------
(* Instances of TwoFactor for TLC. *)
EXTENDS TwoFactorPart, TLC

Symmetry == Permutations(Codes) \cup Permutations(FactorCalls)

MCSpec == TF!Spec
=============================================================================
