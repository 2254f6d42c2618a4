---------------------------- MODULE MCTokenVerify ----------------------------
(* Instance of TokenVerify for TLC: the symmetry sets of its model values. *)
EXTENDS TokenVerifyPart, TLC

Symmetry == Permutations(ApiTokens) \cup Permutations(Verifiers)

MCSpec == Tok!Spec
=============================================================================
