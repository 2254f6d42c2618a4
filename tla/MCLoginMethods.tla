---------------------------- MODULE MCLoginMethods ----------------------------
(* Instances of LoginMethods for TLC: the providers and addresses. *)
EXTENDS LoginMethods, TLC

CONSTANTS g1, h1, e1, e2

ProviderOfTwo == (g1 :> "google") @@ (h1 :> "github")
SameAddress == (g1 :> e1) @@ (h1 :> e1)

\* The two identities differ in their provider, of which LoginMethods asks only
\* whether two are the same, and have one address.
Symmetry ==
    Permutations(Users) \cup Permutations(Identities) \cup Permutations(Callers)
=============================================================================
