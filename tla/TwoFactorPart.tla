--------------------------- MODULE TwoFactorPart ----------------------------
(***************************************************************************)
(* TwoFactor under names of its own, so that modules about other parts of  *)
(* an account can be used beside it: the constants and variables, what is  *)
(* assumed of the constants, and what the component promises.              *)
(***************************************************************************)
CONSTANTS Secrets, Codes, BatchSize, FactorCalls, NoSecret, Password, NoProof
VARIABLES enabled, secret, codes, challenged, stage, proof, read, made, issued, spent, owed

TF == INSTANCE TwoFactor WITH Requests <- FactorCalls, pc <- stage

ASSUME FactorAssumption == TF!ProofAssumption

-----------------------------------------------------------------------------
\* A recovery code accepted while no other request was consuming one never comes
\* back into the list (service/auth.go, Verify2FA).
SpentStaysSpent == TF!SpentStaysSpent

\* The codes an undisturbed Enable2FA returned stay usable until they are used or
\* 2FA is disabled or enabled anew (service/auth.go, Enable2FA and Disable2FA).
IssuedStayUsable == TF!IssuedStayUsable
=============================================================================
