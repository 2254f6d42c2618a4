----------------------------- MODULE AccessPart -----------------------------
(***************************************************************************)
(* Access under names of its own, so that modules about other parts of an  *)
(* account can be used beside it: the constants and variables, what is     *)
(* assumed of the constants, and what the component promises.              *)
(***************************************************************************)
CONSTANTS Members, Configured, AdminCalls, PermissionSets, TokenScopes, Token, Nobody
VARIABLES account, admin, pending, granted

Acc == INSTANCE Access WITH Users <- Members, Requests <- AdminCalls, call <- pending

ASSUME AdminAssumption == Acc!AccessAssumption

-----------------------------------------------------------------------------
\* No request demotes a superadmin (repository/admin.go).
SuperadminsStay == Acc!SuperadminsStay

\* A superadmin's account is deleted or deactivated only by a request whose
\* check failed, or came before the account was one (repository/user.go).
SuperadminsAreSafe == Acc!SuperadminsAreSafe

\* What a request changes it changes for a caller who was entitled to it at some
\* moment since the request began (Authorize, RequireTokenOrUserAuth).
EffectsAreGranted == Acc!EffectsAreGranted
=============================================================================
