-------------------------- MODULE TokenVerifyPart ---------------------------
(***************************************************************************)
(* TokenVerify under names of its own, so that a module about another      *)
(* component can be used beside it: the constants and variables, what is   *)
(* assumed of the constants, and what the component promises.              *)
(***************************************************************************)
CONSTANTS ApiTokens, Verifiers, Revokers, CacheTTL, MaxCacheSize, Lifetimes, Never, NoEntry,
          NoToken
VARIABLES status, life, entry, verifying, tok, snap, revoking, revAge, late, returned

Tok == INSTANCE TokenVerify WITH Tokens <- ApiTokens, pc <- verifying

ASSUME TokenAssumption == Tok!VerifyAssumption

-----------------------------------------------------------------------------
\* A token whose Revoke overlapped no older snapshot of it is out of the cache
\* for good (service/token.go, Verify and Revoke).
QuietRevokeIsFinal == Tok!QuietRevokeIsFinal

\* An entry cached before the revocation stops answering at most one cache
\* lifetime after it, however the row was revoked (auth/cache.go).
StaleHitBounded == Tok!StaleHitBounded

\* A token is accepted only while it is inside its lifetime, also when a cache
\* entry outlives expires_at (service/token.go, Verify).
AcceptsOnlyLiveTokens == Tok!AcceptsOnlyLiveTokens
=============================================================================
