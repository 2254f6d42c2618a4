----------------------------- MODULE TokenVerify -----------------------------
(***************************************************************************)
(* API tokens as the API server verifies and revokes them: the rows of     *)
(* table api_tokens, the in-memory TokenCache of the server process, the   *)
(* requests that run tokenService.Verify concurrently, the gRPC calls that *)
(* run tokenService.Revoke, and the cmd/token tool, a process of its own   *)
(* that changes rows without reaching the server's cache.                  *)
(*                                                                         *)
(* Time is relative: a Tick ages every remaining lifetime by one unit, so  *)
(* nothing counts up and no bound on time is needed.  An instant equal to  *)
(* an expiry is still inside the lifetime (time.Now().After is strict), so *)
(* a remaining lifetime of 0 is valid and Expired (-1) is past it.         *)
(*                                                                         *)
(* The column last_used_at is not represented: whether Verify finds it     *)
(* older than its five-minute debounce is left open, because no property   *)
(* depends on it.  The second cache write that the debounce causes is.     *)
(***************************************************************************)
EXTENDS Integers, FiniteSets

CONSTANTS
    Tokens,        \* token identities (a token and its hash are one value)
    Verifiers,     \* concurrent requests running Verify
    Revokers,      \* concurrent gRPC RevokeToken calls
    CacheTTL,      \* lifetime of a cache entry, in ticks
    MaxCacheSize,  \* maxTokenCacheSize
    Lifetimes,     \* lifetimes a token may be created with, in ticks
    Never,         \* the lifetime of a token with no expires_at
    NoEntry,       \* the cache entry of a token that has none
    NoToken        \* the token of a process that serves none

\* What is assumed of the constants.
VerifyAssumption ==
    /\ CacheTTL \in Nat
    /\ MaxCacheSize \in Nat \ {0}
    /\ IsFiniteSet(Tokens) /\ NoToken \notin Tokens
    /\ Lifetimes \subseteq Nat /\ {Never, NoEntry} \cap Int = {}

VARIABLES
    status,    \* status[t]: "absent", "active" or "revoked", the row of t
    life,      \* life[t]: what is left until expires_at
    entry,     \* entry[t]: what is left until cachedToken.expiresAt, or NoEntry
    pc,        \* pc[v]: where request v is in Verify
    tok,       \* tok[v]: the token request v presented
    snap,      \* snap[v]: the status request v read from the database
    revoking,  \* revoking[r]: the token whose row r revoked, not yet evicted
    \* History, read by no action:
    revAge,    \* revAge[t]: ticks since the row of t was revoked
    late,      \* tokens a Verify cached although the row was already revoked
    returned   \* returned[t]: how the last Revoke of t ended, see RevokeEvict

codeVars == <<status, life, entry, pc, tok, snap, revoking>>
vars == <<status, life, entry, pc, tok, snap, revoking,
          revAge, late, returned>>

Expired == -1

Statuses == {"absent", "active", "revoked"}
Stages == {"idle", "query", "check", "cached", "accepted", "rejected"}
Outcomes == {"none", "quiet", "overlapped"}
Ages == 0 .. CacheTTL + 1
Lives == Nat \cup {Expired, Never}

TypeOK ==
    /\ status \in [Tokens -> Statuses]
    /\ life \in [Tokens -> Lives]
    /\ entry \in [Tokens -> (Expired .. CacheTTL) \cup {NoEntry}]
    /\ pc \in [Verifiers -> Stages]
    /\ tok \in [Verifiers -> Tokens \cup {NoToken}]
    /\ snap \in [Verifiers -> Statuses]
    /\ revoking \in [Revokers -> Tokens \cup {NoToken}]
    /\ revAge \in [Tokens -> Ages]
    /\ late \in SUBSET Tokens
    /\ returned \in [Tokens -> Outcomes]

Init ==
    /\ status = [t \in Tokens |-> "absent"]
    /\ life = [t \in Tokens |-> Expired]
    /\ entry = [t \in Tokens |-> NoEntry]
    /\ pc = [v \in Verifiers |-> "idle"]
    /\ tok = [v \in Verifiers |-> NoToken]
    /\ snap = [v \in Verifiers |-> "absent"]
    /\ revoking = [r \in Revokers |-> NoToken]
    /\ revAge = [t \in Tokens |-> 0]
    /\ late = {}
    /\ returned = [t \in Tokens |-> "none"]

history == <<revAge, late, returned>>

-----------------------------------------------------------------------------
(* TokenCache *)

Items == {t \in Tokens : entry[t] # NoEntry}   \* the keys of the map
LiveItems == {t \in Items : entry[t] # Expired}

\* Get: an entry that is present and not past its TTL.
Hit(t) == t \in LiveItems

\* The map with only the keys in kept.
KeepOnly(kept) == [t \in Tokens |-> IF t \in kept THEN entry[t] ELSE NoEntry]

\* The key sets that Set's capacity check may leave: when the map is full it
\* drops every entry past its TTL, and if that frees nothing, any one entry.
RoomFor ==
    IF Cardinality(Items) < MaxCacheSize THEN {Items}
    ELSE IF Cardinality(LiveItems) < MaxCacheSize THEN {LiveItems}
    ELSE {LiveItems \ {k} : k \in LiveItems}

\* Set: make room, then (re)insert with a full TTL.
CacheSet(t) ==
    /\ \E kept \in RoomFor :
          entry' = [KeepOnly(kept) EXCEPT ![t] = CacheTTL]
    /\ late' = IF status[t] = "revoked" THEN late \cup {t} ELSE late

\* Mutant of InvalidateByID: the scan compares nothing and evicts nothing.
InvalidateNothing(t) == entry' = entry

\* InvalidateByID: drop the entries that hold token t.
InvalidateByID(t) == entry' = [entry EXCEPT ![t] = NoEntry]

-----------------------------------------------------------------------------
(* Creating a token: the gRPC call or cmd/token create. *)

Create(t) ==
    /\ status[t] = "absent"
    /\ status' = [status EXCEPT ![t] = "active"]
    /\ \E lf \in Lifetimes \cup {Never} : life' = [life EXCEPT ![t] = lf]
    /\ UNCHANGED <<entry, pc, tok, snap, revoking, history>>

-----------------------------------------------------------------------------
(* Verify, step by step. *)

Alive(t) == life[t] # Expired

\* Mutant of VerifyLookup: a hit renews the entry (a sliding TTL).
VerifyLookupRenewing(v, t) ==
    /\ pc[v] = "idle"
    /\ tok' = [tok EXCEPT ![v] = t]
    /\ pc' = [pc EXCEPT ![v] = IF ~Hit(t) THEN "query"
                               ELSE IF Alive(t) THEN "accepted"
                               ELSE "rejected"]
    /\ entry' = IF Hit(t) THEN [entry EXCEPT ![t] = CacheTTL] ELSE entry
    /\ UNCHANGED <<status, life, snap, revoking, history>>

\* Mutant of VerifyLookup: a hit is trusted without looking at expires_at.
VerifyLookupTrusting(v, t) ==
    /\ pc[v] = "idle"
    /\ tok' = [tok EXCEPT ![v] = t]
    /\ pc' = [pc EXCEPT ![v] = IF Hit(t) THEN "accepted" ELSE "query"]
    /\ UNCHANGED <<status, life, entry, snap, revoking, history>>

\* The cache lookup. A hit decides at once; cached.IsRevoked is never set on a
\* hit, because only a snapshot that was not revoked is ever cached.
VerifyLookup(v, t) ==
    /\ pc[v] = "idle"
    /\ tok' = [tok EXCEPT ![v] = t]
    /\ pc' = [pc EXCEPT ![v] = IF ~Hit(t) THEN "query"
                               ELSE IF Alive(t) THEN "accepted"
                               ELSE "rejected"]
    /\ UNCHANGED <<status, life, entry, snap, revoking, history>>

\* GetByHash: the row as it is when the query runs.
VerifyQuery(v) ==
    /\ pc[v] = "query"
    /\ snap' = [snap EXCEPT ![v] = status[tok[v]]]
    /\ pc' = [pc EXCEPT ![v] = IF status[tok[v]] = "absent" THEN "rejected"
                               ELSE "check"]
    /\ UNCHANGED <<status, life, entry, tok, revoking, history>>

\* The query fails: Verify returns the database error.
VerifyQueryFails(v) ==
    /\ pc[v] = "query"
    /\ pc' = [pc EXCEPT ![v] = "rejected"]
    /\ UNCHANGED <<status, life, entry, tok, snap, revoking, history>>

\* The revocation and expiry checks on the row that was read.
VerifyRefuse(v) ==
    /\ pc[v] = "check"
    /\ snap[v] = "revoked" \/ ~Alive(tok[v])
    /\ pc' = [pc EXCEPT ![v] = "rejected"]
    /\ UNCHANGED <<status, life, entry, tok, snap, revoking, history>>

\* The row passes both checks and is cached.
VerifyStore(v) ==
    /\ pc[v] = "check"
    /\ snap[v] # "revoked" /\ Alive(tok[v])
    /\ CacheSet(tok[v])
    /\ pc' = [pc EXCEPT ![v] = "cached"]
    /\ UNCHANGED <<status, life, tok, snap, revoking, revAge, returned>>

\* last_used_at is older than the debounce: the row is cached a second time
\* (and a goroutine writes last_used_at), then Verify accepts.
VerifyTouch(v) ==
    /\ pc[v] = "cached"
    /\ CacheSet(tok[v])
    /\ pc' = [pc EXCEPT ![v] = "accepted"]
    /\ UNCHANGED <<status, life, tok, snap, revoking, revAge, returned>>

\* last_used_at is recent: Verify accepts.
VerifyAccept(v) ==
    /\ pc[v] = "cached"
    /\ pc' = [pc EXCEPT ![v] = "accepted"]
    /\ UNCHANGED <<status, life, entry, tok, snap, revoking, history>>

\* The request is answered; its goroutine may serve another one.
VerifyReturn(v) ==
    /\ pc[v] \in {"accepted", "rejected"}
    /\ pc' = [pc EXCEPT ![v] = "idle"]
    /\ tok' = [tok EXCEPT ![v] = NoToken]
    /\ snap' = [snap EXCEPT ![v] = "absent"]
    /\ UNCHANGED <<status, life, entry, revoking, history>>

\* Requests that still hold a snapshot of t that passes the revocation check.
Holders(t) == {v \in Verifiers : /\ tok[v] = t
                                 /\ pc[v] \in {"check", "cached"}
                                 /\ snap[v] = "active"}

-----------------------------------------------------------------------------
(* Revoke, step by step. *)

MarkRevoked(t) ==
    /\ status' = [status EXCEPT ![t] = "revoked"]
    /\ revAge' = [revAge EXCEPT ![t] = IF status[t] = "revoked" THEN @ ELSE 0]

\* repo.Revoke in the server. A missing row is an error: nothing is evicted.
RevokeRow(r, t) ==
    /\ revoking[r] = NoToken
    /\ status[t] # "absent"
    /\ MarkRevoked(t)
    /\ revoking' = [revoking EXCEPT ![r] = t]
    /\ UNCHANGED <<life, entry, pc, tok, snap, late, returned>>

\* cache.InvalidateByID, and Revoke returns. The history records whether a
\* request held a snapshot from before the revocation at this moment.
RevokeEvict(r) ==
    /\ revoking[r] # NoToken
    /\ InvalidateByID(revoking[r])
    /\ revoking' = [revoking EXCEPT ![r] = NoToken]
    /\ returned' = [returned EXCEPT ![revoking[r]] =
                        IF Holders(revoking[r]) = {} THEN "quiet"
                        ELSE IF @ = "quiet" THEN @ ELSE "overlapped"]
    /\ UNCHANGED <<status, life, pc, tok, snap, revAge, late>>

\* cmd/token revoke: the same service with a nil cache, in its own process.
CLIRevoke(t) ==
    /\ status[t] # "absent"
    /\ MarkRevoked(t)
    /\ UNCHANGED <<life, entry, pc, tok, snap, revoking, late, returned>>

-----------------------------------------------------------------------------
(* Time, the cache's cleanup goroutine, and a restart of the server. *)

\* One tick off a remaining lifetime; past its end it stays past.
Down(x) == IF x \in {Expired, Never, NoEntry} THEN x ELSE x - 1

Tick ==
    /\ life' = [t \in Tokens |-> Down(life[t])]
    /\ entry' = [t \in Tokens |-> Down(entry[t])]
    /\ revAge' = [t \in Tokens |-> IF status[t] = "revoked" /\ revAge[t] <= CacheTTL
                                   THEN revAge[t] + 1 ELSE revAge[t]]
    /\ UNCHANGED <<status, pc, tok, snap, revoking, late, returned>>

Cleanup ==
    /\ entry' = KeepOnly(LiveItems)
    /\ UNCHANGED <<status, life, pc, tok, snap, revoking, history>>

\* The process ends and starts again: the cache and every call are gone, the
\* rows are not.
Restart ==
    /\ entry' = [t \in Tokens |-> NoEntry]
    /\ pc' = [v \in Verifiers |-> "idle"]
    /\ tok' = [v \in Verifiers |-> NoToken]
    /\ snap' = [v \in Verifiers |-> "absent"]
    /\ revoking' = [r \in Revokers |-> NoToken]
    /\ UNCHANGED <<status, life, history>>

-----------------------------------------------------------------------------
VerifyStep(v) ==
    \/ VerifyQuery(v) \/ VerifyQueryFails(v) \/ VerifyRefuse(v)
    \/ VerifyStore(v) \/ VerifyTouch(v) \/ VerifyAccept(v) \/ VerifyReturn(v)

Next ==
    \/ \E t \in Tokens : Create(t) \/ CLIRevoke(t)
    \/ \E v \in Verifiers, t \in Tokens : VerifyLookup(v, t)
    \/ \E v \in Verifiers : VerifyStep(v)
    \/ \E r \in Revokers, t \in Tokens : RevokeRow(r, t)
    \/ \E r \in Revokers : RevokeEvict(r)
    \/ Tick \/ Cleanup \/ Restart

Spec == Init /\ [][Next]_vars

-----------------------------------------------------------------------------
(* Properties *)

\* The cache never holds more than maxTokenCacheSize entries, whatever
\* sequence of inserts, re-inserts, expiries and evictions led there
\* (cache.go, Set).
CacheBounded == Cardinality(Items) <= MaxCacheSize

\* Once a Revoke has returned with no request holding a snapshot read before
\* it, the token is out of the cache for good: no later Verify brings it back,
\* although Verify reads the row and fills the cache in separate steps
\* (service/token.go, Verify and Revoke).
QuietRevokeIsFinal ==
    \A t \in Tokens : returned[t] = "quiet" => t \notin Items

\* However the row was revoked (cmd/token never reaches the cache), an entry
\* that was cached before the revocation stops answering at most one cache
\* lifetime after it. Only a request that read the row before and caches it
\* after the revocation escapes the bound (such tokens are in "late").
StaleHitBounded ==
    \A t \in Tokens :
        (status[t] = "revoked" /\ Hit(t) /\ t \notin late)
            => entry[t] + revAge[t] <= CacheTTL

\* A token is accepted only while it is inside its lifetime, also when a cache
\* entry outlives expires_at, and never before it exists. (Action property:
\* the step that accepts is the one that looks.)
AcceptsOnlyLiveTokens ==
    [][\A v \in Verifiers :
          (pc[v] \in {"idle", "check"} /\ pc'[v] \in {"accepted", "cached"})
              => status[tok'[v]] # "absent" /\ Alive(tok'[v])]_vars
=============================================================================
