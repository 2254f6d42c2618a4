---------------------------- MODULE RateLimiter -----------------------------
(***************************************************************************)
(* One shard of TokenRateLimiter: a bounded map from token ids to token    *)
(* buckets, read by requests under a shared lock, extended under the       *)
(* exclusive lock, and swept of idle entries by a goroutine.  Shards share *)
(* nothing, so Keys stands for the ids of one shard.                       *)
(*                                                                         *)
(* The bucket (golang.org/x/time/rate, a burst of Limit and Limit per      *)
(* minute) is exact, in the units of TokenBucket; the floats of the        *)
(* library are not represented.  Ids without a limit (limitRPM <= 0) touch *)
(* nothing and are left out, and so is a change of an id's limit, which    *)
(* nothing in the program makes.                                           *)
(***************************************************************************)
EXTENDS Naturals, FiniteSets

CONSTANTS
    Keys,        \* token ids of the shard
    Limit,       \* Limit[k]: rate_limit_rpm of token k
    Window,      \* ticks per minute
    IdleEvict,   \* idleEvictTimeout, in ticks
    MaxKeys,     \* maxKeysPerShard
    MaxWait,     \* bound on the ticks between the time.Now() of a call and its end
    Requests,    \* concurrent calls of Allow
    NoKey        \* the key of an idle request

ASSUME KeysAssumption == IsFiniteSet(Keys) /\ NoKey \notin Keys
ASSUME LimitsAssumption == Limit \in [Keys -> Nat \ {0}]
ASSUME TimesAssumption ==
    /\ Window \in Nat \ {0} /\ MaxWait \in Nat
    /\ IdleEvict \in Nat /\ IdleEvict >= Window + MaxWait
ASSUME CapacityAssumption == MaxKeys \in Nat \ {0}

VARIABLES
    entries,    \* the keys of the map
    tokens,     \* tokens[k]: units in the bucket of entry k, 0 without an entry
    idle,       \* idle[k]: ticks since entry k's lastSeen, 0 without an entry
    pc,         \* pc[r]: where request r is in Allow
    key,        \* key[r]: the id it asks for
    wait,       \* wait[r]: ticks since it called time.Now()
    \* History: one key is watched for a minute that may begin at any moment.
    watched,    \* the key
    elapsed,    \* ticks since the minute began
    granted,    \* requests granted to the key since; not counted when forgotten
    forgotten   \* its entry was evicted for lack of room since

map == <<entries, tokens, idle>>
call == <<pc, key, wait>>
watch == <<watched, elapsed, granted, forgotten>>
vars == <<map, call, watch>>

Cap(k) == Limit[k] * Window

MaxIdle == IdleEvict + MaxWait + 1   \* idle times beyond it are not told apart

TypeOK ==
    /\ entries \in SUBSET Keys
    /\ tokens \in [Keys -> Nat] /\ \A k \in Keys : tokens[k] <= Cap(k)
    /\ idle \in [Keys -> 0 .. MaxIdle]
    /\ pc \in [Requests -> {"idle", "lookup", "spend", "slow"}]
    /\ key \in [Requests -> Keys \cup {NoKey}]
    /\ wait \in [Requests -> 0 .. MaxWait]
    /\ watched \in Keys
    /\ elapsed \in 0 .. Window - 1
    /\ granted \in Nat
    /\ forgotten \in BOOLEAN

Init ==
    /\ entries = {}
    /\ tokens = [k \in Keys |-> 0]
    /\ idle = [k \in Keys |-> 0]
    /\ pc = [r \in Requests |-> "idle"]
    /\ key = [r \in Requests |-> NoKey]
    /\ wait = [r \in Requests |-> 0]
    /\ watched \in Keys
    /\ elapsed = 0
    /\ granted = 0
    /\ forgotten = FALSE

At(r, stage) == pc[r] = stage /\ key[r] \in Keys

End(r) ==
    /\ pc' = [pc EXCEPT ![r] = "idle"]
    /\ key' = [key EXCEPT ![r] = NoKey]
    /\ wait' = [wait EXCEPT ![r] = 0]

\* Nobody holds the shared lock, so the exclusive one can be taken.
Unlocked == \A r \in Requests : pc[r] # "spend"

-----------------------------------------------------------------------------
(* The bucket of an entry *)

\* lastSeen becomes the time the request called time.Now().
Touch(k, r) == wait[r]

\* limiter.Allow on the bucket of key k, which holds n units.
Allow(k, n) ==
    /\ tokens' = [tokens EXCEPT ![k] = IF n >= Window THEN n - Window ELSE n]
    /\ granted' = IF k = watched /\ n >= Window /\ ~forgotten THEN granted + 1 ELSE granted

-----------------------------------------------------------------------------
(* The map *)

\* Drop entries: the map as it is without the keys in gone.
Without(gone) ==
    /\ tokens' = [k \in Keys |-> IF k \in gone THEN 0 ELSE tokens[k]]
    /\ idle' = [k \in Keys |-> IF k \in gone THEN 0 ELSE idle[k]]

\* Mutant of IdleSince: entries are idle after half the timeout.
IdleSinceHalf(ago) == {k \in entries : idle[k] > ago + IdleEvict \div 2}

\* The entries whose lastSeen is before the threshold of a sweep or request
\* that called time.Now() so many ticks ago.
IdleSince(ago) == {k \in entries : idle[k] > ago + IdleEvict}

\* What makes room for one more entry: nothing while there is room, the idle
\* entries, or, when none is idle, any one entry (the first in map order).
Evictable(ago) ==
    IF Cardinality(entries) < MaxKeys THEN {{}}
    ELSE IF IdleSince(ago) # {} THEN {IdleSince(ago)}
    ELSE {{k} : k \in entries}

-----------------------------------------------------------------------------
(* Allow *)

\* The call begins with time.Now().
Begin(r, k) ==
    /\ pc[r] = "idle"
    /\ pc' = [pc EXCEPT ![r] = "lookup"]
    /\ key' = [key EXCEPT ![r] = k]
    /\ UNCHANGED <<map, wait, watch>>

\* Under the shared lock: an entry that exists is used (the lock is kept; the
\* count it reports is left out), else the lock is given up.
Lookup(r) ==
    /\ At(r, "lookup")
    /\ pc' = [pc EXCEPT ![r] = IF key[r] \in entries THEN "spend" ELSE "slow"]
    /\ UNCHANGED <<map, key, wait, watch>>

\* limiter.Allow, lastSeen, and the shared lock is released.
Spend(r) ==
    /\ At(r, "spend")
    /\ Allow(key[r], tokens[key[r]])
    /\ idle' = [idle EXCEPT ![key[r]] = Touch(key[r], r)]
    /\ End(r)
    /\ UNCHANGED <<entries, watched, elapsed, forgotten>>

\* Under the exclusive lock: the entry has appeared meanwhile ...
SlowFound(r) ==
    /\ At(r, "slow") /\ Unlocked
    /\ key[r] \in entries
    /\ Allow(key[r], tokens[key[r]])
    /\ idle' = [idle EXCEPT ![key[r]] = wait[r]]
    /\ End(r)
    /\ UNCHANGED <<entries, watched, elapsed, forgotten>>

\* The entries are those kept and k, whose bucket is full but for one request.
Insert(r, k, gone) ==
    /\ entries' = (entries \ gone) \cup {k}
    /\ tokens' = [j \in Keys |-> IF j = k THEN Cap(k) - Window
                                 ELSE IF j \in gone THEN 0 ELSE tokens[j]]
    /\ idle' = [j \in Keys |-> IF j = k THEN wait[r]
                               ELSE IF j \in gone THEN 0 ELSE idle[j]]
    /\ forgotten' = (forgotten \/ (watched \in gone /\ watched \notin IdleSince(wait[r])))
    /\ granted' = IF forgotten' THEN 0 ELSE IF k = watched THEN granted + 1 ELSE granted

\* Mutant of SlowInsert: no second look at the map under the exclusive lock.
SlowInsertAnyway(r) ==
    /\ At(r, "slow") /\ Unlocked
    /\ \E gone \in Evictable(wait[r]) : Insert(r, key[r], gone)
    /\ End(r)
    /\ UNCHANGED <<watched, elapsed>>

\* ... or it is inserted, after making room.
SlowInsert(r) ==
    /\ At(r, "slow") /\ Unlocked
    /\ key[r] \notin entries
    /\ \E gone \in Evictable(wait[r]) : Insert(r, key[r], gone)
    /\ End(r)
    /\ UNCHANGED <<watched, elapsed>>

-----------------------------------------------------------------------------
(* The cleanup goroutine, time, and the observer. *)

\* The sweep reached this shard so many ticks after it called time.Now().
Cleanup(ago) ==
    /\ Unlocked
    /\ entries' = entries \ IdleSince(ago)
    /\ Without(IdleSince(ago))
    /\ UNCHANGED <<call, watch>>

Smaller(m, n) == IF m < n THEN m ELSE n

Refilled(k) == Smaller(Cap(k), tokens[k] + Limit[k])

\* A tick passes; no call takes longer than MaxWait.
Tick ==
    /\ \A r \in Requests : pc[r] # "idle" => wait[r] < MaxWait
    /\ tokens' = [k \in Keys |-> IF k \in entries THEN Refilled(k) ELSE 0]
    /\ idle' = [k \in Keys |-> IF k \in entries THEN Smaller(MaxIdle, idle[k] + 1) ELSE 0]
    /\ wait' = [r \in Requests |-> IF pc[r] = "idle" THEN 0 ELSE wait[r] + 1]
    /\ IF elapsed + 1 < Window
       THEN elapsed' = elapsed + 1 /\ UNCHANGED <<granted, forgotten>>
       ELSE elapsed' = 0 /\ granted' = 0 /\ forgotten' = FALSE
    /\ UNCHANGED <<entries, pc, key, watched>>

\* A new minute begins to be watched.
Watch(k) ==
    /\ watched' = k
    /\ elapsed' = 0
    /\ granted' = 0
    /\ forgotten' = FALSE
    /\ UNCHANGED <<map, call>>

Next ==
    \/ \E r \in Requests, k \in Keys : Begin(r, k)
    \/ \E r \in Requests : Lookup(r) \/ Spend(r) \/ SlowFound(r) \/ SlowInsert(r)
    \/ \E ago \in 0 .. MaxWait : Cleanup(ago)
    \/ \E k \in Keys : Watch(k)
    \/ Tick

Spec == Init /\ [][Next]_vars

-----------------------------------------------------------------------------
(* Properties *)

\* The map of a shard never outgrows maxKeysPerShard, whatever requests find
\* it full at the same time (limiter.go, Allow).
ShardBounded == Cardinality(entries) <= MaxKeys

\* An entry that is old enough to be evicted as idle has a full bucket, so the
\* eviction gives its key nothing it did not have: no spending in any order,
\* with any delay between a call's time.Now() and its use, escapes it
\* (limiter.go, idleEvictTimeout against the minute of the rate).
IdleIsFull == \A k \in entries : idle[k] > IdleEvict => tokens[k] = Cap(k)

\* In any interval within a minute, a key is granted at most its burst and what
\* the interval refills, through concurrent first requests, idle evictions and
\* re-insertions. Only an eviction for lack of room gives it a new burst.
BurstAndRefill ==
    ~forgotten => granted * Window <= Cap(watched) + Limit[watched] * elapsed

\* The limiter is one token bucket per key: creating entries late, evicting
\* idle ones and two first requests at once cannot be noticed. Only a map that
\* is full lets the first request of one key give another a fresh bucket.
Bucket == INSTANCE TokenBucket WITH
    bucket <- [k \in Keys |-> IF k \in entries THEN tokens[k] ELSE Cap(k)],
    crowded <- Cardinality(entries) = MaxKeys

BucketPerKey == Bucket!Spec
=============================================================================
