--------------------------- MODULE Tokens_proofs ----------------------------
(***************************************************************************)
(* Proofs about the calls that carry a token: RateLimiter, for any keys,   *)
(* limits, timeouts, capacity and concurrent calls; then TokenVerify, for  *)
(* any tokens, requests and revoke calls, any cache lifetime and any       *)
(* positive size of the cache.                                             *)
(***************************************************************************)
EXTENDS RateLimiter, TokenVerifyPart, FiniteSetTheorems, TLAPS

-----------------------------------------------------------------------------
(* The inductive invariant, in named parts. *)

\* A call knows its key, and keeps its entry while it holds the shared lock.
CallOK ==
    \A r \in Requests :
        /\ pc[r] # "idle" => key[r] \in Keys
        /\ pc[r] = "spend" => key[r] \in entries

AbsentIsZero == \A k \in Keys \ entries : tokens[k] = 0 /\ idle[k] = 0

\* The units that n ticks refill.
Earned(k, n) == Limit[k] * n

\* An entry has been refilled for as long as it is idle, but for the time a
\* call may have waited between time.Now() and its use of the bucket.
RefilledSinceSeen ==
    \A k \in entries :
        \/ tokens[k] = Cap(k)
        \/ idle[k] <= MaxWait
        \/ tokens[k] >= Earned(k, idle[k] - MaxWait)

\* The units a key has at its disposal.
Level(k) == IF k \in entries THEN tokens[k] ELSE Cap(k)

\* What was granted and what is left come from the burst and the refill.
Conserved ==
    ~forgotten =>
        granted * Window + Level(watched) <= Cap(watched) + Earned(watched, elapsed)

IInv == TypeOK /\ CallOK /\ AbsentIsZero /\ RefilledSinceSeen /\ Conserved /\ ShardBounded

-----------------------------------------------------------------------------
(* Arithmetic of the rate *)

\* A bucket has room for a request, and is a number of units.
LEMMA CapFacts ==
    ASSUME NEW k \in Keys
    PROVE  Cap(k) \in Nat /\ Limit[k] \in Nat \ {0} /\ Cap(k) >= Window
<1>1. Limit[k] \in Nat /\ Limit[k] >= 1
  BY LimitsAssumption
<1>2. Window \in Nat
  BY TimesAssumption
<1>3. \A m, w \in Nat : m >= 1 => m * w \in Nat /\ m * w >= w
  OBVIOUS
<1> QED BY <1>1, <1>2, <1>3 DEF Cap

\* One tick earns Limit[k] more.
LEMMA EarnedNext ==
    ASSUME NEW k \in Keys, NEW n \in Nat
    PROVE  /\ Earned(k, n) \in Nat
           /\ Earned(k, n + 1) = Earned(k, n) + Limit[k]
           /\ Earned(k, 0) = 0
<1>1. Limit[k] \in Nat
  BY LimitsAssumption
<1>2. \A m, j \in Nat : m * j \in Nat /\ m * (j + 1) = m * j + m /\ m * 0 = 0
  OBVIOUS
<1> QED BY <1>1, <1>2 DEF Earned

\* A minute earns a full bucket.
LEMMA EarnedFull ==
    ASSUME NEW k \in Keys, NEW n \in Nat, n >= Window
    PROVE  Earned(k, n) >= Cap(k)
<1>1. Limit[k] \in Nat /\ Window \in Nat
  BY LimitsAssumption, TimesAssumption
<1>2. \A m, i, j \in Nat : i >= j => m * i >= m * j
  OBVIOUS
<1> QED BY <1>1, <1>2 DEF Earned, Cap

\* Granting a request moves Window units from the bucket to the grants.
LEMMA GrantedNext ==
    ASSUME NEW g \in Nat
    PROVE  /\ g * Window \in Nat
           /\ (g + 1) * Window = g * Window + Window
           /\ 0 * Window = 0
<1>1. Window \in Nat
  BY TimesAssumption
<1>2. \A i, w \in Nat : i * w \in Nat /\ (i + 1) * w = i * w + w /\ 0 * w = 0
  OBVIOUS
<1> QED BY <1>1, <1>2

\* An entry past the idle timeout has had more than a minute to refill.
LEMMA IdleFull == IInv => IdleIsFull
<1> SUFFICES ASSUME IInv, NEW k \in entries, idle[k] > IdleEvict
             PROVE  tokens[k] = Cap(k)
  BY DEF IdleIsFull
<1>1. k \in Keys /\ idle[k] \in Nat /\ tokens[k] \in Nat /\ tokens[k] <= Cap(k)
  BY DEF IInv, TypeOK, MaxIdle
<1>2. idle[k] - MaxWait \in Nat /\ idle[k] - MaxWait >= Window /\ ~(idle[k] <= MaxWait)
  BY <1>1, TimesAssumption
<1>3. Earned(k, idle[k] - MaxWait) >= Cap(k) /\ Earned(k, idle[k] - MaxWait) \in Nat
  BY <1>1, <1>2, EarnedFull, EarnedNext
<1>4. Cap(k) \in Nat
  BY <1>1, CapFacts
<1> QED BY <1>1, <1>2, <1>3, <1>4 DEF IInv, RefilledSinceSeen

-----------------------------------------------------------------------------
LEMMA InitInv == Init => IInv
<1> SUFFICES ASSUME Init PROVE IInv
  OBVIOUS
<1>1. TypeOK
  <2>1. \A k \in Keys : 0 <= Cap(k)
    BY CapFacts
  <2>2. 0 \in 0 .. Window - 1 /\ 0 \in 0 .. MaxWait /\ 0 \in 0 .. MaxIdle
    BY TimesAssumption DEF MaxIdle
  <2>3. tokens \in [Keys -> Nat] /\ \A k \in Keys : tokens[k] <= Cap(k)
    BY <2>1 DEF Init
  <2> QED BY <2>2, <2>3 DEF Init, TypeOK
<1>2. CallOK /\ AbsentIsZero /\ RefilledSinceSeen
  BY DEF Init, CallOK, AbsentIsZero, RefilledSinceSeen
<1>3. Conserved
  <2>1. Cap(watched) \in Nat /\ Earned(watched, 0) = 0 /\ 0 * Window = 0
    BY CapFacts, EarnedNext, GrantedNext DEF Init
  <2> QED BY <2>1 DEF Init, Conserved, Level
<1>4. ShardBounded
  BY FS_EmptySet, CapacityAssumption DEF Init, ShardBounded
<1> QED BY <1>1, <1>2, <1>3, <1>4 DEF IInv

\* Using the bucket of an entry: the fast path, or the slow one that found it.
LEMMA UseInv ==
    ASSUME IInv, NEW r \in Requests, key[r] \in entries,
           Allow(key[r], tokens[key[r]]),
           idle' = [idle EXCEPT ![key[r]] = wait[r]],
           End(r),
           UNCHANGED <<entries, watched, elapsed, forgotten>>
    PROVE  IInv'
<1> DEFINE k == key[r]
<1>1. /\ k \in Keys /\ tokens[k] \in Nat /\ tokens[k] <= Cap(k) /\ Cap(k) \in Nat
      /\ Window \in Nat /\ wait[r] \in 0 .. MaxWait /\ MaxWait \in Nat
      /\ wait[r] \in 0 .. MaxIdle
  BY CapFacts, TimesAssumption DEF IInv, TypeOK, MaxIdle
<1>2. TypeOK'
  BY <1>1, TimesAssumption DEF IInv, TypeOK, Allow, End, Cap
<1>3. CallOK' /\ AbsentIsZero' /\ ShardBounded'
  BY DEF IInv, TypeOK, CallOK, AbsentIsZero, ShardBounded, Allow, End
<1>4. RefilledSinceSeen'
  BY <1>1 DEF IInv, TypeOK, RefilledSinceSeen, Allow, Cap, Earned
<1>5. Conserved'
  <2> SUFFICES ASSUME ~forgotten
               PROVE  granted' * Window + Level(watched)' <= Cap(watched) + Earned(watched, elapsed)
    BY DEF Conserved, Cap, Earned
  <2>1. granted * Window + Level(watched) <= Cap(watched) + Earned(watched, elapsed)
    BY DEF IInv, Conserved
  <2>2. granted \in Nat /\ granted * Window \in Nat
        /\ (granted + 1) * Window = granted * Window + Window
    BY GrantedNext DEF IInv, TypeOK
  <2>3. /\ watched \in Keys /\ Cap(watched) \in Nat
        /\ elapsed \in Nat /\ Earned(watched, elapsed) \in Nat
    BY CapFacts, EarnedNext, TimesAssumption DEF IInv, TypeOK
  <2>4. CASE watched # k
    BY <2>1, <2>4 DEF IInv, TypeOK, Level, Allow, Cap
  <2>5. CASE watched = k /\ tokens[k] >= Window
    <3>1. granted' = granted + 1 /\ Level(watched)' = tokens[k] - Window
            /\ Level(watched) = tokens[k]
      BY <1>1, <2>5 DEF IInv, TypeOK, Level, Allow
    <3> HIDE DEF k
    <3> QED BY <3>1, <2>1, <2>2, <2>3, <1>1
  <2>6. CASE watched = k /\ ~(tokens[k] >= Window)
    BY <2>1, <2>6 DEF IInv, TypeOK, Level, Allow, Cap
  <2> QED BY <2>4, <2>5, <2>6
<1> QED BY <1>2, <1>3, <1>4, <1>5 DEF IInv

\* Making room gives up idle entries, which are full, or one entry.
LEMMA EvictionFacts ==
    ASSUME IInv, NEW r \in Requests, NEW gone \in Evictable(wait[r]), NEW k \in Keys \ entries
    PROVE  /\ gone \subseteq entries
           /\ Cardinality((entries \ gone) \cup {k}) <= MaxKeys
           /\ \A j \in gone : j \in IdleSince(wait[r]) => tokens[j] = Cap(j)
<1>1. gone \subseteq entries /\ IsFiniteSet(entries) /\ Cardinality(entries) \in Nat
      /\ Cardinality(entries) <= MaxKeys /\ MaxKeys \in Nat
  <2>1. IsFiniteSet(entries)
    BY KeysAssumption, FS_Subset DEF IInv, TypeOK
  <2> QED BY <2>1, FS_CardinalityType, CapacityAssumption
          DEF IInv, ShardBounded, Evictable, IdleSince
<1>2. Cardinality((entries \ gone) \cup {k}) <= MaxKeys
  <2>1. CASE gone = {}
    <3>1. Cardinality(entries) < MaxKeys
      BY <2>1 DEF Evictable
    <3>2. Cardinality(entries \cup {k}) = Cardinality(entries) + 1
      BY <1>1, FS_AddElement
    <3> QED BY <2>1, <3>1, <3>2, <1>1
  <2>2. CASE gone # {}
    <3>1. PICK j \in gone : TRUE
      BY <2>2
    <3>2. IsFiniteSet(entries \ {j}) /\ Cardinality(entries \ {j}) = Cardinality(entries) - 1
      BY <1>1, <3>1, FS_RemoveElement
    <3>3. Cardinality((entries \ {j}) \cup {k}) = Cardinality(entries)
          /\ IsFiniteSet((entries \ {j}) \cup {k})
      <4>1. k \notin entries \ {j}
        OBVIOUS
      <4>2. /\ Cardinality((entries \ {j}) \cup {k}) = Cardinality(entries \ {j}) + 1
            /\ IsFiniteSet((entries \ {j}) \cup {k})
        BY <3>2, <4>1, FS_AddElement
      <4> QED BY <4>2, <3>2, <1>1
    <3>4. (entries \ gone) \cup {k} \subseteq (entries \ {j}) \cup {k}
      BY <3>1
    <3>5. Cardinality((entries \ gone) \cup {k}) <= Cardinality((entries \ {j}) \cup {k})
          /\ Cardinality((entries \ gone) \cup {k}) \in Nat
      BY <3>3, <3>4, FS_Subset, FS_CardinalityType
    <3> QED BY <3>3, <3>5, <1>1
  <2> QED BY <2>1, <2>2
<1>3. \A j \in entries : idle[j] > wait[r] + IdleEvict => tokens[j] = Cap(j)
  <2> TAKE j \in entries
  <2>1. idle[j] \in Nat /\ wait[r] \in Nat /\ IdleEvict \in Nat
    BY TimesAssumption DEF IInv, TypeOK, MaxIdle
  <2>2. IdleIsFull
    BY IdleFull
  <2>3. idle[j] > wait[r] + IdleEvict => idle[j] > IdleEvict
    BY <2>1
  <2> QED BY <2>2, <2>3 DEF IdleIsFull
<1> QED BY <1>1, <1>2, <1>3 DEF IdleSince

LEMMA InsertInv ==
    ASSUME IInv, NEW r \in Requests, SlowInsert(r)
    PROVE  IInv'
<1> DEFINE k == key[r]
<1>1. PICK gone \in Evictable(wait[r]) : Insert(r, k, gone)
  BY DEF SlowInsert
<1>2. /\ k \in Keys /\ k \notin entries
      /\ Cap(k) \in Nat /\ Cap(k) >= Window /\ Window \in Nat
      /\ wait[r] \in 0 .. MaxWait /\ MaxWait \in Nat /\ wait[r] \in 0 .. MaxIdle
      /\ 0 \in 0 .. MaxIdle /\ 0 \in 0 .. MaxWait
  BY CapFacts, TimesAssumption DEF IInv, TypeOK, SlowInsert, At, MaxIdle
<1>3. /\ gone \subseteq entries
      /\ Cardinality((entries \ gone) \cup {k}) <= MaxKeys
      /\ \A j \in gone : j \in IdleSince(wait[r]) => tokens[j] = Cap(j)
  BY <1>2, EvictionFacts
<1>4. /\ entries' = (entries \ gone) \cup {k}
      /\ \A j \in Keys : tokens'[j] = IF j = k THEN Cap(k) - Window
                                      ELSE IF j \in gone THEN 0 ELSE tokens[j]
      /\ \A j \in Keys : idle'[j] = IF j = k THEN wait[r]
                                    ELSE IF j \in gone THEN 0 ELSE idle[j]
      /\ DOMAIN tokens' = Keys /\ DOMAIN idle' = Keys
  BY <1>1 DEF Insert
<1>5. TypeOK'
  <2>1. \A j \in Keys : tokens'[j] \in Nat /\ tokens'[j] <= Cap(j)
    BY <1>2, <1>4, CapFacts DEF IInv, TypeOK
  <2>2. \A j \in Keys : idle'[j] \in 0 .. MaxIdle
    BY <1>2, <1>4 DEF IInv, TypeOK
  <2>3. tokens' \in [Keys -> Nat] /\ idle' \in [Keys -> 0 .. MaxIdle]
    BY <1>1, <2>1, <2>2 DEF Insert
  <2>4. entries' \in SUBSET Keys /\ granted' \in Nat /\ forgotten' \in BOOLEAN
        /\ UNCHANGED <<watched, elapsed>>
    BY <1>1, <1>2, <1>3, <1>4 DEF IInv, TypeOK, Insert, SlowInsert
  <2>5. pc' \in [Requests -> {"idle", "lookup", "spend", "slow"}]
        /\ key' \in [Requests -> Keys \cup {NoKey}]
        /\ wait' \in [Requests -> 0 .. MaxWait]
    BY <1>2 DEF IInv, TypeOK, SlowInsert, End
  <2> QED BY <2>1, <2>3, <2>4, <2>5 DEF IInv, TypeOK, Cap, MaxIdle
<1>6. CallOK'
  BY <1>4 DEF IInv, TypeOK, CallOK, SlowInsert, End, Unlocked
<1>7. AbsentIsZero' /\ ShardBounded'
  BY <1>3, <1>4 DEF IInv, AbsentIsZero, ShardBounded
<1>8. RefilledSinceSeen'
  <2> SUFFICES ASSUME NEW j \in entries'
               PROVE  \/ tokens'[j] = Cap(j)
                      \/ idle'[j] <= MaxWait
                      \/ tokens'[j] >= Earned(j, idle'[j] - MaxWait)
    BY DEF RefilledSinceSeen, Cap, Earned
  <2>1. CASE j = k
    BY <2>1, <1>2, <1>4
  <2>2. CASE j # k
    BY <2>2, <1>4 DEF IInv, TypeOK, RefilledSinceSeen
  <2> QED BY <2>1, <2>2
<1>9. Conserved'
  <2> SUFFICES ASSUME ~forgotten'
               PROVE  granted' * Window + Level(watched)' <= Cap(watched) + Earned(watched, elapsed)
    BY DEF Conserved, Cap, Earned, SlowInsert
  <2>1. ~forgotten /\ (watched \in gone => watched \in IdleSince(wait[r]))
    BY <1>1 DEF IInv, TypeOK, Insert
  <2>2. granted * Window + Level(watched) <= Cap(watched) + Earned(watched, elapsed)
    BY <2>1 DEF IInv, Conserved
  <2>3. granted \in Nat /\ granted * Window \in Nat
        /\ (granted + 1) * Window = granted * Window + Window
    BY GrantedNext DEF IInv, TypeOK
  <2>4. /\ watched \in Keys /\ Cap(watched) \in Nat /\ watched' = watched
        /\ elapsed \in Nat /\ Earned(watched, elapsed) \in Nat
    BY CapFacts, EarnedNext, TimesAssumption DEF IInv, TypeOK, SlowInsert
  <2>5. CASE watched = k
    <3>1. granted' = granted + 1 /\ Level(watched)' = Cap(watched) - Window
          /\ Level(watched) = Cap(watched)
      BY <1>1, <1>2, <1>4, <2>4, <2>5 DEF Level, Insert, Cap
    <3> HIDE DEF k
    <3> QED BY <3>1, <2>2, <2>3, <2>4, <1>2
  <2>6. CASE watched # k
    <3>1. granted' = granted
      BY <1>1, <2>6 DEF Insert
    <3>2. Level(watched)' = Level(watched)
      BY <1>3, <1>4, <2>1, <2>4, <2>6 DEF Level, Cap
    <3> QED BY <2>2, <3>1, <3>2
  <2> QED BY <2>5, <2>6
<1> QED BY <1>5, <1>6, <1>7, <1>8, <1>9 DEF IInv

LEMMA CleanupInv ==
    ASSUME IInv, NEW ago \in 0 .. MaxWait, Cleanup(ago)
    PROVE  IInv'
<1> DEFINE gone == IdleSince(ago)
<1>1. /\ entries' = entries \ gone /\ gone \subseteq entries
      /\ tokens' = [k \in Keys |-> IF k \in gone THEN 0 ELSE tokens[k]]
      /\ idle' = [k \in Keys |-> IF k \in gone THEN 0 ELSE idle[k]]
      /\ UNCHANGED <<call, watch>> /\ Unlocked
  BY DEF Cleanup, Without, IdleSince
<1>2. 0 \in 0 .. MaxIdle
  BY TimesAssumption DEF MaxIdle
<1>3. \A k \in gone : tokens[k] = Cap(k)
  <2>1. IdleIsFull
    BY IdleFull
  <2>2. \A k \in gone : k \in entries /\ idle[k] > IdleEvict
    <3> SUFFICES ASSUME NEW k \in gone PROVE k \in entries /\ idle[k] > IdleEvict
      OBVIOUS
    <3>1. k \in entries /\ idle[k] > ago + IdleEvict
      BY DEF IdleSince
    <3>2. idle[k] \in Nat /\ ago \in Nat /\ IdleEvict \in Nat
      BY <3>1, TimesAssumption DEF IInv, TypeOK, MaxIdle
    <3> QED BY <3>1, <3>2
  <2> QED BY <2>1, <2>2 DEF IdleIsFull
<1> HIDE DEF gone
<1>4. TypeOK'
  <2>1. \A k \in Keys : tokens'[k] \in Nat /\ tokens'[k] <= Cap(k)
    BY <1>1, CapFacts DEF IInv, TypeOK
  <2>2. tokens' \in [Keys -> Nat] /\ idle' \in [Keys -> 0 .. MaxIdle]
    BY <1>1, <1>2 DEF IInv, TypeOK
  <2> QED BY <1>1, <2>1, <2>2 DEF IInv, TypeOK, call, watch, Cap, MaxIdle
<1>5. CallOK' /\ AbsentIsZero' /\ RefilledSinceSeen'
  BY <1>1
     DEF IInv, TypeOK, CallOK, AbsentIsZero, RefilledSinceSeen, call, Unlocked, Cap,
         Earned
<1>6. ShardBounded'
  <2>1. IsFiniteSet(entries)
    BY KeysAssumption, FS_Subset DEF IInv, TypeOK
  <2>2. Cardinality(entries') <= Cardinality(entries)
        /\ Cardinality(entries) \in Nat /\ Cardinality(entries') \in Nat
    BY <1>1, <2>1, FS_Subset, FS_CardinalityType
  <2> QED BY <2>2, CapacityAssumption DEF IInv, ShardBounded
<1>7. Conserved'
  BY <1>1, <1>3 DEF IInv, TypeOK, Conserved, Level, watch, Cap, Earned
<1> QED BY <1>4, <1>5, <1>6, <1>7 DEF IInv

LEMMA TickInv ==
    ASSUME IInv, Tick
    PROVE  IInv'
<1>1. /\ \A k \in Keys : tokens'[k] = IF k \in entries THEN Refilled(k) ELSE 0
      /\ \A k \in Keys : idle'[k] = IF k \in entries THEN Smaller(MaxIdle, idle[k] + 1) ELSE 0
      /\ UNCHANGED <<entries, pc, key, watched>>
  BY DEF Tick
<1>2. \A k \in Keys : /\ Refilled(k) \in Nat /\ Refilled(k) <= Cap(k)
                      /\ Refilled(k) = Cap(k) \/ Refilled(k) = tokens[k] + Limit[k]
  BY CapFacts DEF IInv, TypeOK, Refilled, Smaller
<1>3. \A k \in Keys : /\ Smaller(MaxIdle, idle[k] + 1) \in 0 .. MaxIdle
                      /\ Smaller(MaxIdle, idle[k] + 1) <= idle[k] + 1
  BY TimesAssumption DEF IInv, TypeOK, MaxIdle, Smaller
<1>4. TypeOK'
  <2>1. tokens' \in [Keys -> Nat] /\ \A k \in Keys : tokens'[k] <= Cap(k)
    BY <1>1, <1>2, CapFacts DEF Tick
  <2>2. idle' \in [Keys -> 0 .. MaxIdle]
    BY <1>1, <1>3, TimesAssumption DEF Tick, MaxIdle
  <2>3. wait' \in [Requests -> 0 .. MaxWait]
    BY TimesAssumption DEF IInv, TypeOK, Tick
  <2>4. elapsed' \in 0 .. Window - 1 /\ granted' \in Nat /\ forgotten' \in BOOLEAN
    <3>1. \/ elapsed + 1 < Window /\ elapsed' = elapsed + 1 /\ UNCHANGED <<granted, forgotten>>
          \/ elapsed' = 0 /\ granted' = 0 /\ forgotten' = FALSE
      BY DEF Tick
    <3>2. elapsed \in Nat /\ Window \in Nat /\ Window >= 1 /\ granted \in Nat
      BY TimesAssumption DEF IInv, TypeOK
    <3>3. elapsed' \in 0 .. Window - 1 /\ granted' \in Nat
      BY <3>1, <3>2
    <3>4. forgotten \in BOOLEAN
      BY DEF IInv, TypeOK
    <3>5. forgotten' \in BOOLEAN
      BY <3>1, <3>4
    <3> QED BY <3>3, <3>5
  <2> QED BY <1>1, <2>1, <2>2, <2>3, <2>4 DEF IInv, TypeOK, Cap, MaxIdle
<1>5. CallOK' /\ AbsentIsZero' /\ ShardBounded'
  BY <1>1 DEF IInv, TypeOK, CallOK, AbsentIsZero, ShardBounded
<1>6. RefilledSinceSeen'
  <2> SUFFICES ASSUME NEW k \in entries
               PROVE  \/ tokens'[k] = Cap(k)
                      \/ idle'[k] <= MaxWait
                      \/ tokens'[k] >= Earned(k, idle'[k] - MaxWait)
    BY <1>1 DEF RefilledSinceSeen, Cap, Earned
  <2>1. /\ k \in Keys /\ tokens[k] \in Nat /\ idle[k] \in Nat /\ idle'[k] \in Nat
        /\ tokens'[k] = Refilled(k) /\ idle'[k] <= idle[k] + 1
        /\ Cap(k) \in Nat /\ Limit[k] \in Nat /\ MaxWait \in Nat /\ tokens[k] <= Cap(k)
    BY <1>1, <1>2, <1>3, CapFacts, TimesAssumption DEF IInv, TypeOK, MaxIdle
  <2>2. CASE Refilled(k) = Cap(k)
    BY <2>1, <2>2
  <2>3. CASE Refilled(k) # Cap(k)
    <3>1. Refilled(k) = tokens[k] + Limit[k] /\ tokens[k] # Cap(k)
      BY <2>1, <2>3, <1>2, CapFacts DEF Refilled, Smaller
    <3>2. CASE idle'[k] <= MaxWait
      BY <3>2
    <3>3. CASE ~(idle'[k] <= MaxWait)
      <4>1. CASE idle[k] <= MaxWait
        <5>1. idle'[k] - MaxWait = 0 + 1
          BY <2>1, <3>3, <4>1
        <5>2. Earned(k, 0 + 1) = 0 + Limit[k]
          BY <2>1, EarnedNext
        <5> QED BY <2>1, <3>1, <5>1, <5>2
      <4>2. CASE ~(idle[k] <= MaxWait)
        <5>1. tokens[k] >= Earned(k, idle[k] - MaxWait)
          BY <3>1, <4>2 DEF IInv, RefilledSinceSeen
        <5>2. idle[k] - MaxWait \in Nat /\ idle'[k] - MaxWait \in Nat
              /\ idle'[k] - MaxWait <= (idle[k] - MaxWait) + 1
          BY <2>1, <3>3, <4>2
        <5>3. Earned(k, (idle[k] - MaxWait) + 1) = Earned(k, idle[k] - MaxWait) + Limit[k]
              /\ Earned(k, idle[k] - MaxWait) \in Nat
          BY <2>1, <5>2, EarnedNext
        <5>4. Earned(k, idle'[k] - MaxWait) <= Earned(k, (idle[k] - MaxWait) + 1)
          <6>1. \A m, i, j \in Nat : i <= j => m * i <= m * j
            OBVIOUS
          <6>2. (idle[k] - MaxWait) + 1 \in Nat
            BY <5>2
          <6> QED BY <2>1, <5>2, <6>1, <6>2 DEF Earned
        <5>5. Earned(k, idle'[k] - MaxWait) \in Nat
          BY <2>1, <5>2, EarnedNext
        <5> QED BY <2>1, <3>1, <5>1, <5>3, <5>4, <5>5
      <4> QED BY <4>1, <4>2
    <3> QED BY <3>2, <3>3
  <2> QED BY <2>2, <2>3
<1>7. Conserved'
  <2>1. /\ watched \in Keys /\ watched' = watched /\ Cap(watched) \in Nat
        /\ elapsed \in Nat /\ Limit[watched] \in Nat
        /\ Earned(watched, elapsed) \in Nat /\ Earned(watched, 0) = 0
        /\ Earned(watched, elapsed + 1) = Earned(watched, elapsed) + Limit[watched]
        /\ 0 * Window = 0 /\ granted * Window \in Nat
    BY <1>1, CapFacts, EarnedNext, GrantedNext, TimesAssumption DEF IInv, TypeOK
  <2>2. /\ Level(watched) \in Nat /\ Level(watched)' \in Nat
        /\ Level(watched)' <= Level(watched) + Limit[watched]
        /\ Level(watched)' <= Cap(watched)
    <3>1. CASE watched \in entries
      <4>1. Level(watched) = tokens[watched] /\ Level(watched)' = Refilled(watched)
        BY <1>1, <2>1, <3>1 DEF Level
      <4>2. tokens[watched] \in Nat /\ tokens[watched] <= Cap(watched)
        BY <2>1 DEF IInv, TypeOK
      <4> QED BY <4>1, <4>2, <2>1, <1>2 DEF Refilled, Smaller
    <3>2. CASE watched \notin entries
      <4>1. Level(watched) = Cap(watched) /\ Level(watched)' = Cap(watched)
        BY <1>1, <2>1, <3>2 DEF Level, Cap
      <4> QED BY <4>1, <2>1
    <3> QED BY <3>1, <3>2
  <2>3. CASE elapsed + 1 < Window
    <3>1. elapsed' = elapsed + 1 /\ UNCHANGED <<granted, forgotten>>
      BY <2>3 DEF Tick
    <3>2. ~forgotten => granted * Window + Level(watched) <= Cap(watched) + Earned(watched, elapsed)
      BY DEF IInv, Conserved
    <3>3. ~forgotten => granted * Window + Level(watched)'
                            <= Cap(watched) + Earned(watched, elapsed + 1)
      BY <2>1, <2>2, <3>2
    <3> QED BY <2>1, <3>1, <3>3 DEF Conserved, Cap, Earned
  <2>4. CASE ~(elapsed + 1 < Window)
    <3>1. elapsed' = 0 /\ granted' = 0
      BY <2>4 DEF Tick
    <3>2. 0 * Window + Level(watched)' <= Cap(watched) + Earned(watched, 0)
      BY <2>1, <2>2
    <3> QED BY <2>1, <3>1, <3>2 DEF Conserved, Cap, Earned
  <2> QED BY <2>3, <2>4
<1> QED BY <1>4, <1>5, <1>6, <1>7 DEF IInv

LEMMA WatchInv ==
    ASSUME IInv, NEW k \in Keys, Watch(k)
    PROVE  IInv'
<1>1. UNCHANGED <<map, call>> /\ watched' = k /\ elapsed' = 0 /\ granted' = 0
        /\ forgotten' = FALSE
  BY DEF Watch
<1>2. 0 \in 0 .. Window - 1
  BY TimesAssumption
<1>3. TypeOK' /\ CallOK' /\ AbsentIsZero' /\ RefilledSinceSeen' /\ ShardBounded'
  BY <1>1, <1>2 DEF IInv, TypeOK, CallOK, AbsentIsZero, RefilledSinceSeen, ShardBounded,
                    map, call, Cap, Earned, MaxIdle
<1>4. Conserved'
  <2>1. Cap(k) \in Nat /\ Earned(k, 0) = 0 /\ 0 * Window = 0
    BY CapFacts, EarnedNext, GrantedNext
  <2>2. Level(k)' \in Nat /\ Level(k)' <= Cap(k)
    BY <1>1, <2>1 DEF IInv, TypeOK, Level, map, Cap
  <2>3. 0 * Window + Level(k)' <= Cap(k) + Earned(k, 0)
    BY <2>1, <2>2
  <2> QED BY <1>1, <2>3 DEF Conserved, Level, Cap, Earned
<1> QED BY <1>3, <1>4 DEF IInv

\* The steps of a call that change nothing but its own place.
LEMMA WalkInv ==
    ASSUME IInv, NEW r \in Requests,
           Lookup(r) \/ \E k \in Keys : Begin(r, k)
    PROVE  IInv'
<1>1. UNCHANGED <<map, wait, watch>>
  BY DEF Lookup, Begin
<1>2. TypeOK'
  <2>1. key' \in [Requests -> Keys \cup {NoKey}]
        /\ pc' \in [Requests -> {"idle", "lookup", "spend", "slow"}]
    BY DEF IInv, TypeOK, Lookup, Begin
  <2> QED BY <1>1, <2>1 DEF IInv, TypeOK, map, watch, Cap, MaxIdle
<1>3. CallOK'
  BY <1>1 DEF IInv, TypeOK, CallOK, Lookup, Begin, At, map
<1>4. AbsentIsZero' /\ RefilledSinceSeen' /\ ShardBounded' /\ Conserved'
  BY <1>1 DEF IInv, AbsentIsZero, RefilledSinceSeen, ShardBounded, Conserved, Level,
              map, watch, Cap, Earned
<1> QED BY <1>2, <1>3, <1>4 DEF IInv

LEMMA StepInv == IInv /\ [Next]_vars => IInv'
<1> SUFFICES ASSUME IInv, [Next]_vars PROVE IInv'
  OBVIOUS
<1>1. ASSUME NEW r \in Requests, NEW k \in Keys, Begin(r, k) PROVE IInv'
  BY <1>1, WalkInv
<1>2. ASSUME NEW r \in Requests, Lookup(r) PROVE IInv'
  BY <1>2, WalkInv
<1>3. ASSUME NEW r \in Requests, Spend(r) PROVE IInv'
  <2>1. key[r] \in entries
    BY <1>3 DEF IInv, CallOK, Spend, At
  <2> QED BY <1>3, <2>1, UseInv DEF Spend, Touch
<1>4. ASSUME NEW r \in Requests, SlowFound(r) PROVE IInv'
  BY <1>4, UseInv DEF SlowFound
<1>5. ASSUME NEW r \in Requests, SlowInsert(r) PROVE IInv'
  BY <1>5, InsertInv
<1>6. ASSUME NEW ago \in 0 .. MaxWait, Cleanup(ago) PROVE IInv'
  BY <1>6, CleanupInv
<1>7. ASSUME NEW k \in Keys, Watch(k) PROVE IInv'
  BY <1>7, WatchInv
<1>8. CASE Tick
  BY <1>8, TickInv
<1>9. CASE UNCHANGED vars
  <2>1. UNCHANGED <<map, call, watch>>
    BY <1>9 DEF vars
  <2> QED BY <2>1 DEF IInv, TypeOK, CallOK, AbsentIsZero, RefilledSinceSeen, ShardBounded,
                      Conserved, Level, map, call, watch, Cap, Earned, MaxIdle
<1> QED BY <1>1, <1>2, <1>3, <1>4, <1>5, <1>6, <1>7, <1>8, <1>9 DEF Next

-----------------------------------------------------------------------------
\* Every reachable state satisfies the inductive invariant.
THEOREM Invariance == Spec => []IInv
<1>1. Init => IInv
  BY InitInv
<1>2. IInv /\ [Next]_vars => IInv'
  BY StepInv
<1> QED BY <1>1, <1>2, PTL DEF Spec

\* The map, its buckets and the calls keep their types: no bucket is ever
\* below zero or above its burst (limiter.go, TokenRateLimiter).
THEOREM TypeCorrect == Spec => []TypeOK
<1>1. IInv => TypeOK
  BY DEF IInv
<1> QED BY <1>1, Invariance, PTL

\* A shard never outgrows maxKeysPerShard (limiter.go, Allow).
THEOREM StaysBounded == Spec => []ShardBounded
<1>1. IInv => ShardBounded
  BY DEF IInv
<1> QED BY <1>1, Invariance, PTL

\* An entry that may be evicted as idle has a full bucket, whenever the idle
\* timeout covers a minute and the longest call (limiter.go, cleanup).
THEOREM IdleEntriesFull == Spec => []IdleIsFull
<1>1. IInv => IdleIsFull
  BY IdleFull
<1> QED BY <1>1, Invariance, PTL

\* A key that is not evicted for lack of room is granted, in any interval
\* within a minute, at most its burst and the refill (limiter.go, Allow).
THEOREM GrantsBounded == Spec => []BurstAndRefill
<1>1. IInv => BurstAndRefill
  <2> SUFFICES ASSUME IInv, ~forgotten
               PROVE  granted * Window <= Cap(watched) + Limit[watched] * elapsed
    BY DEF BurstAndRefill
  <2>1. granted * Window + Level(watched) <= Cap(watched) + Earned(watched, elapsed)
    BY DEF IInv, Conserved
  <2>2. /\ watched \in Keys /\ Cap(watched) \in Nat
        /\ elapsed \in Nat /\ Earned(watched, elapsed) \in Nat
        /\ granted * Window \in Nat
    BY CapFacts, EarnedNext, GrantedNext, TimesAssumption DEF IInv, TypeOK
  <2>3. Level(watched) \in Nat
    BY <2>2 DEF IInv, TypeOK, Level
  <2>4. granted * Window <= Cap(watched) + Earned(watched, elapsed)
    BY <2>1, <2>2, <2>3
  <2> QED BY <2>4 DEF Earned
<1> QED BY <1>1, Invariance, PTL

-----------------------------------------------------------------------------
(* The limiter implements one token bucket per key. *)

AbstractBucket == [k \in Keys |-> IF k \in entries THEN tokens[k] ELSE Cap(k)]

\* Using entry k takes a token from the abstract bucket, or is refused.
LEMMA UseTakes ==
    ASSUME IInv, NEW k \in entries, Allow(k, tokens[k]), UNCHANGED entries
    PROVE  [Bucket!Next]_AbstractBucket
<1>1. k \in Keys /\ AbstractBucket[k] = tokens[k]
  BY DEF IInv, TypeOK, AbstractBucket
<1>2. CASE tokens[k] >= Window
  <2>1. AbstractBucket' = [AbstractBucket EXCEPT ![k] = @ - Window]
    BY <1>1, <1>2 DEF IInv, TypeOK, AbstractBucket, Allow, Cap
  <2>2. Bucket!Take(k)
    BY <1>1, <1>2, <2>1 DEF Bucket!Take, AbstractBucket
  <2> QED BY <1>1, <2>2 DEF Bucket!Next
<1>3. CASE ~(tokens[k] >= Window)
  BY <1>3 DEF IInv, TypeOK, AbstractBucket, Allow, Cap
<1> QED BY <1>2, <1>3

LEMMA StepTakes ==
    ASSUME IInv, [Next]_vars
    PROVE  [Bucket!Next]_AbstractBucket
<1>1. ASSUME UNCHANGED map PROVE UNCHANGED AbstractBucket
  BY <1>1 DEF map, AbstractBucket, Cap
<1>2. ASSUME NEW r \in Requests, Spend(r) \/ SlowFound(r) PROVE [Bucket!Next]_AbstractBucket
  <2>1. key[r] \in entries /\ Allow(key[r], tokens[key[r]]) /\ UNCHANGED entries
    BY <1>2 DEF IInv, CallOK, Spend, SlowFound, At
  <2> QED BY <2>1, UseTakes
<1>3. ASSUME NEW r \in Requests, SlowInsert(r) PROVE [Bucket!Next]_AbstractBucket
  <2>0. PICK k \in Keys : k = key[r]
    BY <1>3 DEF SlowInsert, At
  <2>1. k \in Keys \ entries
    BY <1>3, <2>0 DEF SlowInsert
  <2>2. PICK gone \in Evictable(wait[r]) : Insert(r, k, gone)
    BY <1>3, <2>0 DEF SlowInsert
  <2>3. /\ gone \subseteq entries
        /\ \A j \in gone : j \in IdleSince(wait[r]) => tokens[j] = Cap(j)
    BY <2>1, EvictionFacts
  <2>4. /\ entries' = (entries \ gone) \cup {k}
        /\ tokens' = [j \in Keys |-> IF j = k THEN Cap(k) - Window
                                      ELSE IF j \in gone THEN 0 ELSE tokens[j]]
    BY <2>2 DEF Insert
  <2>5. AbstractBucket[k] = Cap(k) /\ Cap(k) >= Window /\ Cap(k) \in Nat
    BY <2>1, CapFacts DEF AbstractBucket
  <2>6. CASE gone \subseteq IdleSince(wait[r])
    <3>1. AbstractBucket' = [AbstractBucket EXCEPT ![k] = @ - Window]
      BY <2>1, <2>3, <2>4, <2>5, <2>6 DEF IInv, TypeOK, AbstractBucket, Cap
    <3>2. Bucket!Take(k)
      BY <2>1, <2>5, <3>1 DEF Bucket!Take, AbstractBucket
    <3> QED BY <2>1, <3>2 DEF Bucket!Next
  <2>7. CASE ~(gone \subseteq IdleSince(wait[r]))
    <3>1. PICK j \in entries : gone = {j}
      BY <2>7 DEF Evictable
    <3>2. Cardinality(entries) = MaxKeys
      <4>1. ~(Cardinality(entries) < MaxKeys)
        BY <2>7 DEF Evictable
      <4>2. IsFiniteSet(entries)
        BY KeysAssumption, FS_Subset DEF IInv, TypeOK
      <4>3. Cardinality(entries) \in Nat /\ Cardinality(entries) <= MaxKeys
        BY <4>2, FS_CardinalityType DEF IInv, ShardBounded
      <4> QED BY <4>1, <4>3, CapacityAssumption
    <3>3. j \in Keys /\ j # k
      BY <2>1, <3>1 DEF IInv, TypeOK
    <3>4. AbstractBucket' = [AbstractBucket EXCEPT ![k] = @ - Window, ![j] = Cap(j)]
      BY <2>1, <2>4, <2>5, <3>1, <3>3 DEF IInv, TypeOK, AbstractBucket, Cap
    <3>5. Bucket!Crowd(k, j)
      BY <2>5, <3>2, <3>3, <3>4 DEF Bucket!Crowd, Bucket!Cap, Cap, AbstractBucket
    <3> QED BY <2>1, <3>3, <3>5 DEF Bucket!Next
  <2> QED BY <2>6, <2>7
<1>4. ASSUME NEW ago \in 0 .. MaxWait, Cleanup(ago) PROVE UNCHANGED AbstractBucket
  <2>1. \A k \in IdleSince(ago) : k \in entries /\ tokens[k] = Cap(k)
    <3> SUFFICES ASSUME NEW k \in IdleSince(ago) PROVE k \in entries /\ tokens[k] = Cap(k)
      OBVIOUS
    <3>1. k \in entries /\ idle[k] > ago + IdleEvict
      BY DEF IdleSince
    <3>2. idle[k] > IdleEvict
      BY <3>1, TimesAssumption DEF IInv, TypeOK, MaxIdle
    <3>3. IdleIsFull
      BY IdleFull
    <3> QED BY <3>1, <3>2, <3>3 DEF IdleIsFull
  <2> QED BY <1>4, <2>1 DEF Cleanup, Without, AbstractBucket, Cap
<1>5. CASE Tick
  <2>1. AbstractBucket' = [k \in Keys |-> Bucket!Refilled(k, AbstractBucket[k])]
    <3>1. \A k \in Keys : AbstractBucket'[k] = Bucket!Refilled(k, AbstractBucket[k])
      <4> TAKE k \in Keys
      <4>1. Cap(k) \in Nat /\ Limit[k] \in Nat \ {0} /\ tokens[k] \in Nat /\ entries' = entries
            /\ tokens'[k] = IF k \in entries THEN Refilled(k) ELSE 0
        BY <1>5, CapFacts DEF IInv, TypeOK, Tick
      <4>2. CASE k \in entries
        <5>1. AbstractBucket'[k] = Refilled(k) /\ AbstractBucket[k] = tokens[k]
          BY <4>1, <4>2 DEF AbstractBucket
        <5>2. Refilled(k) = Bucket!Refilled(k, tokens[k])
          BY <4>1, <4>2 DEF Refilled, Smaller, Bucket!Refilled, Bucket!Cap, Cap
        <5> QED BY <5>1, <5>2
      <4>3. CASE k \notin entries
        <5>1. AbstractBucket'[k] = Cap(k) /\ AbstractBucket[k] = Cap(k)
          BY <4>1, <4>3 DEF AbstractBucket, Cap
        <5>2. Bucket!Refilled(k, Cap(k)) = Cap(k)
          BY <4>1 DEF Bucket!Refilled, Bucket!Cap, Cap
        <5> QED BY <5>1, <5>2
      <4> QED BY <4>2, <4>3
    <3> QED BY <3>1 DEF AbstractBucket
  <2> QED BY <2>1 DEF Bucket!Next, Bucket!Tick, AbstractBucket
<1>6. ASSUME NEW r \in Requests, NEW k \in Keys, Begin(r, k) PROVE UNCHANGED map
  BY <1>6 DEF Begin
<1>7. ASSUME NEW r \in Requests, Lookup(r) PROVE UNCHANGED map
  BY <1>7 DEF Lookup
<1>8. ASSUME NEW k \in Keys, Watch(k) PROVE UNCHANGED map
  BY <1>8 DEF Watch
<1>9. CASE UNCHANGED vars
  BY <1>1, <1>9 DEF vars
<1> QED BY <1>1, <1>2, <1>3, <1>4, <1>5, <1>6, <1>7, <1>8, <1>9 DEF Next

\* Every behaviour of the limiter, seen through its buckets, is one of a token
\* bucket per key, of which only a full map starts one afresh (limiter.go).
THEOREM ImplementsBuckets == Spec => BucketPerKey
<1>1. Init => Bucket!Init
  BY DEF Init, Bucket!Init, Bucket!Cap, Cap
<1>2. IInv /\ [Next]_vars => [Bucket!Next]_AbstractBucket
  BY StepTakes
<1> QED BY <1>1, <1>2, Invariance, PTL DEF BucketPerKey, Spec, Bucket!Spec, AbstractBucket

-----------------------------------------------------------------------------
(***************************************************************************)
(* TokenVerify: the cache of verified tokens. First what TokenAssumption   *)
(* says of the constants, each part by its name.                           *)
(***************************************************************************)

\* A request past its start has a token; one that holds a row read a real one.
RequestOK ==
    \A v \in Verifiers :
        /\ verifying[v] # "idle" => tok[v] \in ApiTokens
        /\ verifying[v] \in {"check", "cached"} =>
                     /\ status[tok[v]] # "absent"
                     /\ snap[v] # "absent"
        /\ verifying[v] = "cached" => snap[v] = "active"

\* Only tokens with a row are cached or being revoked.
KnownTokens ==
    /\ \A t \in ApiTokens : entry[t] # NoEntry => status[t] # "absent"
    /\ \A r \in Revokers :
          revoking[r] # NoToken => status[revoking[r]] = "revoked"

\* After a quiet Revoke nothing is left from which the cache could be refilled.
QuietTokens ==
    \A t \in ApiTokens : returned[t] = "quiet" =>
        /\ status[t] = "revoked"
        /\ entry[t] = NoEntry
        /\ \A v \in Verifiers :
              (verifying[v] \in {"check", "cached"} /\ tok[v] = t) => snap[v] = "revoked"

\* The bound of StaleHitBounded, over the entries themselves.
StaleEntries ==
    \A t \in ApiTokens :
        (status[t] = "revoked" /\ entry[t] \notin {NoEntry, Tok!Expired} /\ t \notin late)
            => entry[t] + revAge[t] <= CacheTTL

\* The inductive invariant of the cache and of the calls that use it.
TokenInv == Tok!TypeOK /\ RequestOK /\ KnownTokens /\ QuietTokens /\ StaleEntries

LEMMA TTLAssumption == CacheTTL \in Nat
BY TokenAssumption DEF Tok!VerifyAssumption

LEMMA SizeAssumption == MaxCacheSize \in Nat \ {0}
BY TokenAssumption DEF Tok!VerifyAssumption

LEMMA TokensAssumption == IsFiniteSet(ApiTokens) /\ NoToken \notin ApiTokens
BY TokenAssumption DEF Tok!VerifyAssumption, Tok!IsFiniteSet, IsFiniteSet

LEMMA LifeAssumption == Lifetimes \subseteq Nat /\ {Never, NoEntry} \cap Int = {}
BY TokenAssumption DEF Tok!VerifyAssumption

\* The instance counts as this module does.
LEMMA SameCardinality == ASSUME NEW S PROVE Tok!Cardinality(S) = Cardinality(S)
BY DEF Tok!Cardinality, Cardinality

LEMMA SentinelsApart ==
    /\ Never \notin Int /\ NoEntry \notin Int
    /\ Tok!Expired \in Int /\ Tok!Expired # Never /\ Tok!Expired # NoEntry
BY LifeAssumption DEF Tok!Expired

\* One tick keeps a lifetime a lifetime ...
LEMMA DownLife == ASSUME NEW x \in Tok!Lives PROVE Tok!Down(x) \in Tok!Lives
BY SentinelsApart DEF Tok!Down, Tok!Lives, Tok!Expired

\* ... and an entry an entry; a live entry loses one unit.
LEMMA DownEntry ==
    ASSUME NEW x \in (Tok!Expired .. CacheTTL) \cup {NoEntry}
    PROVE  /\ Tok!Down(x) \in (Tok!Expired .. CacheTTL) \cup {NoEntry}
           /\ Tok!Down(x) = NoEntry <=> x = NoEntry
           /\ x = Tok!Expired => Tok!Down(x) = Tok!Expired
           /\ x \notin {Tok!Expired, NoEntry} => Tok!Down(x) = x - 1
BY SentinelsApart, TTLAssumption DEF Tok!Down, Tok!Expired

\* Making room only ever drops keys.
LEMMA RoomForSubset == ASSUME NEW kept \in Tok!RoomFor PROVE kept \subseteq Tok!Items
BY DEF Tok!RoomFor, Tok!LiveItems

\* Set gives its key a full entry and keeps every other one or drops it.
LEMMA CacheSetEffect ==
    ASSUME Tok!TypeOK, NEW t \in ApiTokens, Tok!CacheSet(t)
    PROVE  /\ entry' \in [ApiTokens -> (Tok!Expired .. CacheTTL) \cup {NoEntry}]
           /\ entry'[t] = CacheTTL
           /\ \A k \in ApiTokens \ {t} : entry'[k] \in {entry[k], NoEntry}
           /\ late' \in SUBSET ApiTokens
           /\ late \subseteq late'
           /\ status[t] = "revoked" => t \in late'
<1>1. PICK kept \in Tok!RoomFor : entry' = [Tok!KeepOnly(kept) EXCEPT ![t] = CacheTTL]
  BY DEF Tok!CacheSet
<1>2. CacheTTL \in Tok!Expired .. CacheTTL
  BY TTLAssumption DEF Tok!Expired
<1> QED BY <1>1, <1>2 DEF Tok!CacheSet, Tok!KeepOnly, Tok!TypeOK

\* It holds with no token and no call.
LEMMA TokenInit == Tok!Init => TokenInv
BY TTLAssumption, SentinelsApart
   DEF Tok!Init, TokenInv, Tok!TypeOK, RequestOK, KnownTokens, QuietTokens, StaleEntries,
       Tok!Statuses, Tok!Stages, Tok!Outcomes, Tok!Ages, Tok!Lives

\* Every step preserves it.
LEMMA TokenStep == TokenInv /\ [Tok!Next]_Tok!vars => TokenInv'
<1> SUFFICES ASSUME TokenInv, [Tok!Next]_Tok!vars PROVE TokenInv'
  OBVIOUS
<1> USE TTLAssumption, SentinelsApart, TokensAssumption
        DEF TokenInv, Tok!TypeOK, Tok!Statuses, Tok!Stages, Tok!Outcomes, Tok!Ages,
            Tok!history, RequestOK, KnownTokens, QuietTokens, StaleEntries
<1>1. ASSUME NEW t \in ApiTokens, Tok!Create(t) PROVE TokenInv'
  BY <1>1, LifeAssumption DEF Tok!Create, Tok!Lives
<1>2. ASSUME NEW t \in ApiTokens, Tok!CLIRevoke(t) PROVE TokenInv'
  BY <1>2 DEF Tok!CLIRevoke, Tok!MarkRevoked
<1>3. ASSUME NEW v \in Verifiers, NEW t \in ApiTokens, Tok!VerifyLookup(v, t)
      PROVE TokenInv'
  BY <1>3 DEF Tok!VerifyLookup
<1>4. ASSUME NEW v \in Verifiers, Tok!VerifyQuery(v) PROVE TokenInv'
  BY <1>4 DEF Tok!VerifyQuery
<1>5. ASSUME NEW v \in Verifiers, Tok!VerifyQueryFails(v) PROVE TokenInv'
  BY <1>5 DEF Tok!VerifyQueryFails
<1>6. ASSUME NEW v \in Verifiers, Tok!VerifyRefuse(v) PROVE TokenInv'
  BY <1>6 DEF Tok!VerifyRefuse
<1>7. ASSUME NEW v \in Verifiers, Tok!VerifyStore(v) PROVE TokenInv'
  BY <1>7, CacheSetEffect DEF Tok!VerifyStore
<1>8. ASSUME NEW v \in Verifiers, Tok!VerifyTouch(v) PROVE TokenInv'
  BY <1>8, CacheSetEffect DEF Tok!VerifyTouch
<1>9. ASSUME NEW v \in Verifiers, Tok!VerifyAccept(v) PROVE TokenInv'
  BY <1>9 DEF Tok!VerifyAccept
<1>10. ASSUME NEW v \in Verifiers, Tok!VerifyReturn(v) PROVE TokenInv'
  BY <1>10 DEF Tok!VerifyReturn
<1>11. ASSUME NEW r \in Revokers, NEW t \in ApiTokens, Tok!RevokeRow(r, t) PROVE TokenInv'
  BY <1>11 DEF Tok!RevokeRow, Tok!MarkRevoked
<1>12. ASSUME NEW r \in Revokers, Tok!RevokeEvict(r) PROVE TokenInv'
  BY <1>12 DEF Tok!RevokeEvict, Tok!InvalidateByID, Tok!Holders
<1>13. CASE Tok!Tick
  <2>1. life' \in [ApiTokens -> Tok!Lives]
    BY <1>13, DownLife DEF Tok!Tick
  <2>2. \A t \in ApiTokens :
           /\ entry'[t] \in (Tok!Expired .. CacheTTL) \cup {NoEntry}
           /\ entry'[t] = NoEntry <=> entry[t] = NoEntry
           /\ entry[t] = Tok!Expired => entry'[t] = Tok!Expired
           /\ entry[t] \notin {Tok!Expired, NoEntry} => entry'[t] = entry[t] - 1
    BY <1>13, DownEntry DEF Tok!Tick
  <2>3. entry' \in [ApiTokens -> (Tok!Expired .. CacheTTL) \cup {NoEntry}]
    BY <1>13, <2>2 DEF Tok!Tick
  <2>4. /\ revAge' \in [ApiTokens -> Tok!Ages]
        /\ \A t \in ApiTokens : revAge'[t] \in {revAge[t], revAge[t] + 1}
    BY <1>13 DEF Tok!Tick
  <2>5. Tok!TypeOK'
    BY <1>13, <2>1, <2>3, <2>4 DEF Tok!Tick
  <2>6. RequestOK' /\ KnownTokens' /\ QuietTokens'
    BY <1>13, <2>2 DEF Tok!Tick
  <2>7. StaleEntries'
    <3> SUFFICES ASSUME NEW t \in ApiTokens, status[t] = "revoked", t \notin late,
                        entry'[t] \notin {NoEntry, Tok!Expired}
                 PROVE  entry'[t] + revAge'[t] <= CacheTTL
      BY <1>13 DEF Tok!Tick
    <3>1. entry[t] \notin {NoEntry, Tok!Expired} /\ entry'[t] = entry[t] - 1
      BY <2>2
    <3>2. entry[t] \in Int /\ revAge[t] \in Int
      BY <3>1 DEF Tok!Expired
    <3> QED BY <2>4, <3>1, <3>2
  <2> QED BY <2>5, <2>6, <2>7
<1>14. CASE Tok!Cleanup
  BY <1>14 DEF Tok!Cleanup, Tok!KeepOnly, Tok!LiveItems, Tok!Items
<1>15. CASE Tok!Restart
  BY <1>15 DEF Tok!Restart
<1>16. CASE UNCHANGED Tok!vars
  BY <1>16 DEF Tok!vars
<1> QED
  BY <1>1, <1>2, <1>3, <1>4, <1>5, <1>6, <1>7, <1>8, <1>9, <1>10, <1>11,
     <1>12, <1>13, <1>14, <1>15, <1>16 DEF Tok!Next, Tok!VerifyStep

\* The inductive invariant holds in every reachable state (Verify, Revoke and
\* the cache, interleaved in any order).
THEOREM TokenInvariance == Tok!Spec => []TokenInv
BY TokenInit, TokenStep, PTL DEF Tok!Spec

\* Type correctness of the token cache and of the calls that use it.
THEOREM TokenTypeCorrect == Tok!Spec => []Tok!TypeOK
BY TokenInvariance, PTL DEF TokenInv

\* Once a Revoke has returned with no older snapshot in flight, no interleaving
\* of Verify calls puts the token back into the cache.
THEOREM QuietRevokeFinal == Tok!Spec => []QuietRevokeIsFinal
<1>1. TokenInv => Tok!QuietRevokeIsFinal
  BY DEF TokenInv, QuietTokens, Tok!QuietRevokeIsFinal, Tok!Items
<1> QED BY <1>1, TokenInvariance, PTL DEF QuietRevokeIsFinal

\* A cached snapshot of a revoked token answers for at most one CacheTTL.
THEOREM StaleHitsBounded == Tok!Spec => []StaleHitBounded
<1>1. TokenInv => Tok!StaleHitBounded
  BY DEF TokenInv, StaleEntries, Tok!StaleHitBounded, Tok!Hit, Tok!LiveItems, Tok!Items
<1> QED BY <1>1, TokenInvariance, PTL DEF StaleHitBounded

\* A token is accepted only inside its lifetime, whether it came from the cache
\* or from the database.
THEOREM AcceptsLive == Tok!Spec => AcceptsOnlyLiveTokens
<1> DEFINE A == \A v \in Verifiers :
          (verifying[v] \in {"idle", "check"} /\ verifying'[v] \in {"accepted", "cached"})
                     => status[tok'[v]] # "absent" /\ Tok!Alive(tok'[v])
<1>1. TokenInv /\ [Tok!Next]_Tok!vars => [A]_Tok!vars
  <2> SUFFICES ASSUME TokenInv, Tok!Next PROVE A
    OBVIOUS
  <2> USE DEF TokenInv, Tok!TypeOK, RequestOK, KnownTokens, Tok!Alive
  <2>1. ASSUME NEW v \in Verifiers, NEW t \in ApiTokens, Tok!VerifyLookup(v, t) PROVE A
    BY <2>1 DEF Tok!VerifyLookup, Tok!Hit, Tok!LiveItems, Tok!Items
  <2>2. ASSUME NEW v \in Verifiers, Tok!VerifyStore(v) PROVE A
    BY <2>2 DEF Tok!VerifyStore
  <2>3. ASSUME NEW v \in Verifiers,
               Tok!VerifyQuery(v) \/ Tok!VerifyQueryFails(v) \/ Tok!VerifyRefuse(v)
                 \/ Tok!VerifyTouch(v) \/ Tok!VerifyAccept(v) \/ Tok!VerifyReturn(v)
        PROVE  A
    BY <2>3
       DEF Tok!VerifyQuery, Tok!VerifyQueryFails, Tok!VerifyRefuse, Tok!VerifyTouch,
           Tok!VerifyAccept, Tok!VerifyReturn
  <2>4. UNCHANGED verifying => A
    OBVIOUS
  <2>5. ASSUME NEW r \in Revokers, NEW t \in ApiTokens, Tok!RevokeRow(r, t)
        PROVE  UNCHANGED verifying
    BY <2>5 DEF Tok!RevokeRow
  <2>6. ASSUME NEW t \in ApiTokens, Tok!Create(t) \/ Tok!CLIRevoke(t) PROVE UNCHANGED verifying
    BY <2>6 DEF Tok!Create, Tok!CLIRevoke
  <2>7. ASSUME NEW r \in Revokers, Tok!RevokeEvict(r) PROVE UNCHANGED verifying
    BY <2>7 DEF Tok!RevokeEvict
  <2>8. Tok!Tick \/ Tok!Cleanup => UNCHANGED verifying
    BY DEF Tok!Tick, Tok!Cleanup
  <2>9. Tok!Restart => A
    BY DEF Tok!Restart
  <2> QED
    BY <2>1, <2>2, <2>3, <2>4, <2>5, <2>6, <2>7, <2>8, <2>9 DEF Tok!Next, Tok!VerifyStep
<1> QED BY <1>1, TokenInvariance, PTL
           DEF Tok!Spec, Tok!AcceptsOnlyLiveTokens, AcceptsOnlyLiveTokens

\* Making room leaves space for the key that Set inserts.
LEMMA RoomForBound ==
    ASSUME NEW kept \in Tok!RoomFor, Cardinality(Tok!Items) <= MaxCacheSize, NEW t \in ApiTokens
    PROVE  IsFiniteSet(kept) /\ Cardinality(kept \cup {t}) <= MaxCacheSize
<1> USE SizeAssumption
<1>1. IsFiniteSet(Tok!Items) /\ IsFiniteSet(Tok!LiveItems) /\ Tok!LiveItems \subseteq Tok!Items
  BY TokensAssumption, FS_Subset DEF Tok!Items, Tok!LiveItems
<1>2. /\ Cardinality(Tok!Items) \in Nat /\ Cardinality(Tok!LiveItems) \in Nat
      /\ Cardinality(Tok!LiveItems) <= Cardinality(Tok!Items)
  BY <1>1, FS_CardinalityType, FS_Subset
<1>3. IsFiniteSet(kept) /\ Cardinality(kept) < MaxCacheSize
  <2>1. CASE kept \in {Tok!Items, Tok!LiveItems} /\ Cardinality(kept) < MaxCacheSize
    BY <2>1, <1>1
  <2>2. ASSUME NEW k \in Tok!LiveItems, kept = Tok!LiveItems \ {k}
        PROVE  IsFiniteSet(kept) /\ Cardinality(kept) < MaxCacheSize
    <3>1. IsFiniteSet(kept) /\ Cardinality(kept) = Cardinality(Tok!LiveItems) - 1
      BY <2>2, <1>1, FS_RemoveElement
    <3> QED BY <3>1, <1>2
  <2>3. \/ kept \in {Tok!Items, Tok!LiveItems} /\ Cardinality(kept) < MaxCacheSize
        \/ \E k \in Tok!LiveItems : kept = Tok!LiveItems \ {k}
    <3>1. /\ Tok!Cardinality(Tok!Items) = Cardinality(Tok!Items)
          /\ Tok!Cardinality(Tok!LiveItems) = Cardinality(Tok!LiveItems)
      BY SameCardinality
    <3> QED BY <3>1 DEF Tok!RoomFor
  <2> QED BY <2>1, <2>2, <2>3
<1>4. /\ Cardinality(kept) \in Nat
      /\ Cardinality(kept \cup {t}) <= Cardinality(kept) + 1
  <2>1. Cardinality(kept) \in Nat
    BY <1>3, FS_CardinalityType
  <2>2. Cardinality(kept \cup {t}) \in {Cardinality(kept), Cardinality(kept) + 1}
    BY <1>3, FS_AddElement
  <2> QED BY <2>1, <2>2
<1>5. Cardinality(kept \cup {t}) \in Nat
  BY <1>3, FS_AddElement, FS_CardinalityType
<1> QED BY <1>3, <1>4, <1>5

\* The cache never outgrows maxTokenCacheSize.
THEOREM CacheStaysBounded == Tok!Spec => []Tok!CacheBounded
<1> USE SameCardinality
<1>1. Tok!Init => Tok!CacheBounded
  <2>1. Tok!Init => Tok!Items = {}
    BY DEF Tok!Init, Tok!Items
  <2> QED BY <2>1, FS_EmptySet, SizeAssumption DEF Tok!CacheBounded
<1>2. TokenInv /\ Tok!CacheBounded /\ [Tok!Next]_Tok!vars => Tok!CacheBounded'
  <2> SUFFICES ASSUME TokenInv, Tok!CacheBounded, [Tok!Next]_Tok!vars PROVE Tok!CacheBounded'
    OBVIOUS
  <2>0. /\ IsFiniteSet(Tok!Items)
        /\ \A S : S \subseteq Tok!Items => Cardinality(S) <= MaxCacheSize
    <3>1. IsFiniteSet(Tok!Items)
      BY TokensAssumption, FS_Subset DEF Tok!Items
    <3>2. ASSUME NEW S, S \subseteq Tok!Items PROVE Cardinality(S) <= MaxCacheSize
      <4>1. /\ Cardinality(S) \in Nat /\ Cardinality(Tok!Items) \in Nat
            /\ Cardinality(S) <= Cardinality(Tok!Items)
        BY <3>1, <3>2, FS_Subset, FS_CardinalityType
      <4> QED BY <4>1, SizeAssumption DEF Tok!CacheBounded
    <3> QED BY <3>1, <3>2
  <2>1. CASE Tok!Items' \subseteq Tok!Items
    BY <2>1, <2>0 DEF Tok!CacheBounded
  <2>2. ASSUME NEW t \in ApiTokens, Tok!CacheSet(t) PROVE Tok!CacheBounded'
    <3>1. PICK kept \in Tok!RoomFor : entry' = [Tok!KeepOnly(kept) EXCEPT ![t] = CacheTTL]
      BY <2>2 DEF Tok!CacheSet
    <3>2. Tok!Items' = kept \cup {t}
      BY <3>1, RoomForSubset, SentinelsApart, TTLAssumption DEF Tok!Items, Tok!KeepOnly
    <3> QED BY <3>2, RoomForBound DEF Tok!CacheBounded
  <2>3. ASSUME NEW v \in Verifiers, Tok!VerifyStore(v) \/ Tok!VerifyTouch(v)
        PROVE  Tok!CacheBounded'
    BY <2>3, <2>2 DEF Tok!VerifyStore, Tok!VerifyTouch, TokenInv, RequestOK
  <2>4. CASE UNCHANGED entry
    BY <2>4, <2>1 DEF Tok!Items
  <2>5. ASSUME NEW t \in ApiTokens, Tok!Create(t) \/ Tok!CLIRevoke(t) PROVE UNCHANGED entry
    BY <2>5 DEF Tok!Create, Tok!CLIRevoke
  <2>6. ASSUME NEW v \in Verifiers, NEW t \in ApiTokens, Tok!VerifyLookup(v, t)
        PROVE  UNCHANGED entry
    BY <2>6 DEF Tok!VerifyLookup
  <2>7. ASSUME NEW v \in Verifiers,
               Tok!VerifyQuery(v) \/ Tok!VerifyQueryFails(v) \/ Tok!VerifyRefuse(v)
                 \/ Tok!VerifyAccept(v) \/ Tok!VerifyReturn(v)
        PROVE  UNCHANGED entry
    BY <2>7
       DEF Tok!VerifyQuery, Tok!VerifyQueryFails, Tok!VerifyRefuse, Tok!VerifyAccept,
           Tok!VerifyReturn
  <2>8. ASSUME NEW r \in Revokers, NEW t \in ApiTokens, Tok!RevokeRow(r, t)
        PROVE  UNCHANGED entry
    BY <2>8 DEF Tok!RevokeRow
  <2>9. ASSUME NEW r \in Revokers, Tok!RevokeEvict(r) PROVE Tok!Items' \subseteq Tok!Items
    BY <2>9 DEF Tok!RevokeEvict, Tok!InvalidateByID, Tok!Items, TokenInv, Tok!TypeOK
  <2>10. CASE Tok!Tick
    BY <2>10, <2>1, DownEntry DEF Tok!Tick, Tok!Items, TokenInv, Tok!TypeOK
  <2>11. Tok!Cleanup \/ Tok!Restart => Tok!Items' \subseteq Tok!Items
    BY DEF Tok!Cleanup, Tok!Restart, Tok!KeepOnly, Tok!LiveItems, Tok!Items
  <2>12. UNCHANGED Tok!vars => UNCHANGED entry
    BY DEF Tok!vars
  <2> QED
    BY <2>1, <2>3, <2>4, <2>5, <2>6, <2>7, <2>8, <2>9, <2>10, <2>11, <2>12
       DEF Tok!Next, Tok!VerifyStep
<1> QED BY <1>1, <1>2, TokenInvariance, PTL DEF Tok!Spec
=============================================================================
