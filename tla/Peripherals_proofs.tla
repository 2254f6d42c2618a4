------------------------- MODULE Peripherals_proofs -------------------------
(***************************************************************************)
(* Proofs about the parts at the edge of the server: LastFM, for any       *)
(* cache keys, lifetimes, calls and settings of the breaker; then the      *)
(* parts that Peripherals instantiates, from what it assumes of their      *)
(* constants; last, the report of the statistics.                          *)
(***************************************************************************)
EXTENDS Peripherals, FiniteSetTheorems, WellFoundedInduction, TLAPS

\* An answer ages with the request that fetched it, which ends within the
\* timeout, and a cached one loses lifetime as it ages.
AgesAddUp ==
    /\ \A k \in Keys : Fresh(k) => cache[k].age + cache[k].left <= FreshFor(k) + HttpTimeout
    /\ \A c \in Calls :
          /\ call[c].pc \in {"ready", "execute", "sent"} => call[c].age = 0
          /\ call[c].pc = "reply" => call[c].age + call[c].left <= HttpTimeout
          /\ call[c].pc = "store" => call[c].age <= HttpTimeout

\* The inductive invariant of the proxy.
LastFMInv == TypeOK /\ AgesAddUp

\* The types of a lookup and of the breaker.
LookupType == [pc : {"ready", "execute", "sent", "reply", "store", "failed", "data", "error"},
             key : Keys, left : 0..HttpTimeout, age : 0..MaxAge,
             lost : BOOLEAN, old : BOOLEAN]

BreakerType == [state : {"closed", "open", "half"}, left : 0..(Interval + OpenFor),
                requests : 0..MaxRequests, successes : 0..MaxRequests,
                failures : 0..TripAt]

\* What the durations and bounds are.
LEMMA LastFMSizes ==
    /\ TracksFresh \in Nat \ {0} /\ UserFresh \in Nat \ {0} /\ HttpTimeout \in Nat \ {0}
    /\ TripAt \in Nat \ {0} /\ MaxRequests \in Nat \ {0} /\ Interval \in Nat \ {0}
    /\ OpenFor \in Nat \ {0} /\ MaxAge \in Nat \ {0} /\ HttpTimeout < MaxAge
    /\ \A k \in Keys : FreshFor(k) \in Nat \ {0} /\ FreshFor(k) + HttpTimeout < MaxAge
BY LastFMAssumption DEF MaxAge, FreshFor

\* The breaker stays in its bounds.
LEMMA BreakerTypes ==
    /\ Closed \in BreakerType /\ Open \in BreakerType /\ HalfOpen \in BreakerType
    /\ TypeOK => Current \in BreakerType
    /\ \A b \in BreakerType :
          /\ ~Refuses(b) => Admitted(b) \in BreakerType
          /\ \A success \in BOOLEAN : After(b, success) \in BreakerType
<1>0. /\ 0 \in 0..TripAt /\ 0 \in 0..MaxRequests
      /\ {0, Interval, OpenFor} \subseteq 0..(Interval + OpenFor)
  BY LastFMSizes
<1>1. Closed \in BreakerType /\ Open \in BreakerType /\ HalfOpen \in BreakerType
  <2>1. Closed \in BreakerType
    BY <1>0 DEF Closed, BreakerType
  <2>2. Open \in BreakerType
    BY <1>0, <2>1 DEF Open, BreakerType
  <2>3. HalfOpen \in BreakerType
    BY <1>0, <2>1 DEF HalfOpen, BreakerType
  <2> QED BY <2>1, <2>2, <2>3
<1>2. TypeOK => Current \in BreakerType
  BY <1>1 DEF Current, TypeOK, BreakerType
<1>3. ASSUME NEW b \in BreakerType, ~Refuses(b) PROVE Admitted(b) \in BreakerType
  <2>1. CASE b.state = "half"
    <3>1. b.requests + 1 \in 0..MaxRequests
      BY LastFMSizes, <1>3, <2>1 DEF Refuses, BreakerType
    <3> QED BY <2>1, <3>1 DEF Admitted, BreakerType
  <2>2. CASE b.state # "half"
    BY <2>2 DEF Admitted
  <2> QED BY <2>1, <2>2
<1>4. ASSUME NEW b \in BreakerType PROVE After(b, TRUE) \in BreakerType
  <2>1. CASE b.state = "half" /\ b.successes + 1 >= MaxRequests
    BY <1>1, <2>1 DEF After
  <2>2. CASE b.state = "half" /\ ~(b.successes + 1 >= MaxRequests)
    <3>1. b.successes + 1 \in 0..MaxRequests
      BY LastFMSizes, <2>2 DEF BreakerType
    <3>2. After(b, TRUE) = [b EXCEPT !.successes = b.successes + 1, !.failures = 0]
      BY <2>2 DEF After
    <3> QED BY <1>0, <3>1, <3>2 DEF BreakerType
  <2>3. CASE b.state # "half"
    <3>1. After(b, TRUE) = [b EXCEPT !.successes = b.successes, !.failures = 0]
      BY <2>3 DEF After
    <3> QED BY <1>0, <3>1 DEF BreakerType
  <2> QED BY <2>1, <2>2, <2>3
<1>5. ASSUME NEW b \in BreakerType PROVE After(b, FALSE) \in BreakerType
  <2>1. CASE b.state = "half" \/ ReadyToTrip(b.failures + 1)
    BY <1>1, <2>1 DEF After
  <2>2. CASE ~(b.state = "half" \/ ReadyToTrip(b.failures + 1))
    <3>1. b.failures + 1 \in 0..TripAt
      BY LastFMSizes, <2>2 DEF ReadyToTrip, BreakerType
    <3> QED BY <2>2, <3>1 DEF After, BreakerType
  <2> QED BY <2>1, <2>2
<1> QED BY <1>1, <1>2, <1>3, <1>4, <1>5

\* What a call has to be: of its type, and not older than it may be.
LookupOK(x) ==
    /\ x \in LookupType
    /\ x.pc \in {"ready", "execute", "sent"} => x.age = 0
    /\ x.pc = "reply" => x.age + x.left <= HttpTimeout
    /\ x.pc = "store" => x.age <= HttpTimeout

\* The invariant, one lookup at a time.
LEMMA LookupsOK ==
    LastFMInv <=> /\ fault \in {"none", "clients leave", "down"} /\ breaker \in BreakerType
                  /\ cache \in [Keys -> [there : BOOLEAN, left : 0..MaxAge, age : 0..MaxAge]]
                  /\ call \in [Calls -> LookupType] /\ \A c \in Calls : LookupOK(call[c])
                  /\ \A k \in Keys : Fresh(k) =>
                        cache[k].age + cache[k].left <= FreshFor(k) + HttpTimeout
BY DEF LastFMInv, TypeOK, AgesAddUp, LookupOK, LookupType, BreakerType

\* A step that moves one call, and perhaps makes the requests of the others old.
LEMMA LookupMoves ==
    ASSUME LastFMInv, NEW c \in Calls, NEW x, LookupOK(x),
           call' = [call EXCEPT ![c] = x] \/ call' = Aged([call EXCEPT ![c] = x])
             \/ call' = [Aged([call EXCEPT ![c] = x]) EXCEPT ![c] = x]
    PROVE  call' \in [Calls -> LookupType] /\ \A d \in Calls : LookupOK(call'[d])
<1> DEFINE calls == [call EXCEPT ![c] = x]
<1>1. calls \in [Calls -> LookupType] /\ \A d \in Calls : LookupOK(calls[d])
  BY LookupsOK DEF LookupOK
<1>2. ASSUME NEW y \in LookupType, LookupOK(y), NEW o \in BOOLEAN
      PROVE  LookupOK([y EXCEPT !.old = o])
  BY <1>2 DEF LookupOK, LookupType
<1>3. ASSUME NEW d \in Calls
      PROVE  LookupOK([calls[d] EXCEPT !.old = @ \/ calls[d].pc \in InFlight])
  <2>1. calls[d] \in LookupType /\ LookupOK(calls[d])
    BY <1>1
  <2>2. (calls[d].old \/ calls[d].pc \in InFlight) \in BOOLEAN
    OBVIOUS
  <2> QED BY <1>2, <2>1, <2>2
<1>4. Aged(calls) \in [Calls -> LookupType] /\ \A d \in Calls : LookupOK(Aged(calls)[d])
  <2>1. \A d \in Calls : [calls[d] EXCEPT !.old = @ \/ calls[d].pc \in InFlight] \in LookupType
    BY <1>3 DEF LookupOK
  <2> QED BY <1>3, <2>1 DEF Aged
<1>5. [Aged(calls) EXCEPT ![c] = x] \in [Calls -> LookupType]
      /\ \A d \in Calls : LookupOK([Aged(calls) EXCEPT ![c] = x][d])
  BY <1>4 DEF LookupOK
<1> QED BY <1>1, <1>4, <1>5

\* It holds with an empty cache.
LEMMA LastFMInit == ASSUME Init, Keys # {} PROVE LastFMInv
<1>1. (CHOOSE k \in Keys : TRUE) \in Keys
  OBVIOUS
<1>2. \A k \in Keys : Ready(k) \in LookupType /\ LookupOK(Ready(k))
  BY LastFMSizes DEF Ready, LookupType, LookupOK
<1>3. NoItem \in [there : BOOLEAN, left : 0..MaxAge, age : 0..MaxAge] /\ ~NoItem.there
  BY LastFMSizes DEF NoItem
<1> QED BY <1>1, <1>2, <1>3, LookupsOK, BreakerTypes DEF Init, Fresh

\* The result of a request keeps the invariant if what the call becomes does.
LEMMA ReportKeeps ==
    ASSUME LastFMInv, NEW c \in Calls, NEW success \in BOOLEAN, NEW moved, LookupOK(moved),
           Report(c, success, moved)
    PROVE  LastFMInv'
<1>1. Current \in BreakerType /\ After(Current, success) \in BreakerType
  BY BreakerTypes DEF LastFMInv
<1>2. breaker' \in BreakerType
  BY <1>1 DEF Report
<1>3. call' \in [Calls -> LookupType] /\ \A d \in Calls : LookupOK(call'[d])
  <2>1. call' = [call EXCEPT ![c] = moved] \/ call' = Aged([call EXCEPT ![c] = moved])
    BY DEF Report
  <2> QED BY <2>1, LookupMoves
<1>4. UNCHANGED <<fault, cache>>
  BY DEF Report
<1> QED BY <1>2, <1>3, <1>4, LookupsOK
           DEF LookupOK, Fresh, LastFMInv, TypeOK, AgesAddUp, LookupType, BreakerType

\* The same for a step of a call that leaves the cache and the breaker alone.
LEMMA MoveKeeps ==
    ASSUME LastFMInv, NEW c \in Calls, NEW moved, LookupOK(moved),
           call' = [call EXCEPT ![c] = moved], UNCHANGED <<fault, cache, breaker>>
    PROVE  LastFMInv'
<1>1. call' \in [Calls -> LookupType] /\ \A d \in Calls : LookupOK(call'[d])
  BY LookupMoves
<1> QED BY <1>1, LookupsOK
           DEF LookupOK, Fresh, LastFMInv, TypeOK, AgesAddUp, LookupType, BreakerType

\* A tick ages what is cached, and takes from its lifetime as much.
LEMMA LastFMTick ==
    ASSUME LastFMInv, Tick
    PROVE  LastFMInv'
<1>1. \A n \in 0..MaxAge : Minus1(n) \in 0..MaxAge /\ Older(n) \in 0..MaxAge
  BY LastFMSizes DEF Minus1, Older
<1>2. ASSUME NEW k \in Keys
      PROVE  /\ cache'[k] \in [there : BOOLEAN, left : 0..MaxAge, age : 0..MaxAge]
             /\ Fresh(k)' => cache'[k].age + cache'[k].left <= FreshFor(k) + HttpTimeout
  <2>1. cache[k] \in [there : BOOLEAN, left : 0..MaxAge, age : 0..MaxAge]
        /\ (Fresh(k) => cache[k].age + cache[k].left <= FreshFor(k) + HttpTimeout)
    BY LookupsOK
  <2>2. cache'[k] = [cache[k] EXCEPT !.left = Minus1(@),
                                     !.age = IF cache[k].left > 1 THEN Older(@) ELSE 0]
    BY DEF Tick
  <2>3. 0 \in 0..MaxAge
    BY LastFMSizes
  <2>4. cache'[k] \in [there : BOOLEAN, left : 0..MaxAge, age : 0..MaxAge]
    BY <1>1, <2>1, <2>2, <2>3
  <2>5. ASSUME cache[k].there, cache[k].left > 1
        PROVE  cache'[k].age + cache'[k].left <= FreshFor(k) + HttpTimeout
    <3>1. /\ cache'[k].left = Minus1(cache[k].left) /\ cache'[k].age = Older(cache[k].age)
          /\ cache[k].age + cache[k].left <= FreshFor(k) + HttpTimeout
          /\ cache[k].left \in 0..MaxAge /\ cache[k].age \in 0..MaxAge
      BY <2>1, <2>2, <2>5, LastFMSizes DEF Fresh
    <3> QED BY <2>5, <3>1, LastFMSizes DEF Minus1, Older
  <2>6. Fresh(k)' => cache[k].there /\ cache[k].left > 1
    BY <2>1, <2>2, LastFMSizes DEF Fresh, Minus1
  <2> QED BY <2>4, <2>5, <2>6
<1>3. ASSUME NEW c \in Calls PROVE call'[c] \in LookupType /\ LookupOK(call'[c])
  <2>1. LookupOK(call[c]) /\ ~Due(c) /\ call[c].pc # "store"
    BY LookupsOK DEF Tick
  <2>2. call'[c] = [call[c] EXCEPT !.left = Minus1(@),
                                   !.age = IF call[c].pc = "reply" THEN Older(@) ELSE @]
    BY DEF Tick
  <2>3. call[c].left \in 0..HttpTimeout /\ call[c].age \in 0..MaxAge
    BY <2>1 DEF LookupOK, LookupType
  <2>4. Minus1(call[c].left) \in 0..HttpTimeout /\ Older(call[c].age) \in 0..MaxAge
    BY <1>1, <2>3, LastFMSizes DEF Minus1
  <2>5. call'[c] \in LookupType
    BY <2>1, <2>2, <2>4 DEF LookupOK, LookupType
  <2>6. CASE call[c].pc = "reply"
    <3>1. call[c].left > 0
      BY <2>1, <2>3, <2>6, LastFMSizes DEF Due, InFlight
    <3>2. Older(call[c].age) + Minus1(call[c].left) <= HttpTimeout
      BY <2>1, <2>3, <2>6, <3>1, LastFMSizes DEF LookupOK, Minus1, Older
    <3>3. /\ call'[c].pc = "reply" /\ call'[c].age = Older(call[c].age)
          /\ call'[c].left = Minus1(call[c].left)
      BY <2>1, <2>2, <2>6 DEF LookupOK, LookupType
    <3> QED BY <2>5, <3>2, <3>3 DEF LookupOK
  <2>7. CASE call[c].pc # "reply"
    <3>1. call'[c].pc = call[c].pc /\ call'[c].age = call[c].age
      BY <2>1, <2>2, <2>7 DEF LookupOK, LookupType
    <3> QED BY <2>1, <2>5, <2>7, <3>1 DEF LookupOK
  <2> QED BY <2>6, <2>7
<1>4. breaker' \in BreakerType
  <2>1. breaker \in BreakerType
    BY LookupsOK
  <2>2. Minus1(breaker.left) \in 0..(Interval + OpenFor)
    BY <2>1, LastFMSizes DEF Minus1, BreakerType
  <2> QED BY <2>1, <2>2 DEF Tick, BreakerType
<1>5. call' \in [Calls -> LookupType]
      /\ cache' \in [Keys -> [there : BOOLEAN, left : 0..MaxAge, age : 0..MaxAge]]
      /\ fault' \in {"none", "clients leave", "down"}
  BY <1>2, <1>3, LookupsOK DEF Tick
<1> QED BY <1>2, <1>3, <1>4, <1>5
           DEF LookupOK, LastFMInv, TypeOK, AgesAddUp, LookupType, BreakerType

\* Every step preserves it.
LEMMA LastFMStep ==
    ASSUME LastFMInv, [Next]_vars
    PROVE  LastFMInv'
<1>0. \A c \in Calls : LookupOK(call[c]) /\ call[c] \in LookupType
  BY LookupsOK
<1>00. 0 \in 0..HttpTimeout /\ 0 \in 0..MaxAge /\ HttpTimeout \in 0..HttpTimeout
  BY LastFMSizes
<1>1. ASSUME NEW c \in Calls, NEW k \in Keys, Lookup(c, k) PROVE LastFMInv'
  <2> DEFINE x == [Ready(k) EXCEPT !.pc = IF Fresh(k) THEN "data" ELSE "execute"]
  <2>1. LookupOK(x)
    BY <1>00 DEF LookupOK, LookupType, Ready
  <2>2. call' = [call EXCEPT ![c] = x] /\ UNCHANGED <<fault, cache, breaker>>
    BY <1>1 DEF Lookup
  <2> QED BY <2>1, <2>2, MoveKeeps
<1>2. ASSUME NEW c \in Calls, Execute(c) PROVE LastFMInv'
  <2> DEFINE x == IF Refuses(Current) THEN [call[c] EXCEPT !.pc = "failed"]
                  ELSE [call[c] EXCEPT !.pc = "sent", !.left = HttpTimeout]
  <2>1. LookupOK(x)
    BY <1>0, <1>00, <1>2 DEF LookupOK, LookupType, Execute
  <2>2. \/ call' = [call EXCEPT ![c] = x]
        \/ call' = [Aged([call EXCEPT ![c] = x]) EXCEPT ![c] = x]
    BY <1>2 DEF Execute, LastFMInv, TypeOK
  <2>3. call' \in [Calls -> LookupType] /\ \A d \in Calls : LookupOK(call'[d])
    BY <2>1, <2>2, LookupMoves
  <2>4. breaker' \in BreakerType
    BY <1>2, BreakerTypes DEF Execute, LastFMInv
  <2> QED BY <1>2, <2>3, <2>4, LookupsOK
             DEF Execute, LookupOK, Fresh, LastFMInv, TypeOK, AgesAddUp, LookupType,
                 BreakerType
<1>3. ASSUME NEW c \in Calls, Answer(c) \/ Lose(c) PROVE LastFMInv'
  <2>1. CASE Answer(c)
    <3>1. LookupOK([call[c] EXCEPT !.pc = "reply"])
      BY <1>0, <2>1, LastFMSizes DEF LookupOK, LookupType, Answer
    <3>2. call' = [call EXCEPT ![c] = [call[c] EXCEPT !.pc = "reply"]]
      BY <2>1 DEF Answer, LastFMInv, TypeOK
    <3> QED BY <2>1, <3>1, <3>2, MoveKeeps DEF Answer
  <2>2. CASE Lose(c)
    <3>1. LookupOK([call[c] EXCEPT !.lost = TRUE])
      BY <1>0, <2>2 DEF LookupOK, LookupType
    <3>2. call' = [call EXCEPT ![c] = [call[c] EXCEPT !.lost = TRUE]]
      BY <2>2 DEF Lose, LastFMInv, TypeOK
    <3> QED BY <2>2, <3>1, <3>2, MoveKeeps DEF Lose
  <2> QED BY <1>3, <2>1, <2>2
<1>4. ASSUME NEW c \in Calls, RequestFails(c) PROVE LastFMInv'
  <2>1. LookupOK(Failed(c))
    BY <1>0, <1>00 DEF LookupOK, LookupType, Failed
  <2> QED BY <1>4, <2>1, ReportKeeps DEF RequestFails, ReportFailure
<1>5. ASSUME NEW c \in Calls, RequestSucceeds(c) PROVE LastFMInv'
  <2>1. LookupOK([call[c] EXCEPT !.pc = "store", !.left = 0, !.old = FALSE])
    <3>1. /\ call[c].pc = "reply" /\ call[c].age + call[c].left <= HttpTimeout
          /\ call[c].age \in 0..MaxAge /\ call[c].left \in 0..HttpTimeout
      BY <1>0, <1>5 DEF LookupOK, LookupType, RequestSucceeds
    <3>2. call[c].age <= HttpTimeout
      BY <3>1, LastFMSizes
    <3> QED BY <1>0, <1>00, <3>2 DEF LookupOK, LookupType
  <2> QED BY <1>5, <2>1, ReportKeeps DEF RequestSucceeds
<1>6. ASSUME NEW c \in Calls, Store(c) PROVE LastFMInv'
  <2> DEFINE k == call[c].key
  <2>1. /\ k \in Keys /\ call[c].age <= HttpTimeout /\ call[c].age \in 0..MaxAge
        /\ LookupOK(Ended(c, "data"))
    BY <1>0, <1>00, <1>6 DEF LookupOK, LookupType, Store, Ended, Ready
  <2>2. FreshFor(k) \in 0..MaxAge /\ call[c].age + FreshFor(k) <= FreshFor(k) + HttpTimeout
    BY <2>1, LastFMSizes
  <2>3. call' \in [Calls -> LookupType] /\ \A d \in Calls : LookupOK(call'[d])
    BY <1>6, <2>1, LookupMoves DEF Store
  <2>4. cache' = [cache EXCEPT ![k] = [there |-> TRUE, left |-> FreshFor(k),
                                       age |-> call[c].age]]
        /\ UNCHANGED <<fault, breaker>>
    BY <1>6 DEF Store
  <2>5. /\ cache' \in [Keys -> [there : BOOLEAN, left : 0..MaxAge, age : 0..MaxAge]]
        /\ \A j \in Keys : Fresh(j)'
                             => cache'[j].age + cache'[j].left <= FreshFor(j) + HttpTimeout
    BY <2>1, <2>2, <2>4, LookupsOK DEF Fresh
  <2> QED BY <2>3, <2>4, <2>5, LookupsOK
             DEF LookupOK, LastFMInv, TypeOK, AgesAddUp, LookupType, BreakerType
<1>7. ASSUME NEW c \in Calls, Fallback(c) PROVE LastFMInv'
  <2> DEFINE x == Ended(c, IF cache[call[c].key].there THEN "data" ELSE "error")
  <2>1. LookupOK(x)
    BY <1>0, <1>00 DEF LookupOK, LookupType, Ended, Ready
  <2> QED BY <1>7, <2>1, MoveKeeps DEF Fallback
<1>8. CASE Change
  BY <1>8 DEF Change, LastFMInv, TypeOK, AgesAddUp, Fresh
<1>9. CASE UNCHANGED vars
  BY <1>9 DEF vars, LastFMInv, TypeOK, AgesAddUp, Fresh
<1> QED BY <1>1, <1>2, <1>3, <1>4, <1>5, <1>6, <1>7, <1>8, <1>9, LastFMTick
           DEF Next, Serve, GetRecentTracks, GetUserInfo, Keys

\* The invariant holds for any cache keys, lifetimes, calls and breaker settings.
THEOREM LastFMInvariant == ASSUME Keys # {} PROVE Spec => []LastFMInv
BY LastFMInit, LastFMStep, PTL DEF Spec

\* Data that is served as fresh is not older than its lifetime and what the
\* request that fetched it may last, however slow the requests, whatever the
\* breaker does and whichever callers leave (cached_client.go).
THEOREM FreshRecent == Spec => []FreshIsRecent
<1>1. LastFMInv => FreshIsRecent
  <2>1. SUFFICES ASSUME LastFMInv, NEW k \in Keys, Fresh(k)
                 PROVE  cache[k].age <= FreshFor(k) + HttpTimeout
    BY DEF FreshIsRecent
  <2>2. /\ cache[k].age + cache[k].left <= FreshFor(k) + HttpTimeout
        /\ cache[k].age \in 0..MaxAge /\ cache[k].left \in 0..MaxAge
    BY <2>1 DEF LastFMInv, TypeOK, AgesAddUp
  <2> QED BY <2>2, LastFMSizes
<1>2. CASE Keys = {}
  <2>1. FreshIsRecent
    BY <1>2 DEF FreshIsRecent
  <2> QED BY <2>1, PTL
<1>3. CASE Keys # {}
  <2>1. Spec => []LastFMInv
    BY <1>3, LastFMInvariant
  <2> QED BY <1>1, <2>1, PTL
<1> QED BY <1>2, <1>3

-----------------------------------------------------------------------------
\* Requests in flight that the breaker counts: those of its own generation.
Probe(x) == x.pc \in InFlight /\ ~x.old
Probes == {c \in Calls : Probe(call[c])}

\* What a half-open breaker has admitted has succeeded or is in flight, so its
\* count of requests is never of requests that are gone.
Counted(b, probes) ==
    /\ IsFiniteSet(probes)
    /\ b.requests = b.successes + Cardinality(probes)
    /\ b.successes < MaxRequests

ProbesAreCounted ==
    /\ breaker.state = "half" => Counted(breaker, Probes)
    /\ \A c \in Calls : call[c].pc = "execute" => ~call[c].old

\* The breaker as it half-opens, and as it admits its first probe.
LEMMA HalfOpenCounts ==
    /\ Counted(HalfOpen, {})
    /\ \A c \in Calls : Counted(Admitted(HalfOpen), {c})
<1>1. Counted(HalfOpen, {})
  BY FS_EmptySet, LastFMSizes DEF Counted, HalfOpen, Closed
<1>2. ASSUME NEW c \in Calls PROVE Counted(Admitted(HalfOpen), {c})
  <2>1. IsFiniteSet({c}) /\ Cardinality({c}) = 1
    BY FS_Singleton
  <2>2. Admitted(HalfOpen).requests = 1 /\ Admitted(HalfOpen).successes = 0
    BY DEF Admitted, HalfOpen, Closed
  <2> QED BY <2>1, <2>2, LastFMSizes DEF Counted
<1> QED BY <1>1, <1>2

\* A new generation is closed or half-open, and counts nothing yet.
LEMMA GenerationBegins ==
    ASSUME TypeOK, NewGeneration
    PROVE  Current.state = "half" => Current = HalfOpen
BY DEF NewGeneration, Current, Closed

\* A step of calls that leaves the probes as they are, and what a half-open
\* breaker counts.
LEMMA QuietSteps ==
    ASSUME ProbesAreCounted, call' \in [Calls -> LookupType],
           breaker'.state = breaker.state, breaker'.requests = breaker.requests,
           breaker'.successes = breaker.successes,
           \A d \in Calls : /\ Probe(call'[d]) <=> Probe(call[d])
                            /\ call'[d].pc = "execute" => ~call'[d].old
    PROVE  ProbesAreCounted'
<1>1. Probes' = Probes
  BY DEF Probes
<1> QED BY <1>1 DEF ProbesAreCounted, Counted

\* When requests become old, none of them is a probe.
LEMMA AgedAreOld ==
    ASSUME NEW calls \in [Calls -> LookupType], NEW d \in Calls
    PROVE  /\ ~Probe(Aged(calls)[d])
           /\ Aged(calls)[d].pc = calls[d].pc
           /\ calls[d].pc = "execute" => Aged(calls)[d].old = calls[d].old
<1>1. Aged(calls)[d] = [calls[d] EXCEPT !.old = calls[d].old \/ calls[d].pc \in InFlight]
  BY DEF Aged
<1>2. calls[d] \in LookupType
  OBVIOUS
<1> QED BY <1>1, <1>2 DEF Probe, InFlight, LookupType

\* The end of a request takes it out of the probes; a success counts instead.
LEMMA ReportCounts ==
    ASSUME LastFMInv, ProbesAreCounted, NEW c \in Calls, NEW success \in BOOLEAN,
           NEW moved \in LookupType, moved.pc \in {"failed", "store"},
           call[c].pc \in InFlight, Report(c, success, moved)
    PROVE  ProbesAreCounted'
<1> DEFINE calls == [call EXCEPT ![c] = moved]
           new == After(breaker, success)
<1>0. call \in [Calls -> LookupType] /\ breaker \in BreakerType
  BY LookupsOK
<1>1. /\ calls \in [Calls -> LookupType] /\ calls[c] = moved
      /\ \A d \in Calls \ {c} : calls[d] = call[d]
      /\ ~Probe(moved)
  BY <1>0 DEF Probe, InFlight
<1>2. \A d \in Calls : calls[d].pc = "execute" => ~calls[d].old
  BY <1>1 DEF ProbesAreCounted
<1>3. ASSUME NEW d \in Calls, Aged(calls)[d].pc = "execute" PROVE ~Aged(calls)[d].old
  <2>1. /\ Aged(calls)[d].pc = calls[d].pc
        /\ calls[d].pc = "execute" => Aged(calls)[d].old = calls[d].old
    BY <1>1, AgedAreOld
  <2> QED BY <1>2, <1>3, <2>1
<1>4. \A d \in Calls : call'[d].pc = "execute" => ~call'[d].old
  <2>1. call' = calls \/ call' = Aged(calls)
    BY DEF Report
  <2> QED BY <1>2, <1>3, <2>1
<1> HIDE DEF calls
<1>5. CASE NewGeneration
  <2>1. breaker' = Current /\ call' = Aged(calls)
    BY <1>5 DEF Report, calls
  <2>2. Probes' = {}
    BY <1>1, <2>1, AgedAreOld DEF Probes
  <2>3. breaker'.state = "half" => Counted(breaker', Probes')
    BY <1>5, <2>1, <2>2, GenerationBegins, HalfOpenCounts DEF LastFMInv
  <2> QED BY <1>4, <2>3 DEF ProbesAreCounted
<1>6. CASE ~NewGeneration /\ call[c].old
  <2>1. breaker' = breaker /\ call' = calls
    BY <1>6 DEF Report, calls, NewGeneration
  <2>2. \A d \in Calls : Probe(call'[d]) <=> Probe(call[d])
    BY <1>1, <1>6, <2>1 DEF Probe
  <2> QED BY <1>1, <1>4, <2>1, <2>2, QuietSteps
<1>7. CASE ~NewGeneration /\ ~call[c].old
  <2>1. breaker' = new /\ (new.state = breaker.state => call' = calls)
    BY <1>7 DEF Report, calls, NewGeneration
  <2>2. ASSUME new.state = "half" PROVE Counted(new, Probes')
    <3>1. /\ breaker.state = "half" /\ new.requests = breaker.requests
          /\ new.successes = breaker.successes + 1
          /\ breaker.successes + 1 < MaxRequests
      BY <1>0, <2>2, LastFMSizes DEF After, Closed, Open, BreakerType
    <3>2. call' = calls
      BY <2>1, <2>2, <3>1
    <3>3. c \in Probes /\ Probes' = Probes \ {c}
      BY <1>1, <1>7, <3>2 DEF Probes, Probe
    <3>4. /\ IsFiniteSet(Probes)
          /\ breaker.requests = breaker.successes + Cardinality(Probes)
      BY <3>1 DEF ProbesAreCounted, Counted
    <3>5. /\ IsFiniteSet(Probes \ {c}) /\ Cardinality(Probes \ {c}) = Cardinality(Probes) - 1
          /\ Cardinality(Probes) \in Nat
      BY <3>3, <3>4, FS_RemoveElement, FS_CardinalityType
    <3>6. breaker.successes \in Nat
      BY <1>0, LastFMSizes DEF BreakerType
    <3> QED BY <3>1, <3>3, <3>4, <3>5, <3>6 DEF Counted
  <2> QED BY <1>4, <2>1, <2>2 DEF ProbesAreCounted
<1> QED BY <1>5, <1>6, <1>7

\* An admitted request is a probe, and counted.
LEMMA ExecuteCounts ==
    ASSUME LastFMInv, ProbesAreCounted, NEW c \in Calls, Execute(c)
    PROVE  ProbesAreCounted'
<1> DEFINE x == IF Refuses(Current) THEN [call[c] EXCEPT !.pc = "failed"]
                ELSE [call[c] EXCEPT !.pc = "sent", !.left = HttpTimeout]
           calls == [call EXCEPT ![c] = x]
<1>0. call \in [Calls -> LookupType] /\ breaker \in BreakerType /\ ~call[c].old
      /\ call[c].pc = "execute"
  BY LookupsOK DEF ProbesAreCounted, Execute
<1>1. x \in LookupType /\ x.pc # "execute" /\ (Probe(x) <=> ~Refuses(Current))
  <2>1. call[c] \in LookupType /\ HttpTimeout \in 0..HttpTimeout
    BY <1>0, LastFMSizes
  <2>2. CASE Refuses(Current)
    BY <2>1, <2>2 DEF LookupType, Probe, InFlight
  <2>3. CASE ~Refuses(Current)
    BY <1>0, <2>1, <2>3 DEF LookupType, Probe, InFlight
  <2> QED BY <2>2, <2>3
<1>2. /\ calls \in [Calls -> LookupType] /\ calls[c] = x
      /\ \A d \in Calls \ {c} : calls[d] = call[d]
  BY <1>0, <1>1
<1>3. /\ breaker' = IF Refuses(Current) THEN Current ELSE Admitted(Current)
      /\ call' = IF NewGeneration THEN [Aged(calls) EXCEPT ![c] = x] ELSE calls
  BY <1>0, <1>2 DEF Execute
<1> HIDE DEF x, calls
<1>4. CASE NewGeneration
  <2>1. call'[c] = x /\ \A d \in Calls \ {c} : call'[d] = Aged(calls)[d]
    BY <1>3, <1>4 DEF Aged
  <2>2. \A d \in Calls \ {c} : /\ ~Probe(call'[d])
                               /\ call'[d].pc = "execute" => ~call'[d].old
    <3>1. \A d \in Calls \ {c} : calls[d].pc = "execute" => ~calls[d].old
      BY <1>2 DEF ProbesAreCounted
    <3> QED BY <1>2, <2>1, <3>1, AgedAreOld
  <2>3. Probes' = IF Refuses(Current) THEN {} ELSE {c}
    BY <1>1, <2>1, <2>2 DEF Probes
  <2>4. breaker'.state = "half" => Counted(breaker', Probes')
    <3>1. breaker'.state = "half" => Current = HalfOpen
      BY <1>3, <1>4, GenerationBegins DEF LastFMInv, Admitted
    <3> QED BY <1>3, <2>3, <3>1, HalfOpenCounts
  <2> QED BY <1>1, <2>1, <2>2, <2>4 DEF ProbesAreCounted
<1>5. CASE ~NewGeneration
  <2>0. Current = breaker /\ call' = calls
    BY <1>3, <1>5 DEF NewGeneration
  <2>1. \A d \in Calls : call'[d].pc = "execute" => ~call'[d].old
    BY <1>1, <1>2, <2>0 DEF ProbesAreCounted
  <2>2. ~Probe(call[c])
    BY <1>0 DEF Probe, InFlight
  <2>3. CASE Refuses(breaker)
    <3>1. \A d \in Calls : Probe(call'[d]) <=> Probe(call[d])
      BY <1>1, <1>2, <2>0, <2>2, <2>3
    <3> QED BY <1>2, <1>3, <2>0, <2>1, <2>3, <3>1, QuietSteps
  <2>4. CASE ~Refuses(breaker)
    <3>1. Probes' = Probes \cup {c} /\ c \notin Probes
      BY <1>1, <1>2, <2>0, <2>2, <2>4 DEF Probes
    <3>2. ASSUME breaker'.state = "half" PROVE Counted(breaker', Probes')
      <4>1. breaker.state = "half" /\ breaker' = [breaker EXCEPT !.requests = @ + 1]
        BY <1>3, <2>0, <2>4, <3>2 DEF Admitted
      <4>2. /\ IsFiniteSet(Probes) /\ breaker.successes < MaxRequests
            /\ breaker.requests = breaker.successes + Cardinality(Probes)
        BY <4>1 DEF ProbesAreCounted, Counted
      <4>3. /\ IsFiniteSet(Probes \cup {c})
            /\ Cardinality(Probes \cup {c}) = Cardinality(Probes) + 1
            /\ Cardinality(Probes) \in Nat
        BY <3>1, <4>2, FS_AddElement, FS_CardinalityType
      <4>4. /\ breaker'.requests = breaker.requests + 1
            /\ breaker'.successes = breaker.successes /\ breaker.successes \in Nat
        BY <1>0, <4>1, LastFMSizes DEF BreakerType
      <4> QED BY <3>1, <4>2, <4>3, <4>4 DEF Counted
    <3> QED BY <2>1, <3>2 DEF ProbesAreCounted
  <2> QED BY <2>3, <2>4
<1> QED BY <1>4, <1>5

\* Every step keeps count of the probes.
LEMMA ProbesStep ==
    ASSUME LastFMInv, LastFMInv', ProbesAreCounted, [Next]_vars
    PROVE  ProbesAreCounted'
<1>0. /\ call \in [Calls -> LookupType] /\ breaker \in BreakerType
      /\ call' \in [Calls -> LookupType]
      /\ 0 \in 0..HttpTimeout /\ 0 \in 0..MaxAge
      /\ \A d \in Calls : call[d].pc = "execute" => ~call[d].old
  <2>1. call \in [Calls -> LookupType] /\ breaker \in BreakerType
    BY LookupsOK
  <2>2. call' \in [Calls -> LookupType]
    BY DEF LastFMInv, TypeOK, LookupType
  <2>3. 0 \in 0..HttpTimeout /\ 0 \in 0..MaxAge
    BY LastFMSizes
  <2> QED BY <2>1, <2>2, <2>3 DEF ProbesAreCounted
<1>1. ASSUME NEW c \in Calls, NEW x,
             call' = [call EXCEPT ![c] = x], UNCHANGED breaker,
             x.pc = "execute" => ~x.old,
             Probe(x) <=> Probe(call[c])
      PROVE  ProbesAreCounted'
  <2>1. \A d \in Calls : /\ Probe(call'[d]) <=> Probe(call[d])
                         /\ call'[d].pc = "execute" => ~call'[d].old
    BY <1>0, <1>1
  <2> QED BY <1>0, <1>1, <2>1, QuietSteps
<1>2. ASSUME NEW c \in Calls, NEW k \in Keys, Lookup(c, k) PROVE ProbesAreCounted'
  <2> DEFINE x == [Ready(k) EXCEPT !.pc = IF Fresh(k) THEN "data" ELSE "execute"]
  <2>1. ~x.old /\ ~Probe(x) /\ ~Probe(call[c])
    BY <1>2 DEF Lookup, Ready, Probe, InFlight
  <2>2. call' = [call EXCEPT ![c] = x] /\ UNCHANGED breaker
    BY <1>2 DEF Lookup
  <2> QED BY <1>1, <2>1, <2>2
<1>3. ASSUME NEW c \in Calls, Answer(c) PROVE ProbesAreCounted'
  <2> DEFINE x == [call[c] EXCEPT !.pc = "reply"]
  <2>1. x.pc = "reply" /\ (Probe(x) <=> Probe(call[c]))
    BY <1>0, <1>3 DEF Answer, Probe, InFlight, LookupType
  <2>2. call' = [call EXCEPT ![c] = x] /\ UNCHANGED breaker
    BY <1>0, <1>3 DEF Answer
  <2> QED BY <1>1, <2>1, <2>2
<1>4. ASSUME NEW c \in Calls, Lose(c) PROVE ProbesAreCounted'
  <2> DEFINE x == [call[c] EXCEPT !.lost = TRUE]
  <2>1. x.pc = "sent" /\ (Probe(x) <=> Probe(call[c]))
    BY <1>0, <1>4 DEF Lose, Probe, InFlight, LookupType
  <2>2. call' = [call EXCEPT ![c] = x] /\ UNCHANGED breaker
    BY <1>0, <1>4 DEF Lose
  <2> QED BY <1>1, <2>1, <2>2
<1>5. ASSUME NEW c \in Calls, RequestFails(c) PROVE ProbesAreCounted'
  <2>1. Failed(c) \in LookupType /\ Failed(c).pc = "failed"
    BY <1>0 DEF Failed, LookupType
  <2>2. call[c].pc \in InFlight
    BY <1>5 DEF RequestFails, Due, InFlight
  <2> QED BY <1>5, <2>1, <2>2, ReportCounts DEF RequestFails, ReportFailure
<1>6. ASSUME NEW c \in Calls, RequestSucceeds(c) PROVE ProbesAreCounted'
  <2> DEFINE x == [call[c] EXCEPT !.pc = "store", !.left = 0, !.old = FALSE]
  <2>1. x \in LookupType /\ x.pc = "store"
    BY <1>0 DEF LookupType
  <2>2. call[c].pc \in InFlight /\ Report(c, TRUE, x)
    BY <1>6 DEF RequestSucceeds, InFlight
  <2> QED BY <2>1, <2>2, ReportCounts
<1>7. ASSUME NEW c \in Calls, Store(c) PROVE ProbesAreCounted'
  <2>1. /\ Ended(c, "data").pc = "data"
        /\ ~Probe(Ended(c, "data")) /\ ~Probe(call[c])
    BY <1>7 DEF Store, Ended, Ready, Probe, InFlight
  <2> QED BY <1>1, <1>7, <2>1 DEF Store
<1>8. ASSUME NEW c \in Calls, Fallback(c) PROVE ProbesAreCounted'
  <2> DEFINE x == Ended(c, IF cache[call[c].key].there THEN "data" ELSE "error")
  <2>1. x.pc # "execute" /\ ~Probe(x) /\ ~Probe(call[c])
    BY <1>8 DEF Fallback, Ended, Ready, Probe, InFlight
  <2>2. call' = [call EXCEPT ![c] = x] /\ UNCHANGED breaker
    BY <1>8 DEF Fallback
  <2> QED BY <1>1, <2>1, <2>2
<1>9. CASE Tick
  <2>1. ASSUME NEW d \in Calls PROVE call'[d].pc = call[d].pc /\ call'[d].old = call[d].old
    <3>1. call'[d] = [call[d] EXCEPT !.left = Minus1(@),
                                     !.age = IF call[d].pc = "reply" THEN Older(@) ELSE @]
      BY <1>9 DEF Tick
    <3> QED BY <1>0, <3>1 DEF LookupType
  <2>2. /\ breaker'.state = breaker.state /\ breaker'.requests = breaker.requests
        /\ breaker'.successes = breaker.successes
    BY <1>0, <1>9 DEF Tick, BreakerType
  <2>3. \A d \in Calls : /\ Probe(call'[d]) <=> Probe(call[d])
                         /\ call'[d].pc = "execute" => ~call'[d].old
    BY <1>0, <2>1 DEF Probe
  <2> QED BY <1>0, <2>2, <2>3, QuietSteps
<1>10. CASE Change \/ UNCHANGED vars
  <2>1. UNCHANGED <<call, breaker>>
    BY <1>10 DEF Change, vars
  <2> QED BY <1>0, <2>1, QuietSteps
<1> QED BY <1>2, <1>3, <1>4, <1>5, <1>6, <1>7, <1>8, <1>9, <1>10, ExecuteCounts
           DEF Next, Serve, GetRecentTracks, GetUserInfo, Keys

\* A breaker that is half-open and refuses waits for somebody: a request of its
\* own generation is in flight, whose end will close it or open it again. Lost
\* requests, clients that leave and results of earlier generations cannot use up
\* its probes for good (service/lastfm.go; the safety part of BreakerRecovers).
HalfOpenIsProbed ==
    breaker.state = "half" /\ Refuses(breaker)
        => \E c \in Calls : call[c].pc \in InFlight /\ ~call[c].old

\* For any calls, cache keys, timeouts and settings of the breaker.
THEOREM HalfOpenHasProbe == Keys # {} => (Spec => []HalfOpenIsProbed)
<1>1. SUFFICES ASSUME Keys # {} PROVE Spec => []HalfOpenIsProbed
  OBVIOUS
<1>2. Init => ProbesAreCounted
  BY DEF Init, ProbesAreCounted, Closed, Ready
<1>3. LastFMInv /\ LastFMInv' /\ ProbesAreCounted /\ [Next]_vars => ProbesAreCounted'
  BY ProbesStep
<1>4. LastFMInv /\ ProbesAreCounted => HalfOpenIsProbed
  <2>1. SUFFICES ASSUME LastFMInv, ProbesAreCounted, breaker.state = "half", Refuses(breaker)
                 PROVE  Probes # {}
    BY DEF HalfOpenIsProbed, Probes, Probe
  <2>2. /\ breaker.requests = breaker.successes + Cardinality(Probes)
        /\ breaker.successes < MaxRequests /\ breaker.requests >= MaxRequests
    BY <2>1 DEF ProbesAreCounted, Counted, Refuses
  <2>3. Cardinality({}) = 0
    BY FS_EmptySet
  <2>4. breaker.successes \in Nat
    <3>1. breaker \in BreakerType
      BY <2>1, LookupsOK
    <3> QED BY <3>1, LastFMSizes DEF BreakerType
  <2> QED BY <2>2, <2>3, <2>4, LastFMSizes
<1>5. Spec => []LastFMInv
  BY <1>1, LastFMInvariant
<1> QED BY <1>2, <1>3, <1>4, <1>5, PTL DEF Spec

-----------------------------------------------------------------------------
(***************************************************************************)
(* OAuthExchange: the cookies of one browser, for any tabs, users, states  *)
(* and lifetimes.                                                          *)
(***************************************************************************)

\* A state and a user that come together, as the cookies of a provider, on the
\* way to the callback or in a link, are of one exchange, unless that one began
\* with a token that does not verify.
Together(s, u) == s # None /\ u # None => begunBy[s] \in {u, Stale}

\* Wherever a state and a user are together, they are of one exchange.
CookiesAgree ==
    /\ \A p \in OAuth!Providers : Together(state[p].value, link[p].value)
    /\ \A t \in Tabs :
          /\ tab[t].pc = "begun" => /\ tab[t].state \in States
                                    /\ begunBy[tab[t].state] = tab[t].link
          /\ tab[t].pc = "back" => /\ tab[t].link \in Users \cup {None}
                                   /\ Together(tab[t].saved, tab[t].link)

\* The inductive invariant of a browser.
ExchangeInv == OAuth!TypeOK /\ CookiesAgree /\ OAuth!LinksItsUser

\* It holds before the first login.
LEMMA ExchangeInit == ASSUME OAuth!ExchangeConstants, OAuth!Init PROVE ExchangeInv
<1> USE DEF OAuth!ExchangeConstants
<1>1. OAuth!NoCookie \in OAuth!Cookies(States) /\ OAuth!NoCookie \in OAuth!Cookies(Users)
  BY DEF OAuth!NoCookie, OAuth!Cookies
<1>2. OAuth!Idle \in OAuth!Exchanges
  BY DEF OAuth!Idle, OAuth!Exchanges, OAuth!Sessions, OAuth!Providers
<1> QED BY <1>1, <1>2
           DEF OAuth!Init, ExchangeInv, OAuth!TypeOK, CookiesAgree, OAuth!LinksItsUser,
               OAuth!Sessions, OAuth!NoCookie, OAuth!Idle, Together

\* A state that nobody has drawn is nowhere.
LEMMA BeginInv ==
    ASSUME OAuth!ExchangeConstants, ExchangeInv, NEW t \in Tabs, NEW p \in OAuth!Providers,
           OAuth!Begin(t, p)
    PROVE  ExchangeInv'
<1> USE DEF OAuth!ExchangeConstants
<1>1. PICK s \in States :
        /\ begunBy[s] = OAuth!Unused
        /\ tab' = [tab EXCEPT ![t] = [OAuth!Idle EXCEPT !.pc = "begun", !.provider = p,
                                          !.state = s, !.link = session]]
        /\ begunBy' = [begunBy EXCEPT ![s] = session]
  BY DEF OAuth!Begin, OAuth!LinkAnswer
<1>2. UNCHANGED <<session, state, link, linked>> /\ tab[t].pc = "idle"
  BY DEF OAuth!Begin
<1>3. /\ tab'[t] \in OAuth!Exchanges /\ tab'[t].pc = "begun" /\ tab'[t].state = s
      /\ tab'[t].link = session
  BY <1>1 DEF ExchangeInv, OAuth!TypeOK, OAuth!Idle, OAuth!Exchanges
<1>4. /\ \A x \in Tabs \ {t} : tab'[x] = tab[x]
      /\ \A x \in States \ {s} : begunBy'[x] = begunBy[x]
      /\ begunBy'[s] = session
  BY <1>1 DEF ExchangeInv, OAuth!TypeOK
<1>5. OAuth!TypeOK'
  BY <1>1, <1>2, <1>3 DEF ExchangeInv, OAuth!TypeOK
<1>6. ASSUME NEW x, NEW u, Together(x, u), x \in States \cup {None}, u \in Users \cup {None}
      PROVE  Together(x, u)'
  BY <1>1, <1>4, <1>6 DEF Together
<1>7. ASSUME NEW q \in OAuth!Providers PROVE Together(state[q].value, link[q].value)'
  <2>1. state[q].value \in States \cup {None} /\ link[q].value \in Users \cup {None}
    BY DEF ExchangeInv, OAuth!TypeOK, OAuth!Cookies
  <2> QED BY <1>2, <1>6, <2>1 DEF ExchangeInv, CookiesAgree
<1>8. ASSUME NEW x \in Tabs \ {t}
      PROVE  /\ tab'[x].pc = "begun" => /\ tab'[x].state \in States
                                        /\ begunBy'[tab'[x].state] = tab'[x].link
             /\ tab'[x].pc = "back" => /\ tab'[x].link \in Users \cup {None}
                                       /\ Together(tab[x].saved, tab[x].link)'
  <2>1. tab'[x] = tab[x] /\ tab[x] \in OAuth!Exchanges
    BY <1>4 DEF ExchangeInv, OAuth!TypeOK
  <2>2. CASE tab[x].pc = "begun"
    <3>1. tab[x].state # s
      BY <1>1, <2>1, <2>2 DEF ExchangeInv, CookiesAgree, OAuth!Exchanges, OAuth!Sessions
    <3> QED BY <1>4, <2>1, <2>2, <3>1 DEF ExchangeInv, CookiesAgree
  <2>3. CASE tab[x].pc = "back"
    <3>1. tab[x].saved \in States \cup {None} /\ tab[x].link \in Users \cup {None}
          /\ Together(tab[x].saved, tab[x].link)
      BY <2>1, <2>3 DEF ExchangeInv, CookiesAgree, OAuth!Exchanges
    <3>2. Together(tab[x].saved, tab[x].link)'
      BY <1>1, <1>4, <2>1, <3>1 DEF Together
    <3> QED BY <2>1, <2>3, <3>1, <3>2
  <2> QED BY <2>1, <2>2, <2>3
<1>9. CookiesAgree'
  BY <1>3, <1>4, <1>7, <1>8 DEF CookiesAgree, Together
<1>10. OAuth!LinksItsUser'
  BY <1>1, <1>2, <1>4 DEF ExchangeInv, OAuth!TypeOK, OAuth!LinksItsUser
<1> QED BY <1>5, <1>9, <1>10 DEF ExchangeInv

\* The other steps of a tab draw no state: the cookies and what the tab carries
\* stay together.
LEMMA TabInv ==
    ASSUME ExchangeInv, NEW t \in Tabs, NEW x, x \in OAuth!Exchanges,
           tab' = [tab EXCEPT ![t] = x], UNCHANGED begunBy,
           session' \in OAuth!Sessions, state' \in [OAuth!Providers -> OAuth!Cookies(States)],
           link' \in [OAuth!Providers -> OAuth!Cookies(Users)],
           \A p \in OAuth!Providers : Together(state'[p].value, link'[p].value),
           linked' \subseteq [state : States, user : Users], OAuth!LinksItsUser',
           x.pc # "begun",
           x.pc = "back" => x.link \in Users \cup {None} /\ Together(x.saved, x.link)
    PROVE  ExchangeInv'
<1>1. OAuth!TypeOK'
  BY DEF ExchangeInv, OAuth!TypeOK
<1>2. tab'[t] = x /\ \A y \in Tabs \ {t} : tab'[y] = tab[y]
  BY DEF ExchangeInv, OAuth!TypeOK
<1>3. CookiesAgree'
  BY <1>2 DEF ExchangeInv, CookiesAgree, Together
<1> QED BY <1>1, <1>3 DEF ExchangeInv

\* The redirect sets the cookies of one exchange.
LEMMA RedirectedInv ==
    ASSUME OAuth!ExchangeConstants, ExchangeInv, NEW t \in Tabs, OAuth!Redirected(t)
    PROVE  ExchangeInv'
<1> USE DEF OAuth!ExchangeConstants
<1> DEFINE p == tab[t].provider
<1> DEFINE x == [tab[t] EXCEPT !.pc = "away", !.link = None]
<1>1. p \in OAuth!Providers /\ tab[t] \in OAuth!Exchanges /\ tab[t].state \in States
      /\ tab[t].link \in OAuth!Sessions /\ begunBy[tab[t].state] = tab[t].link
  BY DEF OAuth!Redirected, ExchangeInv, OAuth!TypeOK, CookiesAgree, OAuth!Exchanges
<1>2. /\ state' = [state EXCEPT ![p] = OAuth!Cookie(tab[t].state)]
      /\ link' = CASE tab[t].link = Stale -> link
                   [] tab[t].link = None -> [link EXCEPT ![p] = OAuth!NoCookie]
                   [] OTHER -> [link EXCEPT ![p] = OAuth!Cookie(tab[t].link)]
      /\ tab' = [tab EXCEPT ![t] = x]
      /\ UNCHANGED <<session, begunBy, linked>>
  BY DEF OAuth!Redirected, ExchangeInv, OAuth!TypeOK
<1>3. x \in OAuth!Exchanges /\ x.pc = "away"
  BY <1>1 DEF OAuth!Exchanges, OAuth!Sessions
<1>4. OAuth!Cookie(tab[t].state) \in OAuth!Cookies(States)
        /\ OAuth!NoCookie \in OAuth!Cookies(Users)
      /\ OAuth!Cookie(tab[t].state).value = tab[t].state
      /\ \A u \in Users : OAuth!Cookie(u) \in OAuth!Cookies(Users) /\ OAuth!Cookie(u).value = u
      /\ OAuth!NoCookie.value = None
  BY <1>1 DEF OAuth!Cookie, OAuth!NoCookie, OAuth!Cookies
<1>5. /\ state' \in [OAuth!Providers -> OAuth!Cookies(States)] /\ state'[p].value = tab[t].state
      /\ \A q \in OAuth!Providers \ {p} : state'[q] = state[q]
  BY <1>1, <1>2, <1>4 DEF ExchangeInv, OAuth!TypeOK
<1>6. /\ link' \in [OAuth!Providers -> OAuth!Cookies(Users)]
      /\ \A q \in OAuth!Providers \ {p} : link'[q] = link[q]
      /\ tab[t].link = Stale \/ link'[p].value = tab[t].link
  <2>1. CASE tab[t].link = Stale
    <3>1. link' = link
      BY <1>2, <2>1 DEF OAuth!ExchangeConstants
    <3> QED BY <2>1, <3>1 DEF ExchangeInv, OAuth!TypeOK
  <2>2. CASE tab[t].link = None
    <3>1. link' = [link EXCEPT ![p] = OAuth!NoCookie]
      BY <1>2, <2>2 DEF OAuth!ExchangeConstants
    <3>2. link \in [OAuth!Providers -> OAuth!Cookies(Users)]
      BY DEF ExchangeInv, OAuth!TypeOK
    <3>3. /\ link' \in [OAuth!Providers -> OAuth!Cookies(Users)] /\ link'[p] = OAuth!NoCookie
          /\ \A q \in OAuth!Providers \ {p} : link'[q] = link[q]
      BY <1>1, <1>4, <3>1, <3>2
    <3>4. link'[p].value = tab[t].link
      BY <2>2, <3>3 DEF OAuth!NoCookie
    <3> QED BY <3>3, <3>4
  <2>3. CASE tab[t].link \in Users
    BY <1>1, <1>2, <1>4, <2>3 DEF ExchangeInv, OAuth!TypeOK, OAuth!ExchangeConstants
  <2> QED BY <1>1, <2>1, <2>2, <2>3 DEF OAuth!Sessions
<1>7. \A q \in OAuth!Providers : Together(state'[q].value, link'[q].value)
  BY <1>1, <1>5, <1>6 DEF ExchangeInv, CookiesAgree, Together
<1>8. session' \in OAuth!Sessions /\ linked' \subseteq [state : States, user : Users]
        /\ OAuth!LinksItsUser'
  BY <1>2 DEF ExchangeInv, OAuth!TypeOK, OAuth!LinksItsUser
<1> QED BY <1>2, <1>3, <1>5, <1>6, <1>7, <1>8, TabInv

\* The browser sends both cookies of the provider, or neither.
LEMMA SendInv ==
    ASSUME OAuth!ExchangeConstants, ExchangeInv, NEW t \in Tabs, NEW code \in BOOLEAN,
           OAuth!Send(t, code),
           UNCHANGED <<session, state, link, begunBy, linked>>
    PROVE  ExchangeInv'
<1> DEFINE p == tab[t].provider
<1> DEFINE carried(cookie) == IF code THEN cookie.value ELSE None
<1> DEFINE x == [tab[t] EXCEPT !.pc = "back", !.code = code, !.user = None,
                               !.saved = carried(state[p]), !.link = carried(link[p])]
<1>1. p \in OAuth!Providers /\ tab[t] \in OAuth!Exchanges
  BY DEF ExchangeInv, OAuth!TypeOK, OAuth!Exchanges
<1>2. tab' = [tab EXCEPT ![t] = x]
  BY DEF OAuth!Send, ExchangeInv, OAuth!TypeOK
<1>3. carried(state[p]) \in States \cup {None} /\ carried(link[p]) \in Users \cup {None}
      /\ Together(carried(state[p]), carried(link[p]))
  BY <1>1 DEF ExchangeInv, OAuth!TypeOK, CookiesAgree, OAuth!Cookies, Together
<1>4. x \in OAuth!Exchanges /\ x.pc = "back" /\ x.link = carried(link[p])
        /\ x.saved = carried(state[p])
  BY <1>1, <1>3 DEF OAuth!Exchanges, OAuth!Sessions
<1>5. /\ session' \in OAuth!Sessions /\ state' \in [OAuth!Providers -> OAuth!Cookies(States)]
      /\ link' \in [OAuth!Providers -> OAuth!Cookies(Users)]
      /\ \A q \in OAuth!Providers : Together(state'[q].value, link'[q].value)
      /\ linked' \subseteq [state : States, user : Users] /\ OAuth!LinksItsUser'
  BY DEF ExchangeInv, OAuth!TypeOK, OAuth!LinksItsUser, CookiesAgree
<1> QED BY <1>2, <1>3, <1>4, <1>5, TabInv

\* An answer links what the callback carried.
LEMMA AnswerInv ==
    ASSUME OAuth!ExchangeConstants, ExchangeInv, NEW t \in Tabs, NEW u \in Users \cup {None},
           OAuth!Answer(t, u), UNCHANGED <<session, state, link, begunBy>>,
           linked' \subseteq [state : States, user : Users], OAuth!LinksItsUser'
    PROVE  ExchangeInv'
<1> DEFINE x == [tab[t] EXCEPT !.pc = "answered", !.code = FALSE,
                               !.saved = None, !.link = None, !.user = u]
<1>1. tab' = [tab EXCEPT ![t] = x] /\ tab[t] \in OAuth!Exchanges
  BY DEF OAuth!Answer, ExchangeInv, OAuth!TypeOK
<1>2. x \in OAuth!Exchanges /\ x.pc = "answered"
  BY <1>1 DEF OAuth!Exchanges, OAuth!Sessions
<1>3. /\ session' \in OAuth!Sessions /\ state' \in [OAuth!Providers -> OAuth!Cookies(States)]
      /\ link' \in [OAuth!Providers -> OAuth!Cookies(Users)]
      /\ \A q \in OAuth!Providers : Together(state'[q].value, link'[q].value)
  BY DEF ExchangeInv, OAuth!TypeOK, CookiesAgree
<1> QED BY <1>1, <1>2, <1>3, TabInv

\* A tab that is done leaves nothing to compare.
LEMMA AnsweredInv ==
    ASSUME OAuth!ExchangeConstants, ExchangeInv, NEW t \in Tabs,
           OAuth!Answered(t) \/ OAuth!Abandon(t)
    PROVE  ExchangeInv'
<1> USE DEF OAuth!ExchangeConstants
<1>1. OAuth!Idle \in OAuth!Exchanges /\ OAuth!Idle.pc = "idle"
  BY DEF OAuth!Idle, OAuth!Exchanges, OAuth!Sessions, OAuth!Providers
<1>2. OAuth!NoCookie \in OAuth!Cookies(Users) /\ OAuth!NoCookie.value = None
  BY DEF OAuth!NoCookie, OAuth!Cookies
<1>3. tab[t].provider \in OAuth!Providers /\ tab[t].user \in Users \cup {None}
  BY DEF ExchangeInv, OAuth!TypeOK, OAuth!Exchanges
<1>4. /\ tab' = [tab EXCEPT ![t] = OAuth!Idle] /\ UNCHANGED <<state, begunBy, linked>>
      /\ link' \in {link, [link EXCEPT ![tab[t].provider] = OAuth!NoCookie]}
      /\ session' \in {session, tab[t].user}
  BY DEF OAuth!Answered, OAuth!Abandon
<1>5. session' \in OAuth!Sessions
  BY <1>3, <1>4 DEF OAuth!Sessions, ExchangeInv, OAuth!TypeOK
<1>6. /\ link' \in [OAuth!Providers -> OAuth!Cookies(Users)]
      /\ \A q \in OAuth!Providers : link'[q].value \in {link[q].value, None}
  BY <1>2, <1>3, <1>4 DEF ExchangeInv, OAuth!TypeOK
<1>7. \A q \in OAuth!Providers : Together(state'[q].value, link'[q].value)
  BY <1>4, <1>6 DEF ExchangeInv, CookiesAgree, Together
<1>8. state' \in [OAuth!Providers -> OAuth!Cookies(States)]
        /\ linked' \subseteq [state : States, user : Users]
      /\ OAuth!LinksItsUser'
  BY <1>4 DEF ExchangeInv, OAuth!TypeOK, OAuth!LinksItsUser
<1> QED BY <1>1, <1>4, <1>5, <1>6, <1>7, <1>8, TabInv

\* A cookie that expires takes nothing from the other.
LEMMA ExpireInv ==
    ASSUME OAuth!ExchangeConstants, ExchangeInv, OAuth!Tick
    PROVE  ExchangeInv'
<1> USE DEF OAuth!ExchangeConstants
<1>1. ASSUME NEW values, NEW cookie \in OAuth!Cookies(values)
      PROVE  OAuth!Older(cookie) \in OAuth!Cookies(values)
               /\ OAuth!Older(cookie).value \in {cookie.value, None}
  <2>1. CASE cookie.left <= 1
    BY <2>1 DEF OAuth!Older, OAuth!NoCookie, OAuth!Cookies
  <2>2. CASE ~(cookie.left <= 1)
    <3>1. cookie.left - 1 \in 0..Life
      BY <2>2 DEF OAuth!Cookies
    <3> QED BY <2>2, <3>1 DEF OAuth!Older, OAuth!Cookies
  <2> QED BY <2>1, <2>2
<1>2. \A p \in OAuth!Providers : /\ state[p] \in OAuth!Cookies(States)
                                      /\ link[p] \in OAuth!Cookies(Users)
                                 /\ state'[p] = OAuth!Older(state[p])
                                      /\ link'[p] = OAuth!Older(link[p])
  BY DEF OAuth!Tick, ExchangeInv, OAuth!TypeOK
<1>3. \A p \in OAuth!Providers : /\ state'[p].value \in {state[p].value, None}
                                 /\ link'[p].value \in {link[p].value, None}
                                 /\ state'[p] \in OAuth!Cookies(States)
                                      /\ link'[p] \in OAuth!Cookies(Users)
  BY <1>1, <1>2
<1>4. OAuth!TypeOK'
  BY <1>3 DEF OAuth!Tick, ExchangeInv, OAuth!TypeOK
<1>5. CookiesAgree'
  BY <1>3 DEF OAuth!Tick, ExchangeInv, CookiesAgree, Together
<1>6. OAuth!LinksItsUser'
  BY DEF OAuth!Tick, ExchangeInv, OAuth!LinksItsUser
<1> QED BY <1>4, <1>5, <1>6 DEF ExchangeInv

\* Every step preserves the invariant.
LEMMA ExchangeStep ==
    ASSUME OAuth!ExchangeConstants, ExchangeInv, [OAuth!Next]_OAuth!vars
    PROVE  ExchangeInv'
<1>1. ASSUME NEW t \in Tabs, OAuth!GoogleLogin(t) \/ OAuth!GitHubLogin(t) PROVE ExchangeInv'
  BY <1>1, BeginInv DEF OAuth!GoogleLogin, OAuth!GitHubLogin, OAuth!Providers
<1>2. ASSUME NEW t \in Tabs, OAuth!Return(t) \/ OAuth!Reload(t) PROVE ExchangeInv'
  BY <1>2, SendInv DEF OAuth!Return, OAuth!Reload
<1>3. ASSUME NEW t \in Tabs, OAuth!CallbackRefused(t)
             \/ \E u \in Users : OAuth!CallbackSignsIn(t, u)
      PROVE  ExchangeInv'
  <2>1. linked' = linked /\ OAuth!LinksItsUser'
    BY <1>3
       DEF OAuth!CallbackRefused, OAuth!CallbackSignsIn, ExchangeInv, OAuth!LinksItsUser
  <2> QED BY <1>3, <2>1, AnswerInv
             DEF OAuth!CallbackRefused, OAuth!CallbackSignsIn, ExchangeInv, OAuth!TypeOK
<1>4. ASSUME NEW t \in Tabs, OAuth!CallbackLinks(t) PROVE ExchangeInv'
  <2> DEFINE d == [state |-> tab[t].state, user |-> tab[t].link]
  <2>1. /\ tab[t] \in OAuth!Exchanges /\ tab[t].link \in Users
        /\ tab[t].state \in States /\ begunBy[tab[t].state] \in {tab[t].link, Stale}
    BY <1>4
       DEF OAuth!CallbackLinks, OAuth!Invalid, ExchangeInv, OAuth!TypeOK, CookiesAgree,
           Together, OAuth!Exchanges
  <2>2. linked' = linked \cup {d} /\ UNCHANGED begunBy
    BY <1>4 DEF OAuth!CallbackLinks
  <2>3. linked' \subseteq [state : States, user : Users] /\ OAuth!LinksItsUser'
    BY <2>1, <2>2 DEF ExchangeInv, OAuth!TypeOK, OAuth!LinksItsUser
  <2> QED BY <1>4, <2>3, AnswerInv DEF OAuth!CallbackLinks
<1>5. ASSUME NEW t \in Tabs, OAuth!Redirected(t) PROVE ExchangeInv'
  BY <1>5, RedirectedInv
<1>6. ASSUME NEW t \in Tabs, OAuth!Answered(t) \/ OAuth!Abandon(t) PROVE ExchangeInv'
  BY <1>6, AnsweredInv
<1>7. ASSUME NEW v \in OAuth!Sessions, OAuth!Session(v) PROVE ExchangeInv'
  BY <1>7
     DEF OAuth!Session, ExchangeInv, OAuth!TypeOK, CookiesAgree, Together,
         OAuth!LinksItsUser
<1>8. CASE UNCHANGED OAuth!vars
  BY <1>8
     DEF OAuth!vars, ExchangeInv, OAuth!TypeOK, CookiesAgree, Together, OAuth!LinksItsUser
<1> QED BY <1>1, <1>2, <1>3, <1>4, <1>5, <1>6, <1>7, <1>8, ExpireInv DEF OAuth!Next

\* The invariant holds for any tabs, users, states and lifetime of the cookies.
THEOREM ExchangeInvariant == OAuth!Spec => []ExchangeInv
BY PartsAssumption, ExchangeInit, ExchangeStep, PTL DEF OAuth!Spec

\* However the tabs of a browser interleave their exchanges, sign in and out and
\* let cookies expire, an account is linked only to the user with whose session
\* its exchange began.
THEOREM LinksOwnUser == OAuth!Spec => []LinksItsUser
<1> USE PartsAssumption
<1>1. ExchangeInv => OAuth!LinksItsUser
  BY DEF ExchangeInv
<1> QED BY <1>1, ExchangeInvariant, PTL DEF LinksItsUser

-----------------------------------------------------------------------------
(***************************************************************************)
(* Streams: the decoders that read the stored files, for any streams and   *)
(* decoders.                                                               *)
(***************************************************************************)

\* An open stream has a decoder of its own, which was reset to it and does not
\* lie in the pool; no decoder lies there twice; what is used is open.
OwnDecoders ==
    /\ \A d \in Decoders : pool[d] \in {0, 1}
    /\ \A s \in Streams :
          /\ stream[s].use \notin {"none", "over"} => stream[s].open
          /\ stream[s].open => /\ stream[s].dec \in Decoders
                               /\ pool[stream[s].dec] = 0
                               /\ source[stream[s].dec] = s

\* The inductive invariant of the streams.
StreamsInv == Read!TypeOK /\ OwnDecoders

\* It holds with no stream open.
LEMMA StreamsInit == Read!Init => StreamsInv
BY DEF Read!Init, Read!Unopened, StreamsInv, Read!TypeOK, OwnDecoders, Read!Uses

\* What Get returns is nobody's, and does not lie in the pool afterwards.
LEMMA GetsFresh ==
    ASSUME StreamsInv, NEW g \in Read!Gets
    PROVE  /\ g[1] \in Decoders /\ g[2] \in [Decoders -> {0, 1}] /\ g[2][g[1]] = 0
           /\ \A d \in Decoders \ {g[1]} : g[2][d] = pool[d]
           /\ \A s \in Streams : stream[s].open => stream[s].dec # g[1]
<1> USE DEF StreamsInv, Read!TypeOK, OwnDecoders
<1>1. CASE g \in {<<d, [pool EXCEPT ![d] = @ - 1]>> : d \in {x \in Decoders : pool[x] > 0}}
  BY <1>1
<1>2. CASE g \in {<<d, pool>> : d \in {x \in Decoders \ Read!Held : pool[x] = 0}}
  BY <1>2 DEF Read!Held
<1> QED BY <1>1, <1>2 DEF Read!Gets

\* A stream that opens gets a decoder of its own,
LEMMA OpenInv ==
    ASSUME StreamsInv, NEW s \in Streams, NEW use \in Read!Uses \ {"none", "over"},
           Read!OpenStream(s, use)
    PROVE  StreamsInv'
<1>1. PICK g \in Read!Gets :
        /\ stream' = [stream EXCEPT ![s] = [use |-> use, open |-> TRUE, dec |-> g[1]]]
        /\ source' = [source EXCEPT ![g[1]] = s]
        /\ pool' = g[2]
  BY DEF Read!OpenStream
<1> QED BY <1>1, GetsFresh DEF StreamsInv, Read!TypeOK, OwnDecoders

\* and gives it back once, however often it is closed.
LEMMA CloseInv ==
    ASSUME StreamsInv, NEW s \in Streams, NEW use \in Read!Uses, Read!Closing(s, use),
           use = "over", stream[s].use \notin {"none", "over"}
    PROVE  StreamsInv'
<1>1. stream[s].open /\ stream[s].dec \in Decoders /\ pool[stream[s].dec] = 0
  BY DEF StreamsInv, Read!TypeOK, OwnDecoders
<1>2. pool' = [pool EXCEPT ![stream[s].dec] = 1]
  BY <1>1 DEF StreamsInv, Read!TypeOK, Read!Closing, Read!Put
<1>3. stream' = [stream EXCEPT ![s] = [stream[s] EXCEPT !.use = use, !.open = FALSE]]
      /\ source' = source
  BY DEF Read!Closing
<1>4. [stream[s] EXCEPT !.use = use, !.open = FALSE]
           \in [use : Read!Uses, open : BOOLEAN, dec : Decoders \cup {None}]
  BY DEF StreamsInv, Read!TypeOK
<1>5. Read!TypeOK'
  BY <1>1, <1>2, <1>3, <1>4 DEF StreamsInv, Read!TypeOK
<1>6. \A d \in Decoders : pool'[d] \in {0, 1}
  BY <1>1, <1>2 DEF StreamsInv, Read!TypeOK, OwnDecoders
<1>7. ASSUME NEW x \in Streams, x # s
      PROVE  /\ stream'[x].use \notin {"none", "over"} => stream'[x].open
             /\ stream'[x].open => /\ stream'[x].dec \in Decoders
                                   /\ pool'[stream'[x].dec] = 0
                                   /\ source'[stream'[x].dec] = x
  <2>1. stream'[x] = stream[x]
    BY <1>3, <1>7 DEF StreamsInv, Read!TypeOK
  <2>2. stream[x].open => stream[x].dec # stream[s].dec
    BY <1>1, <1>7 DEF StreamsInv, OwnDecoders
  <2> QED BY <1>2, <1>3, <2>1, <2>2 DEF StreamsInv, Read!TypeOK, OwnDecoders
<1>8. ~stream'[s].open /\ stream'[s].use = "over"
  BY <1>3 DEF StreamsInv, Read!TypeOK
<1> QED BY <1>5, <1>6, <1>7, <1>8 DEF StreamsInv, OwnDecoders

\* A stream goes on with the decoder it has.
LEMMA UseChanges ==
    ASSUME StreamsInv, NEW s \in Streams, NEW use \in Read!Uses,
           use \in {"none", "over"} \/ stream[s].open,
           stream' = [stream EXCEPT ![s].use = use]
    PROVE  /\ stream' \in [Streams -> [use : Read!Uses, open : BOOLEAN, dec : Decoders \cup {None}]]
           /\ \A x \in Streams : /\ stream'[x].open = stream[x].open
                                 /\ stream'[x].dec = stream[x].dec
                                 /\ stream'[x].use \notin {"none", "over"} => stream[x].open
BY DEF StreamsInv, Read!TypeOK, OwnDecoders

\* Every step preserves the invariant.
LEMMA StreamsStep ==
    ASSUME StreamsInv, [Read!Next]_Read!vars
    PROVE  StreamsInv'
<1> USE DEF Read!Uses
<1>1. ASSUME NEW s \in Streams,
             Read!GetFile(s) \/ Read!RpcGetFile(s) \/ Read!RpcGetWebP(s)
               \/ Read!PreGenerate(s) \/ Read!Convert(s)
      PROVE  StreamsInv'
  BY <1>1, OpenInv
     DEF Read!GetFile, Read!RpcGetFile, Read!RpcGetWebP, Read!PreGenerate, Read!Convert
<1>2. ASSUME NEW s \in Streams, Read!ResponseEnds(s) \/ Read!RpcEnds(s) \/ Read!ConvertEnds(s)
      PROVE  StreamsInv'
  BY <1>2, CloseInv DEF Read!ResponseEnds, Read!RpcEnds, Read!ConvertEnds
<1>3. ASSUME NEW s \in Streams, Read!NotModified(s) \/ Read!SendStream(s) \/ Read!Dropped(s)
      PROVE  StreamsInv'
  <2>1. PICK use \in {"over", "response"} :
          /\ use = "over" \/ stream[s].open
          /\ stream' = [stream EXCEPT ![s].use = use]
          /\ UNCHANGED <<pool, source>>
    <3>1. CASE Read!NotModified(s) \/ Read!Dropped(s)
      BY <3>1 DEF Read!NotModified, Read!Dropped
    <3>2. CASE Read!SendStream(s)
      <4>1. stream[s].open
        BY <3>2 DEF Read!SendStream, StreamsInv, OwnDecoders
      <4> QED BY <3>2, <4>1 DEF Read!SendStream
    <3> QED BY <1>3, <3>1, <3>2
  <2>2. /\ stream' \in [Streams -> [use : Read!Uses, open : BOOLEAN, dec : Decoders \cup {None}]]
        /\ \A x \in Streams : /\ stream'[x].open = stream[x].open
                              /\ stream'[x].dec = stream[x].dec
                              /\ stream'[x].use \notin {"none", "over"} => stream[x].open
    BY <2>1, UseChanges
  <2>3. Read!TypeOK'
    BY <2>1, <2>2 DEF StreamsInv, Read!TypeOK
  <2>4. OwnDecoders'
    <3>1. ASSUME NEW x \in Streams, stream'[x].use \notin {"none", "over"}
          PROVE  stream'[x].open
      BY <2>2, <3>1
    <3>2. ASSUME NEW x \in Streams, stream'[x].open
          PROVE  /\ stream'[x].dec \in Decoders
                 /\ pool[stream'[x].dec] = 0
                 /\ source[stream'[x].dec] = x
      <4>1. stream[x].open
        BY <2>2, <3>2
      <4> QED BY <2>2, <4>1 DEF StreamsInv, OwnDecoders
    <3> QED BY <2>1, <3>1, <3>2 DEF StreamsInv, OwnDecoders
  <2> QED BY <2>3, <2>4 DEF StreamsInv
<1>4. ASSUME NEW s \in Streams, Read!OpenFails(s) PROVE StreamsInv'
  <2>1. PICK g \in Read!Gets : /\ source' = [source EXCEPT ![g[1]] = s]
                               /\ pool' = Read!Put(g[1], g[2])
    BY <1>4 DEF Read!OpenFails
  <2>2. pool' = [g[2] EXCEPT ![g[1]] = 1]
    BY <2>1, GetsFresh DEF Read!Put
  <2>3. stream' = [stream EXCEPT ![s].use = "over"]
    BY <1>4 DEF Read!OpenFails
  <2>4. g[1] \in Decoders /\ g[2] \in [Decoders -> {0, 1}]
        /\ pool' \in [Decoders -> {0, 1}]
    BY <2>2, GetsFresh
  <2>5. Read!TypeOK'
    <3>1. stream' \in [Streams -> [use : Read!Uses, open : BOOLEAN, dec : Decoders \cup {None}]]
      BY <2>3, UseChanges
    <3>2. source' \in [Decoders -> Streams \cup {None}]
      BY <2>1, <2>4 DEF StreamsInv, Read!TypeOK
    <3>3. pool' \in [Decoders -> 0..2]
      BY <2>4
    <3> QED BY <3>1, <3>2, <3>3 DEF Read!TypeOK
  <2>6. ASSUME NEW x \in Streams
        PROVE  /\ stream'[x].use \notin {"none", "over"} => stream'[x].open
               /\ stream'[x].open => /\ stream'[x].dec \in Decoders
                                     /\ pool'[stream'[x].dec] = 0
                                     /\ source'[stream'[x].dec] = x
    <3>1. stream'[x].open = stream[x].open /\ stream'[x].dec = stream[x].dec
          /\ (stream'[x].use \notin {"none", "over"} => stream[x].open)
      BY <2>3, UseChanges
    <3>2. stream[x].open => stream[x].dec \in Decoders \ {g[1]}
      BY GetsFresh DEF StreamsInv, OwnDecoders
    <3>3. \A d \in Decoders \ {g[1]} : pool'[d] = pool[d] /\ source'[d] = source[d]
      BY <2>1, <2>2, <2>4, GetsFresh DEF StreamsInv, Read!TypeOK
    <3> QED BY <3>1, <3>2, <3>3 DEF StreamsInv, OwnDecoders
  <2> QED BY <2>4, <2>5, <2>6 DEF StreamsInv, OwnDecoders
<1>5. CASE Read!Collect
  <2>1. PICK d \in Decoders : pool[d] > 0 /\ pool' = [pool EXCEPT ![d] = @ - 1]
    BY <1>5 DEF Read!Collect
  <2>2. pool \in [Decoders -> {0, 1}]
    BY DEF StreamsInv, Read!TypeOK, OwnDecoders
  <2>3. pool' \in [Decoders -> {0, 1}] /\ \A e \in Decoders : pool[e] = 0 => pool'[e] = 0
    BY <2>1, <2>2
  <2>4. UNCHANGED <<stream, source>> /\ pool' \in [Decoders -> 0..2]
    BY <1>5, <2>3 DEF Read!Collect
  <2> QED BY <2>3, <2>4 DEF StreamsInv, Read!TypeOK, OwnDecoders
<1>6. CASE UNCHANGED Read!vars
  BY <1>6 DEF Read!vars, StreamsInv, Read!TypeOK, OwnDecoders
<1> QED BY <1>1, <1>2, <1>3, <1>4, <1>5, <1>6 DEF Read!Next

\* The invariant holds for any streams and decoders.
THEOREM StreamsInvariant == Read!Spec => []StreamsInv
BY StreamsInit, StreamsStep, PTL DEF Read!Spec

\* A decoder that a stream reads from is still set to the file of that stream,
\* whoever else opens, converts, closes twice or gets decoders from the pool.
THEOREM StreamsReadOwn == Read!Spec => []StreamsReadTheirOwn
<1>1. StreamsInv => Read!StreamsReadTheirOwn
  BY DEF StreamsInv, OwnDecoders, Read!StreamsReadTheirOwn
<1> QED BY <1>1, StreamsInvariant, PTL DEF StreamsReadTheirOwn

-----------------------------------------------------------------------------
(***************************************************************************)
(* ObjectStore: the storage engine for S3, for any savers, keys, tries     *)
(* and failures.                                                           *)
(***************************************************************************)

\* Where a request to S3 may be.
PCs == {"idle", "put", "head", "create", "put again", "saved", "failed", "unread"}

\* A save tries its PUT again in a bucket; the starter is on its way only while
\* it has tries left.
BucketFound ==
    /\ \A c \in Savers : S3!At(c, "put again") => bucket
    /\ caller[Starter].pc \in {"idle", "head", "create"}
    /\ caller[Starter].pc # "idle" => tries > 0

\* The inductive invariant of the engine.
StoreInv == S3!TypeOK /\ BucketFound /\ S3!SavesSucceed

\* It holds at the start.
LEMMA StoreInit == ASSUME S3!StoreConstants, S3!Init PROVE StoreInv
<1>1. \A c \in S3!Callers : caller[c].pc = "idle" /\ caller[c].key \in StoredKeys
  BY DEF S3!Init
<1>2. caller \in [S3!Callers -> [pc : PCs, key : StoredKeys]]
  BY DEF S3!Init, PCs
<1>3. tries \in 0..MaxTries /\ failures \in 0..MaxFailures
  BY DEF S3!Init, S3!StoreConstants
<1>4. S3!TypeOK
  BY <1>2, <1>3 DEF S3!Init, S3!TypeOK, PCs
<1> QED BY <1>1, <1>4 DEF StoreInv, BucketFound, S3!SavesSucceed, S3!At, S3!Callers

\* A request of c moves c alone.
LEMMA StoreMoves ==
    ASSUME S3!TypeOK, NEW c \in S3!Callers, NEW p \in PCs, S3!Goto(c, p)
    PROVE  /\ caller' \in [S3!Callers -> [pc : PCs, key : StoredKeys]]
           /\ caller'[c].pc = p /\ caller'[c].key = caller[c].key
           /\ \A d \in S3!Callers \ {c} : caller'[d] = caller[d]
BY DEF S3!TypeOK, S3!Goto, PCs

\* What a request of a saver may do.
SaverMoves(c) ==
    /\ caller' \in [S3!Callers -> [pc : PCs, key : StoredKeys]]
    /\ caller'[c].key = caller[c].key
    /\ \A d \in S3!Callers \ {c} : caller'[d] = caller[d]
    /\ bucket' \in BOOLEAN /\ objects' \in SUBSET StoredKeys /\ failures' \in 0..MaxFailures
    /\ objects \subseteq objects' /\ (bucket => bucket')
    /\ unlucky \subseteq unlucky' /\ unlucky' \subseteq Savers
    /\ UNCHANGED <<tries, deleted>>
    /\ caller'[c].pc = "saved" => caller[c].key \in objects'
    /\ caller'[c].pc = "failed" => c \in unlucky'
    /\ caller'[c].pc = "put again" => bucket'

\* Such a request preserves the invariant.
LEMMA SaverInv ==
    ASSUME S3!StoreConstants, StoreInv, NEW c \in Savers, SaverMoves(c)
    PROVE  StoreInv'
<1>1. S3!TypeOK'
  BY DEF StoreInv, S3!TypeOK, SaverMoves, PCs
<1>2. BucketFound'
  BY DEF StoreInv, BucketFound, SaverMoves, S3!At, S3!Callers, S3!StoreConstants
<1>3. S3!SavesSucceed'
  BY DEF StoreInv, S3!SavesSucceed, SaverMoves, S3!At, S3!Callers
<1> QED BY <1>1, <1>2, <1>3 DEF StoreInv

\* Whoever is left unanswered is remembered as unlucky.
LEMMA UnansweredTypes ==
    ASSUME S3!StoreConstants, S3!TypeOK, NEW c, S3!Unanswered(c)
    PROVE  /\ failures' \in 0..MaxFailures
           /\ unlucky \subseteq unlucky' /\ unlucky' \subseteq Savers
           /\ c \in Savers => c \in unlucky'
<1>1. failures' \in 0..MaxFailures
  <2>1. failures \in 0..MaxFailures /\ MaxFailures \in Nat
    BY DEF S3!StoreConstants, S3!TypeOK
  <2>2. failures < MaxFailures /\ failures' = failures + 1
    BY DEF S3!Unanswered
  <2> QED BY <2>1, <2>2
<1> QED BY <1>1 DEF S3!TypeOK, S3!Unanswered

\* Every step preserves the invariant.
LEMMA StoreStep ==
    ASSUME S3!StoreConstants, StoreInv, [S3!Next]_S3!vars
    PROVE  StoreInv'
<1> USE DEF StoreInv
<1>1. ASSUME NEW c \in Savers, NEW k \in StoredKeys, S3!Save(c, k) PROVE StoreInv'
  <2>1. PICK pc \in {"put", "unread"} :
           caller' = [caller EXCEPT ![c] = [pc |-> pc, key |-> k]]
    BY <1>1 DEF S3!Save
  <2>2. c \in S3!Callers /\ c # Starter /\ UNCHANGED <<bucket, objects, tries, failures>>
          /\ unlucky' = unlucky \ {c} /\ deleted' = deleted \ {c}
    BY <1>1 DEF S3!Save, S3!StoreConstants, S3!Callers
  <2>3. \A d \in S3!Callers : caller'[d] = IF d = c THEN [pc |-> pc, key |-> k] ELSE caller[d]
    BY <2>1, <2>2 DEF S3!TypeOK
  <2>4. S3!TypeOK'
    BY <2>1, <2>2 DEF S3!TypeOK
  <2>5. /\ caller'[c].pc \in {"put", "unread"} /\ caller'[Starter] = caller[Starter]
        /\ \A d \in Savers : d # c => caller'[d] = caller[d]
    <3>1. Starter \in S3!Callers /\ Savers \subseteq S3!Callers
      BY DEF S3!Callers
    <3> QED BY <2>1, <2>2, <2>3, <3>1
  <2>6. BucketFound'
    BY <2>2, <2>5 DEF BucketFound, S3!At
  <2>7. S3!SavesSucceed'
    BY <2>2, <2>5 DEF S3!SavesSucceed, S3!At
  <2> QED BY <2>4, <2>6, <2>7
<1>2. ASSUME NEW c \in Savers, S3!Put(c) PROVE StoreInv'
  <2>1. c \in S3!Callers /\ caller[c].key \in StoredKeys
          /\ S3!AfterPut(c) \in {"head", "failed"}
        /\ (S3!AfterPut(c) = "failed" => bucket)
    BY <1>2 DEF S3!Callers, S3!TypeOK, S3!AfterPut, S3!Put, BucketFound, S3!At
  <2>2. PICK p \in {"saved", S3!AfterPut(c)} :
          /\ S3!Goto(c, p)
          /\ objects' \in {objects, objects \cup {caller[c].key}}
          /\ p = "saved" => caller[c].key \in objects'
          /\ \/ S3!Answered /\ (p = "saved" \/ S3!AfterPut(c) = "head")
             \/ S3!Unanswered(c)
    BY <1>2, <2>1 DEF S3!Put
  <2>3. p \in PCs
    BY <2>1, <2>2 DEF PCs
  <2>4. SaverMoves(c)
    <3>1. /\ caller' \in [S3!Callers -> [pc : PCs, key : StoredKeys]]
          /\ caller'[c].pc = p /\ caller'[c].key = caller[c].key
          /\ \A d \in S3!Callers \ {c} : caller'[d] = caller[d]
      BY <2>1, <2>2, <2>3, StoreMoves
    <3>2. /\ failures' \in 0..MaxFailures
          /\ unlucky \subseteq unlucky' /\ unlucky' \subseteq Savers
          /\ p = "failed" => c \in unlucky'
      BY <2>1, <2>2, UnansweredTypes DEF S3!Answered, S3!TypeOK
    <3>3. UNCHANGED <<bucket, tries, deleted>> /\ bucket \in BOOLEAN
      BY <1>2 DEF S3!Put, S3!TypeOK
    <3>4. objects' \subseteq StoredKeys /\ objects \subseteq objects'
      BY <2>1, <2>2 DEF S3!TypeOK
    <3> QED BY <2>1, <2>2, <3>1, <3>2, <3>3, <3>4 DEF SaverMoves
  <2> QED BY <2>4, SaverInv
<1>3. ASSUME NEW c \in Savers, S3!Head(c) \/ S3!Create(c) PROVE StoreInv'
  <2>1. c \in S3!Callers /\ c # Starter
    BY DEF S3!Callers, S3!StoreConstants
  <2>2. PICK p \in {"put again", "failed", "create"} :
          /\ S3!Goto(c, p) /\ UNCHANGED <<tries, objects, deleted>>
          /\ bucket' = bucket \/ bucket' = TRUE
          /\ p = "put again" => bucket'
          /\ p = "failed" => S3!Unanswered(c)
          /\ S3!Answered \/ S3!Unanswered(c)
    <3>1. ASSUME S3!Head(c)
          PROVE  \/ bucket /\ S3!Answered /\ S3!Goto(c, "put again") /\ UNCHANGED tries
                 \/ S3!Answered /\ S3!Goto(c, "create") /\ UNCHANGED tries
                 \/ S3!Unanswered(c) /\ S3!Goto(c, "create") /\ UNCHANGED tries
      BY <2>1, <3>1 DEF S3!Head, S3!Ensured
    <3>2. ASSUME S3!Create(c)
          PROVE  \/ S3!Answered /\ bucket' = TRUE /\ S3!Goto(c, "put again") /\ UNCHANGED tries
                 \/ /\ S3!Unanswered(c) /\ (bucket' = bucket \/ bucket' = TRUE)
                    /\ S3!Goto(c, "failed") /\ UNCHANGED tries
      BY <2>1, <3>2 DEF S3!Create, S3!Ensured
    <3>3. CASE S3!Head(c)
      BY <3>1, <3>3 DEF S3!Head
    <3>4. CASE S3!Create(c)
      BY <3>2, <3>4 DEF S3!Create
    <3> QED BY <1>3, <3>3, <3>4
  <2>3. SaverMoves(c)
    <3>1. /\ caller' \in [S3!Callers -> [pc : PCs, key : StoredKeys]]
          /\ caller'[c].pc = p /\ caller'[c].key = caller[c].key
          /\ \A d \in S3!Callers \ {c} : caller'[d] = caller[d]
      <4>1. p \in PCs
        BY DEF PCs
      <4> QED BY <2>1, <2>2, <4>1, StoreMoves
    <3>2. /\ failures' \in 0..MaxFailures
          /\ unlucky \subseteq unlucky' /\ unlucky' \subseteq Savers
          /\ p = "failed" => c \in unlucky'
      BY <2>1, <2>2, UnansweredTypes DEF S3!Answered, S3!TypeOK
    <3>3. objects' \subseteq StoredKeys /\ objects \subseteq objects'
      BY <2>2 DEF S3!TypeOK
    <3>4. bucket' \in BOOLEAN /\ (bucket => bucket')
      <4>1. CASE bucket' = bucket
        BY <4>1 DEF S3!TypeOK
      <4>2. CASE bucket' = TRUE
        BY <4>2
      <4> QED BY <2>2, <4>1, <4>2
    <3> QED BY <2>2, <3>1, <3>2, <3>3, <3>4 DEF SaverMoves
  <2> QED BY <2>3, SaverInv
<1>4. ASSUME S3!Head(Starter) \/ S3!Create(Starter) PROVE StoreInv'
  <2>1. Starter \in S3!Callers /\ caller[Starter].pc # "idle" /\ tries > 0
    BY <1>4 DEF S3!Callers, S3!Head, S3!Create, S3!At, BucketFound
  <2>2. PICK p \in {"idle", "create"} :
          /\ S3!Goto(Starter, p) /\ UNCHANGED <<objects, deleted>>
          /\ bucket' = bucket \/ bucket' = TRUE
          /\ tries' \in {tries, tries - 1, 0}
          /\ p = "create" => tries' = tries
          /\ S3!Answered \/ S3!Unanswered(Starter)
    BY <1>4 DEF S3!Head, S3!Create, S3!Ensured
  <2>3. tries' \in 0..MaxTries
    <3>1. tries \in 0..MaxTries /\ MaxTries \in Nat
      BY DEF S3!TypeOK, S3!StoreConstants
    <3> QED BY <2>1, <2>2, <3>1
  <2>4. p \in PCs
    BY DEF PCs
  <2>5. /\ caller' \in [S3!Callers -> [pc : PCs, key : StoredKeys]]
        /\ caller'[Starter].pc = p
        /\ \A d \in Savers : caller'[d] = caller[d]
    BY <2>1, <2>2, <2>4, StoreMoves DEF S3!StoreConstants, S3!Callers
  <2>6. failures' \in 0..MaxFailures /\ unlucky \subseteq unlucky' /\ unlucky' \subseteq Savers
    BY <2>2, UnansweredTypes DEF S3!Answered, S3!TypeOK
  <2>7. S3!TypeOK'
    BY <2>2, <2>3, <2>5, <2>6 DEF S3!TypeOK, PCs
  <2>8. BucketFound'
    <3>1. bucket => bucket'
      <4>1. CASE bucket' = bucket
        BY <4>1
      <4>2. CASE bucket' = TRUE
        BY <4>2
      <4> QED BY <2>2, <4>1, <4>2
    <3>2. \A c \in Savers : S3!At(c, "put again")' => bucket'
      BY <2>5, <3>1 DEF BucketFound, S3!At
    <3>3. p = "create" => tries' > 0
      BY <2>1, <2>2
    <3> QED BY <2>5, <3>2, <3>3 DEF BucketFound, S3!At
  <2>9. S3!SavesSucceed'
    BY <2>2, <2>5, <2>6 DEF S3!SavesSucceed, S3!At
  <2> QED BY <2>7, <2>8, <2>9
<1>5. CASE S3!StarterTries
  BY <1>5
     DEF S3!StarterTries, S3!Goto, S3!StoreConstants, S3!TypeOK, BucketFound,
         S3!SavesSucceed, S3!At, S3!Callers
<1>6. ASSUME NEW k \in StoredKeys, S3!Delete(k) PROVE StoreInv'
  BY <1>6
     DEF S3!Delete, S3!StoreConstants, S3!TypeOK, BucketFound, S3!SavesSucceed, S3!At,
         S3!Callers
<1>7. CASE UNCHANGED S3!vars
  BY <1>7 DEF S3!vars, S3!TypeOK, BucketFound, S3!SavesSucceed, S3!At
<1> QED BY <1>1, <1>2, <1>3, <1>4, <1>5, <1>6, <1>7 DEF S3!Next, S3!Callers

\* The invariant holds for any savers, keys, tries and failures of S3.
THEOREM StoreInvariant == S3!Spec => []StoreInv
BY PartsAssumption, StoreInit, StoreStep, PTL DEF S3!Spec

\* A save whose stream could be read fails only if S3 left one of its requests
\* unanswered, even when the bucket did not exist at first and others create it
\* meanwhile; and what it has saved is there unless its key was deleted.
THEOREM SavesSucceedTheorem == S3!Spec => []SavesSucceed
<1> USE PartsAssumption
<1>1. StoreInv => S3!SavesSucceed
  BY DEF StoreInv
<1> QED BY <1>1, StoreInvariant, PTL DEF SavesSucceed

-----------------------------------------------------------------------------
(***************************************************************************)
(* CPUMonitor: the usage computed from the counters of the kernel, for     *)
(* any modulus and counters that do not reach half of it.                  *)
(***************************************************************************)

Percentages == 0..100

\* The readings are of counters and the usages percentages.
CPUInv ==
    /\ prevTotal \in CPU!Samples /\ prevCores \in Seq(CPU!Samples)
    /\ prevCgroup \in [usec : 0..MaxCounter, age : Nat]
    /\ stats.usage \in Percentages
    /\ \A i \in DOMAIN stats.cores : stats.cores[i] \in Percentages

\* A difference of counters wraps only when they went back.
LEMMA Difference ==
    ASSUME CPU!CounterConstants, NEW a \in 0..(2 * MaxCounter), NEW b \in 0..(2 * MaxCounter)
    PROVE  CPU!Minus(a, b) \in Nat /\ (b <= a => CPU!Minus(a, b) = a - b)
<1>1. Modulus \in Nat \ {0} /\ a \in Nat /\ b \in Nat /\ a < Modulus /\ b < Modulus
  BY DEF CPU!CounterConstants
<1>2. a + Modulus - b \in Nat
  BY <1>1
<1>3. CPU!Minus(a, b) \in Nat
  BY <1>1, <1>2 DEF CPU!Minus
<1>4. ASSUME b <= a PROVE CPU!Minus(a, b) = a - b
  <2>1. a - b \in Nat /\ a - b < Modulus /\ a + Modulus - b = (a - b) + Modulus
    BY <1>1, <1>4
  <2>2. ((a - b) + Modulus) % Modulus = a - b
    BY <1>1, <2>1
  <2> QED BY <2>1, <2>2 DEF CPU!Minus
<1> QED BY <1>3, <1>4

\* The total of a sample does not overflow.
LEMMA TotalAdds ==
    ASSUME CPU!CounterConstants, NEW s \in CPU!Samples
    PROVE  CPU!Total(s) = s.busy + s.idle /\ CPU!Total(s) \in 0..(2 * MaxCounter)
           /\ s.idle \in 0..(2 * MaxCounter)
<1>1. s.busy \in 0..MaxCounter /\ s.idle \in 0..MaxCounter
  BY DEF CPU!Samples
<1>2. s.busy + s.idle \in 0..(2 * MaxCounter) /\ s.busy + s.idle < Modulus
      /\ Modulus \in Nat \ {0}
  BY <1>1 DEF CPU!CounterConstants
<1>3. (s.busy + s.idle) % Modulus = s.busy + s.idle
  BY <1>2 DEF CPU!CounterConstants
<1> QED BY <1>1, <1>2, <1>3 DEF CPU!Total, CPU!CounterConstants

\* So the usage is the share of busy time whenever the counters grew.
LEMMA BusyShare ==
    ASSUME CPU!CounterConstants, NEW s \in CPU!Samples, NEW t \in CPU!Samples
    PROVE  /\ CPU!Busy(t, s) \in Percentages
           /\ CPU!Grows(s, t) => CPU!Busy(t, s) = CPU!Share(s, t)
<1> DEFINE total == CPU!Minus(CPU!Total(t), CPU!Total(s))
<1> DEFINE idle == CPU!Minus(t.idle, s.idle)
<1>1. total \in Nat /\ idle \in Nat
  BY Difference, TotalAdds
<1>2. CPU!Busy(t, s) = IF total > 0 /\ total >= idle THEN (100 * (total - idle)) \div total
        ELSE 0
  BY DEF CPU!Busy
<1>3. CPU!Busy(t, s) \in Percentages
  <2>1. CASE total > 0 /\ total >= idle
    <3>1. 100 * (total - idle) \in Nat /\ total \in Nat \ {0}
          /\ 100 * (total - idle) <= 100 * total
      BY <1>1, <2>1
    <3> HIDE DEF total, idle
    <3>2. (100 * (total - idle)) \div total \in 0..100
      BY <3>1
    <3> QED BY <1>2, <2>1, <3>2 DEF Percentages
  <2>2. CASE ~(total > 0 /\ total >= idle)
    BY <1>2, <2>2 DEF Percentages
  <2> QED BY <2>1, <2>2
<1>4. ASSUME CPU!Grows(s, t) PROVE CPU!Busy(t, s) = CPU!Share(s, t)
  <2>1. /\ s.busy \in Nat /\ s.idle \in Nat /\ t.busy \in Nat /\ t.idle \in Nat
        /\ s.busy <= t.busy /\ s.idle <= t.idle
    BY <1>4 DEF CPU!Grows, CPU!Samples
  <2>2. total = CPU!Total(t) - CPU!Total(s) /\ CPU!Total(s) < CPU!Total(t)
    BY <1>4, Difference, TotalAdds DEF CPU!Grows
  <2>3. total = (t.busy - s.busy) + (t.idle - s.idle) /\ total > 0
    BY <2>1, <2>2, TotalAdds
  <2>4. idle = t.idle - s.idle
    BY <2>1, Difference, TotalAdds
  <2>5. total >= idle /\ total - idle = t.busy - s.busy
    BY <2>1, <2>3, <2>4
  <2> HIDE DEF total, idle
  <2> QED BY <1>2, <2>3, <2>5 DEF CPU!Share
<1> QED BY <1>3, <1>4

\* What is cut off at 100 is a percentage.
LEMMA Percentage == ASSUME NEW n \in Nat PROVE CPU!AtMost100(n) \in Percentages
BY DEF CPU!AtMost100, Percentages

\* The invariant holds before the first sample.
LEMMA CPUInit == ASSUME CPU!CounterConstants, CPU!Init PROVE CPUInv
<1>1. CPU!NoSample \in CPU!Samples
  BY DEF CPU!NoSample, CPU!Samples, CPU!CounterConstants
<1> QED BY <1>1 DEF CPU!Init, CPUInv, CPU!NoStats, Percentages, CPU!CounterConstants

\* What the sampler may do in a step.
Sampled ==
    /\ stats'.usage \in Percentages
    /\ \A i \in DOMAIN stats'.cores : stats'.cores[i] \in Percentages
    /\ stats'.from = "proc" /\ CPU!Grows(prevTotal, prevTotal') /\ CPU!Total(prevTotal) > 0
          => stats'.usage = CPU!Share(prevTotal, prevTotal')

\* A sample of /proc/stat and one of the cgroup preserve it, and report what
\* they should.
LEMMA ProcStep ==
    ASSUME CPU!CounterConstants, CPUInv, CPU!SampleProc
    PROVE  CPUInv' /\ Sampled
<1>1. PICK total \in CPU!Samples, cores \in CPU!CoreSamples :
        /\ stats' = [from |-> "proc", usage |-> CPU!Overall(total), cores |-> CPU!Cores(cores)]
        /\ prevTotal' = total
        /\ prevCores' = cores
  BY DEF CPU!SampleProc
<1>2. cores \in Seq(CPU!Samples)
  <2>1. PICK n \in CoreLines : cores \in [1..n -> CPU!Samples]
    BY DEF CPU!CoreSamples
  <2> QED BY <2>1 DEF CPU!CounterConstants
<1>3. CPU!Overall(total) \in Percentages
      /\ (CPU!Grows(prevTotal, total) /\ CPU!Total(prevTotal) > 0
            => CPU!Overall(total) = CPU!Share(prevTotal, total))
  BY BusyShare DEF CPU!Overall, CPUInv, Percentages
<1>4. ASSUME NEW i \in DOMAIN CPU!Cores(cores) PROVE CPU!Cores(cores)[i] \in Percentages
  <2>1. i \in DOMAIN cores
        /\ CPU!Cores(cores)[i] = IF Len(cores) = Len(prevCores)
                                 THEN CPU!AtMost100(CPU!Busy(cores[i], prevCores[i])) ELSE 0
    BY DEF CPU!Cores
  <2>2. CASE Len(cores) = Len(prevCores)
    <3>1. cores[i] \in CPU!Samples /\ prevCores[i] \in CPU!Samples
      BY <1>2, <2>1, <2>2 DEF CPUInv
    <3>2. CPU!Busy(cores[i], prevCores[i]) \in Nat
      BY <3>1, BusyShare DEF Percentages
    <3> QED BY <2>1, <2>2, <3>2, Percentage
  <2>3. CASE Len(cores) # Len(prevCores)
    BY <2>1, <2>3 DEF Percentages
  <2> QED BY <2>2, <2>3
<1>5. prevCgroup' \in [usec : 0..MaxCounter, age : Nat]
  BY DEF CPU!SampleProc, CPU!Older, CPUInv
<1>6. /\ stats'.usage = CPU!Overall(total) /\ stats'.cores = CPU!Cores(cores)
  BY <1>1
<1> QED BY <1>1, <1>2, <1>3, <1>4, <1>5, <1>6 DEF CPUInv, Sampled

LEMMA FallbackStep ==
    ASSUME CPU!CounterConstants, CPUInv, CPU!SampleFallback
    PROVE  CPUInv' /\ Sampled
<1>1. PICK usec \in 0..MaxCounter, load \in Loads :
        LET used == IF usec = 0 THEN 0 ELSE CPU!CgroupUsage(usec)
        IN  /\ stats' = [from |-> "fallback", cores |-> <<>>,
                         usage |-> IF used > 0 THEN used ELSE CPU!FromLoad(load, NumCPU)]
            /\ prevCgroup' = IF usec = 0 THEN CPU!Older(prevCgroup)
                             ELSE [usec |-> usec, age |-> 1]
  BY DEF CPU!SampleFallback
<1> DEFINE used == IF usec = 0 THEN 0 ELSE CPU!CgroupUsage(usec)
<1>2. CPU!CgroupUsage(usec) \in Percentages
  <2> DEFINE cpu == CPU!Minus(usec, prevCgroup.usec)
  <2> DEFINE time == prevCgroup.age * NumCPU
  <2>1. cpu \in Nat
    <3>1. usec \in 0..(2 * MaxCounter) /\ prevCgroup.usec \in 0..(2 * MaxCounter)
      BY DEF CPUInv, CPU!CounterConstants
    <3> QED BY <3>1, Difference
  <2>2. CASE prevCgroup.usec > 0 /\ prevCgroup.age > 0
    <3>1. time \in Nat \ {0}
      BY <2>2 DEF CPUInv, CPU!CounterConstants
    <3> HIDE DEF cpu, time
    <3>2. 100 * cpu \in Nat
      BY <2>1
    <3>3. (100 * cpu) \div time \in Nat
      BY <3>1, <3>2
    <3> QED BY <2>2, <3>3, Percentage DEF CPU!CgroupUsage, cpu, time
  <2>3. CASE ~(prevCgroup.usec > 0 /\ prevCgroup.age > 0)
    BY <2>3 DEF CPU!CgroupUsage, Percentages
  <2> QED BY <2>2, <2>3
<1>3. CPU!FromLoad(load, NumCPU) \in Percentages
  <2>1. (100 * load) \div NumCPU \in Nat
    BY DEF CPU!CounterConstants
  <2> QED BY <2>1, Percentage DEF CPU!FromLoad
<1>4. stats'.usage \in Percentages /\ stats'.cores = <<>> /\ stats'.from = "fallback"
  BY <1>1, <1>2, <1>3
<1>5. prevCgroup' \in [usec : 0..MaxCounter, age : Nat]
  BY <1>1 DEF CPU!Older, CPUInv
<1>6. UNCHANGED <<prevTotal, prevCores>>
  BY DEF CPU!SampleFallback
<1> QED BY <1>4, <1>5, <1>6 DEF CPUInv, Sampled

\* Every step does.
LEMMA CPUStep ==
    ASSUME CPU!CounterConstants, CPUInv, [CPU!Next]_CPU!vars
    PROVE  CPUInv' /\ Sampled
<1>1. CASE CPU!Stop \/ CPU!LoopEnds \/ UNCHANGED CPU!vars
  <2>1. UNCHANGED <<prevTotal, prevCores, prevCgroup, stats>>
    BY <1>1 DEF CPU!Stop, CPU!LoopEnds, CPU!vars
  <2>2. CPU!Total(prevTotal) \in Nat
    BY TotalAdds DEF CPUInv, CPU!CounterConstants
  <2> QED BY <2>1, <2>2 DEF CPUInv, Sampled, CPU!Grows
<1> QED BY <1>1, ProcStep, FallbackStep DEF CPU!Next

\* The usages that are reported are percentages, whatever samples fail or go
\* back, and whenever the aggregate counters of /proc/stat have grown since the
\* last sample the usage is the share of busy time in between: the unsigned
\* differences do not wrap (cpu_monitor.go).
THEOREM UsageIsBusy == CPU!Spec => UsageIsBusyTime
<1> USE PartsAssumption
<1>1. CPU!Init => CPUInv
  BY CPUInit
<1>2. CPUInv /\ [CPU!Next]_CPU!vars => CPUInv' /\ Sampled
  BY CPUStep
<1> QED BY <1>1, <1>2, PTL
           DEF CPU!Spec, CPU!UsageIsBusyTime, Sampled, Percentages, UsageIsBusyTime

-----------------------------------------------------------------------------
(***************************************************************************)
(* ContactForm: the limiter of the contact form, for any addresses, burst  *)
(* and idle time.                                                          *)
(***************************************************************************)

\* The type of an address' entry.
BucketType == [there : BOOLEAN, tokens : 0..Burst, idle : Nat]

\* A bucket that is not full has filled by a token for every tick it was idle.
FillsWhileIdle ==
    /\ limiters \in [Addresses -> BucketType]
    /\ \A a \in Addresses :
          limiters[a].there => limiters[a].tokens = Burst
            \/ limiters[a].tokens >= limiters[a].idle

\* No address has an entry at first, and its bucket counts as full.
LEMMA ContactInit ==
    ASSUME Contact!ContactConstants, Contact!Init
    PROVE  FillsWhileIdle /\ Contact!Bucket!Init
<1>1. Contact!NoBucket \in BucketType
  BY DEF Contact!NoBucket, BucketType, Contact!ContactConstants
<1>2. FillsWhileIdle
  BY <1>1 DEF Contact!Init, FillsWhileIdle, Contact!NoBucket
<1>3. \A a \in Addresses : Contact!Held(a) = Burst
  BY DEF Contact!Init, Contact!Held, Contact!NoBucket
<1> QED BY <1>2, <1>3 DEF Contact!Bucket!Init, Contact!Bucket!Cap

\* Looking through the buckets forgets only full ones.
LEMMA ForgetsFull ==
    ASSUME Contact!ContactConstants, FillsWhileIdle, NEW a \in Addresses
    PROVE  /\ Contact!Evicted \in [Addresses -> BucketType]
           /\ Contact!Evicted[a].there => Contact!Evicted[a] = limiters[a]
           /\ Contact!Held(a) = IF Contact!Evicted[a].there THEN Contact!Evicted[a].tokens
                ELSE Burst
           /\ Contact!Held(a) \in 0..Burst
<1>1. Contact!NoBucket \in BucketType /\ ~Contact!NoBucket.there
  BY DEF Contact!NoBucket, BucketType, Contact!ContactConstants
<1>2. limiters[a] \in BucketType
  BY DEF FillsWhileIdle
<1>3. Contact!Held(a) \in 0..Burst
  BY <1>2 DEF Contact!Held, BucketType, Contact!ContactConstants
<1>4. CASE Contact!Evicted = limiters
  BY <1>2, <1>3, <1>4 DEF FillsWhileIdle, Contact!Held
<1>5. CASE Contact!Evicted = [x \in Addresses |-> IF Contact!Forgettable(x)
             THEN Contact!NoBucket ELSE limiters[x]]
  <2>1. Contact!Forgettable(a) /\ limiters[a].there => limiters[a].tokens = Burst
    BY <1>2 DEF Contact!Forgettable, FillsWhileIdle, BucketType, Contact!ContactConstants
  <2>2. Contact!Evicted \in [Addresses -> BucketType]
    BY <1>1, <1>5 DEF FillsWhileIdle
  <2>3. Contact!Evicted[a] = IF Contact!Forgettable(a) THEN Contact!NoBucket ELSE limiters[a]
    BY <1>5
  <2> QED BY <1>1, <1>2, <1>3, <2>1, <2>2, <2>3 DEF Contact!Held
<1> QED BY <1>4, <1>5 DEF Contact!Evicted

\* A message takes a token from the bucket of its address and of no other.
LEMMA MessageStep ==
    ASSUME Contact!ContactConstants, FillsWhileIdle, NEW a \in Addresses, Contact!SendMessage(a)
    PROVE  /\ FillsWhileIdle'
           /\ \A x \in Addresses \ {a} : Contact!Held(x)' = Contact!Held(x)
           /\ Contact!Held(a)' = IF Contact!Held(a) > 0 THEN Contact!Held(a) - 1 ELSE 0
<1> DEFINE new == [Contact!Entry(a) EXCEPT !.tokens = IF Contact!Allowed(a) THEN @ - 1 ELSE @]
<1>1. limiters' = [Contact!Evicted EXCEPT ![a] = new]
        /\ Contact!Evicted \in [Addresses -> BucketType]
  BY ForgetsFull DEF Contact!SendMessage, Contact!After
<1>2. Contact!Entry(a) \in BucketType /\ Contact!Entry(a).there
        /\ Contact!Entry(a).tokens = Contact!Held(a) /\ Contact!Entry(a).idle = 0
  <2>1. CASE Contact!Evicted[a].there
    BY <1>1, <2>1, ForgetsFull DEF Contact!Entry, BucketType, Contact!ContactConstants
  <2>2. CASE ~Contact!Evicted[a].there
    BY <2>2, ForgetsFull DEF Contact!Entry, BucketType, Contact!ContactConstants
  <2> QED BY <2>1, <2>2
<1>3. Contact!Held(a) \in 0..Burst /\ Burst \in Nat
  BY ForgetsFull DEF Contact!ContactConstants
<1>4. (IF Contact!Allowed(a) THEN Contact!Entry(a).tokens - 1 ELSE Contact!Entry(a).tokens)
        = (IF Contact!Held(a) > 0 THEN Contact!Held(a) - 1 ELSE 0)
      /\ (IF Contact!Held(a) > 0 THEN Contact!Held(a) - 1 ELSE 0) \in 0..Burst
  BY <1>2, <1>3 DEF Contact!Allowed
<1>5. new \in BucketType /\ new.there /\ new.idle = 0
      /\ new.tokens = (IF Contact!Held(a) > 0 THEN Contact!Held(a) - 1 ELSE 0)
  BY <1>2, <1>4 DEF BucketType
<1>6. limiters' \in [Addresses -> BucketType] /\ limiters'[a] = new
      /\ \A x \in Addresses \ {a} : limiters'[x] = Contact!Evicted[x]
  BY <1>1, <1>5
<1>7. FillsWhileIdle'
  <2>1. ASSUME NEW x \in Addresses, x # a, limiters'[x].there
        PROVE  limiters'[x].tokens = Burst \/ limiters'[x].tokens >= limiters'[x].idle
    BY <1>6, <2>1, ForgetsFull DEF FillsWhileIdle
  <2>2. limiters'[a].tokens >= limiters'[a].idle
    BY <1>4, <1>5, <1>6
  <2> QED BY <1>6, <2>1, <2>2 DEF FillsWhileIdle
<1>8. ASSUME NEW x \in Addresses, x # a PROVE Contact!Held(x)' = Contact!Held(x)
  BY <1>6, <1>8, ForgetsFull DEF Contact!Held
<1>9. Contact!Held(a)' = new.tokens
  BY <1>5, <1>6 DEF Contact!Held
<1> QED BY <1>5, <1>7, <1>8, <1>9

\* A tick adds one token to every bucket that has room, kept or forgotten.
LEMMA ContactTick ==
    ASSUME Contact!ContactConstants, FillsWhileIdle, Contact!Tick
    PROVE  /\ FillsWhileIdle'
           /\ \A a \in Addresses : Contact!Held(a)' = IF Contact!Held(a) < Burst
                                     THEN Contact!Held(a) + 1 ELSE Burst
<1> DEFINE Next1(a) ==
      IF ~limiters[a].there THEN Contact!NoBucket
      ELSE [limiters[a] EXCEPT !.tokens = IF @ < Burst THEN @ + 1 ELSE @,
                               !.idle = IF @ <= IdleFor THEN @ + 1 ELSE @]
<1>1. limiters' = [a \in Addresses |-> Next1(a)]
  BY DEF Contact!Tick
<1>2. ASSUME NEW a \in Addresses
      PROVE  /\ Next1(a) \in BucketType
             /\ Next1(a).there => Next1(a).tokens = Burst \/ Next1(a).tokens >= Next1(a).idle
             /\ (IF Next1(a).there THEN Next1(a).tokens ELSE Burst)
                  = IF Contact!Held(a) < Burst THEN Contact!Held(a) + 1 ELSE Burst
  <2>1. limiters[a] \in BucketType /\ Contact!NoBucket \in BucketType /\ ~Contact!NoBucket.there
    BY DEF FillsWhileIdle, Contact!NoBucket, BucketType, Contact!ContactConstants
  <2>2. CASE ~limiters[a].there
    BY <2>1, <2>2 DEF Contact!Held, Contact!ContactConstants
  <2>3. CASE limiters[a].there
    <3> DEFINE fill == IF limiters[a].tokens < Burst THEN limiters[a].tokens + 1
                       ELSE limiters[a].tokens
    <3> DEFINE rest == IF limiters[a].idle <= IdleFor THEN limiters[a].idle + 1
                       ELSE limiters[a].idle
    <3>1. /\ limiters[a].tokens \in 0..Burst /\ limiters[a].idle \in Nat
          /\ limiters[a].tokens = Burst \/ limiters[a].tokens >= limiters[a].idle
      BY <2>1, <2>3 DEF FillsWhileIdle, BucketType
    <3>2. fill \in 0..Burst /\ rest \in Nat /\ (fill = Burst \/ fill >= rest)
          /\ fill = IF limiters[a].tokens < Burst THEN limiters[a].tokens + 1 ELSE Burst
      BY <3>1 DEF Contact!ContactConstants
    <3>3. Next1(a) = [limiters[a] EXCEPT !.tokens = fill, !.idle = rest]
      BY <2>3
    <3>4. Next1(a) \in BucketType /\ Next1(a).there /\ Next1(a).tokens = fill
          /\ Next1(a).idle = rest
      <4> HIDE DEF fill, rest, Next1
      <4> QED BY <2>1, <2>3, <3>2, <3>3 DEF BucketType
    <3> QED BY <2>3, <3>2, <3>4 DEF Contact!Held
  <2> QED BY <2>2, <2>3
<1> HIDE DEF Next1
<1>3. FillsWhileIdle'
  BY <1>1, <1>2 DEF FillsWhileIdle
<1>4. ASSUME NEW a \in Addresses
      PROVE  Contact!Held(a)' = IF Contact!Held(a) < Burst THEN Contact!Held(a) + 1 ELSE Burst
  BY <1>1, <1>2 DEF Contact!Held
<1> QED BY <1>3, <1>4

\* So a step lets a token go, refills the buckets or leaves them alone.
LEMMA ContactStep ==
    ASSUME Contact!ContactConstants, FillsWhileIdle, [Contact!Next]_Contact!vars
    PROVE  /\ FillsWhileIdle'
           /\ \/ \A a \in Addresses : Contact!Held(a)' = Contact!Held(a)
              \/ \A a \in Addresses : Contact!Held(a)' = IF Contact!Held(a) < Burst
                                        THEN Contact!Held(a) + 1 ELSE Burst
              \/ \E a \in Addresses :
                    /\ Contact!Held(a) > 0 /\ Contact!Held(a)' = Contact!Held(a) - 1
                    /\ \A x \in Addresses \ {a} : Contact!Held(x)' = Contact!Held(x)
<1>1. ASSUME NEW a \in Addresses, Contact!SendMessage(a)
      PROVE  /\ FillsWhileIdle'
             /\ \A x \in Addresses \ {a} : Contact!Held(x)' = Contact!Held(x)
             /\ Contact!Held(a)' = IF Contact!Held(a) > 0 THEN Contact!Held(a) - 1
                  ELSE Contact!Held(a)
  <2>1. Contact!Held(a) \in 0..Burst
    BY ForgetsFull
  <2> QED BY <1>1, <2>1, MessageStep DEF Contact!ContactConstants
<1>2. CASE Contact!Tick
  BY <1>2, ContactTick
<1>3. CASE UNCHANGED limiters
  BY <1>3 DEF FillsWhileIdle, Contact!Held
<1>4. Contact!Handle \/ (\E m \in messages : Contact!DeleteSubmission(m))
        \/ UNCHANGED Contact!vars => UNCHANGED limiters
  BY DEF Contact!Handle, Contact!DeleteSubmission, Contact!vars
<1> QED BY <1>1, <1>2, <1>3, <1>4 DEF Contact!Next

\* A step that changes what the addresses hold in one of these ways is one of
\* the abstract buckets.
LEMMA BucketStep ==
    ASSUME Contact!ContactConstants, FillsWhileIdle, [Contact!Next]_Contact!vars
    PROVE  [Contact!Bucket!Next]_[a \in Addresses |-> Burst * Contact!Held(a)]
<1>1. \A a \in Addresses : Contact!Held(a) \in 0..Burst
  BY ForgetsFull
<1>2. Burst \in Nat \ {0}
  BY DEF Contact!ContactConstants
<1> DEFINE units == [a \in Addresses |-> Burst * Contact!Held(a)]
<1>3. units' = [a \in Addresses |-> Burst * Contact!Held(a)']
  OBVIOUS
<1>4. CASE \A a \in Addresses : Contact!Held(a)' = Contact!Held(a)
  BY <1>3, <1>4
<1>5. CASE \A a \in Addresses : Contact!Held(a)' = IF Contact!Held(a) < Burst
                                  THEN Contact!Held(a) + 1 ELSE Burst
  <2>1. ASSUME NEW n \in 0..Burst
        PROVE  Burst * (IF n < Burst THEN n + 1 ELSE Burst)
                 = IF Burst * n + Burst < Burst * Burst THEN Burst * n + Burst
                   ELSE Burst * Burst
    <3>1. CASE n + 1 < Burst
      <4>1. Burst * (n + 1) = Burst * n + Burst /\ Burst * n + Burst < Burst * Burst
        BY <1>2, <3>1
      <4> QED BY <1>2, <3>1, <4>1
    <3>2. CASE n + 1 = Burst
      <4>1. Burst * (n + 1) = Burst * n + Burst /\ Burst * (n + 1) = Burst * Burst
        BY <1>2, <3>2
      <4> QED BY <1>2, <3>2, <4>1
    <3>3. CASE n = Burst
      <4>1. ~(Burst * n + Burst < Burst * Burst)
        BY <1>2, <3>3
      <4> QED BY <1>2, <3>3, <4>1
    <3> QED BY <1>2, <3>1, <3>2, <3>3
  <2>2. ASSUME NEW a \in Addresses
        PROVE  Burst * Contact!Held(a)' = Contact!Bucket!Refilled(a, units[a])
    BY <1>1, <1>5, <2>1 DEF Contact!Bucket!Refilled, Contact!Bucket!Cap
  <2>3. Contact!Bucket!Tick
    BY <1>3, <2>2 DEF Contact!Bucket!Tick
  <2> QED BY <2>3 DEF Contact!Bucket!Next
<1>6. ASSUME NEW a \in Addresses, Contact!Held(a) > 0, Contact!Held(a)' = Contact!Held(a) - 1,
             \A x \in Addresses \ {a} : Contact!Held(x)' = Contact!Held(x)
      PROVE  Contact!Bucket!Take(a)
  <2>1. Burst * Contact!Held(a)' = Burst * Contact!Held(a) - Burst
          /\ Burst * Contact!Held(a) >= Burst
    BY <1>1, <1>2, <1>6
  <2>2. units' = [units EXCEPT ![a] = @ - Burst] /\ units[a] >= Burst
    BY <1>3, <1>6, <2>1
  <2> QED BY <2>2 DEF Contact!Bucket!Take
<1> QED BY <1>4, <1>5, <1>6, ContactStep DEF Contact!Bucket!Next

\* The limiter of the contact form implements one token bucket per address: the
\* entries it forgets are full, and an address that comes back is allowed exactly
\* what it would have been with an entry kept for ever.
THEOREM ContactImplementsBuckets == Contact!Spec => AddressHasItsBucket
<1> USE PartsAssumption
<1>1. Contact!Init => FillsWhileIdle /\ Contact!Bucket!Init
  BY ContactInit
<1>2. FillsWhileIdle /\ [Contact!Next]_Contact!vars
        => FillsWhileIdle' /\ [Contact!Bucket!Next]_[a \in Addresses |-> Burst * Contact!Held(a)]
  BY ContactStep, BucketStep
<1> QED BY <1>1, <1>2, PTL
           DEF Contact!Spec, Contact!AddressHasItsBucket, Contact!Bucket!Spec,
               AddressHasItsBucket

-----------------------------------------------------------------------------
(* Analytics: sums over the groups of a query. *)

\* Numbers, smaller ones first.
Less == {p \in Nat \X Nat : p[1] < p[2]}

\* A set of numbers that is not empty has a smallest one.
LEMMA LeastNumber ==
    ASSUME NEW S \in SUBSET Nat, S # {}
    PROVE  \E x \in S : \A y \in S : x <= y
<1>1. IsWellFoundedOn(Less, Nat)
  <2>1. Less = OpToRel(<, Nat)
    BY DEF Less, OpToRel
  <2> QED BY <2>1, NatLessThanWellFounded, Zenon
<1>2. PICK x \in S : \A y \in S : ~ (<<y, x>> \in Less)
  BY <1>1, WFMin
<1>3. ASSUME NEW y \in S PROVE x <= y
  <2>1. x \in Nat /\ y \in Nat /\ ~ (<<y, x>> \in Less)
    BY <1>2
  <2>2. ~ (y < x)
    BY <2>1 DEF Less
  <2> QED BY <2>1, <2>2
<1> QED BY <1>3

\* Induction, with a set for the numbers that have the property: the prover
\* cannot instantiate a theorem that takes the property as an operator.
LEMMA NatSetInduction ==
    ASSUME NEW S, 0 \in S, \A n \in Nat : n \in S => n + 1 \in S
    PROVE  Nat \subseteq S
<1>1. SUFFICES ASSUME Nat \ S # {} PROVE FALSE
  OBVIOUS
<1>2. PICK x \in Nat \ S : \A y \in Nat \ S : x <= y
  BY <1>1, LeastNumber
<1>3. x # 0 /\ x - 1 \in Nat
  BY <1>2
<1> QED BY <1>2, <1>3

\* h folds step over the subsets of S, taking pick[T] out of T first.
Folded(h, S, base, step, pick) ==
    \A T \in SUBSET S :
        h[T] = IF T = {} THEN base ELSE step[<<pick[T], h[T \ {pick[T]}]>>]

\* Over a finite set there is such a function, built up over the size of the
\* subsets: what a function defined by recursion over sets needs to have its
\* equation.
LEMMA FoldExists ==
    ASSUME NEW S, IsFiniteSet(S), NEW V, NEW base \in V,
           NEW step \in [S \X V -> V], NEW pick,
           \A T \in SUBSET S : T # {} => pick[T] \in T
    PROVE  \E h \in [SUBSET S -> V] : Folded(h, S, base, step, pick)
<1> DEFINE Folds(h, n) == \A T \in SUBSET S : Cardinality(T) <= n =>
              h[T] = IF T = {} THEN base ELSE step[<<pick[T], h[T \ {pick[T]}]>>]
           N == {n \in Nat : \E h \in [SUBSET S -> V] : Folds(h, n)}
<1>0. Cardinality({}) = 0
  BY FS_EmptySet
<1>1. \A T \in SUBSET S : IsFiniteSet(T) /\ Cardinality(T) \in Nat
  BY FS_Subset, FS_CardinalityType
<1>2. ASSUME NEW T \in SUBSET S, T # {}
      PROVE  /\ T \ {pick[T]} \in SUBSET S
             /\ Cardinality(T \ {pick[T]}) = Cardinality(T) - 1
  BY <1>1, <1>2, FS_RemoveElement
<1>3. 0 \in N
  <2> DEFINE h == [T \in SUBSET S |-> base]
  <2>1. \A T \in SUBSET S : Cardinality(T) <= 0 => T = {}
    BY <1>1, FS_EmptySet
  <2>2. h \in [SUBSET S -> V] /\ Folds(h, 0)
    BY <2>1
  <2> QED BY <2>2
<1>4. ASSUME NEW n \in Nat, n \in N PROVE n + 1 \in N
  <2>1. PICK h \in [SUBSET S -> V] : Folds(h, n)
    BY <1>4
  <2> DEFINE k == [T \in SUBSET S |->
                IF Cardinality(T) = n + 1 THEN step[<<pick[T], h[T \ {pick[T]}]>>] ELSE h[T]]
  <2>2. k \in [SUBSET S -> V]
    <3>1. ASSUME NEW T \in SUBSET S, Cardinality(T) = n + 1
          PROVE  step[<<pick[T], h[T \ {pick[T]}]>>] \in V
      <4>1. T # {}
        <5>1. Cardinality(T) # 0
          BY <3>1
        <5> QED BY <1>0, <5>1
      <4>2. pick[T] \in S /\ h[T \ {pick[T]}] \in V
        BY <1>2, <4>1
      <4> QED BY <4>2
    <3> QED BY <3>1
  <2>3. ASSUME NEW T \in SUBSET S, Cardinality(T) <= n + 1
        PROVE  k[T] = IF T = {} THEN base ELSE step[<<pick[T], k[T \ {pick[T]}]>>]
    <3>1. CASE T = {}
      BY <2>1, <3>1, FS_EmptySet
    <3>2. CASE T # {}
      <4>1. k[T \ {pick[T]}] = h[T \ {pick[T]}]
        BY <1>1, <1>2, <2>3, <3>2
      <4>2. CASE Cardinality(T) = n + 1
        BY <3>2, <4>1, <4>2
      <4>3. CASE Cardinality(T) # n + 1
        BY <1>1, <2>1, <2>3, <3>2, <4>1, <4>3
      <4> QED BY <4>2, <4>3
    <3> QED BY <3>1, <3>2
  <2>4. Folds(k, n + 1)
    BY <2>3
  <2> HIDE DEF k, Folds
  <2> QED BY <2>2, <2>4
<1>5. Cardinality(S) \in N
  <2> HIDE DEF N
  <2> QED BY <1>1, <1>3, <1>4, NatSetInduction
<1>6. PICK h \in [SUBSET S -> V] : Folds(h, Cardinality(S))
  BY <1>5
<1>7. \A T \in SUBSET S : Cardinality(T) <= Cardinality(S)
  BY FS_Subset
<1>8. Folded(h, S, base, step, pick)
  BY <1>6, <1>7 DEF Folded
<1> QED BY <1>8

\* The element the library's folds over a set take first.
Some(T) == CHOOSE x \in T : TRUE

\* h[T] is the sum of v over T.
Sums(v, h) ==
    h = [T \in SUBSET DOMAIN v |-> IF T = {} THEN 0 ELSE v[Some(T)] + h[T \ {Some(T)}]]

\* Sums over a finite set of groups exist ...
LEMMA SumsExist ==
    ASSUME NEW S, IsFiniteSet(S), NEW v \in [S -> Nat]
    PROVE  \E h \in [SUBSET S -> Nat] : Sums(v, h)
<1> DEFINE pick == [T \in SUBSET S |-> Some(T)]
           step == [p \in S \X Nat |-> v[p[1]] + p[2]]
<1>1. \A T \in SUBSET S : T # {} => pick[T] \in T
  BY DEF Some
<1>2. step \in [S \X Nat -> Nat]
  OBVIOUS
<1>3. PICK h \in [SUBSET S -> Nat] : Folded(h, S, 0, step, pick)
  <2> HIDE DEF step, pick
  <2>1. 0 \in Nat
    OBVIOUS
  <2> QED BY <1>1, <1>2, <2>1, FoldExists
<1>4. ASSUME NEW T \in SUBSET S, T # {}
      PROVE  h[T] = v[Some(T)] + h[T \ {Some(T)}]
  <2>1. pick[T] = Some(T) /\ <<Some(T), h[T \ {Some(T)}]>> \in S \X Nat
    BY <1>1, <1>3, <1>4
  <2>2. h[T] = step[<<Some(T), h[T \ {Some(T)}]>>]
    <3> HIDE DEF step, pick
    <3> QED BY <1>3, <1>4, <2>1 DEF Folded
  <2> HIDE DEF pick
  <2> QED BY <2>1, <2>2
<1>5. Sums(v, h)
  BY <1>3, <1>4 DEF Sums, Folded
<1> QED BY <1>5

\* Induction over the subsets of a finite set, one element at a time.
LEMMA SubsetInduction ==
    ASSUME NEW S, IsFiniteSet(S), NEW Q, {} \in Q,
           \A T \in SUBSET S : T # {} /\ T \ {Some(T)} \in Q => T \in Q
    PROVE  \A T \in SUBSET S : T \in Q
<1> DEFINE N == {n \in Nat : \A T \in SUBSET S : Cardinality(T) = n => T \in Q}
<1>1. \A T \in SUBSET S : IsFiniteSet(T) /\ Cardinality(T) \in Nat
  BY FS_Subset, FS_CardinalityType
<1>2. 0 \in N
  BY <1>1, FS_EmptySet
<1>3. ASSUME NEW n \in Nat, n \in N PROVE n + 1 \in N
  <2>1. SUFFICES ASSUME NEW T \in SUBSET S, Cardinality(T) = n + 1 PROVE T \in Q
    OBVIOUS
  <2>2. CASE T = {}
    BY <2>2
  <2>3. CASE T # {}
    <3>1. Some(T) \in T
      BY <2>3 DEF Some
    <3>2. T \ {Some(T)} \in SUBSET S /\ Cardinality(T \ {Some(T)}) = n
      BY <1>1, <2>1, <3>1, FS_RemoveElement
    <3> QED BY <1>3, <2>3, <3>2
  <2> QED BY <2>2, <2>3
<1>4. Nat \subseteq N
  <2> HIDE DEF N
  <2> QED BY <1>2, <1>3, NatSetInduction
<1> QED BY <1>1, <1>4

\* ... and are numbers.
LEMMA SumsType ==
    ASSUME NEW S, IsFiniteSet(S), NEW v \in [S -> Nat], NEW h, Sums(v, h)
    PROVE  h \in [SUBSET S -> Nat]
<1> DEFINE Q == {T \in SUBSET S : h[T] \in Nat}
<1>1. {} \in Q
  BY DEF Sums
<1>2. ASSUME NEW T \in SUBSET S, T # {}, T \ {Some(T)} \in Q PROVE T \in Q
  <2>1. Some(T) \in T
    BY <1>2 DEF Some
  <2>2. h[T] = v[Some(T)] + h[T \ {Some(T)}]
    BY <1>2 DEF Sums
  <2> QED BY <1>2, <2>1, <2>2
<1>3. \A T \in SUBSET S : T \in Q
  <2> HIDE DEF Q
  <2> QED BY <1>1, <1>2, SubsetInduction
<1> QED BY <1>3 DEF Sums

\* The sum of a section's views is the library's fold over its groups.
LEMMA ViewsSum ==
    ASSUME NEW s, IsFiniteSet(DOMAIN s), \A g \in DOMAIN s : s[g].views \in Nat
    PROVE  \E h \in [SUBSET DOMAIN s -> Nat] :
              /\ Sums([g \in DOMAIN s |-> s[g].views], h)
              /\ Views!MapThenSumSet(LAMBDA g : s[g].views, DOMAIN s) = h[DOMAIN s]
<1> DEFINE v == [g \in DOMAIN s |-> s[g].views]
           P(h) == h = [T \in SUBSET DOMAIN s |-> IF T = {} THEN 0 ELSE
                     s[CHOOSE x \in T : TRUE].views + h[T \ {CHOOSE x \in T : TRUE}]]
<1>1. PICK h \in [SUBSET DOMAIN s -> Nat] : Sums(v, h)
  BY SumsExist
<1>2. P(h)
  BY <1>1 DEF Sums, Some
<1> DEFINE k == CHOOSE h_1 : P(h_1)
<1>3. P(k)
  <2> HIDE DEF P
  <2> QED BY <1>2
<1>4. Views!MapThenSumSet(LAMBDA g : s[g].views, DOMAIN s) = k[DOMAIN s]
  BY DEF Views!MapThenSumSet, Views!MapThenFoldSet
<1>5. Sums(v, k)
  <2> HIDE DEF k
  <2> QED BY <1>3 DEF Sums, Some
<1>6. k \in [SUBSET DOMAIN s -> Nat]
  <2>1. v \in [DOMAIN s -> Nat]
    OBVIOUS
  <2> HIDE DEF k, v
  <2> QED BY <1>5, <2>1, SumsType
<1> QED BY <1>4, <1>5, <1>6

\* The same for its shares.
LEMMA SharesSum ==
    ASSUME NEW s, IsFiniteSet(DOMAIN s), \A g \in DOMAIN s : s[g].share \in Nat
    PROVE  \E h \in [SUBSET DOMAIN s -> Nat] :
              /\ Sums([g \in DOMAIN s |-> s[g].share], h)
              /\ Views!MapThenSumSet(LAMBDA g : s[g].share, DOMAIN s) = h[DOMAIN s]
<1> DEFINE v == [g \in DOMAIN s |-> s[g].share]
           P(h) == h = [T \in SUBSET DOMAIN s |-> IF T = {} THEN 0 ELSE
                     s[CHOOSE x \in T : TRUE].share + h[T \ {CHOOSE x \in T : TRUE}]]
<1>1. PICK h \in [SUBSET DOMAIN s -> Nat] : Sums(v, h)
  BY SumsExist
<1>2. P(h)
  BY <1>1 DEF Sums, Some
<1> DEFINE k == CHOOSE h_1 : P(h_1)
<1>3. P(k)
  <2> HIDE DEF P
  <2> QED BY <1>2
<1>4. Views!MapThenSumSet(LAMBDA g : s[g].share, DOMAIN s) = k[DOMAIN s]
  BY DEF Views!MapThenSumSet, Views!MapThenFoldSet
<1>5. Sums(v, k)
  <2> HIDE DEF k
  <2> QED BY <1>3 DEF Sums, Some
<1>6. k \in [SUBSET DOMAIN s -> Nat]
  <2>1. v \in [DOMAIN s -> Nat]
    OBVIOUS
  <2> HIDE DEF k, v
  <2> QED BY <1>5, <2>1, SumsType
<1> QED BY <1>4, <1>5, <1>6

\* Groups by the value of a column: the sizes of some groups add up to the number
\* of rows in them.
LEMMA ClassesAddUp ==
    ASSUME NEW ids, IsFiniteSet(ids), NEW c,
           NEW S, IsFiniteSet(S), NEW v \in [S -> Nat],
           \A g \in S : v[g] = Cardinality({i \in ids : c[i] = g}),
           NEW h, Sums(v, h)
    PROVE  \A T \in SUBSET S : h[T] = Cardinality({i \in ids : c[i] \in T})
<1> DEFINE In(T) == {i \in ids : c[i] \in T}
           Q == {T \in SUBSET S : h[T] = Cardinality(In(T))}
<1>1. {} \in Q
  <2>1. In({}) = {}
    OBVIOUS
  <2>2. Cardinality(In({})) = 0
    BY <2>1, FS_EmptySet
  <2>3. h[{}] = 0
    BY DEF Sums
  <2> QED BY <2>2, <2>3
<1>2. ASSUME NEW T \in SUBSET S, T # {}, T \ {Some(T)} \in Q PROVE T \in Q
  <2> DEFINE x == Some(T)
             A == In(T \ {x})
             B == {i \in ids : c[i] = x}
  <2>1. x \in T
    BY <1>2 DEF Some
  <2>2. h[T] = v[x] + h[T \ {x}]
    BY <1>2 DEF Sums
  <2>3. In(T) = A \cup B /\ A \cap B = {}
    BY <2>1
  <2>4. IsFiniteSet(A) /\ IsFiniteSet(B)
    BY FS_Subset
  <2>5. Cardinality(A \cup B) = Cardinality(A) + Cardinality(B)
    <3> HIDE DEF A, B
    <3>1. Cardinality(A \cap B) = 0
      BY <2>3, FS_EmptySet
    <3>2. Cardinality(A) \in Nat /\ Cardinality(B) \in Nat
      BY <2>4, FS_CardinalityType
    <3>3. Cardinality(A \cup B) = Cardinality(A) + Cardinality(B) - Cardinality(A \cap B)
      BY <2>4, FS_Union
    <3> QED BY <3>1, <3>2, <3>3
  <2>6. v[x] = Cardinality(B) /\ h[T \ {x}] = Cardinality(A)
    BY <1>2, <2>1
  <2>7. Cardinality(A) \in Nat /\ Cardinality(B) \in Nat
    BY <2>4, FS_CardinalityType
  <2>8. h[T] = Cardinality(In(T))
    <3> HIDE DEF A, B, In, x
    <3> QED BY <2>2, <2>3, <2>5, <2>6, <2>7
  <2> QED BY <2>8
<1>3. \A T \in SUBSET S : T \in Q
  <2> HIDE DEF Q
  <2> QED BY <1>1, <1>2, SubsetInduction
<1> QED BY <1>3

\* Shares that are rounded down add up to no more than the whole, and lack less
\* than one for each group.
LEMMA SharesAddUp ==
    ASSUME NEW S, IsFiniteSet(S), NEW total \in Nat \ {0},
           NEW v \in [S -> Nat], NEW w \in [S -> Nat],
           \A g \in S : w[g] = (100 * v[g]) \div total,
           NEW h, Sums(v, h), NEW k, Sums(w, k)
    PROVE  \A T \in SUBSET S :
              /\ total * k[T] <= 100 * h[T]
              /\ T # {} => 100 * h[T] < total * k[T] + total * Cardinality(T)
<1> DEFINE Low(T) == total * k[T] <= 100 * h[T]
           High(T) == 100 * h[T] < total * k[T] + total * Cardinality(T)
           Q == {T \in SUBSET S : Low(T) /\ (T # {} => High(T))}
<1>0. h \in [SUBSET S -> Nat] /\ k \in [SUBSET S -> Nat]
  BY SumsType
<1>1. {} \in Q
  <2>1. h[{}] = 0 /\ k[{}] = 0
    BY DEF Sums
  <2> QED BY <2>1
<1>2. ASSUME NEW T \in SUBSET S, T # {}, T \ {Some(T)} \in Q PROVE T \in Q
  <2> DEFINE x == Some(T)
             R == T \ {x}
  <2>1. x \in T
    BY <1>2 DEF Some
  <2>2. h[T] = v[x] + h[R] /\ k[T] = w[x] + k[R]
    BY <1>2 DEF Sums
  <2>3. /\ h[R] \in Nat /\ k[R] \in Nat /\ v[x] \in Nat /\ w[x] \in Nat
    BY <1>0, <2>1
  <2>4. total * w[x] <= 100 * v[x] /\ 100 * v[x] < total * w[x] + total
    <3>1. ASSUME NEW n \in Nat
          PROVE  total * (n \div total) <= n /\ n < total * (n \div total) + total
      OBVIOUS
    <3>2. 100 * v[x] \in Nat
      BY <2>3
    <3> QED BY <2>1, <3>1, <3>2
  <2>5. IsFiniteSet(T) /\ Cardinality(T) \in Nat /\ Cardinality(R) = Cardinality(T) - 1
    BY <2>1, FS_Subset, FS_CardinalityType, FS_RemoveElement
  <2>6. total * k[T] = total * w[x] + total * k[R]
    BY <2>2, <2>3
  <2>7. total * Cardinality(T) = total * Cardinality(R) + total
    BY <2>5
  <2>8. total * k[R] <= 100 * h[R] /\ (R # {} => 100 * h[R] < total * k[R] + total * Cardinality(R))
    BY <1>2
  <2>9. R = {} => h[R] = 0 /\ k[R] = 0 /\ Cardinality(R) = 0
    BY FS_EmptySet DEF Sums
  <2>10. total * k[R] \in Nat /\ total * w[x] \in Nat /\ total * Cardinality(R) \in Nat
    <3>1. R \subseteq S /\ IsFiniteSet(R) /\ Cardinality(R) \in Nat
      BY FS_Subset, FS_CardinalityType
    <3>2. \A m \in Nat : total * m \in Nat
      OBVIOUS
    <3> QED BY <2>3, <3>1, <3>2
  <2>11. /\ 100 * h[T] = 100 * v[x] + 100 * h[R]
         /\ 100 * v[x] \in Nat /\ 100 * h[R] \in Nat
    BY <2>2, <2>3
  <2>12. total * k[T] <= 100 * h[T]
    BY <2>4, <2>6, <2>8, <2>10, <2>11
  <2>13. 100 * h[T] < total * k[T] + total * Cardinality(T)
    <3>1. CASE R = {}
      <4>1. total * k[R] = 0 /\ 100 * h[R] = 0 /\ total * Cardinality(R) = 0
        BY <2>9, <3>1
      <4> QED BY <2>4, <2>6, <2>7, <2>10, <2>11, <4>1
    <3>2. CASE R # {}
      BY <2>4, <2>6, <2>7, <2>8, <2>10, <2>11, <3>2
    <3> QED BY <3>1, <3>2
  <2> QED BY <2>12, <2>13
<1>3. \A T \in SUBSET S : T \in Q
  <2> HIDE DEF Q
  <2> QED BY <1>1, <1>2, SubsetInduction
<1> QED BY <1>3
-----------------------------------------------------------------------------
(* Analytics: the report. *)

\* Views has its own instance of FiniteSets.
LEMMA SameCardinality == ASSUME NEW S PROVE Views!Cardinality(S) = Cardinality(S)
BY DEF Views!Cardinality, Cardinality

\* The sums of a section, as the report's readers form them.
SumOf(section) == Views!MapThenSumSet(LAMBDA g : section[g].views, DOMAIN section)
SharesOf(section) == Views!MapThenSumSet(LAMBDA c : section[c].share, DOMAIN section)

\* Finitely many groups, none with more visitors than views.
Numbered(section) ==
    /\ IsFiniteSet(DOMAIN section)
    /\ \A g \in DOMAIN section :
          /\ section[g].views \in Nat /\ section[g].unique \in Nat
          /\ section[g].unique <= section[g].views

\* Where the report stands: a sequence that is as long as the queries asked.
ReportShape ==
    /\ rows \in Seq(PageViews)
    /\ \E R : report \in Seq(R)
    /\ next \in 0 .. Views!Queries /\ broken \in 0 .. Views!Queries
    /\ next > 0 => Len(report) = next - 1 /\ broken < next

\* The sections that divide the views, and the views the filter selects now.
Asked(n) == n \in Views!Divisions \cap DOMAIN report
Present == Cardinality(Views!Filtered(site))

\* Every section of the report.
AllNumbered == \A n \in DOMAIN report : Numbered(report[n])

\* A list as long as its limit, from which groups may be missing.
FullList(n, section) == n \in DOMAIN Limit /\ Cardinality(DOMAIN section) >= Limit[n]

\* No division has more than is there now, so that the next one has no less.
BelowPresent == \A n : Asked(n) => SumOf(report[n]) <= Present
Growing ==
    \A m, n : /\ Asked(m) /\ Asked(n) /\ m < n
              /\ n # broken /\ ~FullList(n, report[n])
              => SumOf(report[m]) <= SumOf(report[n])
BelowSites ==
    10 \in DOMAIN report /\ broken # 10 =>
        \A n : Asked(n) /\ n < 10 => SumOf(report[n]) <= SumOf(report[10])

\* What the shares are shares of.
FirstIsTotal ==
    1 \in DOMAIN report =>
        /\ report[1][Everywhere].views \in Nat
        /\ SumOf(report[1]) = report[1][Everywhere].views
ShareOf(views, total) == IF total > 0 THEN (100 * views) \div total ELSE 0
SharesOfTotal ==
    9 \in DOMAIN report =>
        \A c \in DOMAIN report[9] :
            report[9][c].share = ShareOf(report[9][c].views, report[1][Everywhere].views)

\* The inductive invariant of the statistics.
AnalyticsInv ==
    /\ ReportShape /\ AllNumbered /\ BelowPresent /\ Growing /\ BelowSites
    /\ FirstIsTotal /\ SharesOfTotal

\* A sum of views is a number.
LEMMA SumIsNat == ASSUME NEW section, Numbered(section) PROVE SumOf(section) \in Nat
<1>1. \E h \in [SUBSET DOMAIN section -> Nat] : SumOf(section) = h[DOMAIN section]
  BY ViewsSum DEF Numbered, SumOf
<1> QED BY <1>1

\* The table is finite.
LEMMA RowsFinite ==
    ASSUME rows \in Seq(PageViews), NEW ids \in SUBSET DOMAIN rows
    PROVE  IsFiniteSet(ids) /\ Cardinality(ids) \in Nat
<1>1. DOMAIN rows = 1..Len(rows) /\ Len(rows) \in Nat
  OBVIOUS
<1>2. IsFiniteSet(DOMAIN rows)
  BY <1>1, FS_Interval
<1> QED BY <1>2, FS_Subset, FS_CardinalityType

\* Of some views there are no more visitors than views.
LEMMA NumbersFacts ==
    ASSUME rows \in Seq(PageViews), NEW ids \in SUBSET DOMAIN rows
    PROVE  /\ Views!Numbers(ids).views = Cardinality(ids)
           /\ Views!Numbers(ids).views \in Nat /\ Views!Numbers(ids).unique \in Nat
           /\ Views!Numbers(ids).unique <= Views!Numbers(ids).views
<1> DEFINE first == {i \in ids : \/ rows[i].session = None
                                 \/ \A j \in ids : j < i => rows[j].session # rows[i].session}
<1>1. Views!Numbers(ids).views = Cardinality(ids) /\ Views!Numbers(ids).unique = Cardinality(first)
  BY SameCardinality DEF Views!Numbers, Views!Unique
<1>2. first \in SUBSET ids
  OBVIOUS
<1>3. IsFiniteSet(ids) /\ Cardinality(ids) \in Nat
  BY RowsFinite
<1>4. Cardinality(first) \in Nat /\ Cardinality(first) <= Cardinality(ids)
  <2> HIDE DEF first
  <2> QED BY <1>2, <1>3, FS_Subset, FS_CardinalityType
<1> QED BY <1>1, <1>3, <1>4

\* Some of the groups of some views, with whatever else they carry.
LEMMA GroupsAddUp ==
    ASSUME rows \in Seq(PageViews), NEW ids \in SUBSET DOMAIN rows, NEW column,
           NEW section, DOMAIN section \subseteq {rows[i][column] : i \in ids},
           \A g \in DOMAIN section :
              LET numbers == Views!Numbers({i \in ids : rows[i][column] = g})
              IN  section[g].views = numbers.views /\ section[g].unique = numbers.unique
    PROVE  /\ Numbered(section)
           /\ SumOf(section) \in Nat /\ SumOf(section) <= Cardinality(ids)
           /\ DOMAIN section = {rows[i][column] : i \in ids} => SumOf(section) = Cardinality(ids)
<1> DEFINE S == DOMAIN section
           c == [i \in ids |-> rows[i][column]]
           v == [g \in S |-> section[g].views]
           Class(g) == {i \in ids : rows[i][column] = g}
<1>1. IsFiniteSet(ids) /\ Cardinality(ids) \in Nat
  BY RowsFinite
<1>2. IsFiniteSet(S)
  <2> DEFINE V == {rows[i][column] : i \in ids}
  <2>1. c \in Surjection(ids, V)
    BY DEF Surjection
  <2>2. IsFiniteSet(V)
    <3> HIDE DEF c, V
    <3> QED BY <1>1, <2>1, FS_Surjection
  <2> QED BY <2>2, FS_Subset
<1>3. ASSUME NEW g \in S
      PROVE  /\ section[g].views = Cardinality(Class(g))
             /\ section[g].views \in Nat /\ section[g].unique \in Nat
             /\ section[g].unique <= section[g].views
  <2>1. Class(g) \in SUBSET DOMAIN rows
    OBVIOUS
  <2>2. /\ section[g].views = Views!Numbers(Class(g)).views
        /\ section[g].unique = Views!Numbers(Class(g)).unique
    BY <1>3
  <2> HIDE DEF Class
  <2> QED BY <2>1, <2>2, NumbersFacts
<1>4. Numbered(section)
  BY <1>2, <1>3 DEF Numbered
<1>5. PICK h \in [SUBSET S -> Nat] : Sums(v, h) /\ SumOf(section) = h[S]
  BY <1>2, <1>3, ViewsSum DEF SumOf
<1>6. h[S] = Cardinality({i \in ids : c[i] \in S})
  <2>1. v \in [S -> Nat]
    BY <1>3
  <2>2. \A g \in S : v[g] = Cardinality({i \in ids : c[i] = g})
    <3>1. ASSUME NEW g \in S PROVE Class(g) = {i \in ids : c[i] = g}
      OBVIOUS
    <3> QED BY <1>3, <3>1
  <2> HIDE DEF v, S, c
  <2> QED BY <1>1, <1>2, <1>5, <2>1, <2>2, ClassesAddUp
<1>7. /\ Cardinality({i \in ids : c[i] \in S}) \in Nat
      /\ Cardinality({i \in ids : c[i] \in S}) <= Cardinality(ids)
  <2> HIDE DEF c, S
  <2>1. {i \in ids : c[i] \in S} \in SUBSET ids
    OBVIOUS
  <2> QED BY <1>1, <2>1, FS_Subset, FS_CardinalityType
<1>8. ASSUME S = {rows[i][column] : i \in ids}
      PROVE  {i \in ids : c[i] \in S} = ids
  BY <1>8
<1> HIDE DEF c
<1> QED BY <1>4, <1>5, <1>6, <1>7, <1>8

\* All of some views, as a section of one group.
LEMMA WholeAddsUp ==
    ASSUME rows \in Seq(PageViews), NEW ids \in SUBSET DOMAIN rows
    PROVE  /\ Numbered(Views!Whole(ids))
           /\ SumOf(Views!Whole(ids)) = Cardinality(ids)
           /\ Views!Whole(ids)[Everywhere].views = Cardinality(ids)
<1> DEFINE section == Views!Whole(ids)
           v == [g \in DOMAIN section |-> section[g].views]
<1>1. /\ DOMAIN section = {Everywhere}
      /\ \A g \in DOMAIN section : section[g] = Views!Numbers(ids)
  BY DEF Views!Whole
<1>2. IsFiniteSet(DOMAIN section)
  BY <1>1, FS_Singleton
<1>3. Numbered(section) /\ section[Everywhere].views = Cardinality(ids) /\ Cardinality(ids) \in Nat
  BY <1>1, <1>2, NumbersFacts DEF Numbered
<1>4. SumOf(section) = Cardinality(ids)
  <2> HIDE DEF section
  <2>1. PICK h \in [SUBSET DOMAIN section -> Nat] : Sums(v, h) /\ SumOf(section) = h[DOMAIN section]
    BY <1>2, <1>3, ViewsSum DEF SumOf, Numbered
  <2>2. Some(DOMAIN section) = Everywhere
    BY <1>1 DEF Some
  <2>3. h[DOMAIN section \ {Everywhere}] = 0
    BY <1>1, <2>1 DEF Sums
  <2>4. h[DOMAIN section] = v[Everywhere] + h[DOMAIN section \ {Everywhere}]
    BY <1>1, <2>1, <2>2 DEF Sums
  <2>5. v[Everywhere] = Cardinality(ids)
    BY <1>1, <1>3
  <2> HIDE DEF v
  <2> QED BY <1>3, <2>1, <2>3, <2>4, <2>5
<1> QED BY <1>3, <1>4

\* The groups that are left of a section, all of them when its query succeeds.
Part(section, groups) == [g \in groups |-> section[g]]

\* The rows a query reads.
LEMMA FilteredFacts ==
    ASSUME ReportShape
    PROVE  /\ rows \in Seq(PageViews)
           /\ \A s : Views!Filtered(s) \in SUBSET DOMAIN rows
           /\ Present \in Nat
           /\ Present <= Cardinality(DOMAIN rows) /\ Cardinality(DOMAIN rows) \in Nat
<1>1. rows \in Seq(PageViews) /\ \A s : Views!Filtered(s) \in SUBSET DOMAIN rows
  BY DEF ReportShape, Views!Filtered
<1>2. /\ IsFiniteSet(DOMAIN rows) /\ Cardinality(DOMAIN rows) \in Nat
      /\ Present \in Nat
  BY <1>1, RowsFinite DEF Present
<1>3. Present <= Cardinality(DOMAIN rows)
  BY <1>1, <1>2, FS_Subset DEF Present
<1> QED BY <1>1, <1>2, <1>3

\* Some groups of some rows add up to no more than the rows, all of them to these.
LEMMA PartOfGroups ==
    ASSUME rows \in Seq(PageViews), NEW ids \in SUBSET DOMAIN rows, NEW column,
           NEW groups \in SUBSET DOMAIN Views!Groups(ids, column)
    PROVE  LET section == Part(Views!Groups(ids, column), groups)
           IN  /\ Numbered(section)
               /\ SumOf(section) <= Cardinality(ids)
               /\ groups = DOMAIN Views!Groups(ids, column) => SumOf(section) = Cardinality(ids)
<1> DEFINE section == Part(Views!Groups(ids, column), groups)
<1>1. /\ DOMAIN section = groups
      /\ DOMAIN Views!Groups(ids, column) = {rows[i][column] : i \in ids}
  BY DEF Part, Views!Groups
<1>2. ASSUME NEW g \in DOMAIN section
      PROVE  section[g] = Views!Numbers({i \in ids : rows[i][column] = g})
  BY <1>1 DEF Part, Views!Groups
<1> HIDE DEF section
<1>3. /\ Numbered(section)
      /\ SumOf(section) \in Nat /\ SumOf(section) <= Cardinality(ids)
      /\ DOMAIN section = {rows[i][column] : i \in ids} => SumOf(section) = Cardinality(ids)
  BY <1>1, <1>2, GroupsAddUp
<1> QED BY <1>1, <1>3 DEF section

\* The same for the countries, which also carry their share of the total.
LEMMA PartOfCountries ==
    ASSUME ReportShape, NEW groups \in SUBSET DOMAIN Views!Countries
    PROVE  LET section == Part(Views!Countries, groups)
           IN  /\ Numbered(section)
               /\ SumOf(section) <= Present
               /\ groups = DOMAIN Views!Countries => SumOf(section) = Present
               /\ \A c \in DOMAIN section : section[c].share = Views!Share(section[c].views)
<1> DEFINE section == Part(Views!Countries, groups)
           ids == Views!Filtered(site)
<1>1. /\ DOMAIN section = groups
      /\ DOMAIN Views!Countries = {rows[i]["country"] : i \in ids}
  BY DEF Part, Views!Groups, Views!Countries
<1>2. ASSUME NEW g \in DOMAIN section
      PROVE  LET numbers == Views!Numbers({i \in ids : rows[i]["country"] = g})
             IN  /\ section[g].views = numbers.views /\ section[g].unique = numbers.unique
                 /\ section[g].share = Views!Share(section[g].views)
  BY <1>1 DEF Part, Views!Groups, Views!Countries
<1>3. rows \in Seq(PageViews) /\ ids \in SUBSET DOMAIN rows
  BY FilteredFacts
<1> HIDE DEF section, ids
<1>4. /\ Numbered(section)
      /\ SumOf(section) \in Nat /\ SumOf(section) <= Cardinality(ids)
      /\ DOMAIN section = {rows[i]["country"] : i \in ids} => SumOf(section) = Cardinality(ids)
  BY <1>1, <1>2, <1>3, GroupsAddUp
<1> QED BY <1>1, <1>2, <1>4 DEF section, ids, Present

\* The sections before a limit cuts them.
Latest ==
    LET newer(i) == {j \in Views!Filtered(site) : j > i}
        shown == {i \in Views!Filtered(site) : Views!Cardinality(newer(i)) < Recent}
    IN  [i \in shown |-> [views |-> 1, unique |-> 1]]

AllOf(n) ==
    LET ids == Views!Filtered(site) IN
    CASE n = 1 -> Views!Whole(ids)
      [] n = 2 -> Views!Whole({i \in ids : rows[i].today})
      [] n = 3 -> Views!Groups(ids, "bucket")
      [] n = 4 -> Views!Groups(ids, "path")
      [] n = 5 -> Views!Groups({i \in ids : rows[i].slug # None}, "slug")
      [] n = 6 -> Views!Groups(ids, "referrer")
      [] n = 7 -> Views!Groups(ids, "device")
      [] n = 8 -> Views!Groups(ids, "browser")
      [] n = 9 -> Views!Countries
      [] n = 10 -> Views!Groups(DOMAIN rows, "site")
      [] n = 11 -> Latest

\* What a query adds to the report: any part of all its groups.
LEMMA SectionFacts ==
    ASSUME ReportShape, NEW n \in 1 .. Views!Queries,
           NEW groups \in SUBSET DOMAIN AllOf(n)
    PROVE  LET section == Part(AllOf(n), groups)
               whole == groups = DOMAIN AllOf(n)
           IN  /\ Numbered(section)
               /\ n \in Views!Divisions \ {1} => SumOf(section) <= Present
               /\ n \in Views!Divisions /\ whole => SumOf(section) = Present
               /\ n = 10 /\ whole => SumOf(section) = Cardinality(DOMAIN rows)
               /\ n = 1 /\ whole => section[Everywhere].views = Present
               /\ n = 9 => \A c \in DOMAIN section :
                              section[c].share = Views!Share(section[c].views)
               /\ whole => section = AllOf(n)
<1> DEFINE ids == Views!Filtered(site)
           section == Part(AllOf(n), groups)
           whole == groups = DOMAIN AllOf(n)
<1>0. /\ rows \in Seq(PageViews) /\ ids \in SUBSET DOMAIN rows
      /\ Present = Cardinality(ids) /\ Present \in Nat
  BY FilteredFacts DEF Present
<1>1. n \in {1, 2, 3, 4, 5, 6, 7, 8, 9, 10, 11} /\ Views!Divisions = {1, 3, 4, 6, 7, 8, 9}
  BY DEF Views!Queries, Views!Divisions
<1>2. CASE n = 1
  <2>1. AllOf(n) = Views!Whole(ids)
    BY <1>2 DEF AllOf
  <2>2. Numbered(AllOf(n)) /\ SumOf(AllOf(n)) = Present
        /\ AllOf(n)[Everywhere].views = Present
    BY <1>0, <2>1, WholeAddsUp
  <2>3. whole => section = AllOf(n)
    BY <2>1 DEF Views!Whole, Part
  <2>4. Numbered(section)
    BY <2>2, FS_Subset DEF Numbered, Part
  <2> QED BY <1>2, <2>2, <2>3, <2>4
<1>3. CASE n = 2
  <2>1. PICK today \in SUBSET DOMAIN rows : AllOf(n) = Views!Whole(today)
    <3>1. AllOf(n) = Views!Whole({i \in ids : rows[i].today})
      BY <1>3 DEF AllOf
    <3>2. {i \in ids : rows[i].today} \in SUBSET DOMAIN rows
      BY <1>0
    <3> QED BY <3>1, <3>2
  <2>2. Numbered(AllOf(n))
    BY <1>0, <2>1, WholeAddsUp
  <2>3. whole => section = AllOf(n)
    BY <2>1 DEF Views!Whole, Part
  <2>4. Numbered(section)
    BY <2>2, FS_Subset DEF Numbered, Part
  <2> QED BY <1>1, <1>3, <2>3, <2>4
<1>4. ASSUME NEW some \in SUBSET DOMAIN rows, NEW column,
             AllOf(n) = Views!Groups(some, column)
      PROVE  /\ Numbered(section) /\ SumOf(section) <= Cardinality(some)
             /\ whole => SumOf(section) = Cardinality(some)
             /\ whole => section = AllOf(n)
  <2>1. whole => section = AllOf(n)
    BY <1>4 DEF Views!Groups, Part
  <2> QED BY <1>0, <1>4, <2>1, PartOfGroups
<1>5. CASE n \in {3, 4, 6, 7, 8}
  <2>1. PICK column : AllOf(n) = Views!Groups(ids, column)
    BY <1>5 DEF AllOf
  <2> QED BY <1>0, <1>1, <1>4, <1>5, <2>1
<1>6. CASE n = 5
  <2>1. PICK posts \in SUBSET DOMAIN rows : AllOf(n) = Views!Groups(posts, "slug")
    <3>1. AllOf(n) = Views!Groups({i \in ids : rows[i].slug # None}, "slug")
      BY <1>6 DEF AllOf
    <3>2. {i \in ids : rows[i].slug # None} \in SUBSET DOMAIN rows
      BY <1>0
    <3> QED BY <3>1, <3>2
  <2> QED BY <1>1, <1>4, <1>6, <2>1
<1>7. CASE n = 9
  <2>1. AllOf(n) = Views!Countries
    BY <1>7 DEF AllOf
  <2>2. whole => section = AllOf(n)
    BY <2>1 DEF Views!Countries, Part
  <2> QED BY <1>0, <1>1, <1>7, <2>1, <2>2, PartOfCountries
<1>8. CASE n = 10
  <2>1. AllOf(n) = Views!Groups(DOMAIN rows, "site")
    BY <1>8 DEF AllOf
  <2>2. DOMAIN rows \in SUBSET DOMAIN rows
    OBVIOUS
  <2>3. /\ Numbered(section)
        /\ whole => SumOf(section) = Cardinality(DOMAIN rows)
        /\ whole => section = AllOf(n)
    BY <1>4, <2>1, <2>2
  <2> QED BY <1>1, <1>8, <2>3
<1>9. CASE n = 11
  <2>1. AllOf(n) = Latest
    BY <1>9 DEF AllOf
  <2>2. /\ whole => section = AllOf(n)
        /\ DOMAIN section \in SUBSET ids
        /\ \A g \in DOMAIN section : section[g] = [views |-> 1, unique |-> 1]
    BY <2>1 DEF Latest, Part
  <2>3. Numbered(section)
    <3>1. IsFiniteSet(DOMAIN section)
      BY <1>0, <2>2, RowsFinite
    <3> HIDE DEF section
    <3> QED BY <2>2, <3>1 DEF Numbered
  <2> QED BY <1>1, <1>9, <2>2, <2>3
<1> HIDE DEF section, whole
<1> QED BY <1>1, <1>2, <1>3, <1>5, <1>6, <1>7, <1>8, <1>9

\* A list that its limit cuts is full; one that is not cut is whole.
LEMMA LargestFacts ==
    ASSUME NEW all, NEW limit \in Nat, NEW section \in Views!Largest(all, limit)
    PROVE  \/ section = all
           \/ \E groups \in SUBSET DOMAIN all :
                 section = Part(all, groups) /\ Cardinality(groups) = limit
BY SameCardinality DEF Views!Largest, Part

\* A query returns all its groups, or fills its limit with some of them.
LEMMA SectionIsPart ==
    ASSUME ReportShape, NEW n \in 1 .. Views!Queries, NEW section \in Views!Section(n)
    PROVE  \E groups \in SUBSET DOMAIN AllOf(n) :
              /\ section = Part(AllOf(n), groups)
              /\ groups = DOMAIN AllOf(n) \/ FullList(n, section)
<1>1. n \in {1, 2, 3, 4, 5, 6, 7, 8, 9, 10, 11}
  BY DEF Views!Queries
<1>2. Part(AllOf(n), DOMAIN AllOf(n)) = AllOf(n)
  BY SectionFacts
<1>3. CASE n \notin {4, 5, 6, 8, 9}
  <2>1. section = AllOf(n)
    BY <1>1, <1>3
       DEF Views!Section, AllOf, Latest, Views!TotalViews, Views!ViewsToday,
           Views!ViewsTrend, Views!DeviceStats, Views!SiteStats, Views!RecentViews
  <2> QED BY <1>2, <2>1
<1>4. CASE n \in {4, 5, 6, 8, 9}
  <2>1. section \in Views!Largest(AllOf(n), Limit[n])
    BY <1>4 DEF Views!Section, AllOf, Views!TopPages, Views!TopPosts, Views!TopReferrers,
                Views!BrowserStats, Views!CountryStats
  <2>2. Limit[n] \in Nat /\ n \in DOMAIN Limit
    BY <1>4, PartsAssumption DEF Views!AnalyticsConstants
  <2>3. CASE section = AllOf(n)
    BY <1>2, <2>3
  <2>4. ASSUME NEW groups \in SUBSET DOMAIN AllOf(n),
               section = Part(AllOf(n), groups), Cardinality(groups) = Limit[n]
        PROVE  FullList(n, section)
    <3>1. DOMAIN section = groups
      BY <2>4 DEF Part
    <3> QED BY <2>2, <2>4, <3>1 DEF FullList
  <2> QED BY <2>1, <2>2, <2>3, <2>4, LargestFacts
<1> QED BY <1>3, <1>4

\* No report yet.
LEMMA AnalyticsInit == Views!Init => AnalyticsInv
BY DEF Views!Init, AnalyticsInv, ReportShape, AllNumbered, BelowPresent, Growing, BelowSites,
       FirstIsTotal, SharesOfTotal, Asked, Views!Queries

\* A view that is recorded leaves the report as it is.
LEMMA TrackEventInv == AnalyticsInv /\ Views!TrackEvent => AnalyticsInv'
<1> SUFFICES ASSUME AnalyticsInv, Views!TrackEvent PROVE AnalyticsInv'
  OBVIOUS
<1>0. UNCHANGED <<report, next, site, broken>>
  BY DEF Views!TrackEvent
<1>1. PICK view \in PageViews : rows' = Append(rows, view)
  BY DEF Views!TrackEvent
<1>2. rows \in Seq(PageViews) /\ rows' \in Seq(PageViews)
  BY <1>1 DEF AnalyticsInv, ReportShape
<1>3. ReportShape'
  BY <1>0, <1>2 DEF AnalyticsInv, ReportShape
<1>4. Views!Filtered(site) \subseteq Views!Filtered(site)'
  BY <1>0, <1>1, <1>2 DEF Views!Filtered
<1>5. Present \in Nat /\ Present' \in Nat /\ Present <= Present'
  <2>1. /\ Views!Filtered(site) \in SUBSET DOMAIN rows
        /\ Views!Filtered(site)' \in SUBSET DOMAIN rows'
    BY DEF Views!Filtered
  <2>2. /\ IsFiniteSet(Views!Filtered(site)) /\ Present \in Nat
    BY <1>2, <2>1, RowsFinite DEF Present
  <2>3. IsFiniteSet(Views!Filtered(site)') /\ Present' \in Nat
    <3>1. DOMAIN rows' = 1..Len(rows') /\ Len(rows') \in Nat
      BY <1>2
    <3>2. IsFiniteSet(DOMAIN rows')
      BY <3>1, FS_Interval
    <3> QED BY <2>1, <3>2, FS_Subset, FS_CardinalityType DEF Present
  <2> QED BY <1>4, <2>2, <2>3, FS_Subset DEF Present
<1>6. \A n : Asked(n)' <=> Asked(n)
  BY <1>0 DEF Asked
<1>7. AllNumbered' /\ Growing' /\ BelowSites' /\ FirstIsTotal' /\ SharesOfTotal'
  BY <1>0, <1>6
     DEF AnalyticsInv, AllNumbered, Growing, BelowSites, FirstIsTotal, SharesOfTotal, Asked
<1>8. BelowPresent'
  <2>1. SUFFICES ASSUME NEW n, Asked(n)' PROVE SumOf(report[n])' <= Present'
    BY DEF BelowPresent
  <2>2. SumOf(report[n])' = SumOf(report[n])
    BY <1>0
  <2>3. SumOf(report[n]) <= Present
    BY <1>6, <2>1 DEF AnalyticsInv, BelowPresent
  <2>4. SumOf(report[n]) \in Nat
    BY <1>6, <2>1, SumIsNat DEF AnalyticsInv, AllNumbered, Asked
  <2> QED BY <1>5, <2>2, <2>3, <2>4
<1> QED BY <1>3, <1>7, <1>8 DEF AnalyticsInv

\* A report begins empty.
LEMMA GetStatsInv == AnalyticsInv /\ Views!GetStats => AnalyticsInv'
<1> SUFFICES ASSUME AnalyticsInv, Views!GetStats PROVE AnalyticsInv'
  OBVIOUS
<1>1. rows' = rows /\ report' = <<>> /\ next' = 1 /\ broken' = 0
  BY DEF Views!GetStats
<1>2. DOMAIN report' = {} /\ \A n : ~ Asked(n)'
  BY <1>1 DEF Asked
<1>3. ReportShape'
  BY <1>1 DEF AnalyticsInv, ReportShape, Views!Queries
<1>4. AllNumbered' /\ BelowPresent' /\ Growing' /\ BelowSites' /\ FirstIsTotal' /\ SharesOfTotal'
  BY <1>2 DEF AllNumbered, BelowPresent, Growing, BelowSites, FirstIsTotal, SharesOfTotal
<1> QED BY <1>3, <1>4 DEF AnalyticsInv

\* A query that succeeds adds its section, all of it or a full list; one that
\* fails adds any part of it.
LEMMA SectionInv ==
    ASSUME AnalyticsInv, next > 0, UNCHANGED <<rows, site>>,
           next' = (next + 1) % (Views!Queries + 1),
           NEW groups \in SUBSET DOMAIN AllOf(next),
           report' = Append(report, Part(AllOf(next), groups)),
           \/ /\ broken' = broken
              /\ groups = DOMAIN AllOf(next) \/ FullList(next, Part(AllOf(next), groups))
           \/ broken = 0 /\ broken' = next /\ next # 1
    PROVE  AnalyticsInv'
<1> DEFINE section == Part(AllOf(next), groups)
<1>1. /\ next \in 1 .. Views!Queries /\ Len(report) = next - 1 /\ broken < next
      /\ broken \in 0 .. Views!Queries /\ Views!Queries = 11
      /\ DOMAIN report = 1 .. (next - 1)
  BY DEF AnalyticsInv, ReportShape, Views!Queries
<1>2. /\ DOMAIN report' = 1 .. next /\ Len(report') = next
      /\ report'[next] = section
      /\ \A m \in DOMAIN report : report'[m] = report[m]
      /\ \E R : report' \in Seq(R)
  <2>1. PICK R : report \in Seq(R)
    BY DEF AnalyticsInv, ReportShape
  <2> HIDE DEF section
  <2>2. report \in Seq(R \cup {section}) /\ report' = Append(report, section)
    BY <2>1 DEF section
  <2>3. report' \in Seq(R \cup {section})
    BY <2>2
  <2> QED BY <1>1, <2>2, <2>3
<1>3. ReportShape'
  <2>1. rows' \in Seq(PageViews) /\ next' \in 0 .. Views!Queries /\ broken' \in 0 .. Views!Queries
    BY <1>1 DEF AnalyticsInv, ReportShape
  <2>2. next' > 0 => Len(report') = next' - 1 /\ broken' < next'
    BY <1>1, <1>2
  <2> QED BY <1>2, <2>1, <2>2 DEF ReportShape
<1>4. /\ Numbered(section) /\ SumOf(section) \in Nat
      /\ next \in Views!Divisions \ {1} => SumOf(section) <= Present
      /\ groups = DOMAIN AllOf(next) =>
            /\ next \in Views!Divisions => SumOf(section) = Present
            /\ next = 10 => SumOf(section) = Cardinality(DOMAIN rows)
            /\ next = 1 => section[Everywhere].views = Present
      /\ next = 9 => \A c \in DOMAIN section : section[c].share = Views!Share(section[c].views)
  BY <1>1, SectionFacts, SumIsNat DEF AnalyticsInv
<1>5. /\ Present' = Present /\ Present \in Nat
      /\ Present <= Cardinality(DOMAIN rows) /\ Cardinality(DOMAIN rows) \in Nat
  <2>1. Present' = Present
    BY DEF Present, Views!Filtered
  <2> QED BY <2>1, FilteredFacts DEF AnalyticsInv
<1> HIDE DEF section
<1>6. /\ \A n : Asked(n)' <=> Asked(n) \/ (n = next /\ next \in Views!Divisions)
      /\ \A n : Asked(n) => /\ n \in DOMAIN report /\ n < next /\ report'[n] = report[n]
                            /\ SumOf(report'[n]) = SumOf(report[n])
                            /\ SumOf(report[n]) \in Nat /\ SumOf(report[n]) <= Present
      /\ 1 \in Views!Divisions
  <2>1. \A n : Asked(n)' <=> Asked(n) \/ (n = next /\ next \in Views!Divisions)
    BY <1>1, <1>2 DEF Asked, Views!Divisions
  <2>2. ASSUME NEW n, Asked(n)
        PROVE  n \in DOMAIN report /\ n < next /\ report'[n] = report[n]
    BY <1>1, <1>2, <2>2 DEF Asked
  <2>3. ASSUME NEW n, Asked(n)
        PROVE  SumOf(report[n]) \in Nat /\ SumOf(report[n]) <= Present
    BY <2>2, <2>3, SumIsNat DEF AnalyticsInv, AllNumbered, BelowPresent
  <2> QED BY <2>1, <2>2, <2>3 DEF Views!Divisions
<1>7. /\ next \in {1, 10} => ~FullList(next, section)
      /\ next = 1 => groups = DOMAIN AllOf(next) /\ broken' = broken
  <2>1. next \in {1, 10} => next \notin DOMAIN Limit
    BY PartsAssumption DEF Views!AnalyticsConstants
  <2> QED BY <2>1 DEF FullList, section
<1>8. AllNumbered'
  BY <1>1, <1>2, <1>4 DEF AnalyticsInv, AllNumbered
<1>9. BelowPresent'
  <2>1. next \in Views!Divisions => SumOf(section) <= Present
    BY <1>4, <1>5, <1>7
  <2> QED BY <1>2, <1>5, <1>6, <2>1 DEF BelowPresent
<1>10. Growing'
  <2>1. SUFFICES ASSUME NEW m, NEW n, Asked(m)', Asked(n)', m < n, n # broken',
                        ~FullList(n, report'[n])
                 PROVE  SumOf(report'[m]) <= SumOf(report'[n])
    BY DEF Growing
  <2>2. CASE Asked(n)
    <3>1. Asked(m) /\ n # broken /\ ~FullList(n, report[n])
      <4>1. Asked(m)
        BY <1>1, <1>6, <2>1, <2>2
      <4>2. m \in 1 .. 11 /\ n \in 1 .. 11
        BY <2>2, <4>1 DEF Asked, Views!Divisions
      <4> QED BY <1>1, <1>6, <2>1, <2>2, <4>1, <4>2
    <3> QED BY <1>6, <2>1, <2>2, <3>1 DEF AnalyticsInv, Growing
  <2>3. CASE n = next /\ next \in Views!Divisions
    <3>1. broken' = broken /\ groups = DOMAIN AllOf(next)
      BY <1>2, <2>1, <2>3 DEF section
    <3>2. Asked(m)
      BY <1>6, <2>1, <2>3, <1>1
    <3> QED BY <1>2, <1>4, <1>6, <2>3, <3>1, <3>2
  <2> QED BY <1>6, <2>1, <2>2, <2>3
<1>11. BelowSites'
  <2>1. SUFFICES ASSUME 10 \in DOMAIN report', broken' # 10, NEW n, Asked(n)', n < 10
                 PROVE  SumOf(report'[n]) <= SumOf(report'[10])
    BY DEF BelowSites
  <2>2. next \in {10, 11} /\ Asked(n)
    BY <1>1, <1>2, <1>6, <2>1
  <2>3. CASE next = 10
    <3>1. groups = DOMAIN AllOf(next)
      BY <1>7, <2>1, <2>3 DEF section
    <3>2. SumOf(report'[10]) = Cardinality(DOMAIN rows)
      BY <1>2, <1>4, <2>3, <3>1
    <3> QED BY <1>5, <1>6, <2>2, <3>2
  <2>4. CASE next = 11
    <3>1. 10 \in DOMAIN report /\ broken # 10 /\ report'[10] = report[10]
      BY <1>1, <1>2, <2>1, <2>4
    <3> QED BY <1>6, <2>1, <2>2, <3>1 DEF AnalyticsInv, BelowSites
  <2> QED BY <2>2, <2>3, <2>4
<1>12. FirstIsTotal'
  <2>1. CASE next = 1
    BY <1>2, <1>4, <1>5, <1>6, <1>7, <2>1 DEF FirstIsTotal
  <2>2. CASE next # 1
    <3>1. 1 \in DOMAIN report /\ report'[1] = report[1]
      BY <1>1, <1>2, <2>2
    <3> QED BY <3>1 DEF AnalyticsInv, FirstIsTotal
  <2> QED BY <2>1, <2>2
<1>13. SharesOfTotal'
  <2>1. SUFFICES ASSUME 9 \in DOMAIN report', NEW c \in DOMAIN report'[9]
                 PROVE  report'[9][c].share
                          = ShareOf(report'[9][c].views, report'[1][Everywhere].views)
    BY DEF SharesOfTotal
  <2>2. next \in 9 .. 11 /\ report'[1] = report[1]
    BY <1>1, <1>2, <2>1
  <2>3. CASE next = 9
    <3>1. report'[9] = section
      BY <1>2, <2>3
    <3>2. section[c].share = Views!Share(section[c].views)
      BY <1>4, <2>1, <2>3, <3>1
    <3> QED BY <2>2, <3>1, <3>2 DEF Views!Share, ShareOf
  <2>4. CASE next # 9
    <3>1. 9 \in DOMAIN report /\ report'[9] = report[9]
      BY <1>1, <1>2, <2>2, <2>4
    <3> QED BY <2>1, <2>2, <3>1 DEF AnalyticsInv, SharesOfTotal
  <2> QED BY <2>3, <2>4
<1> QED BY <1>3, <1>8, <1>9, <1>10, <1>11, <1>12, <1>13 DEF AnalyticsInv

\* The next query succeeds.
LEMMA AskInv == AnalyticsInv /\ Views!Ask => AnalyticsInv'
<1> SUFFICES ASSUME AnalyticsInv, Views!Ask PROVE AnalyticsInv'
  OBVIOUS
<1>1. next \in 1 .. Views!Queries
  BY DEF Views!Ask, AnalyticsInv, ReportShape
<1>2. PICK section \in Views!Section(next) : report' = Append(report, section)
  BY DEF Views!Ask
<1>3. PICK groups \in SUBSET DOMAIN AllOf(next) :
         /\ section = Part(AllOf(next), groups)
         /\ groups = DOMAIN AllOf(next) \/ FullList(next, section)
  BY <1>1, SectionIsPart DEF AnalyticsInv
<1>4. /\ next > 0 /\ UNCHANGED <<rows, site>> /\ broken' = broken
      /\ next' = (next + 1) % (Views!Queries + 1)
  BY DEF Views!Ask
<1> QED BY <1>2, <1>3, <1>4, SectionInv

\* A row of the next query does not scan: the loop ends with what it has.
LEMMA BreakInv == AnalyticsInv /\ Views!Break => AnalyticsInv'
<1> SUFFICES ASSUME AnalyticsInv, Views!Break PROVE AnalyticsInv'
  OBVIOUS
<1>0. next > 0 /\ broken = 0 /\ broken' = next /\ UNCHANGED <<rows, site>>
  BY DEF Views!Break
<1>1. CASE next = 1
  <2>1. next' = 0 /\ UNCHANGED report
    BY <1>1 DEF Views!Break
  <2>2. DOMAIN report = {}
    BY <1>1 DEF AnalyticsInv, ReportShape
  <2>3. DOMAIN report' = {} /\ \A n : ~ Asked(n)'
    BY <2>1, <2>2 DEF Asked
  <2>4. ReportShape'
    BY <1>0, <1>1, <2>1 DEF AnalyticsInv, ReportShape, Views!Queries
  <2>5. AllNumbered' /\ BelowPresent' /\ Growing' /\ BelowSites' /\ FirstIsTotal' /\ SharesOfTotal'
    BY <2>3 DEF AllNumbered, BelowPresent, Growing, BelowSites, FirstIsTotal, SharesOfTotal
  <2> QED BY <2>4, <2>5 DEF AnalyticsInv
<1>2. CASE next # 1
  <2>0. next \in 1 .. Views!Queries
    BY <1>0 DEF AnalyticsInv, ReportShape
  <2>1. PICK groups \in SUBSET DOMAIN AllOf(next) :
           report' = Append(report, Part(AllOf(next), groups))
    <3>0. PICK section \in Views!Section(next) : \E part \in SUBSET DOMAIN section :
             report' = Append(report, Part(section, part))
      BY <1>2 DEF Views!Break, Part
    <3>1. PICK part \in SUBSET DOMAIN section : report' = Append(report, Part(section, part))
      BY <3>0
    <3>2. PICK groups \in SUBSET DOMAIN AllOf(next) : section = Part(AllOf(next), groups)
      BY <2>0, SectionIsPart DEF AnalyticsInv
    <3>3. part \in SUBSET DOMAIN AllOf(next) /\ Part(section, part) = Part(AllOf(next), part)
      BY <3>2 DEF Part
    <3> QED BY <3>1, <3>3
  <2>2. next' = (next + 1) % (Views!Queries + 1)
    BY <1>2 DEF Views!Break
  <2> QED BY <1>0, <1>2, <2>1, <2>2, SectionInv
<1> QED BY <1>1, <1>2

\* Every step keeps the invariant.
LEMMA AnalyticsStep == AnalyticsInv /\ [Views!Next]_(Views!vars) => AnalyticsInv'
<1> SUFFICES ASSUME AnalyticsInv, [Views!Next]_(Views!vars) PROVE AnalyticsInv'
  OBVIOUS
<1>1. CASE UNCHANGED Views!vars
  BY <1>1 DEF Views!vars, AnalyticsInv, ReportShape, AllNumbered, BelowPresent, Growing,
              BelowSites, FirstIsTotal, SharesOfTotal, Asked, Present, Views!Filtered
<1>2. CASE Views!Next
  BY <1>2, TrackEventInv, GetStatsInv, AskInv, BreakInv DEF Views!Next
<1> QED BY <1>1, <1>2

\* What adds up in the countries' section, as its shares round down.
LEMMA SharesAlmost100 ==
    ASSUME NEW section, Numbered(section), NEW total \in Nat \ {0},
           \A c \in DOMAIN section : section[c].share = (100 * section[c].views) \div total,
           SumOf(section) = total
    PROVE  /\ 100 - Cardinality(DOMAIN section) < SharesOf(section)
           /\ SharesOf(section) <= 100
<1> DEFINE S == DOMAIN section
           v == [g \in S |-> section[g].views]
           w == [g \in S |-> section[g].share]
<1>1. IsFiniteSet(S) /\ Cardinality(S) \in Nat /\ \A g \in S : section[g].views \in Nat
  BY FS_CardinalityType DEF Numbered
<1>2. \A g \in S : section[g].share \in Nat
  <2>1. \A n \in Nat : n \div total \in Nat
    OBVIOUS
  <2>2. \A g \in S : 100 * section[g].views \in Nat
    BY <1>1
  <2> QED BY <2>1, <2>2
<1>3. PICK h \in [SUBSET S -> Nat] : Sums(v, h) /\ SumOf(section) = h[S]
  BY <1>1, ViewsSum DEF SumOf
<1>4. PICK k \in [SUBSET S -> Nat] : Sums(w, k) /\ SharesOf(section) = k[S]
  BY <1>1, <1>2, SharesSum DEF SharesOf
<1>5. S # {}
  BY <1>3 DEF Sums
<1>6. /\ total * k[S] <= 100 * total
      /\ 100 * total < total * k[S] + total * Cardinality(S)
  <2>1. v \in [S -> Nat] /\ w \in [S -> Nat] /\ \A g \in S : w[g] = (100 * v[g]) \div total
    BY <1>1, <1>2
  <2>2. h[S] = total
    BY <1>3
  <2> HIDE DEF v, w, S
  <2>3. \A T \in SUBSET S :
              /\ total * k[T] <= 100 * h[T]
              /\ T # {} => 100 * h[T] < total * k[T] + total * Cardinality(T)
    BY <1>1, <1>3, <1>4, <2>1, SharesAddUp
  <2>4. /\ total * k[S] <= 100 * h[S]
        /\ S # {} => 100 * h[S] < total * k[S] + total * Cardinality(S)
    BY <2>3
  <2> QED BY <1>5, <2>2, <2>4
<1>7. k[S] \in Nat
  OBVIOUS
<1>8. ASSUME NEW m \in Nat, NEW n \in Nat,
             total * m <= 100 * total, 100 * total < total * m + total * n
      PROVE  m <= 100 /\ 100 < m + n
  <2>1. ASSUME m >= 101 PROVE FALSE
    BY <1>8, <2>1
  <2>2. ASSUME m + n <= 100 PROVE FALSE
    <3>1. total * m + total * n = total * (m + n)
      OBVIOUS
    <3>2. total * (m + n) <= total * 100
      BY <2>2
    <3> QED BY <1>8, <3>1, <3>2
  <2> QED BY <2>1, <2>2
<1>9. k[S] <= 100 /\ 100 < k[S] + Cardinality(S)
  <2> HIDE DEF S
  <2> QED BY <1>1, <1>6, <1>7, <1>8
<1> QED BY <1>1, <1>4, <1>7, <1>9

\* What is asked of a report follows from the invariant.
LEMMA AnalyticsAddsUp == AnalyticsInv => ReportAddsUp
<1> SUFFICES ASSUME AnalyticsInv PROVE Views!ReportAddsUp
  BY DEF ReportAddsUp
<1>1. \A n : Views!Sum(n) = SumOf(report[n])
  BY DEF Views!Sum, SumOf
<1>2. Views!Cardinality(Views!Filtered(site)) = Present
  BY SameCardinality DEF Present
<1>3. \A m, n \in Views!Divisions \cap DOMAIN report :
          m < n /\ n # broken /\ ~Views!Full(n) => Views!Sum(m) <= Views!Sum(n)
  <2>1. \A n : Views!Full(n) <=> FullList(n, report[n])
    BY SameCardinality DEF Views!Full, FullList
  <2> QED BY <1>1, <2>1 DEF AnalyticsInv, Growing, Asked
<1>4. \A n \in Views!Divisions \cap DOMAIN report :
          /\ Views!Sum(n) <= Present
          /\ 10 \in DOMAIN report /\ broken # 10 /\ n < 10 => Views!Sum(n) <= Views!Sum(10)
  BY <1>1 DEF AnalyticsInv, BelowPresent, BelowSites, Asked
<1>5. \A n \in DOMAIN report : \A g \in DOMAIN report[n] : report[n][g].unique <= report[n][g].views
  BY DEF AnalyticsInv, AllNumbered, Numbered
<1>6. ASSUME 9 \in DOMAIN report, Views!Sum(9) = Views!Sum(1), Views!Sum(1) > 0
      PROVE  /\ 100 - Cardinality(DOMAIN report[9]) < SharesOf(report[9])
             /\ SharesOf(report[9]) <= 100
  <2> DEFINE total == report[1][Everywhere].views
  <2>1. 1 \in DOMAIN report
    BY <1>6 DEF AnalyticsInv, ReportShape
  <2>2. total \in Nat \ {0} /\ SumOf(report[9]) = total
    BY <1>1, <1>6, <2>1 DEF AnalyticsInv, FirstIsTotal
  <2>3. \A c \in DOMAIN report[9] : report[9][c].share = (100 * report[9][c].views) \div total
    BY <1>6, <2>2 DEF AnalyticsInv, SharesOfTotal, ShareOf
  <2>4. Numbered(report[9])
    BY <1>6 DEF AnalyticsInv, AllNumbered
  <2> HIDE DEF total
  <2> QED BY <2>2, <2>3, <2>4, SharesAlmost100
<1>7. 9 \in DOMAIN report /\ Views!Sum(9) = Views!Sum(1) /\ Views!Sum(1) > 0 =>
          LET shares == Views!MapThenSumSet(LAMBDA c : report[9][c].share, DOMAIN report[9])
          IN  100 - Views!Cardinality(DOMAIN report[9]) < shares /\ shares <= 100
  BY <1>6, SameCardinality DEF SharesOf
<1> QED BY <1>2, <1>3, <1>4, <1>5, <1>7 DEF Views!ReportAddsUp

\* While views are recorded and a report is put together query by query, and one
\* of its queries breaks off, its parts never contradict each other: a later
\* division of the views has no less than an earlier one unless it is a list as
\* long as its limit, none has more than there are now or than all sites together,
\* visitors are no more than views, and the shares of countries that have all the
\* views lack less than one per cent each (repository/analytics.go,
\* GetAnalyticsStats).  For any number of views, any columns and any limits.
THEOREM ReportsAddUp == Views!Spec => []ReportAddsUp
<1>1. Views!Spec => []AnalyticsInv
  BY AnalyticsInit, AnalyticsStep, PTL DEF Views!Spec
<1> QED BY <1>1, AnalyticsAddsUp, PTL
=============================================================================
