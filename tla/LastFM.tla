-------------------------------- MODULE LastFM --------------------------------
(***************************************************************************)
(* The LastFM proxy (service/lastfm.go): a cache with a lifetime per kind  *)
(* of answer in front of a circuit breaker in front of the upstream, and   *)
(* the expired entry as the answer when the breaker or the upstream        *)
(* refuses.                                                                *)
(*                                                                         *)
(* The breaker is gobreaker (external): closed, it counts consecutive      *)
(* failures; open, it refuses for a while; half-open, it lets a few        *)
(* requests through, and closes when as many succeed.  Results of requests *)
(* that began in an earlier generation of its counts are ignored.  Time is *)
(* counted in ticks; a client's timer and the write into the cache, which  *)
(* wait for nothing, happen within the tick they are due.                  *)
(***************************************************************************)
EXTENDS Naturals, FiniteSets

CONSTANTS
    TrackKeys,     \* cache keys of recent tracks
    UserKeys,      \* cache keys of user profiles
    TracksFresh,   \* lifetime of an entry of recent tracks (30 s)
    UserFresh,     \* lifetime of an entry of a profile (10 min)
    Calls,         \* calls of the service
    HttpTimeout,   \* what an upstream request may last (10 s)
    TripAt,        \* consecutive failures that open the breaker (5)
    MaxRequests,   \* requests the half-open breaker admits (3)
    Interval,      \* a closed breaker forgets its counts this often (10 s)
    OpenFor        \* how long the breaker stays open (30 s)

Keys == TrackKeys \cup UserKeys

ASSUME LastFMAssumption ==
    /\ TrackKeys \cap UserKeys = {}
    /\ {TracksFresh, UserFresh, HttpTimeout, TripAt, MaxRequests, Interval, OpenFor}
          \subseteq Nat \ {0}

VARIABLES
    fault,    \* what the world does: nothing, clients leave, upstream is down
    cache,    \* cache[k]: how long the entry stays fresh, how old its data is
    breaker,  \* the circuit breaker
    call      \* call[c]: what call c asks and how far it is

vars == <<fault, cache, breaker, call>>

FreshFor(k) == IF k \in TrackKeys THEN TracksFresh ELSE UserFresh

NoItem == [there |-> FALSE, left |-> 0, age |-> 0]
MaxAge == HttpTimeout + (IF TracksFresh > UserFresh THEN TracksFresh ELSE UserFresh) + 1

Closed == [state |-> "closed", left |-> Interval, requests |-> 0, successes |-> 0,
           failures |-> 0]
Open == [Closed EXCEPT !.state = "open", !.left = OpenFor]
HalfOpen == [Closed EXCEPT !.state = "half", !.left = 0]

InFlight == {"sent", "reply"}

TypeOK ==
    /\ fault \in {"none", "clients leave", "down"}
    /\ cache \in [Keys -> [there : BOOLEAN, left : 0..MaxAge, age : 0..MaxAge]]
    /\ breaker \in [state : {"closed", "open", "half"}, left : 0..(Interval + OpenFor),
                    requests : 0..MaxRequests, successes : 0..MaxRequests,
                    failures : 0..TripAt]
    /\ call \in [Calls -> [pc : {"ready", "execute", "sent", "reply", "store", "failed",
                                 "data", "error"},
                           key : Keys, left : 0..HttpTimeout, age : 0..MaxAge,
                           lost : BOOLEAN, old : BOOLEAN]]

Ready(k) == [pc |-> "ready", key |-> k, left |-> 0, age |-> 0, lost |-> FALSE,
             old |-> FALSE]
Ended(c, pc) == [Ready(call[c].key) EXCEPT !.pc = pc]

Init ==
    /\ fault = "none"
    /\ cache = [k \in Keys |-> NoItem]
    /\ breaker = Closed
    /\ call = [c \in Calls |-> Ready(CHOOSE k \in Keys : TRUE)]

-----------------------------------------------------------------------------
(* The breaker *)

\* Its state now: an interval that is over clears the counts, an open breaker
\* whose time is over is half-open.
Current ==
    IF breaker.left > 0 \/ breaker.state = "half" THEN breaker
    ELSE IF breaker.state = "closed" THEN Closed ELSE HalfOpen

\* A new generation: the requests in flight belong to an old one.
NewGeneration == Current # breaker

Aged(calls) ==
    [c \in Calls |-> [calls[c] EXCEPT !.old = @ \/ calls[c].pc \in InFlight]]

Refuses(b) == b.state = "open" \/ (b.state = "half" /\ b.requests >= MaxRequests)

Admitted(b) == IF b.state = "half" THEN [b EXCEPT !.requests = @ + 1] ELSE b

ReadyToTrip(failures) == failures >= TripAt

\* What the result of a request of this generation makes of the breaker.
After(b, success) ==
    IF success
    THEN IF b.state = "half" /\ b.successes + 1 >= MaxRequests THEN Closed
         ELSE [b EXCEPT !.successes = IF b.state = "half" THEN @ + 1 ELSE @,
                        !.failures = 0]
    ELSE IF b.state = "half" \/ ReadyToTrip(b.failures + 1) THEN Open
         ELSE [b EXCEPT !.failures = @ + 1]

\* Call c's request is over and the call goes on as "next". Every error counts
\* as a failure, also a client's departure and an answer of "not found".
Report(c, success, next) ==
    LET b == Current
        old == call[c].old \/ NewGeneration
        new == IF old THEN b ELSE After(b, success)
        calls == [call EXCEPT ![c] = next]
    IN  /\ breaker' = new
        /\ call' = IF NewGeneration \/ new.state # b.state THEN Aged(calls) ELSE calls
        /\ UNCHANGED <<fault, cache>>

-----------------------------------------------------------------------------
(* The calls *)

Fresh(k) == cache[k].there /\ cache[k].left > 0

\* A call looks into the cache: a fresh entry is the answer.
Lookup(c, k) ==
    /\ call[c].pc \in {"ready", "data", "error"}
    /\ call' = [call EXCEPT ![c] =
                  [Ready(k) EXCEPT !.pc = IF Fresh(k) THEN "data" ELSE "execute"]]
    /\ UNCHANGED <<fault, cache, breaker>>

GetRecentTracks(c) == \E k \in TrackKeys : Lookup(c, k)
GetUserInfo(c) == \E k \in UserKeys : Lookup(c, k)

\* The breaker admits the request, or refuses it.
Execute(c) ==
    /\ call[c].pc = "execute"
    /\ LET b == Current
           sent == [call[c] EXCEPT !.pc = "sent", !.left = HttpTimeout]
           calls == [call EXCEPT ![c] =
                       IF Refuses(b) THEN [@ EXCEPT !.pc = "failed"] ELSE sent]
       IN  /\ breaker' = IF Refuses(b) THEN b ELSE Admitted(b)
           /\ call' = IF NewGeneration
                      THEN [Aged(calls) EXCEPT ![c] = calls[c]] ELSE calls
    /\ UNCHANGED <<fault, cache>>

\* Upstream (external) reads what it answers, or the request is lost.
Answer(c) ==
    /\ call[c].pc = "sent" /\ ~call[c].lost /\ fault # "down"
    /\ call' = [call EXCEPT ![c].pc = "reply"]
    /\ UNCHANGED <<fault, cache, breaker>>

Lose(c) ==
    /\ call[c].pc = "sent" /\ ~call[c].lost /\ fault = "down"
    /\ call' = [call EXCEPT ![c].lost = TRUE]
    /\ UNCHANGED <<fault, cache, breaker>>

Due(c) == call[c].pc \in InFlight /\ call[c].left = 0

Failed(c) == [call[c] EXCEPT !.pc = "failed", !.left = 0, !.age = 0, !.lost = FALSE,
                             !.old = FALSE]

\* Mutant of ReportFailure: the breaker does not hear of a client's departure.
ReportUnlessLeft(c) ==
    IF fault = "clients leave"
    THEN call' = [call EXCEPT ![c] = Failed(c)] /\ UNCHANGED <<fault, cache, breaker>>
    ELSE Report(c, FALSE, Failed(c))

ReportFailure(c) == Report(c, FALSE, Failed(c))

\* The request has lasted HttpTimeout, its client has left, or upstream answers
\* with an error.
RequestFails(c) ==
    /\ \/ Due(c) /\ (call[c].lost \/ fault = "down")
       \/ call[c].pc \in InFlight /\ fault = "clients leave"
       \/ call[c].pc = "sent" /\ ~call[c].lost /\ fault = "down"
    /\ ReportFailure(c)

RequestSucceeds(c) ==
    /\ call[c].pc = "reply"
    /\ Report(c, TRUE, [call[c] EXCEPT !.pc = "store", !.left = 0, !.old = FALSE])

\* The answer goes into the cache.
Store(c) ==
    /\ call[c].pc = "store"
    /\ cache' = [cache EXCEPT ![call[c].key] =
                   [there |-> TRUE, left |-> FreshFor(call[c].key), age |-> call[c].age]]
    /\ call' = [call EXCEPT ![c] = Ended(c, "data")]
    /\ UNCHANGED <<fault, breaker>>

\* Mutant of Fallback: what the cache holds is fresh again.
FallbackRenewing(c) ==
    LET k == call[c].key IN
    /\ call[c].pc = "failed"
    /\ call' = [call EXCEPT ![c] = Ended(c, IF cache[k].there THEN "data" ELSE "error")]
    /\ cache' = IF cache[k].there
                THEN [cache EXCEPT ![k] = [@ EXCEPT !.left = FreshFor(k), !.age = MaxAge]]
                ELSE cache
    /\ UNCHANGED <<fault, breaker>>

\* No answer: whatever the cache holds, expired or not, else the error.
Fallback(c) ==
    /\ call[c].pc = "failed"
    /\ call' = [call EXCEPT ![c] =
                  Ended(c, IF cache[call[c].key].there THEN "data" ELSE "error")]
    /\ UNCHANGED <<fault, cache, breaker>>

-----------------------------------------------------------------------------
(* Time and the world *)

Minus1(n) == IF n = 0 THEN 0 ELSE n - 1
Older(n) == IF n < MaxAge THEN n + 1 ELSE n

Tick ==
    /\ \A c \in Calls : ~Due(c) /\ call[c].pc # "store"
    /\ cache' = [k \in Keys |-> [cache[k] EXCEPT
                   !.left = Minus1(@),
                   !.age = IF cache[k].left > 1 THEN Older(@) ELSE 0]]
    /\ breaker' = [breaker EXCEPT !.left = Minus1(@)]
    /\ call' = [c \in Calls |-> [call[c] EXCEPT
                   !.left = Minus1(@),
                   !.age = IF call[c].pc = "reply" THEN Older(@) ELSE @]]
    /\ UNCHANGED fault

Change ==
    /\ fault' \in {"none", "clients leave", "down"} \ {fault}
    /\ UNCHANGED <<cache, breaker, call>>

-----------------------------------------------------------------------------

\* What the process does for a call once it has begun.
Serve(c) == \/ Execute(c) \/ RequestFails(c) \/ RequestSucceeds(c) \/ Store(c)
            \/ Fallback(c)

Next ==
    \/ \E c \in Calls : \/ GetRecentTracks(c) \/ GetUserInfo(c) \/ Serve(c)
                        \/ Answer(c) \/ Lose(c)
    \/ Tick \/ Change

Spec == Init /\ [][Next]_vars

\* The process serves its calls, time passes, and upstream answers unless it is
\* down or the request was lost. Nobody has to call.
Fairness ==
    /\ WF_vars(Tick)
    /\ \A c \in Calls : WF_vars(Serve(c)) /\ WF_vars(Answer(c) \/ Lose(c))

FairSpec == Spec /\ Fairness

-----------------------------------------------------------------------------
(* Properties *)

\* What the cache gives out as fresh was read upstream at most one lifetime and
\* one request ago, whichever of several requests stored last, and however
\* often it served as a fallback (lastfm.go, GetRecentTracks and GetUserInfo).
FreshIsRecent == \A k \in Keys : Fresh(k) => cache[k].age <= FreshFor(k) + HttpTimeout

\* When the world behaves again and calls keep missing the cache, the breaker
\* closes and stays closed: requests lost in its half-open state do not keep it
\* there.
BreakerRecovers ==
    <>[](fault = "none") /\ []<>(\E c \in Calls : call[c].pc = "execute")
        => <>[](breaker.state = "closed")
=============================================================================
