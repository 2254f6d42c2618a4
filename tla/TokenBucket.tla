---------------------------- MODULE TokenBucket -----------------------------
(***************************************************************************)
(* What the token rate limiter promises: every key has a token bucket of   *)
(* its own that is there from the start and full, a request is granted     *)
(* only for a token of its key's bucket, and time refills every bucket.    *)
(* Nothing else changes a bucket, except that a request may find the       *)
(* limiter crowded and start another key's bucket afresh.                  *)
(*                                                                         *)
(* Tokens are counted in units: a request costs Window units, a tick       *)
(* refills Limit[k] units, so that a minute (Window ticks) refills         *)
(* Limit[k] requests.                                                      *)
(***************************************************************************)
EXTENDS Naturals

CONSTANTS
    Keys,     \* identifiers that are limited
    Limit,    \* Limit[k]: requests per minute, positive
    Window    \* ticks per minute, positive

VARIABLES
    bucket,   \* bucket[k]: units in the bucket of key k
    crowded   \* there is no room for one more bucket (the limiter's affair)

Cap(k) == Limit[k] * Window

Init == bucket = [k \in Keys |-> Cap(k)]

\* One tick of refill on n units of key k.
Refilled(k, n) == IF n + Limit[k] < Cap(k) THEN n + Limit[k] ELSE Cap(k)

Take(k) ==
    /\ bucket[k] >= Window
    /\ bucket' = [bucket EXCEPT ![k] = @ - Window]

\* A request on the full bucket of key k displaces the bucket of key j.
Crowd(k, j) ==
    /\ crowded
    /\ k # j
    /\ bucket[k] = Cap(k)
    /\ bucket' = [bucket EXCEPT ![k] = @ - Window, ![j] = Cap(j)]

Tick == bucket' = [k \in Keys |-> Refilled(k, bucket[k])]

Next ==
    \/ Tick
    \/ \E k \in Keys : Take(k)
    \/ \E k, j \in Keys : Crowd(k, j)

Spec == Init /\ [][Next]_bucket
=============================================================================
