----------------------------- MODULE ContactForm -----------------------------
(***************************************************************************)
(* The contact form over gRPC (grpc/server/contact.go): the limiter that   *)
(* keeps a bucket per address under one mutex, the messages in the         *)
(* database, and what an administrator does with them.  A tick refills one *)
(* message.  Over HTTP a middleware of the framework limits instead.       *)
(*                                                                         *)
(* Buckets are forgotten only when there are many of them and only after a *)
(* while: then they are full again, and an address cannot tell that its    *)
(* bucket was forgotten.                                                   *)
(***************************************************************************)
EXTENDS Naturals, FiniteSets

CONSTANTS
    Addresses,    \* addresses messages come from
    Burst,        \* messages in a full bucket (5)
    MaxEntries,   \* more buckets than this are looked through (1000)
    IdleFor,      \* a bucket unused for longer may be forgotten (15 ticks)
    MaxMessages   \* bound on the messages that are stored

\* What the proofs need of the constants: a bucket refills before it may be
\* forgotten (a token a tick; 5 tokens, 15 ticks).
ContactConstants == Burst \in Nat \ {0} /\ IdleFor \in Nat /\ Burst <= IdleFor + 1

VARIABLES
    limiters,   \* limiters[a]: whether a has a bucket, its tokens, its idle time
    messages,   \* the ids in contact_submissions
    stored      \* how many were stored

vars == <<limiters, messages, stored>>

NoBucket == [there |-> FALSE, tokens |-> 0, idle |-> 0]

Init ==
    /\ limiters = [a \in Addresses |-> NoBucket]
    /\ messages = {}
    /\ stored = 0

-----------------------------------------------------------------------------
(* The limiter *)

\* Mutant of Forgettable: also buckets that were used a moment ago.
ForgettableSoon(a) == limiters[a].idle > 0

Forgettable(a) == limiters[a].idle > IdleFor

\* Many buckets: those out of use for long go first.
Evicted ==
    IF Cardinality({a \in Addresses : limiters[a].there}) > MaxEntries
    THEN [a \in Addresses |-> IF Forgettable(a) THEN NoBucket ELSE limiters[a]]
    ELSE limiters

\* The bucket of a, a new and full one if there is none.
Entry(a) ==
    IF Evicted[a].there THEN [Evicted[a] EXCEPT !.idle = 0]
    ELSE [there |-> TRUE, tokens |-> Burst, idle |-> 0]

\* isAllowed: a message takes a token or is refused.
Allowed(a) == Entry(a).tokens > 0

After(a) ==
    [Evicted EXCEPT ![a] = [Entry(a) EXCEPT !.tokens = IF Allowed(a) THEN @ - 1 ELSE @]]

-----------------------------------------------------------------------------
(* Messages *)

\* The INSERT, by the service; it may fail.
Create ==
    \/ /\ stored < MaxMessages
       /\ stored' = stored + 1
       /\ messages' = messages \cup {stored + 1}
    \/ UNCHANGED <<messages, stored>>

\* Bots that fill the hidden field, and invalid messages, are answered before
\* the limiter is asked.
SendMessage(a) ==
    /\ limiters' = After(a)
    /\ IF Allowed(a) THEN Create ELSE UNCHANGED <<messages, stored>>

\* The handler of the form over HTTP.
Handle ==
    /\ Create
    /\ UNCHANGED limiters

DeleteSubmission(m) ==
    /\ messages' = messages \ {m}
    /\ UNCHANGED <<limiters, stored>>

Tick ==
    /\ limiters' = [a \in Addresses |->
          IF ~limiters[a].there THEN NoBucket
          ELSE [limiters[a] EXCEPT !.tokens = IF @ < Burst THEN @ + 1 ELSE @,
                                   !.idle = IF @ <= IdleFor THEN @ + 1 ELSE @]]
    /\ UNCHANGED <<messages, stored>>

-----------------------------------------------------------------------------
Next ==
    \/ (\E a \in Addresses : SendMessage(a)) \/ Handle
    \/ \E m \in messages : DeleteSubmission(m)
    \/ Tick

Spec == Init /\ [][Next]_vars

-----------------------------------------------------------------------------
(* Properties *)

\* Every address has a bucket of its own, full at the start, that only its own
\* messages and time change: forgetting one gives nobody a message more
\* (isAllowed; 30 minutes are more than the 10 that fill a bucket).
Held(a) == IF limiters[a].there THEN limiters[a].tokens ELSE Burst
Bucket == INSTANCE TokenBucket WITH
    Keys <- Addresses, Limit <- [a \in Addresses |-> Burst], Window <- Burst,
    bucket <- [a \in Addresses |-> Burst * Held(a)], crowded <- FALSE
AddressHasItsBucket == Bucket!Spec
=============================================================================
