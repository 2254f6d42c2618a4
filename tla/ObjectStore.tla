----------------------------- MODULE ObjectStore -----------------------------
(***************************************************************************)
(* The S3 engine (storage/s3.go).  The bucket may not exist when the       *)
(* server starts, and S3 (external) may not answer: a goroutine tries five *)
(* times to find or create the bucket and gives up, and a save whose PUT   *)
(* fails finds or creates it and tries once more.                          *)
(*                                                                         *)
(* An object is written as a whole.  A request that S3 does not answer may *)
(* still have taken effect.  What is compressed is left out.               *)
(***************************************************************************)
EXTENDS Naturals, FiniteSets

CONSTANTS
    Savers,      \* concurrent calls of Save and SaveWebP
    Keys,        \* keys of objects: <id>.zst and <id>.webp.zst
    Starter,     \* the goroutine NewS3Engine starts
    MaxTries,    \* how often it tries (5)
    MaxFailures  \* bound on the requests S3 fails to answer in a behaviour

Callers == Savers \cup {Starter}

\* What the proofs need of the constants.
StoreConstants ==
    /\ Starter \notin Savers /\ Keys # {}
    /\ MaxTries \in Nat /\ MaxFailures \in Nat

VARIABLES
    bucket,      \* whether the bucket exists
    objects,     \* the keys in it
    caller,      \* caller[c]: where c is, and its key
    tries,       \* attempts the starter has left
    failures,    \* requests S3 has not answered
    \* History, read by no action:
    unlucky,     \* savers of which S3 left a request unanswered
    deleted      \* savers whose key was deleted while they saved

vars == <<bucket, objects, caller, tries, failures, unlucky, deleted>>

TypeOK ==
    /\ bucket \in BOOLEAN
    /\ objects \subseteq Keys
    /\ caller \in [Callers -> [pc : {"idle", "put", "head", "create", "put again",
                                     "saved", "failed", "unread"},
                               key : Keys]]
    /\ tries \in 0..MaxTries
    /\ failures \in 0..MaxFailures
    /\ unlucky \subseteq Savers
    /\ deleted \subseteq Savers

Init ==
    /\ bucket \in BOOLEAN
    /\ objects = {}
    /\ caller \in [Callers -> [pc : {"idle"}, key : Keys]]
    /\ caller[Starter].key = CHOOSE k \in Keys : TRUE
    /\ \A c \in Savers : caller[c].key = CHOOSE k \in Keys : TRUE
    /\ tries = MaxTries
    /\ failures = 0
    /\ unlucky = {}
    /\ deleted = {}

Goto(c, pc) == caller' = [caller EXCEPT ![c].pc = pc]
At(c, pc) == caller[c].pc = pc

\* S3 does not answer c.
Unanswered(c) ==
    /\ failures < MaxFailures
    /\ failures' = failures + 1
    /\ unlucky' = unlucky \cup ({c} \cap Savers)

Answered == UNCHANGED <<failures, unlucky>>

-----------------------------------------------------------------------------
(* PUT *)

\* The stream is read to its end and compressed before anything is sent; when
\* that fails the call is over.
Save(c, k) ==
    /\ caller[c].pc \in {"idle", "saved", "failed", "unread"}
    /\ \E pc \in {"put", "unread"} : caller' = [caller EXCEPT ![c] = [pc |-> pc, key |-> k]]
    /\ unlucky' = unlucky \ {c}
    /\ deleted' = deleted \ {c}
    /\ UNCHANGED <<bucket, objects, tries, failures>>

\* The first PUT is followed by EnsureBucketExists when it fails, the second by
\* the end of the call.
AfterPut(c) == IF At(c, "put") THEN "head" ELSE "failed"

Put(c) ==
    /\ caller[c].pc \in {"put", "put again"}
    /\ \/ /\ bucket /\ Answered
          /\ objects' = objects \cup {caller[c].key}
          /\ Goto(c, "saved")
       \/ /\ ~bucket /\ Answered
          /\ Goto(c, AfterPut(c)) /\ UNCHANGED objects
       \/ /\ Unanswered(c)
          /\ \/ UNCHANGED objects
             \/ bucket /\ objects' = objects \cup {caller[c].key}
          /\ Goto(c, AfterPut(c))
    /\ UNCHANGED <<bucket, tries, deleted>>

-----------------------------------------------------------------------------
(* EnsureBucketExists: HEAD, and CREATE unless the bucket is there. *)

\* What becomes of the caller: a save tries its PUT again, or fails; the starter
\* ends, or tries later.
Ensured(c, found) ==
    IF c = Starter
    THEN /\ Goto(c, "idle")
         /\ tries' = IF found THEN 0 ELSE tries - 1
    ELSE /\ Goto(c, IF found THEN "put again" ELSE "failed")
         /\ UNCHANGED tries

Head(c) ==
    /\ At(c, "head")
    /\ \/ bucket /\ Answered /\ Ensured(c, TRUE)
       \/ ~bucket /\ Answered /\ Goto(c, "create") /\ UNCHANGED tries
       \/ Unanswered(c) /\ Goto(c, "create") /\ UNCHANGED tries
    /\ UNCHANGED <<bucket, objects, deleted>>

\* Mutant of Create: the error for a bucket that somebody else created in the
\* meantime is one like any other.
CreateStrict(c) ==
    /\ At(c, "create")
    /\ \/ Answered /\ bucket' = TRUE /\ Ensured(c, ~bucket)
       \/ Unanswered(c) /\ bucket' \in {bucket, TRUE} /\ Ensured(c, FALSE)
    /\ UNCHANGED <<objects, deleted>>

\* Creating a bucket that is there already is fine.
Create(c) ==
    /\ At(c, "create")
    /\ \/ Answered /\ bucket' = TRUE /\ Ensured(c, TRUE)
       \/ Unanswered(c) /\ bucket' \in {bucket, TRUE} /\ Ensured(c, FALSE)
    /\ UNCHANGED <<objects, deleted>>

\* The goroutine of NewS3Engine.
StarterTries ==
    /\ At(Starter, "idle") /\ tries > 0
    /\ Goto(Starter, "head")
    /\ UNCHANGED <<bucket, objects, tries, failures, unlucky, deleted>>

-----------------------------------------------------------------------------
(* Delete: both objects of a file; a missing one is no error. *)

Delete(k) ==
    /\ bucket
    /\ objects' = objects \ {k}
    /\ deleted' = deleted \cup {c \in Savers : caller[c].key = k}
    /\ UNCHANGED <<bucket, caller, tries, failures, unlucky>>

-----------------------------------------------------------------------------
Next ==
    \/ \E c \in Savers, k \in Keys : Save(c, k)
    \/ \E c \in Savers : Put(c)
    \/ \E c \in Callers : Head(c) \/ Create(c)
    \/ StarterTries
    \/ \E k \in Keys : Delete(k)

Spec == Init /\ [][Next]_vars

-----------------------------------------------------------------------------
(* Properties *)

\* A save that succeeded has its object, and a save whose stream could be read
\* fails only if S3 left one of its requests unanswered: neither a missing
\* bucket, nor a starter that gave up long ago, nor several saves that create the
\* bucket at once make it fail.
SavesSucceed ==
    \A c \in Savers :
        /\ At(c, "saved") => caller[c].key \in objects \/ c \in deleted
        /\ At(c, "failed") => c \in unlucky
=============================================================================
