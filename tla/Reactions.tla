------------------------------- MODULE Reactions -------------------------------
(***************************************************************************)
(* The reactions under the posts: internal/repository/reaction.go and the  *)
(* service, handler and gRPC server above it.                              *)
(*                                                                         *)
(* A row is a slug and an account with one reaction type.  ToggleReaction  *)
(* is a transaction (SELECT ... FOR UPDATE, one write, COMMIT) followed by *)
(* two plain reads for the answer.  A lock is on a row: where there is no  *)
(* row yet the SELECT locks nothing, and the write is an upsert.           *)
(*                                                                         *)
(* The first read takes its rows one by one and never asks rows.Err: one   *)
(* that breaks off answers with the counts it had, and no error.           *)
(***************************************************************************)
EXTENDS Naturals, FiniteSets

CONSTANTS
    Slugs,          \* slugs reactions are stored under
    Users,          \* accounts
    Types,          \* model.AllowedReactionTypes
    OtherTypes,     \* other strings a request may name
    Requests,       \* requests that may run at the same time
    NoReaction,     \* no row
    Nobody          \* holds no lock

ASSUME UsersAssumption == IsFiniteSet(Users)
ASSUME TypesAssumption == OtherTypes \intersect Types = {}
ASSUME NothingAssumption == NoReaction \notin Types /\ Nobody \notin Requests

Keys == Slugs \X Users

VARIABLES
    users,          \* accounts that exist
    reaction,       \* reaction[k]: the type of the row of k, or NoReaction
    lock,           \* lock[k]: the transaction that holds the row of k
    pc,             \* pc[r]: the statement r runs next
    arg,            \* arg[r]: what r was asked to toggle
    found,          \* found[r]: what r's SELECT returned
    counts,         \* counts[r]: the counts r will answer with
    partial,        \* history: the requests whose read of the counts broke off
    last,           \* the request that committed last, until it has answered
    quiet           \* no row has changed since that commit

rows == <<users, reaction, lock>>
request == <<pc, arg, found, counts, partial>>
vars == <<rows, request, last, quiet>>

Toggle == [key : Keys, type : Types]
Asked == [key : Keys, type : Types \union OtherTypes]
Zero == [t \in Types |-> 0]

TypeOK ==
    /\ users \subseteq Users
    /\ reaction \in [Keys -> Types \union {NoReaction}]
    /\ lock \in [Keys -> Requests \union {Nobody}]
    /\ pc \in [Requests -> {"idle", "write", "counts", "own"}]
    /\ arg \in [Requests -> Toggle \union {<<>>}]
    /\ \A r \in Requests : pc[r] # "idle" => arg[r] \in Toggle
    /\ found \in [Requests -> Types \union {NoReaction}]
    /\ counts \in [Requests -> [Types -> Nat]]
    /\ partial \subseteq Requests
    /\ last \in Requests \union {Nobody} /\ (last # Nobody => pc[last] \in {"counts", "own"})
    /\ quiet \in BOOLEAN

Init ==
    /\ users = Users
    /\ reaction = [k \in Keys |-> NoReaction]
    /\ lock = [k \in Keys |-> Nobody]
    /\ pc = [r \in Requests |-> "idle"]
    /\ arg = [r \in Requests |-> <<>>]
    /\ found = [r \in Requests |-> NoReaction]
    /\ counts = [r \in Requests |-> Zero]
    /\ partial = {}
    /\ last = Nobody
    /\ quiet = FALSE

Free(k, r) == lock[k] \in {Nobody, r}
Goto(r, s) == pc' = [pc EXCEPT ![r] = s]

\* The request is over, and what it knew is gone with it.
End(r) ==
    /\ Goto(r, "idle")
    /\ arg' = [arg EXCEPT ![r] = <<>>]
    /\ found' = [found EXCEPT ![r] = NoReaction]
    /\ counts' = [counts EXCEPT ![r] = Zero]
    /\ partial' = partial \ {r}

-----------------------------------------------------------------------------
(* The transaction of ToggleReaction.                                        *)

\* SELECT ... FOR UPDATE waits for the row's holder, then locks the row if
\* there is one.  The session the request came with may be of an account that
\* has been deleted since.
ToggleRead(r, a) ==
    /\ pc[r] = "idle"
    /\ a.type \in Types
    /\ Free(a.key, r)
    /\ found' = [found EXCEPT ![r] = reaction[a.key]]
    /\ lock' = [lock EXCEPT ![a.key] = IF reaction[a.key] = NoReaction THEN @ ELSE r]
    /\ arg' = [arg EXCEPT ![r] = a]
    /\ Goto(r, "write")
    /\ UNCHANGED <<users, reaction, counts, partial, last, quiet>>

\* Mutant of Outcome: the first reaction is inserted ON CONFLICT DO NOTHING.
OutcomeDoNothing(r) ==
    LET now == reaction[arg[r].key] IN
    CASE found[r] = arg[r].type -> NoReaction
      [] found[r] = NoReaction /\ now = NoReaction -> arg[r].type
      [] OTHER -> now

\* What the row becomes: the DELETE and the UPDATE name the row that was found,
\* the INSERT is ON CONFLICT DO UPDATE.
Outcome(r) ==
    LET gone == found[r] # NoReaction /\ reaction[arg[r].key] = NoReaction
    IN  IF found[r] = arg[r].type \/ gone THEN NoReaction ELSE arg[r].type

\* The answer's "active", known by the branch that was taken.
Active(r) == found[r] # arg[r].type

\* GetReactionsBySlug: the counts of one slug, by type.
Tally(s) == [t \in Types |-> Cardinality({u \in Users : reaction[<<s, u>>] = t})]

\* Mutant of ToggleWrite: the summary is read before the commit, on another
\* connection of the pool.
ToggleWriteAfterCounts(r) ==
    LET k == arg[r].key IN
    /\ pc[r] = "write"
    /\ k[2] \in users
    /\ Free(k, r)
    /\ reaction' = [reaction EXCEPT ![k] = Outcome(r)]
    /\ lock' = [lock EXCEPT ![k] = Nobody]
    /\ counts' = [counts EXCEPT ![r] = Tally(k[1])]
    /\ last' = r
    /\ quiet' = TRUE
    /\ Goto(r, "own")
    /\ UNCHANGED <<users, arg, found, partial>>

\* The write waits for a row that another transaction holds.  The commit
\* unlocks the row.
ToggleWrite(r) ==
    LET k == arg[r].key IN
    /\ pc[r] = "write"
    /\ k[2] \in users
    /\ Free(k, r)
    /\ reaction' = [reaction EXCEPT ![k] = Outcome(r)]
    /\ lock' = [lock EXCEPT ![k] = Nobody]
    /\ last' = r
    /\ quiet' = TRUE
    /\ Goto(r, "counts")
    /\ UNCHANGED <<users, arg, found, counts, partial>>

\* The account is gone and the INSERT fails, or the client or the database is:
\* the deferred Rollback ends the transaction.
ToggleFails(r) ==
    /\ pc[r] = "write"
    /\ lock' = [k \in Keys |-> IF lock[k] = r THEN Nobody ELSE lock[k]]
    /\ End(r)
    /\ UNCHANGED <<users, reaction, last, quiet>>

-----------------------------------------------------------------------------
(* The answer: two reads outside the transaction, the counts and then the    *)
(* user's own reaction.  GET /posts/:slug/reactions does the same two.       *)

\* The groups of T are those whose row arrived: every type's, or fewer when the
\* read broke off.  The others stay at the zero they began with.
ReadCounts(r, T) ==
    /\ pc[r] = "counts"
    /\ counts' = [counts EXCEPT ![r] =
                    [t \in Types |-> IF t \in T THEN Tally(arg[r].key[1])[t] ELSE 0]]
    /\ partial' = IF T = Types THEN partial ELSE partial \union {r}
    /\ Goto(r, "own")
    /\ UNCHANGED <<rows, arg, found, last, quiet>>

\* What r committed has been answered.
Answer(r) ==
    /\ End(r)
    /\ last' = IF last = r THEN Nobody ELSE last
    /\ quiet' = (quiet /\ last # r)
    /\ UNCHANGED rows

\* The toggle stands and its request is answered with an error: the reply to
\* COMMIT was lost, or the query for the counts failed.
AnswerFails(r) == pc[r] = "counts" /\ Answer(r)

\* A query that fails here is taken for no reaction of one's own.
ReadOwn(r) == pc[r] = "own" /\ Answer(r)

-----------------------------------------------------------------------------
(* Moderation and the end of an account.                                     *)

Erase(K) ==
    /\ reaction' = [k \in Keys |-> IF k \in K THEN NoReaction ELSE reaction[k]]
    /\ quiet' = FALSE
    /\ UNCHANGED <<lock, request, last>>

Unlocked(K) == \A k \in K : lock[k] = Nobody

\* DELETE waits for the transactions that hold a row it wants.  U is one user,
\* or every user when the request names none.
DeleteReaction(s, U) ==
    /\ Unlocked({s} \X U)
    /\ Erase({s} \X U)
    /\ UNCHANGED users

\* The rows go with their account, ON DELETE CASCADE.
DeleteUser(u) ==
    /\ u \in users
    /\ Unlocked(Slugs \X {u})
    /\ users' = users \ {u}
    /\ Erase(Slugs \X {u})

-----------------------------------------------------------------------------

Next ==
    \/ \E r \in Requests :
          \/ \E a \in Asked : ToggleRead(r, a)
          \/ ToggleWrite(r) \/ ToggleFails(r) \/ AnswerFails(r) \/ ReadOwn(r)
          \/ \E T \in SUBSET Types : ReadCounts(r, T)
    \/ \E s \in Slugs : DeleteReaction(s, Users) \/ \E u \in Users : DeleteReaction(s, {u})
    \/ \E u \in Users : DeleteUser(u)

Spec == Init /\ [][Next]_vars

-----------------------------------------------------------------------------
(* Properties.                                                               *)

\* Between its SELECT and its commit, the row a toggle found stays as it was
\* found and in its hands: the branch it takes is the right one when it writes.
FoundIsStill ==
    \A r \in Requests : pc[r] = "write" /\ found[r] # NoReaction =>
        reaction[arg[r].key] = found[r] /\ lock[arg[r].key] = r

\* A locked row is locked by a transaction that is open on it: no way out of
\* ToggleReaction leaves a row that nobody could write again.
LocksAreHeld ==
    \A k \in Keys : lock[k] # Nobody => pc[lock[k]] = "write" /\ arg[lock[k]].key = k

\* No reaction outlives its account, whatever was in flight when it ended.
NothingOfDeletedUsers == \A k \in Keys : reaction[k] # NoReaction => k[2] \in users

\* When no row has changed since its commit, the counts a toggle answers with
\* are the ones it made, its own reaction among them exactly as "active" says.
\* Those of a read that broke off may be too low, and are never too high: a
\* reaction that was taken away is not counted any more.
AnswerAgrees ==
    \A r \in Requests : quiet /\ r = last /\ pc[r] = "own" =>
        /\ r \notin partial => counts[r] = Tally(arg[r].key[1])
        /\ \A t \in Types : counts[r][t] <= Tally(arg[r].key[1])[t]
        /\ Active(r) <=> reaction[arg[r].key] = arg[r].type

\* A toggle's two statements do what one would: the row moves as ReactionRow
\* says, and "active" is what happened to it.
Said == IF last = Nobody THEN <<>> ELSE <<arg[last].key, arg[last].type, Active(last)>>
Row == INSTANCE ReactionRow WITH Users <- Keys, said <- Said
TogglesAreAtomic == Row!Spec
=============================================================================
