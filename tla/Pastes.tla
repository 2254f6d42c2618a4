-------------------------------- MODULE Pastes --------------------------------
(***************************************************************************)
(* The pastebin: rows of table pastes, requests that read them (one        *)
(* SELECT, for a burn-after-read paste one DELETE, then the password), the *)
(* goroutines that count views after a request was answered, and requests  *)
(* that create, delete or do something else.                               *)
(*                                                                         *)
(* A request runs in a request context.  The slug it reads by is not a     *)
(* copy: Fiber is configured without Immutable, so over HTTP the string    *)
(* that c.Params returns is memory of the context, which the next request  *)
(* in the same context overwrites.  gRPC requests own their slug.          *)
(*                                                                         *)
(* Titles, contents and ciphertexts are left out: of a password only       *)
(* whether it was sent and opens the paste matters.  Listing changes       *)
(* nothing and is left out.                                                *)
(***************************************************************************)
EXTENDS Naturals, FiniteSets

CONSTANTS
    Pastes,      \* rows that are ever created
    Slugs,       \* 7-letter slugs
    Burn,        \* pastes created with burn_after_read
    Locked,      \* pastes created with a password
    Contexts,    \* request contexts
    Http,        \* those of them that are Fiber's
    Counters,    \* bound on view-counting goroutines alive at the same time
    MaxRetries,  \* maxRetries of CreatePaste
    MaxReads,    \* bound on the reads of a paste
    NoPaste, NoSlug, NoContext

ASSUME KindAssumption == Burn \subseteq Pastes /\ Locked \subseteq Pastes
ASSUME ContextAssumption == Http \subseteq Contexts
ASSUME BoundAssumption == MaxRetries \in Nat \ {0} /\ MaxReads \in Nat
ASSUME NothingAssumption ==
    NoPaste \notin Pastes /\ NoSlug \notin Slugs /\ NoContext \notin Contexts
ASSUME FiniteAssumption == IsFiniteSet(Counters)

VARIABLES
    row,       \* row[p]: "unused", "live", "gone" or "failed" (never inserted)
    slug,      \* slug[p]: its slug, kept when the row is gone
    tries,     \* tries[p]: INSERTs that collided
    expired,   \* pastes whose expires_at has passed
    views,     \* views[p]: the column views
    pc,        \* pc[c]: where the request in context c is
    path,      \* path[c]: the slug in the memory of context c, or NoSlug
    got,       \* got[c]: the row the SELECT of the request returned
    opens,     \* opens[c]: the request carries the password of what it reads
    of,        \* of[k]: the paste whose read started goroutine k, or NoPaste
    from,      \* from[k]: the context that read ran in
    \* History, read by no action but the bound on reads:
    delivered, \* delivered[p]: times the content of p was returned
    answered,  \* pastes a request for which has ended after finding them
    spared,    \* burn pastes a DELETE of which failed
    removed,   \* pastes deleted by a DELETE request
    astray     \* pastes a view of which was lost, or counted under another slug

table == <<row, slug, tries, expired>>
call == <<pc, path, got, opens>>
goroutine == <<of, from>>
history == <<delivered, answered, spared, removed, astray>>
vars == <<table, views, call, goroutine, history>>

TypeOK ==
    /\ row \in [Pastes -> {"unused", "live", "gone", "failed"}]
    /\ slug \in [Pastes -> Slugs \cup {NoSlug}]
    /\ tries \in [Pastes -> 0 .. MaxRetries]
    /\ expired \in SUBSET Pastes
    /\ views \in [Pastes -> Nat]
    /\ pc \in [Contexts -> {"idle", "burn", "open"}]
    /\ path \in [Contexts -> Slugs \cup {NoSlug}]
    /\ got \in [Contexts -> Pastes \cup {NoPaste}]
    /\ opens \in [Contexts -> BOOLEAN]
    /\ of \in [Counters -> Pastes \cup {NoPaste}]
    /\ from \in [Counters -> Contexts \cup {NoContext}]
    /\ delivered \in [Pastes -> Nat]
    /\ answered \in SUBSET Pastes
    /\ spared \in SUBSET Burn
    /\ removed \in SUBSET Pastes
    /\ astray \in SUBSET Pastes

Init ==
    /\ row = [p \in Pastes |-> "unused"]
    /\ slug = [p \in Pastes |-> NoSlug]
    /\ tries = [p \in Pastes |-> 0]
    /\ expired = {}
    /\ views = [p \in Pastes |-> 0]
    /\ pc = [c \in Contexts |-> "idle"]
    /\ path = [c \in Contexts |-> NoSlug]
    /\ got = [c \in Contexts |-> NoPaste]
    /\ opens = [c \in Contexts |-> FALSE]
    /\ of = [k \in Counters |-> NoPaste]
    /\ from = [k \in Counters |-> NoContext]
    /\ delivered = [p \in Pastes |-> 0]
    /\ answered = {}
    /\ spared = {}
    /\ removed = {}
    /\ astray = {}

Live == {p \in Pastes : row[p] = "live"}

\* The rows a statement with WHERE slug = s matches.
Named(s) == {p \in Live : slug[p] = s}

\* No other paste has had the slug of p, now or before it was deleted.
Sole(p) == \A q \in Pastes : slug[q] = slug[p] => q = p

At(c, stage) == pc[c] = stage /\ got[c] \in Pastes

End(c) ==
    /\ pc' = [pc EXCEPT ![c] = "idle"]
    /\ got' = [got EXCEPT ![c] = NoPaste]
    /\ opens' = [opens EXCEPT ![c] = FALSE]

-----------------------------------------------------------------------------
(* CreatePaste, and time *)

\* One INSERT under a random slug: slug is UNIQUE, and a collision is tried
\* again under another one until the attempts are used up.
Insert(p, s) ==
    /\ row[p] = "unused"
    /\ IF Named(s) = {}
       THEN /\ row' = [row EXCEPT ![p] = "live"]
            /\ slug' = [slug EXCEPT ![p] = s]
            /\ UNCHANGED tries
       ELSE /\ tries' = [tries EXCEPT ![p] = @ + 1]
            /\ row' = IF tries[p] + 1 = MaxRetries THEN [row EXCEPT ![p] = "failed"] ELSE row
            /\ UNCHANGED slug
    /\ UNCHANGED <<expired, views, call, goroutine, history>>

Expire(p) ==
    /\ row[p] = "live"
    /\ expired' = expired \cup {p}
    /\ UNCHANGED <<row, slug, tries, views, call, goroutine, history>>

-----------------------------------------------------------------------------
(* GetPasteBySlug and GetRawContent *)

Reading(p) == {c \in Contexts : got[c] = p}

\* The SELECT finds a paste that has not expired. (No more than MaxReads.)
Found(c, p, key) ==
    /\ delivered[p] + Cardinality(Reading(p)) < MaxReads
    /\ pc' = [pc EXCEPT ![c] = IF p \in Burn THEN "burn" ELSE "open"]
    /\ got' = [got EXCEPT ![c] = p]
    /\ opens' = [opens EXCEPT ![c] = key]

\* A request arrives in the context and reads by slug s. It ends at once when
\* there is no such paste (404), it has expired (410) or the SELECT fails.
Fetch(c, s, key) ==
    /\ pc[c] = "idle"
    /\ path' = [path EXCEPT ![c] = s]
    /\ \/ \E p \in Named(s) \ expired : Found(c, p, key)
       \/ UNCHANGED <<pc, got, opens>>
    /\ UNCHANGED <<table, views, goroutine, history>>

\* Mutant of BurnRow: burnt only for who holds the password.
BurnRowOpened(c) ==
    /\ At(c, "burn")
    /\ row' = [p \in Pastes |-> IF opens[c] /\ p \in Named(path[c]) THEN "gone" ELSE row[p]]
    /\ pc' = [pc EXCEPT ![c] = "open"]
    /\ UNCHANGED <<slug, tries, expired, views, path, got, opens, goroutine, history>>

\* A burn-after-read paste is deleted, by its slug, before the password is
\* looked at.
BurnRow(c) ==
    /\ At(c, "burn")
    /\ row' = [p \in Pastes |-> IF p \in Named(path[c]) THEN "gone" ELSE row[p]]
    /\ pc' = [pc EXCEPT ![c] = "open"]
    /\ UNCHANGED <<slug, tries, expired, views, path, got, opens, goroutine, history>>

\* The error of that DELETE is ignored.
BurnFails(c) ==
    /\ At(c, "burn")
    /\ pc' = [pc EXCEPT ![c] = "open"]
    /\ spared' = spared \cup ({got[c]} \cap Burn)
    /\ UNCHANGED <<table, views, path, got, opens, goroutine,
                   delivered, answered, removed, astray>>

\* The password is missing or wrong: a locked paste, or an error.
OpenRefused(c) ==
    /\ At(c, "open")
    /\ got[c] \in Locked /\ ~opens[c]
    /\ answered' = answered \cup {got[c]}
    /\ End(c)
    /\ UNCHANGED <<table, views, path, goroutine, delivered, spared, removed, astray>>

\* The content is returned, and a goroutine is started to count the view.
Open(c, k) ==
    /\ At(c, "open")
    /\ got[c] \notin Locked \/ opens[c]
    /\ of[k] = NoPaste
    /\ of' = [of EXCEPT ![k] = got[c]]
    /\ from' = [from EXCEPT ![k] = c]
    /\ delivered' = [delivered EXCEPT ![got[c]] = @ + 1]
    /\ answered' = answered \cup {got[c]}
    /\ End(c)
    /\ UNCHANGED <<table, views, path, spared, removed, astray>>

-----------------------------------------------------------------------------
(* IncrementViews, in a goroutine of its own *)

\* The slugs goroutine k may see: its own, and, once its context has another
\* request, what that wrote over it, a mixture, or still its own.
Seen(k) ==
    IF from[k] \in Http /\ path[from[k]] # slug[of[k]]
    THEN {slug[of[k]], path[from[k]], NoSlug}
    ELSE {slug[of[k]]}

Free(k) ==
    /\ of' = [of EXCEPT ![k] = NoPaste]
    /\ from' = [from EXCEPT ![k] = NoContext]

\* Mutant of Count: a retried UPDATE counts twice.
CountTwice(k) ==
    /\ of[k] # NoPaste
    /\ \E s \in Seen(k) :
          /\ views' = [p \in Pastes |-> IF p \in Named(s) THEN views[p] + 2 ELSE views[p]]
          /\ astray' = IF s = slug[of[k]] THEN astray ELSE astray \cup {of[k]} \cup Named(s)
    /\ Free(k)
    /\ UNCHANGED <<table, call, delivered, answered, spared, removed>>

Count(k) ==
    /\ of[k] # NoPaste
    /\ \E s \in Seen(k) :
          /\ views' = [p \in Pastes |-> IF p \in Named(s) THEN views[p] + 1 ELSE views[p]]
          /\ astray' = IF s = slug[of[k]] THEN astray ELSE astray \cup {of[k]} \cup Named(s)
    /\ Free(k)
    /\ UNCHANGED <<table, call, delivered, answered, spared, removed>>

\* Its error is ignored.
CountFails(k) ==
    /\ of[k] # NoPaste
    /\ astray' = astray \cup {of[k]}
    /\ Free(k)
    /\ UNCHANGED <<table, views, call, delivered, answered, spared, removed>>

-----------------------------------------------------------------------------
(* Other requests, and a restart of the server *)

DeletePaste(c, s) ==
    /\ pc[c] = "idle"
    /\ path' = [path EXCEPT ![c] = s]
    /\ row' = [p \in Pastes |-> IF p \in Named(s) THEN "gone" ELSE row[p]]
    /\ removed' = removed \cup Named(s)
    /\ UNCHANGED <<slug, tries, expired, views, pc, got, opens, goroutine,
                   delivered, answered, spared, astray>>

\* A request that has no slug where a paste request has it.
OtherRequest(c) ==
    /\ pc[c] = "idle"
    /\ path' = [path EXCEPT ![c] = NoSlug]
    /\ UNCHANGED <<table, views, pc, got, opens, goroutine, history>>

Restart ==
    /\ pc' = [c \in Contexts |-> "idle"]
    /\ path' = [c \in Contexts |-> NoSlug]
    /\ got' = [c \in Contexts |-> NoPaste]
    /\ opens' = [c \in Contexts |-> FALSE]
    /\ of' = [k \in Counters |-> NoPaste]
    /\ from' = [k \in Counters |-> NoContext]
    /\ astray' = astray \cup {p \in Pastes : \E k \in Counters : of[k] = p}
    /\ UNCHANGED <<table, views, delivered, answered, spared, removed>>

-----------------------------------------------------------------------------
Next ==
    \/ \E p \in Pastes, s \in Slugs : Insert(p, s)
    \/ \E p \in Pastes : Expire(p)
    \/ \E c \in Contexts, s \in Slugs :
          DeletePaste(c, s) \/ \E key \in BOOLEAN : Fetch(c, s, key)
    \/ \E c \in Contexts : BurnRow(c) \/ BurnFails(c) \/ OpenRefused(c) \/ OtherRequest(c)
    \/ \E c \in Contexts, k \in Counters : Open(c, k)
    \/ \E k \in Counters : Count(k) \/ CountFails(k)
    \/ Restart

Spec == Init /\ [][Next]_vars

-----------------------------------------------------------------------------
(* Properties *)

\* Once a request for a burn-after-read paste was answered, no later request
\* finds it, although SELECT and DELETE are two statements and requests overlap:
\* only a DELETE that failed lets it survive (GetPasteBySlug).
NoReadAfterBurn ==
    [][\A c \in Contexts, p \in Burn :
          (got[c] = NoPaste /\ got'[c] = p) => p \notin answered \/ p \in spared]_vars

\* A paste that does not burn goes away only by a DELETE request, unless its
\* slug was given out twice: every statement goes by slug, and what a slug names
\* may have changed since the SELECT (GetPasteBySlug, DeletePaste).
GoneOnRequest ==
    \A p \in Pastes :
        (row[p] = "gone" /\ p \notin Burn /\ Sole(p))
            => p \in removed

Pending(p) == {k \in Counters : of[k] = p}

\* The views of a paste are its deliveries, but for those still to be counted:
\* whatever deletions, failures and restarts come between the answer and the
\* goroutine, no view is counted twice or for a paste that was not read. The
\* exceptions are a lost view, one counted under a slug that another request
\* wrote over the goroutine's, and a slug given out twice (IncrementViews).
ViewsAreReads ==
    \A p \in Live :
        (p \notin astray /\ Sole(p))
            => views[p] + Cardinality(Pending(p)) = delivered[p]
=============================================================================
