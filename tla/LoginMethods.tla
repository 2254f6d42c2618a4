----------------------------- MODULE LoginMethods -----------------------------
(***************************************************************************)
(* The ways a user can sign in: the password, the OAuth accounts of table  *)
(* user_oauth_accounts, and the columns users.provider and provider_id of  *)
(* the account a user registered with.  Requests sign in with an OAuth     *)
(* identity (finding the user, or registering one), link and unlink        *)
(* identities, set passwords and change their profiles; administrators     *)
(* deactivate, delete and change e-mail addresses.                         *)
(*                                                                         *)
(* Every statement is one step and statements of different requests        *)
(* interleave: nothing but CreateUser's constraints is transactional.      *)
(* The constraints of the schema hold: e-mail addresses, (provider,        *)
(* provider_id) and (user_id, provider) are unique, and deleting a user    *)
(* deletes the accounts that reference it.  Names, avatars and tokens are  *)
(* left out, but not the UPDATE that stores a name or an avatar: it writes *)
(* the whole row back as it was read, the address with it.                 *)
(***************************************************************************)
EXTENDS Naturals, FiniteSets

CONSTANTS
    Users,        \* user ids (uuid.New: each is used once)
    Identities,   \* OAuth identities: a provider and an id at the provider
    Emails,       \* e-mail addresses
    ProviderOf,   \* ProviderOf[i]: "google" or "github"
    EmailOf,      \* EmailOf[i]: the verified address the provider reports
    Callers,      \* concurrent requests
    NoUser, NoIdentity, NoEmail

Providers == {"google", "github"}

ASSUME IdentityAssumption ==
    /\ ProviderOf \in [Identities -> Providers]
    /\ EmailOf \in [Identities -> Emails]
    /\ NoIdentity \notin Identities /\ NoEmail \notin Emails
ASSUME UserAssumption == NoUser \notin Users /\ IsFiniteSet(Users)
ASSUME FiniteIdentities == IsFiniteSet(Identities)

VARIABLES
    row,       \* row[u]: "unused", "live" or "deleted"
    active,    \* active[u]: users.is_active
    password,  \* password[u]: the user has a password
    origin,    \* origin[u]: users.provider and provider_id, or NoIdentity ("local")
    email,     \* email[u]: the address of a live user
    linked,    \* linked[i]: the user_id of the row of identity i, or NoUser
    pc,        \* pc[c]: where request c is
    who,       \* who[c]: the user it is about
    ident,     \* ident[c]: the identity it is about
    links,     \* links[c]: calls of LinkOAuthAccount it has left
    held,      \* held[c]: the address in the row it has read and will write back
    \* History, read by no action:
    moved,     \* users whose address an administrator has changed
    kept,      \* kept[u]: that address, if no request held the row at the time
    overtaken  \* unlinks whose user lost an account to another unlink since
               \* they counted the accounts

users == <<row, active, password, origin, email>>
call == <<pc, who, ident, links, held>>
history == <<moved, kept, overtaken>>
vars == <<users, linked, call, history>>

Stages == {"idle", "fallback", "by_email", "create",      \* HandleOAuthLogin
           "login_check", "login_insert",
           "rewrite",                                     \* Update
           "link_check", "link_insert",                   \* LinkOAuthAccount
           "count_with_password", "count_without", "unlink"}   \* UnlinkOAuthAccount

TypeOK ==
    /\ row \in [Users -> {"unused", "live", "deleted"}]
    /\ active \in [Users -> BOOLEAN]
    /\ password \in [Users -> BOOLEAN]
    /\ origin \in [Users -> Identities \cup {NoIdentity}]
    /\ email \in [Users -> Emails \cup {NoEmail}]
    /\ linked \in [Identities -> Users \cup {NoUser}]
    /\ pc \in [Callers -> Stages]
    /\ who \in [Callers -> Users \cup {NoUser}]
    /\ ident \in [Callers -> Identities \cup {NoIdentity}]
    /\ links \in [Callers -> 0 .. 2]
    /\ held \in [Callers -> Emails \cup {NoEmail}]
    /\ moved \in SUBSET Users
    /\ kept \in [Users -> Emails \cup {NoEmail}]
    /\ overtaken \in SUBSET Callers

Init ==
    /\ row = [u \in Users |-> "unused"]
    /\ active = [u \in Users |-> TRUE]
    /\ password = [u \in Users |-> FALSE]
    /\ origin = [u \in Users |-> NoIdentity]
    /\ email = [u \in Users |-> NoEmail]
    /\ linked = [i \in Identities |-> NoUser]
    /\ pc = [c \in Callers |-> "idle"]
    /\ who = [c \in Callers |-> NoUser]
    /\ ident = [c \in Callers |-> NoIdentity]
    /\ links = [c \in Callers |-> 0]
    /\ held = [c \in Callers |-> NoEmail]
    /\ moved = {}
    /\ kept = [u \in Users |-> NoEmail]
    /\ overtaken = {}

Live == {u \in Users : row[u] = "live"}

At(c, stage) == pc[c] = stage

\* The request goes on at a stage, and holds address e of the row of user u.
GotoHolding(c, stage, u, i, n, e) ==
    /\ pc' = [pc EXCEPT ![c] = stage]
    /\ who' = [who EXCEPT ![c] = u]
    /\ ident' = [ident EXCEPT ![c] = i]
    /\ links' = [links EXCEPT ![c] = n]
    /\ held' = [held EXCEPT ![c] = e]

Goto(c, stage, u, i, n) == GotoHolding(c, stage, u, i, n, NoEmail)

End(c) == Goto(c, "idle", NoUser, NoIdentity, 0)

-----------------------------------------------------------------------------
(* Rows of users *)

FreeEmail(e) == \A u \in Live : email[u] # e

\* INSERT INTO users: the UNIQUE constraint on email decides.
Insert(u, e, i) ==
    /\ row[u] = "unused"
    /\ FreeEmail(e)
    /\ row' = [row EXCEPT ![u] = "live"]
    /\ email' = [email EXCEPT ![u] = e]
    /\ origin' = [origin EXCEPT ![u] = i]
    /\ UNCHANGED active

\* Register with a password; a refused registration changes nothing.
Register(u, e) ==
    /\ Insert(u, e, NoIdentity)
    /\ password' = [password EXCEPT ![u] = TRUE]
    /\ UNCHANGED <<linked, call, history>>

\* SetPassword, the first one or a change: no user loses the password again.
SetPassword(u) ==
    /\ u \in Live
    /\ password' = [password EXCEPT ![u] = TRUE]
    /\ UNCHANGED <<row, active, origin, email, linked, call, history>>

SetActive(u, value) ==
    /\ u \in Live
    /\ active' = [active EXCEPT ![u] = value]
    /\ UNCHANGED <<row, password, origin, email, linked, call, history>>

\* The requests that will write the row of user u back.
Holders(u) == {c \in Callers : who[c] = u /\ held[c] # NoEmail}

\* An administrator gives the user another address (UpdateUser).
ChangeEmail(u, e) ==
    /\ u \in Live /\ FreeEmail(e)
    /\ email' = [email EXCEPT ![u] = e]
    /\ moved' = moved \cup {u}
    /\ kept' = [kept EXCEPT ![u] = IF Holders(u) = {} THEN e ELSE NoEmail]
    /\ UNCHANGED <<row, active, password, origin, linked, call, overtaken>>

\* DeleteUser: nothing of the row is left, and ON DELETE CASCADE removes the
\* accounts.
DeleteUser(u) ==
    /\ u \in Live
    /\ row' = [row EXCEPT ![u] = "deleted"]
    /\ active' = [active EXCEPT ![u] = TRUE]
    /\ password' = [password EXCEPT ![u] = FALSE]
    /\ origin' = [origin EXCEPT ![u] = NoIdentity]
    /\ email' = [email EXCEPT ![u] = NoEmail]
    /\ linked' = [i \in Identities |-> IF linked[i] = u THEN NoUser ELSE linked[i]]
    /\ moved' = moved \ {u}
    /\ kept' = [kept EXCEPT ![u] = NoEmail]
    /\ UNCHANGED <<call, overtaken>>

-----------------------------------------------------------------------------
(* LinkOAuthAccount: a SELECT, then an INSERT ... ON CONFLICT. A SELECT that  *)
(* fails counts as one that finds nothing.                                    *)

\* A different user owns the identity already: ErrOAuthAccountLinked.
Taken(c) == linked[ident[c]] \notin {NoUser, who[c]}

\* The INSERT violates user_id's foreign key or UNIQUE(user_id, provider).
LinkError(c) ==
    \/ who[c] \notin Live
    \/ /\ linked[ident[c]] = NoUser
       /\ \E i \in Identities :
             linked[i] = who[c] /\ ProviderOf[i] = ProviderOf[ident[c]]

\* Mutant of LinkRow: ON CONFLICT gives the row to the caller's user.
LinkRowStealing(c) ==
    linked' = IF LinkError(c) THEN linked
              ELSE [linked EXCEPT ![ident[c]] = who[c]]

\* A row of another user is left alone (the WHERE of ON CONFLICT), without
\* an error. The statement may also fail of itself.
LinkRow(c) ==
    \/ ~LinkError(c) /\ ~Taken(c) /\ linked' = [linked EXCEPT ![ident[c]] = who[c]]
    \/ UNCHANGED linked

\* A signed-in user links an identity.
LinkStart(c, u, i) ==
    /\ At(c, "idle") /\ row[u] # "unused"
    /\ Goto(c, "link_check", u, i, 1)
    /\ UNCHANGED <<users, linked, history>>

LinkCheck(c) ==
    /\ At(c, "link_check")
    /\ \/ Taken(c) /\ End(c)
       \/ Goto(c, "link_insert", who[c], ident[c], 0)
    /\ UNCHANGED <<users, linked, history>>

LinkInsert(c) ==
    /\ At(c, "link_insert")
    /\ LinkRow(c)
    /\ End(c)
    /\ UNCHANGED <<users, history>>

-----------------------------------------------------------------------------
(* Update: the row as it was read, with a new name or avatar. *)

\* Mutant of AddressRead: the provider's address is taken over into the row.
AddressReported(u, i) == IF i = NoIdentity THEN email[u] ELSE EmailOf[i]

\* What the row, read now, says the address is.
AddressRead(u, i) == email[u]

\* UpdateProfile reads the row.
UpdateProfile(c, u) ==
    /\ At(c, "idle") /\ u \in Live
    /\ GotoHolding(c, "rewrite", u, NoIdentity, 0, AddressRead(u, NoIdentity))
    /\ UNCHANGED <<users, linked, history>>

\* The UPDATE matches no row when the user is gone, and fails when a constraint
\* does, here the one on the address or the one on the name. A sign-in ignores
\* the error.
Rewrite(c) ==
    /\ At(c, "rewrite")
    /\ \/ /\ who[c] \in Live /\ \A u \in Live \ {who[c]} : email[u] # held[c]
          /\ email' = [email EXCEPT ![who[c]] = held[c]]
       \/ UNCHANGED email
    /\ IF links[c] = 1 THEN Goto(c, "login_check", who[c], ident[c], 1) ELSE End(c)
    /\ UNCHANGED <<row, active, password, origin, linked, history>>

-----------------------------------------------------------------------------
(* HandleOAuthLogin: a query that fails counts as one that finds no user. *)

\* The user is found by its identity: refused when deactivated, else given the
\* provider's avatar if it has none, and the account is refreshed.
Found(c, u, i) ==
    IF active[u]
    THEN \/ Goto(c, "login_check", u, i, 1)
         \/ GotoHolding(c, "rewrite", u, i, 1, AddressRead(u, i))
    ELSE End(c)

\* By its address: the account is linked first.
FoundByEmail(c, u, i) ==
    IF active[u]
    THEN \/ Goto(c, "login_check", u, i, 1)
         \/ GotoHolding(c, "login_check", u, i, 1, AddressRead(u, i))
    ELSE End(c)

\* By the row of the identity ...
LoginByAccount(c, i) ==
    /\ At(c, "idle")
    /\ \/ linked[i] # NoUser /\ Found(c, linked[i], i)
       \/ Goto(c, "fallback", NoUser, i, 0)
    /\ UNCHANGED <<users, linked, history>>

\* ... by the columns of users ...
LoginByOrigin(c) ==
    /\ At(c, "fallback")
    /\ \/ \E u \in Live : origin[u] = ident[c] /\ Found(c, u, ident[c])
       \/ Goto(c, "by_email", NoUser, ident[c], 0)
    /\ UNCHANGED <<users, linked, history>>

\* ... by its address ...
LoginByEmail(c) ==
    /\ At(c, "by_email")
    /\ \/ \E u \in Live : email[u] = EmailOf[ident[c]] /\ FoundByEmail(c, u, ident[c])
       \/ Goto(c, "create", NoUser, ident[c], 0)
    /\ UNCHANGED <<users, linked, history>>

\* Mutant of LoginCreate: without the UNIQUE constraint on email.
LoginCreateTwin(c, u) ==
    /\ At(c, "create")
    /\ row[u] = "unused"
    /\ row' = [row EXCEPT ![u] = "live"]
    /\ email' = [email EXCEPT ![u] = EmailOf[ident[c]]]
    /\ origin' = [origin EXCEPT ![u] = ident[c]]
    /\ Goto(c, "login_check", u, ident[c], 2)
    /\ UNCHANGED <<active, password, linked, history>>

\* ... or a new user without a password. Create links the identity, and
\* HandleOAuthLogin links it once more, unless the reply to the INSERT is lost.
LoginCreate(c, u) ==
    /\ At(c, "create")
    /\ Insert(u, EmailOf[ident[c]], ident[c])
    /\ Goto(c, "login_check", u, ident[c], 2) \/ End(c)
    /\ UNCHANGED <<password, linked, history>>

LoginCreateFails(c) ==
    /\ At(c, "create")
    /\ End(c)
    /\ UNCHANGED <<users, linked, history>>

\* One link call ends, whatever it returned: the next one, the avatar, or the
\* session.
NextLink(c) ==
    IF links[c] > 1 THEN Goto(c, "login_check", who[c], ident[c], links[c] - 1)
    ELSE IF held[c] = NoEmail THEN End(c)
    ELSE GotoHolding(c, "rewrite", who[c], ident[c], 0, held[c])

LoginLinkCheck(c) ==
    /\ At(c, "login_check")
    /\ \/ Taken(c) /\ NextLink(c)
       \/ GotoHolding(c, "login_insert", who[c], ident[c], links[c], held[c])
    /\ UNCHANGED <<users, linked, history>>

LoginLinkInsert(c) ==
    /\ At(c, "login_insert")
    /\ LinkRow(c)
    /\ NextLink(c)
    /\ UNCHANGED <<users, history>>

-----------------------------------------------------------------------------
(* UnlinkOAuthAccount: the user's password, the number of accounts, DELETE. *)

Accounts(u) == {i \in Identities : linked[i] = u}

\* The account of the provider of identity i; the user may have another one.
UnlinkStart(c, u, i) ==
    /\ At(c, "idle") /\ u \in Live
    /\ Goto(c, IF password[u] THEN "count_with_password" ELSE "count_without", u, i, 0)
    /\ UNCHANGED <<users, linked, history>>

\* No password and at most one account: ErrCannotUnlinkLastAuth.
UnlinkCount(c) ==
    /\ pc[c] \in {"count_with_password", "count_without"}
    /\ IF At(c, "count_without") /\ Cardinality(Accounts(who[c])) <= 1 THEN End(c)
       ELSE Goto(c, "unlink", who[c], ident[c], 0)
    /\ UNCHANGED <<users, linked, history>>

\* The accounts the DELETE matches: of the user, by provider.
Unlinked(c) ==
    {i \in Accounts(who[c]) : ProviderOf[i] = ProviderOf[ident[c]]}

\* The unlinks of the same user that have counted the accounts already.
Overtakes(c) == {d \in Callers : At(d, "unlink") /\ who[d] = who[c]}

UnlinkDelete(c) ==
    /\ At(c, "unlink")
    /\ linked' = [i \in Identities |-> IF i \in Unlinked(c) THEN NoUser ELSE linked[i]]
    /\ overtaken' = (IF Unlinked(c) = {} THEN overtaken ELSE overtaken \cup Overtakes(c))
                      \ {c}
    /\ End(c)
    /\ UNCHANGED <<users, moved, kept>>

\* A query or the DELETE fails.
UnlinkFails(c) ==
    /\ pc[c] \in {"count_with_password", "count_without", "unlink"}
    /\ overtaken' = overtaken \ {c}
    /\ End(c)
    /\ UNCHANGED <<users, linked, moved, kept>>

-----------------------------------------------------------------------------
Step(c) ==
    \/ LinkCheck(c) \/ LinkInsert(c)
    \/ LoginByOrigin(c) \/ LoginByEmail(c) \/ LoginCreateFails(c)
    \/ (\E u \in Users : LoginCreate(c, u))
    \/ LoginLinkCheck(c) \/ LoginLinkInsert(c) \/ Rewrite(c)
    \/ UnlinkCount(c) \/ UnlinkDelete(c) \/ UnlinkFails(c)

Next ==
    \/ \E u \in Users, e \in Emails : Register(u, e) \/ ChangeEmail(u, e)
    \/ \E u \in Users : SetPassword(u) \/ DeleteUser(u)
    \/ \E u \in Users, value \in BOOLEAN : SetActive(u, value)
    \/ \E c \in Callers, i \in Identities : LoginByAccount(c, i)
    \/ \E c \in Callers, u \in Users, i \in Identities :
          LinkStart(c, u, i) \/ UnlinkStart(c, u, i)
    \/ \E c \in Callers, u \in Users : UpdateProfile(c, u)
    \/ \E c \in Callers : Step(c)

Spec == Init /\ [][Next]_vars

-----------------------------------------------------------------------------
(* Properties *)

\* A linked identity never passes from one user to another, however link and
\* sign-in requests interleave: it has to be unlinked first (LinkOAuthAccount).
OwnerIsStable ==
    [][\A i \in Identities :
          linked[i] # NoUser => linked'[i] \in {linked[i], NoUser}]_vars

\* Concurrent first sign-ins with one identity register one user: two live
\* users with the same origin exist only after an administrator changed the
\* address of one of them (HandleOAuthLogin, users.email UNIQUE).
RegisteredOnce ==
    \A u, v \in Live :
        (u # v /\ origin[u] = origin[v] /\ origin[u] # NoIdentity)
            => u \in moved \/ v \in moved

\* An account row names a user that exists, through deletions between the
\* statements of a link or sign-in (user_oauth_accounts REFERENCES users).
LinkedToLive == \A i \in Identities : linked[i] # NoUser => linked[i] \in Live

\* An address given by an administrator stays until the next one: a profile
\* update or sign-in undoes it only if it had read the row before. (Update
\* writes all of the row; UpdateProfile, HandleOAuthLogin.)
AdminAddressStays == \A u \in Users : kept[u] # NoEmail => email[u] = kept[u]

\* The step of unlink c leaves its user, who has no password, without an account.
TakesLast(c) ==
    /\ At(c, "unlink") /\ pc'[c] # "unlink"
    /\ ~password[who[c]]
    /\ Accounts(who[c]) # {}
    /\ \A i \in Accounts(who[c]) : linked'[i] = NoUser

\* An unlink takes the last way to sign in only if another unlink of the same
\* user has removed an account since it counted them: no link, sign-in, profile
\* update or failed statement makes its check untrue before its DELETE
\* (UnlinkOAuthAccount, which checks and deletes without a transaction).
UnlinkKeepsMethod == [][\A c \in Callers : TakesLast(c) => c \in overtaken]_vars
=============================================================================
