-------------------------------- MODULE Access --------------------------------
(***************************************************************************)
(* Who may do what: the gate in front of the privileged operations         *)
(* (grpc/server/auth_helper.go Authorize, middleware/token.go               *)
(* RequireTokenOrUserAuth) and the operations on the tables it reads,      *)
(* admin_users and users (grpc/server/admin.go, handler/user.go and their  *)
(* repositories).                                                          *)
(*                                                                         *)
(* A request passes the gate and then runs its statements one by one, so   *)
(* other requests, and an instance of the server that starts and           *)
(* bootstraps the configured superadmins, come in between.  Statements may *)
(* fail; DeleteUser and UpdateUser take a failed superadmin check for "no".*)
(***************************************************************************)
EXTENDS Naturals, FiniteSets

CONSTANTS
    Users,           \* accounts
    Configured,      \* accounts whose e-mail is in SUPERADMIN_EMAILS
    Requests,        \* requests in flight
    PermissionSets,  \* the permission lists AddAdmin and UpdatePermissions are given
    TokenScopes,     \* the scopes of the API token that calls
    Token,           \* a caller with that token
    Nobody           \* no user

\* What is assumed of the constants.
AccessAssumption ==
    /\ Configured \subseteq Users
    /\ Token \notin Users /\ Nobody \notin Users

\* A scope is <<area, verb>>; a permission is a scope, <<area, "*">> or Everything.
Everything == <<"*">>
AdminsManage == <<"admins", "manage">>
UsersManage == <<"users", "manage">>

VARIABLES
    account,   \* account[u]: the row of users
    admin,     \* admin[u]: the row of admin_users of user u
    call,      \* call[r]: what request r asks and how far it is
    granted    \* history: requests whose caller was entitled at some time since they began

tables == <<account, admin>>
vars == <<tables, call, granted>>

NoRow == [super |-> FALSE, may |-> {}, by |-> Nobody, row |-> FALSE]

SuperRow(by) == [super |-> TRUE, may |-> {Everything}, by |-> by, row |-> TRUE]

AdminOps == {"AddAdmin", "UpdatePermissions", "RemoveAdmin"}
UserOps == {"DeleteUser", "Activate", "Deactivate"}

\* What a request asks and how far it is. History: "excused" says that its
\* superadmin check failed or was overtaken by a bootstrap.
Idle == [op |-> "none", by |-> Nobody, on |-> Nobody, give |-> {}, pc |-> "idle",
         excused |-> FALSE]

TypeOK ==
    /\ account \in [Users -> {"new", "active", "inactive", "gone"}]
    /\ admin \in [Users -> [super : BOOLEAN, may : {{}, {Everything}} \cup PermissionSets,
                            by : Users \cup {Nobody}, row : BOOLEAN]]
    /\ call \in [Requests ->
          [op : AdminOps \cup UserOps \cup {"none"}, by : Users \cup {Token, Nobody},
           on : Users \cup {Nobody}, give : {{}} \cup PermissionSets,
           pc : {"idle", "gate", "lookup", "check", "clear", "write"},
           excused : BOOLEAN]]
    /\ granted \subseteq Requests

Exists(u) == account[u] \in {"active", "inactive"}

Init ==
    /\ account = [u \in Users |-> "new"]
    /\ admin = [u \in Users |-> NoRow]
    /\ call = [r \in Requests |-> Idle]
    /\ granted = {}

-----------------------------------------------------------------------------
(* The decision *)

Grants(permission, scope) ==
    permission \in {Everything, scope, <<scope[1], "*">>}

Scope(op) == IF op \in AdminOps THEN AdminsManage ELSE UsersManage

\* A token by its scopes; a user by its row, which a superadmin needs no
\* permission in. Neither gate looks at is_active.
Entitled(c) ==
    IF c.by = Token THEN \E s \in TokenScopes : Grants(s, Scope(c.op))
    ELSE /\ c.by \in Users /\ admin[c.by].row
         /\ \/ admin[c.by].super
            \/ \E p \in admin[c.by].may : Grants(p, Scope(c.op))

-----------------------------------------------------------------------------
(* Requests *)

Goto(r, pc) == call' = [call EXCEPT ![r].pc = pc]
End(r) == call' = [call EXCEPT ![r] = Idle]
At(r, op, pc) == call[r].op = op /\ call[r].pc = pc

Begin(r) ==
    /\ call[r].pc = "idle"
    /\ \E op \in AdminOps \cup UserOps, by \in {u \in Users : account[u] # "new"} \cup {Token},
          on \in {u \in Users : account[u] # "new"},
          give \in PermissionSets :
          call' = [call EXCEPT ![r] =
                      [Idle EXCEPT !.op = op, !.by = by, !.on = on, !.pc = "gate",
                                   !.give = IF op \in {"AddAdmin", "UpdatePermissions"}
                                            THEN give ELSE {}]]
    /\ UNCHANGED tables

FirstStep(op) ==
    CASE op = "AddAdmin" -> "lookup"
      [] op \in {"UpdatePermissions", "RemoveAdmin"} -> "write"
      [] op \in {"Activate", "Deactivate"} -> "lookup"
      [] op = "DeleteUser" -> "check"

\* Mutant of Gate: every administrator passes.
GateForAdmins(r) ==
    /\ call[r].pc = "gate"
    /\ IF Entitled(call[r]) \/ (call[r].by \in Users /\ admin[call[r].by].row)
       THEN Goto(r, FirstStep(call[r].op)) ELSE End(r)
    /\ UNCHANGED tables

Gate(r) ==
    /\ call[r].pc = "gate"
    /\ IF Entitled(call[r]) THEN Goto(r, FirstStep(call[r].op)) ELSE End(r)
    /\ UNCHANGED tables

\* Any statement may fail and end its request.
Fail(r) ==
    /\ call[r].pc \in {"gate", "lookup", "write"}
    /\ End(r)
    /\ UNCHANGED tables

-----------------------------------------------------------------------------
(* Administrators *)

LookupUser(r) ==
    /\ At(r, "AddAdmin", "lookup")
    /\ IF Exists(call[r].on) THEN Goto(r, "write") ELSE End(r)
    /\ UNCHANGED tables

Creator(c) == IF c.by = Token THEN Nobody ELSE c.by

\* Mutant of Upsert: the conflict overwrites a superadmin's permissions too.
UpsertOverwriting(c) ==
    IF Exists(c.on) /\ (Creator(c) = Nobody \/ Exists(Creator(c)))
    THEN [admin EXCEPT ![c.on] =
            [super |-> FALSE, may |-> c.give, by |-> Creator(c), row |-> TRUE]]
    ELSE admin

\* The INSERT, which on a conflict updates the permissions of an ordinary
\* administrator; the foreign keys ask that user and creator exist.
Upsert(c) ==
    LET old == admin[c.on] IN
    CASE old.row /\ ~old.super -> [admin EXCEPT ![c.on].may = c.give]
      [] ~old.row /\ Exists(c.on) /\ (Creator(c) = Nobody \/ Exists(Creator(c))) ->
           [admin EXCEPT ![c.on] =
              [super |-> FALSE, may |-> c.give, by |-> Creator(c), row |-> TRUE]]
      [] OTHER -> admin

AddAdmin(r) ==
    /\ At(r, "AddAdmin", "write")
    /\ admin' = Upsert(call[r])
    /\ End(r) /\ UNCHANGED account

UpdatePermissions(r) ==
    LET c == call[r] IN
    /\ At(r, "UpdatePermissions", "write")
    /\ admin' = IF admin[c.on].row /\ ~admin[c.on].super
                THEN [admin EXCEPT ![c.on].may = c.give] ELSE admin
    /\ End(r) /\ UNCHANGED account

RemoveAdmin(r) ==
    LET c == call[r] IN
    /\ At(r, "RemoveAdmin", "write")
    /\ admin' = IF admin[c.on].super THEN admin ELSE [admin EXCEPT ![c.on] = NoRow]
    /\ End(r) /\ UNCHANGED account

-----------------------------------------------------------------------------
(* Users *)

\* The superadmin check of DeleteUser and of a deactivation: a query that fails
\* lets the request go on as if the user were none.
SuperCheck(r, next) ==
    \/ /\ IF admin[call[r].on].super THEN End(r) ELSE Goto(r, next)
       /\ UNCHANGED tables
    \/ /\ call' = [call EXCEPT ![r].pc = next, ![r].excused = TRUE]
       /\ UNCHANGED tables

\* Mutant of CheckDelete: no check.
CheckDeleteNothing(r) ==
    /\ At(r, "DeleteUser", "check")
    /\ Goto(r, "clear")
    /\ UNCHANGED tables

CheckDelete(r) == At(r, "DeleteUser", "check") /\ SuperCheck(r, "clear")

\* Every row forgets that this user created it; an error is ignored.
ClearCreator(r) ==
    /\ At(r, "DeleteUser", "clear")
    /\ \/ admin' = [u \in Users |-> IF admin[u].by = call[r].on
                                     THEN [admin[u] EXCEPT !.by = Nobody] ELSE admin[u]]
       \/ UNCHANGED admin
    /\ Goto(r, "write") /\ UNCHANGED account

\* The row of users goes and takes the user's row of admin_users with it, unless
\* another row of admin_users names the user as its creator.
References(u) == {v \in Users \ {u} : admin[v].by = u}

DeleteUser(r) ==
    LET u == call[r].on IN
    /\ At(r, "DeleteUser", "write")
    /\ IF Exists(u) /\ References(u) = {}
       THEN /\ account' = [account EXCEPT ![u] = "gone"]
            /\ admin' = [admin EXCEPT ![u] = NoRow]
       ELSE UNCHANGED tables
    /\ End(r)

\* UpdateUser reads the row; only a deactivation asks for superadmins.
ReadUser(r) ==
    /\ call[r].op \in {"Activate", "Deactivate"} /\ call[r].pc = "lookup"
    /\ IF Exists(call[r].on)
       THEN Goto(r, IF call[r].op = "Deactivate" THEN "check" ELSE "write")
       ELSE End(r)
    /\ UNCHANGED tables

CheckDeactivate(r) == At(r, "Deactivate", "check") /\ SuperCheck(r, "write")

UpdateUser(r) ==
    LET u == call[r].on IN
    /\ call[r].op \in {"Activate", "Deactivate"} /\ call[r].pc = "write"
    /\ account' = IF Exists(u)
                  THEN [account EXCEPT ![u] =
                          IF call[r].op = "Activate" THEN "active" ELSE "inactive"]
                  ELSE account
    /\ End(r) /\ UNCHANGED admin

\* An account is registered.
Register(u) ==
    /\ account[u] = "new"
    /\ account' = [account EXCEPT ![u] = "active"]
    /\ UNCHANGED <<admin, call>>

\* An instance of the server starts and makes a configured user a superadmin.
\* The requests that have checked this user already do not see it.
BootstrapSuperadmins(u) ==
    /\ u \in Configured /\ Exists(u)
    /\ admin' = [admin EXCEPT ![u] = SuperRow(admin[u].by)]
    /\ call' = [r \in Requests |->
          [call[r] EXCEPT !.excused =
              @ \/ (call[r].on = u /\ call[r].op \in {"DeleteUser", "Deactivate"}
                      /\ call[r].pc \in {"clear", "write"})]]
    /\ UNCHANGED account

-----------------------------------------------------------------------------

Step(r) ==
    \/ Begin(r) \/ Gate(r) \/ Fail(r)
    \/ LookupUser(r) \/ AddAdmin(r) \/ UpdatePermissions(r) \/ RemoveAdmin(r)
    \/ CheckDelete(r) \/ ClearCreator(r) \/ DeleteUser(r)
    \/ ReadUser(r) \/ CheckDeactivate(r) \/ UpdateUser(r)

Next ==
    /\ \/ \E r \in Requests : Step(r)
       \/ \E u \in Users : Register(u) \/ BootstrapSuperadmins(u)
    /\ granted' = {r \in Requests : /\ call'[r].pc # "idle"
                                    /\ r \in granted \/ Entitled(call[r])'}

Spec == Init /\ [][Next]_vars

-----------------------------------------------------------------------------
(* Properties *)

\* No request demotes a superadmin: its row stays what it is as long as its
\* account does (repository/admin.go, the is_superadmin conditions of AddAdmin,
\* UpdatePermissions and RemoveAdmin).
SuperadminsStay ==
    [][\A u \in Users :
          admin[u].super => admin'[u].super \/ account'[u] = "gone"]_vars

\* A superadmin's account is deleted or deactivated only by a request whose
\* check failed, or came before the account was made a superadmin
\* (repository/user.go, DeleteUser and UpdateUser).
SuperadminsAreSafe ==
    [][\A u \in Users :
          admin[u].super /\ account'[u] # account[u] /\ account'[u] # "active"
              => \E r \in Requests : call[r].on = u /\ call[r].excused]_vars

\* What a request changes it changes for a caller who was entitled to it at some
\* moment since the request began: one whose permission was withdrawn before
\* has no effect any more (Authorize, RequireTokenOrUserAuth).
EffectsAreGranted ==
    [][\A r \in Requests :
          call'[r].pc # call[r].pc /\ tables' # tables => r \in granted]_vars
=============================================================================
