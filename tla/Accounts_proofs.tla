-------------------------- MODULE Accounts_proofs ---------------------------
(***************************************************************************)
(* Proofs about accounts and what they may do: LoginMethods, for any       *)
(* users, identities, addresses and concurrent requests; then TwoFactor    *)
(* and Access, from what their parts assume of the constants.              *)
(***************************************************************************)
EXTENDS LoginMethods, TwoFactorPart, AccessPart, FiniteSetTheorems, TLAPS

-----------------------------------------------------------------------------
(* The inductive invariant, in named parts. *)

\* What a request knows at each of its stages.
CallOK ==
    \A c \in Callers :
        /\ pc[c] \notin {"idle", "rewrite"} => ident[c] \in Identities
        /\ pc[c] \notin {"idle", "fallback", "by_email", "create"} => who[c] \in Users
        /\ pc[c] \in {"login_check", "login_insert"} => links[c] \in {1, 2}
        /\ pc[c] = "rewrite" =>
              /\ held[c] # NoEmail
              /\ links[c] = 0 \/ (links[c] = 1 /\ ident[c] \in Identities)
        /\ held[c] # NoEmail =>
              /\ pc[c] \in {"login_check", "login_insert", "rewrite"}
              /\ row[who[c]] # "unused"

\* UNIQUE(user_id, provider)
OnePerProvider ==
    \A i, j \in Identities :
        (i # j /\ linked[i] # NoUser /\ linked[i] = linked[j])
            => ProviderOf[i] # ProviderOf[j]

\* UNIQUE(email)
OnePerEmail == \A u, v \in Live : u # v => email[u] # email[v]

\* A user registered by OAuth has the address its provider reported.
OriginAddress ==
    \A u \in Live :
        (origin[u] # NoIdentity /\ u \notin moved) => email[u] = EmailOf[origin[u]]

\* Whoever holds a row knows the user's address, unless an administrator has
\* changed it since.
HeldAddress ==
    \A c \in Callers :
        (held[c] # NoEmail /\ who[c] \in Live
           /\ (who[c] \notin moved \/ kept[who[c]] # NoEmail)) => held[c] = email[who[c]]

\* Every live user can be reached by an address.
LiveAddress == \A u \in Live : email[u] # NoEmail

\* Only a live user has an address that an administrator gave.
KeptIsLive == \A u \in Users : kept[u] # NoEmail => u \in Live

\* The part about accounts and identities,
AccountInv == TypeOK /\ CallOK /\ LinkedToLive /\ OnePerProvider

\* and the part about addresses.
AddressInv ==
    /\ OnePerEmail
    /\ OriginAddress
    /\ HeldAddress
    /\ LiveAddress
    /\ KeptIsLive
    /\ AdminAddressStays

\* The inductive invariant of the whole.
IInv == AccountInv /\ AddressInv

-----------------------------------------------------------------------------
LEMMA InitInv == Init => IInv
BY IdentityAssumption, UserAssumption
   DEF Init, IInv, AccountInv, AddressInv, TypeOK, Stages, CallOK, LinkedToLive,
       OnePerProvider, OnePerEmail, OriginAddress, HeldAddress, LiveAddress, KeptIsLive,
       AdminAddressStays, Live

\* The effect of LinkOAuthAccount's INSERT on the accounts.
LEMMA LinkRowEffect ==
    ASSUME IInv, NEW c \in Callers, ident[c] \in Identities, who[c] \in Users, LinkRow(c)
    PROVE  /\ linked' \in [Identities -> Users \cup {NoUser}]
           /\ \A i \in Identities : linked[i] # NoUser => linked'[i] = linked[i]
           /\ \A i \in Identities : linked'[i] # NoUser => linked'[i] \in Live
           /\ \A i, j \in Identities :
                 (i # j /\ linked'[i] # NoUser /\ linked'[i] = linked'[j])
                     => ProviderOf[i] # ProviderOf[j]
BY UserAssumption
   DEF IInv, AccountInv, TypeOK, LinkedToLive, OnePerProvider, LinkRow, LinkError, Taken

\* What the requests know, and the accounts.
LEMMA AccountStep == IInv /\ [Next]_vars => AccountInv'
<1> SUFFICES ASSUME IInv, [Next]_vars PROVE AccountInv'
  OBVIOUS
<1> USE IdentityAssumption, UserAssumption
    DEF IInv, AccountInv, TypeOK, Stages, CallOK, LinkedToLive, OnePerProvider, Live,
        users, call, history, At, Goto, GotoHolding, End, AddressRead
<1>1. ASSUME NEW u \in Users, NEW e \in Emails, Register(u, e) PROVE AccountInv'
  BY <1>1 DEF Register, Insert
<1>2. ASSUME NEW u \in Users, NEW e \in Emails, ChangeEmail(u, e) PROVE AccountInv'
  BY <1>2 DEF ChangeEmail, Holders
<1>3. ASSUME NEW u \in Users, SetPassword(u) PROVE AccountInv'
  BY <1>3 DEF SetPassword
<1>4. ASSUME NEW u \in Users, DeleteUser(u) PROVE AccountInv'
  BY <1>4 DEF DeleteUser
<1>5. ASSUME NEW u \in Users, NEW value \in BOOLEAN, SetActive(u, value) PROVE AccountInv'
  BY <1>5 DEF SetActive
<1>6. ASSUME NEW c \in Callers, NEW i \in Identities, LoginByAccount(c, i) PROVE AccountInv'
  <2>1. CASE linked[i] = NoUser
    BY <1>6, <2>1, SMTT(30) DEF LoginByAccount
  <2>2. CASE linked[i] # NoUser
    <3>1. linked[i] \in Users /\ row[linked[i]] = "live" /\ email[linked[i]] # NoEmail
      BY <2>2 DEF AddressInv, LiveAddress
    <3>2. CASE Goto(c, "idle", NoUser, NoIdentity, 0)
      BY <1>6, <3>2, SMTT(30) DEF LoginByAccount
    <3>3. CASE Goto(c, "login_check", linked[i], i, 1)
      BY <1>6, <3>1, <3>3, SMTT(30) DEF LoginByAccount
    <3>4. CASE GotoHolding(c, "rewrite", linked[i], i, 1, AddressRead(linked[i], i))
      BY <1>6, <3>1, <3>4, SMTT(30) DEF LoginByAccount
    <3> QED BY <1>6, <2>2, <3>2, <3>3, <3>4 DEF LoginByAccount, Found
  <2> QED BY <2>1, <2>2
<1>7. ASSUME NEW c \in Callers, NEW u \in Users, NEW i \in Identities, LinkStart(c, u, i)
      PROVE AccountInv'
  BY <1>7 DEF LinkStart
<1>8. ASSUME NEW c \in Callers, NEW u \in Users, NEW i \in Identities, UnlinkStart(c, u, i)
      PROVE AccountInv'
  BY <1>8 DEF UnlinkStart
<1>9. ASSUME NEW c \in Callers, LinkCheck(c) PROVE AccountInv'
  BY <1>9, SMTT(30) DEF LinkCheck
<1>10. ASSUME NEW c \in Callers, LinkInsert(c) PROVE AccountInv'
  BY <1>10, LinkRowEffect, SMTT(30) DEF LinkInsert
<1>11. ASSUME NEW c \in Callers, LoginByOrigin(c) PROVE AccountInv'
  BY <1>11, SMTT(30) DEF LoginByOrigin, Found, AddressInv, LiveAddress
<1>12. ASSUME NEW c \in Callers, LoginByEmail(c) PROVE AccountInv'
  <2>1. ASSUME NEW u \in Live, FoundByEmail(c, u, ident[c]) PROVE AccountInv'
    BY <1>12, <2>1, SMTT(30) DEF LoginByEmail, FoundByEmail, AddressInv, LiveAddress
  <2>2. CASE Goto(c, "create", NoUser, ident[c], 0)
    BY <1>12, <2>2, SMTT(30) DEF LoginByEmail
  <2> QED BY <1>12, <2>1, <2>2 DEF LoginByEmail
<1>13. ASSUME NEW c \in Callers, LoginCreateFails(c) PROVE AccountInv'
  BY <1>13 DEF LoginCreateFails
<1>14. ASSUME NEW c \in Callers, LoginLinkCheck(c) PROVE AccountInv'
  BY <1>14, SMTT(30) DEF LoginLinkCheck, NextLink
<1>15. ASSUME NEW c \in Callers, LoginLinkInsert(c) PROVE AccountInv'
  <2>1. CASE links[c] = 1
    BY <1>15, <2>1, LinkRowEffect, SMTT(30) DEF LoginLinkInsert, NextLink
  <2>2. CASE links[c] # 1
    BY <1>15, <2>2, LinkRowEffect, SMTT(30) DEF LoginLinkInsert, NextLink
  <2> QED BY <2>1, <2>2
<1>16. ASSUME NEW c \in Callers, UnlinkCount(c) PROVE AccountInv'
  BY <1>16, SMTT(30) DEF UnlinkCount
<1>17. ASSUME NEW c \in Callers, UnlinkDelete(c) PROVE AccountInv'
  BY <1>17, SMTT(30) DEF UnlinkDelete, Unlinked, Accounts, Overtakes
<1>22. ASSUME NEW c \in Callers, UnlinkFails(c) PROVE AccountInv'
  BY <1>22, SMTT(30) DEF UnlinkFails
<1>18. ASSUME NEW c \in Callers, NEW u \in Users, LoginCreate(c, u) PROVE AccountInv'
  BY <1>18, SMTT(30) DEF LoginCreate, Insert
<1>19. ASSUME NEW c \in Callers, NEW u \in Users, UpdateProfile(c, u) PROVE AccountInv'
  BY <1>19, SMTT(30) DEF UpdateProfile, AddressInv, LiveAddress
<1>20. ASSUME NEW c \in Callers, Rewrite(c) PROVE AccountInv'
  <2>1. CASE links[c] = 1
    BY <1>20, <2>1, SMTT(30) DEF Rewrite
  <2>2. CASE links[c] # 1
    BY <1>20, <2>2, SMTT(30) DEF Rewrite
  <2> QED BY <2>1, <2>2
<1>21. CASE UNCHANGED vars
  BY <1>21 DEF vars
<1> HIDE DEF IInv, AccountInv, users, call, history, At, Goto, GotoHolding, End, Live
<1> QED
  BY <1>1, <1>2, <1>3, <1>4, <1>5, <1>6, <1>7, <1>8, <1>9, <1>10, <1>11, <1>12, <1>13,
     <1>14, <1>15, <1>16, <1>17, <1>18, <1>19, <1>20, <1>21, <1>22
     DEF Next, Step

\* The addresses.
LEMMA AddressStep == IInv /\ [Next]_vars => AddressInv'
<1> SUFFICES ASSUME IInv, [Next]_vars PROVE AddressInv'
  OBVIOUS
<1> USE IdentityAssumption, UserAssumption
    DEF IInv, AccountInv, AddressInv, TypeOK, CallOK, OnePerEmail, OriginAddress,
        HeldAddress, LiveAddress, KeptIsLive, AdminAddressStays, Live,
        users, call, history, At, Goto, GotoHolding, End, FreeEmail, AddressRead
<1>1. ASSUME NEW u \in Users, NEW e \in Emails, Register(u, e) PROVE AddressInv'
  BY <1>1 DEF Register, Insert
<1>2. ASSUME NEW u \in Users, NEW e \in Emails, ChangeEmail(u, e) PROVE AddressInv'
  BY <1>2 DEF ChangeEmail, Holders
<1>3. ASSUME NEW u \in Users, SetPassword(u) PROVE AddressInv'
  BY <1>3 DEF SetPassword
<1>4. ASSUME NEW u \in Users, DeleteUser(u) PROVE AddressInv'
  BY <1>4 DEF DeleteUser
<1>5. ASSUME NEW u \in Users, NEW value \in BOOLEAN, SetActive(u, value) PROVE AddressInv'
  BY <1>5 DEF SetActive
<1>6. ASSUME NEW c \in Callers, NEW i \in Identities, LoginByAccount(c, i) PROVE AddressInv'
  BY <1>6 DEF LoginByAccount, Found
<1>7. ASSUME NEW c \in Callers, NEW u \in Users, NEW i \in Identities, LinkStart(c, u, i)
      PROVE AddressInv'
  BY <1>7 DEF LinkStart
<1>8. ASSUME NEW c \in Callers, NEW u \in Users, NEW i \in Identities, UnlinkStart(c, u, i)
      PROVE AddressInv'
  BY <1>8 DEF UnlinkStart
<1>9. ASSUME NEW c \in Callers, LinkCheck(c) PROVE AddressInv'
  BY <1>9 DEF LinkCheck
<1>10. ASSUME NEW c \in Callers, LinkInsert(c) PROVE AddressInv'
  BY <1>10, LinkRowEffect DEF LinkInsert
<1>11. ASSUME NEW c \in Callers, LoginByOrigin(c) PROVE AddressInv'
  BY <1>11 DEF LoginByOrigin, Found
<1>12. ASSUME NEW c \in Callers, LoginByEmail(c) PROVE AddressInv'
  <2>1. ASSUME NEW u \in Live, FoundByEmail(c, u, ident[c]) PROVE AddressInv'
    BY <1>12, <2>1 DEF LoginByEmail, FoundByEmail
  <2>2. CASE Goto(c, "create", NoUser, ident[c], 0)
    BY <1>12, <2>2 DEF LoginByEmail
  <2> QED BY <1>12, <2>1, <2>2 DEF LoginByEmail
<1>13. ASSUME NEW c \in Callers, LoginCreateFails(c) PROVE AddressInv'
  BY <1>13 DEF LoginCreateFails
<1>14. ASSUME NEW c \in Callers, LoginLinkCheck(c) PROVE AddressInv'
  BY <1>14, SMTT(30) DEF LoginLinkCheck, NextLink
<1>15. ASSUME NEW c \in Callers, LoginLinkInsert(c) PROVE AddressInv'
  <2>1. CASE links[c] = 1
    BY <1>15, <2>1, LinkRowEffect, SMTT(30) DEF LoginLinkInsert, NextLink
  <2>2. CASE links[c] # 1
    BY <1>15, <2>2, LinkRowEffect, SMTT(30) DEF LoginLinkInsert, NextLink
  <2> QED BY <2>1, <2>2
<1>16. ASSUME NEW c \in Callers, UnlinkCount(c) PROVE AddressInv'
  BY <1>16 DEF UnlinkCount
<1>17. ASSUME NEW c \in Callers, UnlinkDelete(c) PROVE AddressInv'
  BY <1>17 DEF UnlinkDelete, Unlinked, Accounts
<1>22. ASSUME NEW c \in Callers, UnlinkFails(c) PROVE AddressInv'
  BY <1>22 DEF UnlinkFails
<1>18. ASSUME NEW c \in Callers, NEW u \in Users, LoginCreate(c, u) PROVE AddressInv'
  BY <1>18 DEF LoginCreate, Insert
<1>19. ASSUME NEW c \in Callers, NEW u \in Users, UpdateProfile(c, u) PROVE AddressInv'
  BY <1>19 DEF UpdateProfile
<1>20. ASSUME NEW c \in Callers, Rewrite(c) PROVE AddressInv'
  BY <1>20 DEF Rewrite
<1>21. CASE UNCHANGED vars
  BY <1>21 DEF vars
<1> HIDE DEF IInv, AddressInv, users, call, history, At, Goto, GotoHolding, End, Live
<1> QED
  BY <1>1, <1>2, <1>3, <1>4, <1>5, <1>6, <1>7, <1>8, <1>9, <1>10, <1>11, <1>12, <1>13,
     <1>14, <1>15, <1>16, <1>17, <1>18, <1>19, <1>20, <1>21, <1>22
     DEF Next, Step

LEMMA StepInv == IInv /\ [Next]_vars => IInv'
BY AccountStep, AddressStep DEF IInv

-----------------------------------------------------------------------------
\* The inductive invariant holds in every reachable state (service/auth.go and
\* repository/user.go, with the statements of all requests interleaved).
THEOREM Invariance == Spec => []IInv
BY InitInv, StepInv, PTL DEF Spec

\* Type correctness of users, accounts and requests.
THEOREM TypeCorrect == Spec => []TypeOK
BY Invariance, PTL DEF IInv, AccountInv, AddressInv

\* Every account row names a user that exists (ON DELETE CASCADE and the
\* foreign key, through deletions in the middle of a link).
THEOREM AccountsOfLiveUsers == Spec => []LinkedToLive
BY Invariance, PTL DEF IInv, AccountInv, AddressInv

\* Concurrent first sign-ins with one identity register one user.
THEOREM OneRegistration == Spec => []RegisteredOnce
<1>1. IInv => RegisteredOnce
  BY DEF IInv, AddressInv, OnePerEmail, OriginAddress, RegisteredOnce, Live
<1> QED BY <1>1, Invariance, PTL

\* A profile update or sign-in undoes an administrator's address only if it had
\* read the row before (UpdateProfile, HandleOAuthLogin and the UPDATE of all
\* columns in repository/user.go).
THEOREM AddressesStay == Spec => []AdminAddressStays
BY Invariance, PTL DEF IInv, AccountInv, AddressInv

\* No interleaving of link and sign-in requests moves a linked identity from
\* one user to another.
THEOREM OwnersStable == Spec => OwnerIsStable
<1> DEFINE A == \A i \in Identities :
          linked[i] # NoUser => linked'[i] \in {linked[i], NoUser}
<1>1. IInv /\ [Next]_vars => [A]_vars
  <2> SUFFICES ASSUME IInv, Next PROVE A
    OBVIOUS
  <2> USE DEF IInv, AccountInv, TypeOK
  <2>1. UNCHANGED linked => A
    OBVIOUS
  <2>2. ASSUME NEW u \in Users, NEW e \in Emails, Register(u, e) \/ ChangeEmail(u, e)
        PROVE  UNCHANGED linked
    BY <2>2 DEF Register, ChangeEmail
  <2>3. ASSUME NEW u \in Users, NEW v \in BOOLEAN, SetPassword(u) \/ SetActive(u, v)
        PROVE  UNCHANGED linked
    BY <2>3 DEF SetPassword, SetActive
  <2>4. ASSUME NEW u \in Users, DeleteUser(u) PROVE A
    BY <2>4 DEF DeleteUser
  <2>5. ASSUME NEW c \in Callers, NEW i \in Identities, LoginByAccount(c, i)
        PROVE  UNCHANGED linked
    BY <2>5 DEF LoginByAccount
  <2>6. ASSUME NEW c \in Callers, NEW u \in Users, NEW i \in Identities,
               LinkStart(c, u, i) \/ UnlinkStart(c, u, i)
        PROVE  UNCHANGED linked
    BY <2>6 DEF LinkStart, UnlinkStart
  <2>11. ASSUME NEW c \in Callers, NEW u \in Users, UpdateProfile(c, u)
        PROVE  UNCHANGED linked
    BY <2>11 DEF UpdateProfile
  <2>7. ASSUME NEW c \in Callers, LinkInsert(c) \/ LoginLinkInsert(c) PROVE A
    <3>1. ident[c] \in Identities /\ who[c] \in Users /\ LinkRow(c)
      BY <2>7 DEF LinkInsert, LoginLinkInsert, At, CallOK
    <3> QED BY <3>1, LinkRowEffect
  <2>8. ASSUME NEW c \in Callers, UnlinkDelete(c) PROVE A
    BY <2>8 DEF UnlinkDelete, Unlinked, Accounts
  <2>9. ASSUME NEW c \in Callers, NEW u \in Users,
               LinkCheck(c) \/ LoginByOrigin(c) \/ LoginByEmail(c) \/ LoginCreateFails(c)
                 \/ LoginCreate(c, u) \/ LoginLinkCheck(c) \/ UnlinkCount(c) \/ UnlinkFails(c)
                 \/ Rewrite(c)
        PROVE  UNCHANGED linked
    BY <2>9 DEF LinkCheck, LoginByOrigin, LoginByEmail, LoginCreateFails, LoginCreate,
                LoginLinkCheck, UnlinkCount, UnlinkFails, Rewrite
  <2>10. ASSUME NEW c \in Callers, Step(c) PROVE A
    <3>1. CASE \E u \in Users : LoginCreate(c, u)
      BY <3>1, <2>1, <2>9
    <3>2. CASE LinkCheck(c) \/ LoginByOrigin(c) \/ LoginByEmail(c) \/ LoginCreateFails(c)
                 \/ LoginLinkCheck(c) \/ UnlinkCount(c) \/ UnlinkFails(c)
                 \/ Rewrite(c)
      BY <3>2, <2>1 DEF LinkCheck, LoginByOrigin, LoginByEmail, LoginCreateFails,
                        LoginLinkCheck, UnlinkCount, UnlinkFails, Rewrite
    <3> QED BY <2>10, <3>1, <3>2, <2>7, <2>8 DEF Step
  <2> QED BY <2>1, <2>2, <2>3, <2>4, <2>5, <2>6, <2>10, <2>11 DEF Next
<1>2. Spec => [][A]_vars
  BY <1>1, Invariance, PTL DEF Spec
<1> QED BY <1>2 DEF OwnerIsStable

-----------------------------------------------------------------------------
(* A user without a password keeps an account, unless unlinks overlap. *)

\* What an unlink that has read the password and the accounts relies on.
SawAnother ==
    \A c \in Callers :
        pc[c] \in {"count_with_password", "count_without", "unlink"} =>
            /\ row[who[c]] # "unused"
            /\ (pc[c] = "count_with_password" /\ who[c] \in Live) => password[who[c]]
            /\ (pc[c] = "unlink" /\ who[c] \in Live) =>
                  \/ password[who[c]]
                  \/ c \in overtaken
                  \/ \E i, j \in Accounts(who[c]) : i # j

\* More than one account means two different ones.
LEMMA TwoAccounts ==
    ASSUME NEW u \in Users, ~(Cardinality(Accounts(u)) <= 1)
    PROVE  \E i, j \in Accounts(u) : i # j
<1>1. IsFiniteSet(Accounts(u))
  BY FiniteIdentities, FS_Subset DEF Accounts
<1>2. Accounts(u) # {}
  BY FS_EmptySet
<1>3. PICK i \in Accounts(u) : TRUE
  BY <1>2
<1>4. SUFFICES ASSUME Accounts(u) = {i} PROVE FALSE
  BY <1>3
<1>5. Cardinality({i}) = 1
  BY FS_Singleton
<1> QED BY <1>4, <1>5

LEMMA SawAnotherStep == IInv /\ SawAnother /\ [Next]_vars => SawAnother'
<1> SUFFICES ASSUME IInv, SawAnother, [Next]_vars PROVE SawAnother'
  OBVIOUS
<1> USE IdentityAssumption, UserAssumption
    DEF IInv, AccountInv, TypeOK, Stages, CallOK, SawAnother, LinkedToLive, Live, Accounts,
        users, call, history, At, Goto, GotoHolding, End, FreeEmail, AddressRead
<1>1. ASSUME NEW u \in Users, NEW e \in Emails, Register(u, e) PROVE SawAnother'
  BY <1>1 DEF Register, Insert
<1>2. ASSUME NEW u \in Users, NEW e \in Emails, ChangeEmail(u, e) PROVE SawAnother'
  BY <1>2 DEF ChangeEmail
<1>3. ASSUME NEW u \in Users, SetPassword(u) PROVE SawAnother'
  BY <1>3 DEF SetPassword
<1>4. ASSUME NEW u \in Users, DeleteUser(u) PROVE SawAnother'
  BY <1>4 DEF DeleteUser
<1>5. ASSUME NEW u \in Users, NEW value \in BOOLEAN, SetActive(u, value) PROVE SawAnother'
  BY <1>5 DEF SetActive
<1>6. ASSUME NEW c \in Callers, NEW i \in Identities, LoginByAccount(c, i) PROVE SawAnother'
  BY <1>6 DEF LoginByAccount, Found
<1>7. ASSUME NEW c \in Callers, NEW u \in Users, NEW i \in Identities, LinkStart(c, u, i)
      PROVE SawAnother'
  BY <1>7 DEF LinkStart
<1>8. ASSUME NEW c \in Callers, NEW u \in Users, NEW i \in Identities, UnlinkStart(c, u, i)
      PROVE SawAnother'
  BY <1>8 DEF UnlinkStart
<1>9. ASSUME NEW c \in Callers, LinkCheck(c) PROVE SawAnother'
  BY <1>9 DEF LinkCheck
<1>10. ASSUME NEW c \in Callers, LinkInsert(c) PROVE SawAnother'
  BY <1>10, LinkRowEffect DEF LinkInsert
<1>11. ASSUME NEW c \in Callers, LoginByOrigin(c) PROVE SawAnother'
  BY <1>11 DEF LoginByOrigin, Found
<1>12. ASSUME NEW c \in Callers, LoginByEmail(c) PROVE SawAnother'
  BY <1>12 DEF LoginByEmail, FoundByEmail
<1>13. ASSUME NEW c \in Callers, LoginCreateFails(c) PROVE SawAnother'
  BY <1>13 DEF LoginCreateFails
<1>14. ASSUME NEW c \in Callers, LoginLinkCheck(c) PROVE SawAnother'
  BY <1>14 DEF LoginLinkCheck, NextLink
<1>15. ASSUME NEW c \in Callers, LoginLinkInsert(c) PROVE SawAnother'
  BY <1>15, LinkRowEffect DEF LoginLinkInsert, NextLink
<1>16. ASSUME NEW c \in Callers, UnlinkCount(c) PROVE SawAnother'
  BY <1>16, TwoAccounts DEF UnlinkCount
<1>17. ASSUME NEW c \in Callers, UnlinkDelete(c) PROVE SawAnother'
  BY <1>17 DEF UnlinkDelete, Unlinked, Overtakes
<1>22. ASSUME NEW c \in Callers, UnlinkFails(c) PROVE SawAnother'
  BY <1>22 DEF UnlinkFails
<1>18. ASSUME NEW c \in Callers, NEW u \in Users, LoginCreate(c, u) PROVE SawAnother'
  BY <1>18 DEF LoginCreate, Insert
<1>19. ASSUME NEW c \in Callers, NEW u \in Users, UpdateProfile(c, u) PROVE SawAnother'
  BY <1>19 DEF UpdateProfile
<1>20. ASSUME NEW c \in Callers, Rewrite(c) PROVE SawAnother'
  BY <1>20 DEF Rewrite
<1>21. CASE UNCHANGED vars
  BY <1>21 DEF vars
<1> HIDE DEF IInv, AccountInv, SawAnother, users, call, history, At, Goto, GotoHolding,
             End, Live, Accounts
<1> QED
  BY <1>1, <1>2, <1>3, <1>4, <1>5, <1>6, <1>7, <1>8, <1>9, <1>10, <1>11, <1>12, <1>13,
     <1>14, <1>15, <1>16, <1>17, <1>18, <1>19, <1>20, <1>21, <1>22
     DEF Next, Step

\* A step of an unlink removes the account of one provider, and no other step is
\* taken in its place.
LEMMA OnlyItsOwn ==
    ASSUME IInv, Next, NEW c \in Callers, pc[c] = "unlink", pc'[c] # "unlink",
           NEW i \in Identities, NEW j \in Identities, ProviderOf[i] # ProviderOf[j],
           linked[i] # NoUser, linked[j] # NoUser, linked'[i] = NoUser
    PROVE  linked'[j] = linked[j]
<1> USE DEF IInv, AccountInv, TypeOK, users, call, history, At, Goto, GotoHolding, End
<1>1. ASSUME NEW u \in Users, NEW e \in Emails, Register(u, e) \/ ChangeEmail(u, e)
      PROVE  FALSE
  BY <1>1 DEF Register, ChangeEmail
<1>2. ASSUME NEW u \in Users, SetPassword(u) \/ DeleteUser(u) PROVE FALSE
  BY <1>2 DEF SetPassword, DeleteUser
<1>10. ASSUME NEW u \in Users, NEW v \in BOOLEAN, SetActive(u, v) PROVE FALSE
  BY <1>10 DEF SetActive
<1>11. ASSUME NEW d \in Callers, NEW k \in Identities, LoginByAccount(d, k) PROVE FALSE
  BY <1>11 DEF LoginByAccount, Found
<1>12. ASSUME NEW d \in Callers, NEW u \in Users, NEW k \in Identities,
              LinkStart(d, u, k) \/ UnlinkStart(d, u, k)
       PROVE  FALSE
  BY <1>12 DEF LinkStart, UnlinkStart
<1>13. ASSUME NEW d \in Callers, NEW u \in Users, UpdateProfile(d, u) PROVE FALSE
  BY <1>13 DEF UpdateProfile
<1>3. ASSUME NEW d \in Callers, LinkCheck(d) \/ LinkInsert(d) PROVE FALSE
  BY <1>3 DEF LinkCheck, LinkInsert
<1>4. ASSUME NEW d \in Callers, LoginByOrigin(d) \/ LoginByEmail(d) \/ LoginCreateFails(d)
      PROVE  FALSE
  BY <1>4 DEF LoginByOrigin, LoginByEmail, Found, FoundByEmail, LoginCreateFails
<1>5. ASSUME NEW d \in Callers, NEW u \in Users, LoginCreate(d, u) PROVE FALSE
  BY <1>5 DEF LoginCreate
<1>6. ASSUME NEW d \in Callers, LoginLinkCheck(d) \/ LoginLinkInsert(d) \/ Rewrite(d)
      PROVE  FALSE
  BY <1>6 DEF LoginLinkCheck, LoginLinkInsert, Rewrite, NextLink
<1>7. ASSUME NEW d \in Callers, UnlinkCount(d) PROVE FALSE
  BY <1>7 DEF UnlinkCount
<1>8. ASSUME NEW d \in Callers, UnlinkDelete(d) PROVE linked'[j] = linked[j]
  BY <1>8 DEF UnlinkDelete, Unlinked
<1>9. ASSUME NEW d \in Callers, UnlinkFails(d) PROVE linked'[j] = linked[j]
  BY <1>9 DEF UnlinkFails
<1> HIDE DEF IInv, AccountInv, TypeOK, users, call, history, At, Goto, GotoHolding, End
<1> QED
  BY <1>1, <1>2, <1>3, <1>4, <1>5, <1>6, <1>7, <1>8, <1>9, <1>10, <1>11, <1>12, <1>13
     DEF Next, Step

\* However many requests overlap, the check before the DELETE keeps its promise to
\* everything but another unlink of the same user: a user without a password keeps
\* an account (UnlinkOAuthAccount).
THEOREM UnlinksKeepMethod == Spec => UnlinkKeepsMethod
<1> DEFINE A == \A c \in Callers : TakesLast(c) => c \in overtaken
<1>1. Init => SawAnother
  BY DEF Init, SawAnother
<1>2. IInv /\ SawAnother /\ [Next]_vars => SawAnother'
  BY SawAnotherStep
<1>3. IInv /\ SawAnother /\ [Next]_vars => [A]_vars
  <2> SUFFICES ASSUME IInv, SawAnother, Next, NEW c \in Callers, TakesLast(c), c \notin overtaken
               PROVE  FALSE
    OBVIOUS
  <2>1. who[c] \in Users /\ pc[c] = "unlink"
    BY DEF IInv, AccountInv, CallOK, TakesLast, At
  <2>2. who[c] \in Live
    BY <2>1, UserAssumption DEF IInv, AccountInv, LinkedToLive, TakesLast, Accounts
  <2>3. PICK i \in Accounts(who[c]), j \in Accounts(who[c]) : i # j
    BY <2>1, <2>2 DEF SawAnother, TakesLast
  <2>4. ProviderOf[i] # ProviderOf[j]
    BY <2>1, <2>3, UserAssumption DEF IInv, AccountInv, OnePerProvider, Accounts
  <2>5. linked'[i] = NoUser /\ linked'[j] = NoUser /\ linked[i] = who[c] /\ linked[j] = who[c]
    BY <2>3 DEF TakesLast, Accounts
  <2>6. pc'[c] # "unlink" /\ i \in Identities /\ j \in Identities
    BY <2>3 DEF TakesLast, Accounts
  <2> QED BY <2>1, <2>4, <2>5, <2>6, OnlyItsOwn, UserAssumption
<1>4. Spec => [][A]_vars
  BY <1>1, <1>2, <1>3, Invariance, PTL DEF Spec
<1> QED BY <1>4 DEF UnlinkKeepsMethod

-----------------------------------------------------------------------------
(***************************************************************************)
(* TwoFactor: for any secrets, recovery codes, batch size and requests.    *)
(***************************************************************************)

-----------------------------------------------------------------------------
(* The inductive invariant, in named parts. *)

\* What a request holds at each stage.
FactorCallOK ==
    \A r \in FactorCalls :
        /\ stage[r] \in {"enable", "enable_write"} => proof[r] \in Secrets
        /\ stage[r] # "idle" => proof[r] \in TF!Proofs
        /\ stage[r] = "consume_write" => proof[r] \in issued /\ proof[r] \notin read[r]

\* Codes come from Enable2FA only.
KnownCodes ==
    /\ codes \subseteq issued
    /\ \A r \in FactorCalls : read[r] \subseteq issued
    /\ \A x \in Codes : spent[x] # "no" => x \in issued

\* A code accepted alone is in no list from which it could be written back.
Forgotten ==
    \A x \in Codes : spent[x] = "alone" =>
        /\ x \notin codes
        /\ \A r \in FactorCalls :
              stage[r] = "consume_write" => x \notin read[r] /\ x # proof[r]

\* Whoever is about to write the list has read every code that is owed.
OwedRead ==
    /\ owed \subseteq codes
    /\ \A r \in FactorCalls : stage[r] = "consume_write"
                                => owed \subseteq read[r] \cup {proof[r]}

\* The inductive invariant of an account with two factors.
FactorInv == TF!TypeOK /\ FactorCallOK /\ KnownCodes /\ Forgotten /\ OwedRead

-----------------------------------------------------------------------------
\* It holds when nothing was enabled yet.
LEMMA FactorInit == ASSUME TF!Init PROVE FactorInv
<1>1. TF!TypeOK
  BY DEF TF!Init, TF!TypeOK, TF!Stages, TF!Proofs
<1>2. FactorCallOK
  BY DEF TF!Init, FactorCallOK
<1>3. KnownCodes
  BY DEF TF!Init, KnownCodes
<1>4. Forgotten
  BY DEF TF!Init, Forgotten
<1>5. OwedRead
  BY DEF TF!Init, OwedRead
<1> QED BY <1>1, <1>2, <1>3, <1>4, <1>5 DEF FactorInv

\* Every step of every request preserves it.
LEMMA FactorStep == ASSUME TF!ProofAssumption, FactorInv, [TF!Next]_TF!vars PROVE FactorInv'
<1> USE DEF TF!ProofAssumption, FactorInv, TF!TypeOK, TF!Stages, TF!Proofs, FactorCallOK,
            KnownCodes, Forgotten, OwedRead, TF!account, TF!call, TF!history, TF!At,
            TF!Begin, TF!Goto, TF!End
<1>1. CASE TF!Login \/ TF!ChallengeExpires
  <2>0. UNCHANGED <<TF!account, TF!call, TF!history>> /\ challenged' \in BOOLEAN
    BY <1>1 DEF TF!Login, TF!ChallengeExpires
  <2>1. TF!TypeOK' /\ FactorCallOK'
    BY <2>0
  <2>2. KnownCodes' /\ Forgotten' /\ OwedRead'
    BY <2>0
  <2> QED BY <2>1, <2>2
<1>2. ASSUME NEW s \in Secrets, TF!Setup2FA(s) PROVE FactorInv'
  BY <1>2 DEF TF!Setup2FA
<1>3. ASSUME NEW r \in FactorCalls, TF!Arrive(r) PROVE FactorInv'
  BY <1>3 DEF TF!Arrive
<1>4. ASSUME NEW r \in FactorCalls, TF!EnableRead(r) PROVE FactorInv'
  BY <1>4 DEF TF!EnableRead
<1>5. ASSUME NEW r \in FactorCalls, TF!Fails(r) PROVE FactorInv'
  BY <1>5 DEF TF!Fails
<1>6. ASSUME NEW r \in FactorCalls, TF!EnableWrite(r) PROVE FactorInv'
  <2>1. PICK batch \in SUBSET (Codes \ issued) :
           /\ codes' = batch
           /\ issued' = issued \cup batch
           /\ owed' \in {{}, IF TF!Consuming = {} THEN batch ELSE {}}
    BY <1>6 DEF TF!EnableWrite
  <2>2. TF!TypeOK' /\ FactorCallOK' /\ KnownCodes'
    BY <1>6, <2>1 DEF TF!EnableWrite
  <2>3. Forgotten'
    BY <1>6, <2>1 DEF TF!EnableWrite
  <2>4. OwedRead'
    BY <1>6, <2>1 DEF TF!EnableWrite, TF!Consuming
  <2> QED BY <2>2, <2>3, <2>4
<1>7. ASSUME NEW r \in FactorCalls, TF!DisableRead(r) PROVE FactorInv'
  BY <1>7 DEF TF!DisableRead
<1>8. ASSUME NEW r \in FactorCalls, TF!DisableWrite(r) PROVE FactorInv'
  <2>1. TF!TypeOK'
    BY <1>8 DEF TF!DisableWrite
  <2>2. FactorCallOK'
    BY <1>8 DEF TF!DisableWrite
  <2>3. KnownCodes' /\ Forgotten' /\ OwedRead'
    BY <1>8 DEF TF!DisableWrite
  <2> QED BY <2>1, <2>2, <2>3
<1>9. ASSUME NEW r \in FactorCalls, TF!VerifyRead(r) PROVE FactorInv'
  BY <1>9 DEF TF!VerifyRead
<1>10. ASSUME NEW r \in FactorCalls, TF!ConsumeRead(r) PROVE FactorInv'
  BY <1>10 DEF TF!ConsumeRead
<1>11. ASSUME NEW r \in FactorCalls, TF!ConsumeWrite(r) PROVE FactorInv'
  <2>1. /\ TF!Accepted(r, proof[r]) \in {"alone", "overlapped", "twice"}
        /\ TF!Accepted(r, proof[r]) = "alone" => TF!Consuming = {r}
    BY DEF TF!Accepted
  <2>2. TF!TypeOK' /\ FactorCallOK' /\ KnownCodes' /\ OwedRead'
    BY <1>11, <2>1 DEF TF!ConsumeWrite
  <2>3. Forgotten'
    BY <1>11, <2>1 DEF TF!ConsumeWrite, TF!Consuming
  <2> QED BY <2>2, <2>3
<1>13. ASSUME NEW r \in FactorCalls, TF!ConsumeReplyLost(r) PROVE FactorInv'
  <2>1. TF!TypeOK' /\ FactorCallOK' /\ KnownCodes' /\ OwedRead'
    BY <1>13 DEF TF!ConsumeReplyLost
  <2>2. Forgotten'
    BY <1>13 DEF TF!ConsumeReplyLost
  <2> QED BY <2>1, <2>2
<1>12. CASE UNCHANGED TF!vars
  BY <1>12 DEF TF!vars
<1> QED
  BY <1>1, <1>2, <1>3, <1>4, <1>5, <1>6, <1>7, <1>8, <1>9, <1>10, <1>11, <1>12, <1>13
     DEF TF!Next, TF!Step

-----------------------------------------------------------------------------
\* The inductive invariant holds in every reachable state (Verify2FA, Enable2FA
\* and Disable2FA, with their statements interleaved).
THEOREM FactorInvariance == TF!Spec => []FactorInv
<1> USE FactorAssumption
<1>1. TF!Init => FactorInv
  BY FactorInit
<1>2. FactorInv /\ [TF!Next]_TF!vars => FactorInv'
  BY FactorStep
<1> QED BY <1>1, <1>2, PTL DEF TF!Spec

\* Type correctness of the account's row and of the requests.
THEOREM FactorTypeCorrect == TF!Spec => []TF!TypeOK
<1> USE FactorAssumption
<1>1. FactorInv => TF!TypeOK
  BY DEF FactorInv
<1> QED BY <1>1, FactorInvariance, PTL

\* A recovery code accepted while nothing else was consuming one never comes
\* back into the list (ConsumeRecoveryCode).
THEOREM SpentForGood == TF!Spec => []SpentStaysSpent
<1> USE FactorAssumption
<1>1. FactorInv => TF!SpentStaysSpent
  BY DEF FactorInv, Forgotten, TF!SpentStaysSpent
<1> QED BY <1>1, FactorInvariance, PTL DEF SpentStaysSpent

\* The codes an undisturbed Enable2FA returned stay usable until they are used,
\* also when their uses overlap.
THEOREM IssuedUsable == TF!Spec => []IssuedStayUsable
<1> USE FactorAssumption
<1>1. FactorInv => TF!IssuedStayUsable
  BY DEF FactorInv, OwedRead, TF!IssuedStayUsable
<1> QED BY <1>1, FactorInvariance, PTL DEF IssuedStayUsable

-----------------------------------------------------------------------------
(***************************************************************************)
(* Access: who may administer, for any accounts, requests, permissions     *)
(* and scopes.                                                             *)
(***************************************************************************)

\* A superadmin has a row, so that an INSERT meets the conflict.
SuperHasRow == \A u \in Members : admin[u].super => admin[u].row

\* A request is about somebody, and has passed the gate once it runs.
PastTheGate ==
    \A r \in AdminCalls :
        /\ pending[r].pc # "idle" =>
              pending[r].op # "none" /\ pending[r].on \in Members
        /\ pending[r].pc = "clear" => pending[r].op = "DeleteUser"
        /\ pending[r].pc \notin {"idle", "gate"} => r \in granted

\* Who was checked to be no superadmin is none, unless the check is excused.
Asked(c) ==
    \/ c.op = "DeleteUser" /\ c.pc \in {"clear", "write"}
    \/ c.op = "Deactivate" /\ c.pc = "write"

\* Whoever is being removed after the check is no superadmin, unless the check
\* failed or came before the account was made one.
SuperadminsExcused ==
    \A r \in AdminCalls :
        Asked(pending[r]) /\ admin[pending[r].on].super => pending[r].excused

\* The inductive invariant of the administration.
AccessInv == Acc!TypeOK /\ SuperHasRow /\ PastTheGate /\ SuperadminsExcused

-----------------------------------------------------------------------------
\* It holds with no accounts and no requests.
LEMMA AccessInit == ASSUME Acc!AccessAssumption, Acc!Init PROVE AccessInv
BY DEF Acc!AccessAssumption, Acc!Init, AccessInv, Acc!TypeOK, SuperHasRow, PastTheGate,
       SuperadminsExcused, Asked, Acc!Idle, Acc!NoRow

\* What Next makes of the permissions that were seen at some time.
NextGranted ==
    granted' = {r \in AdminCalls : /\ pending'[r].pc # "idle"
                                   /\ r \in granted \/ Acc!Entitled(pending[r])'}

\* What a request's step may do to the requests: it moves its own only.
LEMMA OwnCall ==
    ASSUME Acc!TypeOK, NEW r \in AdminCalls, Acc!Step(r)
    PROVE  /\ \A q \in AdminCalls \ {r} : pending'[q] = pending[q]
           /\ pending' = [pending EXCEPT ![r] = pending'[r]]
BY DEF Acc!TypeOK, Acc!Step, Acc!Begin, Acc!Gate, Acc!Fail, Acc!LookupUser, Acc!AddAdmin,
       Acc!UpdatePermissions, Acc!RemoveAdmin, Acc!CheckDelete, Acc!ClearCreator,
       Acc!DeleteUser, Acc!ReadUser, Acc!CheckDeactivate, Acc!UpdateUser, Acc!SuperCheck,
       Acc!Goto, Acc!End, Acc!At

\* The tables keep their types and the superadmins their rows.
LEMMA AccessTypes ==
    ASSUME AccessInv, NEW r \in AdminCalls, Acc!Step(r)
    PROVE  /\ account' \in [Members -> {"new", "active", "inactive", "gone"}]
           /\ admin' \in [Members -> [super : BOOLEAN, may : {{}, {Acc!Everything}} \cup PermissionSets,
                                      by : Members \cup {Nobody}, row : BOOLEAN]]
           /\ SuperHasRow'
<1> USE DEF AccessInv, Acc!TypeOK, SuperHasRow, PastTheGate, Acc!tables, Acc!At, Acc!NoRow
<1>1. CASE \/ Acc!Begin(r)
           \/ Acc!Gate(r)
           \/ Acc!Fail(r)
           \/ Acc!LookupUser(r)
           \/ Acc!CheckDelete(r)
           \/ Acc!ReadUser(r)
           \/ Acc!CheckDeactivate(r)
  BY <1>1
     DEF Acc!Begin, Acc!Gate, Acc!Fail, Acc!LookupUser, Acc!CheckDelete, Acc!ReadUser,
         Acc!CheckDeactivate, Acc!SuperCheck
<1>2. CASE Acc!AddAdmin(r)
  <2>1. pending[r].on \in Members /\ Acc!Creator(pending[r]) \in Members \cup {Nobody}
        /\ pending[r].give \in {{}} \cup PermissionSets
    BY <1>2 DEF Acc!AddAdmin, Acc!Creator
  <2> QED BY <1>2, <2>1 DEF Acc!AddAdmin, Acc!Upsert
<1>3. CASE Acc!UpdatePermissions(r)
  BY <1>3 DEF Acc!UpdatePermissions
<1>4. CASE Acc!RemoveAdmin(r)
  BY <1>4 DEF Acc!RemoveAdmin
<1>5. CASE Acc!ClearCreator(r)
  BY <1>5 DEF Acc!ClearCreator
<1>6. CASE Acc!DeleteUser(r)
  <2>1. CASE UNCHANGED Acc!tables
    BY <2>1
  <2>2. CASE /\ account' = [account EXCEPT ![pending[r].on] = "gone"]
             /\ admin' = [admin EXCEPT ![pending[r].on] = Acc!NoRow]
    BY <2>2
  <2> QED BY <1>6, <2>1, <2>2 DEF Acc!DeleteUser
<1>7. CASE Acc!UpdateUser(r)
  BY <1>7 DEF Acc!UpdateUser
<1> QED
  BY <1>1, <1>2, <1>3, <1>4, <1>5, <1>6, <1>7 DEF Acc!Step

\* The type of a request.
RequestType == [op : Acc!AdminOps \cup Acc!UserOps \cup {"none"}, by : Members \cup {Token, Nobody},
                on : Members \cup {Nobody}, give : {{}} \cup PermissionSets,
                pc : {"idle", "gate", "lookup", "check", "clear", "write"},
                excused : BOOLEAN]

\* How a request moves: it goes on with what it asks, and leaves the gate only
\* entitled, with the tables as they are.
GoesOn(r) ==
    /\ pending'[r] \in RequestType
    /\ pending'[r].op = pending[r].op /\ pending'[r].by = pending[r].by
         /\ pending'[r].on = pending[r].on
    /\ pending[r].excused => pending'[r].excused
    /\ pending[r].pc # "idle" /\ pending'[r].pc \notin {"idle", "gate"}
    /\ pending'[r].pc = "clear" => pending[r].op = "DeleteUser"
    /\ pending[r].pc = "gate" => Acc!Entitled(pending[r]) /\ UNCHANGED Acc!tables
    /\ Asked(pending'[r]) => \/ pending'[r].excused \/ Asked(pending[r])
                             \/ ~admin[pending[r].on].super /\ UNCHANGED Acc!tables

\* How a request begins: at the gate, about somebody.
Begins(r) ==
    /\ pending'[r] \in RequestType
    /\ pending'[r].pc = "gate" /\ pending'[r].op # "none" /\ pending'[r].on \in Members
    /\ UNCHANGED Acc!tables

\* A step of a request ends it, begins it or moves it on.
LEMMA StepCall ==
    ASSUME AccessInv, NEW r \in AdminCalls, Acc!Step(r)
    PROVE  pending'[r] = Acc!Idle \/ Begins(r) \/ GoesOn(r)
<1>1. pending[r] \in RequestType /\ pending \in [AdminCalls -> RequestType]
  BY DEF AccessInv, Acc!TypeOK, RequestType
<1>2. CASE Acc!Begin(r)
  <2>1. PICK op \in Acc!AdminOps \cup Acc!UserOps, by \in Members \cup {Token}, on \in Members,
             give \in PermissionSets :
          pending' = [pending EXCEPT ![r] =
                         [Acc!Idle EXCEPT !.op = op, !.by = by, !.on = on, !.pc = "gate",
                                          !.give = IF op \in {"AddAdmin", "UpdatePermissions"}
                                                   THEN give ELSE {}]]
    BY <1>2 DEF Acc!Begin
  <2>2. pending'[r] = [Acc!Idle EXCEPT !.op = op, !.by = by, !.on = on, !.pc = "gate",
                                       !.give = IF op \in {"AddAdmin", "UpdatePermissions"}
                                                THEN give ELSE {}]
    BY <1>1, <2>1
  <2>3. op # "none" /\ UNCHANGED Acc!tables
    BY <1>2 DEF Acc!AdminOps, Acc!UserOps, Acc!Begin
  <2> QED BY <2>2, <2>3 DEF Begins, RequestType, Acc!Idle
<1>3. ASSUME Acc!End(r) PROVE pending'[r] = Acc!Idle
  BY <1>1, <1>3 DEF Acc!End
<1>4. ASSUME NEW to \in {"lookup", "check", "clear", "write"},
             Acc!Goto(r, to), pending[r].pc # "idle",
             to = "clear" => pending[r].op = "DeleteUser",
             pending[r].pc = "gate" => Acc!Entitled(pending[r]) /\ UNCHANGED Acc!tables,
             Asked([pending[r] EXCEPT !.pc = to]) =>
                 Asked(pending[r]) \/ (~admin[pending[r].on].super /\ UNCHANGED Acc!tables)
      PROVE  GoesOn(r)
  <2>1. pending'[r] = [pending[r] EXCEPT !.pc = to]
    BY <1>1, <1>4 DEF Acc!Goto
  <2> QED BY <1>1, <1>4, <2>1 DEF GoesOn, RequestType
<1>5. CASE Acc!Gate(r)
  <2>1. pending[r].op \in Acc!AdminOps \cup Acc!UserOps
    BY <1>1, <1>5 DEF AccessInv, PastTheGate, Acc!Gate, RequestType
  <2>2. Acc!FirstStep(pending[r].op) \in {"lookup", "check", "write"}
        /\ ~Asked([pending[r] EXCEPT !.pc = Acc!FirstStep(pending[r].op)])
    BY <1>1, <2>1 DEF Acc!FirstStep, Acc!AdminOps, Acc!UserOps, Asked, RequestType
  <2> QED BY <1>3, <1>4, <1>5, <2>2 DEF Acc!Gate
<1>6. CASE \/ Acc!Fail(r)
           \/ Acc!AddAdmin(r)
           \/ Acc!UpdatePermissions(r)
           \/ Acc!RemoveAdmin(r)
           \/ Acc!DeleteUser(r)
           \/ Acc!UpdateUser(r)
  BY <1>3, <1>6
     DEF Acc!Fail, Acc!AddAdmin, Acc!UpdatePermissions, Acc!RemoveAdmin, Acc!DeleteUser,
         Acc!UpdateUser
<1>7. CASE Acc!LookupUser(r) \/ Acc!ReadUser(r)
  <2>1. \A to : pending[r].op = "AddAdmin" \/ to = "check" \/ pending[r].op = "Activate" =>
                   ~Asked([pending[r] EXCEPT !.pc = to]) \/ pending[r].op = "DeleteUser"
    BY <1>1 DEF Asked, RequestType
  <2>2. CASE Acc!LookupUser(r)
    BY <1>3, <1>4, <2>1, <2>2 DEF Acc!LookupUser, Acc!At
  <2>3. CASE Acc!ReadUser(r)
    BY <1>3, <1>4, <2>1, <2>3 DEF Acc!ReadUser
  <2> QED BY <1>7, <2>2, <2>3
<1>8. ASSUME NEW to \in {"clear", "write"}, Acc!SuperCheck(r, to), pending[r].pc = "check",
             to = "clear" => pending[r].op = "DeleteUser"
      PROVE  pending'[r] = Acc!Idle \/ GoesOn(r)
  <2>1. CASE Acc!Goto(r, to) /\ ~admin[pending[r].on].super /\ UNCHANGED Acc!tables
    BY <1>4, <1>8, <2>1
  <2>2. CASE pending' = [pending EXCEPT ![r].pc = to, ![r].excused = TRUE]
               /\ UNCHANGED Acc!tables
    <3>1. pending'[r] = [pending[r] EXCEPT !.pc = to, !.excused = TRUE]
      BY <1>1, <2>2
    <3> QED BY <1>1, <1>8, <2>2, <3>1 DEF GoesOn, RequestType
  <2>3. CASE Acc!End(r)
    BY <1>3, <2>3
  <2>4. \/ Acc!End(r) \/ (Acc!Goto(r, to) /\ ~admin[pending[r].on].super
             /\ UNCHANGED Acc!tables)
        \/ (pending' = [pending EXCEPT ![r].pc = to, ![r].excused = TRUE]
             /\ UNCHANGED Acc!tables)
    BY <1>8 DEF Acc!SuperCheck
  <2> QED BY <2>1, <2>2, <2>3, <2>4
<1>9. CASE Acc!CheckDelete(r) \/ Acc!CheckDeactivate(r)
  BY <1>8, <1>9 DEF Acc!CheckDelete, Acc!CheckDeactivate, Acc!At
<1>10. CASE Acc!ClearCreator(r)
  BY <1>1, <1>4, <1>10 DEF Acc!ClearCreator, Acc!At, Asked, RequestType
<1> QED
  BY <1>2, <1>5, <1>6, <1>7, <1>9, <1>10 DEF Acc!Step

\* A request makes nobody a superadmin.
LEMMA StepSuper ==
    ASSUME AccessInv, NEW r \in AdminCalls, Acc!Step(r), NEW u \in Members, admin'[u].super
    PROVE  admin[u].super
<1> USE DEF AccessInv, Acc!TypeOK, PastTheGate, Acc!tables, Acc!At, Acc!NoRow
<1>1. CASE \/ Acc!Begin(r)
           \/ Acc!Gate(r)
           \/ Acc!Fail(r)
           \/ Acc!LookupUser(r)
           \/ Acc!CheckDelete(r)
           \/ Acc!ReadUser(r)
           \/ Acc!CheckDeactivate(r)
           \/ Acc!UpdateUser(r)
  BY <1>1
     DEF Acc!Begin, Acc!Gate, Acc!Fail, Acc!LookupUser, Acc!CheckDelete, Acc!ReadUser,
         Acc!CheckDeactivate, Acc!SuperCheck, Acc!UpdateUser
<1>2. CASE Acc!AddAdmin(r) \/ Acc!UpdatePermissions(r) \/ Acc!RemoveAdmin(r)
  BY <1>2 DEF Acc!AddAdmin, Acc!Upsert, Acc!UpdatePermissions, Acc!RemoveAdmin
<1>3. CASE Acc!ClearCreator(r) \/ Acc!DeleteUser(r)
  BY <1>3 DEF Acc!ClearCreator, Acc!DeleteUser
<1> QED BY <1>1, <1>2, <1>3 DEF Acc!Step

\* A step of a request preserves the invariant.
LEMMA AccessStep ==
    ASSUME AccessInv, NEW r \in AdminCalls, Acc!Step(r), NextGranted
    PROVE  AccessInv'
<1>1. Acc!TypeOK'
  <2>1. pending' \in [AdminCalls -> RequestType]
    <3>1. pending'[r] \in RequestType
      <4>1. Acc!Idle \in RequestType
        BY DEF Acc!Idle, RequestType
      <4> QED BY <4>1, StepCall DEF Begins, GoesOn
    <3>2. pending' = [pending EXCEPT ![r] = pending'[r]]
      BY OwnCall DEF AccessInv
    <3> QED BY <3>1, <3>2 DEF AccessInv, Acc!TypeOK, RequestType
  <2>2. granted' \subseteq AdminCalls
    BY DEF NextGranted
  <2> QED BY <2>1, <2>2, AccessTypes DEF Acc!TypeOK, RequestType
<1>2. SuperHasRow'
  BY AccessTypes
<1>3. PastTheGate'
  <2>1. ASSUME NEW q \in AdminCalls, q # r, pending'[q].pc # "idle", q \in granted
        PROVE  q \in granted'
    BY <2>1 DEF NextGranted
  <2>2. ASSUME NEW q \in AdminCalls, q # r
        PROVE  /\ pending'[q].pc # "idle" => pending'[q].op # "none"
                    /\ pending'[q].on \in Members
               /\ pending'[q].pc = "clear" => pending'[q].op = "DeleteUser"
               /\ pending'[q].pc \notin {"idle", "gate"} => q \in granted'
    BY <2>1, <2>2, OwnCall DEF AccessInv, PastTheGate
  <2>3. CASE pending'[r] = Acc!Idle \/ Begins(r)
    BY <2>2, <2>3 DEF PastTheGate, Acc!Idle, Begins
  <2>4. CASE GoesOn(r)
    <3>1. pending'[r].op # "none" /\ pending'[r].on \in Members
          /\ (pending'[r].pc = "clear" => pending'[r].op = "DeleteUser")
      BY <2>4 DEF GoesOn, AccessInv, PastTheGate
    <3>2. r \in granted'
      <4>1. CASE pending[r].pc = "gate"
        <5>1. Acc!Entitled(pending[r]) /\ UNCHANGED Acc!tables /\ pending'[r].by = pending[r].by
              /\ pending'[r].op = pending[r].op
          BY <2>4, <4>1 DEF GoesOn
        <5>2. Acc!Entitled(pending[r])'
          BY <5>1 DEF Acc!Entitled, Acc!tables
        <5> QED BY <2>4, <5>2 DEF NextGranted, GoesOn
      <4>2. CASE pending[r].pc # "gate"
        BY <2>4, <4>2 DEF NextGranted, GoesOn, AccessInv, PastTheGate
      <4> QED BY <4>1, <4>2
    <3> QED BY <2>2, <3>1, <3>2 DEF PastTheGate
  <2> QED BY <2>3, <2>4, StepCall
<1>4. SuperadminsExcused'
  <2>1. SUFFICES ASSUME NEW q \in AdminCalls, Asked(pending'[q]), admin'[pending'[q].on].super
                 PROVE  pending'[q].excused
    BY DEF SuperadminsExcused
  <2>2. pending'[q].on \in Members
    BY <1>3, <2>1 DEF PastTheGate, Asked
  <2>3. admin[pending'[q].on].super
    BY <2>1, <2>2, StepSuper
  <2>4. CASE q # r
    BY <2>1, <2>3, <2>4, OwnCall DEF AccessInv, SuperadminsExcused
  <2>5. CASE q = r
    <3>1. GoesOn(r)
      BY <2>1, <2>5, StepCall DEF Acc!Idle, Begins, Asked
    <3> QED BY <2>1, <2>3, <2>5, <3>1 DEF GoesOn, AccessInv, SuperadminsExcused
  <2> QED BY <2>4, <2>5
<1> QED BY <1>1, <1>2, <1>3, <1>4 DEF AccessInv

\* So does a registration,
LEMMA RegisterInv ==
    ASSUME AccessInv, NEW u \in Members, Acc!Register(u), NextGranted
    PROVE  AccessInv'
<1>1. Acc!TypeOK'
  BY DEF AccessInv, Acc!TypeOK, Acc!Register, NextGranted
<1>2. SuperHasRow' /\ SuperadminsExcused'
  BY DEF AccessInv, SuperHasRow, SuperadminsExcused, Acc!Register, Asked
<1>3. PastTheGate'
  BY DEF AccessInv, PastTheGate, Acc!Register, NextGranted
<1> QED BY <1>1, <1>2, <1>3 DEF AccessInv

\* and so does a start that makes its configured accounts superadmins.
LEMMA BootstrapInv ==
    ASSUME AccessInv, NEW u \in Members, Acc!BootstrapSuperadmins(u), NextGranted
    PROVE  AccessInv'
<1> DEFINE Overtaken(r) ==
      [pending[r] EXCEPT !.excused =
          @ \/ (pending[r].on = u /\ pending[r].op \in {"DeleteUser", "Deactivate"}
                  /\ pending[r].pc \in {"clear", "write"})]
<1>1. /\ admin' = [admin EXCEPT ![u] = Acc!SuperRow(admin[u].by)] /\ account' = account
      /\ pending' = [r \in AdminCalls |-> Overtaken(r)]
  BY DEF Acc!BootstrapSuperadmins
<1>2. \A r \in AdminCalls : pending[r] \in RequestType
  BY DEF AccessInv, Acc!TypeOK, RequestType
<1>3. ASSUME NEW r \in AdminCalls
      PROVE  /\ pending'[r] \in RequestType
             /\ pending'[r].pc = pending[r].pc /\ pending'[r].op = pending[r].op
             /\ pending'[r].on = pending[r].on /\ pending'[r].by = pending[r].by
             /\ pending[r].excused => pending'[r].excused
             /\ pending[r].on = u /\ Asked(pending[r]) => pending'[r].excused
  BY <1>1, <1>2 DEF RequestType, Asked
<1>4. Acc!TypeOK'
  <2>1. pending' \in [AdminCalls -> RequestType]
    BY <1>1, <1>3
  <2>2. admin' \in [Members -> [super : BOOLEAN, may : {{}, {Acc!Everything}} \cup PermissionSets,
                                by : Members \cup {Nobody}, row : BOOLEAN]]
    BY <1>1 DEF AccessInv, Acc!TypeOK, Acc!SuperRow
  <2> QED BY <1>1, <2>1, <2>2 DEF AccessInv, Acc!TypeOK, RequestType, NextGranted
<1>5. SuperHasRow'
  BY <1>1 DEF AccessInv, Acc!TypeOK, SuperHasRow, Acc!SuperRow
<1>6. PastTheGate'
  BY <1>3 DEF AccessInv, PastTheGate, NextGranted
<1>7. SuperadminsExcused'
  <2>1. SUFFICES ASSUME NEW q \in AdminCalls, Asked(pending'[q]), admin'[pending'[q].on].super
                 PROVE  pending'[q].excused
    BY DEF SuperadminsExcused
  <2>2. Asked(pending[q]) /\ pending[q].on = pending'[q].on
    BY <1>3, <2>1 DEF Asked
  <2>3. pending[q].on = u \/ admin[pending[q].on].super
    BY <1>1, <2>1, <2>2 DEF AccessInv, Acc!TypeOK
  <2> QED BY <1>3, <2>2, <2>3 DEF AccessInv, SuperadminsExcused
<1> QED BY <1>4, <1>5, <1>6, <1>7 DEF AccessInv

\* The invariant holds for any accounts, requests, permission lists and scopes.
THEOREM AccessInvariant == Acc!Spec => []AccessInv
<1> USE AdminAssumption
<1>1. Acc!Init => AccessInv
  BY AccessInit
<1>2. AccessInv /\ [Acc!Next]_Acc!vars => AccessInv'
  <2>1. CASE Acc!Next /\ AccessInv
    BY <2>1, AccessStep, RegisterInv, BootstrapInv DEF Acc!Next, NextGranted
  <2>2. CASE UNCHANGED Acc!vars /\ AccessInv
    BY <2>2
       DEF Acc!vars, Acc!tables, AccessInv, Acc!TypeOK, SuperHasRow, PastTheGate,
           SuperadminsExcused, Asked
  <2> QED BY <2>1, <2>2
<1> QED BY <1>1, <1>2, PTL DEF Acc!Spec
-----------------------------------------------------------------------------

\* An account that is superadmin stays one for as long as it exists, whatever
\* interleaving of administration calls runs: the ON CONFLICT of AddAdmin keeps
\* the flag, and no other statement clears it.
THEOREM SuperadminsKeepRow == Acc!Spec => SuperadminsStay
<1> USE AdminAssumption
<1> DEFINE Stays == \A u \in Members :
          admin[u].super => admin'[u].super \/ account'[u] = "gone"
<1>1. ASSUME AccessInv, [Acc!Next]_Acc!vars PROVE Stays
  <2>1. ASSUME NEW u \in Members, admin[u].super, NEW r \in AdminCalls, Acc!Step(r)
        PROVE  admin'[u].super \/ account'[u] = "gone"
    <3> USE DEF AccessInv, Acc!TypeOK, Acc!tables, Acc!At
    <3>1. CASE \/ Acc!Begin(r)
               \/ Acc!Gate(r)
               \/ Acc!Fail(r)
               \/ Acc!LookupUser(r)
               \/ Acc!CheckDelete(r)
               \/ Acc!ReadUser(r)
               \/ Acc!CheckDeactivate(r)
               \/ Acc!UpdateUser(r)
      BY <1>1, <2>1, <3>1
         DEF Acc!Begin, Acc!Gate, Acc!Fail, Acc!LookupUser, Acc!CheckDelete, Acc!ReadUser,
             Acc!CheckDeactivate, Acc!SuperCheck, Acc!UpdateUser
    <3>2. CASE Acc!AddAdmin(r) \/ Acc!UpdatePermissions(r) \/ Acc!RemoveAdmin(r)
      BY <1>1, <2>1, <3>2
         DEF Acc!AddAdmin, Acc!Upsert, Acc!UpdatePermissions, Acc!RemoveAdmin,
             SuperHasRow, PastTheGate
    <3>3. CASE Acc!ClearCreator(r)
      BY <1>1, <2>1, <3>3 DEF Acc!ClearCreator
    <3>4. CASE Acc!DeleteUser(r)
      BY <1>1, <2>1, <3>4 DEF Acc!DeleteUser
    <3> QED BY <2>1, <3>1, <3>2, <3>3, <3>4 DEF Acc!Step
  <2>2. ASSUME NEW u \in Members, admin[u].super, NEW v \in Members,
               Acc!Register(v) \/ Acc!BootstrapSuperadmins(v)
        PROVE  admin'[u].super
    BY <1>1, <2>2
       DEF Acc!Register, Acc!BootstrapSuperadmins, Acc!SuperRow, AccessInv, Acc!TypeOK
  <2>3. CASE UNCHANGED Acc!vars
    BY <2>3 DEF Acc!vars, Acc!tables
  <2> QED BY <1>1, <2>1, <2>2, <2>3 DEF Acc!Next
<1> QED BY <1>1, AccessInvariant, PTL DEF Acc!Spec, Acc!SuperadminsStay, SuperadminsStay

\* Nobody deletes or deactivates a superadmin, but a request that had asked the
\* table before the account became one.
THEOREM SuperadminsStayActive == Acc!Spec => SuperadminsAreSafe
<1> USE AdminAssumption
<1> DEFINE Safe == \A u \in Members :
          admin[u].super /\ account'[u] # account[u] /\ account'[u] # "active"
              => \E r \in AdminCalls : pending[r].on = u /\ pending[r].excused
<1>1. ASSUME AccessInv, [Acc!Next]_Acc!vars PROVE Safe
  <2>1. SUFFICES ASSUME NEW u \in Members, admin[u].super, account'[u] # account[u],
                        account'[u] # "active"
                 PROVE  \E r \in AdminCalls : pending[r].on = u /\ pending[r].excused
    OBVIOUS
  <2>2. PICK r \in AdminCalls : Acc!Step(r)
    BY <1>1, <2>1
       DEF Acc!Next, Acc!Register, Acc!BootstrapSuperadmins, Acc!vars, Acc!tables,
           AccessInv, Acc!TypeOK
  <2>3. pending[r].on = u /\ Asked(pending[r])
    <3> USE DEF AccessInv, Acc!TypeOK, Acc!tables, Acc!At
    <3>1. Acc!DeleteUser(r) \/ Acc!UpdateUser(r)
      BY <2>1, <2>2
         DEF Acc!Step, Acc!Begin, Acc!Gate, Acc!Fail, Acc!LookupUser, Acc!AddAdmin,
             Acc!UpdatePermissions, Acc!RemoveAdmin, Acc!CheckDelete, Acc!ClearCreator,
             Acc!ReadUser, Acc!CheckDeactivate, Acc!SuperCheck
    <3>2. CASE Acc!DeleteUser(r)
      BY <1>1, <2>1, <3>2 DEF Acc!DeleteUser, Asked
    <3>3. CASE Acc!UpdateUser(r)
      BY <1>1, <2>1, <3>3 DEF Acc!UpdateUser, Asked
    <3> QED BY <3>1, <3>2, <3>3
  <2> QED BY <1>1, <2>1, <2>3 DEF AccessInv, SuperadminsExcused
<1> QED BY <1>1, AccessInvariant, PTL
           DEF Acc!Spec, Acc!SuperadminsAreSafe, SuperadminsAreSafe

\* A request changes a table only if its caller had the permission at some time
\* since it began.
THEOREM EffectsPassedTheGate == Acc!Spec => EffectsAreGranted
<1> USE AdminAssumption
<1> DEFINE Granted == \A r \in AdminCalls :
          pending'[r].pc # pending[r].pc /\ Acc!tables' # Acc!tables => r \in granted
<1>1. ASSUME AccessInv, [Acc!Next]_Acc!vars PROVE Granted
  <2>1. SUFFICES ASSUME NEW r \in AdminCalls, pending'[r].pc # pending[r].pc, Acc!tables' # Acc!tables
                 PROVE  r \in granted
    OBVIOUS
  <2>2. ASSUME NEW u \in Members, Acc!Register(u) \/ Acc!BootstrapSuperadmins(u)
        PROVE  pending'[r].pc = pending[r].pc
    BY <1>1, <2>2 DEF Acc!Register, Acc!BootstrapSuperadmins, AccessInv, Acc!TypeOK
  <2>3. PICK q \in AdminCalls : Acc!Step(q)
    BY <1>1, <2>1, <2>2 DEF Acc!Next, Acc!vars
  <2>4. q = r
    BY <1>1, <2>1, <2>3, OwnCall DEF AccessInv
  <2>5. pending[r].pc \notin {"idle", "gate"}
    BY <2>1, <2>3, <2>4
       DEF Acc!Step, Acc!Begin, Acc!Gate, Acc!Fail, Acc!LookupUser, Acc!AddAdmin,
           Acc!UpdatePermissions, Acc!RemoveAdmin, Acc!CheckDelete, Acc!ClearCreator,
           Acc!DeleteUser, Acc!ReadUser, Acc!CheckDeactivate, Acc!UpdateUser,
           Acc!SuperCheck, Acc!At
  <2> QED BY <1>1, <2>5 DEF AccessInv, PastTheGate
<1> QED BY <1>1, AccessInvariant, PTL
           DEF Acc!Spec, Acc!EffectsAreGranted, EffectsAreGranted
=============================================================================
