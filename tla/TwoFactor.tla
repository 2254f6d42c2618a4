------------------------------- MODULE TwoFactor -------------------------------
(***************************************************************************)
(* Two-factor authentication of one account: the columns                   *)
(* two_factor_enabled, two_factor_secret and two_factor_recovery_codes of  *)
(* its row, and requests that set it up, enable and disable it and that    *)
(* answer a login challenge.  Accounts do not share any of this, so one    *)
(* account is enough; its requests interleave statement by statement.      *)
(*                                                                         *)
(* A TOTP passcode is represented by the secret it was computed from: it   *)
(* validates against that secret only.  Passcodes that are simply wrong    *)
(* change nothing and are left out.  Every statement can fail, and the     *)
(* reply to an UPDATE that took effect can be lost.                        *)
(***************************************************************************)
EXTENDS Naturals, FiniteSets

CONSTANTS
    Secrets,     \* TOTP secrets (totp.Generate: each is generated once)
    Codes,       \* recovery codes (each is generated once)
    BatchSize,   \* recovery codes per Enable2FA (8 in the code)
    Requests,    \* concurrent requests
    NoSecret,    \* two_factor_secret IS NULL
    Password,    \* the proof of a request that gives the password
    NoProof

\* What is assumed of the constants.
ProofAssumption ==
    /\ BatchSize \in Nat \ {0}
    /\ NoSecret \notin Secrets
    /\ Secrets \cap Codes = {}
    /\ Password \notin Secrets \cup Codes /\ NoProof \notin Secrets \cup Codes
    /\ Password # NoProof

Proofs == Secrets \cup Codes \cup {Password}

VARIABLES
    enabled,     \* two_factor_enabled
    secret,      \* two_factor_secret
    codes,       \* two_factor_recovery_codes
    challenged,  \* somebody holds an unexpired 2fa_challenge token
    pc,          \* pc[r]: where request r is
    proof,       \* proof[r]: the code or password it presents
    read,        \* read[r]: the recovery codes it read, without its own
    \* History:
    made,        \* secrets Setup2FA has returned
    issued,      \* recovery codes Enable2FA has generated
    spent,       \* spent[x]: how the code x was accepted, see ConsumeWrite
    owed         \* codes returned by an undisturbed Enable2FA and not used since

account == <<enabled, secret, codes>>
call == <<pc, proof, read>>
history == <<made, issued, spent, owed>>
vars == <<account, challenged, call, history>>

Stages == {"idle",
           "verify", "consume", "consume_write",   \* Verify2FA
           "enable", "enable_write",               \* Enable2FA
           "disable", "disable_write"}             \* Disable2FA

TypeOK ==
    /\ enabled \in BOOLEAN
    /\ secret \in Secrets \cup {NoSecret}
    /\ codes \in SUBSET Codes
    /\ challenged \in BOOLEAN
    /\ pc \in [Requests -> Stages]
    /\ proof \in [Requests -> Proofs \cup {NoProof}]
    /\ read \in [Requests -> SUBSET Codes]
    /\ made \in SUBSET Secrets
    /\ issued \in SUBSET Codes
    /\ spent \in [Codes -> {"no", "alone", "overlapped", "twice"}]
    /\ owed \in SUBSET Codes

Init ==
    /\ enabled = FALSE
    /\ secret = NoSecret
    /\ codes = {}
    /\ challenged = FALSE
    /\ pc = [r \in Requests |-> "idle"]
    /\ proof = [r \in Requests |-> NoProof]
    /\ read = [r \in Requests |-> {}]
    /\ made = {}
    /\ issued = {}
    /\ spent = [x \in Codes |-> "no"]
    /\ owed = {}

At(r, stage) == pc[r] = stage

\* A request arrives with a proof.
Begin(r, stage, p) ==
    /\ At(r, "idle")
    /\ pc' = [pc EXCEPT ![r] = stage]
    /\ proof' = [proof EXCEPT ![r] = p]
    /\ UNCHANGED <<account, challenged, read, history>>

Goto(r, stage) == pc' = [pc EXCEPT ![r] = stage] /\ UNCHANGED proof

End(r) ==
    /\ pc' = [pc EXCEPT ![r] = "idle"]
    /\ proof' = [proof EXCEPT ![r] = NoProof]
    /\ read' = [read EXCEPT ![r] = {}]

-----------------------------------------------------------------------------
(* Login and Setup2FA are one statement each. *)

\* The password is right and 2FA is on: a challenge token instead of a session.
Login ==
    /\ enabled
    /\ challenged' = TRUE
    /\ UNCHANGED <<account, call, history>>

\* Five minutes pass. The token carries its own expiry: nothing revokes it.
ChallengeExpires ==
    /\ challenged' = FALSE
    /\ UNCHANGED <<account, call, history>>

\* A new secret is stored, whatever the row held (Update2FASecret).
Setup2FA(s) ==
    /\ s \notin made
    /\ made' = made \cup {s}
    /\ secret' = s
    /\ UNCHANGED <<enabled, codes, challenged, call, issued, spent, owed>>

-----------------------------------------------------------------------------
(* Enable2FA: read the row, validate the passcode, write everything. *)

\* The passcode is validated against the secret the request names, which may be
\* an older one of Setup2FA, or else against the row's.
EnableRead(r) ==
    /\ At(r, "enable")
    /\ Goto(r, "enable_write")
    /\ UNCHANGED <<account, challenged, read, made, issued, spent, owed>>

Consuming == {r \in Requests : At(r, "consume_write")}

\* Mutant of EnableWrite: it returns the codes and stores none.
EnableWriteForgetting(r) ==
    /\ At(r, "enable_write")
    /\ \E batch \in SUBSET (Codes \ issued) :
          /\ Cardinality(batch) = BatchSize
          /\ codes' = codes
          /\ issued' = issued \cup batch
          /\ owed' = IF Consuming = {} THEN batch ELSE {}
    /\ enabled' = TRUE
    /\ secret' = proof[r]
    /\ End(r)
    /\ UNCHANGED <<challenged, made, spent>>

\* Nothing is owed if the reply is lost: the codes are stored and not returned.
EnableWrite(r) ==
    /\ At(r, "enable_write")
    /\ \E batch \in SUBSET (Codes \ issued) :
          /\ Cardinality(batch) = BatchSize
          /\ codes' = batch
          /\ issued' = issued \cup batch
          /\ owed' \in {{}, IF Consuming = {} THEN batch ELSE {}}
    /\ enabled' = TRUE
    /\ secret' = proof[r]
    /\ End(r)
    /\ UNCHANGED <<challenged, made, spent>>

-----------------------------------------------------------------------------
(* Disable2FA: read the row, validate, clear everything. *)

DisableRead(r) ==
    /\ At(r, "disable")
    /\ IF enabled /\ proof[r] \in {secret, Password}
       THEN Goto(r, "disable_write") /\ UNCHANGED read
       ELSE End(r)
    /\ UNCHANGED <<account, challenged, history>>

DisableWrite(r) ==
    /\ At(r, "disable_write")
    /\ enabled' = FALSE
    /\ secret' = NoSecret
    /\ codes' = {}
    /\ owed' = {}
    /\ End(r)
    /\ UNCHANGED <<challenged, made, issued, spent>>

-----------------------------------------------------------------------------
(* Verify2FA: the challenge, the passcode, or else ConsumeRecoveryCode. *)

\* A passcode that validates ends the request with a session.
VerifyRead(r) ==
    /\ At(r, "verify")
    /\ IF enabled /\ secret # NoSecret /\ proof[r] # secret
       THEN Goto(r, "consume") /\ UNCHANGED read
       ELSE End(r)
    /\ UNCHANGED <<account, challenged, history>>

\* The row is read once more; an unknown code is refused.
ConsumeRead(r) ==
    /\ At(r, "consume")
    /\ IF proof[r] \in codes
       THEN /\ Goto(r, "consume_write")
            /\ read' = [read EXCEPT ![r] = codes \ {proof[r]}]
       ELSE End(r)
    /\ UNCHANGED <<account, challenged, history>>

\* How the acceptance of code x by request r counts.
Accepted(r, x) ==
    IF spent[x] # "no" THEN "twice"
    ELSE IF Consuming = {r} THEN "alone" ELSE "overlapped"

\* Mutant of ConsumeWrite: the code is accepted and stays in the list.
ConsumeWriteKeeping(r) ==
    /\ At(r, "consume_write")
    /\ codes' = read[r] \cup {proof[r]}
    /\ spent' = [spent EXCEPT ![proof[r]] = Accepted(r, proof[r])]
    /\ owed' = owed \ {proof[r]}
    /\ End(r)
    /\ UNCHANGED <<enabled, secret, challenged, made, issued>>

\* The list as it was read goes back without the code, and a session is issued.
ConsumeWrite(r) ==
    /\ At(r, "consume_write")
    /\ codes' = read[r]
    /\ spent' = [spent EXCEPT ![proof[r]] = Accepted(r, proof[r])]
    /\ owed' = owed \ {proof[r]}
    /\ End(r)
    /\ UNCHANGED <<enabled, secret, challenged, made, issued>>

\* The UPDATE takes effect and its reply is lost: the code is gone, and refused.
ConsumeReplyLost(r) ==
    /\ At(r, "consume_write")
    /\ codes' = read[r]
    /\ owed' = owed \ {proof[r]}
    /\ End(r)
    /\ UNCHANGED <<enabled, secret, challenged, made, issued, spent>>

\* A query or an UPDATE fails, or the request is refused for another reason.
Fails(r) ==
    /\ ~At(r, "idle")
    /\ End(r)
    /\ UNCHANGED <<account, challenged, history>>

-----------------------------------------------------------------------------
\* What clients send: passcodes of secrets they were shown, codes they were
\* given, the password.
Arrive(r) ==
    \/ challenged /\ \E p \in made \cup issued : Begin(r, "verify", p)
    \/ \E p \in made : Begin(r, "enable", p)
    \/ \E p \in made \cup issued \cup {Password} : Begin(r, "disable", p)

Step(r) ==
    \/ EnableRead(r) \/ EnableWrite(r)
    \/ DisableRead(r) \/ DisableWrite(r)
    \/ VerifyRead(r) \/ ConsumeRead(r) \/ ConsumeWrite(r) \/ ConsumeReplyLost(r)
    \/ Fails(r)

Next ==
    \/ Login \/ ChallengeExpires
    \/ \E s \in Secrets : Setup2FA(s)
    \/ \E r \in Requests : Arrive(r) \/ Step(r)

Spec == Init /\ [][Next]_vars

-----------------------------------------------------------------------------
(* Properties *)

\* A recovery code that was accepted while no other request was between reading
\* and writing the list never comes back into it, whatever requests follow.
SpentStaysSpent == \A x \in Codes : spent[x] = "alone" => x \notin codes

\* The codes that an undisturbed Enable2FA returned stay usable until they are
\* used, also in a request that is refused because the reply was lost, or 2FA is
\* disabled or enabled anew, through any overlapping and failing uses of them.
IssuedStayUsable == owed \subseteq codes
=============================================================================
