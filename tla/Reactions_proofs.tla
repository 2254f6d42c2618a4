--------------------------- MODULE Reactions_proofs ---------------------------
(***************************************************************************)
(* Proofs about Reactions, for any slugs, accounts, types and requests.    *)
(***************************************************************************)
EXTENDS Reactions, FiniteSetTheorems, TLAPS

-----------------------------------------------------------------------------
(* The inductive invariant, in named parts. *)

\* Until a row changes, "active" says whether the type named is the one stored.
LastStands ==
    last # Nobody /\ quiet => (Active(last) <=> reaction[arg[last].key] = arg[last].type)

IInv ==
    /\ TypeOK
    /\ FoundIsStill
    /\ LocksAreHeld
    /\ NothingOfDeletedUsers
    /\ LastStands
    /\ AnswerAgrees

LEMMA TallyType == \A s \in Slugs : Tally(s) \in [Types -> Nat]
<1> SUFFICES ASSUME NEW s \in Slugs, NEW t \in Types
             PROVE  Cardinality({u \in Users : reaction[<<s, u>>] = t}) \in Nat
  BY DEF Tally
<1>1. IsFiniteSet({u \in Users : reaction[<<s, u>>] = t})
  BY UsersAssumption, FS_Subset
<1> QED BY <1>1, FS_CardinalityType

LEMMA ToggleFacts ==
    ASSUME TypeOK, NEW r \in Requests, pc[r] # "idle"
    PROVE  /\ arg[r].key \in Keys /\ arg[r].key[1] \in Slugs /\ arg[r].key[2] \in Users
           /\ arg[r].type \in Types /\ arg[r].type # NoReaction
<1>1. arg[r] \in Toggle
  BY DEF TypeOK
<1> QED BY <1>1, NothingAssumption DEF Toggle, Keys

\* What a toggle writes, when its row is as it was found.
LEMMA OutcomeFacts ==
    ASSUME TypeOK, FoundIsStill, NEW r \in Requests, pc[r] = "write"
    PROVE  /\ Outcome(r) = IF Active(r) THEN arg[r].type ELSE NoReaction
           /\ ~Active(r) => reaction[arg[r].key] = arg[r].type
BY ToggleFacts DEF FoundIsStill, Outcome, Active

LEMMA InitInv == Init => IInv
<1> SUFFICES ASSUME Init PROVE IInv
  OBVIOUS
<1>1. TypeOK
  BY DEF Init, TypeOK, Zero
<1> QED BY <1>1 DEF Init, IInv, FoundIsStill, LocksAreHeld, NothingOfDeletedUsers, LastStands,
                    AnswerAgrees

-----------------------------------------------------------------------------
(* One lemma for each action.                                                *)

LEMMA ToggleReadInv ==
    ASSUME IInv, NEW r \in Requests, NEW a \in Asked, ToggleRead(r, a)
    PROVE  IInv'
<1>1. /\ pc[r] = "idle" /\ Free(a.key, r) /\ a \in Toggle /\ a.key \in Keys
      /\ found' = [found EXCEPT ![r] = reaction[a.key]]
      /\ lock' = [lock EXCEPT ![a.key] = IF reaction[a.key] = NoReaction THEN @ ELSE r]
      /\ arg' = [arg EXCEPT ![r] = a]
      /\ pc' = [pc EXCEPT ![r] = "write"]
      /\ UNCHANGED <<users, reaction, counts, partial, last, quiet>>
  BY DEF ToggleRead, Goto, Asked, Toggle
<1>2. TypeOK'
  BY <1>1 DEF IInv, TypeOK, Toggle
<1>3. FoundIsStill' /\ LocksAreHeld'
  BY <1>1, NothingAssumption DEF IInv, TypeOK, FoundIsStill, LocksAreHeld, Free
<1>4. last # r /\ (last # Nobody => last \in Requests)
  BY <1>1, NothingAssumption DEF IInv, TypeOK
<1>5. NothingOfDeletedUsers' /\ LastStands'
  BY <1>1, <1>4 DEF IInv, TypeOK, NothingOfDeletedUsers, LastStands, Active
<1>6. AnswerAgrees'
  BY <1>1, <1>4 DEF IInv, TypeOK, AnswerAgrees, Active, Tally
<1> QED BY <1>2, <1>3, <1>5, <1>6 DEF IInv

LEMMA ToggleWriteInv ==
    ASSUME IInv, NEW r \in Requests, ToggleWrite(r)
    PROVE  IInv'
<1> DEFINE k == arg[r].key
<1>1. /\ pc[r] = "write" /\ k \in Keys /\ k[2] \in users /\ Free(k, r)
      /\ reaction' = [reaction EXCEPT ![k] = Outcome(r)]
      /\ lock' = [lock EXCEPT ![k] = Nobody]
      /\ last' = r /\ quiet' = TRUE
      /\ pc' = [pc EXCEPT ![r] = "counts"]
      /\ UNCHANGED <<users, arg, found, counts, partial>>
  BY ToggleFacts DEF IInv, ToggleWrite, Goto
<1>2. Outcome(r) = IF Active(r) THEN arg[r].type ELSE NoReaction
  BY <1>1, OutcomeFacts DEF IInv
<1>3. arg[r].type \in Types /\ arg[r].type # NoReaction
  BY <1>1, ToggleFacts DEF IInv
<1> HIDE DEF k
<1>4. TypeOK'
  <2>1. Outcome(r) \in Types \union {NoReaction}
    BY <1>2, <1>3
  <2> QED BY <1>1, <2>1 DEF IInv, TypeOK
<1>5. FoundIsStill'
  <2> SUFFICES ASSUME NEW q \in Requests, pc'[q] = "write", found'[q] # NoReaction
               PROVE  reaction'[arg'[q].key] = found'[q] /\ lock'[arg'[q].key] = q
    BY DEF FoundIsStill
  <2>1. q # r /\ pc[q] = "write" /\ found[q] # NoReaction
    BY <1>1 DEF IInv, TypeOK
  <2>2. reaction[arg[q].key] = found[q] /\ lock[arg[q].key] = q
    BY <2>1 DEF IInv, FoundIsStill
  <2>3. arg[q].key # k
    BY <1>1, <2>1, <2>2, NothingAssumption DEF Free
  <2> QED BY <1>1, <2>2, <2>3 DEF IInv, TypeOK
<1>6. LocksAreHeld'
  <2> SUFFICES ASSUME NEW j \in Keys, lock'[j] # Nobody
               PROVE  pc'[lock'[j]] = "write" /\ arg'[lock'[j]].key = j
    BY DEF LocksAreHeld
  <2>1. j # k /\ lock'[j] = lock[j]
    BY <1>1 DEF IInv, TypeOK
  <2>2. pc[lock[j]] = "write" /\ arg[lock[j]].key = j
    BY <2>1 DEF IInv, LocksAreHeld
  <2> QED BY <1>1, <2>1, <2>2 DEF IInv, TypeOK, k
<1>7. NothingOfDeletedUsers'
  BY <1>1 DEF IInv, TypeOK, NothingOfDeletedUsers
<1>8. LastStands'
  <2>1. reaction'[k] = Outcome(r) /\ Active(r)' = Active(r)
    BY <1>1 DEF IInv, TypeOK, Active
  <2> QED BY <1>1, <1>2, <1>3, <2>1 DEF LastStands, k
<1>9. AnswerAgrees'
  BY <1>1 DEF IInv, TypeOK, AnswerAgrees
<1> QED BY <1>4, <1>5, <1>6, <1>7, <1>8, <1>9 DEF IInv

LEMMA ToggleFailsInv ==
    ASSUME IInv, NEW r \in Requests, ToggleFails(r)
    PROVE  IInv'
<1>1. /\ pc[r] = "write"
      /\ lock' = [k \in Keys |-> IF lock[k] = r THEN Nobody ELSE lock[k]]
      /\ pc' = [pc EXCEPT ![r] = "idle"]
      /\ arg' = [arg EXCEPT ![r] = <<>>]
      /\ found' = [found EXCEPT ![r] = NoReaction]
      /\ counts' = [counts EXCEPT ![r] = Zero]
      /\ partial' = partial \ {r}
      /\ UNCHANGED <<users, reaction, last, quiet>>
  BY DEF ToggleFails, End, Goto
<1>2. TypeOK'
  <2>1. last # r
    BY <1>1, NothingAssumption DEF IInv, TypeOK
  <2> QED BY <1>1, <2>1 DEF IInv, TypeOK, Zero
<1>3. FoundIsStill' /\ LocksAreHeld'
  <2>1. ASSUME NEW q \in Requests, pc'[q] = "write", found'[q] # NoReaction
        PROVE  reaction'[arg'[q].key] = found'[q] /\ lock'[arg'[q].key] = q
    <3>1. q # r /\ pc[q] = "write" /\ found[q] # NoReaction
      BY <1>1, <2>1 DEF IInv, TypeOK
    <3>2. reaction[arg[q].key] = found[q] /\ lock[arg[q].key] = q /\ arg[q].key \in Keys
      BY <3>1, ToggleFacts DEF IInv, FoundIsStill
    <3> QED BY <1>1, <3>1, <3>2 DEF IInv, TypeOK
  <2>2. ASSUME NEW k \in Keys, lock'[k] # Nobody
        PROVE  pc'[lock'[k]] = "write" /\ arg'[lock'[k]].key = k
    <3>1. lock'[k] = lock[k] /\ lock[k] # r /\ lock[k] \in Requests
      BY <1>1, <2>2 DEF IInv, TypeOK
    <3>2. pc[lock[k]] = "write" /\ arg[lock[k]].key = k
      BY <2>2, <3>1 DEF IInv, LocksAreHeld
    <3> QED BY <1>1, <3>1, <3>2 DEF IInv, TypeOK
  <2> QED BY <2>1, <2>2 DEF FoundIsStill, LocksAreHeld
<1>4. last # r
  BY <1>1, NothingAssumption DEF IInv, TypeOK
<1>5. NothingOfDeletedUsers' /\ LastStands'
  BY <1>1, <1>4 DEF IInv, TypeOK, NothingOfDeletedUsers, LastStands, Active
<1>6. AnswerAgrees'
  BY <1>1, <1>4 DEF IInv, TypeOK, AnswerAgrees, Active, Tally
<1> QED BY <1>2, <1>3, <1>5, <1>6 DEF IInv

LEMMA ReadCountsInv ==
    ASSUME IInv, NEW r \in Requests, NEW T \in SUBSET Types, ReadCounts(r, T)
    PROVE  IInv'
<1> DEFINE C == Tally(arg[r].key[1])
           part == [t \in Types |-> IF t \in T THEN C[t] ELSE 0]
<1>1. /\ pc[r] = "counts" /\ arg[r].key[1] \in Slugs
      /\ counts' = [counts EXCEPT ![r] = part]
      /\ partial' = IF T = Types THEN partial ELSE partial \union {r}
      /\ pc' = [pc EXCEPT ![r] = "own"]
      /\ UNCHANGED <<users, reaction, lock, arg, found, last, quiet>>
  BY ToggleFacts DEF IInv, ReadCounts, Goto, rows
<1>2. /\ C \in [Types -> Nat] /\ part \in [Types -> Nat]
      /\ T = Types => part = C
      /\ \A t \in Types : part[t] <= C[t]
  BY <1>1, TallyType
<1> HIDE DEF part
<1>0. TypeOK'
  BY <1>1, <1>2 DEF IInv, TypeOK
<1>3. FoundIsStill' /\ LocksAreHeld'
  BY <1>1 DEF IInv, TypeOK, FoundIsStill, LocksAreHeld
<1>4. NothingOfDeletedUsers' /\ LastStands'
  BY <1>1 DEF IInv, NothingOfDeletedUsers, LastStands, Active
<1>5. AnswerAgrees'
  <2>1. \A s \in Slugs : Tally(s)' = Tally(s)
    BY <1>1 DEF Tally
  <2>2. \A q \in Requests : Active(q)' <=> Active(q)
    BY <1>1 DEF Active
  <2>3. ASSUME NEW q \in Requests, quiet, q = last, pc'[q] = "own"
        PROVE  /\ q \notin partial' => counts'[q] = Tally(arg[q].key[1])
               /\ \A t \in Types : counts'[q][t] <= Tally(arg[q].key[1])[t]
               /\ Active(q) <=> reaction[arg[q].key] = arg[q].type
               /\ arg[q].key[1] \in Slugs
    <3>1. /\ q \notin partial' => counts'[q] = Tally(arg[q].key[1])
          /\ \A t \in Types : counts'[q][t] <= Tally(arg[q].key[1])[t]
      <4>1. CASE q = r
        <5>1. counts'[q] = part /\ (q \notin partial' => T = Types)
          BY <1>1, <4>1 DEF IInv, TypeOK
        <5> QED BY <1>2, <4>1, <5>1
      <4>2. CASE q # r
        <5>1. pc[q] = "own" /\ counts'[q] = counts[q] /\ (q \in partial' <=> q \in partial)
          BY <1>1, <2>3, <4>2 DEF IInv, TypeOK
        <5> QED BY <2>3, <5>1 DEF IInv, AnswerAgrees
      <4> QED BY <4>1, <4>2
    <3>2. Active(q) <=> reaction[arg[q].key] = arg[q].type
      BY <2>3, NothingAssumption DEF IInv, LastStands
    <3>3. arg[q].key[1] \in Slugs
      BY <1>1, <2>3, ToggleFacts DEF IInv, TypeOK
    <3> QED BY <3>1, <3>2, <3>3
  <2> QED BY <1>1, <2>1, <2>2, <2>3 DEF AnswerAgrees
<1> QED BY <1>0, <1>3, <1>4, <1>5 DEF IInv

LEMMA AnswerInv ==
    ASSUME IInv, NEW r \in Requests, pc[r] \in {"counts", "own"}, Answer(r)
    PROVE  IInv'
<1>1. /\ pc[r] \in {"counts", "own"}
      /\ pc' = [pc EXCEPT ![r] = "idle"]
      /\ arg' = [arg EXCEPT ![r] = <<>>]
      /\ found' = [found EXCEPT ![r] = NoReaction]
      /\ counts' = [counts EXCEPT ![r] = Zero]
      /\ partial' = partial \ {r}
      /\ last' = IF last = r THEN Nobody ELSE last
      /\ quiet' = (quiet /\ last # r)
      /\ UNCHANGED <<users, reaction, lock>>
  BY DEF Answer, End, Goto, rows
<1>2. TypeOK'
  BY <1>1 DEF IInv, TypeOK, Zero
<1>3. FoundIsStill' /\ LocksAreHeld'
  BY <1>1 DEF IInv, TypeOK, FoundIsStill, LocksAreHeld
<1>4. NothingOfDeletedUsers' /\ LastStands'
  BY <1>1 DEF IInv, TypeOK, NothingOfDeletedUsers, LastStands, Active
<1>5. AnswerAgrees'
  <2>1. CASE last = r
    BY <1>1, <2>1 DEF AnswerAgrees
  <2>2. CASE last # r
    <3>1. quiet' <=> quiet
      BY <1>1, <2>2
    <3>2. ASSUME NEW q \in Requests, q = last
          PROVE  /\ arg'[q] = arg[q] /\ counts'[q] = counts[q] /\ pc'[q] = pc[q]
                 /\ q \in partial' <=> q \in partial
                 /\ Active(q)' <=> Active(q)
      BY <1>1, <2>2, <3>2 DEF IInv, TypeOK, Active
    <3> QED BY <1>1, <2>2, <3>1, <3>2 DEF IInv, AnswerAgrees, Tally
  <2> QED BY <2>1, <2>2
<1> QED BY <1>2, <1>3, <1>4, <1>5 DEF IInv

LEMMA EraseInv ==
    ASSUME IInv, NEW K \in SUBSET Keys, Unlocked(K), Erase(K), users' \in SUBSET users,
           \A k \in Keys : k[2] \in users /\ k[2] \notin users' => k \in K
    PROVE  IInv'
<1>1. /\ reaction' = [k \in Keys |-> IF k \in K THEN NoReaction ELSE reaction[k]]
      /\ quiet' = FALSE
      /\ UNCHANGED <<lock, pc, arg, found, counts, partial, last>>
      /\ \A k \in K : lock[k] = Nobody
  BY DEF Erase, request, Unlocked
<1>2. TypeOK'
  BY <1>1 DEF IInv, TypeOK
<1>3. FoundIsStill'
  <2> SUFFICES ASSUME NEW r \in Requests, pc[r] = "write", found[r] # NoReaction
               PROVE  reaction'[arg[r].key] = found[r] /\ lock[arg[r].key] = r
    BY <1>1 DEF FoundIsStill
  <2>1. reaction[arg[r].key] = found[r] /\ lock[arg[r].key] = r /\ arg[r].key \in Keys
    BY ToggleFacts DEF IInv, FoundIsStill
  <2> QED BY <1>1, <2>1, NothingAssumption
<1>4. LocksAreHeld' /\ NothingOfDeletedUsers' /\ LastStands' /\ AnswerAgrees'
  BY <1>1 DEF IInv, LocksAreHeld, NothingOfDeletedUsers, LastStands, AnswerAgrees
<1> QED BY <1>2, <1>3, <1>4 DEF IInv

LEMMA StepInv == IInv /\ [Next]_vars => IInv'
<1> SUFFICES ASSUME IInv, [Next]_vars PROVE IInv'
  OBVIOUS
<1>1. ASSUME NEW r \in Requests, NEW a \in Asked, ToggleRead(r, a) PROVE IInv'
  BY <1>1, ToggleReadInv
<1>2. ASSUME NEW r \in Requests, ToggleWrite(r) PROVE IInv'
  BY <1>2, ToggleWriteInv
<1>3. ASSUME NEW r \in Requests, ToggleFails(r) PROVE IInv'
  BY <1>3, ToggleFailsInv
<1>4. ASSUME NEW r \in Requests, NEW T \in SUBSET Types, ReadCounts(r, T) PROVE IInv'
  BY <1>4, ReadCountsInv
<1>5. ASSUME NEW r \in Requests, AnswerFails(r) \/ ReadOwn(r) PROVE IInv'
  BY <1>5, AnswerInv DEF AnswerFails, ReadOwn
<1>6. ASSUME NEW s \in Slugs, NEW U \in SUBSET Users, DeleteReaction(s, U) PROVE IInv'
  <2>1. {s} \X U \in SUBSET Keys
    BY DEF Keys
  <2>2. Unlocked({s} \X U) /\ Erase({s} \X U) /\ users' = users
    BY <1>6 DEF DeleteReaction
  <2> QED BY <2>1, <2>2, EraseInv
<1>7. ASSUME NEW u \in Users, DeleteUser(u) PROVE IInv'
  <2>1. Slugs \X {u} \in SUBSET Keys
    BY DEF Keys
  <2>2. Unlocked(Slugs \X {u}) /\ Erase(Slugs \X {u}) /\ users' = users \ {u}
    BY <1>7 DEF DeleteUser
  <2>3. \A k \in Keys : k[2] \in users /\ k[2] \notin users' => k \in Slugs \X {u}
    BY <2>2 DEF Keys
  <2> QED BY <2>1, <2>2, <2>3, EraseInv
<1>8. CASE UNCHANGED vars
  <2>1. UNCHANGED <<users, reaction, lock, pc, arg, found, counts, partial, last, quiet>>
    BY <1>8 DEF vars, rows, request
  <2> QED BY <2>1 DEF IInv, TypeOK, FoundIsStill, LocksAreHeld, NothingOfDeletedUsers, LastStands,
                      AnswerAgrees, Active, Tally
<1>9. ASSUME Next PROVE IInv'
  BY <1>1, <1>2, <1>3, <1>4, <1>5, <1>6, <1>7, <1>9 DEF Next
<1> QED BY <1>8, <1>9

-----------------------------------------------------------------------------
\* Every reachable state satisfies the inductive invariant.
THEOREM Invariance == Spec => []IInv
<1>1. Init => IInv
  BY InitInv
<1>2. IInv /\ [Next]_vars => IInv'
  BY StepInv
<1> QED BY <1>1, <1>2, PTL DEF Spec

\* Rows, locks and requests keep their types (repository/reaction.go).
THEOREM TypeCorrect == Spec => []TypeOK
<1>1. IInv => TypeOK
  BY DEF IInv
<1> QED BY <1>1, Invariance, PTL

\* The row a toggle found is as it was found, and its own, until it commits
\* (repository/reaction.go, SELECT ... FOR UPDATE).
THEOREM FoundStays == Spec => []FoundIsStill
<1>1. IInv => FoundIsStill
  BY DEF IInv
<1> QED BY <1>1, Invariance, PTL

\* No way out of ToggleReaction leaves a row locked.
THEOREM NoLockLeaks == Spec => []LocksAreHeld
<1>1. IInv => LocksAreHeld
  BY DEF IInv
<1> QED BY <1>1, Invariance, PTL

\* No reaction outlives its account, for any interleaving of toggles with
\* the deletion (post_reactions.user_id, ON DELETE CASCADE).
THEOREM AccountsTakeTheirReactions == Spec => []NothingOfDeletedUsers
<1>1. IInv => NothingOfDeletedUsers
  BY DEF IInv
<1> QED BY <1>1, Invariance, PTL

\* Undisturbed, a toggle's answer is its own effect, and no count is too high
\* even when the read of the counts broke off (reaction.go:48-55).
THEOREM AnswersAgree == Spec => []AnswerAgrees
<1>1. IInv => AnswerAgrees
  BY DEF IInv
<1> QED BY <1>1, Invariance, PTL

-----------------------------------------------------------------------------
(* The refinement: the commit is the abstract step, the rest stutters.       *)

LEMMA InitRow == Init => Row!Init
BY DEF Init, Row!Init, Said

\* A step of r that leaves the last commit's request alone leaves what was said.
LEMMA SaidSame ==
    ASSUME UNCHANGED last,
           last # Nobody => arg'[last] = arg[last] /\ found'[last] = found[last]
    PROVE  Said' = Said
BY DEF Said, Active

LEMMA StepRow == IInv /\ IInv' /\ [Next]_vars => [Row!Next]_Row!vars
<1> SUFFICES ASSUME IInv, IInv', [Next]_vars PROVE [Row!Next]_Row!vars
  OBVIOUS
<1> USE DEF Row!vars
<1>1. ASSUME NEW r \in Requests, NEW a \in Asked, ToggleRead(r, a) PROVE [Row!Next]_Row!vars
  <2>1. UNCHANGED <<reaction, last>> /\ last # r
    BY <1>1, NothingAssumption DEF ToggleRead, IInv, TypeOK
  <2>2. last # Nobody => arg'[last] = arg[last] /\ found'[last] = found[last]
    BY <1>1, <2>1 DEF ToggleRead, IInv, TypeOK
  <2> QED BY <2>1, <2>2, SaidSame
<1>2. ASSUME NEW r \in Requests, ToggleWrite(r) PROVE [Row!Next]_Row!vars
  <2> DEFINE k == arg[r].key
             t == arg[r].type
  <2>1. /\ pc[r] = "write" /\ k \in Keys /\ t \in Types
        /\ reaction' = [reaction EXCEPT ![k] = Outcome(r)]
        /\ last' = r /\ UNCHANGED <<arg, found>>
    BY <1>2, ToggleFacts DEF ToggleWrite, IInv
  <2>2. /\ Outcome(r) = IF Active(r) THEN t ELSE NoReaction
        /\ ~Active(r) => reaction[k] = t
    BY <2>1, OutcomeFacts DEF IInv
  <2>3. Said' = <<k, t, Active(r)>>
    BY <2>1, NothingAssumption DEF Said, Active
  <2>4. Active(r) \in BOOLEAN
    BY DEF Active
  <2> HIDE DEF k, t
  <2>5. CASE Active(r)
    <3>1. Row!On(k, t)
      BY <2>1, <2>2, <2>3, <2>5 DEF Row!On
    <3> QED BY <2>1, <3>1 DEF Row!Next
  <2>6. CASE ~Active(r)
    <3>1. Said' = <<k, t, FALSE>>
      BY <2>3, <2>4, <2>6
    <3>2. Row!Off(k, t)
      BY <2>1, <2>2, <2>6, <3>1 DEF Row!Off
    <3> QED BY <2>1, <3>2 DEF Row!Next
  <2> QED BY <2>5, <2>6
<1>3. ASSUME NEW r \in Requests, ToggleFails(r) PROVE [Row!Next]_Row!vars
  <2>1. UNCHANGED <<reaction, last>> /\ last # r
    BY <1>3, NothingAssumption DEF ToggleFails, IInv, TypeOK
  <2>2. last # Nobody => arg'[last] = arg[last] /\ found'[last] = found[last]
    BY <1>3, <2>1 DEF ToggleFails, End, IInv, TypeOK
  <2> QED BY <2>1, <2>2, SaidSame
<1>4. ASSUME NEW r \in Requests, NEW T \in SUBSET Types, ReadCounts(r, T)
      PROVE  [Row!Next]_Row!vars
  <2>1. UNCHANGED <<reaction, last, arg, found>>
    BY <1>4 DEF ReadCounts, rows
  <2> QED BY <2>1, SaidSame
<1>5. ASSUME NEW r \in Requests, AnswerFails(r) \/ ReadOwn(r) PROVE [Row!Next]_Row!vars
  <2>0. Answer(r)
    BY <1>5 DEF AnswerFails, ReadOwn
  <2>1. UNCHANGED reaction /\ last' = IF last = r THEN Nobody ELSE last
    BY <2>0 DEF Answer, rows
  <2>2. CASE last = r
    <3>1. Row!Answered
      BY <2>1, <2>2 DEF Row!Answered, Said
    <3> QED BY <3>1 DEF Row!Next
  <2>3. CASE last # r
    <3>1. last # Nobody => arg'[last] = arg[last] /\ found'[last] = found[last]
      BY <2>0, <2>3 DEF Answer, End, IInv, TypeOK
    <3> QED BY <2>1, <2>3, <3>1, SaidSame
  <2> QED BY <2>2, <2>3
<1>6. ASSUME NEW K \in SUBSET Keys, Erase(K) PROVE [Row!Next]_Row!vars
  <2>1. UNCHANGED <<last, arg, found>>
    BY <1>6 DEF Erase, request
  <2>2. Row!Remove(K)
    BY <1>6, <2>1, SaidSame DEF Erase, Row!Remove
  <2> QED BY <2>2 DEF Row!Next
<1>7. ASSUME NEW s \in Slugs, NEW U \in SUBSET Users, DeleteReaction(s, U) PROVE [Row!Next]_Row!vars
  <2>1. {s} \X U \in SUBSET Keys
    BY DEF Keys
  <2> QED BY <1>6, <1>7, <2>1 DEF DeleteReaction
<1>8. ASSUME NEW u \in Users, DeleteUser(u) PROVE [Row!Next]_Row!vars
  <2>1. Slugs \X {u} \in SUBSET Keys
    BY DEF Keys
  <2> QED BY <1>6, <1>8, <2>1 DEF DeleteUser
<1>9. CASE UNCHANGED vars
  <2>1. UNCHANGED <<reaction, last, arg, found>>
    BY <1>9 DEF vars, rows, request
  <2> QED BY <2>1, SaidSame
<1>10. ASSUME Next PROVE [Row!Next]_Row!vars
  BY <1>1, <1>2, <1>3, <1>4, <1>5, <1>7, <1>8, <1>10 DEF Next
<1> QED BY <1>9, <1>10

\* Toggles with two statements do what one would, for any number of requests:
\* Reactions implements ReactionRow.
THEOREM ImplementsRow == Spec => TogglesAreAtomic
<1>1. Init => Row!Init
  BY InitRow
<1>2. IInv /\ IInv' /\ [Next]_vars => [Row!Next]_Row!vars
  BY StepRow
<1> QED BY <1>1, <1>2, Invariance, PTL DEF Spec, TogglesAreAtomic, Row!Spec
=============================================================================
