------------------------------ MODULE ReactionRow ------------------------------
(***************************************************************************)
(* What the reactions of one post promise.  A user has at most one.  A     *)
(* request that answers "active" leaves the user with the type it named; a *)
(* request that answers "not active" found exactly that type and took it   *)
(* away.  Otherwise a reaction only ever disappears.                       *)
(*                                                                         *)
(* On may find the type it names already there: the promise is not "every  *)
(* request toggles", since two first reactions of one user may both be on. *)
(***************************************************************************)

CONSTANTS Users, Types, NoReaction

VARIABLES
    reaction,   \* reaction[u]: the user's reaction
    said        \* the last toggle's <<user, type, active>>, until one is answered

vars == <<reaction, said>>

Init ==
    /\ reaction = [u \in Users |-> NoReaction]
    /\ said = <<>>

On(u, t) ==
    /\ reaction' = [reaction EXCEPT ![u] = t]
    /\ said' = <<u, t, TRUE>>

Off(u, t) ==
    /\ reaction[u] = t
    /\ reaction' = [reaction EXCEPT ![u] = NoReaction]
    /\ said' = <<u, t, FALSE>>

\* A moderator, or the end of an account, takes reactions away.
Remove(U) ==
    /\ reaction' = [u \in Users |-> IF u \in U THEN NoReaction ELSE reaction[u]]
    /\ UNCHANGED said

Answered == said' = <<>> /\ UNCHANGED reaction

Next ==
    \/ \E u \in Users, t \in Types : On(u, t) \/ Off(u, t)
    \/ \E U \in SUBSET Users : Remove(U)
    \/ Answered

Spec == Init /\ [][Next]_vars
=============================================================================
