---------------------------- MODULE Threads_proofs ----------------------------
(***************************************************************************)
(* Proofs about Threads, for any accounts, slugs, posts, requests and      *)
(* number of comments: first the inductive invariant, then what            *)
(* GetCommentsBySlug makes of the rows that satisfy it.                    *)
(***************************************************************************)
EXTENDS Threads, FiniteSetTheorems, SequenceTheorems, WellFoundedInduction, TLAPS

-----------------------------------------------------------------------------
(* The inductive invariant, in named parts. *)

\* Rows are among the comments written so far.
RowsAreWritten == \A c \in Live : c <= written

\* What a request knows of the parent it checked stays true while it lives.
ParentChecked ==
    \A r \in Requests : reply[r] # NoArg =>
        /\ reply[r].parent <= written
        /\ reply[r].parent \in Live => comment[reply[r].parent].slug = reply[r].slug

OnePostPerSlug ==
    \A p, q \in Posts : slug[p] = slug[q] /\ slug[p] # NoPost => p = q

\* The post a comment was written under has its slug, or has left it.
UnderOrLeft ==
    \A c \in Live : comment[c].under # NoPost =>
        \/ comment[c].under \in left
        \/ slug[comment[c].under] = comment[c].slug

IInv ==
    /\ TypeOK
    /\ RowsAreWritten
    /\ ParentInThread
    /\ ParentChecked
    /\ NothingOfDeletedUsers
    /\ OnePostPerSlug
    /\ UnderOrLeft

LEMMA RowFacts ==
    ASSUME TypeOK, NEW c \in Live
    PROVE  c \in Comments /\ comment[c] \in Rows /\ comment[c] # NoRow
BY DEF TypeOK, Live

-----------------------------------------------------------------------------
(* Deleting comments. *)

\* A reply to a comment that goes goes with it.
LEMMA WithRepliesClosed ==
    ASSUME NEW D, NEW c \in Live, comment[c].parent \in WithReplies(D)
    PROVE  c \in WithReplies(D)
<1> SUFFICES ASSUME NEW P \in SUBSET Live, D \subseteq P, Closed(P)
             PROVE  c \in P
  BY DEF WithReplies
<1>1. comment[c].parent \in P
  BY DEF WithReplies
<1> QED BY <1>1 DEF Closed

LEMMA WithRepliesHolds ==
    ASSUME NEW D \in SUBSET Live
    PROVE  D \subseteq WithReplies(D) /\ WithReplies(D) \subseteq Live
BY DEF WithReplies

\* A deletion with its cascade keeps the rest of every thread in place.
LEMMA DeletionInv ==
    ASSUME IInv, NEW D \in SUBSET Live, comment' = Without(D),
           UNCHANGED <<posts, written, reply>>,
           users' \in SUBSET users,
           \A c \in Live : comment[c].author \notin users' => c \in D
    PROVE  IInv'
<1>1. /\ \A c \in Comments : comment'[c] = IF c \in WithReplies(D) THEN NoRow ELSE comment[c]
      /\ DOMAIN comment' = Comments
  BY DEF Without
<1>2. /\ Live' = Live \ WithReplies(D)
      /\ \A c \in Live' : c \in Live /\ comment'[c] = comment[c]
  BY <1>1 DEF Live
<1>3. TypeOK'
  BY <1>1 DEF IInv, TypeOK, Without, posts, Rows, Comments, Replies
<1>4. RowsAreWritten' /\ UnderOrLeft' /\ OnePostPerSlug'
  BY <1>2 DEF IInv, RowsAreWritten, UnderOrLeft, OnePostPerSlug, posts
<1>5. ParentInThread'
  <2> SUFFICES ASSUME NEW c \in Live', comment'[c].parent # NoParent
               PROVE  /\ comment'[c].parent \in Live'
                      /\ comment'[comment'[c].parent].slug = comment'[c].slug
                      /\ comment'[c].parent < c
    BY DEF ParentInThread
  <2>1. c \in Live /\ comment'[c] = comment[c] /\ c \notin WithReplies(D)
    BY <1>2
  <2>2. /\ comment[c].parent \in Live
        /\ comment[comment[c].parent].slug = comment[c].slug
        /\ comment[c].parent < c
    BY <2>1 DEF IInv, ParentInThread
  <2>3. comment[c].parent \notin WithReplies(D)
    BY <2>1, WithRepliesClosed
  <2>4. comment[c].parent \in Live'
    BY <1>2, <2>2, <2>3
  <2> QED BY <1>2, <2>1, <2>2, <2>4
<1>6. ParentChecked'
  BY <1>2 DEF IInv, ParentChecked
<1>7. NothingOfDeletedUsers'
  <2> SUFFICES ASSUME NEW c \in Live' PROVE comment'[c].author \in users'
    BY DEF NothingOfDeletedUsers
  <2>1. c \in Live /\ comment'[c] = comment[c] /\ c \notin D
    BY <1>2, WithRepliesHolds
  <2> QED BY <2>1
<1> QED BY <1>3, <1>4, <1>5, <1>6, <1>7 DEF IInv

-----------------------------------------------------------------------------
(* Writing a comment. *)

LEMMA PostAtFacts ==
    ASSUME NEW s \in Slugs
    PROVE  /\ PostAt(s) \in Posts \cup {NoPost}
           /\ PostAt(s) # NoPost => slug[PostAt(s)] = s
BY NullAssumption DEF PostAt, Taken

LEMMA InsertInv ==
    ASSUME IInv, NEW u \in Users, NEW s \in Slugs, NEW p \in Live \cup {NoParent},
           Insert(u, s, p), p \in Live => comment[p].slug = s,
           UNCHANGED <<users, posts>>,
           reply' \in [Requests -> Replies \cup {NoArg}],
           \A r \in Requests : reply'[r] \in {reply[r], NoArg}
    PROVE  IInv'
<1> DEFINE new == written + 1
           row == [slug |-> s, author |-> u, parent |-> p, edited |-> FALSE, under |-> PostAt(s)]
<1>1. new \in Comments /\ written \in Nat /\ written < MaxComments /\ MaxComments \in Nat
  BY NullAssumption DEF IInv, TypeOK, Insert, Comments
<1>2. row \in Rows /\ row # NoRow
  <2>1. p \in Comments \cup {NoParent} /\ PostAt(s) \in Posts \cup {NoPost}
    BY PostAtFacts DEF Live
  <2>2. row \in Rows
    BY <2>1 DEF Rows
  <2>3. Rows \subseteq [slug : Slugs, author : Users, parent : Nat,
                        edited : BOOLEAN, under : Posts \cup {NoPost}]
    BY DEF Rows, Comments, NoParent
  <2> QED BY <2>2, <2>3, NullAssumption
<1>3. /\ comment' = [comment EXCEPT ![new] = row] /\ written' = new
      /\ users' = users /\ slug' = slug /\ left' = left /\ u \in users
  BY DEF Insert, posts
<1> HIDE DEF new, row
<1>4. new \notin Live /\ \A c \in Live : c < new /\ c # new
  BY <1>1 DEF IInv, RowsAreWritten, new, Live, Comments
<1>5. /\ comment'[new] = row
      /\ \A c \in Comments : c # new => comment'[c] = comment[c]
      /\ Live' = Live \cup {new}
  BY <1>1, <1>2, <1>3 DEF IInv, TypeOK, Live
<1>6. /\ row.slug = s /\ row.author = u /\ row.parent = p /\ row.under = PostAt(s)
  BY DEF row
<1>7. TypeOK'
  <2>1. comment' \in [Comments -> Rows \cup {NoRow}]
    BY <1>1, <1>2, <1>3 DEF IInv, TypeOK
  <2>2. written' \in 0 .. MaxComments
    BY <1>1, <1>3 DEF new
  <2> QED BY <1>3, <2>1, <2>2 DEF IInv, TypeOK, Rows, Comments, Replies
<1>8. RowsAreWritten'
  BY <1>1, <1>3, <1>4, <1>5 DEF RowsAreWritten, Live, Comments
<1>9. ParentInThread'
  <2> SUFFICES ASSUME NEW c \in Live', comment'[c].parent # NoParent
               PROVE  /\ comment'[c].parent \in Live'
                      /\ comment'[comment'[c].parent].slug = comment'[c].slug
                      /\ comment'[c].parent < c
    BY DEF ParentInThread
  <2>1. CASE c = new
    <3>1. p \in Live /\ p # new /\ p < new /\ comment'[p] = comment[p]
      BY <1>4, <1>5, <1>6, <2>1 DEF Live
    <3> QED BY <1>5, <1>6, <2>1, <3>1
  <2>2. CASE c # new
    <3>1. c \in Live /\ comment'[c] = comment[c]
      BY <1>5, <2>2 DEF Live
    <3>2. /\ comment[c].parent \in Live
          /\ comment[comment[c].parent].slug = comment[c].slug
          /\ comment[c].parent < c
      BY <3>1 DEF IInv, ParentInThread
    <3>3. comment'[comment[c].parent] = comment[comment[c].parent]
      BY <1>4, <1>5, <3>2 DEF Live
    <3> QED BY <1>5, <3>1, <3>2, <3>3
  <2> QED BY <2>1, <2>2
<1>10. ParentChecked'
  <2> SUFFICES ASSUME NEW r \in Requests, reply'[r] # NoArg
               PROVE  /\ reply'[r].parent <= written'
                      /\ reply'[r].parent \in Live'
                            => comment'[reply'[r].parent].slug = reply'[r].slug
    BY DEF ParentChecked
  <2>1. /\ reply'[r] = reply[r] /\ reply[r] # NoArg /\ reply[r] \in Replies
        /\ reply[r].parent <= written
        /\ reply[r].parent \in Live => comment[reply[r].parent].slug = reply[r].slug
    BY DEF IInv, TypeOK, ParentChecked
  <2>2. reply[r].parent \in Nat /\ reply[r].parent # new /\ reply[r].parent <= new
    BY <1>1, <2>1 DEF Replies, Comments, new
  <2> QED BY <1>3, <1>5, <2>1, <2>2 DEF Live
<1>11. NothingOfDeletedUsers'
  BY <1>3, <1>5, <1>6 DEF IInv, NothingOfDeletedUsers, Live
<1>12. OnePostPerSlug'
  BY <1>3 DEF IInv, OnePostPerSlug
<1>13. UnderOrLeft'
  BY <1>3, <1>5, <1>6, PostAtFacts DEF IInv, UnderOrLeft, Live
<1> QED BY <1>7, <1>8, <1>9, <1>10, <1>11, <1>12, <1>13 DEF IInv

-----------------------------------------------------------------------------
LEMMA InitInv == Init => IInv
<1> SUFFICES ASSUME Init PROVE IInv
  OBVIOUS
<1>1. Live = {}
  BY DEF Init, Live
<1>2. TypeOK
  BY NullAssumption DEF Init, TypeOK
<1> QED BY <1>1, <1>2 DEF Init, IInv, RowsAreWritten, ParentInThread, ParentChecked,
                          NothingOfDeletedUsers, OnePostPerSlug, UnderOrLeft

LEMMA PostsInv ==
    ASSUME IInv, NEW p \in Posts,
           \/ \E s \in Slugs : CreatePost(p, s)
           \/ \E s \in Slugs \cup {Blank} : UpdatePost(p, s)
           \/ DeletePost(p)
    PROVE  IInv'
<1>1. UNCHANGED <<users, written, comment, reply>>
  BY DEF CreatePost, UpdatePost, DeletePost, threads
<1>2. TypeOK'
  BY <1>1 DEF IInv, TypeOK, CreatePost, UpdatePost, DeletePost, Rows, Comments, Replies
<1>3. RowsAreWritten' /\ ParentInThread' /\ ParentChecked' /\ NothingOfDeletedUsers'
  BY <1>1 DEF IInv, RowsAreWritten, ParentInThread, ParentChecked, NothingOfDeletedUsers, Live
<1>4. OnePostPerSlug'
  BY DEF IInv, TypeOK, OnePostPerSlug, CreatePost, UpdatePost, DeletePost, Vacant, Taken
<1>5. UnderOrLeft'
  <2> SUFFICES ASSUME NEW c \in Live, comment[c].under # NoPost
               PROVE  \/ comment[c].under \in left'
                      \/ slug'[comment[c].under] = comment[c].slug
    BY <1>1 DEF UnderOrLeft, Live
  <2>1. /\ comment[c].under \in left \/ slug[comment[c].under] = comment[c].slug
        /\ comment[c].under \in Posts /\ comment[c].slug \in Slugs
    BY RowFacts DEF IInv, UnderOrLeft, Rows
  <2>2. left \subseteq left'
    BY DEF CreatePost, UpdatePost, DeletePost
  <2>3. CASE comment[c].under # p
    BY <2>1, <2>2, <2>3 DEF IInv, TypeOK, CreatePost, UpdatePost, DeletePost
  <2>4. CASE comment[c].under = p
    BY <2>1, <2>2, <2>4, NullAssumption DEF IInv, TypeOK, CreatePost, UpdatePost, DeletePost
  <2> QED BY <2>3, <2>4
<1> QED BY <1>2, <1>3, <1>4, <1>5 DEF IInv

LEMMA CheckParentInv ==
    ASSUME IInv, NEW r \in Requests, NEW a \in Replies, CheckParent(r, a)
    PROVE  IInv'
<1>1. /\ UNCHANGED <<users, slug, left, written, comment>>
      /\ reply' = [reply EXCEPT ![r] = a]
      /\ a.parent \in Live /\ comment[a.parent].slug = a.slug
  BY DEF CheckParent, posts, threads
<1>2. TypeOK'
  BY <1>1 DEF IInv, TypeOK, Rows, Comments, Replies
<1>3. ParentChecked'
  BY <1>1 DEF IInv, TypeOK, ParentChecked, RowsAreWritten, Live
<1>4. RowsAreWritten' /\ ParentInThread' /\ NothingOfDeletedUsers' /\ OnePostPerSlug' /\ UnderOrLeft'
  BY <1>1 DEF IInv, RowsAreWritten, ParentInThread, NothingOfDeletedUsers, OnePostPerSlug,
              UnderOrLeft, Live
<1> QED BY <1>2, <1>3, <1>4 DEF IInv

LEMMA ReplyFailsInv ==
    ASSUME IInv, NEW r \in Requests, ReplyFails(r)
    PROVE  IInv'
<1>1. /\ UNCHANGED <<users, slug, left, written, comment>>
      /\ reply' = [reply EXCEPT ![r] = NoArg]
  BY DEF ReplyFails, posts, threads
<1>2. TypeOK'
  BY <1>1 DEF IInv, TypeOK, Rows, Comments, Replies
<1>3. ParentChecked'
  BY <1>1 DEF IInv, TypeOK, ParentChecked, Live
<1>4. RowsAreWritten' /\ ParentInThread' /\ NothingOfDeletedUsers' /\ OnePostPerSlug' /\ UnderOrLeft'
  BY <1>1 DEF IInv, RowsAreWritten, ParentInThread, NothingOfDeletedUsers, OnePostPerSlug,
              UnderOrLeft, Live
<1> QED BY <1>2, <1>3, <1>4 DEF IInv

LEMMA EditInv ==
    ASSUME IInv, NEW d \in Comments, EditRow(d)
    PROVE  IInv'
<1> DEFINE row == [comment[d] EXCEPT !.edited = TRUE]
<1>1. /\ UNCHANGED <<users, slug, left, written, reply>>
      /\ comment' = [comment EXCEPT ![d] = row]
      /\ d \in Live
  BY DEF EditRow, posts
<1>2. /\ row \in Rows /\ row # NoRow /\ row.slug = comment[d].slug /\ row.author = comment[d].author
      /\ row.parent = comment[d].parent /\ row.under = comment[d].under
  <2>1. comment[d] \in Rows
    BY <1>1, RowFacts DEF IInv
  <2>2. row \in Rows
    BY <2>1 DEF Rows
  <2>3. Rows \subseteq [slug : Slugs, author : Users, parent : Nat,
                        edited : BOOLEAN, under : Posts \cup {NoPost}]
    BY DEF Rows, Comments, NoParent
  <2>4. row # NoRow
    BY <2>2, <2>3, NullAssumption
  <2> QED BY <2>1, <2>2, <2>4 DEF Rows
<1> HIDE DEF row
<1>3. /\ comment'[d] = row /\ \A c \in Comments : c # d => comment'[c] = comment[c]
      /\ Live' = Live
  BY <1>1, <1>2 DEF IInv, TypeOK, Live
<1>4. \A c \in Live : /\ comment'[c].slug = comment[c].slug
                      /\ comment'[c].author = comment[c].author
                      /\ comment'[c].parent = comment[c].parent
                      /\ comment'[c].under = comment[c].under
  BY <1>2, <1>3 DEF Live
<1>5. TypeOK'
  <2>1. comment' \in [Comments -> Rows \cup {NoRow}]
    BY <1>1, <1>2 DEF IInv, TypeOK
  <2> QED BY <1>1, <2>1 DEF IInv, TypeOK, Rows, Comments, Replies
<1>6. RowsAreWritten' /\ NothingOfDeletedUsers' /\ OnePostPerSlug' /\ UnderOrLeft'
  BY <1>1, <1>3, <1>4 DEF IInv, RowsAreWritten, NothingOfDeletedUsers, OnePostPerSlug, UnderOrLeft
<1>7. ParentInThread' /\ ParentChecked'
  BY <1>1, <1>3, <1>4 DEF IInv, ParentInThread, ParentChecked
<1> QED BY <1>5, <1>6, <1>7 DEF IInv

LEMMA StepInv == IInv /\ [Next]_vars => IInv'
<1> SUFFICES ASSUME IInv, [Next]_vars PROVE IInv'
  OBVIOUS
<1>1. ASSUME NEW p \in Posts, NEW s \in Slugs, CreatePost(p, s) PROVE IInv'
  BY <1>1, PostsInv
<1>2. ASSUME NEW p \in Posts, NEW s \in Slugs \cup {Blank}, UpdatePost(p, s) PROVE IInv'
  BY <1>2, PostsInv
<1>3. ASSUME NEW p \in Posts, DeletePost(p) PROVE IInv'
  BY <1>3, PostsInv
<1>4. ASSUME NEW u \in Users, NEW s \in Slugs, CreateComment(u, s) PROVE IInv'
  <2>1. NoParent \notin Live
    BY DEF Live, Comments, NoParent
  <2>2. Insert(u, s, NoParent) /\ UNCHANGED <<users, posts, reply>>
    BY <1>4 DEF CreateComment
  <2>3. reply' \in [Requests -> Replies \cup {NoArg}]
    BY <2>2 DEF IInv, TypeOK
  <2> QED BY <2>1, <2>2, <2>3, InsertInv
<1>5. ASSUME NEW r \in Requests, NEW a \in Replies, CheckParent(r, a) PROVE IInv'
  BY <1>5, CheckParentInv
<1>6. ASSUME NEW r \in Requests, InsertReply(r) PROVE IInv'
  <2>1. /\ reply[r] \in Replies /\ reply[r].user \in Users /\ reply[r].slug \in Slugs
        /\ Insert(reply[r].user, reply[r].slug, reply[r].parent)
        /\ UNCHANGED <<users, posts>> /\ reply' = [reply EXCEPT ![r] = NoArg]
    BY <1>6 DEF IInv, TypeOK, InsertReply, Replies
  <2>2. reply[r].parent \in Live \cup {NoParent}
    BY <2>1 DEF Insert
  <2>3. reply[r].parent \in Live => comment[reply[r].parent].slug = reply[r].slug
    BY <1>6 DEF IInv, ParentChecked, InsertReply
  <2>4. reply' \in [Requests -> Replies \cup {NoArg}]
        /\ \A q \in Requests : reply'[q] \in {reply[q], NoArg}
    BY <2>1 DEF IInv, TypeOK
  <2> QED BY <2>1, <2>2, <2>3, <2>4, InsertInv
<1>7. ASSUME NEW r \in Requests, ReplyFails(r) PROVE IInv'
  BY <1>7, ReplyFailsInv
<1>8. ASSUME NEW c \in Comments, EditRow(c) PROVE IInv'
  BY <1>8, EditInv
<1>9. ASSUME NEW c \in Comments, RemoveRow(c) PROVE IInv'
  <2>1. {c} \in SUBSET Live /\ comment' = Without({c}) /\ UNCHANGED <<users, posts, written, reply>>
    BY <1>9 DEF RemoveRow
  <2>2. users' \in SUBSET users /\ \A d \in Live : comment[d].author \notin users' => d \in {c}
    BY <2>1 DEF IInv, NothingOfDeletedUsers
  <2> QED BY <2>1, <2>2, DeletionInv
<1>10. ASSUME NEW u \in Users, DeleteUser(u) PROVE IInv'
  <2> DEFINE D == {c \in Live : comment[c].author = u}
  <2>1. comment' = Without(D) /\ UNCHANGED <<posts, written, reply>> /\ users' = users \ {u}
    BY <1>10 DEF DeleteUser
  <2>2. users' \in SUBSET users /\ \A d \in Live : comment[d].author \notin users' => d \in D
    BY <2>1 DEF IInv, NothingOfDeletedUsers
  <2>3. D \in SUBSET Live
    OBVIOUS
  <2> HIDE DEF D
  <2> QED BY <2>1, <2>2, <2>3, DeletionInv
<1>11. CASE UNCHANGED vars
  <2>1. UNCHANGED <<users, slug, left, written, comment, reply>>
    BY <1>11 DEF vars, posts, threads
  <2> QED BY <2>1 DEF IInv, TypeOK, RowsAreWritten, ParentInThread, ParentChecked,
                      NothingOfDeletedUsers, OnePostPerSlug, UnderOrLeft, Live, Rows, Comments, Replies
<1> QED BY <1>1, <1>2, <1>3, <1>4, <1>5, <1>6, <1>7, <1>8, <1>9, <1>10, <1>11
      DEF Next, UpdateComment, DeleteComment, AdminUpdateComment, AdminDeleteComment

-----------------------------------------------------------------------------
\* Every reachable state satisfies the inductive invariant.
THEOREM Invariance == Spec => []IInv
<1>1. Init => IInv
  BY InitInv
<1>2. IInv /\ [Next]_vars => IInv'
  BY StepInv
<1> QED BY <1>1, <1>2, PTL DEF Spec

\* Posts, comments and requests keep their types: no comment is ever written
\* under a blank slug (service/comment.go).
THEOREM TypeCorrect == Spec => []TypeOK
<1>1. IInv => TypeOK
  BY DEF IInv
<1> QED BY <1>1, Invariance, PTL

\* A reply's parent exists, is on its post and is older, whatever deletions
\* come between the check and the INSERT (service/comment.go, CreateComment).
THEOREM RepliesInThread == Spec => []ParentInThread
<1>1. IInv => ParentInThread
  BY DEF IInv
<1> QED BY <1>1, Invariance, PTL

\* The cascades leave nothing of a deleted account (repository/user.go,
\* DeleteUser; the foreign keys of post_comments).
THEOREM AccountsTakeTheirComments == Spec => []NothingOfDeletedUsers
<1>1. IInv => NothingOfDeletedUsers
  BY DEF IInv
<1> QED BY <1>1, Invariance, PTL

\* A post shows another post's comments only after that one was renamed or
\* deleted (repository/post.go: posts.slug is UNIQUE, comments keep theirs).
THEOREM InheritsOnlyLeftComments == Spec => []InheritedOnlyWhenLeft
<1>1. IInv => InheritedOnlyWhenLeft
  <2> SUFFICES ASSUME IInv, NEW c \in Live, NEW p \in Posts,
                      slug[p] = comment[c].slug, comment[c].under \notin {p, NoPost}
               PROVE  comment[c].under \in left
    BY DEF InheritedOnlyWhenLeft
  <2>1. comment[c].under \in Posts /\ comment[c].slug \in Slugs
    BY RowFacts DEF IInv, Rows
  <2>2. slug[comment[c].under] # comment[c].slug
    BY <2>1, NullAssumption DEF IInv, OnePostPerSlug
  <2> QED BY <2>2 DEF IInv, UnderOrLeft
<1> QED BY <1>1, Invariance, PTL

-----------------------------------------------------------------------------
(* Induction over the comments written. *)

\* Numbers, smaller ones first.
Less == {p \in Nat \X Nat : p[1] < p[2]}

\* A set of numbers that is not empty has a smallest one.
LEMMA LeastNumber ==
    ASSUME NEW S \in SUBSET Nat, S # {}
    PROVE  \E x \in S : \A y \in S : x <= y
<1>1. IsWellFoundedOn(Less, Nat)
  <2>1. Less = OpToRel(<, Nat)
    BY DEF Less, OpToRel
  <2> QED BY <2>1, NatLessThanWellFounded, Zenon
<1>2. PICK x \in S : \A y \in S : ~ (<<y, x>> \in Less)
  BY <1>1, WFMin
<1>3. ASSUME NEW y \in S PROVE x <= y
  <2>1. x \in Nat /\ y \in Nat /\ ~ (<<y, x>> \in Less)
    BY <1>2
  <2>2. ~ (y < x)
    BY <2>1 DEF Less
  <2> QED BY <2>1, <2>2
<1> QED BY <1>3

\* Induction, with a set for the numbers that have the property: the prover
\* cannot instantiate a theorem that takes the property as an operator.
LEMMA NatSetInduction ==
    ASSUME NEW S, 0 \in S, \A n \in Nat : n \in S => n + 1 \in S
    PROVE  Nat \subseteq S
<1>1. SUFFICES ASSUME Nat \ S # {} PROVE FALSE
  OBVIOUS
<1>2. PICK x \in Nat \ S : \A y \in Nat \ S : x <= y
  BY <1>1, LeastNumber
<1>3. x # 0 /\ x - 1 \in Nat
  BY <1>2
<1> QED BY <1>2, <1>3

\* The largest of some of the numbers 1..k.
LEMMA MaxFacts ==
    ASSUME NEW k \in Nat, NEW T \in SUBSET (1..k), T # {}
    PROVE  Max(T) \in T /\ \A y \in T : y <= Max(T)
<1> DEFINE U == {n \in 0..k : k - n \in T}
<1>1. \A z \in T : k - z \in U
  OBVIOUS
<1>2. U \in SUBSET Nat /\ U # {}
  <2>1. U \in SUBSET Nat
    OBVIOUS
  <2>2. U # {}
    <3> HIDE DEF U
    <3> QED BY <1>1
  <2> QED BY <2>1, <2>2
<1>3. PICK y \in U : \A z \in U : y <= z
  BY <1>2, LeastNumber
<1>4. k - y \in T /\ \A z \in T : z <= k - y
  BY <1>1, <1>3
<1> DEFINE P(x) == x \in T /\ \A z \in T : x >= z
<1>5. P(k - y)
  BY <1>4
<1>6. Max(T) = CHOOSE x \in T : \A z \in T : x >= z
  BY DEF Max
<1>7. P(Max(T))
  BY <1>5, <1>6
<1> QED BY <1>7

-----------------------------------------------------------------------------
(* OldestFirst *)

\* Up to the n-th comment.
UpTo(C, f) ==
    f = [n \in 0 .. written |->
            IF n = 0 THEN <<>> ELSE IF n \in C THEN Append(f[n - 1], n) ELSE f[n - 1]]

\* There is such a function, so OldestFirst, which chooses one, has its equation.
LEMMA UpToExists ==
    ASSUME written \in Nat, NEW C
    PROVE  \E f : UpTo(C, f) /\ OldestFirst(C) = f[written]
<1> DEFINE Steps(f, m) ==
              \A n \in 0 .. written : n <= m =>
                 f[n] = IF n = 0 THEN <<>> ELSE IF n \in C THEN Append(f[n - 1], n) ELSE f[n - 1]
           N == {m \in Nat : \E f : f = [n \in 0 .. written |-> f[n]] /\ Steps(f, m)}
<1>1. 0 \in N
  <2> DEFINE f == [n \in 0 .. written |-> <<>>]
  <2>1. f = [n \in 0 .. written |-> f[n]] /\ Steps(f, 0)
    OBVIOUS
  <2> QED BY <2>1
<1>2. ASSUME NEW m \in Nat, m \in N PROVE m + 1 \in N
  <2>1. PICK f : f = [n \in 0 .. written |-> f[n]] /\ Steps(f, m)
    BY <1>2
  <2> DEFINE g == [n \in 0 .. written |->
                IF n = m + 1 THEN IF n \in C THEN Append(f[n - 1], n) ELSE f[n - 1] ELSE f[n]]
  <2>2. g = [n \in 0 .. written |-> g[n]]
    OBVIOUS
  <2>3. Steps(g, m + 1)
    <3>1. SUFFICES ASSUME NEW n \in 0 .. written, n <= m + 1
                   PROVE  g[n] = IF n = 0 THEN <<>>
                                 ELSE IF n \in C THEN Append(g[n - 1], n) ELSE g[n - 1]
      OBVIOUS
    <3>2. n # 0 => g[n - 1] = f[n - 1]
      BY <3>1
    <3>3. CASE n = m + 1
      BY <3>2, <3>3
    <3>4. CASE n # m + 1
      BY <2>1, <3>1, <3>2, <3>4
    <3> QED BY <3>3, <3>4
  <2> HIDE DEF g, Steps
  <2> QED BY <2>2, <2>3
<1>3. written \in N
  <2> HIDE DEF N
  <2> QED BY <1>1, <1>2, NatSetInduction
<1>4. PICK f : f = [n \in 0 .. written |-> f[n]] /\ Steps(f, written)
  BY <1>3
<1>5. UpTo(C, f)
  <2>1. \A n \in 0 .. written :
           f[n] = IF n = 0 THEN <<>> ELSE IF n \in C THEN Append(f[n - 1], n) ELSE f[n - 1]
    BY <1>4
  <2> QED BY <1>4, <2>1 DEF UpTo
<1> DEFINE g == CHOOSE h : UpTo(C, h)
<1>6. UpTo(C, g)
  BY <1>5
<1>7. OldestFirst(C) = g[written]
  BY DEF OldestFirst, UpTo
<1> QED BY <1>6, <1>7

\* What is in a sequence.
Members(seq) == {seq[i] : i \in 1..Len(seq)}

\* The members among the first m numbers, in their order.
LEMMA UpToFacts ==
    ASSUME written \in Nat, NEW C \in SUBSET (1 .. written), NEW f, UpTo(C, f)
    PROVE  /\ f[0] = <<>>
           /\ \A m \in Nat : m < written =>
                 f[m + 1] = IF m + 1 \in C THEN Append(f[m], m + 1) ELSE f[m]
           /\ \A m \in 0 .. written : /\ f[m] \in Seq(C)
                                      /\ Members(f[m]) = C \cap (1..m)
<1>0. /\ f[0] = <<>>
      /\ \A m \in Nat : m < written =>
            f[m + 1] = IF m + 1 \in C THEN Append(f[m], m + 1) ELSE f[m]
  <2>1. \A n \in 0 .. written :
           f[n] = IF n = 0 THEN <<>> ELSE IF n \in C THEN Append(f[n - 1], n) ELSE f[n - 1]
    BY DEF UpTo
  <2>2. ASSUME NEW m \in Nat, m < written
        PROVE  f[m + 1] = IF m + 1 \in C THEN Append(f[m], m + 1) ELSE f[m]
    <3>1. m + 1 \in 0 .. written /\ m + 1 # 0 /\ (m + 1) - 1 = m
      BY <2>2
    <3>2. f[m + 1] = IF m + 1 \in C THEN Append(f[(m + 1) - 1], m + 1) ELSE f[(m + 1) - 1]
      BY <2>1, <3>1
    <3> QED BY <3>1, <3>2
  <2>3. f[0] = <<>>
    BY <2>1
  <2> QED BY <2>2, <2>3
<1> DEFINE Good(m) == /\ f[m] \in Seq(C)
                      /\ {f[m][i] : i \in 1..Len(f[m])} = C \cap (1..m)
           N == {m \in Nat : m <= written => Good(m)}
<1>1. 0 \in N
  <2>1. <<>> \in Seq(C) /\ {<<>>[i] : i \in 1..0} = {} /\ C \cap (1..0) = {} /\ Len(<<>>) = 0
    OBVIOUS
  <2>2. Good(0)
    BY <1>0, <2>1
  <2> QED BY <2>2
<1>2. ASSUME NEW m \in Nat, m \in N PROVE m + 1 \in N
  <2>1. SUFFICES ASSUME m + 1 <= written PROVE Good(m + 1)
    OBVIOUS
  <2>2. Good(m)
    BY <1>2, <2>1
  <2>3. CASE m + 1 \in C
    <3>1. f[m + 1] = Append(f[m], m + 1)
      <4>1. m < written
        BY <2>1
      <4> QED BY <1>0, <2>3, <4>1
    <3>2. f[m + 1] \in Seq(C) /\ Len(f[m + 1]) = Len(f[m]) + 1 /\ Len(f[m]) \in Nat
      BY <2>2, <2>3, <3>1
    <3>3. \A i \in 1..Len(f[m + 1]) : f[m + 1][i] = IF i <= Len(f[m]) THEN f[m][i] ELSE m + 1
      BY <2>2, <3>1, <3>2
    <3>4. ASSUME NEW x \in C \cap (1..(m + 1)) PROVE x \in {f[m + 1][i] : i \in 1..Len(f[m + 1])}
      <4>1. CASE x = m + 1
        BY <3>2, <3>3, <4>1
      <4>2. CASE x # m + 1
        <5>1. PICK i \in 1..Len(f[m]) : f[m][i] = x
          BY <2>2, <4>2
        <5>2. f[m + 1][i] = x /\ i \in 1..Len(f[m + 1])
          BY <3>2, <3>3, <5>1
        <5> QED BY <5>2
      <4> QED BY <4>1, <4>2
    <3>5. ASSUME NEW i \in 1..Len(f[m + 1]) PROVE f[m + 1][i] \in C \cap (1..(m + 1))
      <4>1. CASE i <= Len(f[m])
        <5>1. f[m][i] \in C \cap (1..m)
          BY <2>2, <3>2, <4>1
        <5> QED BY <3>3, <4>1, <5>1
      <4>2. CASE i > Len(f[m])
        BY <2>3, <3>3, <3>2, <4>2
      <4> QED BY <3>2, <4>1, <4>2
    <3> QED BY <3>2, <3>4, <3>5
  <2>4. CASE m + 1 \notin C
    <3>1. f[m + 1] = f[m]
      <4>1. m < written
        BY <2>1
      <4> QED BY <1>0, <2>4, <4>1
    <3>2. C \cap (1..(m + 1)) = C \cap (1..m)
      BY <2>4
    <3> QED BY <2>2, <3>1, <3>2
  <2> QED BY <2>3, <2>4
<1>3. Nat \subseteq N
  <2> HIDE DEF N
  <2> QED BY <1>1, <1>2, NatSetInduction
<1>4. \A m \in 0 .. written : Good(m)
  BY <1>3
<1>5. \A m \in 0 .. written : f[m] \in Seq(C) /\ Members(f[m]) = C \cap (1..m)
  BY <1>4 DEF Members
<1> QED BY <1>0, <1>5

\* What comes later is only added at the end.
LEMMA UpToGrows ==
    ASSUME written \in Nat, NEW C \in SUBSET (1 .. written), NEW f, UpTo(C, f),
           NEW m \in 0 .. written
    PROVE  /\ Len(f[m]) \in Nat /\ Len(f[m]) <= Len(f[written])
           /\ \A i \in 1..Len(f[m]) : f[written][i] = f[m][i]
<1> DEFINE Prefix(n) == /\ Len(f[m]) <= Len(f[n])
                        /\ \A i \in 1..Len(f[m]) : f[n][i] = f[m][i]
           N == {n \in Nat : m <= n /\ n <= written => Prefix(n)}
<1>0. \A n \in 0 .. written : f[n] \in Seq(C) /\ Len(f[n]) \in Nat
  <2>1. \A n \in 0 .. written : f[n] \in Seq(C)
    BY UpToFacts
  <2> QED BY <2>1
<1>1. 0 \in N
  BY <1>0
<1>2. ASSUME NEW n \in Nat, n \in N PROVE n + 1 \in N
  <2>1. SUFFICES ASSUME m <= n + 1, n + 1 <= written PROVE Prefix(n + 1)
    OBVIOUS
  <2>2. CASE m = n + 1
    BY <1>0, <2>2
  <2>3. CASE m <= n
    <3>1. Prefix(n)
      BY <1>2, <2>1, <2>3
    <3>2. f[n + 1] = IF n + 1 \in C THEN Append(f[n], n + 1) ELSE f[n]
      <4>1. n < written
        BY <2>1
      <4>2. \A i \in Nat : i < written =>
               f[i + 1] = IF i + 1 \in C THEN Append(f[i], i + 1) ELSE f[i]
        BY UpToFacts
      <4> QED BY <4>1, <4>2
    <3>3. f[n] \in Seq(C) /\ Len(f[n]) \in Nat /\ Len(f[m]) \in Nat
      BY <1>0, <2>1
    <3>4. CASE n + 1 \in C
      <4>1. f[n + 1] = Append(f[n], n + 1)
        BY <3>2, <3>4
      <4>2. Len(f[n + 1]) = Len(f[n]) + 1 /\ \A i \in 1..Len(f[n]) : f[n + 1][i] = f[n][i]
        BY <3>3, <3>4, <4>1
      <4> QED BY <3>1, <3>3, <4>2
    <3>5. CASE n + 1 \notin C
      BY <3>1, <3>2, <3>5
    <3> QED BY <3>4, <3>5
  <2> QED BY <2>1, <2>2, <2>3
<1>3. Nat \subseteq N
  <2> HIDE DEF N
  <2> QED BY <1>1, <1>2, NatSetInduction
<1> QED BY <1>0, <1>3

\* What OldestFirst is: all of C, each once, in the order of their numbers, so
\* that RootsAndRepliesShown says what GetCommentsBySlug should return.
LEMMA OldestFirstSorts ==
    ASSUME written \in Nat, NEW C \in SUBSET (1 .. written)
    PROVE  /\ OldestFirst(C) \in Seq(C)
           /\ Members(OldestFirst(C)) = C
           /\ \A i, j \in 1..Len(OldestFirst(C)) :
                 i < j => OldestFirst(C)[i] < OldestFirst(C)[j]
<1>1. PICK f : UpTo(C, f) /\ OldestFirst(C) = f[written]
  BY UpToExists
<1>2. /\ f[0] = <<>>
      /\ \A m \in Nat : m < written =>
            f[m + 1] = IF m + 1 \in C THEN Append(f[m], m + 1) ELSE f[m]
      /\ \A m \in 0 .. written : f[m] \in Seq(C) /\ Members(f[m]) = C \cap (1..m)
  BY <1>1, UpToFacts
<1> DEFINE Sorted(s) == \A i, j \in 1..Len(s) : i < j => s[i] < s[j]
           N == {m \in Nat : m <= written => Sorted(f[m])}
<1>3. 0 \in N
  BY <1>2
<1>4. ASSUME NEW m \in Nat, m \in N PROVE m + 1 \in N
  <2>1. SUFFICES ASSUME m + 1 <= written PROVE Sorted(f[m + 1])
    OBVIOUS
  <2>2. m < written /\ m \in 0 .. written
    BY <2>1
  <2> DEFINE s == f[m]
  <2>3. s \in Seq(C) /\ Members(s) = C \cap (1..m) /\ Sorted(s)
    BY <1>2, <1>4, <2>1, <2>2
  <2>4. f[m + 1] = IF m + 1 \in C THEN Append(s, m + 1) ELSE s
    BY <1>2, <2>2
  <2> HIDE DEF s
  <2>5. CASE m + 1 \in C
    <3> DEFINE t == Append(s, m + 1)
    <3>1. /\ Len(s) \in Nat /\ Len(t) = Len(s) + 1
          /\ \A i \in 1..Len(s) : t[i] = s[i]
          /\ t[Len(s) + 1] = m + 1
      BY <2>3, <2>5, AppendProperties, LenProperties
    <3>2. \A i \in 1..Len(s) : s[i] \in 1..m
      BY <2>3 DEF Members
    <3> HIDE DEF t
    <3>3. Sorted(t)
      <4>1. SUFFICES ASSUME NEW i \in 1..Len(t), NEW j \in 1..Len(t), i < j PROVE t[i] < t[j]
        OBVIOUS
      <4>2. i \in 1..Len(s)
        BY <3>1, <4>1
      <4>3. CASE j = Len(s) + 1
        <5>1. t[i] \in 1..m
          BY <3>1, <3>2, <4>2
        <5> QED BY <3>1, <4>3, <5>1
      <4>4. CASE j # Len(s) + 1
        <5>1. j \in 1..Len(s)
          BY <3>1, <4>1, <4>4
        <5> QED BY <2>3, <3>1, <4>1, <4>2, <5>1
      <4> QED BY <4>3, <4>4
    <3>4. f[m + 1] = t
      BY <2>4, <2>5 DEF t
    <3> HIDE DEF Sorted
    <3> QED BY <3>3, <3>4
  <2>6. CASE m + 1 \notin C
    <3> HIDE DEF Sorted
    <3> QED BY <2>3, <2>4, <2>6
  <2> QED BY <2>5, <2>6
<1>5. Nat \subseteq N
  <2> HIDE DEF N
  <2> QED BY <1>3, <1>4, NatSetInduction
<1>6. Sorted(f[written])
  BY <1>5
<1>7. f[written] \in Seq(C) /\ Members(f[written]) = C
  <2>1. written \in 0 .. written
    OBVIOUS
  <2>2. C \cap (1 .. written) = C
    OBVIOUS
  <2> QED BY <1>2, <2>1, <2>2
<1> QED BY <1>1, <1>6, <1>7

-----------------------------------------------------------------------------
(* Group *)

\* Before the first row: an entry for every row, and no roots.
Empty(rows) == [roots |-> <<>>, replies |-> [c \in Range(rows) |-> <<>>]]

\* The equation of the fold in Group.
Grouped(rows, h) ==
    h = [T \in SUBSET DOMAIN rows |->
            IF T = {} THEN Empty(rows) ELSE Place(h[T \ {Max(T)}], rows[Max(T)])]

\* There is such a function, built up over the number of rows placed.
LEMMA GroupedExists ==
    ASSUME NEW k \in Nat, NEW rows, DOMAIN rows = 1..k
    PROVE  \E h : Grouped(rows, h) /\ Group(rows) = h[1..k]
<1> DEFINE S == SUBSET (1..k)
           Steps(h, m) ==
              \A T \in S : Cardinality(T) <= m =>
                 h[T] = IF T = {} THEN Empty(rows) ELSE Place(h[T \ {Max(T)}], rows[Max(T)])
           N == {m \in Nat : \E h : h = [T \in S |-> h[T]] /\ Steps(h, m)}
<1>1. ASSUME NEW T \in S
      PROVE  /\ IsFiniteSet(T) /\ Cardinality(T) \in Nat /\ Cardinality(T) <= k
             /\ Cardinality(T) = 0 <=> T = {}
             /\ T # {} => T \ {Max(T)} \in S /\ Cardinality(T \ {Max(T)}) = Cardinality(T) - 1
  <2>1. IsFiniteSet(1..k) /\ Cardinality(1..k) = k
    BY FS_Interval
  <2>2. IsFiniteSet(T) /\ Cardinality(T) \in Nat /\ Cardinality(T) <= k
    <3>1. T \in SUBSET (1..k)
      OBVIOUS
    <3> HIDE DEF S
    <3>2. IsFiniteSet(T) /\ Cardinality(T) <= Cardinality(1..k)
      BY <2>1, <3>1, FS_Subset
    <3> QED BY <2>1, <3>2, FS_CardinalityType
  <2>3. Cardinality(T) = 0 <=> T = {}
    BY <2>2, FS_EmptySet
  <2>4. T # {} => Max(T) \in T
    BY MaxFacts
  <2>5. T # {} => Cardinality(T \ {Max(T)}) = Cardinality(T) - 1
    BY <2>2, <2>4, FS_RemoveElement
  <2> QED BY <2>2, <2>3, <2>5
<1> HIDE DEF S
<1>2. 0 \in N
  <2> DEFINE h == [T \in S |-> Empty(rows)]
  <2>1. h = [T \in S |-> h[T]] /\ Steps(h, 0)
    BY <1>1
  <2> QED BY <2>1
<1>3. ASSUME NEW m \in Nat, m \in N PROVE m + 1 \in N
  <2>1. PICK h : h = [T \in S |-> h[T]] /\ Steps(h, m)
    BY <1>3
  <2> DEFINE g == [T \in S |-> IF Cardinality(T) = m + 1
                               THEN Place(h[T \ {Max(T)}], rows[Max(T)]) ELSE h[T]]
  <2>2. g = [T \in S |-> g[T]]
    OBVIOUS
  <2>3. Steps(g, m + 1)
    <3>1. SUFFICES ASSUME NEW T \in S, Cardinality(T) <= m + 1
                   PROVE  g[T] = IF T = {} THEN Empty(rows)
                                 ELSE Place(g[T \ {Max(T)}], rows[Max(T)])
      OBVIOUS
    <3>2. CASE T = {}
      <4>1. Cardinality(T) = 0
        BY <1>1, <3>2
      <4>2. g[T] = h[T]
        BY <4>1
      <4>3. h[T] = Empty(rows)
        <5>1. Cardinality(T) <= m
          BY <4>1
        <5> QED BY <2>1, <3>2, <5>1
      <4> HIDE DEF g
      <4> QED BY <3>2, <4>2, <4>3
    <3>3. CASE T # {}
      <4>1. /\ T \ {Max(T)} \in S /\ Cardinality(T \ {Max(T)}) = Cardinality(T) - 1
            /\ Cardinality(T) \in Nat
        BY <1>1, <3>3
      <4>2. g[T \ {Max(T)}] = h[T \ {Max(T)}]
        BY <3>1, <4>1
      <4>3. CASE Cardinality(T) = m + 1
        BY <3>3, <4>2, <4>3
      <4>4. CASE Cardinality(T) # m + 1
        <5>1. g[T] = h[T] /\ Cardinality(T) <= m
          BY <3>1, <4>1, <4>4
        <5> QED BY <2>1, <3>3, <4>2, <5>1
      <4> QED BY <4>3, <4>4
    <3> QED BY <3>2, <3>3
  <2> HIDE DEF g, Steps
  <2> QED BY <2>2, <2>3
<1>4. k \in N
  <2> HIDE DEF N
  <2> QED BY <1>2, <1>3, NatSetInduction
<1>5. PICK h : h = [T \in S |-> h[T]] /\ Steps(h, k)
  BY <1>4
<1>6. Grouped(rows, h)
  <2>1. \A T \in S : h[T] = IF T = {} THEN Empty(rows)
                            ELSE Place(h[T \ {Max(T)}], rows[Max(T)])
    BY <1>1, <1>5
  <2> QED BY <1>5, <2>1 DEF Grouped, S
<1> DEFINE g == CHOOSE h_1 : Grouped(rows, h_1)
<1>7. Grouped(rows, g)
  BY <1>6
<1>8. Group(rows) = g[DOMAIN rows]
  BY DEF Group, FoldLeft, MapThenFoldSet, Grouped, Empty
<1> HIDE DEF g
<1> QED BY <1>7, <1>8

\* The first loop, row by row.
LEMMA GroupSteps ==
    ASSUME NEW k \in Nat, NEW rows, DOMAIN rows = 1..k
    PROVE  \E g : /\ g[0] = Empty(rows)
                  /\ \A n \in Nat : n < k => g[n + 1] = Place(g[n], rows[n + 1])
                  /\ Group(rows) = g[k]
<1>1. PICK h : Grouped(rows, h) /\ Group(rows) = h[1..k]
  BY GroupedExists
<1>2. \A T \in SUBSET (1..k) :
         h[T] = IF T = {} THEN Empty(rows) ELSE Place(h[T \ {Max(T)}], rows[Max(T)])
  BY <1>1 DEF Grouped
<1> DEFINE g == [n \in 0..k |-> h[1..n]]
<1>3. g[0] = Empty(rows)
  <2>1. 1..0 = {} /\ 1..0 \in SUBSET (1..k) /\ g[0] = h[1..0]
    OBVIOUS
  <2> QED BY <1>2, <2>1
<1>4. ASSUME NEW n \in Nat, n < k PROVE g[n + 1] = Place(g[n], rows[n + 1])
  <2> DEFINE T == 1..(n + 1)
  <2>1. T \in SUBSET (1..k) /\ T # {} /\ n + 1 \in T /\ \A y \in T : y <= n + 1
    <3>1. T \in SUBSET (1..k)
      BY <1>4
    <3>2. n + 1 \in T /\ \A y \in T : y <= n + 1
      OBVIOUS
    <3> HIDE DEF T
    <3> QED BY <3>1, <3>2
  <2>2. Max(T) = n + 1
    <3>1. Max(T) \in T /\ \A y \in T : y <= Max(T)
      BY <2>1, MaxFacts
    <3>2. n + 1 <= Max(T) /\ Max(T) <= n + 1 /\ Max(T) \in Nat
      BY <2>1, <3>1
    <3> HIDE DEF T
    <3> QED BY <3>2
  <2>3. T \ {n + 1} = 1..n
    OBVIOUS
  <2>4. h[T] = Place(h[1..n], rows[n + 1])
    <3> HIDE DEF T
    <3> QED BY <1>2, <2>1, <2>2, <2>3
  <2>5. g[n + 1] = h[T] /\ g[n] = h[1..n]
    BY <1>4
  <2> HIDE DEF T, g
  <2> QED BY <2>4, <2>5
<1>5. Group(rows) = g[k]
  BY <1>1
<1> HIDE DEF g
<1> QED BY <1>3, <1>4, <1>5

-----------------------------------------------------------------------------
(* What the two loops show. *)

\* The comments of a post, and those right under one of them.
Thread(s) == {c \in Live : comment[c].slug = s}
Children(s, p) == {c \in Live : comment[c].slug = s /\ comment[c].parent = p}

\* Comments shown without replies.
Bare(c) == [id |-> c, replies |-> <<>>]
Items(seq) == [i \in DOMAIN seq |-> Bare(seq[i])]

\* No comments, and one more.
LEMMA NoItems == Items(<<>>) = <<>>
<1>1. DOMAIN <<>> = {}
  OBVIOUS
<1> QED BY <1>1 DEF Items

LEMMA ItemsFacts ==
    ASSUME NEW S, NEW seq \in Seq(S)
    PROVE  /\ Len(seq) \in Nat
           /\ Items(seq) \in Seq({Bare(x) : x \in S})
           /\ Len(Items(seq)) = Len(seq)
           /\ \A i \in 1..Len(seq) : seq[i] \in S /\ Items(seq)[i] = Bare(seq[i])
<1> DEFINE T == {Bare(x) : x \in S}
<1>1. Len(seq) \in Nat /\ DOMAIN seq = 1..Len(seq) /\ seq \in [1..Len(seq) -> S]
  BY LenProperties
<1>2. \A i \in 1..Len(seq) : seq[i] \in S /\ Bare(seq[i]) \in T
  BY <1>1
<1>3. /\ DOMAIN Items(seq) = 1..Len(seq)
      /\ Items(seq) \in [1..Len(seq) -> T]
      /\ \A i \in 1..Len(seq) : Items(seq)[i] = Bare(seq[i])
  <2> HIDE DEF T
  <2> QED BY <1>1, <1>2 DEF Items
<1> HIDE DEF T
<1>4. Items(seq) \in Seq(T)
  BY <1>1, <1>3, SeqDef
<1>5. Len(Items(seq)) = Len(seq)
  BY <1>1, <1>3, <1>4
<1> QED BY <1>1, <1>2, <1>3, <1>4, <1>5 DEF T

LEMMA AppendItem ==
    ASSUME NEW S, NEW seq \in Seq(S), NEW c \in S
    PROVE  Items(Append(seq, c)) = Append(Items(seq), Bare(c))
<1> DEFINE T == {Bare(x) : x \in S}
           longer == Append(seq, c)
           s == Items(longer)
           t == Append(Items(seq), Bare(c))
<1>1. /\ longer \in Seq(S) /\ Len(longer) = Len(seq) + 1
      /\ \A i \in 1..Len(seq) : longer[i] = seq[i]
      /\ longer[Len(seq) + 1] = c
  BY AppendProperties
<1>2. Bare(c) \in T
  OBVIOUS
<1>3. /\ Items(seq) \in Seq(T) /\ Len(Items(seq)) = Len(seq) /\ Len(seq) \in Nat
      /\ \A i \in 1..Len(seq) : Items(seq)[i] = Bare(seq[i])
  BY ItemsFacts
<1>4. /\ s \in Seq(T) /\ Len(s) = Len(seq) + 1
      /\ \A i \in 1..(Len(seq) + 1) : s[i] = Bare(longer[i])
  <2> HIDE DEF longer
  <2> QED BY <1>1, ItemsFacts
<1> HIDE DEF T, longer, s
<1>5. /\ t \in Seq(T) /\ Len(t) = Len(seq) + 1
      /\ \A i \in 1..Len(seq) : t[i] = Items(seq)[i]
      /\ t[Len(seq) + 1] = Bare(c)
  BY <1>2, <1>3, AppendProperties
<1>6. ASSUME NEW i \in 1..(Len(seq) + 1) PROVE s[i] = t[i]
  <2>1. CASE i = Len(seq) + 1
    BY <1>1, <1>3, <1>4, <1>5, <2>1
  <2>2. CASE i # Len(seq) + 1
    <3>1. i \in 1..Len(seq)
      BY <1>3, <2>2
    <3> QED BY <1>1, <1>3, <1>4, <1>5, <3>1
  <2> QED BY <2>1, <2>2
<1> HIDE DEF t
<1>7. s = t
  BY <1>4, <1>5, <1>6, SeqEqual
<1> QED BY <1>7 DEF s, t, longer

\* One row of the first loop.
LEMMA PlaceFacts ==
    ASSUME NEW roots, NEW replies, NEW c
    PROVE  LET p == comment[c].parent
               item == [id |-> c, replies |-> replies[c]]
           IN  Place([roots |-> roots, replies |-> replies], c)
                  = IF p \in DOMAIN replies
                    THEN [roots |-> roots,
                          replies |-> [replies EXCEPT ![p] = Append(@, item)]]
                    ELSE [roots |-> Append(roots, item), replies |-> replies]
<1> DEFINE grouped == [roots |-> roots, replies |-> replies]
           item == [id |-> c, replies |-> replies[c]]
           p == comment[c].parent
<1>1. Place(grouped, c) = IF p \in DOMAIN replies
                          THEN [grouped EXCEPT !.replies[p] = Append(@, item)]
                          ELSE [grouped EXCEPT !.roots = Append(@, item)]
  BY DEF Place, Item
<1> HIDE DEF item, p
<1>2. /\ [grouped EXCEPT !.replies[p] = Append(@, item)]
            = [roots |-> roots, replies |-> [replies EXCEPT ![p] = Append(@, item)]]
      /\ [grouped EXCEPT !.roots = Append(@, item)]
            = [roots |-> Append(roots, item), replies |-> replies]
  <2>1. [grouped EXCEPT !.roots = Append(@, item)]
            = [roots |-> Append(roots, item), replies |-> replies]
    OBVIOUS
  <2>2. ASSUME NEW x
        PROVE  [grouped EXCEPT !.replies = x] = [roots |-> roots, replies |-> x]
    OBVIOUS
  <2>3. [grouped EXCEPT !.replies[p] = Append(@, item)]
           = [grouped EXCEPT !.replies = [replies EXCEPT ![p] = Append(@, item)]]
    OBVIOUS
  <2> HIDE DEF grouped
  <2> QED BY <2>1, <2>2, <2>3
<1> HIDE DEF grouped
<1>3. Place(grouped, c) = IF p \in DOMAIN replies
                          THEN [roots |-> roots,
                                replies |-> [replies EXCEPT ![p] = Append(@, item)]]
                          ELSE [roots |-> Append(roots, item), replies |-> replies]
  BY <1>1, <1>2
<1> QED BY <1>3 DEF grouped, item, p

\* What the inductive invariant says of one post's comments.
LEMMA ThreadFacts ==
    ASSUME IInv, NEW s
    PROVE  /\ written \in Nat
           /\ Thread(s) \in SUBSET (1 .. written)
           /\ \A p : Children(s, p) \in SUBSET Thread(s)
           /\ \A c \in Thread(s) : LET p == comment[c].parent
                                   IN /\ c \in Children(s, p)
                                      /\ p \in Thread(s) \/ p = NoParent
                                      /\ p < c
                                      /\ \A q : c \in Children(s, q) => q = p
           /\ NoParent \notin Thread(s)
<1>1. written \in Nat
  BY DEF IInv, TypeOK
<1>2. \A c \in Live : c \in Nat /\ 1 <= c /\ c <= written
  BY DEF IInv, RowsAreWritten, Live, Comments
<1>3. Thread(s) \in SUBSET (1 .. written) /\ NoParent \notin Thread(s)
  BY <1>1, <1>2 DEF Thread, NoParent
<1>4. \A p : Children(s, p) \in SUBSET Thread(s)
  BY DEF Children, Thread
<1>5. ASSUME NEW c \in Thread(s)
      PROVE  /\ c \in Children(s, comment[c].parent)
             /\ comment[c].parent \in Thread(s) \/ comment[c].parent = NoParent
             /\ comment[c].parent < c
             /\ \A q : c \in Children(s, q) => q = comment[c].parent
  <2>1. c \in Live /\ comment[c].slug = s
    BY DEF Thread
  <2>2. comment[c].parent # NoParent =>
           comment[c].parent \in Thread(s) /\ comment[c].parent < c
    BY <2>1 DEF IInv, ParentInThread, Thread
  <2>3. NoParent < c
    BY <1>2, <2>1 DEF NoParent
  <2> QED BY <2>1, <2>2, <2>3 DEF Children
<1> QED BY <1>1, <1>3, <1>4, <1>5

\* Rows come oldest first, so that a row is placed before its replies: its copy
\* has none.
LEMMA GroupFacts ==
    ASSUME IInv, NEW s \in Slugs
    PROVE  Group(CommentsOf(s)) = [roots   |-> Items(Below(s, NoParent)),
                                   replies |-> [p \in Thread(s) |-> Items(Below(s, p))]]
<1> DEFINE C == Thread(s)
           K(p) == Children(s, p)
           Good(p, h) == UpTo(K(p), h) /\ OldestFirst(K(p)) = h[written]
           F(p) == CHOOSE h : Good(p, h)
<1>1. /\ written \in Nat /\ C \in SUBSET (1 .. written) /\ NoParent \notin C
      /\ \A p : K(p) \in SUBSET C /\ K(p) \in SUBSET (1 .. written)
  BY ThreadFacts
<1>2. \A p : Good(p, F(p))
  <2>1. \A p : \E h : Good(p, h)
    BY <1>1, UpToExists
  <2> HIDE DEF Good
  <2> QED BY <2>1
<1>3. PICK f : UpTo(C, f) /\ OldestFirst(C) = f[written]
  BY <1>1, UpToExists
<1> DEFINE rows == f[written]
           k == Len(rows)
<1> HIDE DEF C, K, F
<1>4. /\ f[0] = <<>>
      /\ \A m \in Nat : m < written =>
            f[m + 1] = IF m + 1 \in C THEN Append(f[m], m + 1) ELSE f[m]
      /\ \A m \in 0 .. written : f[m] \in Seq(C)
      /\ Members(rows) = C
  <2>1. /\ f[0] = <<>>
        /\ \A m \in Nat : m < written =>
              f[m + 1] = IF m + 1 \in C THEN Append(f[m], m + 1) ELSE f[m]
        /\ \A m \in 0 .. written : /\ f[m] \in Seq(C)
                                   /\ Members(f[m]) = C \cap (1..m)
    BY <1>1, <1>3, UpToFacts
  <2>2. Members(rows) = C \cap (1 .. written) /\ C \cap (1 .. written) = C
    <3>1. written \in 0 .. written
      BY <1>1
    <3>2. C \cap (1 .. written) = C
      BY <1>1
    <3> QED BY <2>1, <3>1, <3>2
  <2> QED BY <2>1, <2>2
<1>5. ASSUME NEW p
      PROVE  /\ F(p)[0] = <<>>
             /\ \A m \in Nat : m < written =>
                   F(p)[m + 1] = IF m + 1 \in K(p) THEN Append(F(p)[m], m + 1) ELSE F(p)[m]
             /\ \A m \in 0 .. written :
                   /\ F(p)[m] \in Seq(K(p))
                   /\ Members(F(p)[m]) = K(p) \cap (1..m)
             /\ Below(s, p) = F(p)[written]
  <2>1. UpTo(K(p), F(p)) /\ OldestFirst(K(p)) = F(p)[written]
    BY <1>2
  <2>2. Below(s, p) = OldestFirst(K(p))
    BY DEF Below, K, Children
  <2> DEFINE h == F(p)
             D == K(p)
  <2>3. UpTo(D, h) /\ D \in SUBSET (1 .. written)
    BY <1>1, <2>1
  <2> HIDE DEF h, D
  <2>4. /\ h[0] = <<>>
        /\ \A m \in Nat : m < written =>
              h[m + 1] = IF m + 1 \in D THEN Append(h[m], m + 1) ELSE h[m]
        /\ \A m \in 0 .. written : h[m] \in Seq(D) /\ Members(h[m]) = D \cap (1..m)
    BY <1>1, <2>3, UpToFacts
  <2> QED BY <2>1, <2>2, <2>4 DEF h, D
<1>6. k \in Nat /\ DOMAIN rows = 1..k /\ Range(rows) = C
  <2>1. rows \in Seq(C)
    BY <1>1, <1>4
  <2>2. k \in Nat /\ DOMAIN rows = 1..k
    BY <2>1
  <2>3. DOMAIN rows = 1..Len(rows)
    BY <2>2
  <2> HIDE DEF rows, k
  <2> QED BY <1>4, <2>2, <2>3 DEF Range, Members
<1>7. PICK g : /\ g[0] = Empty(rows)
               /\ \A n \in Nat : n < k => g[n + 1] = Place(g[n], rows[n + 1])
               /\ Group(rows) = g[k]
  <2> HIDE DEF rows, k
  <2> QED BY <1>6, GroupSteps
<1> DEFINE Shown(m) == [roots   |-> Items(F(NoParent)[m]),
                        replies |-> [p \in C |-> Items(F(p)[m])]]
           N == {m \in Nat : m <= written => g[Len(f[m])] = Shown(m)}
<1>8. 0 \in N
  <2>1. Shown(0) = [roots |-> <<>>, replies |-> [p \in C |-> <<>>]]
    BY <1>5, NoItems
  <2>2. Len(f[0]) = 0
    BY <1>4
  <2>3. g[0] = Shown(0)
    BY <1>6, <1>7, <2>1 DEF Empty
  <2> HIDE DEF Shown
  <2> QED BY <2>2, <2>3
<1>9. ASSUME NEW m \in Nat, m \in N PROVE m + 1 \in N
  <2>1. SUFFICES ASSUME m + 1 <= written PROVE g[Len(f[m + 1])] = Shown(m + 1)
    OBVIOUS
  <2>2. m < written /\ m \in 0 .. written /\ m + 1 \in 0 .. written /\ m + 1 \in Nat
    BY <1>1, <2>1
  <2>3. g[Len(f[m])] = Shown(m)
    BY <1>9, <2>2
  <2>4. CASE m + 1 \notin C
    <3>1. f[m + 1] = f[m]
      BY <1>4, <2>2, <2>4
    <3>2. \A p : F(p)[m + 1] = F(p)[m]
      BY <1>1, <1>5, <2>2, <2>4
    <3>3. Shown(m + 1) = Shown(m)
      BY <3>2
    <3> HIDE DEF Shown
    <3> QED BY <2>3, <3>1, <3>3
  <2>5. CASE m + 1 \in C
    <3> DEFINE c == m + 1
               q == comment[c].parent
               L == Len(f[m])
    <3>1. /\ c \in K(q) /\ q < c
          /\ q \in C \/ q = NoParent
          /\ \A p : c \in K(p) => p = q
      BY <2>5, ThreadFacts DEF C, K
    <3>2. L \in Nat /\ L < k /\ Len(f[c]) = L + 1 /\ rows[L + 1] = c
      <4>1. f[m] \in Seq(C) /\ f[c] = Append(f[m], c) /\ L \in Nat
        <5>1. f[m] \in Seq(C) /\ f[m + 1] = Append(f[m], m + 1)
          BY <1>4, <2>2, <2>5
        <5> QED BY <5>1, LenProperties
      <4>2. Len(f[c]) = L + 1 /\ f[c][L + 1] = c
        BY <2>5, <4>1
      <4>3. Len(f[c]) <= k /\ \A i \in 1..Len(f[c]) : rows[i] = f[c][i]
        <5> HIDE DEF c
        <5>1. c \in 0 .. written
          BY <2>2 DEF c
        <5> QED BY <1>1, <1>3, <5>1, UpToGrows
      <4> HIDE DEF L, k, rows, c
      <4>4. L + 1 \in 1..Len(f[c]) /\ k \in Nat
        BY <1>6, <4>1, <4>2
      <4> QED BY <4>1, <4>2, <4>3, <4>4
    <3>3. g[L + 1] = Place(Shown(m), c)
      BY <1>7, <2>3, <3>2
    <3>4. Items(F(c)[m]) = <<>>
      <4>1. K(c) \cap (1..m) = {}
        <5>1. ASSUME NEW d \in K(c), d \in 1..m PROVE FALSE
          <6>1. d \in C /\ comment[d].parent = c
            BY <1>1 DEF K, Children
          <6>2. c < d
            BY <6>1, ThreadFacts DEF C
          <6> QED BY <5>1, <6>2
        <5> QED BY <5>1
      <4>2. F(c)[m] \in Seq(K(c)) /\ Members(F(c)[m]) = {}
        BY <1>5, <2>2, <4>1
      <4> DEFINE t == F(c)[m]
      <4>3. t \in Seq(K(c)) /\ Members(t) = {}
        BY <4>2
      <4> HIDE DEF t
      <4>4. t = <<>>
        <5>1. Len(t) \in Nat
          BY <4>3
        <5>2. Len(t) = 0
          <6>1. SUFFICES ASSUME 1 \in 1..Len(t) PROVE FALSE
            BY <5>1
          <6>2. t[1] \in Members(t)
            BY <6>1 DEF Members
          <6> QED BY <4>3, <6>2
        <5> QED BY <4>3, <5>2, EmptySeq
      <4> QED BY <4>4, NoItems DEF t
    <3> DEFINE replies == [p \in C |-> Items(F(p)[m])]
               roots == Items(F(NoParent)[m])
    <3>5. replies[c] = <<>> /\ DOMAIN replies = C
      BY <2>5, <3>4
    <3>6. Place(Shown(m), c)
             = IF q \in C THEN [roots |-> roots,
                                replies |-> [replies EXCEPT ![q] = Append(@, Bare(c))]]
               ELSE [roots |-> Append(roots, Bare(c)), replies |-> replies]
      <4>1. Shown(m) = [roots |-> roots, replies |-> replies]
        OBVIOUS
      <4> HIDE DEF Shown, roots, replies, c
      <4> QED BY <3>5, <4>1, PlaceFacts DEF Bare
    <3>7. /\ \A p : p # q => F(p)[c] = F(p)[m]
          /\ Items(F(q)[c]) = Append(Items(F(q)[m]), Bare(c))
      <4>1. \A p : p # q => F(p)[c] = F(p)[m]
        BY <1>5, <2>2, <3>1
      <4>2. F(q)[c] = Append(F(q)[m], c) /\ F(q)[m] \in Seq(K(q))
        <5> HIDE DEF q
        <5> QED BY <1>5, <2>2, <3>1
      <4> HIDE DEF c, q
      <4> QED BY <3>1, <4>1, <4>2, AppendItem
    <3>8. CASE q \in C
      <4>1. q # NoParent
        BY <1>1, <3>8
      <4>2. [replies EXCEPT ![q] = Append(@, Bare(c))] = [p \in C |-> Items(F(p)[c])]
        <5>1. ASSUME NEW p \in C
              PROVE  [replies EXCEPT ![q] = Append(@, Bare(c))][p] = Items(F(p)[c])
          <6> HIDE DEF c
          <6>1. CASE p = q
            BY <3>7, <3>8, <6>1
          <6>2. CASE p # q
            BY <3>7, <6>2
          <6> QED BY <6>1, <6>2
        <5>2. DOMAIN [replies EXCEPT ![q] = Append(@, Bare(c))] = C
          OBVIOUS
        <5> HIDE DEF c
        <5> QED BY <5>1, <5>2
      <4>3. roots = Items(F(NoParent)[c])
        BY <3>7, <4>1
      <4>4. Place(Shown(m), c) = Shown(c)
        <5> HIDE DEF c, replies, roots
        <5> QED BY <3>6, <3>8, <4>2, <4>3
      <4> HIDE DEF Shown, c, L
      <4> QED BY <3>2, <3>3, <4>4 DEF c
    <3>9. CASE q \notin C
      <4>1. q = NoParent
        BY <3>1, <3>9
      <4>2. replies = [p \in C |-> Items(F(p)[c])]
        <5>1. \A p \in C : F(p)[c] = F(p)[m]
          BY <1>1, <3>7, <4>1
        <5> QED BY <5>1
      <4>3. Append(roots, Bare(c)) = Items(F(NoParent)[c])
        <5> HIDE DEF c
        <5> QED BY <3>7, <4>1
      <4>4. Place(Shown(m), c) = Shown(c)
        <5> HIDE DEF c, replies, roots
        <5> QED BY <3>6, <3>9, <4>2, <4>3
      <4> HIDE DEF Shown, c, L
      <4> QED BY <3>2, <3>3, <4>4 DEF c
    <3> QED BY <3>8, <3>9
  <2> QED BY <2>4, <2>5
<1>10. Nat \subseteq N
  <2> HIDE DEF N
  <2> QED BY <1>8, <1>9, NatSetInduction
<1>11. g[k] = Shown(written)
  BY <1>1, <1>10
<1>12. Shown(written) = [roots   |-> Items(Below(s, NoParent)),
                         replies |-> [p \in Thread(s) |-> Items(Below(s, p))]]
  BY <1>5 DEF C
<1>13. CommentsOf(s) = rows
  BY <1>3 DEF CommentsOf, C, Thread
<1> HIDE DEF Shown, rows, k
<1> QED BY <1>7, <1>11, <1>12, <1>13

\* What is below a comment is a sequence of comments of its post.
LEMMA BelowFacts ==
    ASSUME IInv, NEW s \in Slugs, NEW p
    PROVE  /\ Below(s, p) \in Seq(Children(s, p))
           /\ \A i \in DOMAIN Below(s, p) : Below(s, p)[i] \in Thread(s)
<1> DEFINE b == Below(s, p)
           K == Children(s, p)
<1>1. written \in Nat /\ K \in SUBSET (1 .. written) /\ K \in SUBSET Thread(s)
  BY ThreadFacts
<1>2. PICK f : UpTo(K, f) /\ OldestFirst(K) = f[written]
  BY <1>1, UpToExists
<1>3. b = f[written]
  BY <1>2 DEF Below, Children
<1>4. b \in Seq(K)
  BY <1>1, <1>2, <1>3, UpToFacts
<1> HIDE DEF b, K
<1>5. DOMAIN b = 1..Len(b) /\ \A i \in 1..Len(b) : b[i] \in K
  BY <1>4
<1>6. \A i \in DOMAIN b : b[i] \in Thread(s)
  BY <1>1, <1>5
<1> QED BY <1>4, <1>6 DEF b, K

\* What the two loops make of the rows: the roots, each with its direct replies,
\* and these with none.
TwoLevels(s) ==
    [i \in DOMAIN Below(s, NoParent) |->
        LET root == Below(s, NoParent)[i]
        IN [id |-> root,
            replies |-> [j \in DOMAIN Below(s, root) |->
                            [id |-> Below(s, root)[j], replies |-> <<>>]]]]

\* ... and the second loop.
LEMMA SecondLoop == ASSUME IInv, NEW s \in Slugs PROVE GetCommentsBySlug(s) = TwoLevels(s)
<1> DEFINE top == Below(s, NoParent)
           grouped == Group(CommentsOf(s))
<1>1. /\ grouped.roots = Items(top)
      /\ grouped.replies = [p \in Thread(s) |-> Items(Below(s, p))]
  BY GroupFacts
<1>2. \A i \in DOMAIN top : top[i] \in Thread(s)
  BY BelowFacts
<1>3. GetCommentsBySlug(s) = [i \in DOMAIN grouped.roots |->
                                [id      |-> grouped.roots[i].id,
                                 replies |-> grouped.replies[grouped.roots[i].id]]]
  BY DEF GetCommentsBySlug, Item
<1> HIDE DEF grouped, top
<1>4. DOMAIN grouped.roots = DOMAIN top /\ \A i \in DOMAIN top : grouped.roots[i].id = top[i]
  BY <1>1 DEF Items, Bare
<1>5. \A i \in DOMAIN top : grouped.replies[top[i]] = Items(Below(s, top[i]))
  BY <1>1, <1>2
<1>6. GetCommentsBySlug(s) = [i \in DOMAIN top |->
                                [id |-> top[i], replies |-> Items(Below(s, top[i]))]]
  BY <1>3, <1>4, <1>5
<1> QED BY <1>6 DEF TwoLevels, Items, Bare, top

\* A sequence is what its positions hold.
LEMMA IdsOfBare ==
    ASSUME NEW C, NEW b \in Seq(C), NEW f, DOMAIN f = DOMAIN b, \A i \in DOMAIN b : f[i].id = b[i]
    PROVE  Ids(f) = b
BY DEF Ids

\* The answer in terms of the rows.
LEMMA ShownByRows == IInv => RootsAndRepliesShown
<1> SUFFICES ASSUME IInv, NEW s \in Slugs
             PROVE  /\ Ids(GetCommentsBySlug(s)) = Below(s, NoParent)
                    /\ \A i \in DOMAIN GetCommentsBySlug(s) :
                          Ids(GetCommentsBySlug(s)[i].replies)
                              = Below(s, GetCommentsBySlug(s)[i].id)
  BY DEF RootsAndRepliesShown
<1> DEFINE shown == GetCommentsBySlug(s)
           top == Below(s, NoParent)
           under(c) == Below(s, c)
<1>1. /\ DOMAIN shown = DOMAIN top
      /\ \A i \in DOMAIN top :
            /\ shown[i].id = top[i]
            /\ shown[i].replies = [j \in DOMAIN under(top[i]) |->
                                    [id |-> under(top[i])[j], replies |-> <<>>]]
  BY SecondLoop DEF TwoLevels
<1>2. top \in Seq(Children(s, NoParent)) /\ \A c : under(c) \in Seq(Children(s, c))
  BY BelowFacts
<1> HIDE DEF shown, top, under
<1>3. Ids(shown) = top
  BY <1>1, <1>2, IdsOfBare
<1>4. ASSUME NEW i \in DOMAIN shown PROVE Ids(shown[i].replies) = under(shown[i].id)
  <2> DEFINE b == under(top[i])
             f == [j \in DOMAIN b |-> [id |-> b[j], replies |-> <<>>]]
  <2>1. b \in Seq(Children(s, top[i])) /\ DOMAIN f = DOMAIN b /\ \A j \in DOMAIN b : f[j].id = b[j]
    BY <1>2
  <2>2. shown[i].replies = f /\ shown[i].id = top[i]
    BY <1>1
  <2> HIDE DEF b, f
  <2>3. Ids(f) = b
    BY <2>1, IdsOfBare
  <2> QED BY <2>2, <2>3 DEF b
<1> QED BY <1>3, <1>4 DEF shown, top, under

\* GetCommentsBySlug shows all the root comments of a post, oldest first, each
\* with all its direct replies, oldest first: the two loops of
\* repository/comment.go and the order its query asks for.
THEOREM CommentsShownInOrder == Spec => []RootsAndRepliesShown
BY ShownByRows, Invariance, PTL
=============================================================================
