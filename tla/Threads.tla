-------------------------------- MODULE Threads --------------------------------
(***************************************************************************)
(* Posts and the comments under them: the tables posts and post_comments   *)
(* and the accounts that comments belong to.  A comment names the slug of  *)
(* its post, not the post: nothing in the database ties the two together.  *)
(* A reply takes two statements, so requests interleave between them;      *)
(* everything else is one statement.                                       *)
(*                                                                         *)
(* Of a post only the slug is kept, of a comment's text only whether it    *)
(* was edited.  Requests that are refused for their form (a blank title or *)
(* slug, a text that is empty or too long) change nothing.                 *)
(***************************************************************************)
EXTENDS Naturals, FiniteSets, SequencesExt

CONSTANTS
    Users,
    Slugs,       \* what slugify makes of a title or slug
    Posts,       \* post ids
    MaxComments, \* bound on the comments ever written
    MaxEdited,   \* bound: comments that may be marked as edited at one time
    Requests,    \* concurrent requests that write a reply
    NoRow,       \* no row of post_comments
    NoPost,      \* no row
    Blank,       \* a slug of which slugify leaves nothing
    NoArg        \* the argument of an idle request

ASSUME NullAssumption ==
    /\ NoRow \notin [slug : Slugs, author : Users, parent : Nat,
                    edited : BOOLEAN, under : Posts \cup {NoPost}]
    /\ NoPost \notin Posts \cup Slugs /\ Blank \notin Slugs /\ Blank # NoPost
    /\ NoArg \notin [user : Users, slug : Slugs, parent : Nat]
    /\ MaxComments \in Nat

VARIABLES
    users,       \* rows of users
    slug,        \* slug[p]: the slug of post p, NoPost when there is no row
    written,     \* how many comments there have been
    comment,     \* comment[c]: the row of the c-th comment, or NoRow
    reply,       \* reply[r]: the reply request r has checked the parent of
    \* History:
    left         \* posts that have left a slug: renamed or deleted

threads == <<written, comment>>
posts == <<slug, left>>
vars == <<users, posts, threads, reply>>

\* Comments are named in the order of created_at: an id is only ever compared
\* for equality, and gen_random_uuid() returns each once.
Comments == 1 .. MaxComments
NoParent == 0   \* parent_id IS NULL

\* A row; under is history: the post that had the slug when it was written.
Rows == [slug : Slugs, author : Users, parent : Comments \cup {NoParent},
         edited : BOOLEAN, under : Posts \cup {NoPost}]

Replies == [user : Users, slug : Slugs, parent : Comments]

TypeOK ==
    /\ users \in SUBSET Users
    /\ slug \in [Posts -> Slugs \cup {Blank, NoPost}]
    /\ written \in 0 .. MaxComments
    /\ comment \in [Comments -> Rows \cup {NoRow}]
    /\ reply \in [Requests -> Replies \cup {NoArg}]
    /\ left \in SUBSET Posts

Init ==
    /\ users = Users
    /\ slug = [p \in Posts |-> NoPost]
    /\ written = 0
    /\ comment = [c \in Comments |-> NoRow]
    /\ reply = [r \in Requests |-> NoArg]
    /\ left = {}

-----------------------------------------------------------------------------
(* Posts.  slug is UNIQUE; a request names a post by a slug that is not blank. *)

Taken(s) == \E p \in Posts : slug[p] = s

\* Mutant of Vacant: posts.slug without UNIQUE.
VacantAnyway(s) == TRUE

Vacant(s) == ~Taken(s)

CreatePost(p, s) ==
    /\ slug[p] = NoPost /\ p \notin left
    /\ Vacant(s)
    /\ slug' = [slug EXCEPT ![p] = s]
    /\ UNCHANGED <<users, left, threads, reply>>

\* The slug changes to what slugify makes of the new one; when that is nothing,
\* the row takes the text as it came, which may be blank.
UpdatePost(p, s) ==
    /\ slug[p] \in Slugs
    /\ Vacant(s)
    /\ slug' = [slug EXCEPT ![p] = s]
    /\ left' = left \cup {p}
    /\ UNCHANGED <<users, threads, reply>>

DeletePost(p) ==
    /\ slug[p] \in Slugs
    /\ slug' = [slug EXCEPT ![p] = NoPost]
    /\ left' = left \cup {p}
    /\ UNCHANGED <<users, threads, reply>>

-----------------------------------------------------------------------------
(* Comments. *)

Live == {c \in Comments : comment[c] # NoRow}

\* What goes with the comments of D, since parent_id is ON DELETE CASCADE: the
\* smallest set with D that holds the replies to its members.
Closed(P) == \A c \in Live : comment[c].parent \in P => c \in P
WithReplies(D) ==
    {c \in Live : \A P \in SUBSET Live : D \subseteq P /\ Closed(P) => c \in P}

Without(D) == [c \in Comments |-> IF c \in WithReplies(D) THEN NoRow ELSE comment[c]]

\* The post that has slug s, if any.
PostAt(s) == IF Taken(s) THEN CHOOSE p \in Posts : slug[p] = s ELSE NoPost

\* The INSERT: both foreign keys hold, or it fails and nothing changes.
Insert(u, s, p) ==
    /\ written < MaxComments
    /\ u \in users
    /\ p \in Live \cup {NoParent}
    /\ written' = written + 1
    /\ comment' = [comment EXCEPT ![written + 1] =
            [slug |-> s, author |-> u, parent |-> p, edited |-> FALSE, under |-> PostAt(s)]]

\* CreateComment without parent_id, or with one that gRPC could not parse.
CreateComment(u, s) ==
    /\ Insert(u, s, NoParent)
    /\ UNCHANGED <<users, posts, reply>>

\* Mutant of CheckParent: it is enough that the parent exists.
CheckParentExists(r, a) ==
    /\ reply[r] = NoArg
    /\ a.parent \in Live
    /\ reply' = [reply EXCEPT ![r] = a]
    /\ UNCHANGED <<users, posts, threads>>

\* CreateComment with parent_id: GetCommentByID and its slug, then the INSERT.
CheckParent(r, a) ==
    /\ reply[r] = NoArg
    /\ a.parent \in Live
    /\ comment[a.parent].slug = a.slug
    /\ reply' = [reply EXCEPT ![r] = a]
    /\ UNCHANGED <<users, posts, threads>>

InsertReply(r) ==
    /\ reply[r] # NoArg
    /\ Insert(reply[r].user, reply[r].slug, reply[r].parent)
    /\ reply' = [reply EXCEPT ![r] = NoArg]
    /\ UNCHANGED <<users, posts>>

\* The parent or the account has gone: a foreign key fails.
ReplyFails(r) ==
    /\ reply[r] # NoArg
    /\ reply[r].parent \notin Live \/ reply[r].user \notin users
    /\ reply' = [reply EXCEPT ![r] = NoArg]
    /\ UNCHANGED <<users, posts, threads>>

\* (MaxEdited bounds the instance, not the program.)
EditRow(c) ==
    /\ c \in Live
    /\ Cardinality({d \in Live \ {c} : comment[d].edited}) < MaxEdited
    /\ comment' = [comment EXCEPT ![c].edited = TRUE]
    /\ UNCHANGED <<users, posts, written, reply>>

RemoveRow(c) ==
    /\ c \in Live
    /\ comment' = Without({c})
    /\ UNCHANGED <<users, posts, written, reply>>

\* Both statements say WHERE id AND user_id: anybody else's find no row.
UpdateComment(u, c) == c \in Live /\ comment[c].author = u /\ EditRow(c)
DeleteComment(u, c) == c \in Live /\ comment[c].author = u /\ RemoveRow(c)

\* The moderators' say WHERE id only.
AdminUpdateComment(c) == EditRow(c)
AdminDeleteComment(c) == RemoveRow(c)

\* DELETE FROM users: user_id is ON DELETE CASCADE too.
DeleteUser(u) ==
    /\ u \in users
    /\ users' = users \ {u}
    /\ comment' = Without({c \in Live : comment[c].author = u})
    /\ UNCHANGED <<posts, written, reply>>

-----------------------------------------------------------------------------
(* GetCommentsBySlug. *)

\* ORDER BY created_at ASC.
OldestFirst(C) ==
    LET upTo[n \in 0 .. written] ==
            IF n = 0 THEN <<>>
            ELSE IF n \in C THEN Append(upTo[n - 1], n) ELSE upTo[n - 1]
    IN  upTo[written]

\* The rows of one slug.
CommentsOf(s) == OldestFirst({c \in Live : comment[c].slug = s})

\* The first loop.  An item is appended to its parent's replies, or to the
\* roots, as a copy: replies that it gets later reach the row, not the copy.
Item(replies, c) == [id |-> c, replies |-> replies[c]]
Place(grouped, c) ==
    LET item == Item(grouped.replies, c)
        p == comment[c].parent
    IN IF p \in DOMAIN grouped.replies
       THEN [grouped EXCEPT !.replies[p] = Append(@, item)]
       ELSE [grouped EXCEPT !.roots = Append(@, item)]
Group(rows) ==
    FoldLeft(Place, [roots |-> <<>>, replies |-> [c \in Range(rows) |-> <<>>]], rows)

\* Mutant of GetCommentsBySlug: without the second loop.
GetCommentsOnce(s) == Group(CommentsOf(s)).roots

\* ... and the second loop, which takes the roots' replies from their rows.
GetCommentsBySlug(s) ==
    LET grouped == Group(CommentsOf(s))
    IN [i \in DOMAIN grouped.roots |-> Item(grouped.replies, grouped.roots[i].id)]

-----------------------------------------------------------------------------
Next ==
    \/ \E p \in Posts, s \in Slugs : CreatePost(p, s)
    \/ \E p \in Posts, s \in Slugs \cup {Blank} : UpdatePost(p, s)
    \/ \E p \in Posts : DeletePost(p)
    \/ \E u \in Users, s \in Slugs : CreateComment(u, s)
    \/ \E r \in Requests, a \in Replies : CheckParent(r, a)
    \/ \E r \in Requests : InsertReply(r) \/ ReplyFails(r)
    \/ \E u \in Users, c \in Comments : UpdateComment(u, c) \/ DeleteComment(u, c)
    \/ \E c \in Comments : AdminUpdateComment(c) \/ AdminDeleteComment(c)
    \/ \E u \in Users : DeleteUser(u)

Spec == Init /\ [][Next]_vars

-----------------------------------------------------------------------------
(* Properties. *)

\* A reply's parent exists, is on the same post, and is older: the check in
\* service/comment.go and the INSERT are two statements, and the parent and all
\* it stands under may be deleted between them.
ParentInThread ==
    \A c \in Live : comment[c].parent # NoParent =>
        /\ comment[c].parent \in Live
        /\ comment[comment[c].parent].slug = comment[c].slug
        /\ comment[c].parent < c

\* Nothing of a deleted account is left, although a request of one of its
\* sessions may be between two statements when it goes (repository/user.go).
NothingOfDeletedUsers == \A c \in Live : comment[c].author \in users

\* What GetCommentsBySlug shows of a post: all its root comments, oldest first,
\* each with all its direct replies, oldest first. Nothing is left out, shown
\* twice or under another parent, whatever is written and deleted in between
\* (repository/comment.go: the rows are grouped in one pass, in the order of the
\* query, and the roots are copied before they have their replies). It is said of
\* lists that are read to their end: one that breaks off is not noticed.
Below(s, p) == OldestFirst({c \in Live : comment[c].slug = s /\ comment[c].parent = p})
Ids(items) == [i \in DOMAIN items |-> items[i].id]
RootsAndRepliesShown ==
    \A s \in Slugs :
        /\ Ids(GetCommentsBySlug(s)) = Below(s, NoParent)
        /\ \A i \in DOMAIN GetCommentsBySlug(s) :
              Ids(GetCommentsBySlug(s)[i].replies) = Below(s, GetCommentsBySlug(s)[i].id)

\* What the API description says of a reply, whose schema is that of a comment:
\* it has its replies with it too. It does not hold: replies of replies are
\* accepted and counted, and shown nowhere.
RepliesHaveReplies ==
    \A s \in Slugs : \A i \in DOMAIN GetCommentsBySlug(s) :
        LET replies == GetCommentsBySlug(s)[i].replies
        IN  \A j \in DOMAIN replies : Ids(replies[j].replies) = Below(s, replies[j].id)

\* A post shows comments that were written under another post only if that one
\* was renamed or deleted: its comments stay behind, and go to whichever post
\* takes its slug next (repository/post.go, UpdatePost and DeletePost).
InheritedOnlyWhenLeft ==
    \A c \in Live, p \in Posts :
        slug[p] = comment[c].slug /\ comment[c].under \notin {p, NoPost}
            => comment[c].under \in left
=============================================================================
