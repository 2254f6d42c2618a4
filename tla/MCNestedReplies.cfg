SPECIFICATION Spec
CONSTANTS
    Users = {ann}
    Slugs = {hello}
    Posts = {p1}
    MaxComments = 3
    MaxEdited = 1
    Requests = {r1}
    NoRow = NoRow
    NoPost = NoPost
    Blank = Blank
    NoArg = NoArg
SYMMETRY Symmetry
INVARIANTS
    RepliesHaveReplies
CHECK_DEADLOCK FALSE
