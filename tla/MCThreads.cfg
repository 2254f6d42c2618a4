SPECIFICATION Spec
CONSTANTS
    Users = {ann, bob}
    Slugs = {hello, goodbye}
    Posts = {p1, p2}
    MaxComments = 3
    MaxEdited = 1
    Requests = {r1}
    NoRow = NoRow
    NoPost = NoPost
    Blank = Blank
    NoArg = NoArg
SYMMETRY Symmetry
INVARIANTS
    ParentInThread
    RootsAndRepliesShown
    InheritedOnlyWhenLeft
CHECK_DEADLOCK FALSE
