SPECIFICATION Spec
CONSTANTS
    s1 = s1
    s2 = s2
    n1 = n1
    n2 = n2
    p1 = p1
    None = None
    Empty = Empty
    Submission <- MCSubmission
    Name <- MCName
    ValidName <- MCValidName
    Password <- MCPassword
    ValidPassword <- MCValidPassword
INVARIANTS
    TypeOK
    PostsWhatWasChecked
    SaltIsOwn
PROPERTIES
    EndsReported
    ButtonComesBack
CHECK_DEADLOCK FALSE
