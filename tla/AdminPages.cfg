SPECIFICATION FairSpec
CONSTANTS
    u1 = u1  u2 = u2  l1 = l1  l2 = l2  a1 = a1
    Listing <- TwoUsers
    PerPage = 1
    MaxButtons = 5
    Load = {l1, l2}
    Act = {a1}
    Timers = 2
INVARIANTS TypeOK PermissionFirst OneRequestPerUser ShownAsDone ShownPage PageExists
PROPERTIES LoadingEnds RowsComeBack
