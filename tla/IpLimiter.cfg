SPECIFICATION FairSpec
CONSTANTS
    w1 = w1  w2 = w2  i1 = i1
    Nil = Nil
    Worker = {w1, w2}
    Ip = {i1}
    Types = {"signup"}
    Window = 3
    Outcomes = {"ok", "lost", "err"}
    Found = {0, 1}
    MayCrash = TRUE
INVARIANTS TypeOK AtMostMaxAllowed CounterExpires
PROPERTIES QuietIpIsForgotten
