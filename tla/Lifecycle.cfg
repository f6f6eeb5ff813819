SPECIFICATION FairSpec
CONSTANTS
    t1 = t1  t2 = t2  c1 = c1  c2 = c2  c3 = c3
    Thread = {t1, t2}
    Client = {c1, c2, c3}
    None = None  Main = Main
INVARIANTS TypeOK Reachable
PROPERTIES ShutdownEnds QueueIsServed
