SPECIFICATION Spec
CONSTANTS
    w1 = w1  w2 = w2
    Nil = Nil
    Worker = {w1, w2}
    Db = {0, 5}
    MaxFaults = 2
INVARIANTS TypeOK BelievedDb FaultCostsOneCall
PROPERTIES RefinesRedisCall
