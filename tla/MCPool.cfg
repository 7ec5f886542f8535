\* Two goroutines, one connection at a time; trust, md5, and scram, which the driver refuses.
CONSTANTS
    c1 = c1  c2 = c2
    k1 = k1  k2 = k2
    Conn = {c1, c2}
    Client = {k1, k2}
    Auth = {"trust", "md5", "scram"}
    MaxOpen = 1
    MaxIdle = 1
    Statements = 1
SPECIFICATION FairSpec
INVARIANTS
    TypeOK
    InStep
    FreeIsClean
    OutcomesAreTrue
    PoolInv
PROPERTIES
    EveryCallEnds
    BrokenLeaves
