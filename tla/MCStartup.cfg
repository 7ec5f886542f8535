\* Two instances start over an empty database; two crashes or expired contexts.
CONSTANTS
    i1 = i1  i2 = i2
    s1 = s1  s2 = s2  s3 = s3
    Instance = {i1, i2}
    Session = {s1, s2, s3}
    Objects = 2
    Rows = 2
    MaxCrashes = 2
SPECIFICATION FairSpec
INVARIANTS
    TypeOK
    SeededOnce
    ServesComplete
    StartupInv
PROPERTY AllServe
