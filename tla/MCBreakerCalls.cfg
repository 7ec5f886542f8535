\* Two providers, three callers; no symmetry, because liveness is checked too.
CONSTANTS
    Provider = {p1, p2}
    Caller = {c1, c2, c3}
    FailureThreshold = 3
    OpenDuration = 2
SPECIFICATION FairSpec
INVARIANTS
    TypeOK
    BreakerInv
    QuarantineHolds
PROPERTIES
    QuarantineEndsByAnAnswer
    NoProviderShutOut
