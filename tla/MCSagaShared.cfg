\* Two calls that carry the same idempotency key, two sources at two banks, a ledger that may fail.
CONSTANTS
    t1 = t1  t2 = t2
    s1 = s1  s2 = s2
    p1 = p1  p2 = p2
    k1 = k1  k2 = k2
    Tx = {t1, t2}
    Source = {s1, s2}
    Provider = {p1, p2}
    ProviderOf <- TwoBanks
    Key = {k1}
    KeyOf <- SharedKey
    Connected = {p1, p2}
    Referenced = {s1, s2}
    LedgerMayFail = TRUE
    FailureThreshold = 1
    OpenDuration = 1
SPECIFICATION Spec
SYMMETRY SharedSymmetry
INVARIANTS
    RolledBackIsAcknowledged
    BooksFollowTheBank
    EventsMatchBatches
    SagaInv
