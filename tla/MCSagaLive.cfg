\* Two calls on two sources of one bank, one of them without an account reference;
\* two bad results trip the breaker.  Fairness of the goroutines only.
CONSTANTS
    t1 = t1  t2 = t2
    s1 = s1  s2 = s2
    p1 = p1  p2 = p2
    k1 = k1  k2 = k2
    Tx = {t1, t2}
    Source = {s1, s2}
    Provider = {p1}
    ProviderOf <- OneBank
    Key = {k1, k2}
    KeyOf <- FreshKeys
    Connected = {p1}
    Referenced = {s1}
    LedgerMayFail = TRUE
    FailureThreshold = 2
    OpenDuration = 2
SPECIFICATION FairSpec
PROPERTIES
    EveryCallReturns
    OnlyQuarantineRefuses
