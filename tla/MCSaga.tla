------------------------------- MODULE MCSaga -------------------------------
(* Small instances of the Saga engine: up to two calls of AuthorizePayment *)
(* on two assets held at one or two banks.                                 *)
EXTENDS SagaPromise, TLC

CONSTANTS t1, t2, s1, s2, p1, p2, k1, k2

\* ProviderOf
TwoBanks == s1 :> p1 @@ s2 :> p2
OneBank == s1 :> p1 @@ s2 :> p1

\* KeyOf
OneCall == t1 :> k1
FreshKeys == t1 :> k1 @@ t2 :> k2
SharedKey == t1 :> k1 @@ t2 :> k1

\* Exchanging the calls together with their keys, or the sources together
\* with their banks, leaves the constants of an instance as they are.
Preserves(f, g) == \A x \in DOMAIN g : f[x] \in DOMAIN g /\ f[g[x]] = g[f[x]]

OneBankSymmetry ==
    {f \in Permutations({t1, t2, k1, k2, s1, s2}) :
        f[s1] \in {s1, s2} /\ f[s2] \in {s1, s2} /\ Preserves(f, FreshKeys)}
SharedSymmetry ==
    {f \in Permutations({t1, t2, s1, s2, p1, p2}) :
        f[t1] \in {t1, t2} /\ f[t2] \in {t1, t2} /\ Preserves(f, TwoBanks)}
=============================================================================
