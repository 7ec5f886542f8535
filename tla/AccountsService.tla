-------------------------- MODULE AccountsService --------------------------
(***************************************************************************)
(* accounts/service.go: the three transfers of the user app.  A transfer   *)
(* reads accounts, decides its legs and hands them to a Store, which works *)
(* later, on accounts that may have changed since.  The reads of one       *)
(* transfer are one step.  Every account is in SAR (the seeds say so, and  *)
(* nothing else makes an account), so currencies are left out.             *)
(***************************************************************************)
EXTENDS Integers, FiniteSets, FiniteSetsExt, SequencesExt

CONSTANTS
    User,       \* users, the system's own among them
    Customer,   \* bound: the users in whose name transfers are asked for
    Account,
    Clearing,   \* ClearingAccountID
    OwnerOf,    \* Account.UserID
    Floor,      \* the accounts with RespectsFloor
    Request,    \* POSTs to /v1/transfers/...
    KeyOf,      \* a request's idempotency_key
    Amount      \* amounts asked for, in minor units

ASSUME ServiceAssumption ==
    /\ IsFiniteSet(Account) /\ Clearing \in Account
    /\ Customer \subseteq User
    /\ OwnerOf \in [Account -> User]
    /\ Floor \subseteq Account
    /\ DOMAIN KeyOf = Request
    /\ Amount \subseteq Nat \ {0}

VARIABLES
    driver,     \* config.LedgerDriver
    balance,    \* Account.BalanceMinor, as committed
    active,     \* Account.IsActive, as committed
    rows,       \* what a request has committed besides balances
    phase,      \* where a request is: its goroutine, or what it left of a transaction
    op,         \* its TransferOp: accounts in the order of the legs, and deltas
    answer      \* what its transfer returned

serviceVars == <<driver, balance, active, rows, phase, op, answer>>

NoOp == [order |-> <<>>, delta |-> [a \in Account |-> 0]]

\* mustOwnActiveAccount
MustOwnActive(u, a) == OwnerOf[a] = u /\ active[a]

\* The delta of a transfer from one account to another.
Move(from, to, n) ==
    [order |-> <<from, to>>,
     delta |-> [a \in Account |-> CASE a = from -> -n [] a = to -> n [] OTHER -> 0]]

-----------------------------------------------------------------------------
\* computeDistribution: the accounts it splits over, in any order the sort
\* leaves possible (all seeded accounts were created at the same time).
Splittable(u) == {a \in Account \ {Clearing} : MustOwnActive(u, a)}

DistributionOrders(u) ==
    {s \in SetToSeqs(Splittable(u)) :
        \A i, j \in DOMAIN s : s[i] \in Floor /\ s[j] \notin Floor => j < i}

\* The share of the i-th of n accounts.
Share(i, n, amount, remaining) ==
    IF i = n \/ amount \div n = 0 THEN remaining ELSE Min({amount \div n, remaining})

\* What is left after each iteration, if every account is visited.
LeftAfter(n, amount) ==
    LET left[i \in 0 .. n] ==
            IF i = 0 THEN amount ELSE left[i - 1] - Share(i, n, amount, left[i - 1])
    IN  left

\* The first m accounts of s get their shares, all from the clearing account.
FromClearing(s, m, amount, share) ==
    [order |-> <<Clearing>> \o SubSeq(s, 1, m),
     delta |-> [a \in Account |->
        IF a = Clearing THEN -amount
        ELSE IF \E i \in 1 .. m : s[i] = a THEN share[CHOOSE i \in 1 .. m : s[i] = a]
        ELSE 0]]

\* Mutant: every account gets the rounded share, the last one too.
DistributionRounded(s, m, amount) ==
    FromClearing(s, m, amount, [i \in 1 .. m |-> amount \div Len(s)])

Distribution(s, m, amount) ==
    LET left == LeftAfter(Len(s), amount)
    IN  FromClearing(s, m, amount, [i \in 1 .. m |-> left[i - 1] - left[i]])

-----------------------------------------------------------------------------
Submit(r, o) ==
    /\ phase[r] = "new"
    /\ phase' = [phase EXCEPT ![r] = "store"]
    /\ op' = [op EXCEPT ![r] = o]
    /\ UNCHANGED <<driver, balance, active, rows, answer>>

TransferOwn(r) ==
    \E u \in Customer, from, to \in Account, n \in Amount :
        /\ from # to
        /\ MustOwnActive(u, from) /\ MustOwnActive(u, to)
        /\ Submit(r, Move(from, to, n))

\* The first active account of the recipient may be any of them.
TransferP2P(r) ==
    \E u \in Customer, v \in User, from, to \in Account, n \in Amount :
        /\ u # v
        /\ MustOwnActive(u, from) /\ MustOwnActive(v, to)
        /\ Submit(r, Move(from, to, n))

\* The loop ends after the m-th account, when nothing is left.
TransferDistribute(r) ==
    \E u \in Customer, n \in Amount : \E s \in DistributionOrders(u) :
        \E m \in DOMAIN s :
            /\ LeftAfter(Len(s), n)[m - 1] > 0 /\ LeftAfter(Len(s), n)[m] = 0
            /\ Submit(r, Distribution(s, m, n))

\* An account that is not the user's or not active, the same account twice,
\* a recipient who is the user or has no active account, or nothing to split
\* over.
TurnedAway(r) ==
    /\ phase[r] = "new"
    /\ \E u \in Customer :
        \/ \E from, to \in Account :
            from = to \/ ~ MustOwnActive(u, from) \/ ~ MustOwnActive(u, to)
        \/ \E from \in Account : MustOwnActive(u, from) /\ \E v \in User :
            v = u \/ \A to \in Account : ~ MustOwnActive(v, to)
        \/ Splittable(u) = {}
    /\ phase' = [phase EXCEPT ![r] = "done"]
    /\ answer' = [answer EXCEPT ![r] = "refused"]
    /\ UNCHANGED <<driver, balance, active, rows, op>>

\* A handler of api/router.go reads its request and calls the service; one it
\* cannot read is turned away as well.
ServiceStep(r) == TransferOwn(r) \/ TransferP2P(r) \/ TransferDistribute(r) \/ TurnedAway(r)
=============================================================================
