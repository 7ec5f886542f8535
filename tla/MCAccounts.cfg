\* Two requests with keys of their own, over each of the stores, and over a
\* Postgres whose balances are nearly out of range.
CONSTANTS
    me = me  you = you  sys = sys
    cash = cash  fund = fund  yours = yours  clearing = clearing
    r1 = r1  r2 = r2
    k1 = k1  k2 = k2
    User = {me, you, sys}
    Customer = {me, you}
    Account = {cash, fund, yours, clearing}
    Clearing = clearing
    OwnerOf <- Owners
    Floor = {fund}
    Request = {r1, r2}
    KeyOf <- FreshKeys
    Amount = {1, 3}
    Limit = 16
    Start <- BothStores
    Toggled = {fund}
SPECIFICATION FairSpec
INVARIANTS
    TypeOK
    NonNegative
    LegsAddUp
    AnswersAreTrue
    StoreInv
PROPERTIES
    InactiveUntouched
    MoneyConserved
    KeepsPromise
    EveryRequestAnswered
