\* Requests to the store in memory for nearly as much as a balance can hold:
\* one credit to an account that holds money is more than fits.
CONSTANTS
    me = me  you = you  sys = sys
    cash = cash  fund = fund  yours = yours  clearing = clearing
    r1 = r1  r2 = r2
    k1 = k1  k2 = k2
    User = {me, you, sys}
    Customer = {me, you}
    Account = {cash, fund, yours, clearing}
    Clearing = clearing
    OwnerOf <- Owners
    Floor = {fund}
    Request = {r1, r2}
    KeyOf <- FreshKeys
    Amount = {7}
    Limit = 8
    Start <- MemoryModest
    Toggled = {}
SPECIFICATION Spec
INVARIANT NonNegative
