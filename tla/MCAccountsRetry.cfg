\* A request and its repetition under one key, over Postgres.
CONSTANTS
    me = me  you = you  sys = sys
    cash = cash  fund = fund  yours = yours  clearing = clearing
    r1 = r1  r2 = r2
    k1 = k1  k2 = k2
    User = {me, you, sys}
    Customer = {me, you}
    Account = {cash, fund, yours, clearing}
    Clearing = clearing
    OwnerOf <- Owners
    Floor = {fund}
    Request = {r1, r2}
    KeyOf <- SharedKey
    Amount = {1, 3}
    Limit = 8
    Start <- PostgresModest
    Toggled = {}
SPECIFICATION Spec
INVARIANT OneBatchPerKey
