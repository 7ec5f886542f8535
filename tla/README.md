# Verification of the Nexios Finance orchestrator

TLA+ specifications of the Go orchestrator in `src/`, the TLC configurations
that model-check them on small instances, and TLAPS proofs of the results that
hold for every instance. Paths below are relative to the repository's `src/`.

## 1. The system

One process (`cmd/orchestrator/main.go`) serves HTTP. Behind it stand two
halves, payments and accounts, that share nothing but the router; under the
accounts half lies a Postgres driver written for this repository.

| Component | Source | State it keeps | Operations |
|---|---|---|---|
| Circuit breaker | `internal/orchestrator/circuitbreaker.go` | per provider: failure count, state, time it opened; one mutex | `Allow`, `RecordResult` |
| Saga executor | `internal/orchestrator/executor.go` | the transaction of one call, one goroutine per leg | `Execute`, `executeLeg`, `initiateAndRecord` |
| Rollback handler | `internal/orchestrator/rollback.go` | none; one goroutine per leg to reverse | `CompensateAll`, `compensateLeg` |
| Liquidity service | `internal/orchestrator/service.go` | none | `AuthorizePayment` |
| Payment planner | `internal/orchestrator/planner.go`, `internal/domain/asset.go` | none | `BuildPlan` |
| Provider resolver | `internal/orchestrator/resolver.go` | two maps, filled before the server starts | `ResolvePIS`, `ResolveAccountRef` |
| Settlement ledger | `internal/ledger/service.go`, `memory_repository.go` | entries by key, entries by transaction; one mutex | `RecordSplitSettlement`, `RecordCompensation`, `EntryExists`, `SaveBatch` |
| Outbox | `internal/ledger/outbox.go` | events by identifier; one mutex | `Enqueue`, `FetchUnpublished`, `MarkPublished` |
| Payment client | `internal/openbanking/pis.go`, `client.go` | an HTTP client per bank | `InitiateForLeg`, `ReversePayment` |
| Accounts service | `internal/accounts/service.go` | none | `TransferOwn`, `TransferP2P`, `TransferDistribute` |
| Accounts in memory | `internal/accounts/memory_repository.go` | users, accounts, entries, transfers; one mutex | `ExecuteTransfer`, reads |
| Accounts on Postgres | `internal/accounts/postgres_repository.go` | tables | `ExecuteTransfer`, `SeedDemoData`, reads |
| Schema, start-up data | `internal/schema/schema.go`, `accounts/postgres_repository.go` | tables | `Apply`, `SeedDemoData` |
| Postgres wire driver | `internal/pgwire` | a connection, its unread messages, the session's transaction status | start-up, queries, `Commit`, `Rollback`, `Close` |
| Connection pool | `database/sql`, as `main.go` sets it up | free and open connections | hand out, take back, close |
| HTTP API | `internal/api/router.go` | none | one handler per route, `authMiddleware` |
| Configuration | `internal/config/config.go` | none after start | `Load` |

How they interact in a transfer: a handler of `api/router.go` calls the service,
the service reads accounts through the `Store`, decides the legs and hands them
to `ExecuteTransfer`, which looks at the accounts again: under one mutex in
memory, by conditional `UPDATE`s of one SQL transaction in Postgres.

How they interact in a payment: `AuthorizePayment` reads the user's assets,
`BuildPlan` cuts the amount into legs, `Execute` starts a goroutine per leg.
A leg asks the breaker (`Allow`, which unlocks it again), resolves its bank, and
only then sends the payment with the key `<client key>:<source>`, records the settlement (`EntryExists`, `SaveBatch`,
`Enqueue`: three steps, three critical sections), and tells the breaker how it
went (`RecordResult`). `Execute` waits for all legs. If one returned an error,
`CompensateAll` reverses, again concurrently, the legs that returned none.

What makes this hard: legs of several calls share the breaker, the ledger and,
when a client repeats its key, the bank payment itself; no lock is held across
the calls to the bank and to the ledger; a request whose caller has given up
may still be performed; a bank may say that it has accepted a reversal and
perform it later; a circuit may open between a leg's admission and its request;
every write can fail after the one before it succeeded;
the breaker hears results in another order than it admitted the calls. In a
transfer: the accounts may have changed since the service read them; the row
locks are taken in the order of the legs, which two requests may reverse; a
statement, the connection or the commit's acknowledgement may be lost; a
transaction may outlive its caller, keep its locks and even commit; and a
repeated request is a new transfer.

How they interact below a transfer: `database/sql` gives the goroutine a
connection, its own or a fresh one, and waits when there are too many; the
driver writes one query at a time and reads messages until `ReadyForQuery`,
keeping the first error on the way. The driver looks at no context and never
says that a connection is bad, so that a call is interrupted only between two
queries, and a broken connection goes back to the pool and fails whoever gets it
next. What is hard: an error is followed by more messages; the context of a
transaction may end at any step, and `database/sql` then rolls back behind the
caller; nobody asks the server what state a session is in before it is handed
on.

How they interact at start-up: every instance applies the schema, one statement
at a time and each committed by itself, looks whether the demo users are there,
and if not inserts them in one transaction. Any error ends the process, and
docker starts it again. What is hard: several instances do this at once on one
database; one may crash anywhere, and its session still executes the last query
it was sent.

What makes each component correct:

- *Breaker*: count, state and clock never contradict each other; a failing bank
  gets nothing but what was under way for the open duration; it is never shut
  out for good, and nobody is refused but by a bank in quarantine.
- *Engine*: APPROVED means every leg was paid, booked and announced and stays so;
  ROLLED_BACK means that of every leg known to be charged the bank has given the
  money back or agreed to, and the ledger says so; anything else ends FAILED;
  every call returns.
- *Ledger and outbox*: nothing is booked the bank did not do; batch and event
  come together; one key is booked once.
- *Planner*: the plan is each asset's fair share in priority order, to the last
  minor unit, without touching a safety threshold.
- *Transfers*: money is conserved, no balance but the clearing account's goes
  below zero, a transfer happens to all its accounts or to none, the caller is
  told the truth about it, an inactive account is not touched, and every request
  returns.
- *Driver and pool*: an answer is read by who asked; a connection is handed on
  outside of any transaction and with nothing unread; the result of a
  transaction is true; every call returns, and a broken connection does not stay
  for ever.
- *Start-up*: the demo data is committed once and as a whole; who serves has the
  whole schema and all of the data; every instance comes to serve.

In the program as wired by `main.go` the resolver is left empty, so every leg
fails with "no connection configured"; the demo asset provider makes fresh asset
identifiers for every call, so that no two calls share a leg key; and the ledger
is the in-memory one, which never returns an error. The modules describe the
engine as its package is written, with registered providers (`Connected`,
`Referenced`), an asset provider that may return the same assets twice, and a
`Repository` whose errors the code handles (`LedgerMayFail`); each run says
which of these it uses.

## 2. Modules

    CircuitBreaker ----> BreakerCalls <---- MCBreakerCalls
          |                     \---------- BreakerCallsProofs <-- CircuitBreakerProofs
          v
    Bank -> Ledger -> Saga -> SagaPromise <-- MCSaga
                                 |   |  INSTANCE PaymentPromise
                                 |   \---- SagaProofs (uses CircuitBreakerProofs)
    AccountsService -> MemoryStore -> PostgresStore -> Accounts <-- MCAccounts
                                                         |   |  INSTANCE Transfers
                                                         |   \---- AccountsProofs (uses Sums)
    Wire -> Pool <-- MCPool
               \---- PoolProofs
    Startup <-- MCStartup
        \------ StartupProofs
    Planner <-- MCPlanner
        \------ PlannerProofs (uses Sums)

| Module | Models | Correspondence |
|---|---|---|
| `CircuitBreaker` | `circuitbreaker.go` | `failures`, `state`, `openAge` are the three maps; `Allow`/`Refuse` are `Allow` returning true or false, `RecordBad`/`RecordGood` the two ways through `RecordResult`. Each runs under the mutex, so each is one step. |
| `BreakerCalls` | the calls around the breaker in `executeLeg` | one step for `Allow`, one for `RecordResult`, and the return between them that reports nothing (`Abandon`). |
| `Bank` | the banks and the network (external), as `pis.go` uses them | a request is a message on `wire`; the bank performs it at any later time or never, once per key; a reversal is answered when it is performed or when it is accepted; the caller may stop waiting at any time. |
| `Ledger` | `InMemoryRepository`, `InMemoryOutbox` | `entries`, `byTx`, `outbox`; one operator per method. |
| `Saga` | `service.go`, `executor.go`, `rollback.go`, `ledger/service.go` | one program counter per leg goroutine; one action per access to shared state. |
| `PaymentPromise` | what a payment promises | four variables, no legs, messages, breaker or ledger. |
| `SagaPromise` | the refinement mapping | `Saga` implements `PaymentPromise`. |
| `Planner` | `planner.go`, `asset.go` | one action per iteration. |
| `Transfers` | what a transfer promises (`accounts/repository.go`) | a change of balances that adds up to nothing is asked for, and settles at once or is refused; no users, stores, locks or answers. |
| `AccountsService` | `accounts/service.go`, the POST handlers of `api/router.go` | one action per transfer type, one for every refusal before the store; `phase`, `op`, `answer` are the request's goroutine, its `TransferOp` and what it returned. |
| `MemoryStore` | `accounts/memory_repository.go` | `ExecuteTransfer` is one step, by its mutex; `Wrap` is int64 addition. |
| `PostgresStore` | `accounts/postgres_repository.go` over an external server | one action per statement; `balance`, `active`, `rows` are what is committed, `leg` how many `UPDATE`s a transaction has done. |
| `Accounts` | the service over the store `main.go` chose | initial states, fairness, properties, the refinement of `Transfers`. |
| `Wire` | `internal/pgwire`, and the server at its other end (external) | a connection is `link`, the server's `session` and what travels between them: `sent` queries and `reply` messages, in order. |
| `Pool` | the goroutines that use the driver, under `database/sql` (external) with the limits of `main.go` | one program counter per goroutine; one action per query sent and per message read. |
| `Startup` | `mustBuildAccountsStore`, `schema.Apply`, `SeedDemoData` | what a session was asked last and its answer stand for where the instance is in the code. |
| `*Proofs` | | theorems and proofs, see section 5. |
| `Sums` | | lemmas on `SumFunctionOnSet` of the community modules: the sum of a function over a finite set. |

Where a leg's goroutine can be, and the code it is about to run:

| `pc` | Code |
|---|---|
| `ready` | `executor.go:99` `Allow` |
| `admitted` | `executor.go:105-128`, the breaker unlocked, the request not sent |
| `sent` | `executor.go:128`, waiting for the bank |
| `check`, `save`, `enqueue` | `ledger/service.go:31`, `:51`, `:59` |
| `report` | `executor.go:123` `RecordResult` |
| `done` | `executor.go:64`, collected by `wg.Wait` |
| `reversing` | `rollback.go:69`, waiting for the bank: 200 or 202 (`pis.go:111`) will do |
| `ccheck`, `csave` | `ledger/service.go:63`, `:83` |
| `cdone` | `rollback.go:46`, collected by the second `wg.Wait` |

Abstractions, and why they lose nothing the properties speak of: a failure count
saturates at the threshold and the age of an opening at the open duration,
because the code only compares them; time is a discrete clock that may tick
between any two steps; whether an answer was slow is a free choice in
`ReportResult`; a leg's amount is one unit, because the code pays, reverses and
books a leg as a whole; a batch is one key, because `RecordSplitSettlement` and
`RecordCompensation` build both entries from one amount; `INITIATED` and
`PLANNING` are passed in one step, because nothing else can see the transaction
then.

The accounts. `rows` is the set of tables a request has committed rows to
(`transfer` alone in memory, see section 3), and an uncommitted row is not shown, because read
committed shows it to nobody. Nor are uncommitted balances: a row that a
transaction has updated is locked until it ends, so what it will commit is the
committed balance plus its delta (`Locked` is derived from `leg`). An `UPDATE`
whose `WHERE` does not hold of the committed row returns no row without waiting
(`NoRow`); one that holds waits for the lock and looks again (`UpdateBalance`).
Whether the second `SELECT` then says inactive or insufficient is left out:
`refused` stands for every reason the caller is given, `error` for every error
of the database. A cancelled request, a broken connection or a server that
restarts ends a transaction for its caller. The server may have rolled it back by
then (`Abort`), or not have noticed (`Leave`): then the caller has its error, and
the transaction is an `orphan` that keeps its locks until the server drops it
(`Drop`), or `inDoubt` because its `COMMIT` was on its way, and the server may
still execute it (`LateCommit`). An orphan takes no further locks: an `UPDATE`
that was waiting when its caller left is not continued. `Toggle` is an operator with SQL:
no code of the repository changes `is_active`, while all of it checks. The reads
of one service call are one step; they concern different rows, and every check
on them is repeated by the store, except that the store in memory does not look
at credited accounts, which in memory are always active. A distribution may
visit its accounts in any order that puts the floor-respecting ones last: the
seeds create all accounts at one time, and a map or an `ORDER BY` with ties gives
any order. Currencies are left out: every account there is has SAR.

The driver and the pool. Where a goroutine can be, and the code it is about to
run:

| `pc` | Code |
|---|---|
| `wait` | `DB.conn`: a free connection, a new one, or neither yet |
| `dial` | `protocol.go:180-250`, start-up and authentication |
| `held` | has a connection and has asked nothing |
| `tx` | inside a transaction, between two queries |
| `begin`, `stmt`, `read`, `commit`, `rollback` | `collectResults` (`query.go:110`) of that query |
| `undo` | a statement has failed, and `ROLLBACK` comes next |

A query is one unit whether it goes out as `simpleQuery` or `execExtended`, and
its answer is `complete` or `error`, then `ready`: the messages `collectResults`
skips, and what is inside a row, are left out. A broken connection is `link`
"down"; what is written to it is lost, and reading fails, which is how both an
error of the write and one of the read reach the caller. What the server had
received it may still execute (`sent` after a break), until it notices. The end
of a connection's lifetime puts it into `old`. The mutex of `driverConn` needs
no variable: a connection belongs to one goroutine at a time, which `Ownership`
says.

Start-up. `Crash` ends an instance anywhere and leaves its session behind, which
does what it was asked. `CREATE ... IF NOT EXISTS` looks and then creates, and
may fail on what another session has created in between. A row is known by its
unique key, so that an `INSERT` waits for an open transaction that has inserted
the same key, and fails when that has committed. A transaction's rows are `held`
until it commits; an `INSERT` outside of one would be committed at once, which
the code never does and a mutant shows. `GivesUp` is the end of the ten seconds
of the start-up's context. Connecting is part of `Start`, because one that fails
changes nothing that lasts.

## 3. Runs

| Run | Instance | Shows |
|---|---|---|
| `breaker` | 2 providers, 3 callers, threshold 3, duration 2; 4,323 states | `BreakerInv`, `QuarantineHolds`, `QuarantineEndsByAnAnswer`, `NoProviderShutOut` |
| `saga_fresh` | 2 calls with their own keys, both sources at one bank, threshold 2, duration 2, failing ledger; 867,782 states up to symmetry | `ApprovedIsHonoured`, `QuarantineOnlyDrains`, refinement of `PaymentPromise` |
| `saga_shared` | 2 calls with one key, 2 sources at 2 banks, failing ledger; 1,753,119 states up to symmetry | `RolledBackIsAcknowledged`, `BooksFollowTheBank`, `EventsMatchBatches`, the inductive `SagaInv` |
| `saga_live` | as `saga_fresh` without symmetry, one source without an account reference, failing ledger; 42,417 states | `EveryCallReturns`, `OnlyQuarantineRefuses` |
| `accounts` | 2 requests, 2 customers with 3 accounts, the clearing account; both stores, and a Postgres nearly out of range; one account switched off and on; amounts 1 and 3; 197,627 states | `NonNegative`, `LegsAddUp`, `AnswersAreTrue`, `StoreInv`, `InactiveUntouched`, `MoneyConserved`, refinement of `Transfers`, `EveryRequestAnswered` |
| `pool` | 2 goroutines, one open connection at most and one idle, transactions of one statement, trust, md5 and scram; 138,750 states | `InStep`, `FreeIsClean`, `OutcomesAreTrue`, the inductive `PoolInv`, `EveryCallEnds`, `BrokenLeaves` |
| `startup` | 2 instances, 3 sessions, 2 objects, 2 rows, 2 crashes; 342,009 states | `SeededOnce`, `ServesComplete`, the inductive `StartupInv`, `AllServe` |
| `planner` | every list of up to 3 assets with balances up to 2, thresholds up to 1, two priorities, amounts up to 5; 372,324 states | `PlanIsFairShare`, `PlanAddsUp` |

The bounds. Two calls are the fewest that share a breaker, a key and a ledger;
no property relates three. Two sources are the fewest for which one leg may fail
and the other be compensated. Three callers let two trip a circuit while the
third is in flight. A threshold of one in `saga_shared` makes every failure
open the circuit, so that refused, abandoned and half-open legs all occur; a
threshold of two, with both sources at one bank, is what makes legs of different
calls trip it together in `saga_fresh`, between another leg's admission and its
request among other places. In `saga_live` the source without a reference lets a
half-open circuit's call end without a report. Three assets are the fewest with a first, a
middle and a last place in the order, and balances up to 2 with amounts up to 5
leave room for a surplus, an exact fit and a shortfall of every asset.
Two requests are the fewest that
race for a balance and lock rows in opposite orders; an amount of 1 is less than
a distribution has accounts to give to, one of 3 does not divide by two. `Limit`
is 16 for 2^63; the third initial state of `accounts` is one that distributions
of 15 lead to, so that Postgres meets the end of its bigint, while the two
requests of the run cannot bring the store in memory there (`RoomFor(2, 3)` of
section 5 holds: 2 + 3 * 2 < 16). `accounts_overflow` does, with a `Limit` of 8
and one amount of 7 into an account that holds money. One open connection is the fewest for which calls wait for each other's,
and a second `Conn` is there for the one that has been closed while the server
has not noticed; with two open connections, md5 alone, the safety properties hold
too (830,000 states, not a run of the project). Two rows and two objects are the
fewest that can be half done, two crashes let both instances fall or one fall
twice, and a third session lets both run beside one that a crash has left
behind.

Symmetry: calls may be exchanged together with their keys, and sources together
with their banks (`OneBankSymmetry`, `SharedSymmetry`); runs with a liveness
property use none.

Fairness. `saga_live` assumes weak fairness of each goroutine's steps and of
each call's, nothing of banks, clients or the clock. The scheduler justifies it,
and that each wait of a leg ends: the payment by the 300 ms context of
`Execute`, both requests by the timeout of the HTTP client. `PaymentFails` and
`ReversalFails` are therefore always enabled while a leg waits. That a bank
performs what it has accepted is not assumed. `breaker`
assumes that time passes. It does not assume that calls return. `accounts`
assumes weak fairness of what a request's goroutine and its transaction do by
themselves, the server's deadlock detector among it (it runs after
`deadlock_timeout`), and that the server ends a transaction whose client has
gone, one way or the other: it reads the end of the connection, or its keepalives
find it dead. It assumes of nobody that they fail, or switch accounts.
`pool` assumes that goroutines run, that a server answers what it has received
and notices a connection that is gone, that lifetimes end (`SetConnMaxLifetime`)
and that the pool's cleaner runs; nothing of contexts, of the network or of
dialling. That a server answers is an assumption about it: the driver sets no
deadline for reading. `startup` assumes that processes run and are started again
(`restart: unless-stopped` in `deployments/docker-compose.yml`) and that the
server does what it is asked; crashes are bounded, which is the only way to say
that they end.

### Disagreements with the documentation

Each of these runs checks one statement and TLC shows a behaviour of the code
that breaks it.

| Run | Statement | What the code does |
|---|---|---|
| `saga_late_reply` | "automatically compensate (roll back) the legs that already settled if any leg fails" (`README.md:132-134`) | A payment whose answer is lost or late counts as failed and is not compensated (`executor.go:72-80`): ROLLED_BACK, and the source is charged. |
| `saga_duplicate` | "balanced batches with duplicate prevention" (`README.md:140`) | `EntryExists` and `SaveBatch` are two critical sections (`ledger/service.go:31-51`): two calls with one key both save. |
| `accounts_overflow` | "Unlike a normal account, the clearing account is allowed to go negative" (`accounts/domain.go:101-102`) | The store in memory adds credits to an int64 without a range check (`memory_repository.go:209`): one credit may wrap the balance of a normal account that already holds money. |
| `accounts_retry` | a repeated key "is enforced at the ledger-entry level" (`README.md:104-108`) | The unique key holds a transaction identifier made afresh in each call (`postgres_repository.go:288`, `:301`), so it never strikes: the repetition pays again. |

`saga_duplicate` needs an asset provider that returns the same asset identifiers
for both calls.

Three more disagreements are in the modules and shape what their properties say,
without a run of their own:

- *Accepted is not reversed.* `ReversePayment` takes 202 Accepted as it takes 200
  (`pis.go:111`), and nobody asks the bank again. `README.md:132-134` says that
  settled legs are rolled back; a ROLLED_BACK payment may have a leg whose money
  is "returning" and need never come back (`BankAcceptsReversal`,
  `BankGivesBack`, for which no fairness is assumed). `RolledBackIsAcknowledged`
  and `PaymentPromise` therefore promise the bank's word and no more.
- *An open circuit does not isolate.* "Isolates a failing provider"
  (`README.md:138-139`), "temporarily isolated" (`executor.go:101`): `Allow`
  unlocks the breaker when it returns (`circuitbreaker.go:48-60`), the leg then
  resolves its bank and account, and its request leaves at `executor.go:128`;
  another leg's `RecordResult` may have opened the circuit in between, and the
  request leaves for a bank in quarantine (`Enter`, `SendPayment`).
  `QuarantineOnlyDrains` says what does hold.
- *The store in memory keeps less.* `accounts/repository.go:19-23` says that
  every `Store` will "write a balanced double-entry ledger batch for the same
  movement, insert one Transfer record, and enqueue a settlement event on the
  outbox", and lines 54-55 repeat it of `ExecuteTransfer`.
  `MemoryStore.ExecuteTransfer` changes the balances and appends the transfer
  (`memory_repository.go:207-231`); it has neither ledger nor outbox.
  `MemorySettle` leaves the row `transfer` alone, and only of Postgres does
  `AnswersAreTrue` say that all the rows of a transfer are there or none.

Seen while modelling besides: two payments
with one key can end APPROVED and ROLLED_BACK on one bank payment, against
"enforced per transaction" (`README.md:137`); a leg that settled and could not be
booked is not compensated (`executor.go:143-146`), which takes a `Repository`
that fails; the comments on `computeDistribution` speak of headroom, of thirds
and of floor accounts that wait for the others to be full
(`accounts/service.go:144-147`, `:186-190`, `:208-210`), while the code gives
every account an even share; and when the acknowledgement of a commit is lost or
late, `ExecuteTransfer` returns an error for a transfer that happened or will
(`CommitFails`, `LateCommit`). A compensated
leg is COMPENSATED (`domain/transaction.go:42`), but `compensateLeg` assigns the
status to its own copy of the leg (`rollback.go:76`), and no transaction ever
shows it.

Of the driver: its comment names "context cancellation" (`driver.go:64-65`)
among what it adapts, while no method interrupts a query when its context ends;
`txStatus` (`protocol.go:51`) is written and never read; a broken connection may
fail one call after another until its half hour is over, because
`driver.ErrBadConn` is never returned; a `COMMIT` that was sent may be executed
after its caller got an error (so it may in `PostgresStore`); and a `COMMIT` of a transaction Postgres has
failed is answered without an error (`driver.go:236`), which is harmless as long
as the repository never commits after an error: `OutcomesAreTrue` shows it does
not. Of the start-up: "safe to restart repeatedly" (`README.md:62`) and "a safe
no-op" (`schema/schema.go:6-9`) hold, for instances that start together as well,
except that these may fail once on each other's objects or rows and must be
started again (`AllServe`).

## 4. What is worth knowing about the breaker

`RecordResult` closes the circuit on any quick success, whatever its state. A
call admitted before the circuit opened therefore ends the quarantine when its
answer arrives; `QuarantineEndsByAnAnswer` says this is the only early way out.
A late failure restarts the quarantine; `NoProviderShutOut` says that this
cannot go on for ever, because an open circuit admits nothing new and a refused
leg reports nothing. A half-open circuit admits every call, not one probe, and a
probe that fails to resolve its bank leaves it half-open. The one makes up for
the other: were it a single probe, such a leg would keep everyone out for good.
`OnlyQuarantineRefuses` says that nobody is refused for that reason, and its
mutant admits one probe.

`Allow` promises nothing about what comes after it. A leg that was let through
may send its request into a quarantine that began meanwhile (section 3), and it
may be the one whose result ends it. `QuarantineOnlyDrains` is what is left of
the isolation: no leg that has not been let through before is let through, or
sends a request, while the bank is in quarantine.

## 5. Proofs

`tlapm` checks every proof; nothing is assumed but the named assumptions on the
constants (`BreakerAssumption`, `CallerAssumption`, `KeyAssumption`,
`SagaAssumption`, `ServiceAssumption`, `LimitAssumption`, `StartAssumption`,
`WireAssumption`, `PoolAssumption`, `StartupAssumption`, `PlannerAssumption`),
which TLC evaluates in every run, and where a theorem says so `KeysDistinct`,
`RoomFor` or a driver. The theorems hold for any number of calls, sources, banks, keys and
callers, any threshold and duration, any number of accounts, users and requests,
any amounts and word size, any pool limits, connections and goroutines, any
number of instances, sessions, objects, rows and crashes, any number of assets
with any balances, thresholds and priorities.

| Theorem | States |
|---|---|
| `BreakerAlwaysConsistent` | `[](TypeOK /\ BreakerInv)` |
| `QuarantineAlwaysHolds` | `[]QuarantineHolds` |
| `QuarantineEndsOnlyByAnAnswer` | `QuarantineEndsByAnAnswer` |
| `SagaAlwaysConsistent` | `[](TypeOK /\ SagaInv)` |
| `RolledBackAlwaysAcknowledged` | `[]RolledBackIsAcknowledged` |
| `BooksAlwaysFollowTheBank` | `[]BooksFollowTheBank` |
| `EventsAlwaysMatchBatches` | `[]EventsMatchBatches` |
| `ApprovedAlwaysHonoured` | `[]ApprovedIsHonoured`, if no two calls share a key (`KeysDistinct`) |
| `QuarantineAlwaysOnlyDrains` | `QuarantineOnlyDrains` |
| `OnlyQuarantineEverRefuses` | `OnlyQuarantineRefuses` |
| `StoresAlwaysConsistent` | `[]StoreInv` |
| `AnswersAlwaysTrue` | `[]AnswersAreTrue` |
| `PostgresNeverOverdraws` | `[]NonNegative`, if the driver is Postgres |
| `InactiveNeverTouched` | `InactiveUntouched` |
| `AccountsTypeOK` | `[]TypeOK`, with every balance inside the word |
| `LegsAlwaysAddUp` | `[]LegsAddUp` |
| `StoresKeepPromise` | `KeepsPromise`, the refinement of `Transfers`, if the store in memory, should a run begin with it, has room (`RoomFor`) |
| `PostgresKeepsPromise` | the same over Postgres, without a condition on amounts |
| `StoresNeverOverdraw` | `[]NonNegative`, with that room |
| `MoneyAlwaysConserved` | `MoneyConserved`, with that room |
| `EngineKeepsPromise` | `KeepsPromise`, the refinement of `PaymentPromise`, if no two calls share a key |
| `PromiseIsAllOrNothing` | `[]AllOrNothing` of `PaymentPromise` |
| `EngineIsAllOrNothing` | `[]AllOrNothing` of the engine, read through the mapping, if no two calls share a key |
| `PlannerTypeOK` | `[]TypeOK` |
| `PlannerAddsUp` | `[]PlanAddsUp` |
| `PlannerIsFairShare` | `[]PlanIsFairShare` |
| `PoolAlwaysConsistent` | `[](TypeOK /\ PoolInv)` |
| `AlwaysFreeIsClean` | `[]FreeIsClean` |
| `AlwaysOutcomesAreTrue` | `[]OutcomesAreTrue` |
| `AlwaysInStep` | `[]InStep` |
| `StartupAlwaysConsistent` | `[](TypeOK /\ StartupInv)` |
| `AlwaysSeededOnce` | `[]SeededOnce` |
| `AlwaysServesComplete` | `[]ServesComplete` |
| `BreakerTypes`, `SagaTypes`, `PoolTypes`, `StartupTypes` | `[]TypeOK` |

*Breaker.* `CountMatchesState` alone is inductive; `QuarantineHolds` is not,
because a half-open circuit with a young opening would satisfy it neither before
nor after `Allow`. `BreakerInv` adds that a half-open circuit's duration has
passed. The lemmas of `CircuitBreakerProofs` (one per operation) are used by both
compositions.

*Engine.* No safety property of `Saga` is inductive alone: that APPROVED is
honoured depends on what the legs have done, which depends on what answers on
the wire mean. `Consistent` makes the chain explicit: `WireInv` (an answer on the
wire tells the truth, "accepted" being no more than that, and only a leg being
reversed asks for a reversal),
`LegInv` (what a goroutine has done by the time it is somewhere), `UndoneInv`
(nothing is reversed or booked back but by a rollback), `FiledInv` (a settlement
in the books was filed by a call that carries its key, from which the event of an
approved leg follows), `StatusInv` (what a final status says of the legs), and
the two properties that are inductive given these.
`UndoneInv` speaks of *some* leg with the same key: that is what stays true when
calls share keys, and with `KeysDistinct` it is the leg itself, from which
`ApprovedIsHonoured` follows.

*Promise.* The mapping takes the status, the plan, what the bank did for each
leg's key and which legs are booked without an error. Most steps of the engine
are stutters of the promise. The others are `Launch` (accepts), `PlanningFails`
(declines), the bank's steps (take, take back, return), the end of a recording (the
engine learns of a charge) and the four ways `Execute` goes on after its legs.
To see that each is allowed the proof needs `SagaInv` and one invariant more,
`PlanInv`: only legs of the plan run, forward while their call waits and
backward once it rolls back, even after it has ended. Distinct keys are used
twice: what a bank does for a leg is done to that leg's money alone, and a leg
about to be booked has not been reversed by another. `AllOrNothing` is proved of
the promise itself, so that the promise says what it was written to say;
`EngineIsAllOrNothing` puts the two together, which needs nothing more.

*Breaker in the engine.* `QuarantineOnlyDrains` and `OnlyQuarantineRefuses` are
about single steps, and their proofs are that of `BreakerInv`: a circuit in
quarantine is open and young, so that `Allow` returns false, and one that returns
false is open, young and at its threshold. Neither says anything of a leg between
its admission and its report, whose request may leave in quarantine.

*Stores.* `NonNegative` is not inductive: the commit looks at no balance. What
makes it safe is that each row it changes is still locked by this transaction
alone, and still covers the delta that its `UPDATE` found covered (`LockHolds`),
whether its caller still waits or has left;
that the row is still active is the same argument and gives `InactiveUntouched`.
`Progress` ties rows and answers to where the request is. The proof needs no
type for amounts: the sum that is committed is the very expression that was
compared with zero. The driver matters: with the store in memory `NonNegative`
is false without a bound on what is asked for, as `accounts_overflow` shows.

*Legs.* What a transfer asks for adds up to nothing (`SoundOp`). For a transfer
between two accounts that is plain; for a distribution it is an induction over
the loop of `computeDistribution`. What is left after each iteration
(`LeftAfterFacts`) stays natural and falls until it is zero, because every share
is positive and at most what is left (`ShareBounds`); the shares are its
differences, and `Telescope` adds them up to the amount that the clearing account
pays. From this and from what a transaction has found (`Fits`) follows
`AmountInv`: balances are integers within the word, and so are the sums that
will be committed, which are those of all legs once the `UPDATE`s are over.

*Transfers.* Most steps are stutters of the promise: only submitting, being
turned away, `MemorySettle`, `Commit`, `LateCommit` and every way for a
transaction to end without effect show. The outcome is open as long as the
transaction is: a caller that has left with an error has been told nothing of it,
so `Leave` is a stutter, `LateCommit` settles and `Drop` refuses. A commit changes the balances of the locked rows; `AmountInv` says that these are
all the legs, `SoundOp` that the other accounts have no delta, and `LockHolds`
that every debit is covered. The store in memory adds with wrap-around and is a
transfer only as long as nothing wraps. `RoomFor` is a condition on the constants
alone under which nothing can: the most an account holds, plus the largest amount
times the number of requests, fits a word. `RoomInv` is its invariant: a balance
is never further from zero than what was held and what the transfers that have
happened can have moved. With 2^63 the condition is far from any real amount;
that it is needed is what `accounts_overflow` shows, and Postgres needs none.
`MoneyAlwaysConserved` then follows from the promise: a transfer's change adds up
to nothing, and the sum of sums is the sum (`SumPlus`).

*Planner.* The positions visited are a prefix of the stable order, which are the
assets before the next one (`Before` is a total order of the list, so that the
sorted list exists and is unique). `LoopInv` says that these have given their
fair shares, the others nothing, and that what remains is what they could not
give; appending a leg adds its amount to the plan's sum and to its asset's share
only (`AppendLeg`).

*Induction.* The prover cannot apply the library's induction theorems. Every
induction here is by a smallest counterexample instead: a set of natural numbers
that is not empty has a least element (`LeastNat`, from the library's `WFMin`), a
set of finite sets one that has no member smaller by one element (`SmallestSet`).
`SumFunctionOnSet` is a recursive function chosen by its equation; that one
exists is the first such induction (`TableExists`), and all that is used of sums
rests on it.

*Pool.* `FreeIsClean` is not inductive: that a connection is clean when it is put
back depends on what its goroutine has asked and read. `PoolInv` says where each
conversation is: a connection belongs to one goroutine or to the pool
(`Ownership`); a goroutine has run no more statements than its place says
(`Progress`); and on a connection that works, the goroutine's place tells the
session's status and what is under way (`Talk`): nothing (between two queries),
the query just asked (`Unanswered`), or its answer, whole or without what is
already read (`Answered`); `Greeted` says this of the start-up. A conversation
whose goroutine is gone can only be one whose connection is not up; for it
`Sending` keeps what `OutcomesAreTrue` needs: a `COMMIT` still to be executed is
of a goroutine that has run every statement. The proof has a lemma per way of
moving: a goroutine goes on with its connection, takes one, leaves it, the
server answers, the clock or the network acts.

*Start-up.* What a session was asked last, and the answer, tell how far the
schema is and what the session holds (`Stage`), sessions of crashed instances
included; whoever has inserted the first row seeds alone, because its key is
unique and rows are inserted in order (`OneSeeds`). From the two follow that the
demo data is committed once and as a whole, and that who finds it has all of it.

Only model-checked: liveness (`NoProviderShutOut`, `EveryCallReturns`,
`EveryRequestAnswered`, `EveryCallEnds`, `BrokenLeaves`, `AllServe`), because the
prover handles neither fairness nor ENABLED. Every other property that a passing
run checks is a theorem.

## 6. Not modelled

Bodies, headers, signatures and tracing of HTTP requests; the account
information client, ISO 20022 and JWS helpers, which the running program does
not call; identifiers (taken to be distinct); static pages, deployment files and
the `.proto`. The publisher side of the outbox has no caller. A crash of the
process loses the engine's ledger, outbox and running Sagas; nothing of them is
recovered, so there is no recovery to specify, and only the start-up over
Postgres, which outlives a crash, models one. Of the driver: how rows, arguments
and DSNs are encoded, and the digests of a password. Of the accounts: the
listings, which change nothing; the list of accounts and their total are two
reads (`api/router.go:102`) whose answer promises no snapshot. Configuration is
read once, before anything runs.

## 7. Plan

1. The outbox with an external publisher (fetch, publish, mark: at least once),
   when the program has one.
2. Proofs: that what the promise of `Transfers` allows keeps the ledger's double
   entries balanced, should the entries' amounts be modelled; a bound on how far
   the driver's session and its reader can be apart.
