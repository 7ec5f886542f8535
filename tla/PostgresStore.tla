--------------------------- MODULE PostgresStore ---------------------------
(***************************************************************************)
(* PostgresStore.ExecuteTransfer of accounts/postgres_repository.go: one   *)
(* SQL transaction, one step per statement.  The server is external; what  *)
(* it does is what the statements rely on: read committed, a row lock from *)
(* an UPDATE to the end of its transaction, constraints, deadlock victims, *)
(* and a connection that may break at any time.  Nobody else can see a row *)
(* a transaction has updated, nor update it, so the balances it will       *)
(* commit are the committed ones plus its deltas.                          *)
(***************************************************************************)
EXTENDS MemoryStore

VARIABLE
    leg         \* the legs a request's transaction has applied

storeVars == <<serviceVars, leg>>

Row == {"entries", "transfer", "event"}

\* A request's goroutine works on its transaction; or it has left with an
\* error, and its transaction is still open at the server, which has or has
\* not been sent the COMMIT.
Attended(r) == driver = "postgres" /\ phase[r] \in {"store", "commit"} \cup Row
Left(r) == driver = "postgres" /\ phase[r] \in {"orphan", "inDoubt"}
InTransaction(r) == Attended(r) \/ Left(r)

\* The rows of accounts that r's transaction has locked, and who else may lock a.
Locked(r) == IF InTransaction(r) THEN {op[r].order[i] : i \in 1 .. leg[r]} ELSE {}
Free(a) == \A q \in Request : a \notin Locked(q)

\* Between two legs, and the account of the next one.
HasLeg(r) == driver = "postgres" /\ phase[r] = "store" /\ leg[r] < Len(op[r].order)
NextAccount(r) == op[r].order[leg[r] + 1]

\* Mutant: the UPDATE trusts what the service has read of the account.
MatchesStale(r) ==
    LET a == NextAccount(r) IN
    (leg[r] = 0 => Balanced(op[r])) /\ (a = Clearing \/ balance[a] + op[r].delta[a] >= 0)

\* WHERE id = $3 AND is_active = true AND (balance_minor + $1 >= 0 OR ...)
Matches(r) ==
    LET a == NextAccount(r) IN
    /\ leg[r] = 0 => Balanced(op[r])
    /\ active[a]
    /\ a = Clearing \/ balance[a] + op[r].delta[a] >= 0

\* Mutant: one more than a bigint holds.
FitsOneMore(r) == balance[NextAccount(r)] + op[r].delta[NextAccount(r)] \in -Limit .. Limit

\* The sum is a bigint.
Fits(r) == InRange(balance[NextAccount(r)] + op[r].delta[NextAccount(r)])

-----------------------------------------------------------------------------
\* Mutant: another transaction's lock does not keep the UPDATE waiting.
UpdateUnlocked(r) ==
    /\ HasLeg(r) /\ Matches(r) /\ Fits(r)
    /\ leg' = [leg EXCEPT ![r] = @ + 1]
    /\ phase' = [phase EXCEPT ![r] = IF leg'[r] = Len(op[r].order) THEN "entries" ELSE "store"]
    /\ UNCHANGED <<driver, balance, active, rows, op, answer>>

\* Mutant: the last leg is taken for applied.
UpdateAllButLast(r) ==
    /\ HasLeg(r) /\ Matches(r) /\ Fits(r)
    /\ Free(NextAccount(r))
    /\ leg' = [leg EXCEPT ![r] = @ + 1]
    /\ phase' = [phase EXCEPT ![r] = IF leg'[r] + 1 = Len(op[r].order) THEN "entries" ELSE "store"]
    /\ UNCHANGED <<driver, balance, active, rows, op, answer>>

UpdateBalance(r) ==
    /\ HasLeg(r) /\ Matches(r) /\ Fits(r)
    /\ Free(NextAccount(r))
    /\ leg' = [leg EXCEPT ![r] = @ + 1]
    /\ phase' = [phase EXCEPT ![r] = IF leg'[r] = Len(op[r].order) THEN "entries" ELSE "store"]
    /\ UNCHANGED <<driver, balance, active, rows, op, answer>>

\* The transaction ends without effect and ExecuteTransfer returns an error.
RollBack(r, why) ==
    /\ phase' = [phase EXCEPT ![r] = "done"]
    /\ answer' = [answer EXCEPT ![r] = why]
    /\ UNCHANGED <<driver, balance, active, rows, op, leg>>

\* Mutant: a debit that is not covered is tried again until it is.
NoRowAgain(r) == HasLeg(r) /\ ~ active[NextAccount(r)] /\ RollBack(r, "refused")

\* The UPDATE finds no row that it could change; a second SELECT asks why.
NoRow(r) == HasLeg(r) /\ ~ Matches(r) /\ RollBack(r, "refused")

\* The server refuses to add: bigint out of range.
OutOfRange(r) == HasLeg(r) /\ Matches(r) /\ ~ Fits(r) /\ RollBack(r, "error")

\* UPDATEs that wait for each other in a circle: the server aborts one.
WaitsFor(r, q) == q # r /\ HasLeg(r) /\ Matches(r) /\ NextAccount(r) \in Locked(q)

DeadlockVictim(r) ==
    /\ \E S \in SUBSET Request :
        /\ r \in S
        /\ \A q \in S : \E p \in S : WaitsFor(q, p)
        /\ \A p \in S : \E q \in S : WaitsFor(q, p)
    /\ RollBack(r, "error")

\* A cancelled request, a broken connection or a server that restarts, and
\* the server has rolled back by the time the caller has its error.
Abort(r) == Attended(r) /\ RollBack(r, "error")

\* The same, and the server has not noticed: the transaction keeps its locks,
\* and a COMMIT that is on its way is not called back.
Leave(r) ==
    /\ Attended(r)
    /\ phase' = [phase EXCEPT ![r] = IF phase[r] = "commit" THEN "inDoubt" ELSE "orphan"]
    /\ answer' = [answer EXCEPT ![r] = "error"]
    /\ UNCHANGED <<driver, balance, active, rows, op, leg>>

\* The keys a batch has in ledger_entries, each made with the fresh
\* transaction identifier of its request.
EntryKeys(r) == {<<KeyOf[r], r, i>> : i \in DOMAIN op[r].order}
KeysTaken == UNION {EntryKeys(q) : q \in {p \in Request : "entries" \in rows[p]}}

\* Mutant: the rows are written outside the transaction.
InsertAtOnce(r, row, next) ==
    /\ driver = "postgres" /\ phase[r] = row
    /\ rows' = [rows EXCEPT ![r] = @ \cup {row}]
    /\ phase' = [phase EXCEPT ![r] = next]
    /\ UNCHANGED <<driver, balance, active, op, answer, leg>>

\* Seen by nobody before the commit; foreign keys take no lock that waits.
Insert(r, row, next) ==
    /\ driver = "postgres" /\ phase[r] = row
    /\ row = "entries" => EntryKeys(r) \cap KeysTaken = {}
    /\ phase' = [phase EXCEPT ![r] = next]
    /\ UNCHANGED <<driver, balance, active, rows, op, answer, leg>>

InsertEntries(r) == Insert(r, "entries", "transfer")
InsertTransfer(r) == Insert(r, "transfer", "event")
InsertEvent(r) == Insert(r, "event", "commit")

\* The server executes a COMMIT.
TakeEffect(r, next) ==
    /\ balance' = [a \in Account |->
            IF a \in Locked(r) THEN balance[a] + op[r].delta[a] ELSE balance[a]]
    /\ rows' = [rows EXCEPT ![r] = Row]
    /\ phase' = [phase EXCEPT ![r] = next]
    /\ UNCHANGED <<driver, active, op, answer, leg>>

\* Its answer is still on its way.
Commit(r) == driver = "postgres" /\ phase[r] = "commit" /\ TakeEffect(r, "committed")

\* The caller has had its error.
LateCommit(r) == driver = "postgres" /\ phase[r] = "inDoubt" /\ TakeEffect(r, "done")

\* The server finds that its client has gone, before any COMMIT came.
Drop(r) ==
    /\ Left(r)
    /\ phase' = [phase EXCEPT ![r] = "done"]
    /\ UNCHANGED <<driver, balance, active, rows, op, answer, leg>>

\* Mutant: an error of Commit is reported as a refusal of the transfer.
CommitFailsRefused(r) ==
    /\ phase[r] = "committed"
    /\ phase' = [phase EXCEPT ![r] = "done"]
    /\ answer' = [answer EXCEPT ![r] = "refused"]
    /\ UNCHANGED <<driver, balance, active, rows, op, leg>>

\* The answer to COMMIT is lost: Commit returns an error for a committed
\* transaction.
CommitFails(r) ==
    /\ phase[r] = "committed"
    /\ phase' = [phase EXCEPT ![r] = "done"]
    /\ answer' = [answer EXCEPT ![r] = "error"]
    /\ UNCHANGED <<driver, balance, active, rows, op, leg>>

CommitReturns(r) ==
    /\ phase[r] = "committed"
    /\ phase' = [phase EXCEPT ![r] = "done"]
    /\ answer' = [answer EXCEPT ![r] = "settled"]
    /\ UNCHANGED <<driver, balance, active, rows, op, leg>>

-----------------------------------------------------------------------------
\* What a transaction does by itself, and the server with one that was left.
PostgresStep(r) ==
    \/ UpdateBalance(r)
    \/ NoRow(r)
    \/ OutOfRange(r)
    \/ DeadlockVictim(r)
    \/ InsertEntries(r)
    \/ InsertTransfer(r)
    \/ InsertEvent(r)
    \/ Commit(r)
    \/ CommitReturns(r)
    \/ LateCommit(r)
    \/ Drop(r)

\* What may happen to it.
PostgresFault(r) == Abort(r) \/ Leave(r) \/ CommitFails(r)

\* An operator switches an account on or off with SQL.
Toggle(a) ==
    /\ driver = "postgres" /\ Free(a)
    /\ active' = [active EXCEPT ![a] = ~ @]
    /\ UNCHANGED <<driver, balance, rows, phase, op, answer, leg>>
=============================================================================
