------------------------------ MODULE Accounts ------------------------------
(***************************************************************************)
(* The accounts half of the orchestrator: the service over the store that  *)
(* main.go chose at start-up, and the promise of Transfers it implements.  *)
(***************************************************************************)
EXTENDS PostgresStore

CONSTANTS
    Start,      \* stores a run begins with: their driver and their balances
    Toggled     \* bound: the accounts an operator may switch on and off

ASSUME StartAssumption ==
    /\ \A s \in Start : /\ s.driver \in {"memory", "postgres"}
                        /\ s.balance \in [Account -> Int]
                        /\ \A a \in Account : InRange(s.balance[a])
                        /\ \A a \in Account \ {Clearing} : s.balance[a] >= 0
    /\ Toggled \subseteq Account

vars == storeVars

Init ==
    /\ \E s \in Start : driver = s.driver /\ balance = s.balance
    /\ active = [a \in Account |-> TRUE]
    /\ rows = [r \in Request |-> {}]
    /\ phase = [r \in Request |-> "new"]
    /\ op = [r \in Request |-> NoOp]
    /\ answer = [r \in Request |-> "none"]
    /\ leg = [r \in Request |-> 0]

StoreStep(r) ==
    \/ MemoryStep(r) /\ UNCHANGED leg
    \/ PostgresStep(r)

AllAnswered ==
    /\ \A r \in Request : phase[r] = "done"
    /\ UNCHANGED vars

Next ==
    \/ \E r \in Request : \/ ServiceStep(r) /\ UNCHANGED leg
                          \/ StoreStep(r)
                          \/ PostgresFault(r)
    \/ \E a \in Toggled : Toggle(a)
    \/ AllAnswered

Spec == Init /\ [][Next]_vars

\* The goroutine of a request and its transaction go on, and the server
\* breaks deadlocks and ends a transaction whose client has gone, one way or
\* the other; nobody has to send a request, fail or switch an account.
FairSpec == Spec /\ \A r \in Request : WF_vars(StoreStep(r))

-----------------------------------------------------------------------------
Phase == {"new", "store", "commit", "committed", "orphan", "inDoubt", "done"} \cup Row

TypeOK ==
    /\ driver \in {"memory", "postgres"}
    /\ balance \in [Account -> Int] /\ \A a \in Account : InRange(balance[a])
    /\ active \in [Account -> BOOLEAN]
    /\ rows \in [Request -> SUBSET Row]
    /\ phase \in [Request -> Phase]
    /\ \A r \in Request :
        /\ op[r].delta \in [Account -> Int]
        /\ op[r].order \in Seq(Account) /\ leg[r] \in 0 .. Len(op[r].order)
    /\ answer \in [Request -> {"none", "settled", "refused", "error"}]

(* Only the clearing account is ever overdrawn (domain.go:101-104), however *)
(* many transfers that could each be covered race for the same balance     *)
(* (repository.go:54-58).                                                  *)
NonNegative == \A a \in Account \ {Clearing} : balance[a] >= 0

(* The legs of a submitted transfer add up to nothing, name no account     *)
(* twice and leave none without a change, so that the rejection of         *)
(* unbalanced legs (memory_repository.go:181) never strikes and the        *)
(* rounding of a distribution loses nothing (service.go:218-220).          *)
LegsAddUp ==
    \A r \in Request : op[r] # NoOp =>
        /\ SumFunction(op[r].delta) = 0
        /\ IsInjective(op[r].order)
        /\ \A a \in Account : a \in ToSet(op[r].order) <=> op[r].delta[a] # 0

(* The caller is told what happened: a request that returned a transfer    *)
(* left its record, and one that was turned away for a reason left no row, *)
(* now or later; Postgres keeps all the rows of a transfer or none         *)
(* (postgres_repository.go:229-233).  Only an error of the database leaves *)
(* the caller in doubt, since the COMMIT may have been executed by then or *)
(* be executed later (postgres_repository.go:354).                         *)
AnswersAreTrue ==
    \A r \in Request :
        /\ answer[r] = "settled" => "transfer" \in rows[r]
        /\ answer[r] = "refused" => rows[r] = {}
        /\ driver = "postgres" => rows[r] \in {{}, Row}

\* Where a request is, what it has committed and what it has answered.
Progress(r) ==
    /\ phase[r] = "new" => leg[r] = 0
    /\ phase[r] = "committed" => driver = "postgres" /\ rows[r] = Row
    /\ phase[r] \notin {"committed", "done"} => rows[r] = {}
    /\ phase[r] \in {"orphan", "inDoubt"} => answer[r] = "error"
    /\ phase[r] \notin {"orphan", "inDoubt", "done"} => answer[r] = "none"

\* A row is locked by one transaction, stays active, and covers its leg.
LockHolds(r, a) ==
    /\ \A q \in Request : a \in Locked(q) => q = r
    /\ active[a]
    /\ a = Clearing \/ balance[a] + op[r].delta[a] >= 0

(* Why the stores are right: what a request has committed and answered     *)
(* fits where it is; a transaction keeps what its UPDATEs found of their   *)
(* rows until it ends (postgres_repository.go:254-286), however many of    *)
(* them interleave; the store in memory has no inactive account; and       *)
(* balances in Postgres stay covered.                                      *)
StoreInv ==
    /\ AnswersAreTrue
    /\ \A r \in Request : Progress(r)
    /\ \A r \in Request : \A a \in Locked(r) : LockHolds(r, a)
    /\ driver = "memory" => \A a \in Account : active[a]
    /\ driver = "postgres" => NonNegative

(* An inactive account is not touched by a transfer that the service let   *)
(* through while the account was active (postgres_repository.go:263).      *)
InactiveUntouched ==
    [][\A a \in Account : ~ active[a] => balance'[a] = balance[a]]_vars

(* No step makes or loses money: what users gain the clearing account      *)
(* owes (domain.go:95-104), whatever is rounded, fails or races.           *)
MoneyConserved == [][SumFunction(balance') = SumFunction(balance)]_vars

(* Opposite transfers that lock each other's rows, locks that outlive      *)
(* their caller, accounts switched off and on, and full balances           *)
(* notwithstanding, ExecuteTransfer returns.                               *)
EveryRequestAnswered ==
    \A r \in Request : phase[r] = "store" ~> answer[r] # "none"

(* No two batches of ledger entries are committed under one idempotency    *)
(* key, which README.md:104-108 says the unique constraint of the key      *)
(* enforces.                                                               *)
OneBatchPerKey ==
    \A r, q \in Request :
        r # q /\ KeyOf[r] = KeyOf[q] => "entries" \notin rows[r] \cap rows[q]

-----------------------------------------------------------------------------
\* The refinement mapping: whether a transfer settles is open as long as its
\* transaction is, whatever the caller has been told.
Outcome(r) ==
    IF "transfer" \in rows[r] THEN "settled"
    ELSE IF phase[r] = "done" THEN "refused"
    ELSE IF phase[r] = "new" THEN "none"
    ELSE "asked"

ChangeOf == [r \in Request |-> op[r].delta]
OutcomeOf == [r \in Request |-> Outcome(r)]

Promise == INSTANCE Transfers WITH change <- ChangeOf, outcome <- OutcomeOf

(* Both stores keep the promise of Transfers: money moves once, for all    *)
(* the accounts of a transfer, and the balances and the transfer record    *)
(* become visible together (README.md:114-117).                            *)
KeepsPromise == Promise!Spec
=============================================================================
