---------------------------- MODULE MemoryStore ----------------------------
(***************************************************************************)
(* MemoryStore.ExecuteTransfer of accounts/memory_repository.go: the whole *)
(* of it runs under the store's mutex, so it is one step.  Balances are    *)
(* int64: Limit stands for 2^63.  The store keeps balances and transfer    *)
(* records, and neither ledger entries nor events, although repository.go  *)
(* (lines 19-23) says so of every store; nothing ever deactivates one of   *)
(* its accounts.                                                           *)
(***************************************************************************)
EXTENDS AccountsService

CONSTANT Limit      \* 2^63, for a smaller word

ASSUME LimitAssumption == Limit \in Nat \ {0}

\* Two's complement addition.
Wrap(x) == ((x + Limit) % (2 * Limit)) - Limit
InRange(x) == x \in -Limit .. Limit - 1

\* The check both stores begin with.
Balanced(o) == Wrap(SumFunction(o.delta)) = 0

\* Mutant: a debit is let through without asking what the account holds.
CoveredUnchecked(o) ==
    \A a \in ToSet(o.order) : o.delta[a] < 0 => active[a]

\* Every account to be debited is active and holds enough.
Covered(o) ==
    \A a \in ToSet(o.order) : o.delta[a] < 0 =>
        active[a] /\ (a = Clearing \/ Wrap(balance[a] + o.delta[a]) >= 0)

MemorySettle(r) ==
    /\ driver = "memory" /\ phase[r] = "store"
    /\ Balanced(op[r]) /\ Covered(op[r])
    /\ balance' = [a \in Account |->
            IF a \in ToSet(op[r].order) THEN Wrap(balance[a] + op[r].delta[a]) ELSE balance[a]]
    /\ rows' = [rows EXCEPT ![r] = {"transfer"}]
    /\ phase' = [phase EXCEPT ![r] = "done"]
    /\ answer' = [answer EXCEPT ![r] = "settled"]
    /\ UNCHANGED <<driver, active, op>>

MemoryRefuse(r) ==
    /\ driver = "memory" /\ phase[r] = "store"
    /\ ~ (Balanced(op[r]) /\ Covered(op[r]))
    /\ phase' = [phase EXCEPT ![r] = "done"]
    /\ answer' = [answer EXCEPT ![r] = "refused"]
    /\ UNCHANGED <<driver, balance, active, rows, op>>

MemoryStep(r) == MemorySettle(r) \/ MemoryRefuse(r)
=============================================================================
