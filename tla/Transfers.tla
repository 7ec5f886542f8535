----------------------------- MODULE Transfers -----------------------------
(***************************************************************************)
(* What a transfer promises its user, without a store: it is asked for as  *)
(* a change of balances that adds up to nothing, and it happens to all its *)
(* accounts at once or not at all, and never takes from an account more    *)
(* than it holds, except from the clearing account.                        *)
(***************************************************************************)
EXTENDS Integers, Functions

CONSTANTS Account, Clearing, Request

VARIABLES
    balance,    \* of an account
    change,     \* of each balance, that a request asks for
    outcome     \* of a request

vars == <<balance, change, outcome>>

Init ==
    /\ balance \in [Account -> Int]
    /\ change = [r \in Request |-> [a \in Account |-> 0]]
    /\ outcome = [r \in Request |-> "none"]

Ask(r) ==
    /\ outcome[r] = "none"
    /\ outcome' = [outcome EXCEPT ![r] = "asked"]
    /\ change' = [change EXCEPT ![r] = change'[r]]
    /\ SumFunction(change'[r]) = 0
    /\ UNCHANGED balance

Settle(r) ==
    /\ outcome[r] = "asked"
    /\ outcome' = [outcome EXCEPT ![r] = "settled"]
    /\ balance' = [a \in Account |-> balance[a] + change[r][a]]
    /\ \A a \in Account \ {Clearing} : change[r][a] < 0 => balance'[a] >= 0
    /\ UNCHANGED change

Refuse(r) ==
    /\ outcome[r] \in {"none", "asked"}
    /\ outcome' = [outcome EXCEPT ![r] = "refused"]
    /\ UNCHANGED <<balance, change>>

Next == \E r \in Request : Ask(r) \/ Settle(r) \/ Refuse(r)

Spec == Init /\ [][Next]_vars
=============================================================================
