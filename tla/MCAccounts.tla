----------------------------- MODULE MCAccounts -----------------------------
(* Small instances of the accounts: one user with two accounts, one of     *)
(* which respects a floor, another user with one, and the clearing account *)
(* of the system.                                                          *)
EXTENDS Accounts, TLC

CONSTANTS me, you, sys, cash, fund, yours, clearing, r1, r2, k1, k2

\* OwnerOf
Owners == cash :> me @@ fund :> me @@ yours :> you @@ clearing :> sys

\* KeyOf
FreshKeys == r1 :> k1 @@ r2 :> k2
SharedKey == r1 :> k1 @@ r2 :> k1

Store(d, b) == [driver |-> d, balance |-> b]
Modest == cash :> 2 @@ fund :> 1 @@ yours :> 0 @@ clearing :> 0
\* As Modest may become by distributions of 15 in all and transfers.
NearlyFull == cash :> 2 @@ fund :> 14 @@ yours :> 2 @@ clearing :> -15

\* Start
BothStores == {Store("memory", Modest), Store("postgres", Modest), Store("postgres", NearlyFull)}
MemoryModest == {Store("memory", Modest)}
PostgresModest == {Store("postgres", Modest)}
=============================================================================
