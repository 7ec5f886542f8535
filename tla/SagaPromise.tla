----------------------------- MODULE SagaPromise -----------------------------
(***************************************************************************)
(* The Saga engine implements PaymentPromise when every call has an        *)
(* idempotency key of its own.  A source's money is what its bank did for  *)
(* the leg's key; the engine knows of a charge once the leg has it booked  *)
(* and carries no error.                                                   *)
(***************************************************************************)
EXTENDS Saga

Outcome(st) ==
    CASE st = "AUTHORIZING"  -> "open"
      [] st = "ROLLING_BACK" -> "undoing"
      [] OTHER               -> st

Booked(l) ==
    /\ pc[l] \in {"report", "done", "reversing", "ccheck", "csave", "cdone"}
    /\ ~ legErr[l]

\* The promise's variables.
OutcomeOf == [t \in Tx |-> Outcome(status[t])]
MoneyOf == [l \in Leg |-> payment[KeyOfLeg(l)]]
KnownOf == [t \in Tx |-> {s \in Source : Booked(<<t, s>>)}]

Promise == INSTANCE PaymentPromise WITH
    outcome <- OutcomeOf, money <- MoneyOf, known <- KnownOf

(* Refinement: every step of the engine, of the banks and of the clock is  *)
(* a step of the promise or leaves it alone; in particular the engine      *)
(* asks for no reversal of a charge it does not know of or of an approved  *)
(* payment's (Execute, CompensateAll).                                     *)
KeepsPromise == Promise!Spec
=============================================================================
