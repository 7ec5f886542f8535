--------------------------- MODULE MCBreakerCalls ---------------------------
(* BreakerCalls on two providers and three concurrent callers: enough for a *)
(* circuit to be tripped by two calls while a third is in flight.           *)
EXTENDS BreakerCalls
=============================================================================
