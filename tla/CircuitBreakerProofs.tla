------------------------ MODULE CircuitBreakerProofs ------------------------
(***************************************************************************)
(* Every operation of the circuit breaker keeps its maps well typed and    *)
(* consistent.  The lemmas are about the operations alone, so that each    *)
(* specification that uses a breaker can cite them.                        *)
(***************************************************************************)
EXTENDS CircuitBreaker, TLAPS

(* What the breaker operations preserve. *)
BreakerGood == BreakerTypeOK /\ BreakerInv

(* The empty maps of NewCircuitBreaker are consistent. *)
LEMMA BreakerInitGood == BreakerInit => BreakerGood
  BY BreakerAssumption
     DEF BreakerInit, BreakerGood, BreakerTypeOK, BreakerInv, CountMatchesState, BreakerState

(* Allow: an open circuit turns half-open only when its time has passed. *)
LEMMA AllowGood ==
  ASSUME NEW p \in Provider, BreakerGood, Allow(p)
  PROVE  BreakerGood'
<1>1. BreakerTypeOK'
  BY DEF Allow, BreakerGood, BreakerTypeOK, BreakerState
<1>2. CountMatchesState'
  BY BreakerAssumption DEF Allow, BreakerGood, BreakerTypeOK, BreakerInv, CountMatchesState
<1>3. ASSUME NEW q \in Provider, state'[q] = "halfOpen"
      PROVE  openAge'[q] = OpenDuration
  BY <1>3, BreakerAssumption DEF Allow, Admits, BreakerGood, BreakerTypeOK, BreakerInv
<1> QED
  BY <1>1, <1>2, <1>3 DEF BreakerGood, BreakerInv

(* RecordResult after a bad result: the count reaches the threshold in the *)
(* step that opens the circuit, or the circuit was not closed before.      *)
LEMMA RecordBadGood ==
  ASSUME NEW p \in Provider, BreakerGood, RecordBad(p)
  PROVE  BreakerGood'
<1> USE BreakerAssumption DEF BreakerGood, BreakerTypeOK, BreakerInv, RecordBad,
                              OneMoreFailure, Trips
<1>1. BreakerTypeOK'
  BY DEF BreakerState
<1>2. CountMatchesState'
  BY DEF CountMatchesState, BreakerState
<1>3. ASSUME NEW q \in Provider, state'[q] = "halfOpen"
      PROVE  openAge'[q] = OpenDuration
  BY <1>3
<1> QED
  BY <1>1, <1>2, <1>3

(* RecordResult after a quick success, from whatever state. *)
LEMMA RecordGoodGood ==
  ASSUME NEW p \in Provider, BreakerGood, RecordGood(p)
  PROVE  BreakerGood'
  BY BreakerAssumption
     DEF BreakerGood, BreakerTypeOK, BreakerInv, CountMatchesState, BreakerState, RecordGood

(* The passing of time. *)
LEMMA TickGood ==
  ASSUME BreakerGood, Tick
  PROVE  BreakerGood'
  BY BreakerAssumption
     DEF BreakerGood, BreakerTypeOK, BreakerInv, CountMatchesState, Tick, Age

LEMMA BreakerUnchangedGood ==
  ASSUME BreakerGood, UNCHANGED breakerVars
  PROVE  BreakerGood'
  BY DEF BreakerGood, BreakerTypeOK, BreakerInv, CountMatchesState, breakerVars

(* A consistent breaker refuses every call to a provider whose quarantine  *)
(* has not passed.                                                         *)
LEMMA GoodHoldsQuarantine == BreakerGood => QuarantineHolds
  BY DEF BreakerGood, BreakerTypeOK, BreakerInv, CountMatchesState, BreakerState, QuarantineHolds
=============================================================================
