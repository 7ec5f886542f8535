------------------------- MODULE BreakerCallsProofs -------------------------
(***************************************************************************)
(* The breaker and the calls it guards, for any number of providers and    *)
(* callers, any threshold and any open duration.                           *)
(***************************************************************************)
EXTENDS BreakerCalls, CircuitBreakerProofs

Inv == TypeOK /\ BreakerInv

LEMMA InitInv == Init => Inv
  BY BreakerInitGood DEF Init, Inv, TypeOK, BreakerGood

LEMMA NextInv == Inv /\ [Next]_vars => Inv'
<1> SUFFICES ASSUME Inv, [Next]_vars
             PROVE  Inv'
  OBVIOUS
<1> USE DEF Inv, TypeOK
<1>0. BreakerGood
  BY DEF BreakerGood
<1>1. ASSUME NEW c \in Caller, NEW p \in Provider, Begin(c, p)
      PROVE  Inv'
  BY <1>0, <1>1, AllowGood DEF Begin, BreakerGood
<1>2. ASSUME NEW c \in Caller, NEW p \in Provider, TurnedAway(c, p)
      PROVE  Inv'
  BY <1>0, <1>2, BreakerUnchangedGood DEF TurnedAway, Refuse, BreakerGood
<1>3. ASSUME NEW c \in Caller, Succeed(c)
      PROVE  Inv'
  <2>1. call[c] \in Provider
    BY <1>3 DEF Succeed
  <2> QED
    BY <1>0, <1>3, <2>1, RecordGoodGood DEF Succeed, BreakerGood
<1>4. ASSUME NEW c \in Caller, FailOrSlow(c)
      PROVE  Inv'
  <2>1. call[c] \in Provider
    BY <1>4 DEF FailOrSlow
  <2> QED
    BY <1>0, <1>4, <2>1, RecordBadGood DEF FailOrSlow, BreakerGood
<1>5. ASSUME NEW c \in Caller, Abandon(c)
      PROVE  Inv'
  BY <1>0, <1>5, BreakerUnchangedGood DEF Abandon, BreakerGood
<1>6. CASE Clock
  BY <1>0, <1>6, TickGood DEF Clock, BreakerGood
<1>7. CASE UNCHANGED vars
  BY <1>0, <1>7, BreakerUnchangedGood DEF vars, breakerVars, BreakerGood
<1> QED
  BY <1>1, <1>2, <1>3, <1>4, <1>5, <1>6, <1>7 DEF Next

(* The maps of the breaker always hold what the code declares, and the     *)
(* count of failures always agrees with the state (circuitbreaker.go).     *)
THEOREM BreakerAlwaysConsistent == Spec => [](TypeOK /\ BreakerInv)
<1>1. Inv => TypeOK /\ BreakerInv
  BY DEF Inv
<1> QED
  BY <1>1, InitInv, NextInv, PTL DEF Spec

(* However calls overlap, a provider that failed FailureThreshold times    *)
(* in a row is refused for OpenDuration unless a success arrives.          *)
THEOREM QuarantineAlwaysHolds == Spec => []QuarantineHolds
<1>1. Inv => QuarantineHolds
  BY GoodHoldsQuarantine DEF Inv, TypeOK, BreakerGood
<1> QED
  BY <1>1, InitInv, NextInv, PTL DEF Spec

(* A quarantine ends early only in a step in which a call that was in      *)
(* flight when it began has its answer recorded, and no call starts before *)
(* it ends.                                                                *)
THEOREM QuarantineEndsOnlyByAnAnswer == Spec => QuarantineEndsByAnAnswer
<1> DEFINE Step == \A p \in Provider :
          state[p] = "open" /\ ~ Admits(p) =>
              /\ \A c \in Caller : call'[c] = p => call[c] = p
              /\ state'[p] # "open" => \E c \in Caller : call[c] = p /\ call'[c] = NoCall
<1>1. Inv /\ [Next]_vars => [Step]_vars
  <2> SUFFICES ASSUME Inv, Next, NEW p \in Provider, state[p] = "open", ~ Admits(p)
               PROVE  /\ \A c \in Caller : call'[c] = p => call[c] = p
                      /\ state'[p] # "open" =>
                            \E c \in Caller : call[c] = p /\ call'[c] = NoCall
    OBVIOUS
  <2> USE CallerAssumption DEF Inv, TypeOK, BreakerTypeOK
  <2>1. ASSUME NEW c \in Caller, NEW q \in Provider, Begin(c, q)
        PROVE  /\ \A d \in Caller : call'[d] = p => call[d] = p
               /\ state'[p] = "open"
    <3>1. q # p
      BY <2>1 DEF Begin, Allow
    <3> QED
      BY <2>1, <3>1 DEF Begin, Allow
  <2>2. ASSUME NEW c \in Caller, NEW q \in Provider, TurnedAway(c, q)
        PROVE  UNCHANGED <<state, call>>
    BY <2>2 DEF TurnedAway, Refuse, breakerVars
  <2>3. ASSUME NEW c \in Caller, Succeed(c)
        PROVE  /\ \A d \in Caller : call'[d] = p => call[d] = p
               /\ state'[p] # "open" => call[c] = p /\ call'[c] = NoCall
    BY <2>3 DEF Succeed, RecordGood
  <2>4. ASSUME NEW c \in Caller, FailOrSlow(c)
        PROVE  /\ \A d \in Caller : call'[d] = p => call[d] = p
               /\ state'[p] # "open" => call[c] = p /\ call'[c] = NoCall
    BY <2>4 DEF FailOrSlow, RecordBad
  <2>5. ASSUME NEW c \in Caller, Abandon(c)
        PROVE  /\ \A d \in Caller : call'[d] = p => call[d] = p
               /\ state'[p] = "open"
    BY <2>5 DEF Abandon, breakerVars
  <2>6. CASE Clock
    BY <2>6 DEF Clock, Tick
  <2> QED
    BY <2>1, <2>2, <2>3, <2>4, <2>5, <2>6 DEF Next
<1> QED
  BY <1>1, InitInv, NextInv, PTL DEF Spec, QuarantineEndsByAnAnswer

(* The maps of the breaker keep their types, whoever calls it, in whatever *)
(* order (circuitbreaker.go:14-23).                                        *)
THEOREM BreakerTypes == Spec => []TypeOK
  BY BreakerAlwaysConsistent, PTL
=============================================================================
