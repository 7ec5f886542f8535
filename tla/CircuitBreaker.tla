--------------------------- MODULE CircuitBreaker ---------------------------
(***************************************************************************)
(* The per-provider circuit breaker of internal/orchestrator/              *)
(* circuitbreaker.go: its three maps and the two operations that touch     *)
(* them, each of which runs under the breaker's mutex and is therefore one *)
(* atomic step.  BreakerCalls composes it with the calls it guards alone,  *)
(* Saga with the legs of payments.                                         *)
(*                                                                         *)
(* Data abstraction.  The code only ever compares failures[p] with the     *)
(* threshold and the time since openSince[p] with openDuration, so both    *)
(* saturate at the value they are compared with: failures[p] at            *)
(* FailureThreshold, openAge[p] (= time.Since(openSince[p]), in ticks of a *)
(* discrete clock) at OpenDuration.                                        *)
(***************************************************************************)
EXTENDS Naturals

CONSTANTS
    Provider,           \* names of the banks calls are made to
    FailureThreshold,   \* bad results in a row that open a circuit
    OpenDuration        \* ticks an open circuit refuses every call

\* NewCircuitBreaker replaces a threshold <= 0 by 3 and a zero duration by 5s.
ASSUME BreakerAssumption == /\ FailureThreshold \in Nat \ {0}
                            /\ OpenDuration \in Nat \ {0}

VARIABLES
    failures,   \* bad results since the last good one
    state,      \* "closed", "open" or "halfOpen"
    openAge     \* ticks since the circuit was last opened

breakerVars == <<failures, state, openAge>>

BreakerState == {"closed", "open", "halfOpen"}

BreakerTypeOK ==
    /\ failures \in [Provider -> 0 .. FailureThreshold]
    /\ state \in [Provider -> BreakerState]
    /\ openAge \in [Provider -> 0 .. OpenDuration]

\* Empty maps: no failures, state closed; the zero time is older than any
\* open duration.
BreakerInit ==
    /\ failures = [p \in Provider |-> 0]
    /\ state = [p \in Provider |-> "closed"]
    /\ openAge = [p \in Provider |-> OpenDuration]

-----------------------------------------------------------------------------
(***************************************************************************)
(* Operations.                                                             *)
(***************************************************************************)
\* Mutant: the open duration ends one tick early.
AdmitsEarly(p) == state[p] = "open" => openAge[p] + 1 >= OpenDuration

\* Mutant: a half-open circuit waits for the answer of its one probe.
AdmitsOneProbe(p) ==
    state[p] # "closed" => state[p] = "open" /\ openAge[p] >= OpenDuration

Admits(p) == state[p] = "open" => openAge[p] >= OpenDuration

\* Allow(p) returning true: the first call after the open duration turns the
\* circuit half-open; a half-open circuit admits every further call as well.
Allow(p) ==
    /\ Admits(p)
    /\ state' = [state EXCEPT ![p] = IF @ = "open" THEN "halfOpen" ELSE @]
    /\ UNCHANGED <<failures, openAge>>

\* Mutant: the circuit turns half-open before the clock is looked at.
RefuseHalfOpening(p) ==
    /\ ~ Admits(p)
    /\ state' = [state EXCEPT ![p] = "halfOpen"]
    /\ UNCHANGED <<failures, openAge>>

\* Mutant: a refused call counts as a failure of the provider.
RefuseRearming(p) ==
    /\ ~ Admits(p)
    /\ openAge' = [openAge EXCEPT ![p] = 0]
    /\ UNCHANGED <<failures, state>>

\* Allow(p) returning false changes nothing.
Refuse(p) ==
    /\ ~ Admits(p)
    /\ UNCHANGED breakerVars

\* Mutant: a bad result is counted twice, as an error and as slow.
TwoMoreFailures(n) == IF n < FailureThreshold THEN n + 2 ELSE n

OneMoreFailure(n) == IF n < FailureThreshold THEN n + 1 ELSE n

Trips(p) == state[p] = "halfOpen" \/ OneMoreFailure(failures[p]) >= FailureThreshold

\* RecordResult with an error, or with a latency above the threshold.
RecordBad(p) ==
    /\ failures' = [failures EXCEPT ![p] = OneMoreFailure(@)]
    /\ state' = [state EXCEPT ![p] = IF Trips(p) THEN "open" ELSE @]
    /\ openAge' = [openAge EXCEPT ![p] = IF Trips(p) THEN 0 ELSE @]

\* Mutant: the circuit closes and the count stays.
RecordGoodKeepingCount(p) ==
    /\ state' = [state EXCEPT ![p] = "closed"]
    /\ UNCHANGED <<failures, openAge>>

\* RecordResult with a quick success: the circuit closes whatever its state
\* was, an open one included.
RecordGood(p) ==
    /\ failures' = [failures EXCEPT ![p] = 0]
    /\ state' = [state EXCEPT ![p] = "closed"]
    /\ UNCHANGED openAge

\* One tick of the clock every openSince is compared with.
Age(n) == IF n < OpenDuration THEN n + 1 ELSE n

Tick ==
    /\ \E p \in Provider : openAge[p] < OpenDuration
    /\ openAge' = [p \in Provider |-> Age(openAge[p])]
    /\ UNCHANGED <<failures, state>>

-----------------------------------------------------------------------------
(***************************************************************************)
(* What the maps say to each other.                                        *)
(***************************************************************************)

(* The failure count and the state agree: a circuit is closed exactly when *)
(* fewer than FailureThreshold bad results came since the last good one    *)
(* (RecordResult updates them together, Allow moves only between the two   *)
(* states in which the count is at the threshold).                         *)
CountMatchesState ==
    \A p \in Provider : state[p] = "closed" <=> failures[p] < FailureThreshold

(* The quarantine of a failing provider lasts OpenDuration: while the      *)
(* threshold is reached and the circuit was opened less than OpenDuration  *)
(* ago it is open, hence refuses every call.  A late bad result may restart *)
(* the quarantine and only a success ends it early.                        *)
QuarantineHolds ==
    \A p \in Provider :
        failures[p] = FailureThreshold /\ openAge[p] < OpenDuration => state[p] = "open"

(* The strengthening that makes the two inductive: a half-open circuit is  *)
(* one whose open duration has passed.                                     *)
BreakerInv ==
    /\ CountMatchesState
    /\ \A p \in Provider : state[p] = "halfOpen" => openAge[p] = OpenDuration
=============================================================================
