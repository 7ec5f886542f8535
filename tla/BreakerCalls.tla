---------------------------- MODULE BreakerCalls ----------------------------
(***************************************************************************)
(* The circuit breaker together with the concurrent calls it guards, as    *)
(* Executor.executeLeg makes them: Allow, then the call itself with no     *)
(* lock held, then RecordResult.  A call that was admitted may be in       *)
(* flight while others trip, probe or close the same circuit, and its      *)
(* result arrives in whatever state the circuit is in by then.             *)
(***************************************************************************)
EXTENDS CircuitBreaker

CONSTANT Caller     \* goroutines that execute legs

VARIABLE call       \* the provider a caller has a call in flight to, or NoCall

NoCall == "none"

ASSUME CallerAssumption == NoCall \notin Provider

vars == <<failures, state, openAge, call>>

TypeOK ==
    /\ BreakerTypeOK
    /\ call \in [Caller -> Provider \cup {NoCall}]

Init ==
    /\ BreakerInit
    /\ call = [c \in Caller |-> NoCall]

-----------------------------------------------------------------------------
Begin(c, p) ==
    /\ call[c] = NoCall
    /\ Allow(p)
    /\ call' = [call EXCEPT ![c] = p]

\* The leg fails at once and reports nothing to the breaker.
TurnedAway(c, p) ==
    /\ call[c] = NoCall
    /\ Refuse(p)
    /\ UNCHANGED call

Succeed(c) ==
    /\ call[c] # NoCall
    /\ RecordGood(call[c])
    /\ call' = [call EXCEPT ![c] = NoCall]

\* An error of the bank or of the ledger, or an answer slower than the
\* latency threshold.
FailOrSlow(c) ==
    /\ call[c] # NoCall
    /\ RecordBad(call[c])
    /\ call' = [call EXCEPT ![c] = NoCall]

\* ResolvePIS or ResolveAccountRef fails after Allow: executeLeg returns
\* without telling the breaker, even when this call was the probe that
\* turned the circuit half-open.
Abandon(c) ==
    /\ call[c] # NoCall
    /\ call' = [call EXCEPT ![c] = NoCall]
    /\ UNCHANGED breakerVars

Clock ==
    /\ Tick
    /\ UNCHANGED call

Next ==
    \/ \E c \in Caller :
          \/ \E p \in Provider : Begin(c, p) \/ TurnedAway(c, p)
          \/ Succeed(c)
          \/ FailOrSlow(c)
          \/ Abandon(c)
    \/ Clock

Spec == Init /\ [][Next]_vars

\* Time passes.
Fairness == WF_vars(Clock)

FairSpec == Spec /\ Fairness

-----------------------------------------------------------------------------
(***************************************************************************)
(* Properties.                                                             *)
(***************************************************************************)

(* No provider is shut out for good: an open circuit becomes willing to    *)
(* admit a call again.  Every bad result of a call that was in flight when *)
(* the circuit opened restarts the open duration; because an open circuit  *)
(* admits no new call and a refused leg reports nothing, only finitely     *)
(* many of them can.                                                       *)
NoProviderShutOut ==
    \A p \in Provider : (state[p] = "open") ~> Admits(p)

(* An answer that was asked for before the circuit opened is the only way  *)
(* out of quarantine: while the circuit is open and its duration has not   *)
(* passed, no step starts a call to the provider, and the step that ends   *)
(* the quarantine early ends a call that was in flight.                    *)
QuarantineEndsByAnAnswer ==
    [][\A p \in Provider :
          state[p] = "open" /\ ~ Admits(p) =>
              /\ \A c \in Caller : call'[c] = p => call[c] = p
              /\ state'[p] # "open" => \E c \in Caller : call[c] = p /\ call'[c] = NoCall]_vars
=============================================================================
