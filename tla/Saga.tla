-------------------------------- MODULE Saga --------------------------------
(***************************************************************************)
(* The Saga engine behind POST /v1/payments/authorize: AuthorizePayment    *)
(* (orchestrator/service.go), the Executor that runs the legs of a plan as *)
(* concurrent goroutines (executor.go), the RollbackHandler that reverses  *)
(* the legs that settled when another failed (rollback.go), the ledger's   *)
(* two recording methods (ledger/service.go), on top of the circuit        *)
(* breaker, the banks and the ledger store.  Several calls run at once.    *)
(*                                                                         *)
(* A leg's goroutine is a program counter:                                 *)
(*                                                                         *)
(*   idle -> ready -> admitted -> sent -> check -> save -> enqueue         *)
(*        -> report -> done -> reversing -> ccheck -> csave -> cdone         *)
(*                                                                         *)
(* An atomic step is one access to shared state (the breaker, the wire,    *)
(* the ledger store) and the local computation up to the next one.         *)
(* Amounts are abstracted: a leg is paid, reversed and booked as a whole.  *)
(***************************************************************************)
EXTENDS CircuitBreaker, Ledger

CONSTANTS
    ProviderOf,     \* the bank that holds a source
    Connected,      \* providers with a registered PIS connection
    Referenced,     \* sources with a registered account reference
    LedgerMayFail   \* whether the Repository or Outbox behind the ledger
                    \* service may return an error (the in-memory ones do not)

ASSUME SagaAssumption ==
    /\ ProviderOf \in [Source -> Provider]
    /\ Connected \subseteq Provider
    /\ Referenced \subseteq Source
    /\ LedgerMayFail \in BOOLEAN

VARIABLES
    status,     \* Transaction.Status; "none" before the call
    plan,       \* sources of Transaction.ExecutionPlan
    pc,         \* where the goroutine of a leg is
    legStatus,  \* SplitLeg.Status
    legErr,     \* executeLeg returned an error
    compErr     \* compensateLeg returned an error

legVars == <<pc, legStatus, legErr, compErr>>
txVars == <<status, plan>>
vars == <<breakerVars, bankVars, ledgerVars, txVars, legVars>>

LegPC == {"idle", "ready", "admitted", "sent", "check", "save", "enqueue", "report", "done",
          "reversing", "ccheck", "csave", "cdone"}

Final == {"APPROVED", "ROLLED_BACK", "FAILED"}
TxStatus == {"none", "AUTHORIZING", "ROLLING_BACK"} \cup Final

TypeOK ==
    /\ BreakerTypeOK
    /\ BankTypeOK
    /\ LedgerTypeOK
    /\ status \in [Tx -> TxStatus]
    /\ plan \in [Tx -> SUBSET Source]
    /\ pc \in [Leg -> LegPC]
    /\ legStatus \in [Leg -> {"PENDING", "SETTLED", "FAILED"}]
    /\ legErr \in [Leg -> BOOLEAN]
    /\ compErr \in [Leg -> BOOLEAN]

Init ==
    /\ BreakerInit
    /\ BankInit
    /\ LedgerInit
    /\ status = [t \in Tx |-> "none"]
    /\ plan = [t \in Tx |-> {}]
    /\ pc = [l \in Leg |-> "idle"]
    /\ legStatus = [l \in Leg |-> "PENDING"]
    /\ legErr = [l \in Leg |-> FALSE]
    /\ compErr = [l \in Leg |-> FALSE]

PlanLegs(t) == {<<t, s>> : s \in plan[t]}
ProviderOfLeg(l) == ProviderOf[l[2]]
Resolves(l) == ProviderOfLeg(l) \in Connected /\ l[2] \in Referenced

Goto(l, where) == pc' = [pc EXCEPT ![l] = where]

-----------------------------------------------------------------------------
(***************************************************************************)
(* AuthorizePayment up to the launch of the legs.  INITIATED and PLANNING  *)
(* are passed in one step: nothing is shared before the first leg runs.    *)
(***************************************************************************)

\* GetUserAssets and BuildPlan succeed; a plan is never empty.
Launch(t, S) ==
    /\ status[t] = "none"
    /\ S # {}
    /\ status' = [status EXCEPT ![t] = "AUTHORIZING"]
    /\ plan' = [plan EXCEPT ![t] = S]
    /\ pc' = [l \in Leg |-> IF l \in {<<t, s>> : s \in S} THEN "ready" ELSE pc[l]]
    /\ UNCHANGED <<breakerVars, bankVars, ledgerVars, legStatus, legErr, compErr>>

\* GetUserAssets fails, the amount is not positive, or the funds do not
\* cover it.
PlanningFails(t) ==
    /\ status[t] = "none"
    /\ status' = [status EXCEPT ![t] = "FAILED"]
    /\ UNCHANGED <<breakerVars, bankVars, ledgerVars, plan, legVars>>

-----------------------------------------------------------------------------
(***************************************************************************)
(* The goroutine of a leg: executeLeg and initiateAndRecord.               *)
(***************************************************************************)
FailLeg(l, where) ==
    /\ legStatus' = [legStatus EXCEPT ![l] = "FAILED"]
    /\ legErr' = [legErr EXCEPT ![l] = TRUE]
    /\ Goto(l, where)
    /\ UNCHANGED compErr

\* Mutant: a refused leg waits for the circuit to let it through.
TurnedAwayToWait(l) ==
    /\ pc[l] = "ready"
    /\ Refuse(ProviderOfLeg(l))
    /\ UNCHANGED <<bankVars, ledgerVars, txVars, legVars>>

\* The breaker says no; it is told nothing of this leg.
TurnedAway(l) ==
    /\ pc[l] = "ready"
    /\ Refuse(ProviderOfLeg(l))
    /\ FailLeg(l, "done")
    /\ UNCHANGED <<bankVars, ledgerVars, txVars>>

\* Mutant: the breaker is not asked.
EnterUnasked(l) ==
    /\ pc[l] = "ready"
    /\ Goto(l, "admitted")
    /\ UNCHANGED <<breakerVars, bankVars, ledgerVars, txVars, legStatus, legErr, compErr>>

\* The breaker says yes.  It is unlocked before the leg goes on, and other
\* legs report to it in between.
Enter(l) ==
    /\ pc[l] = "ready"
    /\ Allow(ProviderOfLeg(l))
    /\ Goto(l, "admitted")
    /\ UNCHANGED <<bankVars, ledgerVars, txVars, legStatus, legErr, compErr>>

\* ResolvePIS or ResolveAccountRef fails: again the breaker is told nothing.
Unresolved(l) ==
    /\ pc[l] = "admitted"
    /\ ~ Resolves(l)
    /\ FailLeg(l, "done")
    /\ UNCHANGED <<breakerVars, bankVars, ledgerVars, txVars>>

\* The payment request goes out.
SendPayment(l) ==
    /\ pc[l] = "admitted"
    /\ Resolves(l)
    /\ wire' = wire \cup {Msg("pay", l)}
    /\ Goto(l, "sent")
    /\ UNCHANGED <<breakerVars, payment, ledgerVars, txVars, legStatus, legErr, compErr>>

\* Mutant: the error of InitiateForLeg is dropped.
PaymentFailsUnseen(l) ==
    /\ pc[l] = "sent"
    /\ legStatus' = [legStatus EXCEPT ![l] = "SETTLED"]
    /\ Goto(l, "check")
    /\ UNCHANGED <<breakerVars, bankVars, ledgerVars, txVars, legErr, compErr>>

\* InitiateForLeg returns an error: timeout, refusal, lost or bad answer.
PaymentFails(l) ==
    /\ pc[l] = "sent"
    /\ FailLeg(l, "report")
    /\ UNCHANGED <<breakerVars, bankVars, ledgerVars, txVars>>

\* InitiateForLeg returns the bank's reference: the leg is settled.
PaymentSettles(l) ==
    /\ pc[l] = "sent"
    /\ Msg("paid", l) \in wire
    /\ wire' = wire \ {Msg("paid", l)}
    /\ legStatus' = [legStatus EXCEPT ![l] = "SETTLED"]
    /\ Goto(l, "check")
    /\ UNCHANGED <<breakerVars, payment, ledgerVars, txVars, legErr, compErr>>

\* RecordSplitSettlement: a key that exists is taken for this leg's own
\* record, and there is nothing left to write.
CheckSettlement(l) ==
    /\ pc[l] = "check"
    /\ Goto(l, IF EntryExists(SettleKey(l)) THEN "report" ELSE "save")
    /\ UNCHANGED <<breakerVars, bankVars, ledgerVars, txVars, legStatus, legErr, compErr>>

\* Mutant: no event is enqueued.
SaveWithoutEvent(l) ==
    /\ pc[l] = "save"
    /\ SaveBatch(l[1], SettleKey(l))
    /\ Goto(l, "report")
    /\ UNCHANGED <<breakerVars, bankVars, txVars, legStatus, legErr, compErr>>

SaveSettlement(l) ==
    /\ pc[l] = "save"
    /\ SaveBatch(l[1], SettleKey(l))
    /\ Goto(l, "enqueue")
    /\ UNCHANGED <<breakerVars, bankVars, txVars, legStatus, legErr, compErr>>

EnqueueEvent(l) ==
    /\ pc[l] = "enqueue"
    /\ Enqueue(l)
    /\ Goto(l, "report")
    /\ UNCHANGED <<breakerVars, bankVars, txVars, legStatus, legErr, compErr>>

\* Mutant: the error of the ledger is dropped.
RecordingFailsUnseen(l) ==
    /\ LedgerMayFail
    /\ pc[l] \in {"check", "save", "enqueue"}
    /\ Goto(l, "report")
    /\ UNCHANGED <<breakerVars, bankVars, ledgerVars, txVars, legStatus, legErr, compErr>>

\* EntryExists, SaveBatch or Enqueue returns an error: executeLeg returns it
\* and the leg stays SETTLED.
RecordingFails(l) ==
    /\ LedgerMayFail
    /\ pc[l] \in {"check", "save", "enqueue"}
    /\ legErr' = [legErr EXCEPT ![l] = TRUE]
    /\ Goto(l, "report")
    /\ UNCHANGED <<breakerVars, bankVars, ledgerVars, txVars, legStatus, compErr>>

\* RecordResult with what initiateAndRecord returned and how long it took.
ReportResult(l) ==
    /\ pc[l] = "report"
    /\ \/ RecordBad(ProviderOfLeg(l))
       \/ ~ legErr[l] /\ RecordGood(ProviderOfLeg(l))
    /\ Goto(l, "done")
    /\ UNCHANGED <<bankVars, ledgerVars, txVars, legStatus, legErr, compErr>>

-----------------------------------------------------------------------------
(***************************************************************************)
(* Execute after wg.Wait: approve, or compensate the legs without an error.*)
(***************************************************************************)
Collected(t) ==
    /\ status[t] = "AUTHORIZING"
    /\ \A l \in PlanLegs(t) : pc[l] = "done"

Succeeded(t) == {l \in PlanLegs(t) : ~ legErr[l]}

\* Mutant: one leg without an error is enough.
ApproveInPart(t) ==
    /\ Collected(t)
    /\ Succeeded(t) # {}
    /\ status' = [status EXCEPT ![t] = "APPROVED"]
    /\ UNCHANGED <<breakerVars, bankVars, ledgerVars, plan, legVars>>

Approve(t) ==
    /\ Collected(t)
    /\ Succeeded(t) = PlanLegs(t)
    /\ status' = [status EXCEPT ![t] = "APPROVED"]
    /\ UNCHANGED <<breakerVars, bankVars, ledgerVars, plan, legVars>>

\* CompensateAll with nothing to compensate returns at once.
NothingToUndo(t) ==
    /\ Collected(t)
    /\ Succeeded(t) = {}
    /\ status' = [status EXCEPT ![t] = "ROLLED_BACK"]
    /\ UNCHANGED <<breakerVars, bankVars, ledgerVars, plan, legVars>>

\* Mutant: every leg of the plan is compensated, whether it succeeded or not.
RollBackPlan(t) ==
    /\ Collected(t)
    /\ Succeeded(t) \notin {{}, PlanLegs(t)}
    /\ status' = [status EXCEPT ![t] = "ROLLING_BACK"]
    /\ wire' = wire \cup {Msg("reverse", l) : l \in PlanLegs(t)}
    /\ pc' = [l \in Leg |-> IF l \in PlanLegs(t) THEN "reversing" ELSE pc[l]]
    /\ UNCHANGED <<breakerVars, payment, ledgerVars, plan, legStatus, legErr, compErr>>

\* CompensateAll starts a goroutine per leg, which asks for the reversal.
\* Its ResolvePIS finds what it found for the payment: registrations are
\* never removed.
RollBack(t) ==
    /\ Collected(t)
    /\ Succeeded(t) \notin {{}, PlanLegs(t)}
    /\ status' = [status EXCEPT ![t] = "ROLLING_BACK"]
    /\ wire' = wire \cup {Msg("reverse", l) : l \in Succeeded(t)}
    /\ pc' = [l \in Leg |-> IF l \in Succeeded(t) THEN "reversing" ELSE pc[l]]
    /\ UNCHANGED <<breakerVars, payment, ledgerVars, plan, legStatus, legErr, compErr>>

\* ReversePayment succeeds: 200 and 202 are the same to it.  SplitCompensated
\* is assigned to compensateLeg's own copy of the leg, so legStatus stays as
\* it is.
ReversalSettles(l) ==
    /\ pc[l] = "reversing"
    /\ \E k \in {"accepted", "reversed"} :
          /\ Msg(k, l) \in wire
          /\ wire' = wire \ {Msg(k, l)}
    /\ Goto(l, "ccheck")
    /\ UNCHANGED <<breakerVars, payment, ledgerVars, txVars, legStatus, legErr, compErr>>

\* ReversePayment fails: the compensation is recorded all the same, and the
\* error returned.
ReversalFails(l) ==
    /\ pc[l] = "reversing"
    /\ compErr' = [compErr EXCEPT ![l] = TRUE]
    /\ Goto(l, "ccheck")
    /\ UNCHANGED <<breakerVars, bankVars, ledgerVars, txVars, legStatus, legErr>>

\* RecordCompensation.
CheckCompensation(l) ==
    /\ pc[l] = "ccheck"
    /\ Goto(l, IF EntryExists(ReversalKey(l)) THEN "cdone" ELSE "csave")
    /\ UNCHANGED <<breakerVars, bankVars, ledgerVars, txVars, legStatus, legErr, compErr>>

SaveCompensation(l) ==
    /\ pc[l] = "csave"
    /\ SaveBatch(l[1], ReversalKey(l))
    /\ Goto(l, "cdone")
    /\ UNCHANGED <<breakerVars, bankVars, txVars, legStatus, legErr, compErr>>

\* Mutant: the error of the ledger is dropped.
CompensationRecordFailsUnseen(l) ==
    /\ LedgerMayFail
    /\ pc[l] \in {"ccheck", "csave"}
    /\ Goto(l, "cdone")
    /\ UNCHANGED <<breakerVars, bankVars, ledgerVars, txVars, legStatus, legErr, compErr>>

CompensationRecordFails(l) ==
    /\ LedgerMayFail
    /\ pc[l] \in {"ccheck", "csave"}
    /\ compErr' = [compErr EXCEPT ![l] = TRUE]
    /\ Goto(l, "cdone")
    /\ UNCHANGED <<breakerVars, bankVars, ledgerVars, txVars, legStatus, legErr>>

\* CompensateAll returns: an error of any leg makes the transaction FAILED.
ConcludeRollback(t) ==
    /\ status[t] = "ROLLING_BACK"
    /\ \A l \in Succeeded(t) : pc[l] = "cdone"
    /\ status' = [status EXCEPT ![t] =
                     IF \E l \in Succeeded(t) : compErr[l] THEN "FAILED" ELSE "ROLLED_BACK"]
    /\ UNCHANGED <<breakerVars, bankVars, ledgerVars, plan, legVars>>

-----------------------------------------------------------------------------
LegStep(l) ==
    \/ TurnedAway(l)
    \/ Enter(l)
    \/ Unresolved(l)
    \/ SendPayment(l)
    \/ PaymentFails(l)
    \/ PaymentSettles(l)
    \/ CheckSettlement(l)
    \/ SaveSettlement(l)
    \/ EnqueueEvent(l)
    \/ RecordingFails(l)
    \/ ReportResult(l)
    \/ ReversalSettles(l)
    \/ ReversalFails(l)
    \/ CheckCompensation(l)
    \/ SaveCompensation(l)
    \/ CompensationRecordFails(l)

CallStep(t) ==
    \/ Approve(t)
    \/ NothingToUndo(t)
    \/ RollBack(t)
    \/ ConcludeRollback(t)

\* handleAuthorizePayment of api/router.go calls the service.
ClientStep(t) ==
    \/ \E S \in SUBSET Source : Launch(t, S)
    \/ PlanningFails(t)

BankStep(l) ==
    /\ BankPays(l) \/ BankReverses(l) \/ BankAcceptsReversal(l) \/ BankGivesBack(l)
    /\ UNCHANGED <<breakerVars, ledgerVars, txVars, legVars>>

ClockStep ==
    /\ Tick
    /\ UNCHANGED <<bankVars, ledgerVars, txVars, legVars>>

\* Every call has returned.  What is left on the wire may stay there.
AllReturned ==
    /\ \A t \in Tx : status[t] \in Final
    /\ UNCHANGED vars

Next ==
    \/ \E t \in Tx : ClientStep(t) \/ CallStep(t)
    \/ \E l \in Leg : LegStep(l) \/ BankStep(l)
    \/ ClockStep
    \/ AllReturned

Spec == Init /\ [][Next]_vars

\* Goroutines are scheduled, and every wait of theirs ends: requests by a
\* timeout at the latest.  Banks and clients owe nothing.
Fairness ==
    /\ \A l \in Leg : WF_vars(LegStep(l))
    /\ \A t \in Tx : WF_vars(CallStep(t))

FairSpec == Spec /\ Fairness
-----------------------------------------------------------------------------
(***************************************************************************)
(* Properties.                                                             *)
(***************************************************************************)

\* No two calls carry the same idempotency key.
KeysDistinct == \A t, u \in Tx : KeyOf[t] = KeyOf[u] => t = u

(* APPROVED is true: the bank holds the payment of every leg of the plan,  *)
(* each is in the ledger and its event in the outbox, although either      *)
(* write may fail after the bank was paid, and no leg of it has a          *)
(* compensating entry (Execute, executor.go:94, RecordSplitSettlement,     *)
(* ledger/service.go:51-59).  Promised to calls with keys of their own.    *)
ApprovedIsHonoured ==
    \A t \in Tx : status[t] = "APPROVED" =>
        \A l \in PlanLegs(t) :
            /\ payment[KeyOfLeg(l)] = "settled"
            /\ SettleKey(l) \in entries
            /\ l \in outbox
            /\ ReversalKey(l) \notin entries

(* ROLLED_BACK says this much of every leg that executeLeg returned        *)
(* without an error: its bank has given the money back or has accepted to  *)
(* (200 or 202, pis.go:111), and the ledger holds the settlement and its   *)
(* reversal (Execute and CompensateAll, executor.go:82-92).                *)
RolledBackIsAcknowledged ==
    \A t \in Tx : status[t] = "ROLLED_BACK" =>
        \A l \in Succeeded(t) :
            /\ payment[KeyOfLeg(l)] \in TakenBack
            /\ {SettleKey(l), ReversalKey(l)} \subseteq entries

(* The ledger never runs ahead of the banks: a settlement is booked only   *)
(* for a payment the bank took on, a reversal only after its settlement,   *)
(* and a reversal the bank has neither performed nor accepted only by a    *)
(* leg whose compensation ends in an error (compensateLeg,                 *)
(* rollback.go:69-77).                                                     *)
BooksFollowTheBank ==
    \A l \in Leg :
        /\ SettleKey(l) \in entries => payment[KeyOfLeg(l)] # "none"
        /\ ReversalKey(l) \in entries =>
              /\ SettleKey(l) \in entries
              /\ \/ payment[KeyOfLeg(l)] \in TakenBack
                 \/ \E m \in Leg : KeyOfLeg(m) = KeyOfLeg(l) /\ compErr[m]

(* Outbox: an event tells of a batch that is in the ledger, and a leg that *)
(* wrote a batch and returned no error has enqueued its event, although    *)
(* the two writes are separate steps (RecordSplitSettlement,               *)
(* ledger/service.go:51-59).                                               *)
EventsMatchBatches ==
    \A l \in Leg :
        /\ l \in outbox => <<l[1], SettleKey(l)>> \in byTx
        /\ <<l[1], SettleKey(l)>> \in byTx /\ pc[l] # "enqueue" /\ ~ legErr[l] => l \in outbox

\* The threshold is reached and the open duration has not passed.
Quarantined(p) == failures[p] = FailureThreshold /\ openAge[p] < OpenDuration

\* A leg the breaker has let through and that has not reported to it.
UnderWay(l) == pc[l] \in {"admitted", "sent", "check", "save", "enqueue", "report"}

(* A quarantine lets the calls under way end and no other begin, whichever *)
(* calls and legs run: while a bank is in quarantine, a leg the breaker    *)
(* has not let through before is not let through, and no payment request   *)
(* of it leaves (executeLeg, executor.go:99-103).  No more is true: the     *)
(* request of a leg let through before may leave (executor.go:128).        *)
QuarantineOnlyDrains ==
    [][\A l \in Leg :
          Quarantined(ProviderOfLeg(l)) /\ ~ UnderWay(l) =>
              ~ UnderWay(l)' /\ Msg("pay", l) \notin wire' \ wire]_vars

(* A leg is refused only by a bank in quarantine: a call that was let      *)
(* through to try a bank again, and that ends without telling the breaker  *)
(* (ResolvePIS or ResolveAccountRef fails, executor.go:105-117), keeps     *)
(* nobody out.                                                             *)
OnlyQuarantineRefuses ==
    [][\A l \in Leg :
          pc[l] = "ready" /\ legErr'[l] => Quarantined(ProviderOfLeg(l))]_vars

(* Every call returns, with a final status, however the banks behave:      *)
(* no leg waits for good, no breaker state blocks a leg, and both          *)
(* wg.Wait end (executor.go:64, rollback.go:46).                           *)
EveryCallReturns ==
    \A t \in Tx : (status[t] = "AUTHORIZING") ~> (status[t] \in Final)

-----------------------------------------------------------------------------
(***************************************************************************)
(* The inductive invariant behind the safety properties.                   *)
(***************************************************************************)
Recorded == {"report", "done", "reversing", "ccheck", "csave", "cdone"}
Reversing == {"reversing", "ccheck", "csave", "cdone"}

\* Answers tell the truth, and only a leg that is being reversed asks for it.
WireInv ==
    \A l \in Leg :
        /\ Msg("paid", l) \in wire => payment[KeyOfLeg(l)] # "none"
        /\ Msg("accepted", l) \in wire => payment[KeyOfLeg(l)] \in TakenBack
        /\ Msg("reversed", l) \in wire => payment[KeyOfLeg(l)] = "reversed"
        /\ \A k \in {"reverse", "accepted", "reversed"} :
              Msg(k, l) \in wire => pc[l] \in Reversing

\* What a leg's goroutine has done by the time it is somewhere.
LegInv ==
    \A l \in Leg :
        /\ status[l[1]] = "none" => pc[l] = "idle"
        /\ pc[l] \in {"check", "save", "enqueue"} => legStatus[l] = "SETTLED"
        /\ legStatus[l] = "SETTLED" => payment[KeyOfLeg(l)] # "none"
        /\ pc[l] = "enqueue" =>
              SettleKey(l) \in entries /\ <<l[1], SettleKey(l)>> \in byTx
        /\ pc[l] \in Recorded /\ ~ legErr[l] =>
              legStatus[l] = "SETTLED" /\ SettleKey(l) \in entries
        /\ legErr[l] => pc[l] \in {"report", "done"}
        /\ pc[l] \in {"ccheck", "csave", "cdone"} /\ ~ compErr[l] =>
              payment[KeyOfLeg(l)] \in TakenBack
        /\ pc[l] = "cdone" /\ ~ compErr[l] => ReversalKey(l) \in entries

\* Nothing is undone, at the bank or in the books, but by a rollback.
UndoneInv ==
    \A l \in Leg :
        payment[KeyOfLeg(l)] \in TakenBack \/ ReversalKey(l) \in entries =>
            \E m \in Leg : KeyOfLeg(m) = KeyOfLeg(l) /\ pc[m] \in Reversing

\* A settlement that is in the ledger was filed by a call that carries its key.
FiledInv ==
    \A l \in Leg : SettleKey(l) \in entries =>
        \E m \in Leg : KeyOfLeg(m) = KeyOfLeg(l) /\ <<m[1], SettleKey(m)>> \in byTx

\* What a final status says of the legs, whose goroutines are over.
StatusInv ==
    \A t \in Tx :
        /\ status[t] = "APPROVED" =>
              \A l \in PlanLegs(t) : pc[l] = "done" /\ ~ legErr[l]
        /\ status[t] = "ROLLED_BACK" =>
              \A l \in Succeeded(t) : pc[l] = "cdone" /\ ~ compErr[l]

Consistent ==
    /\ WireInv
    /\ LegInv
    /\ UndoneInv
    /\ FiledInv
    /\ StatusInv
    /\ BooksFollowTheBank
    /\ EventsMatchBatches

(* The wire, the bank, the goroutines, the books and the statuses agree at *)
(* every step, for calls with keys of their own and with shared ones: no   *)
(* answer and no book entry without the payment behind it, nothing         *)
(* reversed but by a rollback, no final status while a leg still runs.     *)
SagaInv == BreakerInv /\ Consistent

-----------------------------------------------------------------------------
(***************************************************************************)
(* What the documentation says and the code does not do.                   *)
(***************************************************************************)

(* "automatically compensate (roll back) the legs that already settled if  *)
(* any leg fails": no source of a rolled back payment is left charged.     *)
(* The code compensates the legs it saw settle.                            *)
RolledBackTakesNothing ==
    \A t \in Tx : status[t] = "ROLLED_BACK" =>
        \A l \in PlanLegs(t) : payment[KeyOfLeg(l)] # "settled"

(* "balanced batches with duplicate prevention": a key is booked under one *)
(* transaction only, because EntryExists comes before SaveBatch.  The      *)
(* check and the write are separate steps (ledger/service.go:31-51).       *)
NoDuplicateBatch ==
    \A b, c \in byTx : b[2] = c[2] => b = c
=============================================================================
