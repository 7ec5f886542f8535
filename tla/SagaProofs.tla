----------------------------- MODULE SagaProofs -----------------------------
(***************************************************************************)
(* The safety of the Saga engine, for any number of calls, keys, sources   *)
(* and banks, any plans, any breaker parameters, with or without a ledger  *)
(* that may fail.                                                          *)
(***************************************************************************)
EXTENDS SagaPromise, CircuitBreakerProofs

-----------------------------------------------------------------------------
(***************************************************************************)
(* Keys and messages.                                                      *)
(***************************************************************************)
LEMMA KeyTypes ==
  ASSUME NEW l \in Leg
  PROVE  /\ KeyOfLeg(l) \in LegKey
         /\ SettleKey(l) \in EntryKey
         /\ ReversalKey(l) \in EntryKey
         /\ l[1] \in Tx /\ l[2] \in Source /\ l = <<l[1], l[2]>>
  BY KeyAssumption DEF Leg, KeyOfLeg, LegKey, EntryKey, SettleKey, ReversalKey

LEMMA EntryKeysDiffer ==
  ASSUME NEW l \in Leg, NEW m \in Leg
  PROVE  /\ SettleKey(l) # ReversalKey(m)
         /\ SettleKey(l) = SettleKey(m) <=> KeyOfLeg(l) = KeyOfLeg(m)
         /\ ReversalKey(l) = ReversalKey(m) <=> KeyOfLeg(l) = KeyOfLeg(m)
         /\ l[1] = m[1] /\ KeyOfLeg(l) = KeyOfLeg(m) => l = m
  BY KeyTypes DEF SettleKey, ReversalKey, KeyOfLeg

LEMMA Messages ==
  ASSUME NEW l \in Leg, NEW m \in Leg
  PROVE  /\ \A k \in {"pay", "paid", "reverse", "accepted", "reversed"} : Msg(k, l) \in Message
         /\ \A j, k \in {"pay", "paid", "reverse", "accepted", "reversed"} :
               Msg(j, l) = Msg(k, m) <=> j = k /\ l = m
  BY DEF Msg, Message

LEMMA Plans ==
  ASSUME TypeOK, NEW t \in Tx
  PROVE  /\ PlanLegs(t) \subseteq Leg
         /\ Succeeded(t) \subseteq PlanLegs(t)
         /\ \A l \in PlanLegs(t) : l[1] = t
  BY DEF TypeOK, PlanLegs, Succeeded, Leg

LEMMA ProviderTypes ==
  ASSUME NEW l \in Leg
  PROVE  ProviderOfLeg(l) \in Provider
  BY SagaAssumption DEF Leg, ProviderOfLeg

-----------------------------------------------------------------------------
(***************************************************************************)
(* Types.                                                                  *)
(***************************************************************************)
LEMMA InitTypeOK == Init => TypeOK
  BY BreakerInitGood
     DEF Init, BankInit, LedgerInit, TypeOK, BankTypeOK, LedgerTypeOK, BreakerGood,
         LegPC, TxStatus

LEMMA LegStepTypeOK ==
  ASSUME TypeOK, NEW l \in Leg, LegStep(l)
  PROVE  BankTypeOK' /\ LedgerTypeOK' /\ pc' \in [Leg -> LegPC]
         /\ legStatus' \in [Leg -> {"PENDING", "SETTLED", "FAILED"}]
         /\ legErr' \in [Leg -> BOOLEAN] /\ compErr' \in [Leg -> BOOLEAN]
         /\ UNCHANGED txVars
<1> USE KeyTypes, Messages
    DEF TypeOK, BankTypeOK, LedgerTypeOK, bankVars, ledgerVars, txVars, legVars, Goto, LegPC, FailLeg
<1>1. CASE TurnedAway(l)
  BY <1>1 DEF TurnedAway
<1>2. CASE Enter(l)
  BY <1>2 DEF Enter
<1>3. CASE Unresolved(l)
  BY <1>3 DEF Unresolved
<1>4. CASE SendPayment(l)
  BY <1>4 DEF SendPayment
<1>5. CASE PaymentFails(l)
  BY <1>5 DEF PaymentFails
<1>6. CASE PaymentSettles(l)
  BY <1>6 DEF PaymentSettles
<1>7. CASE CheckSettlement(l)
  BY <1>7 DEF CheckSettlement
<1>8. CASE SaveSettlement(l)
  BY <1>8 DEF SaveSettlement, SaveBatch
<1>9. CASE EnqueueEvent(l)
  BY <1>9 DEF EnqueueEvent, Enqueue
<1>10. CASE RecordingFails(l)
  BY <1>10 DEF RecordingFails
<1>11. CASE ReportResult(l)
  BY <1>11 DEF ReportResult
<1>12. CASE ReversalSettles(l)
  BY <1>12 DEF ReversalSettles
<1>13. CASE ReversalFails(l)
  BY <1>13 DEF ReversalFails
<1>14. CASE CheckCompensation(l)
  BY <1>14 DEF CheckCompensation
<1>15. CASE SaveCompensation(l)
  BY <1>15 DEF SaveCompensation, SaveBatch
<1>16. CASE CompensationRecordFails(l)
  BY <1>16 DEF CompensationRecordFails
<1> QED
  BY <1>1, <1>2, <1>3, <1>4, <1>5, <1>6, <1>7, <1>8, <1>9, <1>10, <1>11, <1>12, <1>13, <1>14,
     <1>15, <1>16 DEF LegStep

(* The breaker is touched by its own operations only, so its invariant     *)
(* carries over from the lemmas about them.                                *)
LEMMA NextBreakerGood ==
  ASSUME BreakerGood, [Next]_vars
  PROVE  BreakerGood'
<1>1. ASSUME NEW l \in Leg, LegStep(l)
      PROVE  BreakerGood'
  <2>0. ProviderOfLeg(l) \in Provider
    BY ProviderTypes
  <2>1. CASE TurnedAway(l)
    BY <2>0, <2>1, BreakerUnchangedGood DEF TurnedAway, Refuse
  <2>2. CASE Enter(l)
    BY <2>0, <2>2, AllowGood DEF Enter
  <2>3. CASE ReportResult(l)
    BY <2>0, <2>3, RecordBadGood, RecordGoodGood DEF ReportResult
  <2>4. CASE \/ Unresolved(l) \/ SendPayment(l) \/ PaymentFails(l) \/ PaymentSettles(l)
             \/ CheckSettlement(l) \/ SaveSettlement(l) \/ EnqueueEvent(l) \/ RecordingFails(l)
    BY <2>4, BreakerUnchangedGood
       DEF Unresolved, SendPayment, PaymentFails, PaymentSettles, CheckSettlement, SaveSettlement,
           EnqueueEvent, RecordingFails
  <2>5. CASE ReversalSettles(l) \/ ReversalFails(l) \/ CheckCompensation(l)
             \/ SaveCompensation(l) \/ CompensationRecordFails(l)
    BY <2>5, BreakerUnchangedGood
       DEF ReversalSettles, ReversalFails, CheckCompensation, SaveCompensation, CompensationRecordFails
  <2> QED
    BY <1>1, <2>1, <2>2, <2>3, <2>4, <2>5 DEF LegStep
<1>2. ASSUME NEW t \in Tx, ClientStep(t) \/ CallStep(t)
      PROVE  BreakerGood'
  BY <1>2, BreakerUnchangedGood
     DEF ClientStep, CallStep, Launch, PlanningFails, Approve, NothingToUndo, RollBack, ConcludeRollback
<1>3. ASSUME NEW l \in Leg, BankStep(l)
      PROVE  BreakerGood'
  BY <1>3, BreakerUnchangedGood DEF BankStep
<1>4. CASE ClockStep
  BY <1>4, TickGood DEF ClockStep
<1>5. CASE UNCHANGED vars
  BY <1>5, BreakerUnchangedGood DEF vars
<1> QED
  BY <1>1, <1>2, <1>3, <1>4, <1>5 DEF Next, AllReturned

LEMMA NextTypeOK ==
  ASSUME TypeOK, BreakerInv, [Next]_vars
  PROVE  TypeOK'
<1>0. BreakerTypeOK'
  BY NextBreakerGood DEF BreakerGood, TypeOK
<1> USE <1>0
    DEF TypeOK, BankTypeOK, LedgerTypeOK, bankVars, ledgerVars, txVars, legVars, LegPC, TxStatus, Final
<1>1. ASSUME NEW l \in Leg, LegStep(l)
      PROVE  TypeOK'
  BY <1>1, LegStepTypeOK
<1>2. ASSUME NEW t \in Tx, ClientStep(t)
      PROVE  TypeOK'
  <2>1. ASSUME NEW S \in SUBSET Source, Launch(t, S)
        PROVE  TypeOK'
    BY <2>1 DEF Launch
  <2>2. CASE PlanningFails(t)
    BY <2>2 DEF PlanningFails
  <2> QED
    BY <1>2, <2>1, <2>2 DEF ClientStep
<1>3. ASSUME NEW t \in Tx, CallStep(t)
      PROVE  TypeOK'
  <2>1. CASE RollBack(t)
    BY <2>1, Messages, Plans DEF RollBack
  <2>2. CASE Approve(t) \/ NothingToUndo(t) \/ ConcludeRollback(t)
    BY <2>2 DEF Approve, NothingToUndo, ConcludeRollback
  <2> QED
    BY <1>3, <2>1, <2>2 DEF CallStep
<1>4. ASSUME NEW l \in Leg, BankStep(l)
      PROVE  TypeOK'
  BY <1>4, Messages, KeyTypes DEF BankStep, BankPays, BankReverses, BankAcceptsReversal, BankGivesBack
<1>5. CASE ClockStep
  BY <1>5 DEF ClockStep
<1>6. CASE UNCHANGED vars
  BY <1>6 DEF vars
<1> QED
  BY <1>1, <1>2, <1>3, <1>4, <1>5, <1>6 DEF Next, AllReturned

-----------------------------------------------------------------------------
(***************************************************************************)
(* The inductive invariant.  The parts of Consistent rest on each other:   *)
(* the books on the goroutines' progress, progress on the answers, the     *)
(* answers on the bank.                                                    *)
(***************************************************************************)
LEMMA InitConsistent == Init => Consistent
  BY KeyTypes
     DEF Init, BankInit, LedgerInit, Consistent, WireInv, LegInv, UndoneInv, FiledInv, StatusInv,
         TakenBack, BooksFollowTheBank, EventsMatchBatches, Recorded, Reversing

LEMMA LegStepConsistent ==
  ASSUME TypeOK, Consistent, NEW l \in Leg, LegStep(l)
  PROVE  Consistent'
<1> USE KeyTypes
    DEF TypeOK, BankTypeOK, LedgerTypeOK, bankVars, ledgerVars, txVars, legVars, Consistent
<1>0. FiledInv'
  <2>1. CASE SaveSettlement(l)
    BY <2>1, EntryKeysDiffer DEF SaveSettlement, SaveBatch, FiledInv
  <2>2. CASE SaveCompensation(l)
    BY <2>2, EntryKeysDiffer DEF SaveCompensation, SaveBatch, FiledInv
  <2>3. CASE UNCHANGED <<entries, byTx>>
    BY <2>3 DEF FiledInv
  <2> QED
    BY <2>1, <2>2, <2>3
       DEF LegStep, TurnedAway, Enter, Unresolved, SendPayment, PaymentFails, PaymentSettles,
           CheckSettlement, EnqueueEvent, Enqueue, RecordingFails, ReportResult, ReversalSettles,
           ReversalFails, CheckCompensation, CompensationRecordFails
<1>1. CASE TurnedAway(l)
  <2>1. WireInv'
    BY <1>1, Messages DEF TurnedAway, Goto, FailLeg, WireInv, LegInv, Reversing
  <2>2. LegInv'
    BY <1>1, EntryKeysDiffer, Messages DEF TurnedAway, Goto, FailLeg, WireInv, LegInv, Recorded, Reversing
  <2>3. UndoneInv'
    BY <1>1 DEF TurnedAway, Goto, FailLeg, UndoneInv, Reversing
  <2>4. StatusInv'
    BY <1>1, Plans DEF TurnedAway, Goto, FailLeg, LegInv, StatusInv, PlanLegs, Succeeded
  <2>5. BooksFollowTheBank'
    BY <1>1, EntryKeysDiffer DEF TurnedAway, Goto, FailLeg, LegInv, BooksFollowTheBank, Recorded, Reversing
  <2>6. EventsMatchBatches'
    BY <1>1, EntryKeysDiffer DEF TurnedAway, Goto, FailLeg, LegInv, EventsMatchBatches
  <2> QED
    BY <1>0, <2>1, <2>2, <2>3, <2>4, <2>5, <2>6 DEF Consistent
<1>2. CASE Enter(l)
  <2>1. WireInv'
    BY <1>2, Messages DEF Enter, Goto, WireInv, LegInv, Reversing
  <2>2. LegInv'
    BY <1>2, EntryKeysDiffer, Messages DEF Enter, Goto, WireInv, LegInv, Recorded, Reversing
  <2>3. UndoneInv'
    BY <1>2 DEF Enter, Goto, UndoneInv, Reversing
  <2>4. StatusInv'
    BY <1>2, Plans DEF Enter, Goto, LegInv, StatusInv, PlanLegs, Succeeded
  <2>5. BooksFollowTheBank'
    BY <1>2, EntryKeysDiffer DEF Enter, Goto, LegInv, BooksFollowTheBank, Recorded, Reversing
  <2>6. EventsMatchBatches'
    BY <1>2, EntryKeysDiffer DEF Enter, Goto, LegInv, EventsMatchBatches
  <2> QED
    BY <1>0, <2>1, <2>2, <2>3, <2>4, <2>5, <2>6 DEF Consistent
<1>3. CASE Unresolved(l)
  <2>1. WireInv'
    BY <1>3, Messages DEF Unresolved, Goto, FailLeg, WireInv, LegInv, Reversing
  <2>2. LegInv'
    BY <1>3, EntryKeysDiffer, Messages DEF Unresolved, Goto, FailLeg, WireInv, LegInv, Recorded, Reversing
  <2>3. UndoneInv'
    BY <1>3 DEF Unresolved, Goto, FailLeg, UndoneInv, Reversing
  <2>4. StatusInv'
    BY <1>3, Plans DEF Unresolved, Goto, FailLeg, LegInv, StatusInv, PlanLegs, Succeeded
  <2>5. BooksFollowTheBank'
    BY <1>3, EntryKeysDiffer DEF Unresolved, Goto, FailLeg, LegInv, BooksFollowTheBank, Recorded, Reversing
  <2>6. EventsMatchBatches'
    BY <1>3, EntryKeysDiffer DEF Unresolved, Goto, FailLeg, LegInv, EventsMatchBatches
  <2> QED
    BY <1>0, <2>1, <2>2, <2>3, <2>4, <2>5, <2>6 DEF Consistent
<1>4. CASE SendPayment(l)
  <2>0. ASSUME NEW m \in Leg, NEW k \in {"paid", "reverse", "accepted", "reversed"}, Msg(k, m) \in wire'
        PROVE  Msg(k, m) \in wire
    BY <1>4, <2>0 DEF SendPayment, Msg
  <2>1. WireInv'
    BY <1>4, <2>0, Messages DEF SendPayment, Goto, WireInv, LegInv, Reversing
  <2>2. LegInv'
    BY <1>4, <2>0, EntryKeysDiffer, Messages DEF SendPayment, Goto, WireInv, LegInv, Recorded, Reversing
  <2>3. UndoneInv'
    BY <1>4 DEF SendPayment, Goto, UndoneInv, Reversing
  <2>4. StatusInv'
    BY <1>4, <2>0, Plans DEF SendPayment, Goto, LegInv, StatusInv, PlanLegs, Succeeded
  <2>5. BooksFollowTheBank'
    BY <1>4, <2>0, EntryKeysDiffer DEF SendPayment, Goto, LegInv, BooksFollowTheBank, Recorded, Reversing
  <2>6. EventsMatchBatches'
    BY <1>4, <2>0, EntryKeysDiffer DEF SendPayment, Goto, LegInv, EventsMatchBatches
  <2> QED
    BY <1>0, <2>1, <2>2, <2>3, <2>4, <2>5, <2>6 DEF Consistent
<1>5. CASE PaymentFails(l)
  <2>1. WireInv'
    BY <1>5, Messages DEF PaymentFails, Goto, FailLeg, WireInv, LegInv, Reversing
  <2>2. LegInv'
    BY <1>5, EntryKeysDiffer, Messages DEF PaymentFails, Goto, FailLeg, WireInv, LegInv, Recorded, Reversing
  <2>3. UndoneInv'
    BY <1>5 DEF PaymentFails, Goto, FailLeg, UndoneInv, Reversing
  <2>4. StatusInv'
    BY <1>5, Plans DEF PaymentFails, Goto, FailLeg, LegInv, StatusInv, PlanLegs, Succeeded
  <2>5. BooksFollowTheBank'
    BY <1>5, EntryKeysDiffer DEF PaymentFails, Goto, FailLeg, LegInv, BooksFollowTheBank, Recorded, Reversing
  <2>6. EventsMatchBatches'
    BY <1>5, EntryKeysDiffer DEF PaymentFails, Goto, FailLeg, LegInv, EventsMatchBatches
  <2> QED
    BY <1>0, <2>1, <2>2, <2>3, <2>4, <2>5, <2>6 DEF Consistent
<1>6. CASE PaymentSettles(l)
  <2>1. WireInv'
    BY <1>6, Messages DEF PaymentSettles, Goto, WireInv, LegInv, Reversing
  <2>2. LegInv'
    BY <1>6, EntryKeysDiffer, Messages DEF PaymentSettles, Goto, WireInv, LegInv, Recorded, Reversing
  <2>3. UndoneInv'
    BY <1>6 DEF PaymentSettles, Goto, UndoneInv, Reversing
  <2>4. StatusInv'
    BY <1>6, Plans DEF PaymentSettles, Goto, LegInv, StatusInv, PlanLegs, Succeeded
  <2>5. BooksFollowTheBank'
    BY <1>6, EntryKeysDiffer DEF PaymentSettles, Goto, LegInv, BooksFollowTheBank, Recorded, Reversing
  <2>6. EventsMatchBatches'
    BY <1>6, EntryKeysDiffer DEF PaymentSettles, Goto, LegInv, EventsMatchBatches
  <2> QED
    BY <1>0, <2>1, <2>2, <2>3, <2>4, <2>5, <2>6 DEF Consistent
<1>7. CASE CheckSettlement(l)
  <2>1. WireInv'
    BY <1>7, Messages DEF CheckSettlement, Goto, EntryExists, WireInv, LegInv, Reversing
  <2>2. LegInv'
    BY <1>7, EntryKeysDiffer, Messages DEF CheckSettlement, Goto, EntryExists, WireInv, LegInv, Recorded, Reversing
  <2>3. UndoneInv'
    BY <1>7 DEF CheckSettlement, Goto, EntryExists, UndoneInv, Reversing
  <2>4. StatusInv'
    BY <1>7, Plans DEF CheckSettlement, Goto, EntryExists, LegInv, StatusInv, PlanLegs, Succeeded
  <2>5. BooksFollowTheBank'
    BY <1>7, EntryKeysDiffer DEF CheckSettlement, Goto, EntryExists, LegInv, BooksFollowTheBank, Recorded, Reversing
  <2>6. EventsMatchBatches'
    BY <1>7, EntryKeysDiffer DEF CheckSettlement, Goto, EntryExists, LegInv, EventsMatchBatches
  <2> QED
    BY <1>0, <2>1, <2>2, <2>3, <2>4, <2>5, <2>6 DEF Consistent
<1>8. CASE SaveSettlement(l)
  <2>1. WireInv'
    BY <1>8, Messages DEF SaveSettlement, Goto, SaveBatch, WireInv, LegInv, Reversing
  <2>2. LegInv'
    BY <1>8, EntryKeysDiffer, Messages DEF SaveSettlement, Goto, SaveBatch, WireInv, LegInv, Recorded, Reversing
  <2>3. UndoneInv'
    BY <1>8, EntryKeysDiffer DEF SaveSettlement, Goto, SaveBatch, UndoneInv, Reversing
  <2>4. StatusInv'
    BY <1>8, Plans DEF SaveSettlement, Goto, SaveBatch, LegInv, StatusInv, PlanLegs, Succeeded
  <2>5. BooksFollowTheBank'
    BY <1>8, EntryKeysDiffer DEF SaveSettlement, Goto, SaveBatch, LegInv, BooksFollowTheBank, Recorded, Reversing
  <2>6. EventsMatchBatches'
    BY <1>8, EntryKeysDiffer DEF SaveSettlement, Goto, SaveBatch, LegInv, EventsMatchBatches
  <2> QED
    BY <1>0, <2>1, <2>2, <2>3, <2>4, <2>5, <2>6 DEF Consistent
<1>9. CASE EnqueueEvent(l)
  <2>1. WireInv'
    BY <1>9, Messages DEF EnqueueEvent, Goto, Enqueue, WireInv, LegInv, Reversing
  <2>2. LegInv'
    BY <1>9, EntryKeysDiffer, Messages DEF EnqueueEvent, Goto, Enqueue, WireInv, LegInv, Recorded, Reversing
  <2>3. UndoneInv'
    BY <1>9 DEF EnqueueEvent, Goto, Enqueue, UndoneInv, Reversing
  <2>4. StatusInv'
    BY <1>9, Plans DEF EnqueueEvent, Goto, Enqueue, LegInv, StatusInv, PlanLegs, Succeeded
  <2>5. BooksFollowTheBank'
    BY <1>9, EntryKeysDiffer DEF EnqueueEvent, Goto, Enqueue, LegInv, BooksFollowTheBank, Recorded, Reversing
  <2>6. EventsMatchBatches'
    BY <1>9, EntryKeysDiffer DEF EnqueueEvent, Goto, Enqueue, LegInv, EventsMatchBatches
  <2> QED
    BY <1>0, <2>1, <2>2, <2>3, <2>4, <2>5, <2>6 DEF Consistent
<1>10. CASE RecordingFails(l)
  <2>1. WireInv'
    BY <1>10, Messages DEF RecordingFails, Goto, WireInv, LegInv, Reversing
  <2>2. LegInv'
    BY <1>10, EntryKeysDiffer, Messages DEF RecordingFails, Goto, WireInv, LegInv, Recorded, Reversing
  <2>3. UndoneInv'
    BY <1>10 DEF RecordingFails, Goto, UndoneInv, Reversing
  <2>4. StatusInv'
    BY <1>10, Plans DEF RecordingFails, Goto, LegInv, StatusInv, PlanLegs, Succeeded
  <2>5. BooksFollowTheBank'
    BY <1>10, EntryKeysDiffer DEF RecordingFails, Goto, LegInv, BooksFollowTheBank, Recorded, Reversing
  <2>6. EventsMatchBatches'
    BY <1>10, EntryKeysDiffer DEF RecordingFails, Goto, LegInv, EventsMatchBatches
  <2> QED
    BY <1>0, <2>1, <2>2, <2>3, <2>4, <2>5, <2>6 DEF Consistent
<1>11. CASE ReportResult(l)
  <2>1. WireInv'
    BY <1>11, Messages DEF ReportResult, Goto, WireInv, LegInv, Reversing
  <2>2. LegInv'
    BY <1>11, EntryKeysDiffer, Messages DEF ReportResult, Goto, WireInv, LegInv, Recorded, Reversing
  <2>3. UndoneInv'
    BY <1>11 DEF ReportResult, Goto, UndoneInv, Reversing
  <2>4. StatusInv'
    BY <1>11, Plans DEF ReportResult, Goto, LegInv, StatusInv, PlanLegs, Succeeded
  <2>5. BooksFollowTheBank'
    BY <1>11, EntryKeysDiffer DEF ReportResult, Goto, LegInv, BooksFollowTheBank, Recorded, Reversing
  <2>6. EventsMatchBatches'
    BY <1>11, EntryKeysDiffer DEF ReportResult, Goto, LegInv, EventsMatchBatches
  <2> QED
    BY <1>0, <2>1, <2>2, <2>3, <2>4, <2>5, <2>6 DEF Consistent
<1>12. CASE ReversalSettles(l)
  <2>1. WireInv'
    BY <1>12, Messages DEF ReversalSettles, Goto, WireInv, LegInv, Reversing
  <2>2. LegInv'
    <3>1. payment[KeyOfLeg(l)] \in TakenBack
      BY <1>12 DEF ReversalSettles, WireInv, TakenBack
    <3>2. UNCHANGED <<payment, status, entries, byTx, legStatus, legErr, compErr>>
          /\ pc' = [pc EXCEPT ![l] = "ccheck"] /\ pc[l] = "reversing"
      BY <1>12 DEF ReversalSettles, Goto
    <3> QED
      BY <3>1, <3>2 DEF LegInv, Recorded, Reversing
  <2>3. UndoneInv'
    BY <1>12 DEF ReversalSettles, Goto, UndoneInv, Reversing
  <2>4. StatusInv'
    BY <1>12, Plans DEF ReversalSettles, Goto, LegInv, StatusInv, PlanLegs, Succeeded
  <2>5. BooksFollowTheBank'
    BY <1>12, EntryKeysDiffer DEF ReversalSettles, Goto, LegInv, BooksFollowTheBank, Recorded, Reversing
  <2>6. EventsMatchBatches'
    BY <1>12, EntryKeysDiffer DEF ReversalSettles, Goto, LegInv, EventsMatchBatches
  <2> QED
    BY <1>0, <2>1, <2>2, <2>3, <2>4, <2>5, <2>6 DEF Consistent
<1>13. CASE ReversalFails(l)
  <2>1. WireInv'
    BY <1>13, Messages DEF ReversalFails, Goto, WireInv, LegInv, Reversing
  <2>2. LegInv'
    BY <1>13, EntryKeysDiffer, Messages DEF ReversalFails, Goto, WireInv, LegInv, Recorded, Reversing
  <2>3. UndoneInv'
    BY <1>13 DEF ReversalFails, Goto, UndoneInv, Reversing
  <2>4. StatusInv'
    BY <1>13, Plans DEF ReversalFails, Goto, LegInv, StatusInv, PlanLegs, Succeeded
  <2>5. BooksFollowTheBank'
    BY <1>13, EntryKeysDiffer DEF ReversalFails, Goto, LegInv, BooksFollowTheBank, Recorded, Reversing
  <2>6. EventsMatchBatches'
    BY <1>13, EntryKeysDiffer DEF ReversalFails, Goto, LegInv, EventsMatchBatches
  <2> QED
    BY <1>0, <2>1, <2>2, <2>3, <2>4, <2>5, <2>6 DEF Consistent
<1>14. CASE CheckCompensation(l)
  <2>1. WireInv'
    BY <1>14, Messages DEF CheckCompensation, Goto, EntryExists, WireInv, LegInv, Reversing
  <2>2. LegInv'
    BY <1>14, EntryKeysDiffer, Messages DEF CheckCompensation, Goto, EntryExists, WireInv, LegInv, Recorded, Reversing
  <2>3. UndoneInv'
    BY <1>14 DEF CheckCompensation, Goto, EntryExists, UndoneInv, Reversing
  <2>4. StatusInv'
    BY <1>14, Plans DEF CheckCompensation, Goto, EntryExists, LegInv, StatusInv, PlanLegs, Succeeded
  <2>5. BooksFollowTheBank'
    BY <1>14, EntryKeysDiffer DEF CheckCompensation, Goto, EntryExists, LegInv, BooksFollowTheBank, Recorded, Reversing
  <2>6. EventsMatchBatches'
    BY <1>14, EntryKeysDiffer DEF CheckCompensation, Goto, EntryExists, LegInv, EventsMatchBatches
  <2> QED
    BY <1>0, <2>1, <2>2, <2>3, <2>4, <2>5, <2>6 DEF Consistent
<1>15. CASE SaveCompensation(l)
  <2>1. WireInv'
    BY <1>15, Messages DEF SaveCompensation, Goto, SaveBatch, WireInv, LegInv, Reversing
  <2>2. LegInv'
    BY <1>15, EntryKeysDiffer, Messages DEF SaveCompensation, Goto, SaveBatch, WireInv, LegInv, Recorded, Reversing
  <2>3. UndoneInv'
    BY <1>15, EntryKeysDiffer DEF SaveCompensation, Goto, SaveBatch, UndoneInv, Reversing, LegInv
  <2>4. StatusInv'
    BY <1>15, Plans DEF SaveCompensation, Goto, SaveBatch, LegInv, StatusInv, PlanLegs, Succeeded
  <2>5. BooksFollowTheBank'
    BY <1>15, EntryKeysDiffer DEF SaveCompensation, Goto, SaveBatch, LegInv, BooksFollowTheBank, Recorded, Reversing
  <2>6. EventsMatchBatches'
    BY <1>15, EntryKeysDiffer DEF SaveCompensation, Goto, SaveBatch, LegInv, EventsMatchBatches
  <2> QED
    BY <1>0, <2>1, <2>2, <2>3, <2>4, <2>5, <2>6 DEF Consistent
<1>16. CASE CompensationRecordFails(l)
  <2>1. WireInv'
    BY <1>16, Messages DEF CompensationRecordFails, Goto, WireInv, LegInv, Reversing
  <2>2. LegInv'
    BY <1>16, EntryKeysDiffer, Messages DEF CompensationRecordFails, Goto, WireInv, LegInv, Recorded, Reversing
  <2>3. UndoneInv'
    BY <1>16 DEF CompensationRecordFails, Goto, UndoneInv, Reversing
  <2>4. StatusInv'
    BY <1>16, Plans DEF CompensationRecordFails, Goto, LegInv, StatusInv, PlanLegs, Succeeded
  <2>5. BooksFollowTheBank'
    BY <1>16, EntryKeysDiffer DEF CompensationRecordFails, Goto, LegInv, BooksFollowTheBank, Recorded, Reversing
  <2>6. EventsMatchBatches'
    BY <1>16, EntryKeysDiffer DEF CompensationRecordFails, Goto, LegInv, EventsMatchBatches
  <2> QED
    BY <1>0, <2>1, <2>2, <2>3, <2>4, <2>5, <2>6 DEF Consistent
<1> QED
  BY <1>1, <1>2, <1>3, <1>4, <1>5, <1>6, <1>7, <1>8, <1>9, <1>10, <1>11, <1>12, <1>13, <1>14, <1>15, <1>16
     DEF LegStep

LEMMA CallStepConsistent ==
  ASSUME TypeOK, Consistent, NEW t \in Tx, CallStep(t)
  PROVE  Consistent'
<1> USE KeyTypes
    DEF TypeOK, BankTypeOK, LedgerTypeOK, bankVars, ledgerVars, txVars, legVars, Consistent
<1>0. FiledInv'
  BY DEF CallStep, Approve, NothingToUndo, RollBack, ConcludeRollback, FiledInv
<1>1. CASE Approve(t)
  <2>1. WireInv'
    BY <1>1, Messages DEF Approve, Collected, Succeeded, WireInv, LegInv, Reversing
  <2>2. LegInv'
    BY <1>1, EntryKeysDiffer, Messages DEF Approve, Collected, Succeeded, WireInv, LegInv, Recorded, Reversing
  <2>3. UndoneInv'
    BY <1>1 DEF Approve, Collected, Succeeded, UndoneInv, Reversing
  <2>4. StatusInv'
    BY <1>1, Plans DEF Approve, Collected, Succeeded, LegInv, StatusInv, PlanLegs, Succeeded
  <2>5. BooksFollowTheBank'
    BY <1>1, EntryKeysDiffer DEF Approve, Collected, Succeeded, LegInv, BooksFollowTheBank, Recorded, Reversing
  <2>6. EventsMatchBatches'
    BY <1>1, EntryKeysDiffer DEF Approve, Collected, Succeeded, LegInv, EventsMatchBatches
  <2> QED
    BY <1>0, <2>1, <2>2, <2>3, <2>4, <2>5, <2>6 DEF Consistent
<1>2. CASE NothingToUndo(t)
  <2>1. WireInv'
    BY <1>2, Messages DEF NothingToUndo, Collected, WireInv, LegInv, Reversing
  <2>2. LegInv'
    BY <1>2, EntryKeysDiffer, Messages DEF NothingToUndo, Collected, WireInv, LegInv, Recorded, Reversing
  <2>3. UndoneInv'
    BY <1>2 DEF NothingToUndo, Collected, UndoneInv, Reversing
  <2>4. StatusInv'
    BY <1>2, Plans DEF NothingToUndo, Collected, LegInv, StatusInv, PlanLegs, Succeeded
  <2>5. BooksFollowTheBank'
    BY <1>2, EntryKeysDiffer DEF NothingToUndo, Collected, LegInv, BooksFollowTheBank, Recorded, Reversing
  <2>6. EventsMatchBatches'
    BY <1>2, EntryKeysDiffer DEF NothingToUndo, Collected, LegInv, EventsMatchBatches
  <2> QED
    BY <1>0, <2>1, <2>2, <2>3, <2>4, <2>5, <2>6 DEF Consistent
<1>3. CASE RollBack(t)
  <2>a. ASSUME NEW m \in Leg, NEW k \in {"paid", "accepted", "reversed"}, Msg(k, m) \in wire'
        PROVE  Msg(k, m) \in wire
    BY <1>3, <2>a, Plans DEF RollBack, Msg
  <2>b. ASSUME NEW m \in Leg, Msg("reverse", m) \in wire'
        PROVE  Msg("reverse", m) \in wire \/ m \in Succeeded(t)
    <3>1. CASE Msg("reverse", m) \notin wire
      <4>1. PICK x \in Succeeded(t) : Msg("reverse", m) = Msg("reverse", x)
        BY <1>3, <2>b, <3>1 DEF RollBack
      <4>2. m = x
        BY <4>1 DEF Msg
      <4> QED
        BY <4>1, <4>2
    <3> QED
      BY <3>1
  <2>1. WireInv'
    BY <1>3, <2>a, <2>b, Messages DEF RollBack, Collected, Succeeded, WireInv, LegInv, Reversing
  <2>2. LegInv'
    BY <1>3, <2>a, <2>b, EntryKeysDiffer, Messages DEF RollBack, Collected, Succeeded, WireInv, LegInv, Recorded, Reversing
  <2>3. UndoneInv'
    BY <1>3 DEF RollBack, Collected, Succeeded, UndoneInv, Reversing
  <2>4. StatusInv'
    BY <1>3, <2>a, <2>b, Plans DEF RollBack, Collected, Succeeded, LegInv, StatusInv, PlanLegs, Succeeded
  <2>5. BooksFollowTheBank'
    BY <1>3, <2>a, <2>b, EntryKeysDiffer DEF RollBack, Collected, Succeeded, LegInv, BooksFollowTheBank, Recorded, Reversing
  <2>6. EventsMatchBatches'
    BY <1>3, <2>a, <2>b, EntryKeysDiffer DEF RollBack, Collected, Succeeded, LegInv, EventsMatchBatches
  <2> QED
    BY <1>0, <2>1, <2>2, <2>3, <2>4, <2>5, <2>6 DEF Consistent
<1>4. CASE ConcludeRollback(t)
  <2>1. WireInv'
    BY <1>4, Messages DEF ConcludeRollback, WireInv, LegInv, Reversing
  <2>2. LegInv'
    BY <1>4, EntryKeysDiffer, Messages DEF ConcludeRollback, WireInv, LegInv, Recorded, Reversing
  <2>3. UndoneInv'
    BY <1>4 DEF ConcludeRollback, UndoneInv, Reversing
  <2>4. StatusInv'
    BY <1>4, Plans DEF ConcludeRollback, LegInv, StatusInv, PlanLegs, Succeeded
  <2>5. BooksFollowTheBank'
    BY <1>4, EntryKeysDiffer DEF ConcludeRollback, LegInv, BooksFollowTheBank, Recorded, Reversing
  <2>6. EventsMatchBatches'
    BY <1>4, EntryKeysDiffer DEF ConcludeRollback, LegInv, EventsMatchBatches
  <2> QED
    BY <1>0, <2>1, <2>2, <2>3, <2>4, <2>5, <2>6 DEF Consistent
<1> QED
  BY <1>1, <1>2, <1>3, <1>4
     DEF CallStep

LEMMA ClientStepConsistent ==
  ASSUME TypeOK, Consistent, NEW t \in Tx, ClientStep(t)
  PROVE  Consistent'
<1> USE KeyTypes
    DEF TypeOK, BankTypeOK, LedgerTypeOK, bankVars, ledgerVars, txVars, legVars, Consistent
<1>0. FiledInv'
  BY DEF ClientStep, Launch, PlanningFails, FiledInv
<1>1. ASSUME NEW S \in SUBSET Source, Launch(t, S)
      PROVE  Consistent'
  <2>0. ASSUME NEW m \in Leg
        PROVE  \/ pc'[m] = pc[m]
               \/ pc[m] = "idle" /\ pc'[m] = "ready"
    <3>1. CASE m \in {<<t, s>> : s \in S}
      <4>1. m[1] = t
        BY <3>1
      <4> QED
        BY <1>1, <3>1, <4>1 DEF Launch, LegInv
    <3> QED
      BY <1>1, <3>1 DEF Launch
  <2>1. WireInv'
    BY <1>1, <2>0, Messages DEF Launch, WireInv, LegInv, Reversing
  <2>2. LegInv'
    BY <1>1, <2>0, EntryKeysDiffer, Messages DEF Launch, WireInv, LegInv, Recorded, Reversing
  <2>3. UndoneInv'
    BY <1>1, <2>0 DEF Launch, UndoneInv, Reversing
  <2>4. StatusInv'
    BY <1>1, <2>0, Plans DEF Launch, LegInv, StatusInv, PlanLegs, Succeeded
  <2>5. BooksFollowTheBank'
    BY <1>1, <2>0, EntryKeysDiffer DEF Launch, LegInv, BooksFollowTheBank, Recorded, Reversing
  <2>6. EventsMatchBatches'
    BY <1>1, <2>0, EntryKeysDiffer DEF Launch, LegInv, EventsMatchBatches
  <2> QED
    BY <1>0, <2>1, <2>2, <2>3, <2>4, <2>5, <2>6 DEF Consistent
<1>2. CASE PlanningFails(t)
  <2>1. WireInv'
    BY <1>2, Messages DEF PlanningFails, WireInv, LegInv, Reversing
  <2>2. LegInv'
    BY <1>2, EntryKeysDiffer, Messages DEF PlanningFails, WireInv, LegInv, Recorded, Reversing
  <2>3. UndoneInv'
    BY <1>2 DEF PlanningFails, UndoneInv, Reversing
  <2>4. StatusInv'
    BY <1>2, Plans DEF PlanningFails, LegInv, StatusInv, PlanLegs, Succeeded
  <2>5. BooksFollowTheBank'
    BY <1>2, EntryKeysDiffer DEF PlanningFails, LegInv, BooksFollowTheBank, Recorded, Reversing
  <2>6. EventsMatchBatches'
    BY <1>2, EntryKeysDiffer DEF PlanningFails, LegInv, EventsMatchBatches
  <2> QED
    BY <1>0, <2>1, <2>2, <2>3, <2>4, <2>5, <2>6 DEF Consistent
<1> QED
  BY <1>1, <1>2
     DEF ClientStep

LEMMA BankStepConsistent ==
  ASSUME TypeOK, Consistent, NEW l \in Leg, BankStep(l)
  PROVE  Consistent'
<1> USE KeyTypes
    DEF TypeOK, BankTypeOK, LedgerTypeOK, bankVars, ledgerVars, txVars, legVars, Consistent
<1>0. FiledInv'
  BY DEF BankStep, FiledInv
<1>1. CASE BankPays(l)
  <2>0. ASSUME NEW m \in Leg, NEW k \in {"paid", "reverse", "accepted", "reversed"}, Msg(k, m) \in wire'
        PROVE  Msg(k, m) \in wire \/ (k = "paid" /\ m = l)
    BY <1>1, <2>0 DEF BankPays, Msg
  <2>1. WireInv'
    BY <1>1, <2>0, Messages DEF BankStep, BankPays, WireInv, LegInv, Reversing, TakenBack
  <2>2. LegInv'
    BY <1>1, <2>0, EntryKeysDiffer, Messages DEF BankStep, BankPays, WireInv, LegInv, Recorded, Reversing, TakenBack
  <2>3. UndoneInv'
    BY <1>1 DEF BankStep, BankPays, UndoneInv, Reversing, TakenBack
  <2>4. StatusInv'
    BY <1>1, <2>0, Plans DEF BankStep, BankPays, LegInv, StatusInv, PlanLegs, Succeeded
  <2>5. BooksFollowTheBank'
    BY <1>1, <2>0, EntryKeysDiffer DEF BankStep, BankPays, LegInv, BooksFollowTheBank, Recorded, Reversing, TakenBack
  <2>6. EventsMatchBatches'
    BY <1>1, <2>0, EntryKeysDiffer DEF BankStep, BankPays, LegInv, EventsMatchBatches
  <2> QED
    BY <1>0, <2>1, <2>2, <2>3, <2>4, <2>5, <2>6 DEF Consistent
<1>2. CASE BankReverses(l)
  <2>0. ASSUME NEW m \in Leg, NEW k \in {"paid", "reverse", "accepted", "reversed"}, Msg(k, m) \in wire'
        PROVE  Msg(k, m) \in wire \/ (k = "reversed" /\ m = l)
    BY <1>2, <2>0 DEF BankReverses, Msg
  <2>1. WireInv'
    BY <1>2, <2>0, Messages DEF BankStep, BankReverses, WireInv, LegInv, Reversing, TakenBack
  <2>2. LegInv'
    BY <1>2, <2>0, EntryKeysDiffer, Messages DEF BankStep, BankReverses, WireInv, LegInv, Recorded, Reversing, TakenBack
  <2>3. UndoneInv'
    BY <1>2 DEF BankStep, BankReverses, UndoneInv, Reversing, TakenBack, WireInv
  <2>4. StatusInv'
    BY <1>2, <2>0, Plans DEF BankStep, BankReverses, LegInv, StatusInv, PlanLegs, Succeeded
  <2>5. BooksFollowTheBank'
    BY <1>2, <2>0, EntryKeysDiffer DEF BankStep, BankReverses, LegInv, BooksFollowTheBank, Recorded, Reversing, TakenBack
  <2>6. EventsMatchBatches'
    BY <1>2, <2>0, EntryKeysDiffer DEF BankStep, BankReverses, LegInv, EventsMatchBatches
  <2> QED
    BY <1>0, <2>1, <2>2, <2>3, <2>4, <2>5, <2>6 DEF Consistent
<1>3. CASE BankAcceptsReversal(l)
  <2>0. ASSUME NEW m \in Leg, NEW k \in {"paid", "reverse", "accepted", "reversed"}, Msg(k, m) \in wire'
        PROVE  Msg(k, m) \in wire \/ (k = "accepted" /\ m = l)
    BY <1>3, <2>0 DEF BankAcceptsReversal, Msg
  <2>1. WireInv'
    <3>1. ASSUME NEW k \in LegKey
          PROVE  \/ payment'[k] = payment[k]
                 \/ k = KeyOfLeg(l) /\ payment[k] = "settled" /\ payment'[k] = "returning"
      BY <1>3 DEF BankAcceptsReversal
    <3>2. payment[KeyOfLeg(l)] # "none" /\ pc[l] \in Reversing /\ UNCHANGED pc
      BY <1>3 DEF BankStep, BankAcceptsReversal, WireInv, LegInv, Reversing, Recorded, legVars
    <3>3. payment'[KeyOfLeg(l)] \in TakenBack
      BY <1>3, <3>2 DEF BankAcceptsReversal, TakenBack
    <3> QED
      BY <2>0, <3>1, <3>2, <3>3 DEF WireInv, TakenBack
  <2>2. LegInv'
    BY <1>3, <2>0, EntryKeysDiffer, Messages DEF BankStep, BankAcceptsReversal, WireInv, LegInv, Recorded, Reversing, TakenBack
  <2>3. UndoneInv'
    BY <1>3 DEF BankStep, BankAcceptsReversal, UndoneInv, Reversing, TakenBack, WireInv
  <2>4. StatusInv'
    BY <1>3, <2>0, Plans DEF BankStep, BankAcceptsReversal, LegInv, StatusInv, PlanLegs, Succeeded
  <2>5. BooksFollowTheBank'
    BY <1>3, <2>0, EntryKeysDiffer DEF BankStep, BankAcceptsReversal, LegInv, BooksFollowTheBank, Recorded, Reversing, TakenBack
  <2>6. EventsMatchBatches'
    BY <1>3, <2>0, EntryKeysDiffer DEF BankStep, BankAcceptsReversal, LegInv, EventsMatchBatches
  <2> QED
    BY <1>0, <2>1, <2>2, <2>3, <2>4, <2>5, <2>6 DEF Consistent
<1>4. CASE BankGivesBack(l)
  <2>1. WireInv'
    BY <1>4, Messages DEF BankStep, BankGivesBack, WireInv, LegInv, Reversing, TakenBack
  <2>2. LegInv'
    BY <1>4, EntryKeysDiffer, Messages DEF BankStep, BankGivesBack, WireInv, LegInv, Recorded, Reversing, TakenBack
  <2>3. UndoneInv'
    BY <1>4 DEF BankStep, BankGivesBack, UndoneInv, Reversing, TakenBack, WireInv
  <2>4. StatusInv'
    BY <1>4, Plans DEF BankStep, BankGivesBack, LegInv, StatusInv, PlanLegs, Succeeded
  <2>5. BooksFollowTheBank'
    BY <1>4, EntryKeysDiffer DEF BankStep, BankGivesBack, LegInv, BooksFollowTheBank, Recorded, Reversing, TakenBack
  <2>6. EventsMatchBatches'
    BY <1>4, EntryKeysDiffer DEF BankStep, BankGivesBack, LegInv, EventsMatchBatches
  <2> QED
    BY <1>0, <2>1, <2>2, <2>3, <2>4, <2>5, <2>6 DEF Consistent
<1> QED
  BY <1>1, <1>2, <1>3, <1>4
     DEF BankStep

LEMMA NextConsistent ==
  ASSUME TypeOK, Consistent, [Next]_vars
  PROVE  Consistent'
<1>1. ASSUME NEW l \in Leg, LegStep(l)
      PROVE  Consistent'
  BY <1>1, LegStepConsistent
<1>2. ASSUME NEW t \in Tx, ClientStep(t)
      PROVE  Consistent'
  BY <1>2, ClientStepConsistent
<1>3. ASSUME NEW t \in Tx, CallStep(t)
      PROVE  Consistent'
  BY <1>3, CallStepConsistent
<1>4. ASSUME NEW l \in Leg, BankStep(l)
      PROVE  Consistent'
  BY <1>4, BankStepConsistent
<1>5. CASE ClockStep \/ UNCHANGED vars
  <2>1. UNCHANGED <<bankVars, ledgerVars, txVars, legVars>>
    BY <1>5 DEF ClockStep, vars
  <2> QED
    BY <2>1 DEF bankVars, ledgerVars, txVars, legVars, Consistent, WireInv, LegInv, UndoneInv,
                FiledInv, StatusInv, BooksFollowTheBank, EventsMatchBatches, PlanLegs, Succeeded
<1> QED
  BY <1>1, <1>2, <1>3, <1>4, <1>5 DEF Next, AllReturned

-----------------------------------------------------------------------------
(***************************************************************************)
(* The theorems.                                                           *)
(***************************************************************************)
Inv == TypeOK /\ SagaInv

LEMMA InitInv == Init => Inv
  BY InitTypeOK, InitConsistent, BreakerInitGood DEF Init, Inv, SagaInv, BreakerGood

LEMMA NextInv == Inv /\ [Next]_vars => Inv'
  BY NextTypeOK, NextConsistent, NextBreakerGood DEF Inv, SagaInv, BreakerGood, TypeOK

(* Every variable keeps its type, and the inductive invariant holds. *)
THEOREM SagaAlwaysConsistent == Spec => [](TypeOK /\ SagaInv)
<1>1. Inv => TypeOK /\ SagaInv
  BY DEF Inv
<1> QED
  BY <1>1, InitInv, NextInv, PTL DEF Spec

(* Of a payment reported ROLLED_BACK, every leg that returned without an   *)
(* error has its reversal performed or accepted by its bank, and booked    *)
(* after its settlement: with shared keys, with a failing ledger, whenever *)
(* the banks answer and whatever they do later (executor.go:82-92).        *)
THEOREM RolledBackAlwaysAcknowledged == Spec => []RolledBackIsAcknowledged
<1>1. Inv => RolledBackIsAcknowledged
  <2> SUFFICES ASSUME Inv, NEW t \in Tx, status[t] = "ROLLED_BACK", NEW l \in Succeeded(t)
               PROVE  /\ payment[KeyOfLeg(l)] \in TakenBack
                      /\ {SettleKey(l), ReversalKey(l)} \subseteq entries
    BY DEF RolledBackIsAcknowledged
  <2>1. l \in Leg
    BY Plans DEF Inv
  <2>2. pc[l] = "cdone" /\ ~ compErr[l] /\ ~ legErr[l]
    BY DEF Inv, SagaInv, Consistent, StatusInv, Succeeded
  <2> QED
    BY <2>1, <2>2 DEF Inv, SagaInv, Consistent, LegInv, Recorded
<1> QED
  BY <1>1, InitInv, NextInv, PTL DEF Spec

(* No settlement is booked that no bank took on, no reversal without its   *)
(* settlement, and none the bank has neither performed nor accepted unless *)
(* its leg reports an error (ledger/service.go:30-84, rollback.go:69-77).  *)
THEOREM BooksAlwaysFollowTheBank == Spec => []BooksFollowTheBank
<1>1. Inv => BooksFollowTheBank
  BY DEF Inv, SagaInv, Consistent
<1> QED
  BY <1>1, InitInv, NextInv, PTL DEF Spec

(* The outbox and the ledger agree, although they are written one after    *)
(* the other and either write may fail (ledger/service.go:51-59).          *)
THEOREM EventsAlwaysMatchBatches == Spec => []EventsMatchBatches
<1>1. Inv => EventsMatchBatches
  BY DEF Inv, SagaInv, Consistent
<1> QED
  BY <1>1, InitInv, NextInv, PTL DEF Spec

(* APPROVED is true for good if no two calls share a key: the money is     *)
(* held, booked and announced, and nothing of it is ever undone            *)
(* (executor.go:94, ledger/service.go:51-59).                              *)
THEOREM ApprovedAlwaysHonoured ==
  ASSUME KeysDistinct
  PROVE  Spec => []ApprovedIsHonoured
<1>1. Inv => ApprovedIsHonoured
  <2> SUFFICES ASSUME Inv, NEW t \in Tx, status[t] = "APPROVED", NEW l \in PlanLegs(t)
               PROVE  /\ payment[KeyOfLeg(l)] = "settled"
                      /\ SettleKey(l) \in entries
                      /\ l \in outbox
                      /\ ReversalKey(l) \notin entries
    BY DEF ApprovedIsHonoured
  <2>1. l \in Leg
    BY Plans DEF Inv
  <2>2. pc[l] = "done" /\ ~ legErr[l]
    BY DEF Inv, SagaInv, Consistent, StatusInv
  <2>3. SettleKey(l) \in entries /\ payment[KeyOfLeg(l)] # "none"
    BY <2>1, <2>2 DEF Inv, SagaInv, Consistent, LegInv, Recorded
  <2>4. ASSUME NEW m \in Leg, KeyOfLeg(m) = KeyOfLeg(l)
        PROVE  m = l
    BY <2>1, <2>4, KeyTypes DEF KeysDistinct, KeyOfLeg
  <2>5. ~ \E m \in Leg : KeyOfLeg(m) = KeyOfLeg(l) /\ pc[m] \in Reversing
    BY <2>2, <2>4 DEF Reversing
  <2>6. payment[KeyOfLeg(l)] \notin TakenBack /\ ReversalKey(l) \notin entries
    BY <2>1, <2>5 DEF Inv, SagaInv, Consistent, UndoneInv
  <2>7. payment[KeyOfLeg(l)] \in {"none", "settled"} \cup TakenBack
    BY <2>1, KeyTypes DEF Inv, TypeOK, BankTypeOK, TakenBack
  <2>8. <<l[1], SettleKey(l)>> \in byTx
    BY <2>1, <2>3, <2>4 DEF Inv, SagaInv, Consistent, FiledInv
  <2>9. l \in outbox
    BY <2>1, <2>2, <2>8 DEF Inv, SagaInv, Consistent, EventsMatchBatches
  <2> QED
    BY <2>3, <2>6, <2>7, <2>9
<1> QED
  BY <1>1, InitInv, NextInv, PTL DEF Spec

\* The breaker lets a call through exactly when there is no quarantine.
LEMMA AdmitsOutsideQuarantine ==
  ASSUME Inv, NEW p \in Provider
  PROVE  Admits(p) <=> ~ Quarantined(p)
  BY BreakerAssumption
     DEF Admits, Quarantined, Inv, TypeOK, SagaInv, BreakerTypeOK, BreakerState, BreakerInv,
         CountMatchesState

\* A leg sets out by being let through, and its request leaves afterwards.
LEMMA SetsOut ==
  ASSUME Inv, [Next]_vars, NEW l \in Leg, ~ UnderWay(l)
  PROVE  /\ UnderWay(l)' => Enter(l)
         /\ Msg("pay", l) \notin wire' \ wire
<1>1. ASSUME NEW m \in Leg, LegStep(m)
      PROVE  /\ UnderWay(l)' => Enter(l)
             /\ Msg("pay", l) \notin wire' \ wire
  <2>1. CASE Enter(m)
    BY <1>1, <2>1 DEF Inv, TypeOK, Enter, Goto, UnderWay, bankVars
  <2>2. CASE SendPayment(m)
    <3>1. m # l
      BY <2>2 DEF SendPayment, UnderWay
    <3>2. Msg("pay", l) # Msg("pay", m)
      BY <3>1, Messages
    <3> QED
      BY <2>2, <3>1, <3>2 DEF SendPayment, Inv, TypeOK, Goto, UnderWay
  <2>3. CASE ~ Enter(m) /\ ~ SendPayment(m)
    <3>1. wire' \subseteq wire
      BY <1>1, <2>3
         DEF LegStep, TurnedAway, Unresolved, PaymentFails, PaymentSettles, CheckSettlement,
             SaveSettlement, EnqueueEvent, RecordingFails, ReportResult, ReversalSettles,
             ReversalFails, CheckCompensation, SaveCompensation, CompensationRecordFails, bankVars
    <3>2. ~ UnderWay(l)'
      BY <1>1, <2>3
         DEF LegStep, TurnedAway, Unresolved, PaymentFails, PaymentSettles, CheckSettlement,
             SaveSettlement, EnqueueEvent, RecordingFails, ReportResult, ReversalSettles,
             ReversalFails, CheckCompensation, SaveCompensation, CompensationRecordFails,
             FailLeg, Goto, UnderWay, Inv, TypeOK
    <3> QED
      BY <3>1, <3>2
  <2> QED
    BY <2>1, <2>2, <2>3
<1>2. ASSUME NEW t \in Tx, ClientStep(t) \/ CallStep(t)
      PROVE  ~ UnderWay(l)' /\ Msg("pay", l) \notin wire' \ wire
  <2>1. CASE RollBack(t)
    <3>1. \A m \in Succeeded(t) : Msg("pay", l) # Msg("reverse", m)
      BY Plans, Messages DEF Inv
    <3> QED
      BY <2>1, <3>1 DEF RollBack, UnderWay
  <2>2. CASE ~ RollBack(t)
    BY <1>2, <2>2
       DEF ClientStep, CallStep, Launch, PlanningFails, Approve, NothingToUndo, ConcludeRollback,
           bankVars, legVars, UnderWay
  <2> QED
    BY <2>1, <2>2
<1>3. ASSUME NEW m \in Leg, BankStep(m)
      PROVE  ~ UnderWay(l)' /\ Msg("pay", l) \notin wire' \ wire
  BY <1>3 DEF BankStep, BankPays, BankReverses, BankAcceptsReversal, BankGivesBack, Msg, legVars, UnderWay
<1>4. CASE ClockStep \/ UNCHANGED vars
  BY <1>4 DEF ClockStep, vars, bankVars, legVars, UnderWay
<1> QED
  BY <1>1, <1>2, <1>3, <1>4 DEF Next, AllReturned

(* While a bank is in quarantine, the legs on their way to it only become  *)
(* fewer and no other's request leaves, whichever legs report meanwhile    *)
(* (executor.go:99-128).                                                   *)
THEOREM QuarantineAlwaysOnlyDrains == Spec => QuarantineOnlyDrains
<1> DEFINE Step == \A l \in Leg :
          Quarantined(ProviderOfLeg(l)) /\ ~ UnderWay(l) =>
              ~ UnderWay(l)' /\ Msg("pay", l) \notin wire' \ wire
<1>1. Inv /\ [Next]_vars => [Step]_vars
  <2> SUFFICES ASSUME Inv, [Next]_vars, NEW l \in Leg, Quarantined(ProviderOfLeg(l)), ~ UnderWay(l)
               PROVE  ~ UnderWay(l)' /\ Msg("pay", l) \notin wire' \ wire
    OBVIOUS
  <2>1. ~ Enter(l)
    BY AdmitsOutsideQuarantine, ProviderTypes DEF Enter, Allow
  <2> QED
    BY <2>1, SetsOut
<1> QED
  BY <1>1, InitInv, NextInv, PTL DEF Spec, QuarantineOnlyDrains

(* Only a quarantine keeps a leg out: no leg that was let through and told *)
(* the breaker nothing does (executor.go:99-117).                          *)
THEOREM OnlyQuarantineEverRefuses == Spec => OnlyQuarantineRefuses
<1> DEFINE Step == \A l \in Leg : pc[l] = "ready" /\ legErr'[l] => Quarantined(ProviderOfLeg(l))
<1>1. Inv /\ [Next]_vars => [Step]_vars
  <2> SUFFICES ASSUME Inv, Next, NEW l \in Leg, pc[l] = "ready", legErr'[l]
               PROVE  Quarantined(ProviderOfLeg(l))
    OBVIOUS
  <2>1. ~ legErr[l]
    BY DEF Inv, SagaInv, Consistent, LegInv
  <2>2. TurnedAway(l)
    <3>1. ASSUME NEW m \in Leg, LegStep(m), ~ TurnedAway(m)
          PROVE  pc[m] = "ready" => legErr' = legErr
      BY <3>1
         DEF LegStep, Enter, Unresolved, SendPayment, PaymentFails, PaymentSettles, CheckSettlement,
             SaveSettlement, EnqueueEvent, RecordingFails, ReportResult, ReversalSettles,
             ReversalFails, CheckCompensation, SaveCompensation, CompensationRecordFails
    <3>2. ASSUME NEW m \in Leg \ {l}, LegStep(m)
          PROVE  legErr'[l] = legErr[l]
      BY <3>2
         DEF LegStep, TurnedAway, Enter, Unresolved, SendPayment, PaymentFails, PaymentSettles,
             CheckSettlement, SaveSettlement, EnqueueEvent, RecordingFails, ReportResult,
             ReversalSettles, ReversalFails, CheckCompensation, SaveCompensation,
             CompensationRecordFails, FailLeg, legVars, Inv, TypeOK
    <3>3. (\E m \in Leg : LegStep(m)) \/ legErr' = legErr
      BY DEF Next, ClientStep, CallStep, Launch, PlanningFails, Approve, NothingToUndo, RollBack,
             ConcludeRollback, BankStep, ClockStep, AllReturned, legVars, vars
    <3> QED
      BY <2>1, <3>1, <3>2, <3>3
  <2> QED
    BY <2>2, AdmitsOutsideQuarantine, ProviderTypes DEF TurnedAway, Refuse
<1> QED
  BY <1>1, InitInv, NextInv, PTL DEF Spec, OnlyQuarantineRefuses

(* Breaker, banks, ledger, transactions and legs keep their types at every *)
(* step of every goroutine (executor.go, rollback.go).                     *)
THEOREM SagaTypes == Spec => []TypeOK
  BY SagaAlwaysConsistent, PTL
-----------------------------------------------------------------------------
(***************************************************************************)
(* SagaInv says what a leg has done; the mapping also needs to know whose  *)
(* leg it is and how far its call is.                                      *)
(***************************************************************************)
Forward == {"ready", "admitted", "sent", "check", "save", "enqueue", "report"}

\* Only a leg of the plan runs, forward while its call waits for it and
\* backward once its call rolls back, even if that has ended meanwhile.
PlanInv ==
    /\ \A t \in Tx : status[t] = "AUTHORIZING" => plan[t] # {}
    /\ \A l \in Leg :
        /\ pc[l] # "idle" => l[2] \in plan[l[1]]
        /\ Msg("pay", l) \in wire => pc[l] # "idle"
        /\ pc[l] \in Forward => status[l[1]] = "AUTHORIZING"
        /\ pc[l] \in Reversing => status[l[1]] \in {"ROLLING_BACK", "ROLLED_BACK", "FAILED"}

LEMMA InitPlanInv == Init => PlanInv
  BY KeyTypes DEF Init, BankInit, PlanInv, Forward, Reversing

LEMMA LegStepPlanInv ==
  ASSUME TypeOK, PlanInv, NEW l \in Leg, LegStep(l)
  PROVE  PlanInv'
<1>1. UNCHANGED txVars /\ pc' \in [Leg -> LegPC] /\ pc \in [Leg -> LegPC]
  BY LegStepTypeOK DEF TypeOK
<1>2. ASSUME NEW m \in Leg, Msg("pay", m) \in wire'
      PROVE  Msg("pay", m) \in wire \/ m = l
  BY <1>2, Messages
     DEF LegStep, TurnedAway, Enter, Unresolved, SendPayment, PaymentFails, PaymentSettles,
         CheckSettlement, SaveSettlement, EnqueueEvent, RecordingFails, ReportResult,
         ReversalSettles, ReversalFails, CheckCompensation, SaveCompensation,
         CompensationRecordFails, bankVars
<1>3. /\ \A m \in Leg \ {l} : pc'[m] = pc[m]
      /\ \/ pc[l] \in Forward /\ pc'[l] \in Forward \cup {"done"}
         \/ pc[l] \in Reversing /\ pc'[l] \in Reversing
  BY <1>1
     DEF LegStep, TurnedAway, Enter, Unresolved, SendPayment, PaymentFails, PaymentSettles,
         CheckSettlement, SaveSettlement, EnqueueEvent, RecordingFails, ReportResult,
         ReversalSettles, ReversalFails, CheckCompensation, SaveCompensation,
         CompensationRecordFails, FailLeg, Goto, Forward, Reversing
<1>4. "idle" \notin Forward \cup Reversing \cup {"done"} /\ "done" \notin Forward \cup Reversing
      /\ Forward \cap Reversing = {}
  BY DEF Forward, Reversing
<1> QED
  BY <1>1, <1>2, <1>3, <1>4 DEF PlanInv, txVars

LEMMA CallPlanInv ==
  ASSUME TypeOK, Consistent, PlanInv, NEW t \in Tx, ClientStep(t) \/ CallStep(t)
  PROVE  PlanInv'
<1> USE KeyTypes DEF TypeOK, BankTypeOK, PlanInv
<1>1. ASSUME NEW S \in SUBSET Source, Launch(t, S)
      PROVE  PlanInv'
  <2>1. UNCHANGED wire
    BY <1>1 DEF Launch, bankVars
  <2>2. ASSUME NEW l \in Leg
        PROVE  \/ l[1] # t /\ pc'[l] = pc[l] /\ status'[l[1]] = status[l[1]] /\ plan'[l[1]] = plan[l[1]]
               \/ /\ l[1] = t /\ pc[l] = "idle" /\ status'[t] = "AUTHORIZING" /\ plan'[t] = S
                  /\ pc'[l] = IF l[2] \in S THEN "ready" ELSE "idle"
    <3>1. l \in {<<t, s>> : s \in S} <=> l[1] = t /\ l[2] \in S
      BY <2>2
    <3>2. l[1] = t => pc[l] = "idle"
      BY <1>1 DEF Launch, Consistent, LegInv
    <3> QED
      BY <1>1, <2>2, <3>1, <3>2 DEF Launch
  <2>3. \A u \in Tx : status'[u] = "AUTHORIZING" => plan'[u] # {}
    BY <1>1 DEF Launch
  <2> QED
    BY <2>1, <2>2, <2>3 DEF Forward, Reversing
<1>2. CASE PlanningFails(t)
  BY <1>2 DEF PlanningFails, Consistent, LegInv, Forward, Reversing, legVars, bankVars
<1>3. CASE Approve(t) \/ NothingToUndo(t) \/ ConcludeRollback(t)
  <2>1. UNCHANGED <<wire, pc, plan>>
    BY <1>3 DEF Approve, NothingToUndo, ConcludeRollback, bankVars, legVars
  <2>2. \A u \in Tx \ {t} : status'[u] = status[u]
    BY <1>3 DEF Approve, NothingToUndo, ConcludeRollback
  <2>3. status'[t] \in {"APPROVED", "ROLLED_BACK", "FAILED"}
    BY <1>3 DEF Approve, NothingToUndo, ConcludeRollback
  <2>4. ASSUME NEW l \in Leg, l[1] = t
        PROVE  /\ pc[l] \notin Forward
               /\ pc[l] \in Reversing => status'[t] \in {"ROLLED_BACK", "FAILED"}
    <3>1. CASE Collected(t)
      <4>1. pc[l] # "idle" => pc[l] = "done"
        BY <2>4, <3>1 DEF Collected, PlanLegs
      <4> QED
        BY <4>1 DEF Forward, Reversing
    <3>2. CASE ConcludeRollback(t)
      BY <2>4, <3>2 DEF ConcludeRollback
    <3> QED
      BY <1>3, <3>1, <3>2 DEF Approve, NothingToUndo
  <2> QED
    BY <2>1, <2>2, <2>3, <2>4
<1>4. CASE RollBack(t)
  <2>1. ASSUME NEW l \in Leg, Msg("pay", l) \in wire'
        PROVE  Msg("pay", l) \in wire
    <3>1. \A m \in Succeeded(t) : Msg("pay", l) # Msg("reverse", m)
      BY Plans, Messages
    <3> QED
      BY <1>4, <2>1, <3>1 DEF RollBack
  <2>2. ASSUME NEW l \in Leg
        PROVE  \/ pc'[l] = pc[l]
               \/ l[1] = t /\ pc[l] = "done" /\ pc'[l] = "reversing"
    BY <1>4, Plans DEF RollBack, Collected
  <2>3. /\ UNCHANGED plan
        /\ \A u \in Tx \ {t} : status'[u] = status[u]
        /\ status'[t] = "ROLLING_BACK"
    BY <1>4 DEF RollBack
  <2>4. ASSUME NEW l \in Leg, l[1] = t
        PROVE  pc[l] \in {"idle", "done"}
    BY <1>4, <2>4 DEF RollBack, Collected, PlanLegs
  <2> QED
    BY <2>1, <2>2, <2>3, <2>4 DEF Forward, Reversing
<1> QED
  BY <1>1, <1>2, <1>3, <1>4 DEF ClientStep, CallStep

LEMMA NextPlanInv ==
  ASSUME Inv, PlanInv, [Next]_vars
  PROVE  PlanInv'
<1>1. ASSUME NEW l \in Leg, LegStep(l)
      PROVE  PlanInv'
  BY <1>1, LegStepPlanInv DEF Inv
<1>2. ASSUME NEW t \in Tx, ClientStep(t) \/ CallStep(t)
      PROVE  PlanInv'
  BY <1>2, CallPlanInv DEF Inv, SagaInv
<1>3. ASSUME NEW l \in Leg, BankStep(l)
      PROVE  PlanInv'
  <2>1. ASSUME NEW m \in Leg, Msg("pay", m) \in wire'
        PROVE  Msg("pay", m) \in wire
    BY <1>3, <2>1 DEF BankStep, BankPays, BankReverses, BankAcceptsReversal, BankGivesBack, Msg
  <2> QED
    BY <1>3, <2>1 DEF BankStep, PlanInv, txVars, legVars
<1>4. CASE ClockStep \/ UNCHANGED vars
  BY <1>4 DEF ClockStep, vars, bankVars, txVars, legVars, PlanInv
<1> QED
  BY <1>1, <1>2, <1>3, <1>4 DEF Next, AllReturned

-----------------------------------------------------------------------------
(***************************************************************************)
(* The mapping, step by step.                                              *)
(***************************************************************************)
USE DEF OutcomeOf, MoneyOf, KnownOf

AbstractStep == Promise!Next \/ UNCHANGED Promise!vars

\* With keys of their own, legs have payments of their own.
LEMMA KeysAreOwn ==
  ASSUME KeysDistinct, NEW l \in Leg, NEW m \in Leg, KeyOfLeg(l) = KeyOfLeg(m)
  PROVE  l = m
  BY KeyTypes DEF KeysDistinct, KeyOfLeg

LEMMA BookedRuns ==
  ASSUME PlanInv, NEW t \in Tx, NEW s \in Source, Booked(<<t, s>>)
  PROVE  s \in plan[t] /\ <<t, s>> \in PlanLegs(t) /\ <<t, s>> \in Succeeded(t)
<1>1. <<t, s>> \in Leg /\ pc[<<t, s>>] # "idle"
  BY DEF Leg, Booked
<1>2. s \in plan[t]
  BY <1>1 DEF PlanInv
<1> QED
  BY <1>2 DEF Booked, PlanLegs, Succeeded

LEMMA Stutters ==
  ASSUME UNCHANGED <<status, plan, payment>>, \A l \in Leg : Booked(l)' <=> Booked(l)
  PROVE  UNCHANGED Promise!vars
<1>1. \A t \in Tx : {s \in Source : Booked(<<t, s>>)}' = {s \in Source : Booked(<<t, s>>)}
  BY DEF Leg
<1> QED
  BY <1>1 DEF Promise!vars

\* A leg that has just been booked: the engine learns of its charge.
LEMMA Learns ==
  ASSUME KeysDistinct, Inv, PlanInv, NEW l \in Leg,
         pc[l] \in Forward, ~ Booked(l), pc[l] # "report",
         UNCHANGED <<status, plan, payment>>,
         payment[KeyOfLeg(l)] # "none", Booked(l)',
         \A m \in Leg \ {l} : Booked(m)' <=> Booked(m)
  PROVE  AbstractStep
<1> DEFINE t == l[1]
           s == l[2]
<1>1. t \in Tx /\ s \in Source /\ l = <<t, s>>
  BY KeyTypes
<1>2. Outcome(status[t]) = "open"
  BY DEF PlanInv, Outcome
<1>3. payment[KeyOfLeg(l)] = "settled"
  <2>1. payment[KeyOfLeg(l)] \notin TakenBack
    BY KeysAreOwn DEF Inv, SagaInv, Consistent, UndoneInv, Forward, Reversing
  <2>2. payment[KeyOfLeg(l)] \in {"none", "settled"} \cup TakenBack
    BY KeyTypes DEF Inv, TypeOK, BankTypeOK, TakenBack
  <2> QED
    BY <2>1, <2>2
<1>4. ASSUME NEW u \in Tx
      PROVE  {x \in Source : Booked(<<u, x>>)}' =
             IF u = t THEN {x \in Source : Booked(<<u, x>>)} \cup {s}
                      ELSE {x \in Source : Booked(<<u, x>>)}
  <2>1. \A x \in Source : <<u, x>> \in Leg /\ (<<u, x>> = l <=> u = t /\ x = s)
    BY <1>1 DEF Leg
  <2> QED
    BY <1>1, <2>1
<1>5. Promise!Learn(t, s)
  BY <1>1, <1>2, <1>3, <1>4 DEF Promise!Learn, Leg
<1> QED
  BY <1>1, <1>5 DEF AbstractStep, Promise!Next

LEMMA Outcomes ==
  /\ Outcome("none") = "none"
  /\ Outcome("AUTHORIZING") = "open"
  /\ Outcome("ROLLING_BACK") = "undoing"
  /\ Outcome("APPROVED") = "APPROVED"
  /\ Outcome("ROLLED_BACK") = "ROLLED_BACK"
  /\ Outcome("FAILED") = "FAILED"
  BY DEF Outcome

LEMMA LegStepKeeps ==
  ASSUME KeysDistinct, Inv, PlanInv, NEW l \in Leg, LegStep(l)
  PROVE  AbstractStep
<1> USE DEF Goto, txVars, bankVars, legVars
<1>0. /\ pc \in [Leg -> LegPC] /\ legErr \in [Leg -> BOOLEAN]
      /\ legStatus \in [Leg -> {"PENDING", "SETTLED", "FAILED"}]
  BY DEF Inv, TypeOK
<1>1. CASE TurnedAway(l) \/ Unresolved(l) \/ PaymentFails(l)
  BY <1>0, <1>1, Stutters DEF TurnedAway, Unresolved, PaymentFails, FailLeg, Booked, AbstractStep
<1>2. CASE Enter(l) \/ SendPayment(l) \/ PaymentSettles(l) \/ SaveSettlement(l)
  BY <1>0, <1>2, Stutters DEF Enter, SendPayment, PaymentSettles, SaveSettlement, Booked, AbstractStep
<1>3. CASE RecordingFails(l) \/ ReportResult(l)
  BY <1>0, <1>3, Stutters DEF RecordingFails, ReportResult, Booked, AbstractStep
<1>4. CASE ReversalSettles(l) \/ ReversalFails(l)
  BY <1>0, <1>4, Stutters DEF ReversalSettles, ReversalFails, Booked, AbstractStep
<1>5. CASE CheckCompensation(l) \/ SaveCompensation(l) \/ CompensationRecordFails(l)
  BY <1>0, <1>5, Stutters
     DEF CheckCompensation, SaveCompensation, CompensationRecordFails, Booked, AbstractStep
<1>6. CASE CheckSettlement(l) \/ EnqueueEvent(l)
  <2>1. UNCHANGED <<status, plan, payment, legErr>>
    BY <1>6 DEF CheckSettlement, EnqueueEvent
  <2>2. pc[l] \in {"check", "enqueue"} /\ \A m \in Leg \ {l} : Booked(m)' <=> Booked(m)
    BY <1>0, <1>6 DEF CheckSettlement, EnqueueEvent, Booked
  <2>3. ~ Booked(l) /\ pc[l] \in Forward /\ pc[l] # "report"
    BY <2>2 DEF Booked, Forward
  <2>4. payment[KeyOfLeg(l)] # "none"
    BY <2>2 DEF Inv, SagaInv, Consistent, LegInv
  <2>5. CASE Booked(l)'
    BY <2>1, <2>2, <2>3, <2>4, <2>5, Learns
  <2>6. CASE ~ Booked(l)'
    BY <2>1, <2>2, <2>3, <2>6, Stutters DEF AbstractStep
  <2> QED
    BY <2>5, <2>6
<1> QED
  BY <1>1, <1>2, <1>3, <1>4, <1>5, <1>6 DEF LegStep

\* What the engine knows does not change while nothing is booked.
LEMMA KnownStays ==
  ASSUME \A l \in Leg : Booked(l)' <=> Booked(l)
  PROVE  [t \in Tx |-> {s \in Source : Booked(<<t, s>>)}]'
         = [t \in Tx |-> {s \in Source : Booked(<<t, s>>)}]
  BY DEF Leg

LEMMA StatusMoves ==
  ASSUME TypeOK, NEW t \in Tx, NEW st, NEW out, Outcome(st) = out,
         status' = [status EXCEPT ![t] = st]
  PROVE  [u \in Tx |-> Outcome(status[u])]'
         = [[u \in Tx |-> Outcome(status[u])] EXCEPT ![t] = out]
  BY DEF TypeOK

LEMMA CallStepKeeps ==
  ASSUME KeysDistinct, Inv, PlanInv, NEW t \in Tx, CallStep(t)
  PROVE  AbstractStep
<1> DEFINE Known(u) == {s \in Source : Booked(<<u, s>>)}
<1> USE DEF legVars, bankVars
<1>1. TypeOK /\ Known(t) \subseteq plan[t] /\ plan[t] \subseteq Source
  BY BookedRuns DEF Inv, TypeOK
<1>2. UNCHANGED <<plan, payment>>
  BY DEF CallStep, Approve, NothingToUndo, RollBack, ConcludeRollback
<1>3. \A l \in Leg : Booked(l)' <=> Booked(l)
  BY <1>1, Plans
     DEF CallStep, Approve, NothingToUndo, RollBack, ConcludeRollback, Collected, Booked, TypeOK
<1>4. Collected(t) => \A s \in plan[t] : s \in Known(t) <=> <<t, s>> \in Succeeded(t)
  BY <1>1 DEF Collected, PlanLegs, Succeeded, Booked
<1>5. CASE Approve(t)
  <2>1. Known(t) = plan[t]
    BY <1>1, <1>4, <1>5 DEF Approve, PlanLegs
  <2>2. Outcome(status[t]) = "open"
    BY <1>5, Outcomes DEF Approve, Collected
  <2>3. [u \in Tx |-> Outcome(status[u])]'
        = [[u \in Tx |-> Outcome(status[u])] EXCEPT ![t] = "APPROVED"]
    <3>1. Outcome("APPROVED") = "APPROVED" /\ status' = [status EXCEPT ![t] = "APPROVED"]
      BY <1>5, Outcomes DEF Approve
    <3> QED
      BY <1>1, <3>1, StatusMoves
  <2>4. Promise!Approve(t)
    BY <1>2, <1>3, <2>1, <2>2, <2>3, KnownStays DEF Promise!Approve
  <2> QED
    BY <2>4 DEF AbstractStep, Promise!Next
<1>6. CASE NothingToUndo(t)
  <2>1. Known(t) = {} /\ plan[t] # {}
    BY <1>1, <1>4, <1>6 DEF NothingToUndo, Collected, PlanInv
  <2>2. Outcome(status[t]) = "open"
    BY <1>6, Outcomes DEF NothingToUndo, Collected
  <2>3. [u \in Tx |-> Outcome(status[u])]'
        = [[u \in Tx |-> Outcome(status[u])] EXCEPT ![t] = "ROLLED_BACK"]
    <3>1. Outcome("ROLLED_BACK") = "ROLLED_BACK" /\ status' = [status EXCEPT ![t] = "ROLLED_BACK"]
      BY <1>6, Outcomes DEF NothingToUndo
    <3> QED
      BY <1>1, <3>1, StatusMoves
  <2>4. Promise!RolledBack(t)
    BY <1>2, <1>3, <2>1, <2>2, <2>3, KnownStays DEF Promise!RolledBack
  <2> QED
    BY <2>4 DEF AbstractStep, Promise!Next
<1>7. CASE RollBack(t)
  <2>1. Known(t) # plan[t]
    BY <1>1, <1>4, <1>7 DEF RollBack, PlanLegs, Succeeded
  <2>2. Outcome(status[t]) = "open"
    BY <1>7, Outcomes DEF RollBack, Collected
  <2>3. [u \in Tx |-> Outcome(status[u])]'
        = [[u \in Tx |-> Outcome(status[u])] EXCEPT ![t] = "undoing"]
    <3>1. Outcome("ROLLING_BACK") = "undoing" /\ status' = [status EXCEPT ![t] = "ROLLING_BACK"]
      BY <1>7, Outcomes DEF RollBack
    <3> QED
      BY <1>1, <3>1, StatusMoves
  <2>4. Promise!Undo(t)
    BY <1>2, <1>3, <2>1, <2>2, <2>3, KnownStays DEF Promise!Undo
  <2> QED
    BY <2>4 DEF AbstractStep, Promise!Next
<1>8. CASE ConcludeRollback(t)
  <2>1. Outcome(status[t]) = "undoing"
    BY <1>8, Outcomes DEF ConcludeRollback
  <2>2. CASE \E l \in Succeeded(t) : compErr[l]
    <3>1. [u \in Tx |-> Outcome(status[u])]'
          = [[u \in Tx |-> Outcome(status[u])] EXCEPT ![t] = "FAILED"]
      BY <1>1, <1>8, <2>2, StatusMoves, Outcomes DEF ConcludeRollback
    <3>2. Promise!Fail(t)
      BY <1>2, <1>3, <2>1, <3>1, KnownStays DEF Promise!Fail
    <3> QED
      BY <3>2 DEF AbstractStep, Promise!Next
  <2>3. CASE \A l \in Succeeded(t) : ~ compErr[l]
    <3>1. ASSUME NEW s \in Known(t)
          PROVE  payment[KeyOfLeg(<<t, s>>)] \in TakenBack /\ <<t, s>> \in Leg
      <4>1. <<t, s>> \in Leg /\ <<t, s>> \in Succeeded(t)
        BY BookedRuns DEF Leg
      <4> QED
        BY <1>8, <2>3, <4>1 DEF ConcludeRollback, Inv, SagaInv, Consistent, LegInv
    <3>2. [u \in Tx |-> Outcome(status[u])]'
          = [[u \in Tx |-> Outcome(status[u])] EXCEPT ![t] = "ROLLED_BACK"]
      BY <1>1, <1>8, <2>3, StatusMoves, Outcomes DEF ConcludeRollback
    <3>3. Promise!RolledBack(t)
      BY <1>2, <1>3, <2>1, <3>1, <3>2, KnownStays DEF Promise!RolledBack, Promise!TakenBack, TakenBack
    <3> QED
      BY <3>3 DEF AbstractStep, Promise!Next
  <2> QED
    BY <2>2, <2>3
<1> QED
  BY <1>5, <1>6, <1>7, <1>8 DEF CallStep

LEMMA ClientStepKeeps ==
  ASSUME Inv, NEW t \in Tx, ClientStep(t)
  PROVE  AbstractStep
<1> USE DEF legVars, bankVars
<1>1. TypeOK /\ Consistent
  BY DEF Inv, SagaInv
<1>2. ASSUME status[t] = "none"
      PROVE  Outcome(status[t]) = "none"
  BY <1>2, Outcomes
<1>3. ASSUME NEW S \in SUBSET Source, Launch(t, S)
      PROVE  AbstractStep
  <2>1. \A l \in Leg : Booked(l)' <=> Booked(l)
    <3> SUFFICES ASSUME NEW l \in Leg
                 PROVE  Booked(l)' <=> Booked(l)
      OBVIOUS
    <3>1. CASE l \in {<<t, s>> : s \in S}
      <4>1. pc[l] = "idle" /\ pc'[l] = "ready"
        <5>1. l[1] = t
          BY <3>1
        <5> QED
          BY <1>1, <1>3, <3>1, <5>1 DEF Launch, LegInv, Consistent
      <4> QED
        BY <4>1 DEF Booked
    <3>2. CASE l \notin {<<t, s>> : s \in S}
      BY <1>3, <3>2 DEF Launch, Booked
    <3> QED
      BY <3>1, <3>2
  <2>2. Outcome("AUTHORIZING") = "open" /\ status' = [status EXCEPT ![t] = "AUTHORIZING"]
    BY <1>3, Outcomes DEF Launch
  <2>3. [u \in Tx |-> Outcome(status[u])]'
        = [[u \in Tx |-> Outcome(status[u])] EXCEPT ![t] = "open"]
    BY <1>1, <2>2, StatusMoves
  <2>4. Promise!Accept(t, S)
    BY <1>2, <1>3, <2>1, <2>3, KnownStays DEF Launch, Promise!Accept
  <2> QED
    BY <2>4 DEF AbstractStep, Promise!Next
<1>4. CASE PlanningFails(t)
  <2>1. \A l \in Leg : Booked(l)' <=> Booked(l)
    BY <1>4 DEF PlanningFails, Booked
  <2>2. Outcome("FAILED") = "FAILED" /\ status' = [status EXCEPT ![t] = "FAILED"]
    BY <1>4, Outcomes DEF PlanningFails
  <2>3. [u \in Tx |-> Outcome(status[u])]'
        = [[u \in Tx |-> Outcome(status[u])] EXCEPT ![t] = "FAILED"]
    BY <1>1, <2>2, StatusMoves
  <2>4. Promise!Decline(t)
    BY <1>2, <1>4, <2>1, <2>3, KnownStays DEF PlanningFails, Promise!Decline
  <2> QED
    BY <2>4 DEF AbstractStep, Promise!Next
<1> QED
  BY <1>3, <1>4 DEF ClientStep

\* What a bank does for a leg happens to that leg's money alone.
LEMMA MoneyMoves ==
  ASSUME KeysDistinct, TypeOK, NEW l \in Leg, NEW what,
         payment' = [payment EXCEPT ![KeyOfLeg(l)] = what]
  PROVE  [m \in Leg |-> payment[KeyOfLeg(m)]]'
         = [[m \in Leg |-> payment[KeyOfLeg(m)]] EXCEPT ![l] = what]
  BY KeyTypes, KeysAreOwn DEF TypeOK, BankTypeOK

LEMMA BankStepKeeps ==
  ASSUME KeysDistinct, Inv, PlanInv, NEW l \in Leg, BankStep(l)
  PROVE  AbstractStep
<1> DEFINE t == l[1]
           s == l[2]
           money == payment[KeyOfLeg(l)]
<1> USE DEF txVars, legVars
<1>1. t \in Tx /\ s \in Source /\ l = <<t, s>> /\ KeyOfLeg(l) \in LegKey
  BY KeyTypes
<1>2. TypeOK /\ Consistent /\ money \in {"none", "settled"} \cup TakenBack
  BY <1>1 DEF Inv, SagaInv, TypeOK, BankTypeOK, TakenBack
<1>3. UNCHANGED <<status, plan>> /\ \A m \in Leg : Booked(m)' <=> Booked(m)
  BY DEF BankStep, Booked
<1>4. CASE UNCHANGED payment
  BY <1>3, <1>4, Stutters DEF AbstractStep
<1>5. CASE BankPays(l) /\ money = "none"
  <2>1. payment' = [payment EXCEPT ![KeyOfLeg(l)] = "settled"]
    BY <1>1, <1>2, <1>5 DEF BankPays, TypeOK, BankTypeOK
  <2>2. s \in plan[t]
    BY <1>5 DEF BankPays, PlanInv
  <2>3. [m \in Leg |-> payment[KeyOfLeg(m)]]'
        = [[m \in Leg |-> payment[KeyOfLeg(m)]] EXCEPT ![l] = "settled"]
    BY <1>2, <2>1, MoneyMoves
  <2>4. Promise!Take(t, s)
    BY <1>1, <1>3, <1>5, <2>2, <2>3, KnownStays DEF Promise!Take
  <2> QED
    BY <1>1, <2>4 DEF AbstractStep, Promise!Next
<1>6. CASE (BankReverses(l) \/ BankAcceptsReversal(l)) /\ money = "settled"
  <2>1. PICK m \in TakenBack : payment' = [payment EXCEPT ![KeyOfLeg(l)] = m]
    <3>1. CASE BankReverses(l)
      BY <3>1 DEF BankReverses, TakenBack
    <3>2. CASE BankAcceptsReversal(l)
      BY <1>1, <1>2, <1>6, <3>2 DEF BankAcceptsReversal, TakenBack, TypeOK, BankTypeOK
    <3> QED
      BY <1>6, <3>1, <3>2
  <2>2. pc[l] \in Reversing /\ Booked(l)
    BY <1>2, <1>6 DEF BankReverses, BankAcceptsReversal, Consistent, WireInv, LegInv, Reversing, Booked
  <2>3. status[t] # "ROLLED_BACK"
    <3> SUFFICES ASSUME status[t] = "ROLLED_BACK"
                 PROVE  FALSE
      OBVIOUS
    <3>1. l \in Succeeded(t)
      BY <1>1, <2>2, BookedRuns
    <3>2. pc[l] = "cdone" /\ ~ compErr[l]
      BY <1>1, <1>2, <3>1 DEF Consistent, StatusInv
    <3>3. money \in TakenBack
      BY <1>2, <3>2 DEF Consistent, LegInv
    <3> QED
      BY <1>6, <3>3 DEF TakenBack
  <2>4. Outcome(status[t]) \in {"undoing", "FAILED"}
    BY <2>2, <2>3, Outcomes DEF PlanInv
  <2>5. [x \in Leg |-> payment[KeyOfLeg(x)]]'
        = [[x \in Leg |-> payment[KeyOfLeg(x)]] EXCEPT ![l] = m]
    BY <1>2, <2>1, MoneyMoves
  <2>6. m \in Promise!TakenBack
    BY <2>1 DEF TakenBack, Promise!TakenBack
  <2>7. Promise!TakeBack(t, s)
    BY <1>1, <1>3, <1>6, <2>2, <2>4, <2>5, <2>6, KnownStays DEF Promise!TakeBack
  <2> QED
    BY <1>1, <2>7 DEF AbstractStep, Promise!Next
<1>7. CASE (BankReverses(l) \/ BankGivesBack(l)) /\ money = "returning"
  <2>1. payment' = [payment EXCEPT ![KeyOfLeg(l)] = "reversed"]
    BY <1>7 DEF BankReverses, BankGivesBack
  <2>2. [x \in Leg |-> payment[KeyOfLeg(x)]]'
        = [[x \in Leg |-> payment[KeyOfLeg(x)]] EXCEPT ![l] = "reversed"]
    BY <1>2, <2>1, MoneyMoves
  <2>3. Promise!Return(t, s)
    BY <1>1, <1>3, <1>7, <2>2, KnownStays DEF Promise!Return
  <2> QED
    BY <1>1, <2>3 DEF AbstractStep, Promise!Next
<1>9. BankPays(l) /\ money # "none" => UNCHANGED payment
  BY <1>1, <1>2 DEF BankPays, TypeOK, BankTypeOK
<1>10. BankReverses(l) \/ BankAcceptsReversal(l) => money # "none"
  BY <1>2 DEF BankReverses, BankAcceptsReversal, Consistent, WireInv, LegInv, Reversing, Recorded
<1>11. \/ BankReverses(l) /\ money = "reversed"
       \/ BankAcceptsReversal(l) /\ money \in TakenBack
       => UNCHANGED payment
  BY <1>1, <1>2 DEF BankReverses, BankAcceptsReversal, TypeOK, BankTypeOK, TakenBack
<1>12. BankGivesBack(l) => money = "returning"
  BY DEF BankGivesBack
<1> QED
  BY <1>2, <1>4, <1>5, <1>6, <1>7, <1>9, <1>10, <1>11, <1>12 DEF BankStep, TakenBack

LEMMA NextKeeps ==
  ASSUME KeysDistinct, Inv, PlanInv, [Next]_vars
  PROVE  AbstractStep
<1>1. CASE ClockStep \/ UNCHANGED vars
  <2>1. UNCHANGED <<status, plan, payment, pc, legErr>>
    BY <1>1 DEF ClockStep, vars, bankVars, txVars, legVars
  <2> QED
    BY <2>1, Stutters DEF Booked, AbstractStep
<1> QED
  BY <1>1, LegStepKeeps, CallStepKeeps, ClientStepKeeps, BankStepKeeps DEF Next, AllReturned

LEMMA InitKeeps ==
  ASSUME Init
  PROVE  Promise!Init
<1>1. Outcome("none") = "none"
  BY Outcomes
<1>2. [t \in Tx |-> Outcome(status[t])] = [t \in Tx |-> "none"]
  BY <1>1 DEF Init
<1>3. [l \in Leg |-> payment[KeyOfLeg(l)]] = [l \in Leg |-> "none"]
  BY KeyTypes DEF Init, BankInit
<1>4. \A t \in Tx : {s \in Source : Booked(<<t, s>>)} = {}
  BY DEF Init, Booked, Leg
<1> QED
  BY <1>2, <1>3, <1>4 DEF Promise!Init, Init, Leg

-----------------------------------------------------------------------------
(* Every step of the engine, the banks and the clock is one the promise    *)
(* allows, if no two calls share a key: nothing is approved that is not    *)
(* charged everywhere, no reversal asked for of what the engine has not    *)
(* seen settle, nothing called rolled back that is known and not returned  *)
(* (executor.go:82-95, rollback.go:69-77).                                 *)
THEOREM EngineKeepsPromise ==
  ASSUME KeysDistinct
  PROVE  Spec => KeepsPromise
<1>1. Init => Inv /\ PlanInv /\ Promise!Init
  BY InitInv, InitPlanInv, InitKeeps
<1>2. Inv /\ PlanInv /\ [Next]_vars => Inv' /\ PlanInv'
  BY NextInv, NextPlanInv
<1>3. Inv /\ PlanInv /\ [Next]_vars => [Promise!Next]_(Promise!vars)
  BY NextKeeps DEF AbstractStep
<1> QED
  BY <1>1, <1>2, <1>3, PTL DEF Spec, KeepsPromise, Promise!Spec

-----------------------------------------------------------------------------
(***************************************************************************)
(* What the promise amounts to, said of its variables alone: how the       *)
(* engine maps to them is not used.                                        *)
(***************************************************************************)
HIDE DEF OutcomeOf, MoneyOf, KnownOf

\* What is known to be charged was charged, and money goes back only when a
\* payment is undone, and then only what is known.
PaymentInv(t) ==
    /\ \A s \in KnownOf[t] : MoneyOf[<<t, s>>] # "none"
    /\ OutcomeOf[t] = "APPROVED" => KnownOf[t] = plan[t]
    /\ OutcomeOf[t] = "ROLLED_BACK" =>
          \A s \in KnownOf[t] : MoneyOf[<<t, s>>] \in Promise!TakenBack
    /\ \A s \in Source : MoneyOf[<<t, s>>] \in Promise!TakenBack =>
          s \in KnownOf[t] /\ OutcomeOf[t] \in {"undoing", "ROLLED_BACK", "FAILED"}

PromiseInv == Promise!TypeOK /\ \A t \in Tx : PaymentInv(t)

LEMMA InitPromiseInv == Promise!Init => PromiseInv
  BY DEF Promise!Init, PromiseInv, PaymentInv, Promise!TypeOK, Promise!TakenBack, Promise!Final

\* A payment that a step does not touch.
LEMMA Untouched ==
  ASSUME NEW t \in Tx, PaymentInv(t),
         UNCHANGED <<OutcomeOf[t], plan[t], KnownOf[t]>>,
         Promise!TypeOK, \A s \in Source : MoneyOf'[<<t, s>>] = MoneyOf[<<t, s>>]
  PROVE  PaymentInv(t)'
  BY DEF PaymentInv, Promise!TypeOK

LEMMA OutcomeStep ==
  ASSUME PromiseInv, NEW t \in Tx,
         \/ \E S \in SUBSET Source : Promise!Accept(t, S)
         \/ Promise!Decline(t)
         \/ Promise!Approve(t)
         \/ Promise!Undo(t)
         \/ Promise!RolledBack(t)
         \/ Promise!Fail(t)
  PROVE  PromiseInv'
<1>1. /\ UNCHANGED <<MoneyOf, KnownOf>>
      /\ \A u \in Tx \ {t} : OutcomeOf'[u] = OutcomeOf[u] /\ plan'[u] = plan[u]
  BY DEF Promise!Accept, Promise!Decline, Promise!Approve, Promise!Undo, Promise!RolledBack, Promise!Fail, PromiseInv, Promise!TypeOK
<1>2. Promise!TypeOK'
  BY DEF Promise!Accept, Promise!Decline, Promise!Approve, Promise!Undo, Promise!RolledBack, Promise!Fail, PromiseInv, Promise!TypeOK, Promise!Final
<1>3. ASSUME NEW u \in Tx \ {t}
      PROVE  PaymentInv(u)'
  BY <1>1, <1>3, Untouched DEF PromiseInv
<1>4. PaymentInv(t)'
  <2> USE <1>1 DEF PromiseInv, PaymentInv, Promise!TypeOK
  <2>1. ASSUME NEW S \in SUBSET Source, Promise!Accept(t, S)
        PROVE  PaymentInv(t)'
    BY <2>1 DEF Promise!Accept
  <2>2. CASE Promise!Decline(t)
    BY <2>2 DEF Promise!Decline
  <2>3. CASE Promise!Approve(t)
    BY <2>3 DEF Promise!Approve
  <2>4. CASE Promise!Undo(t)
    BY <2>4 DEF Promise!Undo
  <2>5. CASE Promise!RolledBack(t)
    BY <2>5 DEF Promise!RolledBack
  <2>6. CASE Promise!Fail(t)
    BY <2>6 DEF Promise!Fail
  <2> QED
    BY <2>1, <2>2, <2>3, <2>4, <2>5, <2>6
<1> QED
  BY <1>2, <1>3, <1>4 DEF PromiseInv

LEMMA MoneyStep ==
  ASSUME PromiseInv, NEW t \in Tx, NEW s \in Source, \/ Promise!Take(t, s) \/ Promise!Learn(t, s)
         \/ Promise!TakeBack(t, s) \/ Promise!Return(t, s)
  PROVE  PromiseInv'
<1>1. Promise!TypeOK'
  BY DEF Promise!Take, Promise!Learn, Promise!TakeBack, Promise!Return, Promise!TakenBack, PromiseInv, Promise!TypeOK
<1>2. /\ UNCHANGED <<OutcomeOf, plan>>
      /\ \A u \in Tx, x \in Source : <<u, x>> # <<t, s>> => MoneyOf'[<<u, x>>] = MoneyOf[<<u, x>>]
      /\ \A u \in Tx \ {t} : KnownOf'[u] = KnownOf[u]
  BY DEF Promise!Take, Promise!Learn, Promise!TakeBack, Promise!Return, Promise!TakenBack, PromiseInv, Promise!TypeOK
<1>3. ASSUME NEW u \in Tx \ {t}
      PROVE  PaymentInv(u)'
  BY <1>2, <1>3, Untouched DEF PromiseInv
<1>4. PaymentInv(t)'
  <2> USE <1>2 DEF PromiseInv, PaymentInv, Promise!TypeOK, Promise!TakenBack
  <2>1. CASE Promise!Take(t, s)
    <3>1. MoneyOf'[<<t, s>>] = "settled" /\ s \notin KnownOf[t] /\ UNCHANGED KnownOf
      BY <2>1 DEF Promise!Take
    <3> QED
      BY <3>1
  <2>2. CASE Promise!Learn(t, s)
    <3>1. UNCHANGED MoneyOf /\ MoneyOf[<<t, s>>] = "settled" /\ KnownOf'[t] = KnownOf[t] \cup {s}
      BY <2>2 DEF Promise!Learn
    <3> QED
      BY <2>2, <3>1 DEF Promise!Learn
  <2>3. CASE Promise!TakeBack(t, s)
    <3>1. MoneyOf'[<<t, s>>] \in Promise!TakenBack /\ UNCHANGED KnownOf
      BY <2>3 DEF Promise!TakeBack
    <3> QED
      BY <2>3, <3>1 DEF Promise!TakeBack
  <2>4. CASE Promise!Return(t, s)
    <3>1. MoneyOf'[<<t, s>>] = "reversed" /\ UNCHANGED KnownOf
      BY <2>4 DEF Promise!Return
    <3> QED
      BY <2>4, <3>1 DEF Promise!Return
  <2> QED
    BY <2>1, <2>2, <2>3, <2>4
<1> QED
  BY <1>1, <1>3, <1>4 DEF PromiseInv

LEMMA NextPromiseInv == PromiseInv /\ [Promise!Next]_Promise!vars => PromiseInv'
<1> SUFFICES ASSUME PromiseInv, [Promise!Next]_Promise!vars
             PROVE  PromiseInv'
  OBVIOUS
<1>1. CASE UNCHANGED Promise!vars
  BY <1>1 DEF Promise!vars, PromiseInv, PaymentInv, Promise!TypeOK
<1> QED
  BY <1>1, OutcomeStep, MoneyStep DEF Promise!Next

(* An approved payment is held from every source of its plan; of a rolled  *)
(* back one, every source known to be charged has its money back or its    *)
(* bank's word for it; money goes back only where a charge was known       *)
(* (executor.go:82-95).                                                    *)
THEOREM PromiseIsAllOrNothing == Promise!Spec => []Promise!AllOrNothing
<1>1. PromiseInv => Promise!AllOrNothing
  BY DEF PromiseInv, PaymentInv, Promise!TypeOK, Promise!AllOrNothing
<1> QED
  BY <1>1, InitPromiseInv, NextPromiseInv, PTL DEF Promise!Spec

(* With keys of their own, no two calls of the engine mix up their money:  *)
(* what is APPROVED is held from every source of its plan, what is         *)
(* ROLLED_BACK was given back, or accepted to be, for every source that    *)
(* the engine booked, and a bank returns only what was booked              *)
(* (executor.go:82-95, rollback.go:69-77).                                 *)
THEOREM EngineIsAllOrNothing ==
  ASSUME KeysDistinct
  PROVE  Spec => []Promise!AllOrNothing
  BY EngineKeepsPromise, PromiseIsAllOrNothing, PTL DEF KeepsPromise
=============================================================================
