--------------------------- MODULE PaymentPromise ---------------------------
(***************************************************************************)
(* What POST /v1/payments/authorize promises, without legs, goroutines,    *)
(* messages, breaker or ledger: a payment is taken from every source of    *)
(* its plan, or the money known to be taken is given back, or the payment  *)
(* ends FAILED and says so.  The promise is weaker than all-or-nothing in  *)
(* two respects, which are the code's: a source may be charged without the *)
(* engine learning of it, at any time, and such a charge is not undone;    *)
(* and money is as good as back when its bank has accepted to return it.   *)
(***************************************************************************)
CONSTANTS Tx, Source

VARIABLES
    outcome,    \* of a payment: "none", "open", "undoing" or final
    plan,       \* the sources it is to be taken from
    money,      \* what happened to a source's share: "returning" once the bank
                \* has accepted to give it back, "reversed" once it has
    known       \* the sources the engine knows to be charged, and has booked

vars == <<outcome, plan, money, known>>

Final == {"APPROVED", "ROLLED_BACK", "FAILED"}

TakenBack == {"returning", "reversed"}

TypeOK ==
    /\ outcome \in [Tx -> {"none", "open", "undoing"} \cup Final]
    /\ plan \in [Tx -> SUBSET Source]
    /\ money \in [Tx \X Source -> {"none", "settled"} \cup TakenBack]
    /\ known \in [Tx -> SUBSET Source]

Init ==
    /\ outcome = [t \in Tx |-> "none"]
    /\ plan = [t \in Tx |-> {}]
    /\ money = [l \in Tx \X Source |-> "none"]
    /\ known = [t \in Tx |-> {}]

-----------------------------------------------------------------------------
Accept(t, S) ==
    /\ outcome[t] = "none"
    /\ outcome' = [outcome EXCEPT ![t] = "open"]
    /\ plan' = [plan EXCEPT ![t] = S]
    /\ UNCHANGED <<money, known>>

Decline(t) ==
    /\ outcome[t] = "none"
    /\ outcome' = [outcome EXCEPT ![t] = "FAILED"]
    /\ UNCHANGED <<plan, money, known>>

\* The bank charges a source, possibly after the payment is over.
Take(t, s) ==
    /\ s \in plan[t]
    /\ money[<<t, s>>] = "none"
    /\ money' = [money EXCEPT ![<<t, s>>] = "settled"]
    /\ UNCHANGED <<outcome, plan, known>>

Learn(t, s) ==
    /\ outcome[t] = "open"
    /\ money[<<t, s>>] = "settled"
    /\ known' = [known EXCEPT ![t] = @ \cup {s}]
    /\ UNCHANGED <<outcome, plan, money>>

Approve(t) ==
    /\ outcome[t] = "open"
    /\ known[t] = plan[t]
    /\ outcome' = [outcome EXCEPT ![t] = "APPROVED"]
    /\ UNCHANGED <<plan, money, known>>

Undo(t) ==
    /\ outcome[t] = "open"
    /\ known[t] # plan[t]
    /\ outcome' = [outcome EXCEPT ![t] = "undoing"]
    /\ UNCHANGED <<plan, money, known>>

\* The bank gives a known charge back or accepts to; the answer may be too
\* late for the payment to be called rolled back.
TakeBack(t, s) ==
    /\ outcome[t] \in {"undoing", "FAILED"}
    /\ s \in known[t]
    /\ money[<<t, s>>] = "settled"
    /\ \E m \in TakenBack : money' = [money EXCEPT ![<<t, s>>] = m]
    /\ UNCHANGED <<outcome, plan, known>>

\* What was accepted is done, at any time, if ever.
Return(t, s) ==
    /\ money[<<t, s>>] = "returning"
    /\ money' = [money EXCEPT ![<<t, s>>] = "reversed"]
    /\ UNCHANGED <<outcome, plan, known>>

\* Every known charge was given back or is to be, or there was none.
RolledBack(t) ==
    /\ \/ outcome[t] = "undoing"
       \/ outcome[t] = "open" /\ known[t] # plan[t]
    /\ \A s \in known[t] : money[<<t, s>>] \in TakenBack
    /\ outcome' = [outcome EXCEPT ![t] = "ROLLED_BACK"]
    /\ UNCHANGED <<plan, money, known>>

Fail(t) ==
    /\ outcome[t] = "undoing"
    /\ outcome' = [outcome EXCEPT ![t] = "FAILED"]
    /\ UNCHANGED <<plan, money, known>>

Next ==
    \E t \in Tx :
        \/ \E S \in SUBSET Source : Accept(t, S)
        \/ Decline(t)
        \/ \E s \in Source : Take(t, s) \/ Learn(t, s) \/ TakeBack(t, s) \/ Return(t, s)
        \/ Approve(t)
        \/ Undo(t)
        \/ RolledBack(t)
        \/ Fail(t)

Spec == Init /\ [][Next]_vars

-----------------------------------------------------------------------------
(* All or nothing, as far as the engine knows: an approved payment is held *)
(* from every source of its plan; of a rolled back one, every source known *)
(* to be charged has its money back or its bank's word for it; and money   *)
(* goes back only for a charge that is known (Execute, executor.go:82-95). *)
AllOrNothing ==
    \A t \in Tx :
        /\ outcome[t] = "APPROVED" => \A s \in plan[t] : money[<<t, s>>] = "settled"
        /\ outcome[t] = "ROLLED_BACK" => \A s \in known[t] : money[<<t, s>>] \in TakenBack
        /\ \A s \in Source : money[<<t, s>>] \in TakenBack => s \in known[t]
=============================================================================
