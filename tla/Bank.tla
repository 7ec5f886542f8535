-------------------------------- MODULE Bank --------------------------------
(***************************************************************************)
(* The banks at the far end of internal/openbanking, and the network to    *)
(* them.  External: modelled from how pis.go uses them.                    *)
(*                                                                         *)
(* InitiatePayment and ReversePayment are HTTP requests that carry an      *)
(* Idempotency-Key header, and their caller stops waiting at any time (the *)
(* executor's 300ms context, the client's timeout, a broken connection, an *)
(* answer other than 200 or 201 to a payment and 200 or 202 to a reversal, *)
(* a reply that does not parse).  A request the caller no longer waits for *)
(* stays on the wire: the bank may still perform it, at any later time or  *)
(* never.  A bank performs the payment of a key at most once and answers a *)
(* repeated key as it answered the first time; it does the same for the    *)
(* reversal of a key.                                                      *)
(*                                                                         *)
(* A reversal is answered when it is performed (200) or when the bank has  *)
(* accepted it (202) and performs it later, or never.  A payment counts as *)
(* settled once its bank has taken it on: InitiatePayment does not look at *)
(* the status field of a 200 or 201.                                       *)
(***************************************************************************)
CONSTANTS
    Tx,         \* calls of AuthorizePayment
    Source,     \* the assets money is taken from
    Key,        \* the idempotency keys of clients
    KeyOf       \* the key a call carries; several may carry the same one

ASSUME KeyAssumption == KeyOf \in [Tx -> Key]

VARIABLES
    payment,    \* what the bank did for a leg's idempotency key: "returning"
                \* is a payment whose reversal it has accepted
    wire        \* HTTP requests and answers under way

bankVars == <<payment, wire>>

\* A leg is known by its transaction and its source (BuildPlan makes at most
\* one leg of an asset).
Leg == Tx \X Source

\* legIdempotencyKey: "<key of the transaction>:<source>".
LegKey == Key \X Source
KeyOfLeg(l) == <<KeyOf[l[1]], l[2]>>

Message == [kind : {"pay", "paid", "reverse", "accepted", "reversed"}, leg : Leg]
Msg(k, l) == [kind |-> k, leg |-> l]

\* The bank has performed a reversal, or accepted it.
TakenBack == {"returning", "reversed"}

BankTypeOK ==
    /\ payment \in [LegKey -> {"none", "settled", "returning", "reversed"}]
    /\ wire \subseteq Message

BankInit ==
    /\ payment = [k \in LegKey |-> "none"]
    /\ wire = {}

BankPays(l) ==
    /\ Msg("pay", l) \in wire
    /\ wire' = (wire \ {Msg("pay", l)}) \cup {Msg("paid", l)}
    /\ payment' = [payment EXCEPT ![KeyOfLeg(l)] = IF @ = "none" THEN "settled" ELSE @]

\* The reversal is performed, then answered with 200.
BankReverses(l) ==
    /\ Msg("reverse", l) \in wire
    /\ wire' = (wire \ {Msg("reverse", l)}) \cup {Msg("reversed", l)}
    /\ payment' = [payment EXCEPT ![KeyOfLeg(l)] = "reversed"]

\* The reversal is answered with 202 before it is performed.
BankAcceptsReversal(l) ==
    /\ Msg("reverse", l) \in wire
    /\ wire' = (wire \ {Msg("reverse", l)}) \cup {Msg("accepted", l)}
    /\ payment' = [payment EXCEPT ![KeyOfLeg(l)] = IF @ = "settled" THEN "returning" ELSE @]

\* A reversal that was accepted is performed; nothing obliges the bank to.
BankGivesBack(l) ==
    /\ payment[KeyOfLeg(l)] = "returning"
    /\ payment' = [payment EXCEPT ![KeyOfLeg(l)] = "reversed"]
    /\ UNCHANGED wire
=============================================================================
