------------------------------- MODULE Planner -------------------------------
(***************************************************************************)
(* Planner.BuildPlan of orchestrator/planner.go: the loop that turns a     *)
(* user's assets and an amount into the legs of a payment.  One step is    *)
(* one iteration.  An asset is known by its place in the list it came in;  *)
(* a leg by its asset's place and its amount.                              *)
(***************************************************************************)
EXTENDS Integers, FiniteSets, SequencesExt

CONSTANTS
    MaxAssets,      \* bound: assets of a user
    Priorities,     \* priorities an asset may have
    MaxBalance,     \* bound: balance, in minor units
    MaxThreshold,   \* bound: safety threshold, in minor units
    MaxAmount       \* bound: requested amount

ASSUME PlannerAssumption ==
    /\ {MaxAssets, MaxBalance, MaxThreshold, MaxAmount} \subseteq Nat
    /\ Priorities \subseteq Int

VARIABLES
    assets,     \* the argument, unsorted
    amount,     \* requestedAmountMinor
    order,      \* places of assets, sorted
    next,       \* position in order of the next iteration
    remaining,
    plan,       \* legs so far: <<place, amount>>
    result      \* "running", or what BuildPlan returned

vars == <<assets, amount, order, next, remaining, plan, result>>

Asset == [priority : Priorities, isActive : BOOLEAN,
          balance : 0 .. MaxBalance, threshold : 0 .. MaxThreshold]

\* UserAsset.AvailableForLiquidation
AvailableForLiquidation(a) ==
    IF ~ a.isActive \/ a.balance < a.threshold THEN 0 ELSE a.balance - a.threshold

\* sort.SliceStable by priority: equal priorities keep their order.
Before(as, i, j) ==
    \/ as[i].priority < as[j].priority
    \/ as[i].priority = as[j].priority /\ i < j

\* Mutant: the assets are taken in the order they came.
UnsortedPlaces(as) == [i \in DOMAIN as |-> i]

SortedPlaces(as) ==
    CHOOSE s \in SetToSeqs(DOMAIN as) :
        \A m, n \in DOMAIN s : m < n => Before(as, s[m], s[n])

Init ==
    /\ assets \in SeqOf(Asset, MaxAssets)
    /\ amount \in 0 .. MaxAmount
    /\ order = SortedPlaces(assets)
    /\ next = 1
    /\ remaining = amount
    /\ plan = <<>>
    /\ result = "running"

-----------------------------------------------------------------------------
Invalid ==
    /\ result = "running"
    /\ amount <= 0
    /\ result' = "ErrInvalidAmount"
    /\ UNCHANGED <<assets, amount, order, next, remaining, plan>>

Looping == result = "running" /\ amount > 0 /\ remaining > 0 /\ next <= Len(order)

\* Inactive, or nothing above the safety threshold.
Skip ==
    /\ Looping
    /\ AvailableForLiquidation(assets[order[next]]) = 0
    /\ next' = next + 1
    /\ UNCHANGED <<assets, amount, order, remaining, plan, result>>

\* Mutant: an asset with nothing to give becomes a leg of zero.
DeductZero ==
    /\ Looping
    /\ LET usable == AvailableForLiquidation(assets[order[next]])
           deduct == IF usable > remaining THEN remaining ELSE usable
       IN  /\ plan' = Append(plan, <<order[next], deduct>>)
           /\ remaining' = remaining - deduct
    /\ next' = next + 1
    /\ UNCHANGED <<assets, amount, order, result>>

\* Mutant: the last leg takes all the asset has.
DeductAll ==
    /\ Looping
    /\ LET usable == AvailableForLiquidation(assets[order[next]])
       IN  /\ usable > 0
           /\ plan' = Append(plan, <<order[next], usable>>)
           /\ remaining' = remaining - usable
    /\ next' = next + 1
    /\ UNCHANGED <<assets, amount, order, result>>

Deduct ==
    /\ Looping
    /\ LET usable == AvailableForLiquidation(assets[order[next]])
           deduct == IF usable > remaining THEN remaining ELSE usable
       IN  /\ usable > 0
           /\ plan' = Append(plan, <<order[next], deduct>>)
           /\ remaining' = remaining - deduct
    /\ next' = next + 1
    /\ UNCHANGED <<assets, amount, order, result>>

Return ==
    /\ result = "running"
    /\ amount > 0
    /\ remaining <= 0 \/ next > Len(order)
    /\ result' = IF remaining > 0 THEN "ErrInsufficientFunds" ELSE "ok"
    /\ UNCHANGED <<assets, amount, order, next, remaining, plan>>

Returned ==
    /\ result # "running"
    /\ UNCHANGED vars

Next == Invalid \/ Skip \/ Deduct \/ Return \/ Returned

Spec == Init /\ [][Next]_vars

-----------------------------------------------------------------------------
\* What the assets at these places can give together, what the legs take
\* together, and what they take from the asset at place i.
Liquid(places) ==
    SumFunctionOnSet([i \in DOMAIN assets |-> AvailableForLiquidation(assets[i])], places)
LegAmounts == [n \in DOMAIN plan |-> plan[n][2]]
Planned == SumFunction(LegAmounts)
Share(i) == SumFunctionOnSet(LegAmounts, {n \in DOMAIN plan : plan[n][1] = i})

\* What each asset should give, by definition: whatever the assets before
\* it in the order leave of the amount, up to what it has.
FairShare(i) ==
    LET before == Liquid({j \in DOMAIN assets : Before(assets, j, i)})
        left == IF amount > before THEN amount - before ELSE 0
        usable == AvailableForLiquidation(assets[i])
    IN  IF usable < left THEN usable ELSE left

TypeOK ==
    /\ order \in Seq(DOMAIN assets)
    /\ next \in 1 .. Len(order) + 1
    /\ remaining \in Int
    /\ plan \in Seq((DOMAIN assets) \X (1 .. MaxAmount))
    /\ result \in {"running", "ok", "ErrInvalidAmount", "ErrInsufficientFunds"}

(* BuildPlan succeeds exactly when the assets can cover the amount, and    *)
(* then every asset gives its share in priority order, ties in list order: *)
(* the greedy loop computes the definition FairShare, without gaps and     *)
(* without touching a safety threshold.                                    *)
PlanIsFairShare ==
    /\ result = "ok" => \A i \in DOMAIN assets : Share(i) = FairShare(i)
    /\ result \notin {"running", "ErrInvalidAmount"} =>
           (result = "ok" <=> Liquid(DOMAIN assets) >= amount)

(* No minor unit is lost or charged twice on the way: at every iteration   *)
(* the legs and what remains add up to the request, and the plan the       *)
(* executor gets charges no asset in two legs and is not empty (what       *)
(* makes a leg's idempotency key unique within its transaction).           *)
PlanAddsUp ==
    /\ amount > 0 => Planned + remaining = amount /\ remaining >= 0
    /\ \A m, n \in DOMAIN plan : plan[m][1] = plan[n][1] => m = n
    /\ result = "ok" => plan # <<>>
=============================================================================
