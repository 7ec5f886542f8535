---------------------------- MODULE PlannerProofs ----------------------------
(***************************************************************************)
(* BuildPlan computes its definition, for any number of assets, any        *)
(* priorities, balances, thresholds and amounts.                           *)
(***************************************************************************)
EXTENDS Planner, Sums

-----------------------------------------------------------------------------
(***************************************************************************)
(* The stable sort by priority: it exists, and the assets before the one   *)
(* at position k are those at the positions before k.                      *)
(***************************************************************************)
Prioritised(list) ==
  /\ Len(list) \in Nat /\ DOMAIN list = 1 .. Len(list)
  /\ \A i \in DOMAIN list : list[i].priority \in Int

LEMMA BeforeIsTotalOrder ==
  ASSUME NEW list, Prioritised(list),
         NEW i \in DOMAIN list, NEW j \in DOMAIN list, NEW k \in DOMAIN list
  PROVE  /\ ~ Before(list, i, i)
         /\ Before(list, i, j) /\ Before(list, j, k) => Before(list, i, k)
         /\ i # j => Before(list, i, j) \/ Before(list, j, i)
<1>1. i \in Int /\ j \in Int /\ k \in Int
  BY DEF Prioritised
<1>2. list[i].priority \in Int /\ list[j].priority \in Int /\ list[k].priority \in Int
  BY DEF Prioritised
<1> QED
  BY <1>1, <1>2 DEF Before

\* The place of an asset in the order is one more than the assets before it.
LEMMA SortExists ==
  ASSUME NEW list, Prioritised(list)
  PROVE  \E s \in SetToSeqs(DOMAIN list) :
            \A m, n \in DOMAIN s : m < n => Before(list, s[m], s[n])
<1> DEFINE N == Len(list)
           D == 1 .. N
           Earlier(i) == {j \in D : Before(list, j, i)}
           rank == [i \in D |-> Cardinality(Earlier(i)) + 1]
<1>1. N \in Nat /\ DOMAIN list = D /\ IsFiniteSet(D) /\ Cardinality(D) = N
  <2>1. N \in Nat /\ DOMAIN list = D
    BY DEF Prioritised
  <2> HIDE DEF N
  <2> QED
    BY <2>1, FS_Interval
<1> HIDE DEF N
<1>2. rank = [i \in D |-> rank[i]] /\ \A i \in D : rank[i] = Cardinality(Earlier(i)) + 1
  OBVIOUS
<1> HIDE DEF rank
<1>3. ASSUME NEW i \in D
      PROVE  IsFiniteSet(Earlier(i)) /\ Cardinality(Earlier(i)) \in 0 .. N - 1
  <2>1. IsFiniteSet(D \ {i}) /\ Cardinality(D \ {i}) = N - 1
    BY <1>1, FS_RemoveElement
  <2>2. Earlier(i) \in SUBSET (D \ {i})
    BY <1>1, BeforeIsTotalOrder
  <2> HIDE DEF Earlier, D
  <2>3. IsFiniteSet(Earlier(i)) /\ Cardinality(Earlier(i)) <= N - 1
    BY <2>1, <2>2, FS_Subset
  <2>4. Cardinality(Earlier(i)) \in Nat
    BY <2>3, FS_CardinalityType
  <2> QED
    BY <1>1, <2>3, <2>4
<1>4. \A i \in D : rank[i] \in D
  <2> HIDE DEF Earlier
  <2> QED
    BY <1>1, <1>2, <1>3
<1>5. ASSUME NEW i \in D, NEW j \in D, Before(list, i, j)
      PROVE  rank[i] < rank[j]
  <2>1. Earlier(i) \in SUBSET Earlier(j) /\ i \in Earlier(j) /\ i \notin Earlier(i)
    BY <1>1, <1>5, BeforeIsTotalOrder
  <2> HIDE DEF Earlier, D
  <2>2. /\ Cardinality(Earlier(i)) <= Cardinality(Earlier(j))
        /\ Cardinality(Earlier(j)) = Cardinality(Earlier(i)) => Earlier(j) = Earlier(i)
    BY <1>3, <2>1, FS_Subset
  <2>3. Cardinality(Earlier(i)) # Cardinality(Earlier(j))
    BY <2>1, <2>2
  <2>4. Cardinality(Earlier(i)) \in Int /\ Cardinality(Earlier(j)) \in Int
    BY <1>3
  <2> QED
    BY <1>2, <2>2, <2>3, <2>4
<1>6. ASSUME NEW i \in D, NEW j \in D, i # j
      PROVE  rank[i] # rank[j]
  <2>1. Before(list, i, j) \/ Before(list, j, i)
    BY <1>1, <1>6, BeforeIsTotalOrder
  <2>2. rank[i] < rank[j] \/ rank[j] < rank[i]
    BY <1>5, <2>1
  <2>3. rank[i] \in Int /\ rank[j] \in Int
    BY <1>1, <1>4
  <2> QED
    BY <2>2, <2>3
<1>7. \A m \in D : \E i \in D : rank[i] = m
  <2> HIDE DEF D
  <2>1. rank \in [D -> D]
    BY <1>2, <1>4
  <2>2. rank \in Injection(D, D)
    BY <1>6, <2>1 DEF Injection, IsInjective
  <2>3. rank \in Surjection(D, D)
    BY <1>1, <2>2, FS_Injection
  <2> QED
    BY <2>3 DEF Surjection
<1> DEFINE s == [m \in D |-> CHOOSE i \in D : rank[i] = m]
<1>8. s \in [D -> D] /\ \A m \in D : rank[s[m]] = m
  <2> HIDE DEF D
  <2> QED
    BY <1>7
<1> HIDE DEF s
<1>9. s \in SetToSeqs(DOMAIN list)
  <2>1. \A m, n \in D : m # n => s[m] # s[n]
    BY <1>8
  <2> QED
    BY <1>1, <1>8, <2>1 DEF SetToSeqs
<1>10. ASSUME NEW m \in D, NEW n \in D, m < n
       PROVE  Before(list, s[m], s[n])
  <2>1. m \in Int /\ n \in Int
    BY <1>1
  <2> HIDE DEF D
  <2>2. s[m] \in D /\ s[n] \in D /\ rank[s[m]] = m /\ rank[s[n]] = n
    BY <1>8
  <2>3. s[m] # s[n]
    BY <1>10, <2>1, <2>2
  <2>4. Before(list, s[m], s[n]) \/ Before(list, s[n], s[m])
    BY <1>1, <2>2, <2>3, BeforeIsTotalOrder
  <2>5. Before(list, s[n], s[m]) => n < m
    BY <1>5, <2>2
  <2> QED
    BY <1>10, <2>1, <2>4, <2>5
<1>11. DOMAIN s = D
  BY <1>8
<1> QED
  <2> HIDE DEF D
  <2> QED
    BY <1>9, <1>10, <1>11

LEMMA SortFacts ==
  ASSUME NEW list, Prioritised(list), NEW s, s = SortedPlaces(list)
  PROVE  /\ s \in [DOMAIN list -> DOMAIN list] /\ s \in Seq(DOMAIN list)
         /\ Len(s) = Len(list)
         /\ \A i \in DOMAIN list : \E m \in DOMAIN list : s[m] = i
         /\ \A m, n \in DOMAIN list : Before(list, s[m], s[n]) <=> m < n
<1> DEFINE D == DOMAIN list
<1>1. IsFiniteSet(D) /\ Cardinality(D) = Len(list) /\ Len(list) \in Nat /\ D = 1 .. Len(list)
  <2>1. Len(list) \in Nat /\ D = 1 .. Len(list)
    BY DEF Prioritised
  <2> DEFINE N == Len(list)
  <2>2. N \in Nat /\ D = 1 .. N
    BY <2>1
  <2> HIDE DEF N, D
  <2>3. IsFiniteSet(1 .. N) /\ Cardinality(1 .. N) = N
    BY <2>2, FS_Interval
  <2> QED
    BY <2>2, <2>3 DEF N
<1>2. s \in SetToSeqs(D) /\ \A m, n \in DOMAIN s : m < n => Before(list, s[m], s[n])
  BY SortExists DEF SortedPlaces
<1>3. s \in [D -> D] /\ \A m, n \in D : m # n => s[m] # s[n]
  BY <1>1, <1>2 DEF SetToSeqs
<1>4. DOMAIN s = D
  BY <1>3
<1>5. s \in Seq(D) /\ Len(s) = Len(list)
  BY <1>1, <1>3
<1>6. \A i \in D : \E m \in D : s[m] = i
  <2> HIDE DEF D
  <2>1. s \in Injection(D, D)
    BY <1>3, <1>4 DEF Injection, IsInjective
  <2>2. s \in Surjection(D, D)
    BY <1>1, <2>1, FS_Injection
  <2> QED
    BY <2>2 DEF Surjection
<1>7. ASSUME NEW m \in D, NEW n \in D
      PROVE  Before(list, s[m], s[n]) <=> m < n
  <2>1. m \in Int /\ n \in Int
    BY <1>1
  <2>2. s[m] \in D /\ s[n] \in D
    BY <1>3
  <2>3. m < n => Before(list, s[m], s[n])
    BY <1>2, <1>4
  <2>4. n < m => Before(list, s[n], s[m])
    BY <1>2, <1>4
  <2>5. ~ Before(list, s[m], s[m])
    BY <2>2, BeforeIsTotalOrder
  <2>6. ~ (Before(list, s[m], s[n]) /\ Before(list, s[n], s[m]))
    BY <2>2, <2>5, BeforeIsTotalOrder
  <2> QED
    BY <2>1, <2>3, <2>4, <2>5, <2>6
<1> QED
  BY <1>3, <1>5, <1>6, <1>7

-----------------------------------------------------------------------------
(***************************************************************************)
(* Adding a leg to a plan.                                                 *)
(***************************************************************************)
Amounts(legs) == [n \in DOMAIN legs |-> legs[n][2]]
LegsOf(legs, i) == {n \in DOMAIN legs : legs[n][1] = i}

AddsLeg(P, legs, p, d, more) ==
    legs \in Seq(P \X Nat) /\ p \in P /\ d \in Nat /\ more = Append(legs, <<p, d>>)

LEMMA AppendLeg ==
  ASSUME NEW P, NEW legs, NEW p, NEW d, NEW more, AddsLeg(P, legs, p, d, more)
  PROVE  /\ SumFunction(Amounts(more)) = SumFunction(Amounts(legs)) + d
         /\ \A i \in P \ {p} : SumFunctionOnSet(Amounts(more), LegsOf(more, i))
                              = SumFunctionOnSet(Amounts(legs), LegsOf(legs, i))
         /\ LegsOf(legs, p) = {} => SumFunctionOnSet(Amounts(more), LegsOf(more, p)) = d
<1> DEFINE k == Len(more)
           I == DOMAIN legs
           f == Amounts(legs)
           g == Amounts(more)
<1>1. /\ Len(legs) \in Nat /\ I = 1 .. Len(legs) /\ k = Len(legs) + 1
      /\ DOMAIN more = 1 .. k /\ more \in Seq(P \X Nat) /\ more[k] = <<p, d>>
      /\ \A n \in I : more[n] = legs[n] /\ legs[n] \in P \X Nat
      /\ d \in Nat
  BY DEF AddsLeg
<1>2. IsFiniteSet(I) /\ k \notin I /\ DOMAIN more = I \cup {k}
  <2>1. IsFiniteSet(1 .. Len(legs))
    BY <1>1, FS_Interval
  <2>2. \A n \in Nat : n + 1 \notin 1 .. n /\ 1 .. n + 1 = (1 .. n) \cup {n + 1}
    OBVIOUS
  <2> QED
    BY <1>1, <2>1, <2>2
<1>3. /\ DOMAIN f = I /\ DOMAIN g = I \cup {k}
      /\ g[k] = d /\ d \in Nat /\ \A n \in I : g[n] = f[n] /\ g[n] \in Int
  BY <1>1, <1>2 DEF Amounts
<1>4. \A n \in I \cup {k} : g[n] \in Int
  BY <1>3
<1>5. \A i : LegsOf(more, i) = IF i = p THEN LegsOf(legs, i) \cup {k} ELSE LegsOf(legs, i)
  BY <1>1, <1>2 DEF LegsOf
<1>6. \A i : LegsOf(legs, i) \in SUBSET I
  BY DEF LegsOf
<1> HIDE DEF k, I, f, g
<1>7. SumFunction(g) = SumFunction(f) + d
  <2>1. SumFunctionOnSet(g, I \cup {k}) = SumFunctionOnSet(g, I) + g[k]
    BY <1>2, <1>4, SumAdd
  <2>2. SumFunctionOnSet(g, I) = SumFunctionOnSet(f, I)
    BY <1>2, <1>3, SumSame
  <2> QED
    BY <1>3, <2>1, <2>2 DEF SumFunction
<1>8. ASSUME NEW i \in P \ {p}
      PROVE  SumFunctionOnSet(g, LegsOf(more, i)) = SumFunctionOnSet(f, LegsOf(legs, i))
  <2>1. IsFiniteSet(LegsOf(legs, i)) /\ \A n \in LegsOf(legs, i) : g[n] = f[n]
    BY <1>2, <1>3, <1>6, FS_Subset
  <2>2. LegsOf(more, i) = LegsOf(legs, i)
    BY <1>5
  <2> QED
    BY <2>1, <2>2, SumSame
<1>9. ASSUME LegsOf(legs, p) = {}
      PROVE  SumFunctionOnSet(g, LegsOf(more, p)) = d
  <2>1. SumFunctionOnSet(g, {} \cup {k}) = SumFunctionOnSet(g, {}) + g[k]
    BY <1>4, FS_EmptySet, SumAdd
  <2>2. LegsOf(more, p) = {} \cup {k}
    BY <1>5, <1>9
  <2>3. SumFunctionOnSet(g, LegsOf(more, p)) = 0 + d
    BY <1>3, <2>1, <2>2, SumEmpty
  <2> QED
    BY <1>1, <2>3
<1> QED
  BY <1>1, <1>7, <1>8, <1>9 DEF f, g

-----------------------------------------------------------------------------
(***************************************************************************)
(* The loop.                                                               *)
(***************************************************************************)
Visited == {order[m] : m \in 1 .. next - 1}

\* What these assets leave of the amount.
Left(places) == IF amount > Liquid(places) THEN amount - Liquid(places) ELSE 0

\* The assets visited have given their shares, the others nothing, and what
\* remains is what the visited ones could not give.
LoopInv ==
    /\ assets \in SeqOf(Asset, MaxAssets)
    /\ amount \in 0 .. MaxAmount
    /\ order = SortedPlaces(assets)
    /\ next \in 1 .. Len(order) + 1
    /\ plan \in Seq((DOMAIN assets) \X (1 .. MaxAmount))
    /\ \A n \in DOMAIN plan : plan[n][1] \in Visited
    /\ \A m, n \in DOMAIN plan : plan[m][1] = plan[n][1] => m = n
    /\ Planned + remaining = amount
    /\ remaining = Left(Visited)
    /\ \A i \in DOMAIN assets : Share(i) = IF i \in Visited THEN FairShare(i) ELSE 0

ResultInv ==
    /\ result \in {"running", "ok", "ErrInvalidAmount", "ErrInsufficientFunds"}
    /\ result = "ok" => amount > 0 /\ remaining = 0
    /\ result = "ErrInsufficientFunds" => remaining > 0 /\ next = Len(order) + 1

PlannerInv == LoopInv /\ ResultInv

LEMMA AssetsTyped ==
  ASSUME assets \in SeqOf(Asset, MaxAssets)
  PROVE  /\ Prioritised(assets)
         /\ IsFiniteSet(DOMAIN assets)
         /\ \A i \in DOMAIN assets : AvailableForLiquidation(assets[i]) \in Nat
<1>1. PICK k \in 0 .. MaxAssets : assets \in [1 .. k -> Asset]
  BY DEF SeqOf
<1>2. k \in Nat /\ DOMAIN assets = 1 .. k /\ Len(assets) = k
  BY <1>1, PlannerAssumption
<1>3. \A i \in 1 .. k : assets[i] \in Asset
  BY <1>1
<1>4. 0 .. MaxBalance \subseteq Nat /\ 0 .. MaxThreshold \subseteq Nat /\ Priorities \subseteq Int
  BY PlannerAssumption
<1>5. ASSUME NEW a \in Asset
      PROVE  a.priority \in Int /\ AvailableForLiquidation(a) \in Nat
  <2>1. a.priority \in Priorities /\ a.balance \in 0 .. MaxBalance /\ a.threshold \in 0 .. MaxThreshold
    BY DEF Asset
  <2>2. a.priority \in Int /\ a.balance \in Nat /\ a.threshold \in Nat
    BY <1>4, <2>1, Zenon
  <2> QED
    BY <2>2 DEF AvailableForLiquidation
<1>6. IsFiniteSet(1 .. k)
  BY <1>2, FS_Interval
<1> QED
  BY <1>2, <1>3, <1>5, <1>6 DEF Prioritised

LEMMA LiquidFacts ==
  ASSUME assets \in SeqOf(Asset, MaxAssets), NEW S \in SUBSET DOMAIN assets
  PROVE  /\ Liquid(S) \in Nat
         /\ Liquid({}) = 0
         /\ \A T \in SUBSET S : Liquid(T) <= Liquid(S)
         /\ \A i \in DOMAIN assets \ S :
                Liquid(S \cup {i}) = Liquid(S) + AvailableForLiquidation(assets[i])
<1> DEFINE D == DOMAIN assets
           f == [i \in D |-> AvailableForLiquidation(assets[i])]
<1>1. IsFiniteSet(S) /\ \A i \in D : f[i] \in Nat /\ f[i] \in Int
  BY AssetsTyped, FS_Subset
<1>2. \A i \in D : f[i] = AvailableForLiquidation(assets[i])
  OBVIOUS
<1> HIDE DEF f
<1>3. \A T : Liquid(T) = SumFunctionOnSet(f, T)
  BY DEF Liquid, f
<1>4. \A i \in S : f[i] \in Nat
  BY <1>1
<1>5. SumFunctionOnSet(f, S) \in Nat
  BY <1>1, <1>4, SumNat
<1>6. \A T \in SUBSET S : SumFunctionOnSet(f, T) <= SumFunctionOnSet(f, S)
  BY <1>1, <1>4, SumSubset
<1>7. ASSUME NEW i \in D \ S
      PROVE  SumFunctionOnSet(f, S \cup {i}) = SumFunctionOnSet(f, S) + f[i]
  <2>1. i \notin S /\ \A x \in S \cup {i} : f[x] \in Int
    BY <1>1
  <2> QED
    BY <1>1, <2>1, SumAdd
<1> QED
  BY <1>2, <1>3, <1>5, <1>6, <1>7, SumEmpty

\* The assets visited are those before the next one.
LEMMA VisitedFacts ==
  ASSUME LoopInv
  PROVE  /\ Len(order) \in Nat /\ order \in Seq(DOMAIN assets) /\ next \in Nat
         /\ Visited \in SUBSET DOMAIN assets
         /\ \A i \in DOMAIN assets \ Visited :
               Visited \in SUBSET {j \in DOMAIN assets : Before(assets, j, i)}
         /\ next = Len(order) + 1 => Visited = DOMAIN assets
         /\ next <= Len(order) =>
               /\ order[next] \in DOMAIN assets \ Visited
               /\ {j \in DOMAIN assets : Before(assets, j, order[next])} = Visited
               /\ {order[m] : m \in 1 .. next} = Visited \cup {order[next]}
<1> DEFINE D == DOMAIN assets
<1>1. Prioritised(assets)
  BY AssetsTyped DEF LoopInv
<1>2. /\ order \in [D -> D] /\ order \in Seq(D)
      /\ Len(order) = Len(assets) /\ Len(assets) \in Nat /\ D = 1 .. Len(assets)
      /\ \A i \in D : \E m \in D : order[m] = i
      /\ \A m, n \in D : Before(assets, order[m], order[n]) <=> m < n
  <2>1. order = SortedPlaces(assets)
    BY DEF LoopInv
  <2>2. Len(assets) \in Nat /\ D = 1 .. Len(assets)
    BY <1>1 DEF Prioritised
  <2> QED
    BY <1>1, <2>1, <2>2, SortFacts
<1>3. next \in 1 .. Len(assets) + 1
  BY <1>2 DEF LoopInv
<1> DEFINE N == Len(assets)
<1>4. N \in Nat /\ next \in Nat /\ next >= 1 /\ next <= N + 1 /\ 1 .. next - 1 \subseteq D
  BY <1>2, <1>3
<1> HIDE DEF D, N
<1>10. \A m, n \in D : m \in 1 .. N /\ n \in 1 .. N
  BY <1>2 DEF N
<1>5. Visited \in SUBSET D
  BY <1>2, <1>4 DEF Visited
<1>6. ASSUME NEW i \in D \ Visited, NEW j \in Visited
      PROVE  Before(assets, j, i)
  <2>1. PICK n \in D : order[n] = i
    BY <1>2
  <2>2. PICK m \in 1 .. next - 1 : order[m] = j
    BY DEF Visited
  <2>3. n \notin 1 .. next - 1
    BY <2>1 DEF Visited
  <2>4. m \in D /\ m < n
    BY <1>4, <1>10, <2>3
  <2> QED
    BY <1>2, <2>1, <2>2, <2>4
<1>7. ASSUME next = Len(order) + 1
      PROVE  Visited = D
  <2>1. 1 .. next - 1 = D
    BY <1>2, <1>4, <1>7 DEF N
  <2> QED
    BY <1>2, <1>5, <2>1 DEF Visited
<1>8. ASSUME next <= Len(order)
      PROVE  /\ order[next] \in D \ Visited
             /\ {j \in D : Before(assets, j, order[next])} = Visited
             /\ {order[m] : m \in 1 .. next} = Visited \cup {order[next]}
  <2>1. next \in D /\ \A m \in D : m < next <=> m \in 1 .. next - 1
    <3>1. next \in D
      BY <1>2, <1>4, <1>8 DEF N
    <3> QED
      BY <1>4, <1>10, <3>1
  <2>2. \A m \in D : Before(assets, order[m], order[next]) <=> m \in 1 .. next - 1
    BY <1>2, <2>1
  <2>3. ~ Before(assets, order[next], order[next])
    BY <2>1, <2>2
  <2>4. order[next] \notin Visited
    BY <1>4, <2>2, <2>3 DEF Visited
  <2>5. {j \in D : Before(assets, j, order[next])} = Visited
    BY <1>2, <1>4, <2>2 DEF Visited
  <2>6. 1 .. next = (1 .. next - 1) \cup {next}
    BY <1>3
  <2>7. {order[m] : m \in 1 .. next} = Visited \cup {order[next]}
    BY <2>6 DEF Visited
  <2> QED
    BY <1>2, <2>1, <2>4, <2>5, <2>7
<1> QED
  BY <1>2, <1>4, <1>5, <1>6, <1>7, <1>8 DEF D, N

-----------------------------------------------------------------------------
(***************************************************************************)
(* One iteration, whether it takes something or not.                       *)
(***************************************************************************)
LEMMA NextShare ==
  ASSUME LoopInv, next <= Len(order), NEW usable, usable = AvailableForLiquidation(assets[order[next]])
  PROVE  /\ usable \in Nat /\ remaining \in 0 .. amount /\ amount \in 0 .. MaxAmount
         /\ FairShare(order[next]) = IF usable > remaining THEN remaining ELSE usable
         /\ Left(Visited \cup {order[next]}) = remaining - FairShare(order[next])
<1> DEFINE i == order[next]
<1>1. i \in DOMAIN assets \ Visited /\ Visited \in SUBSET DOMAIN assets
      /\ {j \in DOMAIN assets : Before(assets, j, i)} = Visited
  BY VisitedFacts
<1>2. assets \in SeqOf(Asset, MaxAssets) /\ remaining = Left(Visited) /\ amount \in 0 .. MaxAmount
  BY DEF LoopInv
<1>3. amount \in Nat
  BY <1>2, PlannerAssumption
<1>4. usable \in Nat
  BY <1>1, <1>2, AssetsTyped
<1>5. Liquid(Visited) \in Nat /\ Liquid(Visited \cup {i}) = Liquid(Visited) + usable
  BY <1>1, <1>2, LiquidFacts
<1>6. FairShare(i) = IF usable < remaining THEN usable ELSE remaining
  BY <1>1, <1>2, Zenon DEF FairShare, Left
<1> HIDE DEF i
<1>7. remaining \in 0 .. amount
  BY <1>2, <1>3, <1>5 DEF Left
<1>8. Left(Visited \cup {i}) = remaining - FairShare(i)
  BY <1>2, <1>3, <1>4, <1>5, <1>6 DEF Left
<1> QED
  BY <1>2, <1>3, <1>4, <1>6, <1>7, <1>8 DEF i

LEMMA RemainingIsNat ==
  ASSUME LoopInv
  PROVE  /\ remaining \in Nat /\ amount \in Nat /\ Liquid(Visited) \in Nat
         /\ remaining = 0 <=> Liquid(Visited) >= amount
<1>1. Liquid(Visited) \in Nat
  BY VisitedFacts, LiquidFacts DEF LoopInv
<1>2. amount \in Nat /\ remaining = Left(Visited)
  BY PlannerAssumption DEF LoopInv
<1> QED
  BY <1>1, <1>2 DEF Left

\* What the loop looks up does not change.
LEMMA SameAssets ==
  ASSUME UNCHANGED <<assets, amount>>
  PROVE  /\ \A S : Left(S)' = Left(S)
         /\ \A i : FairShare(i)' = FairShare(i)
<1>1. assets' = assets /\ amount' = amount
  OBVIOUS
<1>2. \A S : Liquid(S)' = Liquid(S)
  BY <1>1, Zenon DEF Liquid
<1>3. \A S : Left(S)' = Left(S)
  BY <1>1, <1>2, Zenon DEF Left
<1>4. \A i : FairShare(i)' = FairShare(i)
  BY <1>1, <1>2, Zenon DEF FairShare
<1> QED
  BY <1>3, <1>4

LEMMA Iteration ==
  ASSUME LoopInv, next <= Len(order), next' = next + 1, UNCHANGED <<assets, amount, order>>,
         NEW i, i = order[next], NEW deduct, deduct = FairShare(i), remaining' = remaining - deduct,
         plan' = IF deduct = 0 THEN plan ELSE Append(plan, <<i, deduct>>)
  PROVE  LoopInv'
<1> DEFINE D == DOMAIN assets
<1>1. i \in D \ Visited /\ Visited' = Visited \cup {i}
  <2>1. i \in D \ Visited /\ {order[m] : m \in 1 .. next} = Visited \cup {i} /\ next \in Nat
    BY VisitedFacts
  <2>2. next' - 1 = next
    BY <2>1
  <2> QED
    BY <2>1, <2>2 DEF Visited
<1>2. remaining' = Left(Visited \cup {i}) /\ deduct \in 0 .. remaining /\ deduct \in 0 .. MaxAmount
      /\ remaining \in Nat
  <2> DEFINE usable == AvailableForLiquidation(assets[i])
  <2> HIDE DEF usable
  <2>1. /\ usable \in Nat /\ remaining \in 0 .. amount /\ amount \in 0 .. MaxAmount
        /\ deduct = IF usable > remaining THEN remaining ELSE usable
        /\ Left(Visited \cup {i}) = remaining - deduct
    BY NextShare DEF usable
  <2> QED
    BY <2>1, PlannerAssumption
<1>3. next' \in 1 .. Len(order') + 1
  BY VisitedFacts
<1>4. plan \in Seq(D \X (1 .. MaxAmount)) /\ plan \in Seq(D \X Nat)
      /\ \A n \in DOMAIN plan : plan[n] \in D \X (1 .. MaxAmount)
  BY PlannerAssumption DEF LoopInv
<1>5. LegsOf(plan, i) = {}
  BY <1>1 DEF LegsOf, LoopInv
<1>6. /\ plan' \in Seq(D \X (1 .. MaxAmount))
      /\ \A n \in DOMAIN plan' : plan'[n][1] \in Visited'
      /\ \A m, n \in DOMAIN plan' : plan'[m][1] = plan'[n][1] => m = n
  <2>1. CASE deduct = 0
    BY <1>1, <1>4, <2>1 DEF LoopInv
  <2>2. CASE deduct # 0
    <3>1. deduct \in 1 .. MaxAmount
      BY <1>2, <2>2
    <3>2. plan' = Append(plan, <<i, deduct>>)
      BY <2>2
    <3>3. /\ DOMAIN plan' = 1 .. Len(plan) + 1 /\ DOMAIN plan = 1 .. Len(plan) /\ Len(plan) \in Nat
          /\ plan'[Len(plan) + 1] = <<i, deduct>>
          /\ \A n \in DOMAIN plan : plan'[n] = plan[n]
      BY <1>4, <3>2
    <3>4. plan' \in Seq(D \X (1 .. MaxAmount))
      BY <1>1, <1>4, <3>1, <3>2
    <3>5. \A n \in DOMAIN plan : plan'[n][1] \in Visited /\ plan'[n][1] # i
      BY <1>1, <3>3 DEF LoopInv
    <3>6. \A n \in DOMAIN plan' : n \in DOMAIN plan \/ n = Len(plan) + 1
      BY <3>3
    <3>7. \A m, n \in DOMAIN plan : plan'[m][1] = plan'[n][1] => m = n
      BY <3>3 DEF LoopInv
    <3>8. plan'[Len(plan) + 1][1] = i
      BY <3>3
    <3> QED
      BY <1>1, <3>4, <3>5, <3>6, <3>7, <3>8
  <2> QED
    BY <2>1, <2>2
<1>7. /\ SumFunction(Amounts(plan')) = SumFunction(Amounts(plan)) + deduct
      /\ SumFunctionOnSet(Amounts(plan'), LegsOf(plan', i)) = deduct
      /\ \A j \in D \ {i} : SumFunctionOnSet(Amounts(plan'), LegsOf(plan', j))
                         = SumFunctionOnSet(Amounts(plan), LegsOf(plan, j))
      /\ SumFunction(Amounts(plan)) \in Int
  <2>1. SumFunction(Amounts(plan)) \in Int
    <3>1. Len(plan) \in Nat /\ DOMAIN plan = 1 .. Len(plan) /\ \A n \in DOMAIN plan : plan[n][2] \in Int
      BY <1>4
    <3>2. DOMAIN Amounts(plan) = DOMAIN plan /\ \A n \in DOMAIN plan : Amounts(plan)[n] \in Int
      BY <3>1 DEF Amounts
    <3>3. IsFiniteSet(DOMAIN plan)
      BY <3>1, FS_Interval
    <3> QED
      BY <3>2, <3>3, SumInt DEF SumFunction
  <2>2. CASE deduct = 0
    <3>1. plan' = plan
      BY <2>2
    <3>2. SumFunctionOnSet(Amounts(plan), LegsOf(plan, i)) = 0
      BY <1>5, SumEmpty
    <3> HIDE DEF D
    <3> QED
      BY <2>1, <2>2, <3>1, <3>2
  <2>3. CASE deduct # 0
    <3>1. plan' = Append(plan, <<i, deduct>>) /\ i \in D /\ deduct \in Nat /\ plan \in Seq(D \X Nat)
      BY <1>1, <1>2, <1>4, <2>3
    <3> DEFINE more == plan'
    <3>2. AddsLeg(D, plan, i, deduct, more)
      BY <3>1 DEF AddsLeg
    <3> HIDE DEF D, more
    <3>3. /\ SumFunction(Amounts(more)) = SumFunction(Amounts(plan)) + deduct
          /\ \A j \in D \ {i} : SumFunctionOnSet(Amounts(more), LegsOf(more, j))
                             = SumFunctionOnSet(Amounts(plan), LegsOf(plan, j))
          /\ LegsOf(plan, i) = {} => SumFunctionOnSet(Amounts(more), LegsOf(more, i)) = deduct
      BY <3>2, AppendLeg
    <3> QED
      BY <1>5, <2>1, <3>3, Zenon DEF more
  <2> QED
    BY <2>2, <2>3
<1>8. Planned' + remaining' = amount'
  <2>1. /\ Planned = SumFunction(Amounts(plan)) /\ Planned' = SumFunction(Amounts(plan'))
        /\ Planned + remaining = amount
    BY DEF Planned, LegAmounts, Amounts, LoopInv
  <2> QED
    BY <1>2, <1>7, <2>1
<1>9. \A j \in D : Share(j)' = IF j \in Visited' THEN FairShare(j)' ELSE 0
  <2>1. \A j : /\ Share(j) = SumFunctionOnSet(Amounts(plan), LegsOf(plan, j))
               /\ Share(j)' = SumFunctionOnSet(Amounts(plan'), LegsOf(plan', j))
    BY DEF Share, LegAmounts, Amounts, LegsOf
  <2>2. \A j \in D : Share(j) = IF j \in Visited THEN FairShare(j) ELSE 0
    BY DEF LoopInv
  <2>3. FairShare(i) = deduct
    OBVIOUS
  <2> HIDE DEF D
  <2>4. Share(i)' = deduct /\ \A j \in D \ {i} : Share(j)' = Share(j)
    BY <1>7, <2>1, Zenon
  <2>5. \A j : FairShare(j)' = FairShare(j)
    BY SameAssets
  <2>6. ASSUME NEW j \in D
        PROVE  Share(j)' = IF j \in Visited' THEN FairShare(j)' ELSE 0
    <3>1. CASE j = i
      BY <1>1, <2>3, <2>4, <2>5, <3>1, Zenon
    <3>2. CASE j # i
      <4>1. Share(j)' = Share(j) /\ (j \in Visited' <=> j \in Visited)
        BY <1>1, <2>4, <3>2
      <4> QED
        BY <2>2, <2>5, <4>1, Zenon
    <3> QED
      BY <3>1, <3>2
  <2>7. D' = D
    BY DEF D
  <2> QED
    BY <2>6
<1>10. remaining' = Left(Visited)'
  BY <1>1, <1>2, SameAssets
<1>11. /\ assets' \in SeqOf(Asset, MaxAssets) /\ amount' \in 0 .. MaxAmount
       /\ order' = SortedPlaces(assets') /\ DOMAIN assets' = D
  BY DEF LoopInv
<1> HIDE DEF D
<1> QED
  BY <1>3, <1>6, <1>8, <1>9, <1>10, <1>11, Zenon DEF LoopInv

-----------------------------------------------------------------------------
LEMMA InitPlannerInv == Init => PlannerInv
<1> SUFFICES ASSUME Init PROVE PlannerInv
  OBVIOUS
<1>1. /\ assets \in SeqOf(Asset, MaxAssets) /\ amount \in 0 .. MaxAmount
      /\ order = SortedPlaces(assets) /\ next = 1 /\ remaining = amount /\ plan = <<>>
      /\ result = "running"
  BY DEF Init
<1>2. Len(order) \in Nat
  BY <1>1, AssetsTyped, SortFacts DEF Prioritised
<1>3. Visited = {}
  BY <1>1 DEF Visited
<1>4. amount \in Nat
  BY <1>1, PlannerAssumption
<1>5. Left({}) = amount
  BY <1>1, <1>4, LiquidFacts DEF Left
<1>6. DOMAIN plan = {} /\ DOMAIN LegAmounts = {}
  BY <1>1 DEF LegAmounts
<1>7. Planned = 0 /\ \A i : Share(i) = 0
  <2>1. \A i : {n \in DOMAIN plan : plan[n][1] = i} = {}
    BY <1>6
  <2> QED
    BY <1>6, <2>1, SumEmpty DEF Planned, SumFunction, Share
<1>8. LoopInv
  BY <1>1, <1>2, <1>3, <1>4, <1>5, <1>6, <1>7 DEF LoopInv
<1> QED
  BY <1>1, <1>8 DEF PlannerInv, ResultInv

LEMMA NextPlannerInv == PlannerInv /\ [Next]_vars => PlannerInv'
<1> SUFFICES ASSUME PlannerInv, [Next]_vars
             PROVE  PlannerInv'
  OBVIOUS
<1>1. CASE Skip
  <2> DEFINE usable == AvailableForLiquidation(assets[order[next]])
  <2>1. /\ next <= Len(order) /\ usable = 0 /\ next' = next + 1
        /\ UNCHANGED <<assets, amount, order, remaining, plan, result>> /\ result = "running"
    BY <1>1 DEF Skip, Looping
  <2> HIDE DEF usable
  <2>2. remaining \in Nat /\ FairShare(order[next]) = 0
    BY <2>1, NextShare, PlannerAssumption DEF PlannerInv, usable
  <2>3. LoopInv'
    BY <2>1, <2>2, Iteration DEF PlannerInv
  <2> QED
    BY <2>1, <2>3 DEF PlannerInv, ResultInv
<1>2. CASE Deduct
  <2> DEFINE usable == AvailableForLiquidation(assets[order[next]])
             deduct == IF usable > remaining THEN remaining ELSE usable
  <2>1. /\ next <= Len(order) /\ remaining > 0 /\ usable > 0 /\ next' = next + 1
        /\ plan' = Append(plan, <<order[next], deduct>>) /\ remaining' = remaining - deduct
        /\ UNCHANGED <<assets, amount, order, result>> /\ result = "running"
    BY <1>2 DEF Deduct, Looping
  <2> HIDE DEF usable
  <2>2. remaining \in Nat /\ usable \in Nat /\ FairShare(order[next]) = deduct
    BY <2>1, NextShare, PlannerAssumption DEF PlannerInv, usable
  <2>3. deduct # 0
    BY <2>1, <2>2
  <2> HIDE DEF deduct
  <2>4. LoopInv'
    BY <2>1, <2>2, <2>3, Iteration DEF PlannerInv
  <2> QED
    BY <2>1, <2>4 DEF PlannerInv, ResultInv
<1>3. CASE UNCHANGED <<assets, amount, order, next, remaining, plan>>
  <2>1. LoopInv'
    <3>1. /\ Planned' = Planned /\ \A i : Share(i)' = Share(i)
          /\ Visited' = Visited
      BY <1>3, Zenon DEF Planned, LegAmounts, Share, Visited
    <3> QED
      BY <1>3, <3>1, SameAssets DEF PlannerInv, LoopInv
  <2>2. remaining \in Int /\ next \in Int /\ Len(order) \in Nat /\ next <= Len(order) + 1
        /\ remaining >= 0
    BY RemainingIsNat, VisitedFacts DEF PlannerInv, LoopInv
  <2>3. ASSUME Return PROVE ResultInv'
    BY <1>3, <2>2, <2>3 DEF Return, PlannerInv, ResultInv
  <2>4. ASSUME Invalid PROVE ResultInv'
    BY <1>3, <2>4 DEF Invalid, PlannerInv, ResultInv
  <2>5. ASSUME UNCHANGED result PROVE ResultInv'
    BY <1>3, <2>5 DEF PlannerInv, ResultInv
  <2> QED
    BY <1>3, <2>1, <2>3, <2>4, <2>5, <1>1, <1>2 DEF Next, Returned, vars, PlannerInv
<1> QED
  BY <1>1, <1>2, <1>3 DEF Next, Invalid, Return, Returned, vars

LEMMA PlannerInvariant == Spec => []PlannerInv
  BY InitPlannerInv, NextPlannerInv, PTL DEF Spec

(* BuildPlan's variables keep their types: the order is one of the places  *)
(* of the assets, no leg is empty or larger than the largest request       *)
(* (planner.go:21-69).                                                     *)
THEOREM PlannerTypeOK == Spec => []TypeOK
<1>1. PlannerInv => TypeOK
  BY VisitedFacts, RemainingIsNat DEF PlannerInv, LoopInv, ResultInv, TypeOK
<1> QED
  BY <1>1, PlannerInvariant, PTL

(* At every iteration the legs and what remains add up to the request, no  *)
(* asset is charged by two legs, and a plan that is returned has one       *)
(* (planner.go:36-69).                                                     *)
THEOREM PlannerAddsUp == Spec => []PlanAddsUp
<1>1. ASSUME PlannerInv
      PROVE  PlanAddsUp
  <2>1. Planned + remaining = amount /\ remaining >= 0
    BY <1>1, RemainingIsNat DEF PlannerInv, LoopInv
  <2>2. \A m, n \in DOMAIN plan : plan[m][1] = plan[n][1] => m = n
    BY <1>1 DEF PlannerInv, LoopInv
  <2>3. ASSUME result = "ok", plan = <<>>
        PROVE  FALSE
    <3>1. amount > 0 /\ remaining = 0 /\ amount \in Nat
      BY <1>1, <2>3, RemainingIsNat DEF PlannerInv, ResultInv
    <3>2. DOMAIN LegAmounts = {}
      BY <2>3 DEF LegAmounts
    <3>3. Planned = 0
      BY <3>2, SumEmpty DEF Planned, SumFunction
    <3> QED
      BY <2>1, <3>1, <3>3
  <2> QED
    BY <2>1, <2>2, <2>3 DEF PlanAddsUp
<1> QED
  BY <1>1, PlannerInvariant, PTL

(* BuildPlan succeeds exactly when the assets can cover the amount, and    *)
(* then every asset gives what those before it in the stable order of      *)
(* priorities leave of the amount, up to what it has above its threshold   *)
(* (planner.go:26-69, asset.go:33-42).                                     *)
THEOREM PlannerIsFairShare == Spec => []PlanIsFairShare
<1>1. ASSUME PlannerInv
      PROVE  PlanIsFairShare
  <2> USE <1>1 DEF PlannerInv
  <2> DEFINE D == DOMAIN assets
  <2>1. /\ assets \in SeqOf(Asset, MaxAssets) /\ Visited \in SUBSET D
        /\ remaining \in Nat /\ amount \in Nat /\ Liquid(Visited) \in Nat
        /\ remaining = 0 <=> Liquid(Visited) >= amount
    BY RemainingIsNat, VisitedFacts DEF LoopInv
  <2>2. ASSUME result = "ok", NEW i \in D
        PROVE  Share(i) = FairShare(i)
    <3>1. CASE i \in Visited
      BY <3>1 DEF LoopInv
    <3>2. CASE i \notin Visited
      <4> DEFINE before == {j \in D : Before(assets, j, i)}
      <4>1. before \in SUBSET D /\ Visited \in SUBSET before
        BY <3>2, VisitedFacts
      <4>2. Liquid(before) \in Nat /\ Liquid(Visited) <= Liquid(before)
        BY <2>1, <4>1, LiquidFacts
      <4>3. remaining = 0
        BY <2>2 DEF ResultInv
      <4>4. ~ amount > Liquid(before)
        BY <2>1, <4>2, <4>3
      <4>5. AvailableForLiquidation(assets[i]) \in Nat
        BY <2>1, AssetsTyped
      <4>6. FairShare(i) = 0
        BY <4>4, <4>5 DEF FairShare
      <4> QED
        BY <3>2, <4>6 DEF LoopInv
    <3> QED
      BY <3>1, <3>2
  <2>3. result = "ok" => Liquid(D) >= amount
    <3>1. Liquid(Visited) <= Liquid(D) /\ Liquid(D) \in Nat
      BY <2>1, LiquidFacts
    <3> QED
      BY <2>1, <3>1 DEF ResultInv
  <2>4. result = "ErrInsufficientFunds" => ~ Liquid(D) >= amount
    BY <2>1, VisitedFacts DEF ResultInv
  <2> QED
    BY <2>2, <2>3, <2>4 DEF PlanIsFairShare, ResultInv
<1> QED
  BY <1>1, PlannerInvariant, PTL
=============================================================================
