--------------------------- MODULE AccountsProofs ---------------------------
(***************************************************************************)
(* The stores, for any accounts, users, requests, amounts and word size.   *)
(* First the legs that the service decides on, then two invariants: Inv,   *)
(* which needs no type of an amount (a transaction commits to a row exactly *)
(* the sum that its UPDATE has found covered, whatever that is), and       *)
(* AmountInv.  The mapping to Transfers and the theorems rest on both.     *)
(***************************************************************************)
EXTENDS Accounts, Sums, SequenceTheorems, TLAPS

-----------------------------------------------------------------------------
(***************************************************************************)
(* The legs of a transfer.                                                 *)
(***************************************************************************)
\* What LegsAddUp asks of a transfer, and the type of its changes.
SoundOp(o) ==
    /\ o.delta \in [Account -> Int]
    /\ SumFunction(o.delta) = 0
    /\ IsInjective(o.order)
    /\ \A a \in Account : a \in ToSet(o.order) <=> o.delta[a] # 0

\* No account loses or gains more than n.
AtMost(o, n) == \A a \in Account : -n <= o.delta[a] /\ o.delta[a] <= n

LEMMA NoOpSound == SoundOp(NoOp)
<1>1. NoOp.delta \in [Account -> Int] /\ \A a \in Account : NoOp.delta[a] = 0
  BY DEF NoOp
<1>2. SumFunction(NoOp.delta) = 0
  <2>1. DOMAIN NoOp.delta = Account
    BY <1>1
  <2>2. SumFunctionOnSet(NoOp.delta, Account) = 0
    BY <1>1, ServiceAssumption, SumZero
  <2> QED
    BY <2>1, <2>2 DEF SumFunction
<1>3. NoOp.order = <<>> /\ DOMAIN NoOp.order = {}
  BY DEF NoOp
<1> QED
  BY <1>1, <1>2, <1>3 DEF SoundOp, IsInjective, ToSet

\* A debit and a credit of the same amount.
LEMMA MoveSound ==
    ASSUME NEW from \in Account, NEW to \in Account, from # to, NEW n \in Nat \ {0}
    PROVE  /\ Move(from, to, n).order \in Seq(Account) /\ SoundOp(Move(from, to, n))
           /\ AtMost(Move(from, to, n), n)
<1> DEFINE d == Move(from, to, n).delta
           rest == (Account \ {from}) \ {to}
<1>1. /\ d \in [Account -> Int]
      /\ d[from] = -n /\ d[to] = n
      /\ \A a \in Account \ {from, to} : d[a] = 0
  BY DEF Move
<1>2. SumFunction(d) = 0
  <2>1. IsFiniteSet(Account) /\ IsFiniteSet(Account \ {from}) /\ IsFiniteSet(rest)
    BY ServiceAssumption, FS_RemoveElement
  <2>2. \A a \in Account : d[a] \in Int
    BY <1>1
  <2>3. \A a \in Account \ {from} : d[a] \in Int
    BY <1>1
  <2>4. \A a \in rest : d[a] = 0
    BY <1>1
  <2>5. to \in Account \ {from} /\ DOMAIN d = Account
    BY <1>1
  <2> HIDE DEF d, rest
  <2>6. SumFunctionOnSet(d, Account) = d[from] + SumFunctionOnSet(d, Account \ {from})
    BY <2>1, <2>2, SumRemove
  <2>7. SumFunctionOnSet(d, Account \ {from}) = d[to] + SumFunctionOnSet(d, rest)
    BY <2>1, <2>3, <2>5, SumRemove DEF rest
  <2>8. SumFunctionOnSet(d, rest) = 0
    BY <2>1, <2>4, SumZero
  <2> QED
    BY <1>1, <2>5, <2>6, <2>7, <2>8 DEF SumFunction
<1>3. IsInjective(Move(from, to, n).order) /\ ToSet(Move(from, to, n).order) = {from, to}
  BY DEF Move, IsInjective, ToSet
<1>4. Move(from, to, n).order \in Seq(Account)
  BY DEF Move
<1>5. AtMost(Move(from, to, n), n)
  <2>1. \A a \in Account : d[a] = -n \/ d[a] = n \/ d[a] = 0
    BY <1>1
  <2> HIDE DEF d
  <2>2. \A a \in Account : -n <= d[a] /\ d[a] <= n
    BY <2>1
  <2> QED
    BY <2>2 DEF AtMost, d
<1> QED
  BY <1>1, <1>2, <1>3, <1>4, <1>5 DEF SoundOp

-----------------------------------------------------------------------------
\* The share of an account is something while anything is left, and no more.
LEMMA ShareBounds ==
    ASSUME NEW n \in Nat \ {0}, NEW amount \in Nat, NEW rem \in Nat, NEW i
    PROVE  /\ Share(i, n, amount, rem) \in Nat
           /\ Share(i, n, amount, rem) <= rem
           /\ rem > 0 => Share(i, n, amount, rem) > 0
<1>1. amount \div n \in Nat
  OBVIOUS
<1> DEFINE q == amount \div n
<1>2. q \in Nat
  BY <1>1
<1> HIDE DEF q
<1>3. \A x, y \in Nat : Min({x, y}) = IF x <= y THEN x ELSE y
  BY DEF Min
<1>4. Share(i, n, amount, rem) = IF i = n \/ q = 0 THEN rem ELSE IF q <= rem THEN q ELSE rem
  BY <1>2, <1>3 DEF Share, q
<1> QED
  BY <1>2, <1>4

\* LeftAfter up to its k-th value.
Lefts(h, n, amount, k) ==
    h = [i \in 0 .. k |->
            IF i = 0 THEN amount ELSE h[i - 1] - Share(i, n, amount, h[i - 1])]

LEMMA LeftsExist ==
    ASSUME NEW n, NEW amount, NEW k \in Nat
    PROVE  \E h : Lefts(h, n, amount, k)
<1> DEFINE Without == {j \in Nat : ~ \E h : Lefts(h, n, amount, j)}
<1>1. \E h : Lefts(h, n, amount, 0)
  <2>1. Lefts([i \in 0 .. 0 |-> amount], n, amount, 0)
    BY DEF Lefts
  <2> QED
    BY <2>1
<1>2. ASSUME NEW j \in Nat, NEW h, Lefts(h, n, amount, j)
      PROVE  \E g : Lefts(g, n, amount, j + 1)
  <2> DEFINE Next0(x, i) == IF i = 0 THEN amount ELSE x[i - 1] - Share(i, n, amount, x[i - 1])
             g == [i \in 0 .. j + 1 |-> Next0(h, i)]
  <2>1. ASSUME NEW i \in 0 .. j
        PROVE  h[i] = Next0(h, i) /\ i \in 0 .. j + 1
    BY <1>2 DEF Lefts
  <2>2. \A i \in 0 .. j : g[i] = h[i]
    BY <2>1
  <2>3. ASSUME NEW i \in 0 .. j + 1
        PROVE  Next0(h, i) = Next0(g, i)
    <3>1. i # 0 => i - 1 \in 0 .. j
      OBVIOUS
    <3>2. i # 0 => g[i - 1] = h[i - 1]
      BY <2>2, <3>1
    <3> HIDE DEF g
    <3> QED
      BY <3>2
  <2>4. g = [i \in 0 .. j + 1 |-> Next0(g, i)]
    <3>1. g = [i \in 0 .. j + 1 |-> Next0(h, i)]
      OBVIOUS
    <3> HIDE DEF g, Next0
    <3> QED
      BY <2>3, <3>1
  <2>5. Lefts(g, n, amount, j + 1)
    BY <2>4, Zenon DEF Lefts
  <2> QED
    BY <2>5
<1>3. Without = {}
  <2> SUFFICES ASSUME Without # {} PROVE FALSE
    OBVIOUS
  <2>1. PICK j \in Without : \A m \in Without : j <= m
    BY LeastNat
  <2>2. j \in Nat /\ ~ \E h : Lefts(h, n, amount, j)
    OBVIOUS
  <2> HIDE DEF Without
  <2>3. j # 0
    BY <1>1, <2>2
  <2>4. j - 1 \in Nat /\ j - 1 \notin Without
    BY <2>1, <2>2, <2>3
  <2>5. PICK h : Lefts(h, n, amount, j - 1)
    BY <2>4 DEF Without
  <2>6. \E g : Lefts(g, n, amount, j - 1 + 1)
    BY <1>2, <2>4, <2>5
  <2> QED
    BY <2>2, <2>6
<1> QED
  BY <1>3

\* What is left after each iteration of computeDistribution's loop.
LEMMA LeftAfterFacts ==
    ASSUME NEW n \in Nat \ {0}, NEW amount \in Nat
    PROVE  LET left == LeftAfter(n, amount) IN
           /\ left[0] = amount
           /\ \A i \in 0 .. n : left[i] \in Nat /\ left[i] <= amount
           /\ \A i \in 1 .. n : left[i] <= left[i - 1] /\ (left[i - 1] > 0 => left[i] < left[i - 1])
<1> DEFINE left == LeftAfter(n, amount)
           Bad == {i \in Nat : i <= n /\ ~ (left[i] \in Nat /\ left[i] <= amount)}
<1>1. Lefts(left, n, amount, n)
  <2>1. left = CHOOSE h : Lefts(h, n, amount, n)
    BY DEF LeftAfter, Lefts
  <2>2. \E h : Lefts(h, n, amount, n)
    BY LeftsExist
  <2> QED
    BY <2>1, <2>2, Zenon
<1> HIDE DEF left
<1>2. /\ left[0] = amount
      /\ \A i \in 1 .. n : left[i] = left[i - 1] - Share(i, n, amount, left[i - 1])
  BY <1>1 DEF Lefts
<1>3. \A i \in 0 .. n : left[i] \in Nat /\ left[i] <= amount
  <2> SUFFICES ASSUME Bad # {} PROVE FALSE
    OBVIOUS
  <2>1. PICK i \in Bad : \A j \in Bad : i <= j
    BY LeastNat
  <2>2. i \in 1 .. n /\ i - 1 \notin Bad /\ ~ (left[i] \in Nat /\ left[i] <= amount)
    BY <1>2, <2>1
  <2>3. left[i - 1] \in Nat /\ left[i - 1] <= amount
    BY <2>2
  <2>4. /\ Share(i, n, amount, left[i - 1]) \in Nat
        /\ Share(i, n, amount, left[i - 1]) <= left[i - 1]
    BY <2>3, ShareBounds
  <2>5. left[i] = left[i - 1] - Share(i, n, amount, left[i - 1])
    BY <1>2, <2>2
  <2> QED
    BY <2>2, <2>3, <2>4, <2>5
<1>4. ASSUME NEW i \in 1 .. n
      PROVE  left[i] <= left[i - 1] /\ (left[i - 1] > 0 => left[i] < left[i - 1])
  <2>1. left[i - 1] \in Nat /\ left[i] \in Nat
    BY <1>3
  <2>2. /\ Share(i, n, amount, left[i - 1]) \in Nat
        /\ left[i - 1] > 0 => Share(i, n, amount, left[i - 1]) > 0
    BY <2>1, ShareBounds
  <2>3. left[i] = left[i - 1] - Share(i, n, amount, left[i - 1])
    BY <1>2
  <2> QED
    BY <2>1, <2>2, <2>3
<1> QED
  BY <1>2, <1>3, <1>4 DEF left

\* The first m of s.
Prefix(s, m) == {s[i] : i \in 1 .. m}

\* What changes besides the clearing account makes the sum.
LEMMA SumWithClearing ==
    ASSUME NEW d \in [Account -> Int], NEW P \in SUBSET (Account \ {Clearing}),
           \A a \in Account \ {Clearing} : a \notin P => d[a] = 0
    PROVE  SumFunction(d) = d[Clearing] + SumFunctionOnSet(d, P)
<1> DEFINE others == Account \ {Clearing}
           rest == others \ P
<1>1. /\ IsFiniteSet(Account) /\ IsFiniteSet(others) /\ IsFiniteSet(P) /\ IsFiniteSet(rest)
      /\ Clearing \in Account
  BY ServiceAssumption, FS_Subset
<1>2. P \cap rest = {} /\ P \cup rest = others
  OBVIOUS
<1>3. DOMAIN d = Account /\ \A a \in Account : d[a] \in Int
  OBVIOUS
<1>4. \A a \in rest : d[a] = 0
  OBVIOUS
<1>5. \A a \in P \cup rest : d[a] \in Int
  OBVIOUS
<1> HIDE DEF rest
<1>6. SumFunctionOnSet(d, Account) = d[Clearing] + SumFunctionOnSet(d, others)
  BY <1>1, <1>3, SumRemove
<1> HIDE DEF others
<1>7. SumFunctionOnSet(d, P \cup rest) = SumFunctionOnSet(d, P) + SumFunctionOnSet(d, rest)
  BY <1>1, <1>2, <1>5, SumUnion
<1>8. SumFunctionOnSet(d, rest) = 0
  BY <1>1, <1>4, SumZero
<1>9. SumFunctionOnSet(d, P) \in Int
  BY <1>1, <1>5, SumInt
<1> QED
  BY <1>2, <1>3, <1>6, <1>7, <1>8, <1>9 DEF SumFunction

\* d gives to each of the first m of s what left loses there.
Pays(s, m, d, left) ==
    /\ \A i, j \in 1 .. m : s[i] = s[j] => i = j
    /\ \A i \in 0 .. m : left[i] \in Int
    /\ \A i \in 1 .. m : d[s[i]] = left[i - 1] - left[i]

\* Differences of neighbours add up to the difference of the ends.
LEMMA Telescope ==
    ASSUME NEW m \in Nat, NEW s, NEW d, NEW left, Pays(s, m, d, left)
    PROVE  SumFunctionOnSet(d, Prefix(s, m)) = left[0] - left[m]
<1> USE DEF Pays
<1> DEFINE Upto(k) == Prefix(s, k)
           Total(k) == SumFunctionOnSet(d, Upto(k))
           Off == {k \in Nat : k <= m /\ Total(k) # left[0] - left[k]}
<1>1. Total(0) = 0
  <2>1. Upto(0) = {}
    BY DEF Prefix
  <2> HIDE DEF Upto
  <2> QED
    BY <2>1, SumEmpty
<1>2. ASSUME NEW k \in 1 .. m
      PROVE  Total(k) = Total(k - 1) + (left[k - 1] - left[k])
  <2>1. /\ 1 .. k = (1 .. k - 1) \cup {k} /\ k - 1 \in Nat
        /\ \A i \in 1 .. k - 1 : i \in 1 .. m /\ i # k
        /\ \A i \in 1 .. m : i \in 0 .. m /\ i - 1 \in 0 .. m
    OBVIOUS
  <2>2. Upto(k) = Upto(k - 1) \cup {s[k]} /\ s[k] \notin Upto(k - 1)
    BY <2>1 DEF Prefix
  <2>3. \A i \in 1 .. m : d[s[i]] \in Int
    BY <2>1
  <2>4. \A a \in Upto(k - 1) \cup {s[k]} : d[a] \in Int
    BY <2>1, <2>3 DEF Prefix
  <2>5. IsFiniteSet(Upto(k - 1))
    <3>1. IsFiniteSet(1 .. k - 1)
      <4>1. 1 \in Int /\ k - 1 \in Int
        OBVIOUS
      <4> QED
        BY <4>1, FS_Interval
    <3>2. [i \in 1 .. k - 1 |-> s[i]] \in Surjection(1 .. k - 1, Upto(k - 1))
      BY DEF Surjection, Prefix
    <3> QED
      BY <3>1, <3>2, FS_Surjection
  <2> HIDE DEF Upto
  <2>6. SumFunctionOnSet(d, Upto(k - 1) \cup {s[k]})
        = SumFunctionOnSet(d, Upto(k - 1)) + d[s[k]]
    BY <2>2, <2>4, <2>5, SumAdd
  <2> QED
    BY <2>2, <2>6
<1> HIDE DEF Total
<1>3. Off = {}
  <2> SUFFICES ASSUME Off # {} PROVE FALSE
    OBVIOUS
  <2>1. PICK k \in Off : \A j \in Off : k <= j
    BY LeastNat
  <2>2. k \in Nat /\ k <= m /\ Total(k) # left[0] - left[k] /\ left[0] \in Int
    OBVIOUS
  <2>3. k # 0
    BY <1>1, <2>2
  <2>4. k \in 1 .. m /\ k - 1 \in Nat /\ k - 1 <= m /\ k - 1 \notin Off
    BY <2>1, <2>2, <2>3
  <2>5. Total(k - 1) = left[0] - left[k - 1]
    BY <2>4
  <2>6. left[k - 1] \in Int /\ left[k] \in Int
    BY <2>4
  <2> QED
    BY <1>2, <2>2, <2>4, <2>5, <2>6
<1>4. Total(m) = left[0] - left[m]
  BY <1>3
<1> QED
  BY <1>4 DEF Total

\* The clearing account, then the first m of s.
InOrder(q, s, m) ==
    /\ q = <<Clearing>> \o SubSeq(s, 1, m)
    /\ \A i \in 1 .. m : s[i] \in Account

Lists(q, s, m) ==
    /\ q \in Seq(Account) /\ DOMAIN q = 1 .. m + 1 /\ q[1] = Clearing
    /\ \A i \in 1 .. m : q[i + 1] = s[i]
    /\ ToSet(q) = {Clearing} \cup Prefix(s, m)

LEMMA ClearingFirst ==
    ASSUME NEW s, NEW m \in Nat, NEW q, InOrder(q, s, m)
    PROVE  Lists(q, s, m)
<1> DEFINE one == <<Clearing>>
           first == SubSeq(s, 1, m)
<1>0. (\A i \in 1 .. m : s[i] \in Account) /\ 1 \in Int /\ m \in Int
  BY DEF InOrder
<1>1. first \in Seq(Account)
  BY <1>0, SubSeqProperties
<1>2. Len(first) = m
  <2>1. Len(first) = IF 1 <= m THEN m - 1 + 1 ELSE 0
    BY <1>0, SubSeqProperties
  <2> QED
    BY <2>1
<1>3. \A i \in 1 .. m : first[i] = s[i]
  <2>1. \A i \in 1 .. m - 1 + 1 : first[i] = s[1 + i - 1]
    BY <1>0, SubSeqProperties
  <2>2. m - 1 + 1 = m /\ \A i \in 1 .. m : 1 + i - 1 = i
    OBVIOUS
  <2> HIDE DEF first
  <2> QED
    BY <2>1, <2>2
<1>4. one \in Seq(Account) /\ Len(one) = 1 /\ one[1] = Clearing
  BY ServiceAssumption
<1>5. q = one \o first
  BY DEF InOrder
<1> HIDE DEF one, first
<1>6. q \in Seq(Account) /\ Len(q) = 1 + m
      /\ \A i \in 1 .. 1 + m : q[i] = IF i <= 1 THEN one[i] ELSE first[i - 1]
  <2>1. /\ one \o first \in Seq(Account)
        /\ Len(one \o first) = Len(one) + Len(first)
        /\ \A i \in 1 .. Len(one) + Len(first) : (one \o first)[i] =
               IF i <= Len(one) THEN one[i] ELSE first[i - Len(one)]
    BY <1>1, <1>4, ConcatProperties
  <2> QED
    BY <1>2, <1>4, <1>5, <2>1
<1>7. DOMAIN q = 1 .. m + 1
  BY <1>6, LenProperties
<1>8. q[1] = Clearing
  <2>1. 1 \in 1 .. 1 + m /\ 1 <= 1
    OBVIOUS
  <2> QED
    BY <1>4, <1>6, <2>1
<1>9. \A i \in 1 .. m : q[i + 1] = s[i]
  <2> TAKE i \in 1 .. m
  <2>1. i + 1 \in 1 .. 1 + m /\ ~ (i + 1 <= 1) /\ i + 1 - 1 = i
    OBVIOUS
  <2> QED
    BY <1>3, <1>6, <2>1
<1>10. ToSet(q) = {Clearing} \cup Prefix(s, m)
  <2>1. \A j \in 1 .. m + 1 : j = 1 \/ (\E i \in 1 .. m : j = i + 1)
    <3> TAKE j \in 1 .. m + 1
    <3>1. j # 1 => j - 1 \in 1 .. m /\ j = j - 1 + 1
      OBVIOUS
    <3> QED
      BY <3>1
  <2>2. 1 \in 1 .. m + 1 /\ \A i \in 1 .. m : i + 1 \in 1 .. m + 1
    OBVIOUS
  <2> QED
    <3>1. ASSUME NEW x \in ToSet(q)
          PROVE  x \in {Clearing} \cup Prefix(s, m)
      <4>1. PICK j \in 1 .. m + 1 : x = q[j]
        BY <1>7 DEF ToSet
      <4>2. CASE j = 1
        BY <1>8, <4>1, <4>2
      <4>3. CASE \E i \in 1 .. m : j = i + 1
        BY <1>9, <4>1, <4>3 DEF Prefix
      <4> QED
        BY <2>1, <4>2, <4>3
    <3>2. Clearing \in ToSet(q)
      BY <1>7, <1>8, <2>2 DEF ToSet
    <3>3. ASSUME NEW x \in Prefix(s, m)
          PROVE  x \in ToSet(q)
      <4>1. PICK i \in 1 .. m : x = s[i]
        BY DEF Prefix
      <4>2. x = q[i + 1] /\ i + 1 \in DOMAIN q
        BY <1>7, <1>9, <2>2, <4>1
      <4> QED
        BY <4>2 DEF ToSet
    <3> QED
      BY <3>1, <3>2, <3>3
<1> QED
  BY <1>6, <1>7, <1>8, <1>9, <1>10 DEF Lists

\* Shares that use up the amount, for the first m of the N accounts s.
UsesUp(s, N, m, amount, left) ==
    /\ s \in [1 .. N -> Account \ {Clearing}]
    /\ \A i, j \in 1 .. N : i # j => s[i] # s[j]
    /\ left[0] = amount /\ left[m] = 0
    /\ \A i \in 0 .. m : left[i] \in Nat /\ left[i] <= amount
    /\ \A i \in 1 .. m : left[i] < left[i - 1]

LEMMA FromClearingSound ==
    ASSUME NEW N \in Nat, NEW s, NEW m \in 1 .. N, NEW amount \in Nat \ {0},
           NEW left, UsesUp(s, N, m, amount, left),
           NEW o, o = FromClearing(s, m, amount, [i \in 1 .. m |-> left[i - 1] - left[i]])
    PROVE  o.order \in Seq(Account) /\ SoundOp(o) /\ AtMost(o, amount)
<1> DEFINE d == o.delta
           Paid == Prefix(s, m)
           rest == Account \ ({Clearing} \cup Paid)
<1> USE DEF UsesUp
<1>0. m \in Nat /\ \A i \in 1 .. m : i \in 1 .. N /\ i \in 0 .. m /\ i - 1 \in 0 .. m
  OBVIOUS
<1>1. \A i \in 1 .. m : s[i] \in Account \ {Clearing}
  BY <1>0
<1>2. /\ d \in [Account -> Int]
      /\ d[Clearing] = -amount
      /\ \A i \in 1 .. m : d[s[i]] = left[i - 1] - left[i]
      /\ \A a \in rest : d[a] = 0
  <2> DEFINE share == [i \in 1 .. m |-> left[i - 1] - left[i]]
             At(a) == CHOOSE i \in 1 .. m : s[i] = a
  <2>1. d = [a \in Account |->
                IF a = Clearing THEN -amount
                ELSE IF \E i \in 1 .. m : s[i] = a THEN share[At(a)] ELSE 0]
    BY DEF FromClearing
  <2>2. ASSUME NEW i \in 1 .. m
        PROVE  At(s[i]) = i
    <3>1. At(s[i]) \in 1 .. m /\ s[At(s[i])] = s[i]
      OBVIOUS
    <3> HIDE DEF At
    <3> QED
      BY <1>0, <3>1
  <2>3. ASSUME NEW a \in Account, \E i \in 1 .. m : s[i] = a
        PROVE  share[At(a)] \in Int
    <3>1. PICK i \in 1 .. m : s[i] = a
      BY <2>3
    <3>2. At(a) = i
      BY <2>2, <3>1
    <3>3. left[i - 1] \in Nat /\ left[i] \in Nat
      BY <1>0
    <3> HIDE DEF At
    <3> QED
      BY <3>2, <3>3
  <2>4. -amount \in Int /\ 0 \in Int
    OBVIOUS
  <2> HIDE DEF At, d
  <2>5. \A i \in 1 .. m : share[i] = left[i - 1] - left[i]
    OBVIOUS
  <2> HIDE DEF share
  <2>6. d \in [Account -> Int]
    BY <2>1, <2>3, <2>4
  <2>7. d[Clearing] = -amount
    BY <2>1, ServiceAssumption
  <2>8. \A i \in 1 .. m : d[s[i]] = left[i - 1] - left[i]
    BY <1>1, <2>1, <2>2, <2>5
  <2>9. \A a \in rest : d[a] = 0
    BY <2>1 DEF Prefix
  <2> QED
    BY <2>6, <2>7, <2>8, <2>9
<1>3. /\ o.order \in Seq(Account) /\ DOMAIN o.order = 1 .. m + 1 /\ o.order[1] = Clearing
      /\ \A i \in 1 .. m : o.order[i + 1] = s[i]
      /\ ToSet(o.order) = {Clearing} \cup Paid
  <2>1. \A i \in 1 .. m : s[i] \in Account
    BY <1>1
  <2>2. o.order = <<Clearing>> \o SubSeq(s, 1, m)
    BY DEF FromClearing
  <2>3. InOrder(o.order, s, m) /\ m \in Nat
    BY <1>0, <2>1, <2>2 DEF InOrder
  <2>4. Lists(o.order, s, m)
    BY <2>3, ClearingFirst
  <2> QED
    BY <2>4 DEF Lists
<1> HIDE DEF d
<1>4. SumFunction(d) = 0
  <2>1. Paid \in SUBSET (Account \ {Clearing})
    BY <1>1 DEF Prefix
  <2>2. \A a \in Account \ {Clearing} : a \notin Paid => d[a] = 0
    BY <1>2
  <2>3. SumFunction(d) = d[Clearing] + SumFunctionOnSet(d, Paid)
    <3> HIDE DEF Paid
    <3> QED
      BY <1>2, <2>1, <2>2, SumWithClearing
  <2>4. SumFunctionOnSet(d, Paid) = left[0] - left[m]
    <3>1. \A i, j \in 1 .. m : s[i] = s[j] => i = j
      BY <1>0
    <3>2. \A i \in 0 .. m : left[i] \in Int
      OBVIOUS
    <3>3. \A i \in 1 .. m : d[s[i]] = left[i - 1] - left[i]
      BY <1>2
    <3>4. Pays(s, m, d, left)
      BY <3>1, <3>2, <3>3 DEF Pays
    <3> QED
      BY <1>0, <3>4, Telescope
  <2>5. d[Clearing] = -amount
    BY <1>2
  <2> QED
    BY <2>3, <2>4, <2>5
<1>5. IsInjective(o.order)
  <2> DEFINE q == o.order
  <2>1. ASSUME NEW i \in 1 .. m + 1, i # 1
        PROVE  i - 1 \in 1 .. m /\ q[i] = s[i - 1]
    <3>1. i - 1 \in 1 .. m /\ i - 1 + 1 = i
      BY <2>1
    <3>2. q[i - 1 + 1] = s[i - 1]
      BY <1>3, <3>1
    <3> QED
      BY <3>1, <3>2
  <2>2. q[1] = Clearing /\ DOMAIN q = 1 .. m + 1
    BY <1>3
  <2> HIDE DEF q
  <2>3. ASSUME NEW i \in 1 .. m + 1, NEW j \in 1 .. m + 1, q[i] = q[j]
        PROVE  i = j
    <3>1. CASE i = 1 \/ j = 1
      BY <1>1, <2>1, <2>2, <2>3, <3>1
    <3>2. CASE i # 1 /\ j # 1
      <4>1. s[i - 1] = s[j - 1] /\ i - 1 \in 1 .. m /\ j - 1 \in 1 .. m
        BY <2>1, <2>3, <3>2
      <4>2. i - 1 = j - 1
        BY <1>0, <4>1
      <4> QED
        BY <4>2
    <3> QED
      BY <3>1, <3>2
  <2> QED
    BY <2>2, <2>3 DEF IsInjective, q
<1>6. ASSUME NEW a \in Account
      PROVE  a \in ToSet(o.order) <=> d[a] # 0
  <2>1. CASE a = Clearing
    <3>1. -amount # 0
      OBVIOUS
    <3> QED
      BY <1>2, <1>3, <2>1, <3>1
  <2>2. CASE a \in Paid
    <3>1. PICK i \in 1 .. m : a = s[i]
      BY <2>2 DEF Prefix
    <3>2. d[a] = left[i - 1] - left[i] /\ left[i] < left[i - 1] /\ left[i] \in Nat /\ left[i - 1] \in Nat
      BY <1>0, <1>2, <3>1
    <3>3. d[a] # 0
      BY <3>2
    <3> QED
      BY <1>3, <2>2, <3>3
  <2>3. CASE a \in rest
    BY <1>2, <1>3, <2>3
  <2> QED
    BY <2>1, <2>2, <2>3
<1>7. ASSUME NEW a \in Account
      PROVE  -amount <= d[a] /\ d[a] <= amount
  <2>1. CASE a = Clearing
    BY <1>2, <2>1
  <2>2. CASE a \in Paid
    <3>1. PICK i \in 1 .. m : a = s[i]
      BY <2>2 DEF Prefix
    <3>2. /\ d[a] = left[i - 1] - left[i] /\ left[i] \in Nat /\ left[i - 1] \in Nat
          /\ left[i] < left[i - 1] /\ left[i - 1] <= amount
      BY <1>0, <1>2, <3>1
    <3> QED
      BY <3>2
  <2>3. CASE a \in rest
    BY <1>2, <2>3
  <2> QED
    BY <2>1, <2>2, <2>3
<1> QED
  BY <1>2, <1>3, <1>4, <1>5, <1>6, <1>7 DEF SoundOp, AtMost, d

LEMMA DistributionSound ==
    ASSUME NEW u \in User, NEW s \in DistributionOrders(u), NEW m \in DOMAIN s,
           NEW n \in Nat \ {0},
           LeftAfter(Len(s), n)[m - 1] > 0, LeftAfter(Len(s), n)[m] = 0
    PROVE  /\ Distribution(s, m, n).order \in Seq(Account) /\ SoundOp(Distribution(s, m, n))
           /\ AtMost(Distribution(s, m, n), n)
<1> DEFINE N == Cardinality(Splittable(u))
           left == LeftAfter(N, n)
           Empty == {j \in Nat : j <= m - 1 /\ left[m - 1 - j] <= 0}
<1>1. N \in Nat
  <2>1. IsFiniteSet(Splittable(u))
    BY ServiceAssumption, FS_Subset DEF Splittable
  <2> QED
    BY <2>1, FS_CardinalityType
<1>2. s \in [1 .. N -> Splittable(u)] /\ \A i, j \in 1 .. N : i # j => s[i] # s[j]
  BY DEF DistributionOrders, SetToSeqs
<1>3. s \in [1 .. N -> Account \ {Clearing}]
  BY <1>2 DEF Splittable
<1> HIDE DEF N
<1>4. Len(s) = N /\ m \in 1 .. N /\ N \in Nat \ {0}
  BY <1>1, <1>3
<1>5. /\ left[0] = n
      /\ \A i \in 0 .. N : left[i] \in Nat /\ left[i] <= n
      /\ \A i \in 1 .. N : left[i] <= left[i - 1] /\ (left[i - 1] > 0 => left[i] < left[i - 1])
  BY <1>4, LeftAfterFacts
<1>6. left[m - 1] > 0 /\ left[m] = 0
  BY <1>4
<1> HIDE DEF left
<1>7. Empty = {}
  <2> SUFFICES ASSUME Empty # {} PROVE FALSE
    OBVIOUS
  <2>1. PICK j \in Empty : \A i \in Empty : j <= i
    BY LeastNat
  <2>2. j \in Nat /\ j <= m - 1 /\ left[m - 1 - j] <= 0
    OBVIOUS
  <2>3. j # 0
    <3>1. left[m - 1] \in Nat /\ m - 1 - 0 = m - 1
      BY <1>4, <1>5
    <3> QED
      BY <1>6, <2>2, <3>1
  <2>4. j - 1 \in Nat /\ j - 1 <= m - 1 /\ j - 1 \notin Empty
    BY <1>4, <2>1, <2>2, <2>3
  <2>5. ~ (left[m - 1 - (j - 1)] <= 0)
    BY <2>4
  <2> DEFINE i == m - j
  <2>6. i \in 1 .. N /\ i \in 0 .. N /\ i - 1 \in 0 .. N /\ m - 1 - (j - 1) = i /\ m - 1 - j = i - 1
    BY <1>4, <2>2, <2>3
  <2> HIDE DEF i
  <2>7. left[i] <= left[i - 1] /\ left[i] \in Nat /\ left[i - 1] \in Nat
    BY <1>5, <2>6
  <2>8. ~ (left[i] <= 0) /\ left[i - 1] <= 0
    BY <2>2, <2>5, <2>6
  <2> QED
    BY <2>7, <2>8
<1>8. ASSUME NEW i \in 1 .. m
      PROVE  left[i] < left[i - 1]
  <2>1. m - i \in Nat /\ m - i <= m - 1 /\ m - 1 - (m - i) = i - 1 /\ i \in 1 .. N /\ i - 1 \in 0 .. N
    BY <1>4
  <2>2. ~ (left[i - 1] <= 0)
    BY <1>7, <2>1
  <2>3. left[i - 1] \in Nat
    BY <1>5, <2>1
  <2>4. left[i - 1] > 0
    BY <2>2, <2>3
  <2> QED
    BY <1>5, <2>1, <2>4
<1>9. \A i \in 0 .. m : left[i] \in Nat /\ left[i] <= n
  BY <1>4, <1>5
<1>10. Distribution(s, m, n) = FromClearing(s, m, n, [i \in 1 .. m |-> left[i - 1] - left[i]])
  BY <1>4 DEF Distribution, left
<1> DEFINE o == Distribution(s, m, n)
<1>11. o = FromClearing(s, m, n, [i \in 1 .. m |-> left[i - 1] - left[i]])
  BY <1>10
<1> HIDE DEF o
<1>12. UsesUp(s, N, m, n, left)
  BY <1>2, <1>3, <1>5, <1>6, <1>8, <1>9 DEF UsesUp
<1>13. o.order \in Seq(Account) /\ SoundOp(o) /\ AtMost(o, n)
  BY <1>1, <1>4, <1>11, <1>12, FromClearingSound
<1> QED
  BY <1>13 DEF o

\* What the service hands to a store.
LEMMA SubmittedOp ==
    ASSUME NEW r \in Request, TransferOwn(r) \/ TransferP2P(r) \/ TransferDistribute(r)
    PROVE  \E o : /\ Submit(r, o) /\ o.order \in Seq(Account) /\ SoundOp(o)
                  /\ \E n \in Amount : AtMost(o, n)
<1>1. CASE TransferOwn(r) \/ TransferP2P(r)
  <2>1. PICK from \in Account, to \in Account, n \in Amount :
            from # to /\ Submit(r, Move(from, to, n))
    BY <1>1 DEF TransferOwn, TransferP2P, MustOwnActive
  <2>2. n \in Nat \ {0}
    BY ServiceAssumption
  <2>3. /\ Move(from, to, n).order \in Seq(Account) /\ SoundOp(Move(from, to, n))
        /\ AtMost(Move(from, to, n), n)
    BY <2>1, <2>2, MoveSound
  <2> QED
    BY <2>1, <2>3
<1>2. CASE TransferDistribute(r)
  <2>1. PICK u \in Customer, n \in Amount : \E s \in DistributionOrders(u) :
            \E m \in DOMAIN s :
                /\ LeftAfter(Len(s), n)[m - 1] > 0 /\ LeftAfter(Len(s), n)[m] = 0
                /\ Submit(r, Distribution(s, m, n))
    BY <1>2 DEF TransferDistribute
  <2>2. PICK s \in DistributionOrders(u) :
            \E m \in DOMAIN s :
                /\ LeftAfter(Len(s), n)[m - 1] > 0 /\ LeftAfter(Len(s), n)[m] = 0
                /\ Submit(r, Distribution(s, m, n))
    BY <2>1
  <2>3. PICK m \in DOMAIN s :
            /\ LeftAfter(Len(s), n)[m - 1] > 0 /\ LeftAfter(Len(s), n)[m] = 0
            /\ Submit(r, Distribution(s, m, n))
    BY <2>2
  <2>4. u \in User /\ n \in Nat \ {0}
    BY ServiceAssumption
  <2>5. /\ Distribution(s, m, n).order \in Seq(Account) /\ SoundOp(Distribution(s, m, n))
        /\ AtMost(Distribution(s, m, n), n)
    BY <2>3, <2>4, DistributionSound
  <2> QED
    BY <2>3, <2>5
<1> QED
  BY <1>1, <1>2

-----------------------------------------------------------------------------
(***************************************************************************)
(* The stores.                                                             *)
(***************************************************************************)
\* What the variables hold, as far as the proofs need it.
Shape ==
    /\ driver \in {"memory", "postgres"}
    /\ active \in [Account -> BOOLEAN]
    /\ rows \in [Request -> SUBSET Row]
    /\ phase \in [Request -> Phase]
    /\ DOMAIN op = Request
    /\ \A r \in Request : op[r].order \in Seq(Account)
    /\ answer \in [Request -> {"none", "settled", "refused", "error"}]
    /\ leg \in [Request -> Nat]
    /\ \A r \in Request : leg[r] <= Len(op[r].order)

Inv == Shape /\ StoreInv

\* Steps that commit nothing: whoever holds a lock keeps its operation, the
\* balances and its row's being active, and nobody gains a lock.
LEMMA LocksKept ==
    ASSUME Inv, driver' = driver, balance' = balance, active' = active,
           \A q \in Request : Locked(q)' \subseteq Locked(q),
           \A q \in Request : Locked(q)' # {} => op'[q] = op[q]
    PROVE  /\ \A r \in Request : \A a \in Locked(r)' : LockHolds(r, a)'
           /\ driver' = "memory" => \A a \in Account : active'[a]
           /\ driver' = "postgres" => NonNegative'
<1>1. ASSUME NEW r \in Request, NEW a \in Locked(r)'
      PROVE  LockHolds(r, a)'
  <2>1. a \in Locked(r) /\ op'[r] = op[r]
    BY <1>1
  <2>2. LockHolds(r, a)
    BY <2>1 DEF Inv, StoreInv
  <2> QED
    BY <2>1, <2>2 DEF LockHolds
<1> QED
  BY <1>1 DEF Inv, StoreInv, NonNegative

LEMMA InitInv == Init => Inv
<1> SUFFICES ASSUME Init
             PROVE  Inv
  OBVIOUS
<1>1. Shape
  <2>1. driver \in {"memory", "postgres"}
    BY StartAssumption DEF Init
  <2>2. \A r \in Request : op[r].order = <<>>
    BY DEF Init, NoOp
  <2>3. /\ active \in [Account -> BOOLEAN]
        /\ rows \in [Request -> SUBSET Row]
        /\ phase \in [Request -> Phase]
        /\ DOMAIN op = Request
        /\ answer \in [Request -> {"none", "settled", "refused", "error"}]
        /\ leg = [r \in Request |-> 0]
    BY DEF Init, Phase
  <2>4. \A r \in Request : op[r].order \in Seq(Account) /\ leg[r] <= Len(op[r].order)
    <3> SUFFICES ASSUME NEW r \in Request
                 PROVE  op[r].order \in Seq(Account) /\ leg[r] <= Len(op[r].order)
      OBVIOUS
    <3>1. op[r].order \in Seq(Account)
      BY <2>2, EmptySeq
    <3>2. Len(op[r].order) = 0
      BY <2>2, EmptySeq
    <3>3. leg[r] = 0
      BY <2>3
    <3> QED
      BY <3>1, <3>2, <3>3
  <2>5. leg \in [Request -> Nat]
    BY <2>3
  <2> QED
    BY <2>1, <2>3, <2>4, <2>5 DEF Shape
<1>2. AnswersAreTrue /\ \A r \in Request : Progress(r)
  BY DEF Init, AnswersAreTrue, Progress
<1>3. \A r \in Request : Locked(r) = {}
  BY DEF Init, Locked, InTransaction, Row
<1>4. NonNegative
  BY StartAssumption DEF Init, NonNegative
<1> QED
  BY <1>1, <1>2, <1>3, <1>4 DEF Init, Inv, StoreInv

LEMMA SubmitInv ==
    ASSUME Inv, NEW r \in Request, NEW o, o.order \in Seq(Account),
           Submit(r, o), UNCHANGED leg
    PROVE  Inv'
<1> USE DEF Inv, StoreInv, Shape, Submit
<1>0. leg[r] = 0 /\ rows[r] = {} /\ answer[r] = "none"
  BY DEF Progress
<1>1. Shape'
  BY <1>0 DEF Phase
<1>2. AnswersAreTrue'
  BY DEF AnswersAreTrue
<1>3. \A q \in Request : Progress(q)'
  BY <1>0 DEF Progress
<1>4. \A q \in Request : Locked(q)' \subseteq Locked(q)
  BY <1>0 DEF Locked, InTransaction, Attended, Left
<1>5. \A q \in Request : Locked(q)' # {} => op'[q] = op[q]
  BY <1>0 DEF Locked
<1> QED
  BY <1>1, <1>2, <1>3, <1>4, <1>5, LocksKept

\* A request ends without a commit, or after one.
LEMMA EndInv ==
    ASSUME Inv, NEW r \in Request, NEW why \in {"settled", "refused", "error"},
           phase' = [phase EXCEPT ![r] = "done"], answer' = [answer EXCEPT ![r] = why],
           UNCHANGED <<driver, balance, active, rows, op, leg>>,
           why = "settled" => "transfer" \in rows[r],
           why = "refused" => rows[r] = {}
    PROVE  Inv'
<1> USE DEF Inv, StoreInv, Shape
<1>1. Shape'
  BY DEF Phase
<1>2. AnswersAreTrue'
  BY DEF AnswersAreTrue
<1>3. \A q \in Request : Progress(q)'
  BY DEF Progress
<1>4. \A q \in Request : Locked(q)' \subseteq Locked(q)
  BY DEF Locked, InTransaction, Attended, Left, Row
<1> QED
  BY <1>1, <1>2, <1>3, <1>4, LocksKept

LEMMA ServiceInv ==
    ASSUME Inv, NEW r \in Request, ServiceStep(r), UNCHANGED leg
    PROVE  Inv'
<1>1. CASE TransferOwn(r) \/ TransferP2P(r) \/ TransferDistribute(r)
  BY <1>1, SubmittedOp, SubmitInv
<1>2. CASE TurnedAway(r)
  <2>1. rows[r] = {}
    BY <1>2 DEF TurnedAway, Inv, StoreInv, Progress
  <2>2. UNCHANGED <<driver, balance, active, rows, op, leg>>
    BY <1>2 DEF TurnedAway
  <2> QED
    BY <1>2, <2>1, <2>2, EndInv DEF TurnedAway
<1> QED
  BY <1>1, <1>2 DEF ServiceStep

LEMMA MemoryInv ==
    ASSUME Inv, NEW r \in Request, MemoryStep(r), UNCHANGED leg
    PROVE  Inv'
<1> USE DEF Inv, StoreInv, Shape
<1>1. CASE MemorySettle(r)
  <2> USE <1>1 DEF MemorySettle
  <2>1. Shape'
    BY DEF Phase, Row
  <2>2. AnswersAreTrue'
    BY DEF AnswersAreTrue
  <2>3. \A q \in Request : Progress(q)'
    BY DEF Progress
  <2>4. \A q \in Request : Locked(q)' = {}
    BY DEF Locked, InTransaction, Attended, Left
  <2> QED
    BY <2>1, <2>2, <2>3, <2>4
<1>2. CASE MemoryRefuse(r)
  <2>1. rows[r] = {}
    BY <1>2 DEF MemoryRefuse, Progress
  <2> QED
    BY <1>2, <2>1, EndInv DEF MemoryRefuse
<1> QED
  BY <1>1, <1>2 DEF MemoryStep

-----------------------------------------------------------------------------
\* An UPDATE locks its row while nobody else does, and finds it covered.
LEMMA UpdateInv ==
    ASSUME Inv, NEW r \in Request, UpdateBalance(r)
    PROVE  Inv'
<1> DEFINE b == NextAccount(r)
<1> USE DEF Inv, StoreInv, Shape
<1>0. /\ driver = "postgres" /\ phase[r] = "store" /\ leg[r] < Len(op[r].order)
      /\ active[b] /\ (b = Clearing \/ balance[b] + op[r].delta[b] >= 0)
      /\ \A q \in Request : b \notin Locked(q)
  BY DEF UpdateBalance, HasLeg, Matches, Free
<1>1. /\ leg' = [leg EXCEPT ![r] = @ + 1]
      /\ phase'[r] \in {"entries", "store"}
      /\ \A q \in Request \ {r} : phase'[q] = phase[q]
      /\ phase' \in [Request -> Phase]
      /\ UNCHANGED <<driver, balance, active, rows, op, answer>>
  BY DEF UpdateBalance, Phase, Row
<1>2. Shape'
  <2>1. leg' \in [Request -> Nat] /\ \A q \in Request : leg'[q] <= Len(op[q].order)
    BY <1>0, <1>1
  <2> QED
    BY <1>1, <2>1
<1>3. AnswersAreTrue'
  BY <1>1 DEF AnswersAreTrue
<1>4. \A q \in Request : Progress(q)'
  BY <1>0, <1>1 DEF Progress
<1>5. Locked(r)' = Locked(r) \cup {b}
  <2>1. InTransaction(r) /\ InTransaction(r)'
    BY <1>0, <1>1 DEF InTransaction, Attended, Left, Row
  <2>2. Locked(r) = {op[r].order[i] : i \in 1 .. leg[r]}
    BY <2>1 DEF Locked
  <2>3. Locked(r)' = {op[r].order[i] : i \in 1 .. leg[r] + 1}
    BY <1>1, <2>1 DEF Locked
  <2>4. 1 .. leg[r] + 1 = (1 .. leg[r]) \cup {leg[r] + 1}
    OBVIOUS
  <2> QED
    BY <2>2, <2>3, <2>4 DEF NextAccount
<1>6. \A q \in Request \ {r} : Locked(q)' = Locked(q)
  BY <1>1 DEF Locked, InTransaction, Attended, Left
<1>7. ASSUME NEW q \in Request, NEW a \in Locked(q)'
      PROVE  LockHolds(q, a)'
  <2>1. \A p \in Request : a \in Locked(p)' => p = q
    <3>1. CASE a = b
      BY <1>0, <1>5, <1>6, <1>7, <3>1
    <3>2. CASE a # b
      <4>1. a \in Locked(q)
        BY <1>5, <1>6, <1>7, <3>2
      <4>2. \A p \in Request : a \in Locked(p) => p = q
        BY <4>1 DEF LockHolds
      <4> QED
        BY <1>5, <1>6, <3>2, <4>2
    <3> QED
      BY <3>1, <3>2
  <2>2. active[a] /\ (a = Clearing \/ balance[a] + op[q].delta[a] >= 0)
    <3>1. CASE a \in Locked(q)
      BY <3>1 DEF LockHolds
    <3>2. CASE a \notin Locked(q)
      <4>1. q = r /\ a = b
        BY <1>5, <1>6, <1>7, <3>2
      <4> QED
        BY <1>0, <4>1
    <3> QED
      BY <3>1, <3>2
  <2> QED
    BY <1>1, <2>1, <2>2 DEF LockHolds
<1> QED
  BY <1>1, <1>2, <1>3, <1>4, <1>7 DEF NonNegative

\* A caller that leaves takes no lock along, and frees none.
LEMMA LeaveInv ==
    ASSUME Inv, NEW r \in Request, Leave(r)
    PROVE  Inv'
<1> USE DEF Inv, StoreInv, Shape, Leave
<1>1. Shape'
  BY DEF Phase
<1>2. rows[r] = {} /\ driver = "postgres"
  BY DEF Attended, Progress, Row
<1>3. AnswersAreTrue'
  BY DEF AnswersAreTrue
<1>4. \A q \in Request : Progress(q)'
  BY <1>2 DEF Progress
<1>5. \A q \in Request : Locked(q)' \subseteq Locked(q)
  BY DEF Locked, InTransaction, Attended, Left, Row
<1> QED
  BY <1>1, <1>3, <1>4, <1>5, LocksKept

LEMMA DropInv ==
    ASSUME Inv, NEW r \in Request, Drop(r)
    PROVE  Inv'
<1> USE DEF Inv, StoreInv, Shape, Drop
<1>1. Shape'
  BY DEF Phase
<1>2. AnswersAreTrue'
  BY DEF AnswersAreTrue
<1>3. \A q \in Request : Progress(q)'
  BY DEF Progress
<1>4. \A q \in Request : Locked(q)' \subseteq Locked(q)
  BY DEF Locked, InTransaction, Attended, Left, Row
<1> QED
  BY <1>1, <1>2, <1>3, <1>4, LocksKept

LEMMA RollBackInv ==
    ASSUME Inv, NEW r \in Request, NEW why \in {"refused", "error"}, RollBack(r, why),
           phase[r] \notin {"committed", "done"}
    PROVE  Inv'
<1>1. rows[r] = {}
  BY DEF Inv, StoreInv, Progress
<1> QED
  BY <1>1, EndInv DEF RollBack

LEMMA InsertInv ==
    ASSUME Inv, NEW r \in Request, NEW row \in Row, NEW next \in {"transfer", "event", "commit"},
           Insert(r, row, next)
    PROVE  Inv'
<1> USE DEF Inv, StoreInv, Shape, Insert
<1>1. Shape'
  BY DEF Phase, Row
<1>2. AnswersAreTrue'
  BY DEF AnswersAreTrue
<1>3. \A q \in Request : Progress(q)'
  BY DEF Progress, Row
<1>4. \A q \in Request : Locked(q)' \subseteq Locked(q)
  BY DEF Locked, InTransaction, Attended, Left, Row
<1> QED
  BY <1>1, <1>2, <1>3, <1>4, LocksKept

\* A commit changes the rows it has locked, to what its UPDATEs have found
\* covered; no other transaction has locked them.  Whether its caller still
\* waits makes no difference to that.
LEMMA CommitInv ==
    ASSUME Inv, NEW r \in Request, Commit(r) \/ LateCommit(r)
    PROVE  Inv'
<1> DEFINE next == IF phase[r] = "commit" THEN "committed" ELSE "done"
<1>0. /\ driver = "postgres" /\ phase[r] \in {"commit", "inDoubt"} /\ TakeEffect(r, next)
      /\ next \in {"committed", "done"}
      /\ (next = "committed" => phase[r] = "commit")
  BY DEF Commit, LateCommit
<1> HIDE DEF next
<1> USE <1>0 DEF Inv, StoreInv, Shape, TakeEffect
<1>1. Shape'
  BY DEF Phase
<1>2. answer[r] \in {"none", "error"}
  BY DEF Progress
<1>7. AnswersAreTrue'
  BY <1>2 DEF AnswersAreTrue
<1>3. \A q \in Request : Progress(q)'
  BY DEF Progress
<1>4. Locked(r)' = {} /\ \A q \in Request \ {r} : Locked(q)' = Locked(q)
  BY DEF Locked, InTransaction, Attended, Left, Row
<1>5. ASSUME NEW q \in Request, NEW a \in Locked(q)'
      PROVE  LockHolds(q, a)'
  <2>1. q # r /\ a \in Locked(q)
    BY <1>4, <1>5
  <2>2. LockHolds(q, a)
    BY <2>1
  <2>3. a \in Account
    <3>1. PICK i \in 1 .. leg[q] : a = op[q].order[i]
      BY <2>1 DEF Locked
    <3> QED
      BY <3>1
  <2>4. balance'[a] = balance[a]
    BY <2>1, <2>2, <2>3 DEF LockHolds
  <2>5. \A p \in Request : a \in Locked(p)' => p = q
    BY <1>4, <2>2 DEF LockHolds
  <2> QED
    BY <2>2, <2>4, <2>5 DEF LockHolds
<1>6. NonNegative'
  <2>1. ASSUME NEW a \in Account \ {Clearing}
        PROVE  balance'[a] >= 0
    <3>1. CASE a \in Locked(r)
      BY <3>1 DEF LockHolds
    <3>2. CASE a \notin Locked(r)
      BY <3>2 DEF NonNegative
    <3> QED
      BY <3>1, <3>2
  <2> QED
    BY <2>1 DEF NonNegative
<1> QED
  BY <1>1, <1>3, <1>5, <1>6, <1>7

LEMMA ToggleInv ==
    ASSUME Inv, NEW b \in Account, Toggle(b)
    PROVE  Inv'
<1> USE DEF Inv, StoreInv, Shape, Toggle
<1>1. Shape'
  OBVIOUS
<1>2. AnswersAreTrue'
  BY DEF AnswersAreTrue
<1>3. \A q \in Request : Progress(q)'
  BY DEF Progress
<1>4. \A q \in Request : Locked(q)' = Locked(q) /\ b \notin Locked(q)
  BY DEF Locked, InTransaction, Attended, Left, Free
<1>5. ASSUME NEW q \in Request, NEW a \in Locked(q)'
      PROVE  LockHolds(q, a)'
  <2>1. a \in Locked(q) /\ a # b
    BY <1>4, <1>5
  <2>2. LockHolds(q, a)
    BY <2>1
  <2>3. active'[a] = active[a]
    BY <2>1
  <2> QED
    BY <1>4, <2>2, <2>3 DEF LockHolds
<1> QED
  BY <1>1, <1>2, <1>3, <1>5 DEF NonNegative

LEMMA PostgresInv ==
    ASSUME Inv, NEW r \in Request, PostgresStep(r) \/ PostgresFault(r)
    PROVE  Inv'
<1>1. CASE UpdateBalance(r)
  BY <1>1, UpdateInv
<1>2. CASE NoRow(r) \/ OutOfRange(r) \/ DeadlockVictim(r) \/ Abort(r)
  <2>1. phase[r] \notin {"committed", "done"}
    <3>1. CASE DeadlockVictim(r)
      <4>1. HasLeg(r)
        BY <3>1 DEF DeadlockVictim, WaitsFor
      <4> QED
        BY <4>1 DEF HasLeg
    <3>2. CASE NoRow(r) \/ OutOfRange(r) \/ Abort(r)
      BY <3>2 DEF NoRow, OutOfRange, Abort, HasLeg, Attended, Row
    <3> QED
      BY <1>2, <3>1, <3>2
  <2>2. \E why \in {"refused", "error"} : RollBack(r, why)
    BY <1>2 DEF NoRow, OutOfRange, DeadlockVictim, Abort
  <2> QED
    BY <2>1, <2>2, RollBackInv
<1>3. CASE InsertEntries(r) \/ InsertTransfer(r) \/ InsertEvent(r)
  BY <1>3, InsertInv DEF InsertEntries, InsertTransfer, InsertEvent, Row
<1>4. CASE Commit(r) \/ LateCommit(r)
  BY <1>4, CommitInv
<1>5. CASE CommitReturns(r) \/ CommitFails(r)
  <2>1. rows[r] = Row /\ "transfer" \in Row
    BY <1>5 DEF CommitReturns, CommitFails, Inv, StoreInv, Progress, Row
  <2> QED
    BY <1>5, <2>1, EndInv DEF CommitReturns, CommitFails
<1>6. CASE Leave(r) \/ Drop(r)
  BY <1>6, LeaveInv, DropInv
<1> QED
  BY <1>1, <1>2, <1>3, <1>4, <1>5, <1>6 DEF PostgresStep, PostgresFault

LEMMA NextInv == Inv /\ [Next]_vars => Inv'
<1> SUFFICES ASSUME Inv, [Next]_vars
             PROVE  Inv'
  OBVIOUS
<1>1. ASSUME NEW r \in Request, ServiceStep(r), UNCHANGED leg
      PROVE  Inv'
  BY <1>1, ServiceInv
<1>2. ASSUME NEW r \in Request, StoreStep(r)
      PROVE  Inv'
  BY <1>2, MemoryInv, PostgresInv DEF StoreStep
<1>3. ASSUME NEW r \in Request, PostgresFault(r)
      PROVE  Inv'
  BY <1>3, PostgresInv
<1>4. ASSUME NEW a \in Toggled, Toggle(a)
      PROVE  Inv'
  BY <1>4, StartAssumption, ToggleInv
<1>5. CASE UNCHANGED vars
  <2> USE <1>5 DEF vars, storeVars, serviceVars, Inv, StoreInv, Shape
  <2>1. Shape' /\ AnswersAreTrue' /\ NonNegative' = NonNegative
    BY DEF AnswersAreTrue, NonNegative
  <2>2. \A r \in Request : Progress(r)' /\ Locked(r)' = Locked(r)
    BY DEF Progress, Locked, InTransaction, Attended, Left
  <2> QED
    BY <2>1, <2>2, LocksKept
<1> QED
  BY <1>1, <1>2, <1>3, <1>4, <1>5 DEF Next, AllAnswered

-----------------------------------------------------------------------------
(***************************************************************************)
(* The amounts.                                                            *)
(***************************************************************************)

\* Balances fit a word and so do the sums that a transaction has found for
\* the rows it has locked, which are all of its legs once it has inserted;
\* what a request asks for is sound.
AmountInv ==
    /\ balance \in [Account -> Int] /\ \A a \in Account : InRange(balance[a])
    /\ \A r \in Request : SoundOp(op[r])
    /\ \A r \in Request : \A a \in Locked(r) : InRange(balance[a] + op[r].delta[a])
    /\ \A r \in Request :
        phase[r] \in Row \cup {"commit", "inDoubt"} => leg[r] = Len(op[r].order)

LEMMA WrapFits ==
    ASSUME NEW x \in Int
    PROVE  /\ Wrap(x) \in Int /\ InRange(Wrap(x))
           /\ InRange(x) => Wrap(x) = x
<1> DEFINE w == 2 * Limit
           y == x + Limit
<1>1. Limit \in Nat \ {0} /\ w \in Nat /\ w > 0 /\ w - Limit = Limit /\ y \in Int
  BY LimitAssumption
<1> HIDE DEF w, y
<1>2. y % w \in 0 .. w - 1
  BY <1>1
<1>3. y \in 0 .. w - 1 => y % w = y
  BY <1>1
<1>4. Wrap(x) = (y % w) - Limit
  BY DEF Wrap, w, y
<1>5. y % w \in Int /\ 0 <= y % w /\ y % w < w
  BY <1>1, <1>2
<1>6. Wrap(x) \in Int /\ InRange(Wrap(x))
  BY <1>1, <1>4, <1>5 DEF InRange
<1>7. ASSUME InRange(x)
      PROVE  Wrap(x) = x
  <2>1. y \in 0 .. w - 1
    BY <1>1, <1>7 DEF InRange, y
  <2>2. Wrap(x) = y - Limit
    BY <1>3, <1>4, <2>1
  <2> QED
    BY <1>1, <2>2 DEF y
<1> QED
  BY <1>6, <1>7

LEMMA InitAmounts == Init => AmountInv
<1> SUFFICES ASSUME Init
             PROVE  AmountInv
  OBVIOUS
<1>1. balance \in [Account -> Int] /\ \A a \in Account : InRange(balance[a])
  BY StartAssumption DEF Init
<1>2. \A r \in Request : SoundOp(op[r])
  BY NoOpSound DEF Init
<1>3. \A r \in Request : Locked(r) = {} /\ phase[r] \notin Row \cup {"commit", "inDoubt"}
  BY DEF Init, Locked, InTransaction, Row
<1> QED
  BY <1>1, <1>2, <1>3 DEF AmountInv

\* Steps that leave every balance, and gain nobody a lock.
LEMMA AmountsKept ==
    ASSUME AmountInv, balance' = balance,
           \A q \in Request : Locked(q)' \subseteq Locked(q),
           \A q \in Request : Locked(q)' # {} => op'[q] = op[q],
           \A q \in Request : SoundOp(op'[q]),
           \A q \in Request :
                phase'[q] \in Row \cup {"commit", "inDoubt"} => leg'[q] = Len(op'[q].order)
    PROVE  AmountInv'
<1>1. ASSUME NEW q \in Request, NEW a \in Locked(q)'
      PROVE  InRange(balance'[a] + op'[q].delta[a])
  <2>1. op'[q] = op[q] /\ a \in Locked(q)
    BY <1>1
  <2> QED
    BY <2>1 DEF AmountInv
<1>2. \A q \in Request : SoundOp(op[q])'
  BY DEF SoundOp
<1> QED
  BY <1>1, <1>2 DEF AmountInv, InRange

LEMMA ServiceAmounts ==
    ASSUME Inv, AmountInv, NEW r \in Request, ServiceStep(r), UNCHANGED leg
    PROVE  AmountInv'
<1> USE DEF Inv, Shape
<1>1. CASE TransferOwn(r) \/ TransferP2P(r) \/ TransferDistribute(r)
  <2>1. PICK o : Submit(r, o) /\ o.order \in Seq(Account) /\ SoundOp(o)
    BY <1>1, SubmittedOp
  <2> USE <2>1 DEF Submit
  <2>2. leg[r] = 0
    BY DEF StoreInv, Progress
  <2>3. \A q \in Request : Locked(q)' \subseteq Locked(q)
    BY <2>2 DEF Locked, InTransaction, Attended, Left
  <2>4. \A q \in Request : Locked(q)' # {} => op'[q] = op[q]
    BY <2>2 DEF Locked
  <2>5. \A q \in Request : op'[q] = o \/ op'[q] = op[q]
    OBVIOUS
  <2>6. \A q \in Request : SoundOp(op'[q])
    BY <2>5 DEF AmountInv
  <2>7. \A q \in Request : phase'[q] \in Row \cup {"commit", "inDoubt"} => leg'[q] = Len(op'[q].order)
    BY DEF AmountInv, Row
  <2> QED
    BY <2>3, <2>4, <2>6, <2>7, AmountsKept
<1>2. CASE TurnedAway(r)
  <2>1. \A q \in Request : Locked(q)' \subseteq Locked(q)
    BY <1>2 DEF TurnedAway, Locked, InTransaction, Attended, Left, Row
  <2>2. \A q \in Request : phase'[q] \in Row \cup {"commit", "inDoubt"} => leg'[q] = Len(op'[q].order)
    BY <1>2 DEF TurnedAway, AmountInv, Row
  <2>3. UNCHANGED <<balance, op>>
    BY <1>2 DEF TurnedAway
  <2>4. \A q \in Request : SoundOp(op'[q])
    BY <2>3 DEF AmountInv
  <2> QED
    BY <2>1, <2>2, <2>3, <2>4, AmountsKept
<1> QED
  BY <1>1, <1>2 DEF ServiceStep

LEMMA MemoryAmounts ==
    ASSUME Inv, AmountInv, NEW r \in Request, MemoryStep(r), UNCHANGED leg
    PROVE  AmountInv'
<1> USE DEF Inv, Shape
<1>1. driver = "memory" /\ driver' = "memory" /\ op' = op
      /\ \A q \in Request : phase'[q] = phase[q] \/ phase'[q] = "done"
  BY DEF MemoryStep, MemorySettle, MemoryRefuse
<1>2. \A q \in Request : Locked(q)' = {}
  BY <1>1 DEF Locked, InTransaction, Attended, Left
<1>3. \A q \in Request : SoundOp(op[q])'
  BY <1>1 DEF AmountInv, SoundOp
<1>4. \A q \in Request : phase'[q] \in Row \cup {"commit", "inDoubt"} => leg'[q] = Len(op'[q].order)
  BY <1>1 DEF AmountInv, Row
<1>5. balance' \in [Account -> Int] /\ \A a \in Account : InRange(balance'[a])
  <2>1. CASE MemorySettle(r)
    <3>1. ASSUME NEW a \in Account
          PROVE  Wrap(balance[a] + op[r].delta[a]) \in Int
                 /\ InRange(Wrap(balance[a] + op[r].delta[a]))
      <4>1. balance[a] + op[r].delta[a] \in Int
        BY DEF AmountInv, SoundOp
      <4> QED
        BY <4>1, WrapFits
    <3>2. balance' = [a \in Account |->
            IF a \in ToSet(op[r].order) THEN Wrap(balance[a] + op[r].delta[a]) ELSE balance[a]]
      BY <2>1 DEF MemorySettle
    <3> QED
      BY <3>1, <3>2 DEF AmountInv
  <2>2. CASE MemoryRefuse(r)
    BY <2>2 DEF MemoryRefuse, AmountInv
  <2> QED
    BY <2>1, <2>2 DEF MemoryStep
<1> QED
  BY <1>2, <1>3, <1>4, <1>5 DEF AmountInv, InRange

LEMMA PostgresAmounts ==
    ASSUME Inv, AmountInv, NEW r \in Request, PostgresStep(r) \/ PostgresFault(r)
    PROVE  AmountInv'
<1> USE DEF Inv, Shape
<1>0. UNCHANGED <<driver, op>> /\ \A q \in Request : SoundOp(op'[q])
  <2>1. UNCHANGED <<driver, op>>
    BY DEF PostgresStep, UpdateBalance, NoRow, OutOfRange, DeadlockVictim, RollBack, InsertEntries,
           InsertTransfer, InsertEvent, Insert, Commit, LateCommit, TakeEffect, Drop, CommitReturns,
           PostgresFault, Abort, Leave, CommitFails
  <2> QED
    BY <2>1 DEF AmountInv
<1>1. CASE UpdateBalance(r)
  <2> DEFINE b == NextAccount(r)
  <2>1. /\ driver = "postgres" /\ phase[r] = "store" /\ leg[r] < Len(op[r].order)
        /\ InRange(balance[b] + op[r].delta[b])
        /\ leg' = [leg EXCEPT ![r] = @ + 1] /\ balance' = balance
        /\ phase'[r] = IF leg'[r] = Len(op[r].order) THEN "entries" ELSE "store"
        /\ \A q \in Request \ {r} : phase'[q] = phase[q]
    BY <1>1 DEF UpdateBalance, HasLeg, Fits
  <2>2. Locked(r)' = Locked(r) \cup {b}
    <3>1. InTransaction(r) /\ InTransaction(r)'
      BY <1>0, <2>1 DEF InTransaction, Attended, Left, Row
    <3>2. Locked(r) = {op[r].order[i] : i \in 1 .. leg[r]}
      BY <3>1 DEF Locked
    <3>3. Locked(r)' = {op[r].order[i] : i \in 1 .. leg[r] + 1}
      BY <1>0, <2>1, <3>1 DEF Locked
    <3>4. 1 .. leg[r] + 1 = (1 .. leg[r]) \cup {leg[r] + 1}
      OBVIOUS
    <3> QED
      BY <3>2, <3>3, <3>4 DEF NextAccount
  <2>3. \A q \in Request \ {r} : Locked(q)' = Locked(q)
    BY <1>0, <2>1 DEF Locked, InTransaction, Attended, Left
  <2>4. ASSUME NEW q \in Request, NEW a \in Locked(q)'
        PROVE  InRange(balance'[a] + op'[q].delta[a])
    <3>1. CASE a \in Locked(q)
      BY <1>0, <2>1, <3>1 DEF AmountInv
    <3>2. CASE a \notin Locked(q)
      <4>1. q = r /\ a = b
        BY <2>2, <2>3, <2>4, <3>2
      <4> QED
        BY <1>0, <2>1, <4>1
    <3> QED
      BY <3>1, <3>2
  <2>5. \A q \in Request : phase'[q] \in Row \cup {"commit", "inDoubt"} => leg'[q] = Len(op'[q].order)
    BY <1>0, <2>1 DEF AmountInv, Row
  <2>6. \A q \in Request : SoundOp(op[q])'
    BY <1>0 DEF SoundOp
  <2> QED
    BY <2>1, <2>4, <2>5, <2>6 DEF AmountInv, InRange
<1>2. CASE Commit(r) \/ LateCommit(r)
  <2> DEFINE next == IF phase[r] = "commit" THEN "committed" ELSE "done"
  <2>0. /\ phase[r] \in {"commit", "inDoubt"} /\ TakeEffect(r, next)
        /\ next \in {"committed", "done"}
    BY <1>2 DEF Commit, LateCommit
  <2> HIDE DEF next
  <2> USE <2>0 DEF TakeEffect
  <2>1. Locked(r)' = {} /\ \A q \in Request \ {r} : Locked(q)' = Locked(q)
    BY DEF Locked, InTransaction, Attended, Left, Row
  <2>2. balance' \in [Account -> Int] /\ \A a \in Account : InRange(balance'[a])
    <3>1. \A a \in Account : balance[a] + op[r].delta[a] \in Int
      BY DEF AmountInv, SoundOp
    <3>2. \A a \in Locked(r) : InRange(balance[a] + op[r].delta[a])
      BY DEF AmountInv
    <3> QED
      BY <3>1, <3>2 DEF AmountInv
  <2>3. ASSUME NEW q \in Request, NEW a \in Locked(q)'
        PROVE  InRange(balance'[a] + op'[q].delta[a])
    <3>1. q # r /\ a \in Locked(q)
      BY <2>1, <2>3
    <3>2. LockHolds(q, a)
      BY <3>1 DEF StoreInv
    <3>3. a \in Account
      <4>1. PICK i \in 1 .. leg[q] : a = op[q].order[i]
        BY <3>1 DEF Locked
      <4> QED
        BY <4>1
    <3>4. balance'[a] = balance[a]
      BY <3>1, <3>2, <3>3 DEF LockHolds
    <3> QED
      BY <3>1, <3>4 DEF AmountInv
  <2>4. \A q \in Request : phase'[q] \in Row \cup {"commit", "inDoubt"} => leg'[q] = Len(op'[q].order)
    BY DEF AmountInv, Row
  <2>5. \A q \in Request : SoundOp(op[q])'
    BY <1>0 DEF SoundOp
  <2> QED
    BY <2>2, <2>3, <2>4, <2>5 DEF AmountInv, InRange
<1>3. CASE ~ UpdateBalance(r) /\ ~ Commit(r) /\ ~ LateCommit(r)
  <2>1. UNCHANGED <<balance, leg>> /\ \A q \in Request \ {r} : phase'[q] = phase[q]
    BY <1>3
       DEF PostgresStep, NoRow, OutOfRange, DeadlockVictim, RollBack, InsertEntries, InsertTransfer,
           InsertEvent, Insert, Drop, CommitReturns, PostgresFault, Abort, Leave, CommitFails
  <2>2. \/ phase'[r] = "done"
        \/ /\ driver = "postgres" /\ phase[r] \in Row
           /\ phase'[r] \in {"transfer", "event", "commit"}
        \/ Attended(r) /\ phase'[r] = IF phase[r] = "commit" THEN "inDoubt" ELSE "orphan"
    BY <1>3
       DEF PostgresStep, NoRow, OutOfRange, DeadlockVictim, RollBack, InsertEntries, InsertTransfer,
           InsertEvent, Insert, Drop, CommitReturns, PostgresFault, Abort, Leave, CommitFails, Row
  <2>3. \A q \in Request : Locked(q)' \subseteq Locked(q)
    BY <1>0, <2>1, <2>2 DEF Locked, InTransaction, Attended, Left, Row
  <2>4. \A q \in Request : phase'[q] \in Row \cup {"commit", "inDoubt"} => leg'[q] = Len(op'[q].order)
    BY <1>0, <2>1, <2>2 DEF AmountInv, Row
  <2> QED
    BY <1>0, <2>1, <2>3, <2>4, AmountsKept
<1> QED
  BY <1>1, <1>2, <1>3

LEMMA NextAmounts == Inv /\ AmountInv /\ [Next]_vars => AmountInv'
<1> SUFFICES ASSUME Inv, AmountInv, [Next]_vars
             PROVE  AmountInv'
  OBVIOUS
<1>1. ASSUME NEW r \in Request, ServiceStep(r), UNCHANGED leg
      PROVE  AmountInv'
  BY <1>1, ServiceAmounts
<1>2. ASSUME NEW r \in Request, StoreStep(r)
      PROVE  AmountInv'
  BY <1>2, MemoryAmounts, PostgresAmounts DEF StoreStep
<1>3. ASSUME NEW r \in Request, PostgresFault(r)
      PROVE  AmountInv'
  BY <1>3, PostgresAmounts
<1>4. CASE UNCHANGED <<driver, balance, phase, op, leg>>
  <2>1. \A q \in Request : Locked(q)' = Locked(q)
    BY <1>4 DEF Locked, InTransaction, Attended, Left
  <2> QED
    BY <1>4, <2>1, AmountsKept DEF AmountInv
<1>5. ASSUME NEW a \in Toggled, Toggle(a)
      PROVE  AmountInv'
  BY <1>4, <1>5 DEF Toggle
<1>6. CASE UNCHANGED vars
  BY <1>4, <1>6 DEF vars, storeVars, serviceVars
<1> QED
  BY <1>1, <1>2, <1>3, <1>5, <1>6 DEF Next, AllAnswered

-----------------------------------------------------------------------------
(***************************************************************************)
(* The mapping to Transfers, step by step.  The store in memory adds with  *)
(* wrap-around, so what it does is a transfer as long as no sum wraps.     *)
(***************************************************************************)
NothingWraps ==
    \A r \in Request : driver = "memory" /\ phase[r] = "store" =>
        \A a \in Account : InRange(balance[a] + op[r].delta[a])

PromiseStep == Promise!Next \/ UNCHANGED Promise!vars

LEMMA Stutters ==
    ASSUME UNCHANGED <<balance, op>>, \A r \in Request : Outcome(r)' = Outcome(r)
    PROVE  UNCHANGED Promise!vars
  BY DEF Promise!vars, ChangeOf, OutcomeOf

LEMMA OutcomeMoves ==
    ASSUME NEW r \in Request, NEW x, Outcome(r)' = x,
           \A q \in Request \ {r} : Outcome(q)' = Outcome(q)
    PROVE  OutcomeOf' = [OutcomeOf EXCEPT ![r] = x] /\ OutcomeOf[r] = Outcome(r)
  BY DEF OutcomeOf

LEMMA Refused ==
    ASSUME NEW r \in Request, UNCHANGED <<balance, op>>, Outcome(r)' = "refused",
           Outcome(r) \in {"none", "asked"}, \A q \in Request \ {r} : Outcome(q)' = Outcome(q)
    PROVE  PromiseStep
<1>1. OutcomeOf' = [OutcomeOf EXCEPT ![r] = "refused"] /\ OutcomeOf[r] = Outcome(r)
  BY OutcomeMoves
<1>2. UNCHANGED ChangeOf
  BY DEF ChangeOf
<1>3. Promise!Refuse(r)
  BY <1>1, <1>2 DEF Promise!Refuse
<1> QED
  BY <1>3 DEF PromiseStep, Promise!Next

\* All its changes at once, nothing taken that is not there.
LEMMA Settled ==
    ASSUME NEW r \in Request, UNCHANGED op, Outcome(r) = "asked", Outcome(r)' = "settled",
           \A q \in Request \ {r} : Outcome(q)' = Outcome(q),
           balance' = [a \in Account |-> balance[a] + op[r].delta[a]],
           \A a \in Account \ {Clearing} : op[r].delta[a] < 0 => balance'[a] >= 0
    PROVE  PromiseStep
<1>1. OutcomeOf' = [OutcomeOf EXCEPT ![r] = "settled"] /\ OutcomeOf[r] = Outcome(r)
  BY OutcomeMoves
<1>2. UNCHANGED ChangeOf /\ ChangeOf[r] = op[r].delta
  BY DEF ChangeOf
<1>3. Promise!Settle(r)
  BY <1>1, <1>2 DEF Promise!Settle
<1> QED
  BY <1>3 DEF PromiseStep, Promise!Next

LEMMA ServiceKeeps ==
    ASSUME Inv, NEW r \in Request, ServiceStep(r)
    PROVE  PromiseStep
<1> USE DEF Inv, Shape
<1>0. ASSUME phase[r] = "new"
      PROVE  Outcome(r) = "none" /\ rows[r] = {} /\ answer[r] = "none"
  BY <1>0 DEF StoreInv, Progress, Outcome
<1>1. CASE TransferOwn(r) \/ TransferP2P(r) \/ TransferDistribute(r)
  <2>1. PICK o : Submit(r, o) /\ SoundOp(o)
    BY <1>1, SubmittedOp
  <2> USE <2>1 DEF Submit
  <2>2. Outcome(r) = "none" /\ Outcome(r)' = "asked"
    BY <1>0 DEF Outcome
  <2>3. \A q \in Request \ {r} : Outcome(q)' = Outcome(q)
    BY DEF Outcome
  <2>4. OutcomeOf' = [OutcomeOf EXCEPT ![r] = "asked"] /\ OutcomeOf[r] = "none"
    BY <2>2, <2>3, OutcomeMoves
  <2>5. ChangeOf'[r] = o.delta /\ ChangeOf' = [ChangeOf EXCEPT ![r] = ChangeOf'[r]]
    <3>1. ChangeOf' = [ChangeOf EXCEPT ![r] = o.delta] /\ ChangeOf'[r] = o.delta
      BY DEF ChangeOf
    <3> QED
      BY <3>1, Zenon
  <2>6. SumFunction(ChangeOf'[r]) = 0
    BY <2>5 DEF SoundOp
  <2>7. Promise!Ask(r)
    <3>1. UNCHANGED balance
      OBVIOUS
    <3>2. Promise!SumFunction(ChangeOf'[r]) = SumFunction(ChangeOf'[r])
      BY DEF SumFunction, SumFunctionOnSet, FoldFunctionOnSet, MapThenFoldSet,
             Promise!SumFunction, Promise!SumFunctionOnSet, Promise!FoldFunctionOnSet,
             Promise!MapThenFoldSet
    <3> QED
      BY <2>4, <2>5, <2>6, <3>1, <3>2, Zenon DEF Promise!Ask
  <2> QED
    BY <2>7 DEF PromiseStep, Promise!Next
<1>2. CASE TurnedAway(r)
  <2> USE <1>2 DEF TurnedAway
  <2>1. Outcome(r) = "none" /\ Outcome(r)' = "refused"
    BY <1>0 DEF Outcome
  <2>2. \A q \in Request \ {r} : Outcome(q)' = Outcome(q)
    BY DEF Outcome
  <2> QED
    BY <2>1, <2>2, Refused
<1> QED
  BY <1>1, <1>2 DEF ServiceStep

LEMMA MemoryKeeps ==
    ASSUME Inv, AmountInv, NothingWraps, NEW r \in Request, MemoryStep(r)
    PROVE  PromiseStep
<1> USE DEF Inv, Shape
<1>0. phase[r] = "store" /\ driver = "memory" /\ UNCHANGED op
  BY DEF MemoryStep, MemorySettle, MemoryRefuse
<1>1. Outcome(r) = "asked" /\ rows[r] = {} /\ answer[r] = "none"
  BY <1>0 DEF StoreInv, Progress, Outcome
<1>2. \A q \in Request \ {r} : Outcome(q)' = Outcome(q)
  BY DEF MemoryStep, MemorySettle, MemoryRefuse, Outcome
<1>3. CASE MemorySettle(r)
  <2> USE <1>3 DEF MemorySettle
  <2>1. Outcome(r)' = "settled"
    BY DEF Outcome
  <2>2. \A a \in Account : /\ balance[a] + op[r].delta[a] \in Int
                           /\ Wrap(balance[a] + op[r].delta[a]) = balance[a] + op[r].delta[a]
                           /\ a \notin ToSet(op[r].order) <=> op[r].delta[a] = 0
    BY <1>0, WrapFits DEF NothingWraps, AmountInv, SoundOp
  <2>3. balance' = [a \in Account |-> balance[a] + op[r].delta[a]]
    <3>1. \A a \in Account : balance[a] \in Int
      BY DEF AmountInv
    <3> QED
      BY <2>2, <3>1
  <2>4. ASSUME NEW a \in Account \ {Clearing}, op[r].delta[a] < 0
        PROVE  balance'[a] >= 0
    <3>1. a \in ToSet(op[r].order)
      BY <2>2, <2>4
    <3> QED
      BY <2>2, <2>3, <2>4, <3>1 DEF Covered
  <2> QED
    BY <1>0, <1>1, <1>2, <2>1, <2>3, <2>4, Settled
<1>4. CASE MemoryRefuse(r)
  <2>1. Outcome(r)' = "refused" /\ UNCHANGED <<balance, op>>
    BY <1>1, <1>4 DEF MemoryRefuse, Outcome
  <2> QED
    BY <1>1, <1>2, <2>1, Refused
<1> QED
  BY <1>3, <1>4 DEF MemoryStep

LEMMA CommitKeeps ==
    ASSUME Inv, AmountInv, NEW r \in Request, Commit(r) \/ LateCommit(r)
    PROVE  PromiseStep
<1> DEFINE next == IF phase[r] = "commit" THEN "committed" ELSE "done"
<1>0. /\ driver = "postgres" /\ phase[r] \in {"commit", "inDoubt"} /\ TakeEffect(r, next)
      /\ next \in {"committed", "done"}
  BY DEF Commit, LateCommit
<1> HIDE DEF next
<1> USE <1>0 DEF Inv, Shape, TakeEffect
<1>1. Outcome(r) = "asked" /\ Outcome(r)' = "settled"
  BY DEF StoreInv, Progress, Outcome, Row
<1>2. \A q \in Request \ {r} : Outcome(q)' = Outcome(q)
  BY DEF Outcome
<1>3. Locked(r) = ToSet(op[r].order)
  <2>1. leg[r] = Len(op[r].order) /\ InTransaction(r)
    BY DEF AmountInv, InTransaction, Attended, Left, Row
  <2>2. DOMAIN op[r].order = 1 .. Len(op[r].order)
    BY LenProperties
  <2> QED
    BY <2>1, <2>2 DEF Locked, ToSet
<1>4. \A a \in Account : /\ balance[a] \in Int /\ op[r].delta[a] \in Int
                         /\ a \notin Locked(r) <=> op[r].delta[a] = 0
  BY <1>3 DEF AmountInv, SoundOp
<1>5. balance' = [a \in Account |-> balance[a] + op[r].delta[a]]
  BY <1>4
<1>6. ASSUME NEW a \in Account \ {Clearing}, op[r].delta[a] < 0
      PROVE  balance'[a] >= 0
  <2>1. LockHolds(r, a)
    BY <1>4, <1>6 DEF StoreInv
  <2> QED
    BY <1>5, <2>1 DEF LockHolds
<1> QED
  BY <1>1, <1>2, <1>5, <1>6, Settled

LEMMA PostgresKeeps ==
    ASSUME Inv, AmountInv, NEW r \in Request, PostgresStep(r) \/ PostgresFault(r)
    PROVE  PromiseStep
<1> USE DEF Inv, Shape
<1>1. CASE Commit(r) \/ LateCommit(r)
  BY <1>1, CommitKeeps
<1>2. CASE UpdateBalance(r) \/ InsertEntries(r) \/ InsertTransfer(r) \/ InsertEvent(r)
  <2>1. /\ UNCHANGED <<balance, op, rows, answer>>
        /\ phase[r] \notin {"new", "done"} /\ phase'[r] \notin {"new", "done"}
        /\ \A q \in Request \ {r} : phase'[q] = phase[q]
    BY <1>2 DEF UpdateBalance, HasLeg, InsertEntries, InsertTransfer, InsertEvent, Insert, Row
  <2>2. \A q \in Request : Outcome(q)' = Outcome(q)
    BY <2>1 DEF Outcome
  <2> QED
    BY <2>1, <2>2, Stutters DEF PromiseStep
<1>3. CASE NoRow(r) \/ OutOfRange(r) \/ DeadlockVictim(r) \/ Abort(r)
  <2>1. PICK why \in {"refused", "error"} : RollBack(r, why)
    BY <1>3 DEF NoRow, OutOfRange, DeadlockVictim, Abort
  <2>2. phase[r] \notin {"new", "committed", "orphan", "inDoubt", "done"}
    <3>1. CASE DeadlockVictim(r)
      <4>1. HasLeg(r)
        BY <3>1 DEF DeadlockVictim, WaitsFor
      <4> QED
        BY <4>1 DEF HasLeg
    <3>2. CASE NoRow(r) \/ OutOfRange(r) \/ Abort(r)
      BY <3>2 DEF NoRow, OutOfRange, Abort, HasLeg, Attended, Row
    <3> QED
      BY <1>3, <3>1, <3>2
  <2>3. rows[r] = {} /\ answer[r] = "none"
    BY <2>2 DEF StoreInv, Progress
  <2>4. Outcome(r) = "asked" /\ Outcome(r)' = "refused" /\ UNCHANGED <<balance, op>>
    BY <2>1, <2>2, <2>3 DEF RollBack, Outcome
  <2>5. \A q \in Request \ {r} : Outcome(q)' = Outcome(q)
    BY <2>1 DEF RollBack, Outcome
  <2> QED
    BY <2>4, <2>5, Refused
<1>4. CASE CommitReturns(r) \/ CommitFails(r)
  <2>1. "transfer" \in rows[r] /\ UNCHANGED <<balance, op, rows>>
    BY <1>4 DEF CommitReturns, CommitFails, StoreInv, Progress, Row
  <2>2. \A q \in Request : Outcome(q)' = Outcome(q)
    BY <1>4, <2>1 DEF CommitReturns, CommitFails, Outcome
  <2> QED
    BY <2>1, <2>2, Stutters DEF PromiseStep
<1>5. CASE Leave(r)
  <2>1. /\ phase[r] \notin {"new", "done"} /\ phase'[r] \notin {"new", "done"}
        /\ \A q \in Request \ {r} : phase'[q] = phase[q]
        /\ UNCHANGED <<balance, op, rows>>
    BY <1>5 DEF Leave, Attended, Row
  <2>2. \A q \in Request : Outcome(q)' = Outcome(q)
    BY <2>1 DEF Outcome
  <2> QED
    BY <2>1, <2>2, Stutters DEF PromiseStep
<1>6. CASE Drop(r)
  <2>1. /\ phase[r] \notin {"new", "done"} /\ phase'[r] = "done"
        /\ rows[r] = {} /\ UNCHANGED <<balance, op, rows>>
        /\ \A q \in Request \ {r} : phase'[q] = phase[q]
    BY <1>6 DEF Drop, Left, StoreInv, Progress
  <2>2. Outcome(r) = "asked" /\ Outcome(r)' = "refused"
    BY <2>1 DEF Outcome
  <2>3. \A q \in Request \ {r} : Outcome(q)' = Outcome(q)
    BY <2>1 DEF Outcome
  <2> QED
    BY <2>1, <2>2, <2>3, Refused
<1> QED
  BY <1>1, <1>2, <1>3, <1>4, <1>5, <1>6 DEF PostgresStep, PostgresFault

LEMMA NextKeeps ==
    ASSUME Inv, AmountInv, NothingWraps, [Next]_vars
    PROVE  PromiseStep
<1>1. CASE UNCHANGED <<balance, op, rows, answer, phase>>
  <2>1. \A q \in Request : Outcome(q)' = Outcome(q)
    BY <1>1 DEF Outcome
  <2> QED
    BY <1>1, <2>1, Stutters DEF PromiseStep
<1>2. ASSUME NEW a \in Toggled, Toggle(a)
      PROVE  PromiseStep
  BY <1>1, <1>2 DEF Toggle
<1>3. CASE UNCHANGED vars
  BY <1>1, <1>3 DEF vars, storeVars, serviceVars
<1> QED
  BY <1>2, <1>3, ServiceKeeps, MemoryKeeps, PostgresKeeps DEF Next, StoreStep, AllAnswered

\* What the promise allows changes no sum.
LEMMA NextConserves ==
    ASSUME Inv, AmountInv, NothingWraps, [Next]_vars
    PROVE  SumFunction(balance') = SumFunction(balance)
<1>1. \/ balance' = balance
      \/ \E r \in Request : balance' = [a \in Account |-> balance[a] + ChangeOf[r][a]]
  <2>1. PromiseStep
    BY NextKeeps
  <2> QED
    BY <2>1 DEF PromiseStep, Promise!Next, Promise!Ask, Promise!Settle, Promise!Refuse, Promise!vars
<1>2. ASSUME NEW r \in Request, balance' = [a \in Account |-> balance[a] + ChangeOf[r][a]]
      PROVE  SumFunction(balance') = SumFunction(balance)
  <2> DEFINE d == op[r].delta
  <2>1. d \in [Account -> Int] /\ SumFunction(d) = 0 /\ balance \in [Account -> Int]
    BY DEF AmountInv, SoundOp
  <2>2. balance' = [a \in Account |-> balance[a] + d[a]]
    BY <1>2 DEF ChangeOf
  <2> HIDE DEF d
  <2>3. DOMAIN balance = Account /\ DOMAIN balance' = Account /\ DOMAIN d = Account
    BY <2>1, <2>2
  <2>4. \A a \in Account : balance[a] \in Int /\ d[a] \in Int /\ balance'[a] = balance[a] + d[a]
    BY <2>1, <2>2
  <2>5. SumFunctionOnSet(balance', Account) = SumFunctionOnSet(balance, Account) + SumFunctionOnSet(d, Account)
    BY <2>4, ServiceAssumption, SumPlus
  <2>6. SumFunctionOnSet(balance, Account) \in Int
    BY <2>4, ServiceAssumption, SumInt
  <2> QED
    BY <2>1, <2>3, <2>5, <2>6 DEF SumFunction
<1> QED
  BY <1>1, <1>2

LEMMA InitKeeps == Init => Promise!Init
<1> SUFFICES ASSUME Init
             PROVE  Promise!Init
  OBVIOUS
<1>1. balance \in [Account -> Int]
  BY StartAssumption DEF Init
<1>2. ChangeOf = [r \in Request |-> [a \in Account |-> 0]]
  BY DEF Init, ChangeOf, NoOp
<1>3. \A r \in Request : Outcome(r) = "none"
  BY DEF Init, Outcome
<1> QED
  BY <1>1, <1>2, <1>3 DEF Promise!Init, OutcomeOf

-----------------------------------------------------------------------------
(***************************************************************************)
(* Room for every transfer: when nothing wraps.                            *)
(***************************************************************************)
\* There is room for all the requests: no account in memory starts with more
\* than held, in either direction, no request asks for more than most, and all
\* of them together do not fill a word.
Enough(held, most) ==
    /\ IsFiniteSet(Request)
    /\ \A n \in Amount : n <= most
    /\ \A s \in Start : s.driver = "memory" =>
            \A a \in Account : -held <= s.balance[a] /\ s.balance[a] <= held
    /\ held + most * Cardinality(Request) < Limit

\* The store in memory has room, if a run may begin with it; Postgres looks.
RoomFor(held, most) == (\E s \in Start : s.driver = "memory") => Enough(held, most)

\* The requests whose transfers have happened.
Settlements == {r \in Request : "transfer" \in rows[r]}

\* How far a balance in memory can have moved.
RoomInv(held, most) ==
    driver = "memory" =>
        /\ Enough(held, most)
        /\ \A r \in Request : AtMost(op[r], most)
        /\ LET n == held + most * Cardinality(Settlements) IN
           \A a \in Account : -n <= balance[a] /\ balance[a] <= n

LEMMA InitRoom ==
    ASSUME NEW held \in Nat, NEW most \in Nat, RoomFor(held, most), Init
    PROVE  RoomInv(held, most)
<1>1. Settlements = {}
  BY DEF Init, Settlements
<1>2. Cardinality(Settlements) = 0
  BY <1>1, FS_EmptySet
<1>3. \A r \in Request : AtMost(op[r], most)
  BY DEF Init, NoOp, AtMost
<1>4. held + most * Cardinality(Settlements) = held
  BY <1>2
<1>5. PICK s \in Start : driver = s.driver /\ balance = s.balance
  BY DEF Init
<1>6. ASSUME driver = "memory"
      PROVE  Enough(held, most) /\ \A a \in Account : -held <= balance[a] /\ balance[a] <= held
  <2>1. Enough(held, most)
    BY <1>5, <1>6 DEF RoomFor
  <2> QED
    BY <1>5, <1>6, <2>1 DEF Enough
<1> QED
  BY <1>3, <1>4, <1>6 DEF RoomInv

\* One more transfer fits.
LEMMA RoomForOneMore ==
    ASSUME NEW held \in Nat, NEW most \in Nat, Enough(held, most), Inv,
           NEW r \in Request, r \notin Settlements
    PROVE  LET c == Cardinality(Settlements) IN
           /\ c \in Nat /\ Cardinality(Settlements \cup {r}) = c + 1
           /\ most * c \in Nat /\ most * (c + 1) = most * c + most
           /\ held + most * c + most < Limit
<1> DEFINE c == Cardinality(Settlements)
           all == Cardinality(Request)
<1>1. IsFiniteSet(Request) /\ IsFiniteSet(Settlements) /\ IsFiniteSet(Settlements \cup {r})
  BY FS_Subset DEF Enough, Settlements
<1>2. c \in Nat /\ all \in Nat /\ Cardinality(Settlements \cup {r}) = c + 1
  BY <1>1, FS_AddElement, FS_CardinalityType
<1>3. c + 1 <= all
  <2>1. Settlements \cup {r} \subseteq Request
    BY DEF Settlements
  <2> QED
    BY <1>1, <1>2, <2>1, FS_Subset
<1>4. held + most * all < Limit /\ Limit \in Nat
  BY LimitAssumption DEF Enough
<1> HIDE DEF c, all
<1>5. most * c \in Nat /\ most * (c + 1) = most * c + most
  BY <1>2
<1>6. most * (c + 1) <= most * all
  <2>1. \A k \in Nat : most * (c + 1 + k) = most * (c + 1) + most * k /\ most * k \in Nat
    BY <1>2
  <2>2. all - (c + 1) \in Nat /\ c + 1 + (all - (c + 1)) = all
    BY <1>2, <1>3
  <2>3. most * all = most * (c + 1) + most * (all - (c + 1)) /\ most * (all - (c + 1)) \in Nat
    BY <2>1, <2>2
  <2> QED
    BY <1>2, <2>3
<1>7. held + most * c + most < Limit
  <2>1. most * all \in Nat
    BY <1>2
  <2> QED
    BY <1>4, <1>5, <1>6, <2>1
<1> QED
  BY <1>2, <1>5, <1>7 DEF c

LEMMA RoomSuffices ==
    ASSUME NEW held \in Nat, NEW most \in Nat, Inv, AmountInv, RoomInv(held, most)
    PROVE  NothingWraps
<1> SUFFICES ASSUME NEW r \in Request, driver = "memory", phase[r] = "store", NEW a \in Account
             PROVE  InRange(balance[a] + op[r].delta[a])
  BY DEF NothingWraps
<1> DEFINE n == most * Cardinality(Settlements)
<1>1. r \notin Settlements /\ Enough(held, most)
  BY DEF Inv, StoreInv, Progress, Settlements, RoomInv
<1>2. n \in Nat /\ held + n + most < Limit /\ Limit \in Nat
  BY <1>1, RoomForOneMore, LimitAssumption
<1>3. balance[a] \in Int /\ op[r].delta[a] \in Int
  BY DEF AmountInv, SoundOp
<1>4. /\ -(held + n) <= balance[a] /\ balance[a] <= held + n
      /\ -most <= op[r].delta[a] /\ op[r].delta[a] <= most
  BY DEF RoomInv, AtMost
<1> HIDE DEF n
<1> DEFINE x == balance[a]
           y == op[r].delta[a]
<1>5. x \in Int /\ y \in Int /\ -(held + n) <= x /\ x <= held + n /\ -most <= y /\ y <= most
  BY <1>3, <1>4
<1> HIDE DEF x, y
<1>6. x + y \in Int /\ -Limit <= x + y /\ x + y <= Limit - 1
  BY <1>2, <1>5
<1> QED
  BY <1>2, <1>6 DEF InRange, x, y

LEMMA NextRoom ==
    ASSUME NEW held \in Nat, NEW most \in Nat, Inv, AmountInv, RoomInv(held, most), [Next]_vars
    PROVE  RoomInv(held, most)'
<1>1. CASE UNCHANGED <<driver, balance, rows, op>>
  BY <1>1 DEF RoomInv, Settlements, AtMost
<1>2. CASE driver' = "postgres"
  BY <1>2 DEF RoomInv
<1>3. ASSUME NEW r \in Request, ServiceStep(r)
      PROVE  RoomInv(held, most)'
  <2>1. CASE TurnedAway(r)
    BY <1>1, <2>1 DEF TurnedAway
  <2>2. CASE TransferOwn(r) \/ TransferP2P(r) \/ TransferDistribute(r)
    <3>1. PICK o : Submit(r, o) /\ SoundOp(o) /\ \E n \in Amount : AtMost(o, n)
      BY <2>2, SubmittedOp
    <3>2. ASSUME driver = "memory"
          PROVE  AtMost(o, most)
      <4>1. PICK n \in Amount : AtMost(o, n)
        BY <3>1
      <4>2. n \in Nat /\ n <= most /\ \A a \in Account : o.delta[a] \in Int
        BY <3>1, <3>2, ServiceAssumption DEF RoomInv, Enough, SoundOp
      <4> QED
        BY <4>1, <4>2 DEF AtMost
    <3>3. \A q \in Request : op'[q] = o \/ op'[q] = op[q]
      BY <3>1 DEF Submit, Inv, Shape
    <3>4. UNCHANGED <<driver, balance, rows, Settlements>>
      BY <3>1 DEF Submit, Settlements
    <3>5. ASSUME driver = "memory", NEW q \in Request
          PROVE  AtMost(op'[q], most)
      BY <3>2, <3>3, <3>5 DEF RoomInv
    <3> QED
      BY <3>4, <3>5 DEF RoomInv, AtMost
  <2> QED
    BY <1>3, <2>1, <2>2 DEF ServiceStep
<1>4. ASSUME NEW r \in Request, MemorySettle(r)
      PROVE  RoomInv(held, most)'
  <2> DEFINE n == most * Cardinality(Settlements)
  <2>1. driver = "memory" /\ phase[r] = "store" /\ UNCHANGED <<driver, op>>
    BY <1>4 DEF MemorySettle
  <2>2. r \notin Settlements /\ Enough(held, most)
    BY <2>1 DEF Inv, StoreInv, Progress, Settlements, RoomInv
  <2>3. Settlements' = Settlements \cup {r}
    BY <1>4, <2>2 DEF MemorySettle, Settlements, Inv, Shape
  <2>4. n \in Nat /\ most * Cardinality(Settlements)' = n + most
    <3>1. Cardinality(Settlements)' = Cardinality(Settlements) + 1
      BY <2>2, <2>3, RoomForOneMore
    <3> QED
      BY <2>2, <3>1, RoomForOneMore
  <2> HIDE DEF n
  <2>5. ASSUME NEW a \in Account
        PROVE  -(held + (n + most)) <= balance'[a] /\ balance'[a] <= held + (n + most)
    <3>1. balance[a] \in Int /\ op[r].delta[a] \in Int
      BY DEF AmountInv, SoundOp
    <3>2. /\ -(held + n) <= balance[a] /\ balance[a] <= held + n
          /\ -most <= op[r].delta[a] /\ op[r].delta[a] <= most
      BY <2>1 DEF RoomInv, AtMost, n
    <3>3. balance'[a] = balance[a] \/ balance'[a] = balance[a] + op[r].delta[a]
      <4>1. InRange(balance[a] + op[r].delta[a])
        BY <2>1, RoomSuffices DEF NothingWraps
      <4>2. Wrap(balance[a] + op[r].delta[a]) = balance[a] + op[r].delta[a]
        BY <3>1, <4>1, WrapFits
      <4> QED
        BY <1>4, <4>2 DEF MemorySettle
    <3> DEFINE x == balance[a]
               y == op[r].delta[a]
               z == balance'[a]
    <3>4. /\ x \in Int /\ y \in Int /\ (z = x \/ z = x + y)
          /\ -(held + n) <= x /\ x <= held + n /\ -most <= y /\ y <= most
      BY <3>1, <3>2, <3>3
    <3> HIDE DEF x, y, z
    <3>5. -(held + (n + most)) <= z /\ z <= held + (n + most)
      BY <2>4, <3>4
    <3> QED
      BY <3>5 DEF z
  <2>6. \A q \in Request : AtMost(op'[q], most)
    BY <2>1 DEF RoomInv
  <2> QED
    BY <2>2, <2>4, <2>5, <2>6 DEF RoomInv, AtMost
<1>5. ASSUME NEW r \in Request, StoreStep(r)
      PROVE  RoomInv(held, most)'
  <2>1. CASE MemoryRefuse(r)
    BY <1>1, <2>1 DEF MemoryRefuse
  <2>2. CASE PostgresStep(r)
    BY <1>1, <1>2, <2>2 DEF PostgresStep, UpdateBalance, NoRow, OutOfRange, DeadlockVictim, RollBack,
           InsertEntries, InsertTransfer, InsertEvent, Insert, Commit, LateCommit, TakeEffect, Drop,
           CommitReturns
  <2> QED
    BY <1>4, <1>5, <2>1, <2>2 DEF StoreStep, MemoryStep
<1>6. ASSUME NEW r \in Request, PostgresFault(r)
      PROVE  RoomInv(held, most)'
  BY <1>1, <1>6 DEF PostgresFault, Abort, Leave, CommitFails, RollBack
<1>7. ASSUME NEW a \in Toggled, Toggle(a)
      PROVE  RoomInv(held, most)'
  BY <1>1, <1>7 DEF Toggle
<1>8. CASE UNCHANGED vars
  BY <1>1, <1>8 DEF vars, storeVars, serviceVars
<1> QED
  BY <1>3, <1>5, <1>6, <1>7, <1>8 DEF Next, AllAnswered

\* With room, a store in memory is never overdrawn either.
LEMMA NextCovered ==
    ASSUME Inv, AmountInv, NothingWraps, NonNegative, [Next]_vars
    PROVE  NonNegative'
<1>1. CASE UNCHANGED balance
  BY <1>1 DEF NonNegative
<1>2. ASSUME NEW r \in Request, MemorySettle(r)
      PROVE  NonNegative'
  <2> SUFFICES ASSUME NEW a \in Account \ {Clearing}
               PROVE  balance'[a] >= 0
    BY DEF NonNegative
  <2>1. balance[a] \in Int /\ balance[a] >= 0 /\ op[r].delta[a] \in Int
    BY DEF AmountInv, SoundOp, NonNegative
  <2>2. Wrap(balance[a] + op[r].delta[a]) = balance[a] + op[r].delta[a]
    BY <1>2, <2>1, WrapFits DEF NothingWraps, MemorySettle
  <2>3. a \in ToSet(op[r].order) /\ op[r].delta[a] < 0 => balance[a] + op[r].delta[a] >= 0
    BY <1>2, <2>2 DEF MemorySettle, Covered
  <2>4. balance'[a] = IF a \in ToSet(op[r].order) THEN balance[a] + op[r].delta[a] ELSE balance[a]
    BY <1>2, <2>2 DEF MemorySettle
  <2> QED
    BY <2>1, <2>3, <2>4
<1>3. CASE driver' = "postgres"
  BY <1>3, NextInv DEF Inv, StoreInv
<1>4. \/ balance' = balance
      \/ driver' = "postgres"
      \/ \E r \in Request : MemorySettle(r)
  BY DEF Next, ServiceStep, TransferOwn, TransferP2P, TransferDistribute, Submit, TurnedAway,
         StoreStep, MemoryStep, MemoryRefuse, PostgresStep, UpdateBalance, NoRow, OutOfRange,
         DeadlockVictim, RollBack, InsertEntries, InsertTransfer, InsertEvent, Insert, Commit,
         LateCommit, TakeEffect, Drop, CommitReturns, PostgresFault, Abort, Leave, CommitFails,
         Toggle, AllAnswered,
         vars, storeVars, serviceVars
<1> QED
  BY <1>1, <1>2, <1>3, <1>4

-----------------------------------------------------------------------------
(* A transaction keeps what it has found of the rows it locked, whatever   *)
(* others do meanwhile, and only the clearing account is overdrawn in      *)
(* Postgres (postgres_repository.go:254-286).                              *)
THEOREM StoresAlwaysConsistent == Spec => []StoreInv
<1>1. Inv => StoreInv
  BY DEF Inv
<1> QED
  BY <1>1, InitInv, NextInv, PTL DEF Spec

(* What the caller is told of a transfer is what has happened and stays    *)
(* so, unless it is told of a database error; and Postgres keeps all its   *)
(* rows or none (postgres_repository.go:229-233 and 354,                   *)
(* memory_repository.go:185-231).                                          *)
THEOREM AnswersAlwaysTrue == Spec => []AnswersAreTrue
<1>1. Inv => AnswersAreTrue
  BY DEF Inv, StoreInv
<1> QED
  BY <1>1, InitInv, NextInv, PTL DEF Spec

(* Over Postgres no account but the clearing account ever goes negative,   *)
(* however many transfers race (postgres_repository.go:256-263).  Over the *)
(* store in memory this is false.                                          *)
THEOREM PostgresNeverOverdraws ==
    ASSUME \A s \in Start : s.driver = "postgres"
    PROVE  Spec => []NonNegative
<1> DEFINE OnPostgres == driver = "postgres"
<1>1. Init => OnPostgres
  BY DEF Init
<1>2. OnPostgres /\ [Next]_vars => OnPostgres'
  BY DEF Next, ServiceStep, TransferOwn, TransferP2P, TransferDistribute, Submit, TurnedAway,
         StoreStep, MemoryStep, MemorySettle, MemoryRefuse, PostgresStep, UpdateBalance, NoRow,
         OutOfRange, DeadlockVictim, RollBack, InsertEntries, InsertTransfer, InsertEvent, Insert,
         Commit, LateCommit, TakeEffect, Drop, CommitReturns, PostgresFault, Abort, Leave,
         CommitFails, Toggle, AllAnswered,
         vars, storeVars, serviceVars
<1>3. Inv /\ OnPostgres => NonNegative
  BY DEF Inv, StoreInv
<1> QED
  BY <1>1, <1>2, <1>3, InitInv, NextInv, PTL DEF Spec

(* An account that is switched off keeps its balance, although transfers   *)
(* were let through while it was on (postgres_repository.go:263).          *)
THEOREM InactiveNeverTouched == Spec => InactiveUntouched
<1> DEFINE Stays == \A a \in Account : ~ active[a] => balance'[a] = balance[a]
<1>1. Inv /\ [Next]_vars => [Stays]_vars
  <2> SUFFICES ASSUME Inv, Next, NEW a \in Account, ~ active[a]
               PROVE  balance'[a] = balance[a]
    OBVIOUS
  <2>1. ASSUME NEW r \in Request, MemorySettle(r)
        PROVE  balance'[a] = balance[a]
    BY <2>1 DEF MemorySettle, Inv, StoreInv
  <2>2. ASSUME NEW r \in Request, Commit(r) \/ LateCommit(r)
        PROVE  balance'[a] = balance[a]
    <3>1. a \notin Locked(r)
      BY DEF Inv, StoreInv, LockHolds
    <3> QED
      BY <2>2, <3>1 DEF Commit, LateCommit, TakeEffect
  <2>3. \/ balance' = balance
        \/ \E r \in Request : MemorySettle(r) \/ Commit(r) \/ LateCommit(r)
    BY DEF Next, ServiceStep, TransferOwn, TransferP2P, TransferDistribute, Submit, TurnedAway,
           StoreStep, MemoryStep, MemoryRefuse, PostgresStep, UpdateBalance, NoRow, OutOfRange,
           DeadlockVictim, RollBack, InsertEntries, InsertTransfer, InsertEvent, Insert,
           Drop, CommitReturns, PostgresFault, Abort, Leave, CommitFails, Toggle, AllAnswered,
           vars, storeVars, serviceVars
  <2> QED
    BY <2>1, <2>2, <2>3
<1> QED
  BY <1>1, InitInv, NextInv, PTL DEF Spec, InactiveUntouched

(* Every value is of its type, and in particular no balance leaves the     *)
(* word, in which Go wraps around (memory_repository.go:209) and Postgres  *)
(* refuses to add (postgres_repository.go:261-265).                        *)
THEOREM AccountsTypeOK == Spec => []TypeOK
<1>1. Inv /\ AmountInv => TypeOK
  BY DEF Inv, AmountInv, Shape, SoundOp, TypeOK
<1> QED
  BY <1>1, InitInv, NextInv, InitAmounts, NextAmounts, PTL DEF Spec

(* What a request asks for adds up to nothing, so that the stores' check   *)
(* of the legs never strikes (memory_repository.go:181), and a distribution *)
(* over any number of accounts loses nothing to rounding                   *)
(* (service.go:213-234).                                                   *)
THEOREM LegsAlwaysAddUp == Spec => []LegsAddUp
<1>1. AmountInv => LegsAddUp
  BY DEF AmountInv, SoundOp, LegsAddUp
<1> QED
  BY <1>1, InitInv, NextInv, InitAmounts, NextAmounts, PTL DEF Spec

(* A transfer happens to all its accounts at once or not at all, once, and *)
(* takes from none more than it holds, even if its caller has had an error *)
(* when the COMMIT is executed: over Postgres whatever the amounts         *)
(* (postgres_repository.go:234-356), in memory as long as all that is asked *)
(* for fits a word, which nothing in memory_repository.go:176-213 checks.  *)
THEOREM StoresKeepPromise ==
    ASSUME NEW held \in Nat, NEW most \in Nat, RoomFor(held, most)
    PROVE  Spec => KeepsPromise
<1> DEFINE R == RoomInv(held, most)
<1>1. Init => R
  BY InitRoom
<1>2. Inv /\ AmountInv /\ R /\ [Next]_vars => R'
  BY NextRoom
<1>3. Inv /\ AmountInv /\ R => NothingWraps
  BY RoomSuffices
<1>4. Inv /\ AmountInv /\ NothingWraps /\ [Next]_vars => [Promise!Next]_(Promise!vars)
  BY NextKeeps DEF PromiseStep
<1> HIDE DEF R
<1> QED
  BY <1>1, <1>2, <1>3, <1>4, InitInv, NextInv, InitAmounts, NextAmounts, InitKeeps, PTL
     DEF Spec, KeepsPromise, Promise!Spec

(* Over Postgres nothing has to be assumed of amounts, or of how many      *)
(* requests there are: the server refuses a sum that does not fit.         *)
COROLLARY PostgresKeepsPromise ==
    ASSUME \A s \in Start : s.driver = "postgres"
    PROVE  Spec => KeepsPromise
<1>1. RoomFor(0, 0)
  BY DEF RoomFor
<1> QED
  BY <1>1, StoresKeepPromise

(* With that much room, no account but the clearing account is ever        *)
(* overdrawn in memory either (memory_repository.go:185-201).              *)
THEOREM StoresNeverOverdraw ==
    ASSUME NEW held \in Nat, NEW most \in Nat, RoomFor(held, most)
    PROVE  Spec => []NonNegative
<1> DEFINE R == RoomInv(held, most)
<1>1. Init => R
  BY InitRoom
<1>2. Inv /\ AmountInv /\ R /\ [Next]_vars => R'
  BY NextRoom
<1>3. Inv /\ AmountInv /\ R => NothingWraps
  BY RoomSuffices
<1>4. Init => NonNegative
  BY StartAssumption DEF Init, NonNegative
<1>5. Inv /\ AmountInv /\ NothingWraps /\ NonNegative /\ [Next]_vars => NonNegative'
  BY NextCovered
<1> HIDE DEF R
<1> QED
  BY <1>1, <1>2, <1>3, <1>4, <1>5, InitInv, NextInv, InitAmounts, NextAmounts, PTL DEF Spec

(* No step makes or loses money, however many accounts a distribution      *)
(* splits over and whatever fails half-way: the balances, the clearing     *)
(* account's among them, always add up to the same (domain.go:95-104).     *)
THEOREM MoneyAlwaysConserved ==
    ASSUME NEW held \in Nat, NEW most \in Nat, RoomFor(held, most)
    PROVE  Spec => MoneyConserved
<1> DEFINE R == RoomInv(held, most)
           Same == SumFunction(balance') = SumFunction(balance)
<1>1. Init => R
  BY InitRoom
<1>2. Inv /\ AmountInv /\ R /\ [Next]_vars => R'
  BY NextRoom
<1>3. Inv /\ AmountInv /\ R => NothingWraps
  BY RoomSuffices
<1>4. Inv /\ AmountInv /\ NothingWraps /\ [Next]_vars => [Same]_vars
  BY NextConserves
<1> HIDE DEF R
<1> QED
  BY <1>1, <1>2, <1>3, <1>4, InitInv, NextInv, InitAmounts, NextAmounts, PTL
     DEF Spec, MoneyConserved
=============================================================================
