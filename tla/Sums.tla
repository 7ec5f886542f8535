-------------------------------- MODULE Sums --------------------------------
(***************************************************************************)
(* Facts about Functions!SumFunctionOnSet, which the models add up amounts *)
(* with: any element of a finite set may be taken out first.  Induction is *)
(* by a smallest counterexample, a set like any other.                     *)
(***************************************************************************)
EXTENDS Integers, FiniteSets, Functions, FiniteSetTheorems, TLAPS

\* Natural numbers have a least one among them.
LEMMA LeastNat ==
    ASSUME NEW T \in SUBSET Nat, T # {}
    PROVE  \E n \in T : \A m \in T : n <= m
<1> DEFINE R == OpToRel(<, Nat)
<1>1. \E n \in T : \A m \in T : ~ (<<m, n>> \in R)
  BY NatLessThanWellFounded, WFMin
<1>2. \A m, n \in T : m < n => <<m, n>> \in R
  BY DEF OpToRel
<1> HIDE DEF R
<1>3. \A m, n \in T : m < n \/ n <= m
  OBVIOUS
<1> QED
  BY <1>1, <1>2, <1>3

\* Among finite sets, one that has no other with an element less.
LEMMA SmallestSet ==
    ASSUME NEW D, D # {}, \A s \in D : IsFiniteSet(s)
    PROVE  \E s \in D : \A x \in s : s \ {x} \notin D
<1> DEFINE Sizes == {Cardinality(s) : s \in D}
<1>1. Sizes \in SUBSET Nat /\ Sizes # {}
  BY FS_CardinalityType
<1>2. PICK n \in Sizes : \A m \in Sizes : n <= m
  BY <1>1, LeastNat
<1>3. PICK s \in D : Cardinality(s) = n
  OBVIOUS
<1>4. ASSUME NEW x \in s, s \ {x} \in D
      PROVE  FALSE
  <2>1. Cardinality(s \ {x}) = Cardinality(s) - 1 /\ Cardinality(s) \in Nat
    BY <1>4, FS_RemoveElement, FS_CardinalityType
  <2>2. n <= Cardinality(s \ {x})
    BY <1>2, <1>4
  <2> QED
    BY <1>3, <2>1, <2>2
<1> QED
  BY <1>3, <1>4

-----------------------------------------------------------------------------
\* The table that SumFunctionOnSet makes, for the sets of D.
Pick(s) == CHOOSE x \in s : TRUE
Step(f, h, s) == IF s = {} THEN 0 ELSE f[Pick(s)] + h[s \ {Pick(s)}]
Tables(f, h, D) == h = [s \in D |-> Step(f, h, s)]
Table(f, D) == CHOOSE h : Tables(f, h, D)

LEMMA SumIsTable ==
    ASSUME NEW f, NEW S
    PROVE  SumFunctionOnSet(f, S) = Table(f, SUBSET S)[S]
BY Zenon DEF SumFunctionOnSet, FoldFunctionOnSet, MapThenFoldSet, Table, Tables, Step, Pick

\* The recursive function exists.
LEMMA TableExists ==
    ASSUME NEW f, NEW S, IsFiniteSet(S)
    PROVE  Tables(f, Table(f, SUBSET S), SUBSET S)
<1> DEFINE UpTo(n) == {s \in SUBSET S : Cardinality(s) <= n}
           Without == {n \in Nat : ~ \E h : Tables(f, h, UpTo(n))}
<1>1. ASSUME NEW s \in SUBSET S
      PROVE  IsFiniteSet(s) /\ Cardinality(s) \in Nat /\ Cardinality(s) <= Cardinality(S)
  BY FS_Subset, FS_CardinalityType
<1>2. ASSUME NEW s \in SUBSET S, Cardinality(s) <= 0
      PROVE  s = {}
  <2>1. Cardinality(s) = 0
    BY <1>1, <1>2
  <2> QED
    BY <1>1, <2>1, FS_EmptySet
<1>3. ASSUME NEW s \in SUBSET S, s # {}
      PROVE  s \ {Pick(s)} \in SUBSET S /\ Cardinality(s \ {Pick(s)}) = Cardinality(s) - 1
  <2>1. Pick(s) \in s
    BY <1>3 DEF Pick
  <2> QED
    BY <1>1, <2>1, FS_RemoveElement
<1>4. \E h : Tables(f, h, UpTo(0))
  <2> DEFINE h == [s \in UpTo(0) |-> 0]
  <2>1. ASSUME NEW s \in UpTo(0)
        PROVE  s = {}
    BY <1>2
  <2>2. Tables(f, h, UpTo(0))
    BY <2>1 DEF Tables, Step
  <2> QED
    BY <2>2
<1>5. ASSUME NEW n \in Nat, NEW h, Tables(f, h, UpTo(n))
      PROVE  \E g : Tables(f, g, UpTo(n + 1))
  <2> DEFINE g == [s \in UpTo(n + 1) |-> Step(f, h, s)]
  <2>1. ASSUME NEW s \in UpTo(n)
        PROVE  g[s] = h[s]
    <3>1. s \in UpTo(n + 1)
      <4>1. s \in SUBSET S /\ Cardinality(s) <= n
        OBVIOUS
      <4>2. Cardinality(s) \in Nat
        BY <1>1, <4>1
      <4> QED
        BY <4>1, <4>2
    <3>2. h[s] = Step(f, h, s)
      <4> HIDE DEF UpTo
      <4> QED
        BY <1>5 DEF Tables
    <3> QED
      BY <3>1, <3>2
  <2>2. ASSUME NEW s \in UpTo(n + 1), s # {}
        PROVE  s \ {Pick(s)} \in UpTo(n)
    BY <1>1, <1>3, <2>2
  <2>3. \A s \in UpTo(n + 1) : Step(f, h, s) = Step(f, g, s)
    <3> HIDE DEF UpTo, g
    <3> QED
      BY <2>1, <2>2 DEF Step
  <2>4. Tables(f, g, UpTo(n + 1))
    BY <2>3 DEF Tables
  <2> QED
    BY <2>4
<1>6. Without = {}
  <2> SUFFICES ASSUME Without # {} PROVE FALSE
    OBVIOUS
  <2>1. PICK n \in Without : \A m \in Without : n <= m
    BY LeastNat
  <2> HIDE DEF UpTo
  <2>2. n \in Nat /\ ~ \E h : Tables(f, h, UpTo(n))
    OBVIOUS
  <2> HIDE DEF Without
  <2>3. n # 0
    BY <1>4, <2>2
  <2>4. n - 1 \in Nat /\ n - 1 \notin Without
    BY <2>1, <2>2, <2>3
  <2>5. PICK h : Tables(f, h, UpTo(n - 1))
    BY <2>4 DEF Without
  <2>6. n - 1 + 1 = n
    BY <2>2
  <2>7. \E g : Tables(f, g, UpTo(n - 1 + 1))
    BY <1>5, <2>4, <2>5
  <2> QED
    BY <2>2, <2>6, <2>7
<1>7. SUBSET S = UpTo(Cardinality(S))
  BY <1>1
<1>8. Cardinality(S) \in Nat
  BY FS_CardinalityType
<1>9. \E h : Tables(f, h, SUBSET S)
  <2> HIDE DEF UpTo
  <2> QED
    BY <1>6, <1>7, <1>8
<1> QED
  BY <1>9, Zenon DEF Table

-----------------------------------------------------------------------------
\* Two tables agree on the largest set they have in common.
LEMMA TablesAgree ==
    ASSUME NEW f, NEW S, IsFiniteSet(S), NEW T \in SUBSET S, NEW g, NEW h,
           Tables(f, g, SUBSET S), Tables(f, h, SUBSET T)
    PROVE  g[T] = h[T]
<1> DEFINE Differ == {s \in SUBSET T : g[s] # h[s]}
<1> SUFFICES ASSUME Differ # {} PROVE FALSE
  OBVIOUS
<1>1. PICK s \in Differ : \A x \in s : s \ {x} \notin Differ
  BY SmallestSet, FS_Subset
<1>2. g[s] = Step(f, g, s) /\ h[s] = Step(f, h, s)
  BY DEF Tables
<1>3. CASE s = {}
  BY <1>2, <1>3 DEF Step
<1>4. CASE s # {}
  <2>1. Pick(s) \in s
    BY <1>4 DEF Pick
  <2>2. s \ {Pick(s)} \in SUBSET T /\ s \ {Pick(s)} \notin Differ
    BY <1>1, <2>1
  <2>3. g[s \ {Pick(s)}] = h[s \ {Pick(s)}]
    BY <2>2
  <2> QED
    BY <1>2, <2>3 DEF Step
<1> QED
  BY <1>3, <1>4

\* The sum of nothing.
LEMMA SumEmpty ==
    ASSUME NEW f
    PROVE  SumFunctionOnSet(f, {}) = 0
<1>1. Tables(f, Table(f, SUBSET {}), SUBSET {})
  BY TableExists, FS_EmptySet
<1>2. Table(f, SUBSET {})[{}] = Step(f, Table(f, SUBSET {}), {})
  BY <1>1 DEF Tables
<1> QED
  BY <1>2, SumIsTable DEF Step

\* The sum takes out the element that Pick chooses.
LEMMA SumPick ==
    ASSUME NEW f, NEW S, IsFiniteSet(S), S # {}
    PROVE  /\ Pick(S) \in S
           /\ SumFunctionOnSet(f, S) = f[Pick(S)] + SumFunctionOnSet(f, S \ {Pick(S)})
<1> DEFINE T == S \ {Pick(S)}
<1>1. Pick(S) \in S
  BY DEF Pick
<1>2. T \in SUBSET S /\ IsFiniteSet(T)
  BY FS_Subset
<1>3. Tables(f, Table(f, SUBSET S), SUBSET S) /\ Tables(f, Table(f, SUBSET T), SUBSET T)
  BY <1>2, TableExists
<1>4. Table(f, SUBSET S)[T] = Table(f, SUBSET T)[T]
  <2> DEFINE g == Table(f, SUBSET S)
             h == Table(f, SUBSET T)
  <2> HIDE DEF T, g, h
  <2>1. Tables(f, g, SUBSET S) /\ Tables(f, h, SUBSET T)
    BY <1>3 DEF g, h
  <2>2. g[T] = h[T]
    BY <1>2, <2>1, TablesAgree
  <2> QED
    BY <2>2 DEF g, h
<1>5. Table(f, SUBSET S)[S] = Step(f, Table(f, SUBSET S), S)
  BY <1>3 DEF Tables
<1> QED
  BY <1>1, <1>4, <1>5, SumIsTable DEF Step

\* A sum of integers is one.
LEMMA SumInt ==
    ASSUME NEW f, NEW S, IsFiniteSet(S), \A x \in S : f[x] \in Int
    PROVE  SumFunctionOnSet(f, S) \in Int
<1> DEFINE Bad == {s \in SUBSET S : SumFunctionOnSet(f, s) \notin Int}
<1> SUFFICES ASSUME Bad # {} PROVE FALSE
  OBVIOUS
<1>1. PICK s \in Bad : \A x \in s : s \ {x} \notin Bad
  BY SmallestSet, FS_Subset
<1>2. CASE s = {}
  BY <1>2, SumEmpty
<1>3. CASE s # {}
  <2>1. IsFiniteSet(s)
    BY FS_Subset
  <2>2. Pick(s) \in s /\ SumFunctionOnSet(f, s) = f[Pick(s)] + SumFunctionOnSet(f, s \ {Pick(s)})
    BY <1>3, <2>1, SumPick
  <2>3. SumFunctionOnSet(f, s \ {Pick(s)}) \in Int
    BY <1>1, <2>2
  <2> QED
    BY <2>2, <2>3
<1> QED
  BY <1>2, <1>3

\* Any element may be taken out.
LEMMA SumRemove ==
    ASSUME NEW f, NEW S, IsFiniteSet(S), \A x \in S : f[x] \in Int, NEW a \in S
    PROVE  SumFunctionOnSet(f, S) = f[a] + SumFunctionOnSet(f, S \ {a})
<1> DEFINE Sum(s) == SumFunctionOnSet(f, s)
           Wrong(s) == \E x \in s : Sum(s) # f[x] + Sum(s \ {x})
           Bad == {s \in SUBSET S : Wrong(s)}
<1> SUFFICES ASSUME Bad # {} PROVE FALSE
  OBVIOUS
<1>1. \A s \in SUBSET S : IsFiniteSet(s)
  BY FS_Subset
<1>2. \A s \in SUBSET S : Sum(s) \in Int
  BY <1>1, SumInt
<1>3. \A s \in SUBSET S : s # {} => Pick(s) \in s /\ Sum(s) = f[Pick(s)] + Sum(s \ {Pick(s)})
  BY <1>1, SumPick
<1>4. PICK s \in Bad : \A x \in s : s \ {x} \notin Bad
  BY <1>1, SmallestSet
<1> HIDE DEF Sum
<1>5. PICK x \in s : Sum(s) # f[x] + Sum(s \ {x})
  OBVIOUS
<1> DEFINE p == Pick(s)
<1>6. p \in s /\ Sum(s) = f[p] + Sum(s \ {p}) /\ p # x
  BY <1>3, <1>5
<1> HIDE DEF p
<1>7. s \ {p} \notin Bad /\ s \ {x} \notin Bad /\ s \in SUBSET S
  BY <1>4, <1>6
<1>8. Sum(s \ {p}) = f[x] + Sum((s \ {p}) \ {x})
  BY <1>6, <1>7
<1>9. Sum(s \ {x}) = f[p] + Sum((s \ {x}) \ {p})
  BY <1>6, <1>7
<1>10. (s \ {p}) \ {x} = (s \ {x}) \ {p}
  OBVIOUS
<1>11. Sum((s \ {x}) \ {p}) \in Int /\ f[x] \in Int /\ f[p] \in Int
  BY <1>2, <1>6, <1>7
<1>12. ASSUME NEW i \in Int, NEW j \in Int, NEW u \in Int
       PROVE  i + (j + u) = j + (i + u)
  OBVIOUS
<1>13. f[p] + (f[x] + Sum((s \ {x}) \ {p})) = f[x] + (f[p] + Sum((s \ {x}) \ {p}))
  BY <1>11, <1>12
<1> QED
  BY Zenon, <1>5, <1>6, <1>8, <1>9, <1>10, <1>13

\* Or put in.
LEMMA SumAdd ==
    ASSUME NEW f, NEW S, IsFiniteSet(S), NEW a, a \notin S, \A x \in S \cup {a} : f[x] \in Int
    PROVE  SumFunctionOnSet(f, S \cup {a}) = SumFunctionOnSet(f, S) + f[a]
<1> DEFINE T == S \cup {a}
<1>1. IsFiniteSet(T) /\ a \in T /\ T \ {a} = S /\ \A x \in T : f[x] \in Int
  BY FS_AddElement
<1> HIDE DEF T
<1>2. SumFunctionOnSet(f, T) = f[a] + SumFunctionOnSet(f, T \ {a})
  BY <1>1, SumRemove
<1>3. SumFunctionOnSet(f, S) \in Int /\ f[a] \in Int
  BY <1>1, SumInt
<1>4. SumFunctionOnSet(f, T) = f[a] + SumFunctionOnSet(f, S)
  BY <1>1, <1>2, Zenon
<1>5. SumFunctionOnSet(f, T) = SumFunctionOnSet(f, S) + f[a]
  BY <1>3, <1>4
<1> QED
  BY <1>5 DEF T

\* A sum looks at its set only.
LEMMA SumSame ==
    ASSUME NEW f, NEW g, NEW S, IsFiniteSet(S), \A x \in S : f[x] = g[x]
    PROVE  SumFunctionOnSet(f, S) = SumFunctionOnSet(g, S)
<1> DEFINE Bad == {s \in SUBSET S : SumFunctionOnSet(f, s) # SumFunctionOnSet(g, s)}
<1> SUFFICES ASSUME Bad # {} PROVE FALSE
  OBVIOUS
<1>1. PICK s \in Bad : \A x \in s : s \ {x} \notin Bad
  BY SmallestSet, FS_Subset
<1>2. CASE s = {}
  BY <1>2, SumEmpty
<1>3. CASE s # {}
  <2>1. IsFiniteSet(s)
    BY FS_Subset
  <2>2. /\ Pick(s) \in s
        /\ SumFunctionOnSet(f, s) = f[Pick(s)] + SumFunctionOnSet(f, s \ {Pick(s)})
        /\ SumFunctionOnSet(g, s) = g[Pick(s)] + SumFunctionOnSet(g, s \ {Pick(s)})
    BY <1>3, <2>1, SumPick
  <2>3. SumFunctionOnSet(f, s \ {Pick(s)}) = SumFunctionOnSet(g, s \ {Pick(s)})
    BY <1>1, <2>2
  <2> QED
    BY <2>2, <2>3
<1> QED
  BY <1>2, <1>3

\* The sum of sums.
LEMMA SumPlus ==
    ASSUME NEW f, NEW g, NEW h, NEW S, IsFiniteSet(S),
           \A x \in S : f[x] \in Int /\ g[x] \in Int /\ h[x] = f[x] + g[x]
    PROVE  SumFunctionOnSet(h, S) = SumFunctionOnSet(f, S) + SumFunctionOnSet(g, S)
<1> DEFINE Sum(k, s) == SumFunctionOnSet(k, s)
           Bad == {s \in SUBSET S : Sum(h, s) # Sum(f, s) + Sum(g, s)}
<1> SUFFICES ASSUME Bad # {} PROVE FALSE
  OBVIOUS
<1>1. PICK s \in Bad : \A x \in s : s \ {x} \notin Bad
  BY SmallestSet, FS_Subset
<1>2. CASE s = {}
  BY <1>2, SumEmpty
<1>3. CASE s # {}
  <2> DEFINE x == Pick(s)
             T == s \ {x}
  <2>1. IsFiniteSet(s)
    BY FS_Subset
  <2>2. /\ x \in s
        /\ Sum(f, s) = f[x] + Sum(f, T) /\ Sum(g, s) = g[x] + Sum(g, T)
        /\ Sum(h, s) = h[x] + Sum(h, T)
    BY <1>3, <2>1, SumPick
  <2> HIDE DEF x
  <2>3. T \in SUBSET S /\ IsFiniteSet(T)
    BY <2>1, FS_Subset
  <2>4. Sum(h, T) = Sum(f, T) + Sum(g, T)
    BY <1>1, <2>2, <2>3
  <2>5. Sum(f, T) \in Int /\ Sum(g, T) \in Int
    <3>1. \A y \in T : f[y] \in Int /\ g[y] \in Int
      BY <2>3
    <3> QED
      BY <2>3, <3>1, SumInt
  <2>6. f[x] \in Int /\ g[x] \in Int /\ h[x] = f[x] + g[x]
    BY <2>2
  <2>7. Sum(h, s) # Sum(f, s) + Sum(g, s)
    BY <1>1
  <2> HIDE DEF Sum, T
  <2> QED
    BY <2>2, <2>4, <2>5, <2>6, <2>7
<1> QED
  BY <1>2, <1>3

\* Zeroes add up to zero.
LEMMA SumZero ==
    ASSUME NEW f, NEW S, IsFiniteSet(S), \A x \in S : f[x] = 0
    PROVE  SumFunctionOnSet(f, S) = 0
<1> DEFINE Bad == {s \in SUBSET S : SumFunctionOnSet(f, s) # 0}
<1> SUFFICES ASSUME Bad # {} PROVE FALSE
  OBVIOUS
<1>1. PICK s \in Bad : \A x \in s : s \ {x} \notin Bad
  BY SmallestSet, FS_Subset
<1>2. CASE s = {}
  BY <1>2, SumEmpty
<1>3. CASE s # {}
  <2>1. IsFiniteSet(s)
    BY FS_Subset
  <2>2. Pick(s) \in s /\ SumFunctionOnSet(f, s) = f[Pick(s)] + SumFunctionOnSet(f, s \ {Pick(s)})
    BY <1>3, <2>1, SumPick
  <2>3. SumFunctionOnSet(f, s \ {Pick(s)}) = 0
    BY <1>1, <2>2
  <2> QED
    BY <2>2, <2>3
<1> QED
  BY <1>2, <1>3

\* A sum of natural numbers is one.
LEMMA SumNat ==
    ASSUME NEW f, NEW S, IsFiniteSet(S), \A x \in S : f[x] \in Nat
    PROVE  SumFunctionOnSet(f, S) \in Nat
<1> DEFINE Bad == {s \in SUBSET S : SumFunctionOnSet(f, s) \notin Nat}
<1> SUFFICES ASSUME Bad # {} PROVE FALSE
  OBVIOUS
<1>1. PICK s \in Bad : \A x \in s : s \ {x} \notin Bad
  BY SmallestSet, FS_Subset
<1>2. CASE s = {}
  BY <1>2, SumEmpty
<1>3. CASE s # {}
  <2>1. IsFiniteSet(s)
    BY FS_Subset
  <2>2. Pick(s) \in s /\ SumFunctionOnSet(f, s) = f[Pick(s)] + SumFunctionOnSet(f, s \ {Pick(s)})
    BY <1>3, <2>1, SumPick
  <2>3. SumFunctionOnSet(f, s \ {Pick(s)}) \in Nat
    BY <1>1, <2>2
  <2> QED
    BY <2>2, <2>3
<1> QED
  BY <1>2, <1>3

\* Two sets without a common element are summed apart.
LEMMA SumUnion ==
    ASSUME NEW f, NEW S, IsFiniteSet(S), NEW T, IsFiniteSet(T), S \cap T = {},
           \A x \in S \cup T : f[x] \in Int
    PROVE  SumFunctionOnSet(f, S \cup T) = SumFunctionOnSet(f, S) + SumFunctionOnSet(f, T)
<1> DEFINE Sum(s) == SumFunctionOnSet(f, s)
           Bad == {s \in SUBSET T : Sum(S \cup s) # Sum(S) + Sum(s)}
<1> SUFFICES ASSUME Bad # {} PROVE FALSE
  OBVIOUS
<1>1. \A s \in SUBSET T : IsFiniteSet(s) /\ IsFiniteSet(S \cup s)
  BY FS_Subset, FS_Union
<1>2. \A s \in SUBSET T : Sum(s) \in Int
  BY <1>1, SumInt
<1>3. PICK s \in Bad : \A x \in s : s \ {x} \notin Bad
  BY <1>1, SmallestSet
<1>4. CASE s = {}
  <2>1. S \cup {} = S /\ Sum({}) = 0 /\ Sum(S) \in Int
    BY SumEmpty, SumInt
  <2> QED
    BY <1>4, <2>1
<1>5. CASE s # {}
  <2>1. PICK a : a \in s
    BY <1>5
  <2> DEFINE r == s \ {a}
  <2>2. r \in SUBSET T /\ a \notin r /\ a \notin S /\ r \cup {a} = s
    BY <2>1
  <2>3. Sum(S \cup r) = Sum(S) + Sum(r)
    BY <1>3, <2>1, <2>2
  <2> HIDE DEF r
  <2>4. Sum(r \cup {a}) = Sum(r) + f[a]
    BY <1>1, <2>2, SumAdd
  <2>5. Sum((S \cup r) \cup {a}) = Sum(S \cup r) + f[a]
    <3>1. IsFiniteSet(S \cup r) /\ a \notin S \cup r /\ \A x \in (S \cup r) \cup {a} : f[x] \in Int
      BY <1>1, <2>2
    <3> QED
      BY <3>1, SumAdd
  <2>6. (S \cup r) \cup {a} = S \cup s
    BY <2>2
  <2>7. Sum(S) \in Int /\ Sum(r) \in Int /\ f[a] \in Int
    BY <1>2, <2>1, <2>2, SumInt
  <2>8. Sum(S \cup s) = Sum(S) + Sum(s)
    <3> HIDE DEF Sum
    <3>1. Sum(s) = Sum(r) + f[a] /\ Sum(S \cup s) = Sum(S \cup r) + f[a]
      BY <2>2, <2>4, <2>5, <2>6
    <3> QED
      BY <2>3, <2>7, <3>1
  <2> QED
    BY <2>8
<1> QED
  BY <1>4, <1>5

\* More natural numbers add up to no less.
LEMMA SumSubset ==
    ASSUME NEW f, NEW S, IsFiniteSet(S), NEW T \in SUBSET S, \A x \in S : f[x] \in Nat
    PROVE  SumFunctionOnSet(f, T) <= SumFunctionOnSet(f, S)
<1> DEFINE R == S \ T
<1>1. IsFiniteSet(T) /\ IsFiniteSet(R) /\ T \cap R = {} /\ T \cup R = S
  BY FS_Subset
<1>2. \A x \in T \cup R : f[x] \in Nat /\ f[x] \in Int
  BY <1>1
<1> HIDE DEF R
<1>3. SumFunctionOnSet(f, T \cup R) = SumFunctionOnSet(f, T) + SumFunctionOnSet(f, R)
  BY <1>1, <1>2, SumUnion
<1>4. SumFunctionOnSet(f, T) \in Nat /\ SumFunctionOnSet(f, R) \in Nat
  BY <1>1, <1>2, SumNat
<1>5. SumFunctionOnSet(f, T) <= SumFunctionOnSet(f, T \cup R)
  BY <1>3, <1>4
<1> QED
  BY <1>1, <1>5

=============================================================================
