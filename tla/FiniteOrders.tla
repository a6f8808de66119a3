----------------------------- MODULE FiniteOrders -----------------------------
(***************************************************************************)
(* Least, greatest and n-th members of sets of numbers, and of finite sets *)
(* that are ordered by a number: what sorting, "order by" and "newest"     *)
(* rest on.                                                                *)
(***************************************************************************)
EXTENDS Integers, FiniteSets, FiniteSetTheorems, WellFoundedInduction, TLAPS

\* Every set of numbers has a least member.
LEMMA Least ==
    ASSUME NEW T \in SUBSET Nat, T # {}
    PROVE  \E n \in T : \A m \in T : n <= m
<1>1. PICK R : R = OpToRel(<, Nat)
  OBVIOUS
<1>2. IsWellFoundedOn(R, Nat)
  BY <1>1, NatLessThanWellFounded
<1>3. PICK n \in T : \A m \in T : <<m, n>> \notin R
  BY <1>2, WFMin
<1>4. \A m \in T : ~(m < n)
  <2> SUFFICES ASSUME NEW m \in T, m < n PROVE FALSE
    OBVIOUS
  <2>1. m \in Nat /\ n \in Nat
    OBVIOUS
  <2>2. <<m, n>> \in R
    BY <1>1, <2>1 DEF OpToRel
  <2> QED
    BY <1>3, <2>2
<1> QED
  BY <1>4

\* A set of numbers below a bound has a greatest member: the least of its bounds.
LEMMA GreatestBelow ==
    ASSUME NEW S \in SUBSET Nat, S # {}, NEW b \in Nat, \A s \in S : s <= b
    PROVE  \E n \in S : \A m \in S : m <= n
<1> DEFINE Bounds == {n \in Nat : \A s \in S : s <= n}
<1>1. Bounds \in SUBSET Nat /\ b \in Bounds
  OBVIOUS
<1>2. PICK n \in Bounds : \A m \in Bounds : n <= m
  BY <1>1, Least
<1>3. n \in S
  <2> SUFFICES ASSUME n \notin S PROVE FALSE
    OBVIOUS
  <2>1. PICK s \in S : TRUE
    OBVIOUS
  <2>2. \A m \in S : m \in Nat /\ m <= n /\ m # n
    OBVIOUS
  <2>3. n \in Nat /\ n - 1 \in Nat /\ \A m \in S : m <= n - 1
    BY <2>1, <2>2
  <2>4. n - 1 \in Bounds
    BY <2>3
  <2> QED
    BY <1>2, <2>3, <2>4
<1> QED
  BY <1>3

\* Every finite set is counted: a property of all smaller subsets carries over, by the
\* least size of a set that lacks it.
LEMMA FiniteIsBounded ==
    ASSUME NEW S \in SUBSET Nat, IsFiniteSet(S)
    PROVE  \E b \in Nat : \A s \in S : s <= b
<1> DEFINE Unbounded(T) == ~ \E b \in Nat : \A s \in T : s <= b
           Sizes == {n \in Nat : \E T \in SUBSET S : Cardinality(T) = n /\ Unbounded(T)}
<1> SUFFICES ASSUME Unbounded(S) PROVE FALSE
  OBVIOUS
<1>1. \A T \in SUBSET S : IsFiniteSet(T) /\ Cardinality(T) \in Nat
  BY FS_Subset, FS_CardinalityType
<1>2. Cardinality(S) \in Sizes
  BY <1>1
<1>3. PICK n \in Sizes : \A m \in Sizes : n <= m
  <2>1. Sizes \in SUBSET Nat /\ Sizes # {}
    BY <1>2
  <2> HIDE DEF Sizes
  <2> QED
    BY <2>1, Least
<1>4. PICK T \in SUBSET S : Cardinality(T) = n /\ Unbounded(T)
  OBVIOUS
<1>5. PICK x \in T : TRUE
  BY <1>4
<1>6. Cardinality(T \ {x}) = n - 1 /\ T \ {x} \in SUBSET S /\ n - 1 < n /\ n - 1 \in Nat
  <2>1. IsFiniteSet(T) /\ n \in Nat
    BY <1>1, <1>4
  <2>2. Cardinality(T \ {x}) = n - 1
    BY <1>4, <1>5, <2>1, FS_RemoveElement
  <2>3. T \ {x} \in SUBSET S
    OBVIOUS
  <2>4. Cardinality(T \ {x}) \in Nat
    BY <1>1, <2>3
  <2> QED
    BY <2>1, <2>2, <2>3, <2>4
<1>7. ~Unbounded(T \ {x})
  BY <1>3, <1>6
<1>8. PICK b \in Nat : \A s \in T \ {x} : s <= b
  BY <1>7
<1>9. x \in Nat /\ \A s \in T : s \in Nat
  OBVIOUS
<1>10. \A s \in T : s <= b + x
  BY <1>8, <1>9
<1> QED
  BY <1>4, <1>9, <1>10

LEMMA Greatest ==
    ASSUME NEW S \in SUBSET Nat, IsFiniteSet(S), S # {}
    PROVE  \E n \in S : \A m \in S : m <= n
BY FiniteIsBounded, GreatestBelow

\* The members of a finite set before one of them, in the order of their numbers.
Before(S, f, x) == {y \in S : f[y] < f[x]}

LEMMA BeforeGrows ==
    ASSUME NEW S, IsFiniteSet(S), NEW f \in [S -> Nat], NEW x \in S, NEW y \in S, f[x] < f[y]
    PROVE  Cardinality(Before(S, f, x)) < Cardinality(Before(S, f, y))
<1>1. /\ Before(S, f, x) \cup {x} \in SUBSET Before(S, f, y) /\ x \notin Before(S, f, x)
      /\ Before(S, f, x) \in SUBSET S /\ Before(S, f, y) \in SUBSET S
  BY DEF Before
<1>2. IsFiniteSet(Before(S, f, x)) /\ IsFiniteSet(Before(S, f, y))
  BY <1>1, FS_Subset
<1>3. Cardinality(Before(S, f, x) \cup {x}) = Cardinality(Before(S, f, x)) + 1
  BY <1>1, <1>2, FS_AddElement
<1>4. Cardinality(Before(S, f, x) \cup {x}) <= Cardinality(Before(S, f, y))
  BY <1>1, <1>2, FS_Subset
<1>5. Cardinality(Before(S, f, x)) \in Nat /\ Cardinality(Before(S, f, y)) \in Nat
  BY <1>2, FS_CardinalityType
<1> QED
  BY <1>3, <1>4, <1>5

\* Members ordered by different numbers have the ranks 0 .. Cardinality(S) - 1, each once.
LEMMA Ranks ==
    ASSUME NEW S, IsFiniteSet(S), NEW f \in [S -> Nat],
           \A x, y \in S : f[x] = f[y] => x = y
    PROVE  /\ Cardinality(S) \in Nat
           /\ \A x \in S : Cardinality(Before(S, f, x)) \in 0 .. Cardinality(S) - 1
           /\ \A x, y \in S : Cardinality(Before(S, f, x)) = Cardinality(Before(S, f, y)) => x = y
           /\ \A i \in 0 .. Cardinality(S) - 1 : \E x \in S : Cardinality(Before(S, f, x)) = i
<1> DEFINE n == Cardinality(S)
           r == [x \in S |-> Cardinality(Before(S, f, x))]
<1>1. n \in Nat
  BY FS_CardinalityType
<1>2. ASSUME NEW x \in S PROVE Cardinality(Before(S, f, x)) \in 0 .. n - 1
  <2>1. Before(S, f, x) \in SUBSET (S \ {x})
    BY DEF Before
  <2>2. IsFiniteSet(S \ {x}) /\ Cardinality(S \ {x}) = n - 1
    BY FS_RemoveElement
  <2>3. IsFiniteSet(Before(S, f, x)) /\ Cardinality(Before(S, f, x)) <= n - 1
    BY <2>1, <2>2, FS_Subset
  <2> QED
    BY <1>1, <2>3, FS_CardinalityType
<1>3. ASSUME NEW x \in S, NEW y \in S, Cardinality(Before(S, f, x)) = Cardinality(Before(S, f, y))
      PROVE  x = y
  <2>1. f[x] \in Nat /\ f[y] \in Nat
    OBVIOUS
  <2>2. Cardinality(Before(S, f, x)) \in Nat
    BY <1>1, <1>2
  <2>3. ~(f[x] < f[y]) /\ ~(f[y] < f[x])
    BY <1>3, <2>2, BeforeGrows
  <2> QED
    BY <2>1, <2>3
<1>4. r \in [S -> 0 .. n - 1] /\ \A x, y \in S : r[x] = r[y] => x = y
  BY <1>2, <1>3
<1>5. r \in Injection(S, 0 .. n - 1)
  BY <1>4 DEF Injection, IsInjective
<1>6. IsFiniteSet(0 .. n - 1) /\ Cardinality(0 .. n - 1) = n
  BY <1>1, FS_Interval
<1>7. r \in Surjection(S, 0 .. n - 1)
  <2> HIDE DEF r
  <2> QED
    BY <1>5, <1>6, FS_Injection
<1>8. \A i \in 0 .. n - 1 : \E x \in S : r[x] = i
  BY <1>7 DEF Surjection
<1> QED
  BY <1>1, <1>2, <1>3, <1>8

\* The same for a finite set of numbers, whose members are counted from 1.
LEMMA RanksOfNumbers ==
    ASSUME NEW S, S \subseteq Nat, IsFiniteSet(S)
    PROVE  /\ Cardinality(S) \in Nat
           /\ \A n \in 1 .. Cardinality(S) : \E x \in S : Cardinality({y \in S : y < x}) = n - 1
           /\ \A x \in S : Cardinality({y \in S : y < x}) + 1 \in 1 .. Cardinality(S)
           /\ \A x, y \in S :
                 x < y => Cardinality({z \in S : z < x}) < Cardinality({z \in S : z < y})
<1>0. PICK f \in [S -> Nat] : f = [x \in S |-> x]
  OBVIOUS
<1>1. \A x, y \in S : f[x] = f[y] => x = y
  BY <1>0
<1>2. \A x \in S : Before(S, f, x) = {y \in S : y < x}
  BY <1>0 DEF Before
<1>3. \A x, y \in S : x < y => f[x] < f[y]
  BY <1>0
<1>4. /\ Cardinality(S) \in Nat
      /\ \A x \in S : Cardinality(Before(S, f, x)) \in 0 .. Cardinality(S) - 1
      /\ \A i \in 0 .. Cardinality(S) - 1 : \E x \in S : Cardinality(Before(S, f, x)) = i
  <2>1. \A T, g :
           IsFiniteSet(T) /\ g \in [T -> Nat] /\ (\A x, y \in T : g[x] = g[y] => x = y)
              => /\ Cardinality(T) \in Nat
                 /\ \A x \in T : Cardinality(Before(T, g, x)) \in 0 .. Cardinality(T) - 1
                 /\ \A i \in 0 .. Cardinality(T) - 1 : \E x \in T : Cardinality(Before(T, g, x)) = i
    BY Ranks
  <2> QED
    BY <1>1, <2>1, Zenon
<1>5. ASSUME NEW n \in 1 .. Cardinality(S)
      PROVE  \E x \in S : Cardinality({y \in S : y < x}) = n - 1
  <2>1. n - 1 \in 0 .. Cardinality(S) - 1
    BY <1>4
  <2> QED
    BY <1>2, <1>4, <2>1
<1>6. ASSUME NEW x \in S, NEW y \in S, x < y
      PROVE  Cardinality({z \in S : z < x}) < Cardinality({z \in S : z < y})
  BY <1>1, <1>2, <1>3, <1>6, BeforeGrows
<1>7. ASSUME NEW x \in S
      PROVE  Cardinality({y \in S : y < x}) + 1 \in 1 .. Cardinality(S)
  <2>1. PICK c : c = Cardinality(Before(S, f, x)) /\ c \in 0 .. Cardinality(S) - 1
    BY <1>4
  <2>2. c + 1 \in 1 .. Cardinality(S)
    BY <1>4, <2>1
  <2> QED
    BY <1>2, <2>1, <2>2
<1> QED
  BY <1>4, <1>5, <1>6, <1>7

\* A value that is changed step by step: each step has its result.
Iterations(S, n, first, step) ==
    {f \in [0 .. n -> S] : f[0] = first /\ \A i \in 1 .. n : f[i] = step[i][f[i - 1]]}

LEMMA Iterated ==
    ASSUME NEW S, NEW n \in Nat, NEW first \in S, NEW step \in [1 .. n -> [S -> S]]
    PROVE  Iterations(S, n, first, step) # {}
<1> DEFINE Steps(k, f) == f[0] = first /\ \A i \in 1 .. k : f[i] = step[i][f[i - 1]]
           Reached(k) == \E f \in [0 .. k -> S] : Steps(k, f)
           Missing == {k \in 0 .. n : ~Reached(k)}
<1>0. Reached(0)
  <2>1. [i \in 0 .. 0 |-> first] \in [0 .. 0 -> S] /\ Steps(0, [i \in 0 .. 0 |-> first])
    OBVIOUS
  <2> QED
    BY <2>1
<1> SUFFICES ASSUME ~Reached(n) PROVE FALSE
  BY DEF Iterations
<1> HIDE DEF Reached
<1>1. Missing \in SUBSET Nat /\ n \in Missing
  OBVIOUS
<1>2. PICK k \in Missing : \A m \in Missing : k <= m
  BY <1>1, Least
<1>3. k # 0
  BY <1>0, <1>2
<1>4. k - 1 \in 0 .. n /\ k - 1 \notin Missing /\ k \in 1 .. n /\ ~Reached(k)
  BY <1>2, <1>3
<1>a. Reached(k - 1)
  BY <1>4
<1> USE DEF Reached
<1>5. PICK f \in [0 .. k - 1 -> S] : Steps(k - 1, f)
  BY <1>a
<1>6. PICK g : g = [i \in 0 .. k |-> IF i <= k - 1 THEN f[i] ELSE step[k][f[k - 1]]]
  OBVIOUS
<1>7. f[k - 1] \in S /\ step[k][f[k - 1]] \in S
  BY <1>4
<1>8. g \in [0 .. k -> S]
  BY <1>4, <1>6, <1>7
<1>9. Steps(k, g)
  <2>1. g[0] = first
    BY <1>4, <1>5, <1>6
  <2>2. ASSUME NEW i \in 1 .. k PROVE g[i] = step[i][g[i - 1]]
    <3>1. g[i - 1] = f[i - 1]
      BY <1>4, <1>6
    <3>2. CASE i = k
      BY <1>4, <1>6, <3>1, <3>2
    <3>3. CASE i # k
      <4>1. i \in 1 .. k - 1 /\ g[i] = f[i]
        BY <1>4, <1>6, <3>3
      <4> QED
        BY <1>5, <3>1, <4>1
    <3> QED
      BY <3>2, <3>3
  <2> QED
    BY <2>1, <2>2
<1> QED
  BY <1>4, <1>8, <1>9

\* A strict order of a finite set is the order of numbers: those of its members that come
\* before each.
LEMMA NumbersOfOrder ==
    ASSUME NEW S, IsFiniteSet(S), NEW R,
           \A x, y, z \in S : <<x, y>> \in R /\ <<y, z>> \in R => <<x, z>> \in R,
           \A x \in S : <<x, x>> \notin R,
           \A x, y \in S : x # y => <<x, y>> \in R \/ <<y, x>> \in R
    PROVE  \E f \in [S -> Nat] :
              /\ \A x, y \in S : f[x] = f[y] => x = y
              /\ \A x, y \in S : <<x, y>> \in R <=> f[x] < f[y]
<1> DEFINE B(x) == {y \in S : <<y, x>> \in R}
<1>1. \A x \in S : B(x) \in SUBSET S
  OBVIOUS
<1>2. \A x \in S : IsFiniteSet(B(x)) /\ Cardinality(B(x)) \in Nat
  BY <1>1, FS_Subset, FS_CardinalityType
<1>3. PICK f : f = [x \in S |-> Cardinality(B(x))]
  OBVIOUS
<1>4. f \in [S -> Nat]
  BY <1>2, <1>3
<1>5. ASSUME NEW x \in S, NEW y \in S, <<x, y>> \in R
      PROVE  f[x] < f[y]
  <2>1. B(x) \cup {x} \in SUBSET B(y) /\ x \notin B(x)
    BY <1>5
  <2>2. Cardinality(B(x) \cup {x}) = Cardinality(B(x)) + 1
    BY <1>2, <2>1, FS_AddElement
  <2>3. Cardinality(B(x) \cup {x}) <= Cardinality(B(y))
    <3> HIDE DEF B
    <3> QED
      BY <1>2, <2>1, FS_Subset
  <2> HIDE DEF B
  <2> QED
    BY <1>2, <1>3, <2>2, <2>3
<1>6. \A x, y \in S : f[x] \in Nat /\ f[y] \in Nat
  BY <1>4
<1>7. ASSUME NEW x \in S, NEW y \in S, f[x] = f[y] PROVE x = y
  <2>1. ~(f[x] < f[y]) /\ ~(f[y] < f[x])
    BY <1>6, <1>7
  <2> QED
    BY <1>5, <2>1
<1>8. ASSUME NEW x \in S, NEW y \in S, f[x] < f[y] PROVE <<x, y>> \in R
  <2>1. ~(f[y] < f[x]) /\ x # y
    BY <1>6, <1>8
  <2> QED
    BY <1>5, <2>1
<1> QED
  BY <1>4, <1>5, <1>7, <1>8
=============================================================================
