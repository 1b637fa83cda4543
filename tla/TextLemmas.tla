------------------------------- MODULE TextLemmas -------------------------------
(***************************************************************************)
(* Lemmas about the operators that Extraction, BigramQuery and TextSearch  *)
(* are built from: induction and the existence of recursively defined      *)
(* functions, sorting and filtering, folding and collapsing, pages and     *)
(* windows, trees of bigrams, and what the decomposition of an expression  *)
(* says of its matches.                                                    *)
(***************************************************************************)
EXTENDS PageText, BigramTrees, FiniteSetTheorems, SequenceTheorems, TLAPS

-----------------------------------------------------------------------------
(* Induction. The theorems of NaturalsInduction take an operator; a set    *)
(* does as well, and needs no more than that a finite set of sets has a    *)
(* least one.                                                              *)

LEMMA LeastNumber ==
    ASSUME NEW T \in SUBSET Nat, T # {}
    PROVE  \E m \in T : \A k \in T : m <= k
<1>1. PICK n \in T : TRUE
  OBVIOUS
<1> DEFINE I == 1 .. n
           U == {1 .. k : k \in {j \in T : j <= n}}
<1>2. IsFiniteSet(I)
  BY FS_Interval
<1>3. IsWellFoundedOn(StrictSubsetOrdering(I), SUBSET I)
  BY <1>2, FS_StrictSubsetOrderingWellFounded, FS_FiniteSubsetsOfFinite
<1>4. U \subseteq SUBSET I /\ U # {}
  BY <1>1
<1>5. PICK x \in U : \A y \in U : <<y, x>> \notin StrictSubsetOrdering(I)
  <2> HIDE DEF U, I
  <2> QED BY <1>3, <1>4, WFMin
<1>6. PICK m \in T : m <= n /\ x = 1 .. m
  BY <1>5
<1>7. ASSUME NEW k \in T, k < m PROVE FALSE
  <2>1. 1 .. k \in U /\ 1 .. k \subseteq x /\ m \in x /\ m \notin 1 .. k
    BY <1>6, <1>7
  <2>2. 1 .. k \in SUBSET I /\ x \in SUBSET I
    BY <1>4, <2>1, <1>5
  <2>3. <<1 .. k, x>> \in StrictSubsetOrdering(I)
    BY <2>1, <2>2 DEF StrictSubsetOrdering
  <2> QED BY <2>1, <2>3, <1>5
<1> QED BY <1>6, <1>7

LEMMA InductionOver ==
    ASSUME NEW S, 0 \in S, \A n \in Nat : n \in S => n + 1 \in S
    PROVE  Nat \subseteq S
<1> SUFFICES ASSUME Nat \ S # {} PROVE FALSE
  OBVIOUS
<1>1. PICK m \in Nat \ S : \A k \in Nat \ S : m <= k
  BY LeastNumber
<1>2. m - 1 \in Nat /\ m - 1 \notin Nat \ S
  BY <1>1
<1> QED BY <1>1, <1>2, m - 1 + 1 = m

LEMMA MinOf ==
    ASSUME NEW T \in SUBSET Nat, T # {}
    PROVE  Min(T) \in T /\ \A k \in T : Min(T) <= k
BY LeastNumber DEF Min

LEMMA MaxOf ==
    ASSUME NEW T \in SUBSET Int, NEW n \in Int, T # {}, \A k \in T : k <= n
    PROVE  Max(T) \in T /\ \A k \in T : k <= Max(T)
<1> DEFINE U == {n - k : k \in T}
<1>1. U \in SUBSET Nat /\ U # {}
  <2>1. \A k \in T : n - k \in Nat
    OBVIOUS
  <2> QED BY <2>1
<1>2. PICK m \in U : \A k \in U : m <= k
  BY <1>1, LeastNumber
<1>3. PICK x \in T : m = n - x
  BY <1>2
<1>4. \A k \in T : x >= k
  BY <1>2, <1>3
<1> QED BY <1>3, <1>4 DEF Max

\* A loop of n turns: the values it takes, from base by step.
Turns(step, n, A) == \A i \in 1 .. n, a \in A : step[<<i, a>>] \in A

Iterates(f, base, step, n, A) ==
    f \in [0 .. n -> A] /\ f[0] = base /\ \A i \in 1 .. n : f[i - 1] \in A /\ f[i] = step[<<i, f[i - 1]>>]

LEMMA LoopExists ==
    ASSUME NEW A, NEW base \in A, NEW n \in Nat, NEW step, Turns(step, n, A)
    PROVE  \E f : Iterates(f, base, step, n, A)
<1> USE DEF Turns
<1> DEFINE Good(m) == \E f \in [0 .. m -> A] : \A i \in 0 .. m : f[i] = IF i = 0 THEN base ELSE step[<<i, f[i - 1]>>]
           S == {m \in Nat : m <= n => Good(m)}
<1>1. 0 \in S
  <2> DEFINE f == [i \in 0 .. 0 |-> base]
  <2>1. f \in [0 .. 0 -> A] /\ \A i \in 0 .. 0 : f[i] = IF i = 0 THEN base ELSE step[<<i, f[i - 1]>>]
    OBVIOUS
  <2> QED BY <2>1
<1>2. ASSUME NEW m \in Nat, m \in S PROVE m + 1 \in S
  <2> SUFFICES ASSUME m + 1 <= n PROVE Good(m + 1)
    OBVIOUS
  <2>1. PICK f \in [0 .. m -> A] : \A i \in 0 .. m : f[i] = IF i = 0 THEN base ELSE step[<<i, f[i - 1]>>]
    BY <1>2
  <2> DEFINE g == [i \in 0 .. m + 1 |-> IF i = m + 1 THEN step[<<m + 1, f[m]>>] ELSE f[i]]
  <2>2. g \in [0 .. m + 1 -> A]
    <3>1. f[m] \in A /\ m + 1 \in 1 .. n
      OBVIOUS
    <3>2. step[<<m + 1, f[m]>>] \in A
      BY <3>1
    <3> QED BY <3>2
  <2>3. ASSUME NEW i \in 0 .. m + 1 PROVE g[i] = IF i = 0 THEN base ELSE step[<<i, g[i - 1]>>]
    <3>1. CASE i = m + 1
      <4>1. i # 0 /\ i - 1 = m /\ g[i - 1] = f[m]
        BY <3>1
      <4> QED BY <3>1, <4>1
    <3>2. CASE i = 0
      <4>1. 0 \in 0 .. m /\ 0 # m + 1 /\ 0 \in 0 .. m + 1
        OBVIOUS
      <4>2. g[i] = f[0]
        BY <3>2, <4>1
      <4>3. f[0] = base
        BY <2>1, <4>1
      <4> QED BY <3>2, <4>2, <4>3
    <3>3. CASE i \in 1 .. m
      <4>1. g[i] = f[i] /\ g[i - 1] = f[i - 1] /\ i # 0
        BY <3>3
      <4>2. f[i] = step[<<i, f[i - 1]>>]
        BY <2>1, <3>3
      <4> QED BY <4>1, <4>2
    <3> QED BY <3>1, <3>2, <3>3
  <2> HIDE DEF g
  <2> QED BY <2>2, <2>3
<1>3. n \in S
  <2> HIDE DEF S
  <2> QED BY <1>1, <1>2, InductionOver
<1>4. PICK f \in [0 .. n -> A] : \A i \in 0 .. n : f[i] = IF i = 0 THEN base ELSE step[<<i, f[i - 1]>>]
  BY <1>3
<1>5. f[0] = base
  BY <1>4, 0 \in 0 .. n
<1>6. ASSUME NEW i \in 1 .. n PROVE f[i - 1] \in A /\ f[i] = step[<<i, f[i - 1]>>]
  <2>1. i \in 0 .. n /\ i # 0 /\ i - 1 \in 0 .. n
    OBVIOUS
  <2> QED BY <1>4, <2>1
<1> QED BY <1>4, <1>5, <1>6 DEF Iterates

\* What has the first value and makes the turns has the type of all values.
LEMMA LoopTyped ==
    ASSUME NEW A, NEW base \in A, NEW n \in Nat, NEW step, Turns(step, n, A),
           NEW f, f = [i \in 0 .. n |-> f[i]], f[0] = base,
           \A i \in 1 .. n : f[i - 1] \in A => f[i] = step[<<i, f[i - 1]>>]
    PROVE  Iterates(f, base, step, n, A)
<1> DEFINE T == {i \in Nat : i <= n => f[i] \in A}
<1>1. 0 \in T
  OBVIOUS
<1>2. ASSUME NEW i \in Nat, i \in T PROVE i + 1 \in T
  <2> SUFFICES ASSUME i + 1 <= n PROVE f[i + 1] \in A
    OBVIOUS
  <2>1. PICK j \in 1 .. n : j = i + 1
    OBVIOUS
  <2>2. j - 1 = i /\ f[i] \in A
    BY <1>2, <2>1
  <2>3. f[j] = step[<<j, f[j - 1]>>]
    BY <2>2
  <2> QED BY <2>1, <2>2, <2>3 DEF Turns
<1>3. Nat \subseteq T
  <2> HIDE DEF T
  <2> QED BY <1>1, <1>2, InductionOver
<1>4. \A i \in 0 .. n : f[i] \in A
  BY <1>3
<1>5. f \in [0 .. n -> A]
  BY <1>4
<1>6. ASSUME NEW i \in 1 .. n PROVE f[i - 1] \in A /\ f[i] = step[<<i, f[i - 1]>>]
  <2>1. i - 1 \in 0 .. n
    OBVIOUS
  <2> QED BY <1>4, <2>1
<1> QED BY <1>5, <1>6 DEF Iterates

-----------------------------------------------------------------------------
(* Finite sets.                                                            *)

LEMMA FiniteImage ==
    ASSUME NEW S, IsFiniteSet(S), NEW f
    PROVE  IsFiniteSet({f[x] : x \in S}) /\ Cardinality({f[x] : x \in S}) <= Cardinality(S)
<1> DEFINE T == {f[x] : x \in S}
           g == [x \in S |-> f[x]]
<1>1. g \in Surjection(S, T)
  BY DEF Surjection
<1> HIDE DEF g, T
<1>2. IsFiniteSet(T) /\ Cardinality(T) <= Cardinality(S)
  BY <1>1, FS_Surjection
<1> QED BY <1>2 DEF T

LEMMA InjectiveImage ==
    ASSUME NEW S, IsFiniteSet(S), NEW f, \A x, y \in S : f[x] = f[y] => x = y
    PROVE  IsFiniteSet({f[x] : x \in S}) /\ Cardinality({f[x] : x \in S}) = Cardinality(S)
<1> DEFINE T == {f[x] : x \in S}
           g == [x \in S |-> f[x]]
<1>1. g \in Surjection(S, T) /\ g \in Injection(S, T)
  BY DEF Surjection, Injection, IsInjective
<1> HIDE DEF g, T
<1>2. IsFiniteSet(T) /\ Cardinality(T) = Cardinality(S)
  BY <1>1, FS_Surjection
<1> QED BY <1>2 DEF T

-----------------------------------------------------------------------------
(* Sorting and filtering.                                                  *)

LEMMA LexLessTotal ==
    ASSUME NEW w \in Nat, NEW a \in [1 .. w -> Int], NEW b \in [1 .. w -> Int]
    PROVE  /\ ~LexLess(a, a)
           /\ a # b => LexLess(a, b) \/ LexLess(b, a)
<1>1. ~LexLess(a, a)
  BY DEF LexLess
<1>2. ASSUME a # b PROVE LexLess(a, b) \/ LexLess(b, a)
  <2> DEFINE T == {i \in 1 .. w : a[i] # b[i]}
  <2>1. T \in SUBSET Nat /\ T # {}
    BY <1>2
  <2>2. PICK m \in T : \A k \in T : m <= k
    BY <2>1, LeastNumber
  <2>3. \A j \in 1 .. m - 1 : a[j] = b[j]
    BY <2>2
  <2>4. a[m] < b[m] \/ b[m] < a[m]
    BY <2>2
  <2> QED BY <2>2, <2>3, <2>4 DEF LexLess
<1> QED BY <1>1, <1>2

LEMMA LexLessTransitive ==
    ASSUME NEW w \in Nat, NEW a \in [1 .. w -> Int], NEW b \in [1 .. w -> Int], NEW c \in [1 .. w -> Int],
           LexLess(a, b), LexLess(b, c)
    PROVE  LexLess(a, c)
<1>1. PICK i \in 1 .. w : a[i] < b[i] /\ \A j \in 1 .. i - 1 : a[j] = b[j]
  BY DEF LexLess
<1>2. PICK k \in 1 .. w : b[k] < c[k] /\ \A j \in 1 .. k - 1 : b[j] = c[j]
  BY DEF LexLess
<1>3. CASE i <= k
  <2>1. \A j \in 1 .. i - 1 : a[j] = c[j]
    BY <1>1, <1>2, <1>3
  <2>2. b[i] <= c[i]
    BY <1>2, <1>3, i = k \/ i \in 1 .. k - 1
  <2>3. a[i] < c[i]
    BY <1>1, <2>2, a[i] \in Int /\ b[i] \in Int /\ c[i] \in Int
  <2> QED BY <2>1, <2>3 DEF LexLess
<1>4. CASE k < i
  <2>1. a[k] < c[k] /\ \A j \in 1 .. k - 1 : a[j] = c[j]
    BY <1>1, <1>2, <1>4
  <2> QED BY <2>1 DEF LexLess
<1> QED BY <1>3, <1>4

\* An injective function into as many numbers as it has arguments reaches all.
LEMMA RanksAreReached ==
    ASSUME NEW D, IsFiniteSet(D), NEW R \in [D -> 0 .. Cardinality(D) - 1],
           \A i, j \in D : R[i] = R[j] => i = j,
           NEW v \in 0 .. Cardinality(D) - 1
    PROVE  \E i \in D : R[i] = v
<1> SUFFICES ASSUME \A i \in D : R[i] # v PROVE FALSE
  OBVIOUS
<1> DEFINE V == 0 .. Cardinality(D) - 1
           T == V \ {v}
<1>1. Cardinality(D) \in Nat
  BY FS_CardinalityType
<1>2. IsFiniteSet(V) /\ Cardinality(V) = Cardinality(D)
  BY <1>1, FS_Interval
<1>3. IsFiniteSet(T) /\ Cardinality(T) < Cardinality(D)
  <2>1. v \in V
    OBVIOUS
  <2> HIDE DEF V
  <2>2. IsFiniteSet(V \ {v}) /\ Cardinality(V \ {v}) = Cardinality(V) - 1
    BY <1>2, <2>1, FS_RemoveElement
  <2> QED BY <1>1, <1>2, <2>2
<1>4. R \in [D -> T]
  OBVIOUS
<1> HIDE DEF T
<1>5. \E x, y \in D : x # y /\ R[x] = R[y]
  BY <1>3, <1>4, FS_PigeonHole
<1> QED BY <1>5

\* How many members come before one.
LexBefore(key, i) == Cardinality({j \in DOMAIN key : LexLess(key[j], key[i])})

\* Tuples of w numbers, no two of them alike, to sort finitely many members by.
SortKeys(key, w) ==
    /\ IsFiniteSet(DOMAIN key) /\ key \in [DOMAIN key -> [1 .. w -> Int]]
    /\ \A i, j \in DOMAIN key : key[i] = key[j] => i = j

\* SortedBy lists every member once, in the order of the keys.
LEMMA SortedByProperties ==
    ASSUME NEW key, NEW w \in Nat, SortKeys(key, w), NEW n, n = Cardinality(DOMAIN key)
    PROVE  /\ n \in Nat /\ SortedBy(key) \in [1 .. n -> DOMAIN key]
           /\ \A k, m \in 1 .. n : SortedBy(key)[k] = SortedBy(key)[m] => k = m
           /\ \A i \in DOMAIN key : LexBefore(key, i) + 1 \in 1 .. n /\ SortedBy(key)[LexBefore(key, i) + 1] = i
           /\ \A k, m \in 1 .. n : k < m => LexLess(key[SortedBy(key)[k]], key[SortedBy(key)[m]])
<1> DEFINE D == DOMAIN key
           p == SortedBy(key)
<1>a. p = SortedBy(key)
  OBVIOUS
<1>b. D = DOMAIN key /\ IsFiniteSet(D) /\ key \in [D -> [1 .. w -> Int]] /\ \A i, j \in D : key[i] = key[j] => i = j
  BY DEF SortKeys
<1>c. n = Cardinality(D)
  OBVIOUS
<1> HIDE DEF D, p
<1> USE <1>b, <1>c
<1> DEFINE B(i) == {j \in D : LexLess(key[j], key[i])}
           R == [i \in D |-> Cardinality(B(i))]
<1>1. p = [k \in 1 .. n |-> CHOOSE i \in D : R[i] = k - 1]
  <2> DEFINE dom   == DOMAIN key
             ranks == [i \in dom |-> Cardinality({j \in dom : LexLess(key[j], key[i])})]
  <2>1. p = [k \in 1 .. Cardinality(dom) |-> CHOOSE i \in dom : ranks[i] = k - 1]
    BY <1>a DEF SortedBy
  <2>2. dom = D
    OBVIOUS
  <2>3. ranks = R
    BY <2>2
  <2> HIDE DEF dom, ranks, R
  <2> QED BY <2>1, <2>2, <2>3
<1>2. n \in Nat
  BY FS_CardinalityType
<1>3. \A i \in D : IsFiniteSet(B(i)) /\ Cardinality(B(i)) \in Nat
  BY FS_Subset, FS_CardinalityType
<1>4. ASSUME NEW i \in D, NEW j \in D, LexLess(key[i], key[j]) PROVE R[i] < R[j]
  <2>1. B(i) \subseteq B(j)
    BY <1>4, LexLessTransitive
  <2>2. i \in B(j) /\ i \notin B(i)
    BY <1>4, LexLessTotal
  <2>3. Cardinality(B(i)) <= Cardinality(B(j)) /\ Cardinality(B(i)) # Cardinality(B(j))
    <3> HIDE DEF B
    <3> QED BY <1>3, <2>1, <2>2, FS_Subset
  <2>4. R[i] = Cardinality(B(i)) /\ R[j] = Cardinality(B(j))
    OBVIOUS
  <2> HIDE DEF B, R
  <2> QED BY <1>3, <2>3, <2>4
<1>5. ASSUME NEW i \in D PROVE R[i] \in 0 .. n - 1
  <2>1. i \notin B(i) /\ B(i) \subseteq D
    BY LexLessTotal
  <2>2. Cardinality(B(i)) <= n /\ Cardinality(B(i)) # n
    <3> HIDE DEF B
    <3> QED BY <2>1, FS_Subset
  <2>3. R[i] = Cardinality(B(i)) /\ Cardinality(B(i)) \in Nat
    BY <1>3
  <2> HIDE DEF B, R
  <2> QED BY <1>2, <2>2, <2>3
<1>6. ASSUME NEW i \in D, NEW j \in D, i # j PROVE R[i] < R[j] \/ R[j] < R[i]
  BY <1>4, <1>6, LexLessTotal
<1> HIDE DEF R
<1>7. R \in [D -> 0 .. n - 1] /\ \A i, j \in D : R[i] = R[j] => i = j
  <2>1. R \in [D -> 0 .. n - 1]
    BY <1>5 DEF R
  <2>2. ASSUME NEW i \in D, NEW j \in D, R[i] = R[j] PROVE i = j
    <3>1. R[i] \in Int /\ R[j] \in Int
      BY <2>1
    <3>2. i # j => R[i] < R[j] \/ R[j] < R[i]
      BY <1>6
    <3> QED BY <2>2, <3>1, <3>2
  <2> QED BY <2>1, <2>2
<1>8. \A k \in 1 .. n : p[k] \in D /\ R[p[k]] = k - 1
  <2> SUFFICES ASSUME NEW k \in 1 .. n PROVE p[k] \in D /\ R[p[k]] = k - 1
    OBVIOUS
  <2>1. k - 1 \in 0 .. n - 1
    BY <1>2
  <2>2. \E i \in D : R[i] = k - 1
    BY <1>7, <2>1, RanksAreReached
  <2> QED BY <1>1, <2>2
<1>9. p \in [1 .. n -> D] /\ DOMAIN p = 1 .. n
  BY <1>1, <1>8
<1>10. \A k, m \in 1 .. n : p[k] = p[m] => k = m
  BY <1>2, <1>8
<1>11. ASSUME NEW i \in D PROVE R[i] + 1 \in 1 .. n /\ p[R[i] + 1] = i
  <2>1. R[i] + 1 \in 1 .. n
    BY <1>2, <1>7
  <2>2. R[p[R[i] + 1]] = R[i] /\ p[R[i] + 1] \in D
    BY <1>2, <1>7, <1>8, <2>1
  <2> QED BY <1>7, <2>1, <2>2
<1>12. ASSUME NEW k \in 1 .. n, NEW m \in 1 .. n, k < m PROVE LexLess(key[p[k]], key[p[m]])
  <2>1. p[k] \in D /\ p[m] \in D /\ R[p[k]] = k - 1 /\ R[p[m]] = m - 1
    BY <1>8
  <2>2. p[k] # p[m] /\ ~(R[p[m]] < R[p[k]])
    BY <1>2, <1>12, <2>1
  <2>3. ~LexLess(key[p[m]], key[p[k]])
    BY <1>4, <2>1, <2>2
  <2> QED BY <2>1, <2>2, <2>3, LexLessTotal
<1>13. \A i \in D : R[i] = LexBefore(key, i)
  BY DEF R, LexBefore
<1> QED BY <1>a, <1>2, <1>9, <1>10, <1>11, <1>12, <1>13

\* The place of a position among the positions at.
PlaceIn(at, i) == Cardinality({j \in at : j < i}) + 1

\* The positions at, n of them, in their order.
Enumerates(p, at, n) ==
    /\ p \in [1 .. n -> at]
    /\ \A k, m \in 1 .. n : p[k] = p[m] => k = m
    /\ \A i \in at : PlaceIn(at, i) \in 1 .. n /\ p[PlaceIn(at, i)] = i
    /\ \A k, m \in 1 .. n : k < m => p[k] < p[m]

SiftedBy(p, s, at, n) == Enumerates(p, at, n) /\ Sift(s, at) = [k \in 1 .. n |-> s[p[k]]]

\* What a filter returns: the chosen elements, each once, in their order.
LEMMA SiftProperties ==
    ASSUME NEW at, at \subseteq Int, IsFiniteSet(at), NEW s, NEW n, n = Cardinality(at)
    PROVE  n \in Nat /\ \E p : SiftedBy(p, s, at, n)
<1> DEFINE key == [i \in at |-> <<i>>]
           p   == SortedBy(key)
<1>1. SortKeys(key, 1) /\ DOMAIN key = at
  <2>1. \A i \in at : <<i>> \in [1 .. 1 -> Int]
    OBVIOUS
  <2>2. key \in [DOMAIN key -> [1 .. 1 -> Int]]
    BY <2>1
  <2>3. \A i, j \in DOMAIN key : key[i] = key[j] => i = j
    OBVIOUS
  <2> QED BY <2>2, <2>3 DEF SortKeys
<1>2. ASSUME NEW i \in at, NEW j \in at PROVE LexLess(key[i], key[j]) <=> i < j
  <2>1. key[i] = <<i>> /\ key[j] = <<j>> /\ DOMAIN <<i>> = {1} /\ 1 .. 1 - 1 = {}
    OBVIOUS
  <2>2. LexLess(key[i], key[j]) <=> \E x \in {1} : key[i][x] < key[j][x] /\ \A y \in 1 .. x - 1 : key[i][y] = key[j][y]
    BY <2>1 DEF LexLess
  <2> HIDE DEF key
  <2>3. key[i][1] = i /\ key[j][1] = j
    BY <2>1
  <2> QED BY <2>1, <2>2, <2>3
<1>4. Sift(s, at) = [k \in DOMAIN p |-> s[p[k]]]
  BY DEF Sift
<1> HIDE DEF key
<1>5. /\ n \in Nat /\ p \in [1 .. n -> at] /\ DOMAIN p = 1 .. n
      /\ \A k, m \in 1 .. n : p[k] = p[m] => k = m
      /\ \A i \in at : LexBefore(key, i) + 1 \in 1 .. n /\ p[LexBefore(key, i) + 1] = i
      /\ \A k, m \in 1 .. n : k < m => LexLess(key[p[k]], key[p[m]])
  BY <1>1, SortedByProperties
<1> HIDE DEF p
<1>6. \A k, m \in 1 .. n : k < m => p[k] < p[m]
  BY <1>2, <1>5
<1>7. ASSUME NEW i \in at
      PROVE  PlaceIn(at, i) \in 1 .. n /\ p[PlaceIn(at, i)] = i
  <2>1. {j \in DOMAIN key : LexLess(key[j], key[i])} = {j \in at : j < i}
    BY <1>1, <1>2
  <2>2. LexBefore(key, i) + 1 = PlaceIn(at, i)
    BY <2>1 DEF LexBefore, PlaceIn
  <2> QED BY <1>5, <2>2
<1>8. Sift(s, at) = [k \in 1 .. n |-> s[p[k]]]
  BY <1>4, <1>5
<1>9. Enumerates(p, at, n)
  BY <1>5, <1>6, <1>7 DEF Enumerates
<1> QED BY <1>5, <1>8, <1>9 DEF SiftedBy

\* A list without repetitions.
Distinct(s) == \A i, j \in DOMAIN s : s[i] = s[j] => i = j

\* The elements of s at the positions at.
Picked(s, at) == {s[i] : i \in at}

LEMMA SiftTyped ==
    ASSUME NEW S, NEW s \in Seq(S), NEW at \in SUBSET DOMAIN s
    PROVE  /\ Sift(s, at) \in Seq(S) /\ IsFiniteSet(at) /\ Len(Sift(s, at)) = Cardinality(at)
           /\ ToSet(Sift(s, at)) = Picked(s, at)
           /\ Distinct(s) => Distinct(Sift(s, at))
<1> DEFINE n == Cardinality(at)
           out == Sift(s, at)
<1>1. at \subseteq Int /\ IsFiniteSet(at) /\ DOMAIN s = 1 .. Len(s)
  BY FS_Interval, FS_Subset
<1>2. n = Cardinality(at)
  OBVIOUS
<1> HIDE DEF n
<1>3. n \in Nat
  BY <1>1, <1>2, SiftProperties
<1>a. PICK p : SiftedBy(p, s, at, n)
  BY <1>1, <1>2, SiftProperties
<1>4. /\ out = [k \in 1 .. n |-> s[p[k]]] /\ p \in [1 .. n -> at]
      /\ \A k, m \in 1 .. n : p[k] = p[m] => k = m
      /\ \A i \in at : \E k \in 1 .. n : p[k] = i
  BY <1>a DEF SiftedBy, Enumerates
<1> HIDE DEF out
<1>5. out \in [1 .. n -> S]
  <2>1. \A k \in 1 .. n : s[p[k]] \in S
    BY <1>1, <1>4
  <2> QED BY <1>4, <2>1
<1>6. out \in Seq(S) /\ Len(out) = n /\ DOMAIN out = 1 .. n
  <2>1. out \in Seq(S)
    BY <1>3, <1>5, SeqDef
  <2> QED BY <1>3, <1>5, <2>1
<1>7. \A k \in 1 .. n : out[k] = s[p[k]] /\ p[k] \in at
  BY <1>4
<1>8. ToSet(out) = Picked(s, at)
  <2>1. \A x : x \in ToSet(out) <=> \E k \in 1 .. n : out[k] = x
    BY <1>6 DEF ToSet
  <2>2. \A x : x \in Picked(s, at) <=> \E i \in at : s[i] = x
    BY DEF Picked
  <2>3. \A x : x \in ToSet(out) <=> x \in Picked(s, at)
    BY <1>4, <1>7, <2>1, <2>2
  <2> QED BY <2>3
<1>9. Distinct(s) => Distinct(out)
  <2> SUFFICES ASSUME Distinct(s), NEW k \in 1 .. n, NEW m \in 1 .. n, out[k] = out[m] PROVE k = m
    BY <1>6 DEF Distinct
  <2>1. p[k] = p[m]
    BY <1>1, <1>7 DEF Distinct
  <2> QED BY <1>4, <2>1
<1> QED BY <1>1, <1>2, <1>6, <1>8, <1>9 DEF out

(* Spelling a text in bytes.                                               *)

\* The turns of the loop in Spelled.
Spells(out, text, code, B) ==
    /\ out \in [0 .. Len(text) -> Seq(B)] /\ out[0] = <<>>
    /\ \A n \in 1 .. Len(text) : out[n] = out[n - 1] \o code[text[n]]

LEMMA SpelledUnfolds ==
    ASSUME NEW S, NEW B, NEW text \in Seq(S), NEW code \in [S -> Seq(B)]
    PROVE  \E out : Spells(out, text, code, B) /\ Spelled(text, code) = out[Len(text)]
<1> DEFINE L       == Len(text)
           A       == Seq(B)
           step    == [x \in (1 .. L) \X A |-> x[2] \o code[text[x[1]]]]
           turn(f) == [n \in 0 .. L |-> IF n = 0 THEN <<>> ELSE f[n - 1] \o code[text[n]]]
           out     == CHOOSE f : f = turn(f)
<1>1. L \in Nat /\ <<>> \in A /\ \A n \in 1 .. L : code[text[n]] \in A
  OBVIOUS
<1>2. \A n \in 1 .. L, a \in A : step[<<n, a>>] = a \o code[text[n]] /\ a \o code[text[n]] \in A
  <2> SUFFICES ASSUME NEW n \in 1 .. L, NEW a \in A
               PROVE  step[<<n, a>>] = a \o code[text[n]] /\ a \o code[text[n]] \in A
    OBVIOUS
  <2>1. step[<<n, a>>] = a \o code[text[n]]
    OBVIOUS
  <2>2. a \o code[text[n]] \in A
    BY <1>1, ConcatProperties
  <2> QED BY <2>1, <2>2
<1>3. Spelled(text, code) = out[L]
  BY DEF Spelled
<1> HIDE DEF step
<1>4. Turns(step, L, A)
  BY <1>2 DEF Turns
<1>5. PICK f : Iterates(f, <<>>, step, L, A)
  <2> HIDE DEF A, L
  <2> QED BY <1>1, <1>4, LoopExists
<1>6. f = turn(f)
  <2> HIDE DEF A, L
  <2>1. ASSUME NEW n \in 0 .. L PROVE f[n] = IF n = 0 THEN <<>> ELSE f[n - 1] \o code[text[n]]
    <3>1. CASE n = 0
      BY <1>5, <3>1 DEF Iterates
    <3>2. CASE n # 0
      <4>1. n \in 1 .. L
        BY <1>1, <3>2
      <4>2. f[n - 1] \in A /\ f[n] = step[<<n, f[n - 1]>>]
        BY <1>5, <4>1 DEF Iterates
      <4>3. step[<<n, f[n - 1]>>] = f[n - 1] \o code[text[n]]
        BY <1>2, <4>1, <4>2
      <4> QED BY <3>2, <4>2, <4>3
    <3> QED BY <3>1, <3>2
  <2>2. f = [n \in 0 .. L |-> f[n]]
    BY <1>5 DEF Iterates
  <2> QED BY <2>1, <2>2
<1>7. out = turn(out)
  BY <1>6
<1> HIDE DEF out
<1>8. out = [n \in 0 .. L |-> out[n]] /\ out[0] = <<>> /\ \A n \in 1 .. L : out[n] = out[n - 1] \o code[text[n]]
  <2> HIDE DEF L, A
  <2>1. \A n \in 0 .. L : out[n] = IF n = 0 THEN <<>> ELSE out[n - 1] \o code[text[n]]
    BY <1>7
  <2>2. out = [n \in 0 .. L |-> out[n]]
    BY <1>7
  <2>3. 0 \in 0 .. L /\ \A n \in 1 .. L : n \in 0 .. L /\ n # 0
    BY <1>1
  <2> HIDE DEF turn
  <2> QED BY <2>1, <2>2, <2>3
<1>9. Iterates(out, <<>>, step, L, A)
  <2> HIDE DEF L, A
  <2>1. \A n \in 1 .. L : out[n - 1] \in A => out[n] = step[<<n, out[n - 1]>>]
    BY <1>2, <1>8
  <2> QED BY <1>1, <1>4, <1>8, <2>1, LoopTyped
<1> QED BY <1>3, <1>8, <1>9 DEF Spells, Iterates

\* The code of a text is put together from the codes of its parts.
LEMMA SpelledConcat ==
    ASSUME NEW S, NEW B, NEW a \in Seq(S), NEW b \in Seq(S), NEW code \in [S -> Seq(B)]
    PROVE  /\ Spelled(a, code) \in Seq(B) /\ Spelled(b, code) \in Seq(B)
           /\ Spelled(a \o b, code) = Spelled(a, code) \o Spelled(b, code)
<1> DEFINE c == a \o b
           m == Len(a)
           n == Len(b)
<1>1. /\ c \in Seq(S) /\ m \in Nat /\ n \in Nat /\ Len(c) = m + n
      /\ \A i \in 1 .. m : c[i] = a[i]
      /\ \A i \in 1 .. n : c[m + i] = b[i]
  BY ConcatProperties
<1>2. PICK oa : Spells(oa, a, code, B) /\ Spelled(a, code) = oa[m]
  BY SpelledUnfolds
<1>3. PICK ob : Spells(ob, b, code, B) /\ Spelled(b, code) = ob[n]
  BY SpelledUnfolds
<1> HIDE DEF c, m, n
<1>4. PICK oc : Spells(oc, c, code, B) /\ Spelled(c, code) = oc[Len(c)]
  BY <1>1, SpelledUnfolds
<1>5. /\ oa[0] = <<>> /\ \A i \in 0 .. m : oa[i] \in Seq(B)
      /\ \A i \in 1 .. m : oa[i] = oa[i - 1] \o code[a[i]]
  BY <1>2 DEF Spells, m
<1>6. /\ ob[0] = <<>> /\ \A i \in 0 .. n : ob[i] \in Seq(B)
      /\ \A i \in 1 .. n : ob[i] = ob[i - 1] \o code[b[i]]
  BY <1>3 DEF Spells, n
<1>7. /\ oc[0] = <<>>
      /\ \A i \in 1 .. m + n : oc[i] = oc[i - 1] \o code[c[i]]
  BY <1>1, <1>4 DEF Spells
<1>8. oc[m] = oa[m]
  <2> DEFINE T == {i \in Nat : i <= m => oc[i] = oa[i]}
  <2>1. 0 \in T
    BY <1>5, <1>7
  <2>2. ASSUME NEW i \in Nat, i \in T PROVE i + 1 \in T
    <3> SUFFICES ASSUME i + 1 <= m PROVE oc[i + 1] = oa[i + 1]
      OBVIOUS
    <3>1. PICK j \in 1 .. m : j = i + 1
      BY <1>1
    <3>2. j \in 1 .. m + n /\ j - 1 = i /\ oc[i] = oa[i]
      BY <1>1, <2>2, <3>1
    <3>3. oc[j] = oc[i] \o code[a[j]] /\ oa[j] = oa[i] \o code[a[j]]
      BY <1>1, <1>5, <1>7, <3>2
    <3> QED BY <3>1, <3>2, <3>3
  <2>3. Nat \subseteq T
    <3> HIDE DEF T
    <3> QED BY <2>1, <2>2, InductionOver
  <2> QED BY <2>3, <1>1
<1>9. oc[m + n] = oa[m] \o ob[n]
  <2> DEFINE Good(i) == oc[m + i] = oa[m] \o ob[i]
             T       == {i \in Nat : i <= n => Good(i)}
  <2>1. Good(0)
    <3>1. oa[m] \in Seq(B)
      BY <1>1, <1>5
    <3>2. oa[m] \o <<>> = oa[m]
      BY <3>1, ConcatEmptySeq
    <3>3. m + 0 = m
      BY <1>1
    <3> QED BY <1>6, <1>8, <3>2, <3>3
  <2>2. ASSUME NEW i \in Nat, i + 1 <= n, Good(i) PROVE Good(i + 1)
    <3>1. PICK j \in 1 .. n : j = i + 1
      BY <1>1, <2>2
    <3>2. PICK k \in 1 .. m + n : k = m + j
      BY <1>1
    <3>3. j - 1 = i /\ k - 1 = m + i /\ i \in 0 .. n
      BY <1>1, <3>1, <3>2
    <3>4. oc[k] = oc[m + i] \o code[b[j]] /\ ob[j] = ob[i] \o code[b[j]]
      BY <1>1, <1>6, <1>7, <3>2, <3>3
    <3>5. oa[m] \in Seq(B) /\ ob[i] \in Seq(B)
      BY <1>1, <1>5, <1>6, <3>3
    <3>6. code[b[j]] \in Seq(B)
      BY <3>1 DEF n
    <3>7. \A u, v, w \in Seq(B) : (u \o v) \o w = u \o (v \o w)
      BY ConcatAssociative
    <3>8. oc[k] = oa[m] \o ob[j]
      <4> DEFINE u == oa[m]
                 v == ob[i]
                 w == code[b[j]]
      <4>1. u \in Seq(B) /\ v \in Seq(B) /\ w \in Seq(B) /\ oc[k] = oc[m + i] \o w /\ ob[j] = v \o w /\ oc[m + i] = u \o v
        BY <2>2, <3>4, <3>5, <3>6
      <4> HIDE DEF u, v, w
      <4>2. oc[k] = u \o ob[j]
        <5>1. (u \o v) \o w = u \o (v \o w)
          BY <4>1, <3>7
        <5>2. oc[k] = (u \o v) \o w
          BY <4>1
        <5> QED BY <4>1, <5>1, <5>2
      <4> QED BY <4>2 DEF u
    <3>9. m + (i + 1) = k
      BY <1>1, <3>1, <3>2
    <3> QED BY <3>1, <3>8, <3>9
  <2> HIDE DEF Good
  <2>3. 0 \in T
    BY <2>1
  <2>4. ASSUME NEW i \in Nat, i \in T PROVE i + 1 \in T
    BY <1>1, <2>2, <2>4
  <2>5. Nat \subseteq T
    <3> HIDE DEF T
    <3> QED BY <2>3, <2>4, InductionOver
  <2>6. Good(n)
    BY <2>5, <1>1
  <2> QED BY <2>6 DEF Good
<1>10. oa[m] \in Seq(B) /\ ob[n] \in Seq(B)
  BY <1>1, <1>5, <1>6
<1> QED BY <1>1, <1>2, <1>3, <1>4, <1>9, <1>10 DEF c

LEMMA FoldConcat ==
    ASSUME NEW a \in Seq(Char), NEW b \in Seq(Char)
    PROVE  Fold(a) \in Seq(Byte) /\ Fold(b) \in Seq(Byte) /\ Fold(a \o b) = Fold(a) \o Fold(b)
<1> DEFINE x == Spelled(a, Deunicode)
           y == Spelled(b, Deunicode)
<1>1. x \in Seq(Byte) /\ y \in Seq(Byte) /\ Spelled(a \o b, Deunicode) = x \o y
  BY SpelledConcat, TextAssumption
<1> HIDE DEF x, y
<1>2. \A s \in Seq(Byte) : Lowercase(s) \in Seq(Byte) /\ Len(Lowercase(s)) = Len(s) /\ \A i \in 1 .. Len(s) : Lowercase(s)[i] = Lower[s[i]]
  <2> SUFFICES ASSUME NEW s \in Seq(Byte)
               PROVE  /\ Lowercase(s) \in Seq(Byte) /\ Len(Lowercase(s)) = Len(s)
                      /\ \A i \in 1 .. Len(s) : Lowercase(s)[i] = Lower[s[i]]
    OBVIOUS
  <2>1. \A i \in 1 .. Len(s) : Lower[s[i]] \in Byte
    BY LowerAssumption
  <2> QED BY <2>1 DEF Lowercase
<1>3. Lowercase(x \o y) = Lowercase(x) \o Lowercase(y)
  <2>1. x \o y \in Seq(Byte) /\ Len(x \o y) = Len(x) + Len(y)
    BY <1>1, ConcatProperties
  <2>2. ASSUME NEW i \in 1 .. Len(x) + Len(y)
        PROVE  Lowercase(x \o y)[i] = (Lowercase(x) \o Lowercase(y))[i]
    <3>1. (x \o y)[i] = IF i <= Len(x) THEN x[i] ELSE y[i - Len(x)]
      BY <1>1
    <3>2. (Lowercase(x) \o Lowercase(y))[i] = IF i <= Len(x) THEN Lowercase(x)[i] ELSE Lowercase(y)[i - Len(x)]
      BY <1>1, <1>2, ConcatProperties
    <3>3. Lowercase(x \o y)[i] = Lower[(x \o y)[i]]
      BY <1>2, <2>1
    <3>4. CASE i <= Len(x)
      <4>1. i \in 1 .. Len(x)
        BY <1>1, <3>4
      <4> QED BY <1>1, <1>2, <3>1, <3>2, <3>3, <3>4, <4>1
    <3>5. CASE ~(i <= Len(x))
      <4>1. i - Len(x) \in 1 .. Len(y)
        BY <1>1, <3>5
      <4> QED BY <1>1, <1>2, <3>1, <3>2, <3>3, <3>5, <4>1
    <3> QED BY <3>4, <3>5
  <2>3. Len(Lowercase(x) \o Lowercase(y)) = Len(x) + Len(y) /\ Lowercase(x) \o Lowercase(y) \in Seq(Byte)
    <3>1. Lowercase(x) \in Seq(Byte) /\ Len(Lowercase(x)) = Len(x) /\ Lowercase(y) \in Seq(Byte) /\ Len(Lowercase(y)) = Len(y)
      BY <1>1, <1>2
    <3> QED BY <3>1, ConcatProperties
  <2>4. Lowercase(x \o y) \in Seq(Byte) /\ Len(Lowercase(x \o y)) = Len(x) + Len(y)
    BY <1>2, <2>1
  <2> QED BY <2>2, <2>3, <2>4, SeqEqual
<1> QED BY <1>1, <1>2, <1>3 DEF Fold, x, y

\* The order of the positions is the only one.
LEMMA EnumerationPlace ==
    ASSUME NEW at, NEW n, NEW p, Enumerates(p, at, n), NEW k \in 1 .. n
    PROVE  p[k] \in at /\ PlaceIn(at, p[k]) = k
<1>1. p[k] \in at
  BY DEF Enumerates
<1>2. PICK m \in 1 .. n : m = PlaceIn(at, p[k]) /\ p[m] = p[k]
  BY <1>1 DEF Enumerates
<1>3. m = k
  BY <1>2 DEF Enumerates
<1> QED BY <1>1, <1>2, <1>3

LEMMA EnumerationUnique ==
    ASSUME NEW at, NEW n, NEW p, NEW q, Enumerates(p, at, n), Enumerates(q, at, n)
    PROVE  p = q
<1>1. \A k \in 1 .. n : p[k] = q[k]
  <2> SUFFICES ASSUME NEW k \in 1 .. n PROVE p[k] = q[k]
    OBVIOUS
  <2>1. p[k] \in at /\ PlaceIn(at, p[k]) = k
    BY EnumerationPlace
  <2>2. q[PlaceIn(at, p[k])] = p[k]
    BY <2>1 DEF Enumerates
  <2> QED BY <2>1, <2>2
<1>2. p \in [1 .. n -> at] /\ q \in [1 .. n -> at]
  BY DEF Enumerates
<1>3. p = [k \in 1 .. n |-> p[k]] /\ q = [k \in 1 .. n |-> q[k]]
  BY <1>2
<1> QED BY <1>1, <1>3, Zenon

\* A position behind all others comes last.
LEMMA SiftAppend ==
    ASSUME NEW at, at \subseteq Int, IsFiniteSet(at), NEW i \in Int, \A j \in at : j < i,
           NEW S, NEW s, s[i] \in S, \A j \in at : s[j] \in S
    PROVE  Sift(s, at) \in Seq(S) /\ Sift(s, at \cup {i}) = Append(Sift(s, at), s[i])
<1> DEFINE n == Cardinality(at)
           more == at \cup {i}
<1>1. n \in Nat /\ i \notin at /\ IsFiniteSet(more) /\ Cardinality(more) = n + 1 /\ more \subseteq Int
  BY FS_CardinalityType, FS_AddElement
<1>n. n = Cardinality(at) /\ more = at \cup {i}
  OBVIOUS
<1> HIDE DEF n, more
<1>2. PICK p : SiftedBy(p, s, at, n)
  BY <1>n, SiftProperties
<1>3. PICK m : m = n + 1
  OBVIOUS
<1>a. m = Cardinality(more)
  BY <1>1, <1>3
<1>4. PICK q : SiftedBy(q, s, more, m)
  BY <1>1, <1>a, SiftProperties
<1>p. /\ Enumerates(p, at, n) /\ Sift(s, at) = [k \in 1 .. n |-> s[p[k]]]
      /\ Enumerates(q, more, m) /\ Sift(s, more) = [k \in 1 .. m |-> s[q[k]]]
  BY <1>2, <1>4 DEF SiftedBy
<1>e. Enumerates(p, at, n) /\ Enumerates(q, more, m)
  BY <1>p
<1>5. \A j \in at : PlaceIn(more, j) = PlaceIn(at, j)
  <2> SUFFICES ASSUME NEW j \in at PROVE PlaceIn(more, j) = PlaceIn(at, j)
    OBVIOUS
  <2>1. {k \in more : k < j} = {k \in at : k < j}
    <3>1. j \in Int /\ ~(i < j)
      OBVIOUS
    <3> QED BY <3>1, <1>n
  <2> QED BY <2>1 DEF PlaceIn
<1>6. PlaceIn(more, i) = n + 1
  <2>1. {k \in more : k < i} = at
    <3>1. \A k \in more : k < i <=> k \in at
      BY <1>n
    <3> QED BY <3>1, <1>n
  <2> QED BY <2>1, <1>n DEF PlaceIn
<1>7. q[m] = i
  <2>1. i \in more
    BY <1>n
  <2>2. q[PlaceIn(more, i)] = i
    BY <1>e, <2>1 DEF Enumerates
  <2> QED BY <1>3, <1>6, <2>2
<1>8. \A k \in 1 .. n : q[k] = p[k] /\ p[k] \in at
  <2> SUFFICES ASSUME NEW k \in 1 .. n PROVE q[k] = p[k] /\ p[k] \in at
    OBVIOUS
  <2>1. p[k] \in at /\ PlaceIn(at, p[k]) = k
    BY <1>1, <1>e, EnumerationPlace
  <2>2. q[PlaceIn(more, p[k])] = p[k]
    BY <1>e, <1>n, <2>1 DEF Enumerates
  <2> QED BY <1>5, <2>1, <2>2
<1>9. Sift(s, at) \in Seq(S) /\ Len(Sift(s, at)) = n /\ \A k \in 1 .. n : Sift(s, at)[k] = s[p[k]]
  <2>1. \A k \in 1 .. n : s[p[k]] \in S
    BY <1>8
  <2>2. Sift(s, at) \in [1 .. n -> S]
    BY <1>p, <2>1
  <2>3. Sift(s, at) \in Seq(S)
    BY <1>1, <2>2, SeqDef
  <2> QED BY <1>1, <1>p, <2>2, <2>3
<1>10. Sift(s, more) \in Seq(S) /\ Len(Sift(s, more)) = m /\ \A k \in 1 .. m : Sift(s, more)[k] = s[q[k]]
  <2>1. \A k \in 1 .. m : s[q[k]] \in S
    <3>1. \A k \in 1 .. m : k = m \/ k \in 1 .. n
      BY <1>1, <1>3
    <3> QED BY <1>7, <1>8, <3>1
  <2>2. Sift(s, more) \in [1 .. m -> S]
    BY <1>p, <2>1
  <2>3. Sift(s, more) \in Seq(S)
    BY <1>1, <1>3, <2>2, SeqDef
  <2> QED BY <1>1, <1>3, <1>p, <2>2, <2>3
<1> HIDE DEF more
<1>11. Sift(s, more) = Append(Sift(s, at), s[i])
  <2> DEFINE x == Sift(s, at)
             y == Sift(s, more)
             z == Append(x, s[i])
  <2>1. x \in Seq(S) /\ Len(x) = n /\ y \in Seq(S) /\ Len(y) = m
    BY <1>9, <1>10
  <2>2. \A k \in 1 .. n : x[k] = y[k]
    BY <1>1, <1>3, <1>8, <1>9, <1>10
  <2>3. y[m] = s[i]
    BY <1>1, <1>3, <1>7, <1>10
  <2> HIDE DEF x, y
  <2>4. z \in Seq(S) /\ Len(z) = n + 1 /\ z[n + 1] = s[i] /\ \A k \in 1 .. n : z[k] = x[k]
    BY <2>1, AppendProperties
  <2> HIDE DEF z
  <2>5. \A k \in 1 .. m : y[k] = z[k]
    BY <1>1, <1>3, <2>2, <2>3, <2>4
  <2>6. y = z
    BY <1>3, <2>1, <2>4, <2>5, SeqEqual
  <2> QED BY <2>6 DEF x, y, z
<1> QED BY <1>9, <1>11 DEF more

LEMMA SiftNothing ==
    ASSUME NEW s
    PROVE  Sift(s, {}) = <<>>
<1>1. IsFiniteSet({}) /\ Cardinality({}) = 0
  BY FS_EmptySet
<1>2. PICK p : SiftedBy(p, s, {}, 0)
  BY <1>1, SiftProperties
<1> QED BY <1>2 DEF SiftedBy

-----------------------------------------------------------------------------
(* Collapsing blanks.                                                      *)

\* One turn of the loop in CollapseBlanks.
Pushed(out, c, blanks) ==
    IF c \notin blanks THEN Append(out, c)
    ELSE IF out = <<>> \/ Last(out) = Space THEN out
    ELSE Append(out, Space)

Trimmed(out) == IF out # <<>> /\ Last(out) = Space THEN Front(out) ELSE out

\* The turns of the loop in CollapseBlanks.
Collapses(out, s, blanks, B) ==
    /\ out \in [0 .. Len(s) -> Seq(B)] /\ out[0] = <<>>
    /\ \A n \in 1 .. Len(s) : out[n] = Pushed(out[n - 1], s[n], blanks)

LEMMA CollapseUnfolds ==
    ASSUME NEW B, NEW s \in Seq(B), NEW blanks, Space \in B
    PROVE  \E out : Collapses(out, s, blanks, B) /\ CollapseBlanks(s, blanks) = Trimmed(out[Len(s)])
<1> DEFINE L       == Len(s)
           A       == Seq(B)
           step    == [x \in (1 .. L) \X A |-> Pushed(x[2], s[x[1]], blanks)]
           Push(out, c) ==
               IF c \notin blanks THEN Append(out, c)
               ELSE IF out = <<>> \/ Last(out) = Space THEN out
               ELSE Append(out, Space)
           turn(f) == [n \in 0 .. L |-> IF n = 0 THEN <<>> ELSE Push(f[n - 1], s[n])]
           out     == CHOOSE f : f = turn(f)
<1>1. L \in Nat /\ <<>> \in A /\ \A n \in 1 .. L : s[n] \in B
  OBVIOUS
<1>p. \A o, c : Push(o, c) = Pushed(o, c, blanks)
  BY DEF Pushed
<1>2. \A n \in 1 .. L, a \in A : step[<<n, a>>] = Pushed(a, s[n], blanks) /\ Pushed(a, s[n], blanks) \in A
  <2> SUFFICES ASSUME NEW n \in 1 .. L, NEW a \in A
               PROVE  step[<<n, a>>] = Pushed(a, s[n], blanks) /\ Pushed(a, s[n], blanks) \in A
    OBVIOUS
  <2>1. step[<<n, a>>] = Pushed(a, s[n], blanks)
    OBVIOUS
  <2>2. Append(a, s[n]) \in A /\ Append(a, Space) \in A
    BY <1>1, AppendProperties
  <2> QED BY <2>1, <2>2 DEF Pushed
<1>3. CollapseBlanks(s, blanks) = Trimmed(out[L])
  BY DEF CollapseBlanks, Trimmed
<1> HIDE DEF step, Push
<1>4. Turns(step, L, A)
  BY <1>2 DEF Turns
<1>5. PICK f : Iterates(f, <<>>, step, L, A)
  <2> HIDE DEF A, L
  <2> QED BY <1>1, <1>4, LoopExists
<1>6. f = turn(f)
  <2> HIDE DEF A, L
  <2>1. ASSUME NEW n \in 0 .. L PROVE f[n] = IF n = 0 THEN <<>> ELSE Push(f[n - 1], s[n])
    <3>1. CASE n = 0
      BY <1>5, <3>1 DEF Iterates
    <3>2. CASE n # 0
      <4>1. n \in 1 .. L
        BY <1>1, <3>2
      <4>2. f[n - 1] \in A /\ f[n] = step[<<n, f[n - 1]>>]
        BY <1>5, <4>1 DEF Iterates
      <4>3. step[<<n, f[n - 1]>>] = Push(f[n - 1], s[n])
        BY <1>2, <1>p, <4>1, <4>2
      <4> QED BY <3>2, <4>2, <4>3
    <3> QED BY <3>1, <3>2
  <2>2. f = [n \in 0 .. L |-> f[n]]
    BY <1>5 DEF Iterates
  <2> QED BY <2>1, <2>2
<1>7. out = turn(out)
  BY <1>6
<1> HIDE DEF out
<1>8. out = [n \in 0 .. L |-> out[n]] /\ out[0] = <<>> /\ \A n \in 1 .. L : out[n] = Pushed(out[n - 1], s[n], blanks)
  <2> HIDE DEF L, A
  <2>1. \A n \in 0 .. L : out[n] = IF n = 0 THEN <<>> ELSE Push(out[n - 1], s[n])
    BY <1>7
  <2>2. out = [n \in 0 .. L |-> out[n]]
    BY <1>7
  <2>3. 0 \in 0 .. L /\ \A n \in 1 .. L : n \in 0 .. L /\ n # 0
    BY <1>1
  <2> HIDE DEF turn
  <2> QED BY <1>p, <2>1, <2>2, <2>3
<1>9. Iterates(out, <<>>, step, L, A)
  <2> HIDE DEF L, A
  <2>1. \A n \in 1 .. L : out[n - 1] \in A => out[n] = step[<<n, out[n - 1]>>]
    BY <1>2, <1>8
  <2> QED BY <1>1, <1>4, <1>8, <2>1, LoopTyped
<1> QED BY <1>3, <1>8, <1>9 DEF Collapses, Iterates

AppendsInside(u, g, c) == Append(u \o g, c) = u \o Append(g, c)

LEMMA ConcatAppend ==
    ASSUME NEW B, NEW u \in Seq(B), NEW g \in Seq(B), NEW c \in B
    PROVE  AppendsInside(u, g, c)
<1>1. <<c>> \in Seq(B) /\ u \o g \in Seq(B)
  BY ConcatProperties
<1>2. Append(u \o g, c) = (u \o g) \o <<c>> /\ Append(g, c) = g \o <<c>>
  BY <1>1, AppendIsConcat
<1>3. (u \o g) \o <<c>> = u \o (g \o <<c>>)
  BY <1>1, ConcatAssociative
<1> QED BY <1>2, <1>3 DEF AppendsInside

LEMMA LastOfAppend ==
    ASSUME NEW B, NEW u \in Seq(B), NEW c \in B
    PROVE  Append(u, c) \in Seq(B) /\ Append(u, c) # <<>> /\ Last(Append(u, c)) = c
BY AppendProperties DEF Last

BeginsWith(z, x, B) == \E w \in Seq(B) : z = x \o w
EndsWith(z, x, B)   == \E u \in Seq(B) : z = u \o x

\* What is in the buffer stays there.
LEMMA CollapseGrows ==
    ASSUME NEW B, Space \in B, NEW blanks, NEW s \in Seq(B), NEW out, Collapses(out, s, blanks, B),
           NEW n \in 0 .. Len(s), NEW k \in n .. Len(s)
    PROVE  BeginsWith(out[k], out[n], B)
<1> DEFINE Good(i) == \E w \in Seq(B) : out[n + i] = out[n] \o w
           T       == {i \in Nat : n + i <= Len(s) => Good(i)}
<1>1. /\ \A i \in 0 .. Len(s) : out[i] \in Seq(B)
      /\ \A i \in 1 .. Len(s) : out[i] = Pushed(out[i - 1], s[i], blanks) /\ s[i] \in B
      /\ Len(s) \in Nat
  BY DEF Collapses
<1>2. Good(0)
  <2>1. out[n + 0] = out[n] /\ out[n] \in Seq(B) /\ <<>> \in Seq(B)
    BY <1>1
  <2>2. out[n] \o <<>> = out[n]
    BY <2>1, ConcatEmptySeq
  <2> QED BY <2>1, <2>2
<1>3. ASSUME NEW i \in Nat, n + (i + 1) <= Len(s), Good(i) PROVE Good(i + 1)
  <2>1. PICK w \in Seq(B) : out[n + i] = out[n] \o w
    BY <1>3
  <2>2. PICK m \in 1 .. Len(s) : m = n + (i + 1)
    BY <1>1, <1>3
  <2>3. n + i = m - 1 /\ m - 1 \in 0 .. Len(s)
    BY <2>2
  <2> DEFINE o == out[m - 1]
             c == s[m]
  <2>4. o \in Seq(B) /\ c \in B /\ out[m] = Pushed(o, c, blanks) /\ o = out[n] \o w /\ out[n] \in Seq(B)
    BY <1>1, <2>1, <2>2, <2>3
  <2> HIDE DEF o, c
  <2>5. out[m] = o \/ \E d \in B : out[m] = Append(o, d)
    BY <2>4 DEF Pushed
  <2>6. \A d \in B : Append(o, d) = out[n] \o Append(w, d) /\ Append(w, d) \in Seq(B)
    <3> SUFFICES ASSUME NEW d \in B PROVE Append(o, d) = out[n] \o Append(w, d) /\ Append(w, d) \in Seq(B)
      OBVIOUS
    <3>1. Append(w, d) \in Seq(B)
      BY AppendProperties
    <3> DEFINE v == out[n]
    <3>2. v \in Seq(B) /\ o = v \o w
      BY <2>4
    <3> HIDE DEF v
    <3>a. AppendsInside(v, w, d)
      BY <3>2, ConcatAppend
    <3>3. Append(v \o w, d) = v \o Append(w, d)
      BY <3>a DEF AppendsInside
    <3> QED BY <3>1, <3>2, <3>3 DEF v
  <2>7. \E v \in Seq(B) : out[m] = out[n] \o v
    BY <2>4, <2>5, <2>6
  <2> QED BY <2>2, <2>7
<1> HIDE DEF Good
<1>4. 0 \in T
  BY <1>2
<1>5. ASSUME NEW i \in Nat, i \in T PROVE i + 1 \in T
  <2> SUFFICES ASSUME n + (i + 1) <= Len(s) PROVE Good(i + 1)
    OBVIOUS
  <2>1. n + i <= Len(s)
    BY <1>1
  <2> QED BY <1>3, <1>5, <2>1
<1>6. Nat \subseteq T
  <2> HIDE DEF T
  <2> QED BY <1>4, <1>5, InductionOver
<1>7. PICK m \in Nat : k = n + m
  BY k - n \in Nat
<1>8. Good(m)
  BY <1>1, <1>6, <1>7
<1> QED BY <1>7, <1>8 DEF Good, BeginsWith

\* The positions of a part that a loop over the part has put in its buffer:
\* of a run of blanks the first, and not if the part begins with it.
Kept(y, blanks, m) == {i \in 1 .. m : y[i] \notin blanks \/ (i > 1 /\ y[i - 1] \notin blanks)}

Spaced(y, blanks) == [i \in DOMAIN y |-> IF y[i] \in blanks THEN Space ELSE y[i]]

LEMMA KeptTyped ==
    ASSUME NEW B, Space \in B, NEW blanks, NEW y \in Seq(B), NEW m \in 0 .. Len(y)
    PROVE  Spaced(y, blanks) \in Seq(B) /\ Sift(Spaced(y, blanks), Kept(y, blanks, m)) \in Seq(B)
<1>1. DOMAIN y = 1 .. Len(y) /\ \A i \in 1 .. Len(y) : y[i] \in B
  OBVIOUS
<1> DEFINE z == Spaced(y, blanks)
<1>2. z \in [1 .. Len(y) -> B] /\ DOMAIN z = 1 .. Len(y)
  BY <1>1 DEF Spaced
<1> HIDE DEF z
<1>3. z \in Seq(B)
  BY <1>2, SeqDef
<1>4. Kept(y, blanks, m) \in SUBSET DOMAIN z
  BY <1>2 DEF Kept
<1>5. Sift(z, Kept(y, blanks, m)) \in Seq(B)
  BY <1>3, <1>4, SiftTyped
<1> QED BY <1>3, <1>5 DEF z

\* A part of a text is collapsed in the text as it is on its own, but for the
\* spaces that it may begin with: none if the loop starts with it.
LEMMA CollapsedPart ==
    ASSUME NEW B, Space \in B, NEW blanks, Space \in blanks,
           NEW s \in Seq(B), NEW out, Collapses(out, s, blanks, B),
           NEW y \in Seq(B), NEW a \in Nat, a + Len(y) <= Len(s), \A i \in 1 .. Len(y) : s[a + i] = y[i],
           NEW m \in 0 .. Len(y)
    PROVE  /\ EndsWith(out[a + m], Sift(Spaced(y, blanks), Kept(y, blanks, m)), B)
           /\ out[a] = <<>> => out[a + m] = Sift(Spaced(y, blanks), Kept(y, blanks, m))
<1> DEFINE y1      == Spaced(y, blanks)
           K(i)    == Kept(y, blanks, i)
           G(i)    == Sift(y1, K(i))
           Good(i) == \E u \in Seq(B) : out[a + i] = u \o G(i) /\ (out[a] = <<>> => u = <<>>)
           T       == {i \in Nat : i <= Len(y) => Good(i)}
<1>1. /\ \A i \in 0 .. Len(s) : out[i] \in Seq(B)
      /\ \A i \in 1 .. Len(s) : out[i] = Pushed(out[i - 1], s[i], blanks) /\ s[i] \in B
      /\ Len(s) \in Nat /\ Len(y) \in Nat
  <2>1. Len(s) \in Nat /\ Len(y) \in Nat /\ \A i \in 1 .. Len(s) : s[i] \in B
    OBVIOUS
  <2>2. out \in [0 .. Len(s) -> Seq(B)] /\ \A i \in 1 .. Len(s) : out[i] = Pushed(out[i - 1], s[i], blanks)
    BY DEF Collapses
  <2>3. \A i \in 0 .. Len(s) : out[i] \in Seq(B)
    BY <2>2
  <2> QED BY <2>1, <2>2, <2>3
<1>2. Good(0)
  <2>1. out[a + 0] = out[a] /\ out[a] \in Seq(B)
    BY <1>1
  <2>2. K(0) = {}
    BY DEF Kept
  <2>3. G(0) = <<>>
    BY <2>2, SiftNothing
  <2>4. out[a] \o <<>> = out[a]
    BY <2>1, ConcatEmptySeq
  <2> HIDE DEF G
  <2> QED BY <2>1, <2>3, <2>4
<1>3. ASSUME NEW i \in 0 .. Len(y) PROVE K(i) \subseteq Int /\ IsFiniteSet(K(i)) /\ \A j \in K(i) : j \in 1 .. i /\ y1[j] \in B
  <2>1. K(i) \subseteq 1 .. i /\ i \in Int
    BY DEF Kept
  <2>2. IsFiniteSet(K(i))
    <3>1. IsFiniteSet(1 .. i)
      BY FS_Interval
    <3> HIDE DEF K
    <3> QED BY <2>1, <3>1, FS_Subset
  <2>3. \A j \in 1 .. i : y1[j] \in B
    BY <1>1 DEF Spaced
  <2> HIDE DEF K, y1
  <2> QED BY <2>1, <2>2, <2>3
<1>4. ASSUME NEW i \in Nat, i + 1 <= Len(y), Good(i) PROVE Good(i + 1)
  <2>1. PICK j \in 1 .. Len(y) : j = i + 1
    BY <1>1, <1>4
  <2>2. PICK k \in 1 .. Len(s) : k = a + j
    BY <1>1, <2>1
  <2>3. PICK u \in Seq(B) : out[a + i] = u \o G(i) /\ (out[a] = <<>> => u = <<>>)
    BY <1>4
  <2>4. /\ i \in 0 .. Len(y) /\ a + i = k - 1 /\ k - 1 \in 0 .. Len(s) /\ a + (i + 1) = k
        /\ s[k] = y[j] /\ y[j] \in B /\ y1[j] = IF y[j] \in blanks THEN Space ELSE y[j]
    BY <1>1, <2>1, <2>2 DEF Spaced
  <2> DEFINE o == out[k - 1]
             r == out[k]
             c == y[j]
             g == G(i)
  <2>5. o \in Seq(B) /\ c \in B /\ r = Pushed(o, c, blanks) /\ o = u \o g
    BY <1>1, <2>2, <2>3, <2>4
  <2>6. K(i) \subseteq Int /\ IsFiniteSet(K(i)) /\ (\A x \in K(i) : x < j /\ y1[x] \in B) /\ y1[j] \in B /\ j \in Int
    <3>1. \A x \in K(i) : x \in 1 .. i /\ y1[x] \in B
      BY <1>3, <2>4
    <3>2. \A x \in 1 .. i : x < j
      BY <2>1
    <3>3. K(i) \subseteq Int /\ IsFiniteSet(K(i))
      BY <1>3, <2>4
    <3>4. y1[j] \in B /\ j \in Int
      BY <2>4
    <3> HIDE DEF K, y1
    <3> QED BY <3>1, <3>2, <3>3, <3>4
  <2>7. g \in Seq(B) /\ Sift(y1, K(i) \cup {j}) = Append(g, y1[j])
    <3> HIDE DEF K, y1
    <3> QED BY <2>6, SiftAppend
  <2>8. K(i + 1) = IF c \notin blanks \/ (j > 1 /\ y[j - 1] \notin blanks) THEN K(i) \cup {j} ELSE K(i)
    <3>1. 1 .. i + 1 = (1 .. i) \cup {j} /\ j \notin 1 .. i
      BY <2>1
    <3> QED BY <2>1, <3>1 DEF Kept
  <2>9. j > 1 => o = <<>> \/ Last(o) = Space \/ (y[j - 1] \notin blanks /\ o # <<>> /\ Last(o) = y[j - 1])
    <3> SUFFICES ASSUME j > 1 PROVE o = <<>> \/ Last(o) = Space \/ (y[j - 1] \notin blanks /\ o # <<>> /\ Last(o) = y[j - 1])
      OBVIOUS
    <3>1. PICK h \in 1 .. Len(s) : h = k - 1
      BY <1>1, <2>1, <2>2
    <3>2. h - 1 \in 0 .. Len(s) /\ h = a + (j - 1) /\ j - 1 \in 1 .. Len(y)
      BY <1>1, <2>1, <2>2, <3>1
    <3>3. s[h] = y[j - 1] /\ s[h] \in B
      BY <1>1, <3>2
    <3>4. out[h - 1] \in Seq(B) /\ out[h] = Pushed(out[h - 1], s[h], blanks)
      BY <1>1, <3>2
    <3>5. h = k - 1 /\ o = out[h]
      BY <3>1
    <3> HIDE DEF o
    <3> QED BY <3>3, <3>4, <3>5, LastOfAppend DEF Pushed
  <2>10. j > 1 /\ y[j - 1] \notin blanks => o # <<>> /\ Last(o) # Space
    <3> SUFFICES ASSUME j > 1, y[j - 1] \notin blanks PROVE o # <<>> /\ Last(o) # Space
      OBVIOUS
    <3>1. PICK h \in 1 .. Len(s) : h = k - 1
      BY <1>1, <2>1, <2>2
    <3>2. h - 1 \in 0 .. Len(s) /\ h = a + (j - 1) /\ j - 1 \in 1 .. Len(y)
      BY <1>1, <2>1, <2>2, <3>1
    <3>3. s[h] = y[j - 1] /\ s[h] \in B
      BY <1>1, <3>2
    <3>4. out[h - 1] \in Seq(B) /\ out[h] = Pushed(out[h - 1], s[h], blanks)
      BY <1>1, <3>2
    <3> DEFINE v == out[h - 1]
    <3>5. v \in Seq(B) /\ out[h] = Append(v, s[h]) /\ s[h] \in B
      BY <3>3, <3>4 DEF Pushed
    <3> HIDE DEF v
    <3> DEFINE c1 == s[h]
    <3>a. c1 \in B /\ c1 = y[j - 1] /\ out[h] = Append(v, c1)
      BY <3>3, <3>5
    <3> HIDE DEF c1
    <3>b. Append(v, c1) # <<>> /\ Last(Append(v, c1)) = c1
      BY <3>5, <3>a, LastOfAppend
    <3>6. out[h] # <<>> /\ Last(out[h]) = y[j - 1]
      BY <3>a, <3>b
    <3> QED BY <3>1, <3>6
  <2>11. j > 1 /\ y[j - 1] \in blanks => o = <<>> \/ Last(o) = Space
    BY <2>9
  <2> HIDE DEF K, G, y1, g, o, c
  <2>x. /\ c \notin blanks => r = Append(o, c)
        /\ c \in blanks /\ (o = <<>> \/ Last(o) = Space) => r = o
        /\ c \in blanks /\ ~(o = <<>> \/ Last(o) = Space) => r = Append(o, Space)
        /\ r \in Seq(B)
    <3>1. Append(o, c) \in Seq(B) /\ Append(o, Space) \in Seq(B)
      BY <2>5, AppendProperties
    <3> QED BY <2>5, <3>1 DEF Pushed
  <2> HIDE DEF r
  <2>y. /\ G(i + 1) = IF c \notin blanks \/ (j > 1 /\ y[j - 1] \notin blanks) THEN Append(g, y1[j]) ELSE g
        /\ y1[j] = IF c \in blanks THEN Space ELSE c
    BY <2>4, <2>7, <2>8 DEF G, g, c
  <2>z. \A d \in B : Append(o, d) = u \o Append(g, d)
    <3> SUFFICES ASSUME NEW d \in B PROVE Append(o, d) = u \o Append(g, d)
      OBVIOUS
    <3>a. AppendsInside(u, g, d)
      BY <2>7, ConcatAppend
    <3>1. Append(u \o g, d) = u \o Append(g, d)
      BY <3>a DEF AppendsInside
    <3> QED BY <2>5, <3>1
  <2>w. ASSUME NEW v \in Seq(B), r = v \o G(i + 1), out[a] = <<>> => v = <<>>
        PROVE  \E v2 \in Seq(B) : out[a + (i + 1)] = v2 \o G(i + 1) /\ (out[a] = <<>> => v2 = <<>>)
    BY <2>4, <2>w DEF r
  <2>12. CASE c \notin blanks
    <3>1. r = u \o G(i + 1)
      BY <2>5, <2>x, <2>y, <2>z, <2>12
    <3> QED BY <2>3, <2>w, <3>1
  <2>13. CASE c \in blanks /\ j > 1 /\ y[j - 1] \notin blanks
    <3>1. r = u \o G(i + 1)
      BY <2>x, <2>y, <2>z, <2>10, <2>13
    <3> QED BY <2>3, <2>w, <3>1
  <2>14. CASE c \in blanks /\ j > 1 /\ y[j - 1] \in blanks
    <3>1. r = u \o G(i + 1)
      BY <2>5, <2>x, <2>y, <2>11, <2>14
    <3> QED BY <2>3, <2>w, <3>1
  <2>15. CASE c \in blanks /\ ~(j > 1)
    <3>1. i = 0
      BY <2>1, <2>15
    <3>2. K(i + 1) = {}
      <4>1. K(0) = {}
        BY DEF K, Kept
      <4> QED BY <2>8, <2>15, <3>1, <4>1
    <3>3. G(i + 1) = <<>>
      BY <3>2, SiftNothing DEF G
    <3>4. r \in Seq(B) /\ r \o <<>> = r
      BY <2>x, ConcatEmptySeq
    <3>5. out[a] = <<>> => r = <<>>
      <4>1. k - 1 = a
        BY <2>4, <3>1
      <4> QED BY <2>x, <2>15, <4>1 DEF o
    <3> QED BY <2>w, <3>3, <3>4, <3>5
  <2> QED BY <2>12, <2>13, <2>14, <2>15
<1> HIDE DEF Good
<1>5. 0 \in T
  BY <1>2
<1>6. ASSUME NEW i \in Nat, i \in T PROVE i + 1 \in T
  <2> SUFFICES ASSUME i + 1 <= Len(y) PROVE Good(i + 1)
    OBVIOUS
  <2>1. i <= Len(y)
    BY <1>1
  <2> QED BY <1>4, <1>6, <2>1
<1>7. Nat \subseteq T
  <2> HIDE DEF T
  <2> QED BY <1>5, <1>6, InductionOver
<1>8. Good(m)
  BY <1>1, <1>7
<1>9. PICK u \in Seq(B) : out[a + m] = u \o G(m) /\ (out[a] = <<>> => u = <<>>)
  BY <1>8 DEF Good
<1>10. <<>> \o G(m) = G(m)
  <2>1. G(m) \in Seq(B)
    BY KeptTyped
  <2> HIDE DEF G
  <2> QED BY <2>1, ConcatEmptySeq
<1> QED BY <1>9, <1>10 DEF G, K, y1, EndsWith

LEMMA TrimmedProperties ==
    ASSUME NEW B, NEW r \in Seq(B)
    PROVE  /\ Trimmed(r) \in Seq(B) /\ Len(Trimmed(r)) \in Nat /\ Len(Trimmed(r)) <= Len(r) /\ Len(r) <= Len(Trimmed(r)) + 1
           /\ r = <<>> \/ Last(r) # Space => Trimmed(r) = r
           /\ \A i \in 1 .. Len(Trimmed(r)) : Trimmed(r)[i] = r[i]
<1>1. CASE r # <<>> /\ Last(r) = Space
  <2> DEFINE n == Len(r) - 1
             f == SubSeq(r, 1, n)
  <2>1. Len(r) \in Nat \ {0} /\ n \in Nat /\ n \in Int /\ 1 \in Int /\ \A i \in 1 .. n : r[i] \in B
    BY <1>1
  <2> HIDE DEF n
  <2>2. f \in Seq(B) /\ Len(f) = (IF 1 <= n THEN n - 1 + 1 ELSE 0) /\ \A i \in 1 .. n - 1 + 1 : f[i] = r[1 + i - 1]
    BY <2>1, SubSeqProperties
  <2> HIDE DEF f
  <2>3. f \in Seq(B) /\ Len(f) = n /\ \A i \in 1 .. n : f[i] = r[i]
    BY <2>1, <2>2
  <2>4. Trimmed(r) = f /\ Len(r) = n + 1
    BY <1>1, <2>1 DEF Trimmed, Front, f, n
  <2> QED BY <1>1, <2>1, <2>3, <2>4
<1>2. CASE ~(r # <<>> /\ Last(r) = Space)
  BY <1>2 DEF Trimmed
<1> QED BY <1>1, <1>2

\* A part of a text that ends with no blank is found in what the text is
\* collapsed to, collapsed like the text and without a space at its ends.
LEMMA CollapseFinds ==
    ASSUME NEW B, Space \in B, NEW blanks, Space \in blanks,
           NEW s \in Seq(B), NEW y \in Seq(B), NEW a \in Nat,
           a + Len(y) <= Len(s), \A i \in 1 .. Len(y) : s[a + i] = y[i],
           NEW m \in 1 .. Len(y), y[m] \notin blanks,
           NEW g, g = Sift(Spaced(y, blanks), Kept(y, blanks, m)), g \in Seq(B)
    PROVE  Occurrences(g, CollapseBlanks(s, blanks)) # {}
<1>1. PICK out : Collapses(out, s, blanks, B) /\ CollapseBlanks(s, blanks) = Trimmed(out[Len(s)])
  BY CollapseUnfolds
<1>2. PICK L \in Nat : L = Len(s)
  OBVIOUS
<1>3. PICK p \in 1 .. L : p = a + m
  BY <1>2
<1>4. m \in 0 .. Len(y)
  OBVIOUS
<1>a. EndsWith(out[a + m], g, B)
  BY <1>1, <1>4, CollapsedPart
<1>5. PICK u \in Seq(B) : out[a + m] = u \o g
  BY <1>a DEF EndsWith
<1>b. BeginsWith(out[L], out[p], B)
  <2>1. p \in 0 .. Len(s) /\ L \in p .. Len(s)
    BY <1>2
  <2> QED BY <1>1, <2>1, CollapseGrows
<1>6. PICK w \in Seq(B) : out[L] = out[p] \o w
  BY <1>b DEF BeginsWith
<1>7. out[p] # <<>> /\ Last(out[p]) # Space /\ out[p] \in Seq(B) /\ out[L] \in Seq(B)
  <2>1. p \in 1 .. Len(s) /\ p - 1 \in 0 .. Len(s) /\ p \in 0 .. Len(s) /\ L \in 0 .. Len(s)
    BY <1>2
  <2>2. s[p] = y[m] /\ y[m] \in B
    BY <1>3
  <2>3. out[p - 1] \in Seq(B) /\ out[p] = Pushed(out[p - 1], s[p], blanks) /\ out[p] \in Seq(B) /\ out[L] \in Seq(B)
    BY <1>1, <2>1 DEF Collapses
  <2> DEFINE v == out[p - 1]
  <2>4. v \in Seq(B) /\ out[p] = Append(v, y[m])
    BY <2>2, <2>3 DEF Pushed
  <2> HIDE DEF v
  <2>5. out[p] # <<>> /\ Last(out[p]) = y[m]
    BY <2>2, <2>4, LastOfAppend
  <2> QED BY <2>3, <2>5
<1> DEFINE r == out[L]
           q == out[p]
           t == Trimmed(r)
<1>8. q = u \o g /\ r = q \o w /\ r \in Seq(B) /\ q \in Seq(B) /\ q # <<>> /\ Last(q) # Space /\ CollapseBlanks(s, blanks) = t
  BY <1>1, <1>2, <1>3, <1>5, <1>6, <1>7
<1> HIDE DEF r, q
<1>9. /\ Len(u) \in Nat /\ Len(g) \in Nat /\ Len(w) \in Nat /\ Len(q) = Len(u) + Len(g) /\ Len(r) = Len(q) + Len(w)
      /\ \A i \in 1 .. Len(q) : r[i] = q[i]
      /\ \A k \in 1 .. Len(g) : q[Len(u) + k] = g[k]
  <2>1. Len(q) = Len(u) + Len(g) /\ \A k \in 1 .. Len(g) : q[Len(u) + k] = g[k]
    <3>1. Len(u \o g) = Len(u) + Len(g) /\ \A k \in 1 .. Len(g) : (u \o g)[Len(u) + k] = g[k]
      BY ConcatProperties
    <3> QED BY <1>8, <3>1
  <2>2. Len(r) = Len(q) + Len(w) /\ \A i \in 1 .. Len(q) : r[i] = q[i]
    BY <1>8, ConcatProperties
  <2> QED BY <2>1, <2>2
<1>10. t \in Seq(B) /\ Len(t) \in Nat /\ Len(r) <= Len(t) + 1 /\ (Last(r) # Space => t = r) /\ \A i \in 1 .. Len(t) : t[i] = r[i]
  BY <1>8, TrimmedProperties
<1> HIDE DEF t
<1>11. Len(q) <= Len(t)
  <2>1. CASE Len(w) = 0
    <3>1. Last(r) = Last(q)
      BY <1>8, <1>9, <2>1 DEF Last
    <3> QED BY <1>8, <1>9, <1>10, <2>1, <3>1
  <2>2. CASE Len(w) # 0
    BY <1>9, <1>10, <2>2
  <2> QED BY <2>1, <2>2
<1>12. \A k \in 1 .. Len(g) : t[Len(u) + k] = g[k]
  <2> SUFFICES ASSUME NEW k \in 1 .. Len(g) PROVE t[Len(u) + k] = g[k]
    OBVIOUS
  <2>1. PICK i \in 1 .. Len(q) : i = Len(u) + k
    BY <1>9
  <2>2. t[i] = r[i] /\ r[i] = q[i]
    <3>1. i \in 1 .. Len(t)
      BY <1>9, <1>10, <1>11
    <3> QED BY <1>9, <1>10, <3>1
  <2> QED BY <1>9, <2>1, <2>2
<1>13. Len(u) \in 0 .. Len(t) - Len(g) /\ DOMAIN g = 1 .. Len(g)
  BY <1>9, <1>10, <1>11
<1>14. Len(u) \in Occurrences(g, t)
  BY <1>12, <1>13 DEF Occurrences
<1> QED BY <1>8, <1>14

\* The last position that is not blank.
LEMMA LastSolid ==
    ASSUME NEW B, NEW s \in Seq(B), NEW blanks
    PROVE  \/ \A i \in 1 .. Len(s) : s[i] \in blanks
           \/ \E m \in 1 .. Len(s) : s[m] \notin blanks /\ \A i \in 1 .. Len(s) : i > m => s[i] \in blanks
<1> DEFINE F == {i \in 1 .. Len(s) : s[i] \notin blanks}
<1>1. PICK n \in Int : n = Len(s)
  <2>1. Len(s) \in Int
    OBVIOUS
  <2> QED BY <2>1
<1>2. F \in SUBSET Int /\ \A k \in F : k <= n
  BY <1>1
<1>3. CASE F = {}
  BY <1>3
<1>4. CASE F # {}
  <2>1. PICK m : m \in F /\ \A k \in F : k <= m
    <3> HIDE DEF F
    <3> QED BY <1>2, <1>4, MaxOf
  <2> QED BY <1>1, <2>1
<1> QED BY <1>3, <1>4

\* What a text is collapsed to is what the loop keeps of it up to its last
\* character that is not blank.
LEMMA CollapseKeeps ==
    ASSUME NEW B, Space \in B, NEW blanks, Space \in blanks, NEW s \in Seq(B)
    PROVE  \/ CollapseBlanks(s, blanks) = <<>>
           \/ \E m \in 1 .. Len(s) : /\ s[m] \notin blanks
                                     /\ CollapseBlanks(s, blanks) = Sift(Spaced(s, blanks), Kept(s, blanks, m))
                                     /\ CollapseBlanks(s, blanks) \in Seq(B)
<1> DEFINE G(n) == Sift(Spaced(s, blanks), Kept(s, blanks, n))
<1>1. PICK out : Collapses(out, s, blanks, B) /\ CollapseBlanks(s, blanks) = Trimmed(out[Len(s)])
  BY CollapseUnfolds
<1>2. PICK L \in Nat : L = Len(s)
  OBVIOUS
<1>3. \A n \in 0 .. L : out[n] = G(n) /\ G(n) \in Seq(B)
  <2> SUFFICES ASSUME NEW n \in 0 .. L PROVE out[n] = G(n) /\ G(n) \in Seq(B)
    OBVIOUS
  <2>1. n \in 0 .. Len(s) /\ 0 \in Nat /\ 0 + Len(s) <= Len(s) /\ (\A i \in 1 .. Len(s) : s[0 + i] = s[i]) /\ 0 + n = n
    BY <1>2
  <2>2. out[0] = <<>>
    BY <1>1 DEF Collapses
  <2>3. out[0] = <<>> => out[0 + n] = G(n)
    BY <1>1, <2>1, CollapsedPart
  <2>4. G(n) \in Seq(B)
    BY <2>1, KeptTyped
  <2> HIDE DEF G
  <2> QED BY <2>1, <2>2, <2>3, <2>4
<1>4. CASE \A i \in 1 .. L : s[i] \in blanks
  <2>1. Kept(s, blanks, L) = {}
    <3>1. \A i \in 1 .. L : i > 1 => i - 1 \in 1 .. L
      BY <1>2
    <3> QED BY <1>4, <3>1 DEF Kept
  <2>2. G(L) = <<>>
    BY <2>1, SiftNothing
  <2>3. out[L] = <<>>
    BY <1>2, <1>3, <2>2
  <2> QED BY <1>1, <1>2, <2>3 DEF Trimmed
<1>5. ASSUME NEW m \in 1 .. L, s[m] \notin blanks, \A i \in 1 .. L : i > m => s[i] \in blanks
      PROVE  CollapseBlanks(s, blanks) = G(m)
  <2> DEFINE K(n) == Kept(s, blanks, n)
  <2>1. out[m] \in Seq(B) /\ out[m] # <<>> /\ Last(out[m]) # Space
    <3>1. m \in 0 .. Len(s) /\ m - 1 \in 0 .. Len(s) /\ m \in 1 .. Len(s) /\ s[m] \in B
      BY <1>2
    <3>2. out[m - 1] \in Seq(B) /\ out[m] = Pushed(out[m - 1], s[m], blanks)
      BY <1>1, <3>1 DEF Collapses
    <3> DEFINE v == out[m - 1]
               c == s[m]
    <3>3. v \in Seq(B) /\ c \in B /\ c # Space /\ out[m] = Append(v, c)
      BY <1>5, <3>1, <3>2 DEF Pushed
    <3> HIDE DEF v, c
    <3> QED BY <3>3, LastOfAppend
  <2>2. CASE m = L
    <3>1. Trimmed(out[m]) = out[m]
      BY <2>1, TrimmedProperties
    <3> QED BY <1>1, <1>2, <1>3, <2>2, <3>1
  <2>3. CASE m # L
    <3>1. PICK i \in 1 .. L : i = m + 1
      BY <1>2, <2>3
    <3>2. K(L) = K(m) \cup {i}
      <4>1. \A j \in 1 .. L : j \in K(L) <=> j \in K(m) \/ j = i
        <5> SUFFICES ASSUME NEW j \in 1 .. L PROVE j \in K(L) <=> j \in K(m) \/ j = i
          OBVIOUS
        <5>1. CASE j <= m
          BY <1>2, <3>1, <5>1 DEF Kept
        <5>2. CASE j = i
          BY <1>2, <1>5, <3>1, <5>2 DEF Kept
        <5>3. CASE j > i
          <6>1. j - 1 \in 1 .. L /\ j - 1 > m /\ j > m
            BY <3>1, <5>3
          <6> QED BY <1>5, <3>1, <5>3, <6>1 DEF Kept
        <5> QED BY <3>1, <5>1, <5>2, <5>3
      <4>2. K(L) \subseteq 1 .. L /\ K(m) \subseteq 1 .. L
        BY <1>2 DEF Kept
      <4> HIDE DEF K
      <4> QED BY <4>1, <4>2
    <3> DEFINE y1 == Spaced(s, blanks)
    <3>3. /\ K(m) \subseteq Int /\ IsFiniteSet(K(m)) /\ i \in Int /\ (\A j \in K(m) : j < i)
          /\ y1[i] = Space /\ \A j \in K(m) : y1[j] \in B
      <4>1. K(m) \in SUBSET (1 .. m)
        BY DEF Kept
      <4>2. IsFiniteSet(1 .. m) /\ \A j \in 1 .. m : j < i
        BY <3>1, FS_Interval
      <4>3. IsFiniteSet(K(m))
        <5> HIDE DEF K
        <5> QED BY <4>1, <4>2, FS_Subset
      <4>4. y1[i] = Space
        BY <1>2, <1>5, <3>1 DEF Spaced
      <4>5. \A j \in 1 .. m : y1[j] \in B
        <5>1. \A j \in 1 .. m : j \in DOMAIN s /\ s[j] \in B
          BY <1>2
        <5> QED BY <5>1 DEF Spaced
      <4> HIDE DEF K, y1
      <4> QED BY <4>1, <4>2, <4>3, <4>4, <4>5
    <3>4. Sift(y1, K(m) \cup {i}) = Append(Sift(y1, K(m)), Space)
      <4> HIDE DEF K, y1
      <4>1. y1[i] \in B
        BY <3>3
      <4>2. Sift(y1, K(m) \cup {i}) = Append(Sift(y1, K(m)), y1[i])
        BY <3>3, <4>1, SiftAppend
      <4> QED BY <3>3, <4>2
    <3>5. out[L] = Append(out[m], Space)
      <4>1. out[L] = Sift(y1, K(L)) /\ out[m] = Sift(y1, K(m))
        BY <1>2, <1>3
      <4> HIDE DEF K, y1
      <4> QED BY <3>2, <3>4, <4>1
    <3> DEFINE o == out[m]
               r == out[L]
    <3>6. o \in Seq(B) /\ r = Append(o, Space) /\ Trimmed(r) = CollapseBlanks(s, blanks)
      BY <1>1, <1>2, <2>1, <3>5
    <3> HIDE DEF o, r
    <3>7. r # <<>> /\ Last(r) = Space /\ Front(r) = o
      <4>1. Append(o, Space) # <<>> /\ Last(Append(o, Space)) = Space
        BY <3>6, LastOfAppend
      <4>2. Front(Append(o, Space)) = o
        BY <3>6, AppendProperties DEF Front
      <4> QED BY <3>6, <4>1, <4>2
    <3>8. CollapseBlanks(s, blanks) = o
      BY <3>6, <3>7 DEF Trimmed
    <3> QED BY <1>2, <1>3, <3>8 DEF o
  <2> QED BY <2>2, <2>3
<1> HIDE DEF G
<1>6. CASE \E m \in 1 .. L : s[m] \notin blanks /\ \A i \in 1 .. L : i > m => s[i] \in blanks
  <2>1. PICK m \in 1 .. L : s[m] \notin blanks /\ \A i \in 1 .. L : i > m => s[i] \in blanks
    BY <1>6
  <2>2. CollapseBlanks(s, blanks) = G(m) /\ G(m) \in Seq(B)
    BY <1>3, <1>5, <2>1
  <2> QED BY <1>2, <2>1, <2>2 DEF G
<1> QED BY <1>2, <1>4, <1>6, LastSolid

-----------------------------------------------------------------------------
(* Pages.                                                                  *)

\* The form feeds among the first n characters.
Feeds(text, n) == Cardinality({j \in 1 .. n : text[j] = FormFeed})

LEMMA FeedsStep ==
    ASSUME NEW text, NEW n \in Nat
    PROVE  /\ Feeds(text, 0) = 0 /\ Feeds(text, n) \in Nat
           /\ Feeds(text, n + 1) = Feeds(text, n) + (IF text[n + 1] = FormFeed THEN 1 ELSE 0)
<1> DEFINE S(k) == {j \in 1 .. k : text[j] = FormFeed}
<1>1. IsFiniteSet(S(n)) /\ Cardinality(S(n)) \in Nat
  <2>1. IsFiniteSet(1 .. n) /\ S(n) \subseteq 1 .. n
    BY FS_Interval
  <2> HIDE DEF S
  <2> QED BY <2>1, FS_Subset, FS_CardinalityType
<1>2. S(0) = {} /\ Cardinality(S(0)) = 0
  <2>1. S(0) = {}
    OBVIOUS
  <2> HIDE DEF S
  <2> QED BY <2>1, FS_EmptySet
<1>3. CASE text[n + 1] = FormFeed
  <2>1. S(n + 1) = S(n) \cup {n + 1} /\ n + 1 \notin S(n)
    <3>1. 1 .. n + 1 = (1 .. n) \cup {n + 1}
      OBVIOUS
    <3> QED BY <3>1, <1>3
  <2>2. Cardinality(S(n + 1)) = Cardinality(S(n)) + 1
    <3> HIDE DEF S
    <3> QED BY <1>1, <2>1, FS_AddElement
  <2> QED BY <1>1, <1>2, <1>3, <2>2 DEF Feeds
<1>4. CASE text[n + 1] # FormFeed
  <2>1. S(n + 1) = S(n)
    <3>1. 1 .. n + 1 = (1 .. n) \cup {n + 1}
      OBVIOUS
    <3> QED BY <3>1, <1>4
  <2>2. Cardinality(S(n + 1)) = Cardinality(S(n))
    <3> HIDE DEF S
    <3> QED BY <2>1
  <2> QED BY <1>1, <1>2, <1>4, <2>2 DEF Feeds
<1> QED BY <1>3, <1>4

LEMMA FeedsGrow ==
    ASSUME NEW text, NEW m \in Nat, NEW n \in Nat, m <= n
    PROVE  Feeds(text, m) <= Feeds(text, n)
<1> DEFINE T == {k \in Nat : m <= k => Feeds(text, m) <= Feeds(text, k)}
<1>0. Feeds(text, m) \in Nat
  BY FeedsStep
<1>1. 0 \in T
  <2>1. m <= 0 => m = 0
    OBVIOUS
  <2> QED BY <1>0, <2>1
<1>2. ASSUME NEW k \in Nat, k \in T PROVE k + 1 \in T
  <2>1. Feeds(text, k) \in Nat /\ Feeds(text, k + 1) >= Feeds(text, k) /\ Feeds(text, k + 1) \in Nat
    BY FeedsStep
  <2>2. m <= k + 1 => m <= k \/ m = k + 1
    OBVIOUS
  <2> QED BY <1>0, <1>2, <2>1, <2>2
<1>3. Nat \subseteq T
  <2> HIDE DEF T
  <2> QED BY <1>1, <1>2, InductionOver
<1> QED BY <1>3

\* A set of positions without a gap is an initial stretch.
LEMMA InitialStretch ==
    ASSUME NEW n \in Nat, NEW X \in SUBSET (1 .. n), \A i \in X : \A j \in 1 .. i : j \in X,
           NEW c, c = Cardinality(X)
    PROVE  c \in 0 .. n /\ X = 1 .. c /\ IsFiniteSet(X)
<1>1. CASE X = {}
  BY <1>1, FS_EmptySet
<1>2. CASE X # {}
  <2>1. X \in SUBSET Int /\ \A k \in X : k <= n
    OBVIOUS
  <2>2. Max(X) \in X /\ \A k \in X : k <= Max(X)
    BY <1>2, <2>1, MaxOf
  <2>3. PICK m \in X : \A k \in X : k <= m
    BY <2>2
  <2>4. m \in 1 .. n /\ X = 1 .. m
    <3>1. m \in 1 .. n /\ \A j \in 1 .. n : j \in X <=> j \in 1 .. m
      BY <2>3
    <3>2. X \subseteq 1 .. n /\ 1 .. m \subseteq 1 .. n
      BY <3>1
    <3> QED BY <3>1, <3>2
  <2>5. IsFiniteSet(1 .. m) /\ Cardinality(1 .. m) = m
    BY <2>4, FS_Interval
  <2> QED BY <2>4, <2>5
<1> QED BY <1>1, <1>2

\* Where page k begins in the text, as the number of characters before it.
PageFrom(text, k) == Cardinality({i \in DOMAIN text : PageAt(text, i) < k})

\* Page k is the characters from a on, there are k - 1 form feeds before it
\* and none in it, and it ends at a form feed or the end of the text.
IsPage(pg, text, k, a) ==
    /\ pg \in Seq(Char) /\ a \in Nat /\ a + Len(pg) <= Len(text)
    /\ \A i \in 1 .. Len(pg) : pg[i] = text[a + i] /\ pg[i] # FormFeed
    /\ \A n \in 0 .. Len(pg) : Feeds(text, a + n) = k - 1
    /\ \A i \in DOMAIN text : PageAt(text, i) = k /\ text[i] # FormFeed => i \in a + 1 .. a + Len(pg)

LEMMA SplitPagesProperties ==
    ASSUME NEW text \in Seq(Char), text # <<>>
    PROVE  /\ PageAt(text, Len(text)) \in Nat \ {0} /\ DOMAIN SplitPages(text) = 1 .. PageAt(text, Len(text))
           /\ SplitPages(text) \in Seq(Seq(Char))
           /\ \A k \in 1 .. PageAt(text, Len(text)) : IsPage(SplitPages(text)[k], text, k, PageFrom(text, k))
<1> DEFINE L         == Len(text)
           On(k)     == {i \in DOMAIN text : PageAt(text, i) = k}
           Before(k) == {i \in DOMAIN text : PageAt(text, i) < k}
           Chars(k)  == {i \in On(k) : text[i] # FormFeed}
           Page(k)   == SubSeq(text, Cardinality(Before(k)) + 1, Cardinality(Before(k)) + Cardinality(Chars(k)))
           N         == PageAt(text, Len(text))
           F(n)      == Feeds(text, n)
<1>1. SplitPages(text) = [k \in 1 .. N |-> Page(k)]
  BY DEF SplitPages
<1>2. L \in Nat \ {0} /\ DOMAIN text = 1 .. L /\ \A i \in 1 .. L : text[i] \in Char
  OBVIOUS
<1>3. \A n \in Nat : F(n) \in Nat /\ F(n + 1) = F(n) + (IF text[n + 1] = FormFeed THEN 1 ELSE 0)
  BY FeedsStep
<1>4. F(0) = 0
  BY FeedsStep
<1>5. \A i \in 1 .. L : i - 1 \in Nat /\ PageAt(text, i) = F(i - 1) + 1
  BY DEF PageAt, Feeds
<1>6. \A m, n \in Nat : m <= n => F(m) <= F(n)
  BY FeedsGrow
<1>7. N \in Nat \ {0} /\ N = F(L - 1) + 1
  <2>1. N = PageAt(text, L)
    OBVIOUS
  <2> HIDE DEF F, L, N
  <2>2. L \in 1 .. L /\ L - 1 \in Nat
    BY <1>2
  <2>3. N = F(L - 1) + 1
    BY <1>5, <2>1, <2>2
  <2>4. F(L - 1) \in Nat
    BY <1>3, <2>2
  <2> QED BY <2>3, <2>4
<1> HIDE DEF L, F, N
<1>8. ASSUME NEW k \in 1 .. N PROVE IsPage(Page(k), text, k, Cardinality(Before(k)))
  <2> DEFINE X == Before(k)
             Z == Before(k) \cup Chars(k)
             a == Cardinality(X)
             z == Cardinality(Z)
  <2>1. X \in SUBSET (1 .. L) /\ Z \in SUBSET (1 .. L) /\ X \cap Chars(k) = {}
    <3>1. X \in SUBSET (1 .. L) /\ Z \in SUBSET (1 .. L)
      BY <1>2
    <3>2. \A i \in 1 .. L : ~(PageAt(text, i) < k /\ PageAt(text, i) = k)
      <4>1. \A i \in 1 .. L : PageAt(text, i) \in Int
        <5> SUFFICES ASSUME NEW i \in 1 .. L PROVE PageAt(text, i) \in Int
          OBVIOUS
        <5>1. i - 1 \in Nat
          BY <1>2
        <5>2. F(i - 1) \in Nat
          BY <1>3, <5>1
        <5> QED BY <1>5, <5>2
      <4> QED BY <4>1
    <3> QED BY <1>2, <3>1, <3>2
  <2>2. \A i \in 1 .. L : /\ i \in X <=> F(i - 1) + 1 < k
                          /\ i \in Z <=> F(i - 1) + 1 < k \/ (F(i - 1) + 1 = k /\ text[i] # FormFeed)
                          /\ i \in Chars(k) <=> F(i - 1) + 1 = k /\ text[i] # FormFeed
    BY <1>2, <1>5
  <2>3. ASSUME NEW i \in 1 .. L, NEW j \in 1 .. i
        PROVE  /\ j \in 1 .. L /\ F(j - 1) <= F(i - 1) /\ F(j - 1) \in Nat /\ F(i - 1) \in Nat
               /\ j < i /\ text[j] = FormFeed => F(j - 1) + 1 <= F(i - 1)
    <3>1. j \in 1 .. L /\ j - 1 \in Nat /\ i - 1 \in Nat /\ j - 1 <= i - 1 /\ L \in Nat
      BY <1>2
    <3>2. F(j - 1) <= F(i - 1) /\ F(j - 1) \in Nat /\ F(i - 1) \in Nat
      BY <1>3, <1>6, <3>1
    <3>3. j < i /\ text[j] = FormFeed => F(j - 1) + 1 <= F(i - 1)
      <4> SUFFICES ASSUME j < i, text[j] = FormFeed PROVE F(j - 1) + 1 <= F(i - 1)
        OBVIOUS
      <4>1. PICK m \in Nat : m = j - 1
        BY <3>1
      <4>a. j = m + 1
        BY <3>1, <4>1
      <4>b. F(m + 1) = F(m) + 1
        BY <1>3, <4>a
      <4>2. j = m + 1 /\ F(m + 1) = F(m) + 1
        BY <4>a, <4>b
      <4>3. j \in Nat /\ j <= i - 1
        BY <3>1
      <4>4. F(j) <= F(i - 1)
        BY <1>6, <3>1, <4>3
      <4> QED BY <4>1, <4>2, <4>4
    <3> QED BY <3>1, <3>2, <3>3
  <2>4. \A i \in X : \A j \in 1 .. i : j \in X
    <3> SUFFICES ASSUME NEW i \in X, NEW j \in 1 .. i PROVE j \in X
      OBVIOUS
    <3>1. i \in 1 .. L
      BY <2>1
    <3> HIDE DEF X, Before
    <3>2. j \in 1 .. L /\ F(j - 1) <= F(i - 1) /\ F(j - 1) \in Nat /\ F(i - 1) \in Nat
      BY <2>3, <3>1
    <3>3. F(i - 1) + 1 < k
      BY <2>2, <3>1
    <3>4. F(j - 1) + 1 < k
      BY <3>2, <3>3
    <3> QED BY <2>2, <3>2, <3>4
  <2>5. \A i \in Z : \A j \in 1 .. i : j \in Z
    <3> SUFFICES ASSUME NEW i \in Z, NEW j \in 1 .. i PROVE j \in Z
      OBVIOUS
    <3>1. i \in 1 .. L
      BY <2>1
    <3> HIDE DEF Z
    <3>2. F(i - 1) + 1 <= k /\ (j = i => j \in Z) /\ k \in Int
      BY <2>2, <2>3, <3>1
    <3>3. CASE j < i
      <4>1. j \in 1 .. L /\ F(j - 1) <= F(i - 1) /\ F(j - 1) \in Nat /\ F(i - 1) \in Nat
            /\ (text[j] = FormFeed => F(j - 1) + 1 <= F(i - 1))
        BY <2>3, <3>1, <3>3
      <4>2. F(j - 1) + 1 < k \/ (F(j - 1) + 1 = k /\ text[j] # FormFeed)
        BY <3>2, <4>1
      <4> QED BY <2>2, <4>1, <4>2
    <3>4. j = i \/ j < i
      BY <1>2, <3>1
    <3> QED BY <3>2, <3>3, <3>4
  <2>6. a \in 0 .. L /\ X = 1 .. a /\ IsFiniteSet(X)
    <3> HIDE DEF Before
    <3> QED BY <1>2, <2>1, <2>4, InitialStretch
  <2>7. z \in 0 .. L /\ Z = 1 .. z /\ IsFiniteSet(Z)
    <3> HIDE DEF Before, Chars
    <3> QED BY <1>2, <2>1, <2>5, InitialStretch
  <2>8. z = a + Cardinality(Chars(k)) /\ Cardinality(Chars(k)) \in Nat
    <3>1. IsFiniteSet(Chars(k))
      BY <2>7, FS_Subset
    <3> HIDE DEF Chars, Before
    <3>2. Cardinality(X \cup Chars(k)) = Cardinality(X) + Cardinality(Chars(k)) - Cardinality(X \cap Chars(k))
      BY <2>6, <3>1, FS_Union
    <3>3. Cardinality(X \cap Chars(k)) = 0
      BY <2>1, FS_EmptySet
    <3> QED BY <2>6, <3>1, <3>2, <3>3, FS_CardinalityType
  <2>9. \A i \in 1 .. L : i \in a + 1 .. z <=> i \in Chars(k)
    <3>1. \A i \in 1 .. L : i \in Chars(k) <=> i \in Z /\ i \notin X
      BY <2>1
    <3> HIDE DEF X, Z, Chars, Before
    <3> QED BY <2>6, <2>7, <3>1
  <2>10. F(a) = k - 1 /\ a < L
    <3>1. k \in Nat \ {0} /\ k <= F(L - 1) + 1 /\ L - 1 \in Nat /\ F(L - 1) \in Nat
      BY <1>2, <1>3, <1>7
    <3>2. L \notin X
      BY <1>2, <2>2, <3>1
    <3>3. a \in 0 .. L /\ X = 1 .. a
      BY <2>6
    <3> HIDE DEF a, X
    <3>4. a < L /\ a \in Nat
      BY <1>2, <3>2, <3>3
    <3>5. PICK n \in 1 .. L : n = a + 1
      BY <1>2, <3>4
    <3>6. n \notin X /\ n - 1 = a
      BY <3>3, <3>4, <3>5
    <3>7. ~(F(n - 1) + 1 < k) /\ F(a) \in Nat
      BY <1>3, <2>2, <3>4, <3>6
    <3>8. F(a) + 1 >= k /\ F(a) \in Nat
      BY <3>1, <3>6, <3>7
    <3>9. CASE a = 0
      BY <1>4, <3>1, <3>4, <3>8, <3>9
    <3>10. CASE a # 0
      <4>1. PICK m \in Nat : a = m + 1
        BY <3>4, <3>10, a - 1 \in Nat
      <4>2. a \in 1 .. L /\ a \in X /\ a - 1 = m
        BY <3>3, <3>4, <3>10, <4>1
      <4>3. F(a - 1) + 1 < k
        BY <2>2, <4>2
      <4>a. F(m + 1) = F(m) + (IF text[m + 1] = FormFeed THEN 1 ELSE 0) /\ F(m) \in Nat
        BY <1>3
      <4>4. F(m + 1) <= F(m) + 1 /\ F(m) \in Nat
        BY <4>a
      <4>5. F(m) + 1 < k
        BY <4>2, <4>3
      <4>6. F(a) <= F(m) + 1
        BY <4>1, <4>4
      <4> QED BY <3>1, <3>4, <3>8, <4>4, <4>5, <4>6
    <3> QED BY <3>4, <3>9, <3>10
  <2>11. \A n \in 0 .. z - a : F(a + n) = k - 1
    <3> SUFFICES ASSUME NEW n \in 0 .. z - a PROVE F(a + n) = k - 1
      OBVIOUS
    <3> HIDE DEF a, z, X, Z, Chars, Before
    <3>1. CASE n = 0
      BY <2>6, <2>10, <3>1
    <3>2. CASE n # 0
      <4>1. PICK i \in a + 1 .. z : i = a + n
        BY <2>6, <2>7, <3>2
      <4>2. i \in 1 .. L /\ i - 1 \in Nat /\ i = (i - 1) + 1
        BY <1>2, <2>6, <2>7
      <4>3. F(i - 1) + 1 = k /\ text[i] # FormFeed
        BY <2>2, <2>9, <4>2
      <4>4. PICK m \in Nat : m = i - 1
        BY <4>2
      <4>5. i = m + 1 /\ F(m) + 1 = k /\ F(m) \in Nat
        BY <1>3, <4>2, <4>3, <4>4
      <4>6. F(m + 1) = F(m) + (IF text[m + 1] = FormFeed THEN 1 ELSE 0)
        BY <1>3
      <4>7. F(i) = F(m)
        BY <4>3, <4>5, <4>6
      <4> QED BY <4>1, <4>5, <4>7
    <3> QED BY <3>1, <3>2
  <2>12. Page(k) = SubSeq(text, a + 1, z)
    BY <2>8
  <2> HIDE DEF X, Z, Chars, Before
  <2>13. PICK p : p = SubSeq(text, a + 1, z)
    OBVIOUS
  <2> HIDE DEF a, z
  <2>14. p \in Seq(Char) /\ Len(p) = z - a /\ \A i \in 1 .. z - a : p[i] = text[a + i]
    <3>1. a \in Nat /\ z \in Nat /\ a <= z /\ z <= L
      BY <1>2, <2>6, <2>7, <2>8 DEF a, z
    <3>2. \A i \in a + 1 .. z : text[i] \in Char
      BY <1>2, <3>1
    <3>3. /\ p \in Seq(Char) /\ Len(p) = (IF a + 1 <= z THEN z - (a + 1) + 1 ELSE 0)
          /\ \A i \in 1 .. z - (a + 1) + 1 : p[i] = text[a + 1 + i - 1]
      BY <2>13, <3>1, <3>2, SubSeqProperties
    <3>4. Len(p) = z - a
      BY <3>1, <3>3
    <3>5. ASSUME NEW i \in 1 .. z - a PROVE p[i] = text[a + i]
      BY <3>1, <3>3
    <3> QED BY <3>3, <3>4, <3>5
  <2>15. a \in Nat /\ z \in Nat /\ a <= z /\ z <= L
    BY <1>2, <2>6, <2>7, <2>8 DEF a, z
  <2>16. \A i \in 1 .. z - a : text[a + i] # FormFeed
    <3> SUFFICES ASSUME NEW i \in 1 .. z - a PROVE text[a + i] # FormFeed
      OBVIOUS
    <3>1. PICK j \in a + 1 .. z : j = a + i
      BY <2>15
    <3>2. j \in 1 .. L
      BY <1>2, <2>15
    <3> QED BY <2>2, <2>9, <3>1, <3>2
  <2>17. \A i \in 1 .. L : PageAt(text, i) = k /\ text[i] # FormFeed => i \in a + 1 .. z
    BY <1>5, <2>2, <2>9
  <2>18. IsPage(p, text, k, a)
    <3>1. a + (z - a) = z
      BY <2>15
    <3>2. DOMAIN text = 1 .. L /\ L = Len(text)
      BY <1>2 DEF L
    <3> QED BY <2>11, <2>14, <2>15, <2>16, <2>17, <3>1, <3>2 DEF IsPage, F
  <2> QED BY <2>12, <2>13, <2>18 DEF a, X
<1>9. \A k \in 1 .. N : Cardinality(Before(k)) = PageFrom(text, k)
  BY DEF PageFrom
<1>10. \A k \in 1 .. N : SplitPages(text)[k] = Page(k)
  BY <1>1
<1> HIDE DEF Before, Page
<1>11. \A k \in 1 .. N : IsPage(SplitPages(text)[k], text, k, PageFrom(text, k))
  BY <1>8, <1>9, <1>10
<1>12. SplitPages(text) \in Seq(Seq(Char))
  <2>1. \A k \in 1 .. N : SplitPages(text)[k] \in Seq(Char)
    BY <1>11 DEF IsPage
  <2>2. SplitPages(text) \in [1 .. N -> Seq(Char)]
    BY <1>1, <2>1
  <2> QED BY <1>7, <2>2, SeqDef
<1>13. DOMAIN SplitPages(text) = 1 .. N
  BY <1>1
<1> QED BY <1>7, <1>11, <1>12, <1>13 DEF N

-----------------------------------------------------------------------------
(* The windows of a page.                                                  *)

\* The ordinal of the last window of a page of n characters.
LastWindow(n) == IF n <= Window THEN 0 ELSE (n - Overlap - 1) \div Step

\* Whether c is what window k of page p makes.
OfWindow(c, ps, p, k) == c \in BuildChunk(ps[p], p, k, k * Step, AtMost(k * Step + Window, Len(ps[p])))

LEMMA OfWindowKey ==
    ASSUME NEW c, NEW ps, NEW p, NEW k, OfWindow(c, ps, p, k)
    PROVE  c.page_no = p /\ c.chunk_ord = k
BY DEF OfWindow, BuildChunk, Chunk

LEMMA ChunksOfMember ==
    ASSUME NEW c, NEW ps
    PROVE  c \in ChunksOf(ps) <=> \E p \in DOMAIN ps : \E k \in 0 .. LastWindow(Len(ps[p])) : OfWindow(c, ps, p, k)
<1> DEFINE Made(p) == UNION {BuildChunk(ps[p], p, w[1], w[2], w[3]) : w \in WindowsOf(Len(ps[p]))}
<1>1. c \in ChunksOf(ps) <=> \E p \in DOMAIN ps : c \in Made(p)
  BY DEF ChunksOf
<1>2. ASSUME NEW p \in DOMAIN ps
      PROVE  c \in Made(p) <=> \E k \in 0 .. LastWindow(Len(ps[p])) : OfWindow(c, ps, p, k)
  <2>1. WindowsOf(Len(ps[p])) = {<<k, k * Step, AtMost(k * Step + Window, Len(ps[p]))>> : k \in 0 .. LastWindow(Len(ps[p]))}
    BY DEF WindowsOf, LastWindow
  <2>2. c \in Made(p) <=> \E w \in WindowsOf(Len(ps[p])) : c \in BuildChunk(ps[p], p, w[1], w[2], w[3])
    OBVIOUS
  <2> HIDE DEF Made
  <2>3. ASSUME c \in Made(p) PROVE \E k \in 0 .. LastWindow(Len(ps[p])) : OfWindow(c, ps, p, k)
    <3>1. PICK w \in WindowsOf(Len(ps[p])) : c \in BuildChunk(ps[p], p, w[1], w[2], w[3])
      BY <2>2, <2>3
    <3>2. PICK k \in 0 .. LastWindow(Len(ps[p])) : w = <<k, k * Step, AtMost(k * Step + Window, Len(ps[p]))>>
      BY <2>1, <3>1
    <3> QED BY <3>1, <3>2 DEF OfWindow
  <2>4. ASSUME NEW k \in 0 .. LastWindow(Len(ps[p])), OfWindow(c, ps, p, k) PROVE c \in Made(p)
    <3>1. PICK w : w = <<k, k * Step, AtMost(k * Step + Window, Len(ps[p]))>>
      OBVIOUS
    <3>2. w \in WindowsOf(Len(ps[p])) /\ w[1] = k /\ w[2] = k * Step /\ w[3] = AtMost(k * Step + Window, Len(ps[p]))
      BY <2>1, <3>1
    <3> QED BY <2>2, <2>4, <3>2 DEF OfWindow
  <2> QED BY <2>3, <2>4
<1> HIDE DEF Made
<1> QED BY <1>1, <1>2

\* The last window is the first that reaches the end.
LEMMA LastWindowIs ==
    ASSUME NEW n \in Nat, NEW k \in Nat
    PROVE  LastWindow(n) \in Nat /\ (k <= LastWindow(n) <=> k = 0 \/ k * Step + Overlap < n)
<1>1. Step \in Nat \ {0} /\ Window \in Nat /\ Overlap \in Nat /\ Window = Step + Overlap
  BY WindowAssumption DEF Step
<1>2. CASE n <= Window
  <2>1. LastWindow(n) = 0
    BY <1>2 DEF LastWindow
  <2>2. k >= 1 => k * Step >= Step
    BY <1>1
  <2>3. k * Step \in Nat
    BY <1>1
  <2> QED BY <1>1, <1>2, <2>1, <2>2, <2>3
<1>3. CASE n > Window
  <2> DEFINE a == n - Overlap - 1
             q == a \div Step
  <2>1. a \in Nat
    BY <1>1, <1>3
  <2> HIDE DEF a
  <2>2. q \in Nat /\ Step * q <= a /\ a < Step * q + Step
    BY <1>1, <2>1
  <2>3. LastWindow(n) = q
    BY <1>1, <1>3 DEF LastWindow, a
  <2> HIDE DEF q
  <2>4. k <= q => k * Step <= Step * q
    BY <1>1, <2>2
  <2>5. k >= q + 1 => k * Step >= Step * q + Step
    BY <1>1, <2>2
  <2>6. k * Step \in Nat /\ Step * q \in Nat
    BY <1>1, <2>2
  <2>7. k <= q <=> k * Step <= a
    BY <1>1, <2>1, <2>2, <2>4, <2>5, <2>6
  <2>8. k * Step <= a <=> k * Step + Overlap < n
    BY <1>1, <2>6 DEF a
  <2>9. k = 0 => k * Step <= a
    BY <1>1, <2>1
  <2> QED BY <2>2, <2>3, <2>7, <2>8, <2>9
<1> QED BY <1>1, <1>2, <1>3

LEMMA ChunksOfTyped ==
    ASSUME NEW ps, NEW n \in Nat, DOMAIN ps = 1 .. n, \A p \in 1 .. n : Len(ps[p]) \in Nat, NEW c \in ChunksOf(ps)
    PROVE  c.page_no \in 1 .. n /\ c.chunk_ord \in Nat
<1>1. PICK p \in DOMAIN ps : \E k \in 0 .. LastWindow(Len(ps[p])) : OfWindow(c, ps, p, k)
  BY ChunksOfMember
<1>2. PICK k \in 0 .. LastWindow(Len(ps[p])) : OfWindow(c, ps, p, k)
  BY <1>1
<1>3. LastWindow(Len(ps[p])) \in Nat
  BY LastWindowIs
<1> QED BY <1>2, <1>3, OfWindowKey

\* What a loop over the blanks leaves is a text of the same characters.
LEMMA CollapseTyped ==
    ASSUME NEW B, NEW s \in Seq(B), NEW blanks, Space \in B
    PROVE  CollapseBlanks(s, blanks) \in Seq(B)
<1>1. PICK out : Collapses(out, s, blanks, B) /\ CollapseBlanks(s, blanks) = Trimmed(out[Len(s)])
  BY CollapseUnfolds
<1>2. Len(s) \in 0 .. Len(s)
  OBVIOUS
<1>3. out[Len(s)] \in Seq(B)
  BY <1>1, <1>2 DEF Collapses
<1> QED BY <1>1, <1>3, TrimmedProperties

LEMMA NormalizeTyped ==
    ASSUME NEW x \in Seq(Char)
    PROVE  NormalizeForIndex(x) \in Seq(Byte)
<1>1. Space \in Byte
  BY TextAssumption
<1>2. <<>> \in Seq(Char)
  OBVIOUS
<1>3. Fold(x) \in Seq(Byte)
  BY <1>2, FoldConcat
<1> QED BY <1>1, <1>3, CollapseTyped DEF NormalizeForIndex

LEMMA EncodeTyped ==
    ASSUME NEW x \in Seq(Char)
    PROVE  /\ Encode(x) \in Seq(Byte) /\ ByteLen(x) \in Nat
           /\ Lowercase(Encode(x)) \in Seq(Byte) /\ Len(Lowercase(Encode(x))) = Len(Encode(x))
<1>1. Utf8 \in [Char -> Seq(Byte)]
  BY TextAssumption
<1>2. <<>> \in Seq(Char)
  OBVIOUS
<1>3. Encode(x) \in Seq(Byte)
  BY <1>1, <1>2, SpelledConcat DEF Encode
<1> DEFINE e == Encode(x)
<1>4. e \in Seq(Byte) /\ ByteLen(x) = Len(e)
  BY <1>3 DEF ByteLen
<1> HIDE DEF e
<1>5. Lowercase(e) \in Seq(Byte) /\ Len(Lowercase(e)) = Len(e)
  BY <1>4, LowerAssumption DEF Lowercase
<1> QED BY <1>4, <1>5 DEF e

\* An injective list of a finite set that is as long as it has members.
LEMMA ListsAll ==
    ASSUME NEW S, IsFiniteSet(S), NEW s \in SetToSeqs(S)
    PROVE  /\ s \in Seq(S) /\ Len(s) = Cardinality(S) /\ ToSet(s) = S
           /\ \A i, j \in DOMAIN s : s[i] = s[j] => i = j
<1> DEFINE n == Cardinality(S)
<1>1. n \in Nat
  BY FS_CardinalityType
<1>2. s \in [1 .. n -> S] /\ \A i, j \in 1 .. n : i # j => s[i] # s[j]
  BY DEF SetToSeqs
<1> HIDE DEF n
<1>3. s \in Injection(1 .. n, S)
  BY <1>2 DEF Injection, IsInjective
<1>4. IsFiniteSet(1 .. n) /\ Cardinality(1 .. n) = n
  BY <1>1, FS_Interval
<1>5. s \in Surjection(1 .. n, S)
  BY <1>3, <1>4, FS_Injection DEF n
<1>6. \A x \in S : \E i \in 1 .. n : s[i] = x
  BY <1>5 DEF Surjection
<1>7. s \in Seq(S) /\ Len(s) = n /\ DOMAIN s = 1 .. n
  <2>1. s \in Seq(S)
    BY <1>1, <1>2, SeqDef
  <2>2. DOMAIN s = 1 .. n
    BY <1>2
  <2> QED BY <1>1, <2>1, <2>2
<1>8. ToSet(s) = S
  BY <1>2, <1>6, <1>7 DEF ToSet
<1> QED BY <1>2, <1>7, <1>8 DEF n

\* The windows of the pages are finitely many.
LEMMA ChunksOfFinite ==
    ASSUME NEW ps, NEW n \in Nat, DOMAIN ps = 1 .. n, \A p \in 1 .. n : Len(ps[p]) \in Nat
    PROVE  IsFiniteSet(ChunksOf(ps))
<1> DEFINE W(p) == {<<k, k * Step, AtMost(k * Step + Window, Len(ps[p]))>> : k \in 0 .. LastWindow(Len(ps[p]))}
           Made(p) == UNION {BuildChunk(ps[p], p, w[1], w[2], w[3]) : w \in WindowsOf(Len(ps[p]))}
           All == {Made(p) : p \in 1 .. n}
<1>1. ASSUME NEW p \in 1 .. n PROVE IsFiniteSet(Made(p))
  <2> DEFINE l == LastWindow(Len(ps[p]))
             f == [k \in 0 .. l |-> <<k, k * Step, AtMost(k * Step + Window, Len(ps[p]))>>]
             g == [w \in WindowsOf(Len(ps[p])) |-> BuildChunk(ps[p], p, w[1], w[2], w[3])]
  <2>1. l \in Nat
    BY LastWindowIs
  <2>2. IsFiniteSet(0 .. l)
    BY <2>1, FS_Interval
  <2>3. WindowsOf(Len(ps[p])) = {f[k] : k \in 0 .. l}
    BY DEF WindowsOf, LastWindow
  <2>a. IsFiniteSet({f[k] : k \in 0 .. l})
    <3> HIDE DEF f, l
    <3> QED BY <2>2, FiniteImage
  <2> DEFINE V == WindowsOf(Len(ps[p]))
  <2>4. IsFiniteSet(V)
    BY <2>3, <2>a
  <2> HIDE DEF f, l
  <2>5. Made(p) = UNION {g[w] : w \in V}
    OBVIOUS
  <2>6. \A T \in {g[w] : w \in V} : IsFiniteSet(T)
    <3> SUFFICES ASSUME NEW w \in V PROVE IsFiniteSet(g[w])
      OBVIOUS
    <3>1. g[w] = BuildChunk(ps[p], p, w[1], w[2], w[3])
      OBVIOUS
    <3>2. \A c : IsFiniteSet({c})
      BY FS_Singleton
    <3>3. IsFiniteSet({})
      BY FS_EmptySet
    <3> HIDE DEF g
    <3> QED BY <3>1, <3>2, <3>3 DEF BuildChunk
  <2> HIDE DEF g, V, Made
  <2>7. IsFiniteSet({g[w] : w \in V})
    BY <2>4, FiniteImage
  <2> QED BY <2>5, <2>6, <2>7, FS_UNION
<1> DEFINE h == [p \in 1 .. n |-> Made(p)]
<1>2. ChunksOf(ps) = UNION All
  BY DEF ChunksOf
<1>3. All = {h[p] : p \in 1 .. n}
  OBVIOUS
<1>4. \A T \in All : IsFiniteSet(T)
  <2> HIDE DEF Made
  <2> QED BY <1>1
<1>5. IsFiniteSet(All)
  <2> HIDE DEF h, All
  <2>1. IsFiniteSet(1 .. n)
    BY FS_Interval
  <2> QED BY <1>3, <2>1, FiniteImage
<1> HIDE DEF All
<1> QED BY <1>2, <1>4, <1>5, FS_UNION

-----------------------------------------------------------------------------
(* Lists without repetitions.                                              *)

LEMMA ConcatSet ==
    ASSUME NEW S, NEW a \in Seq(S), NEW b \in Seq(S)
    PROVE  /\ a \o b \in Seq(S) /\ ToSet(a \o b) = ToSet(a) \cup ToSet(b)
           /\ Distinct(a) /\ Distinct(b) /\ ToSet(a) \cap ToSet(b) = {} => Distinct(a \o b)
<1> DEFINE c == a \o b
<1>1. PICK m \in Nat, n \in Nat : m = Len(a) /\ n = Len(b) /\ DOMAIN a = 1 .. m /\ DOMAIN b = 1 .. n
  OBVIOUS
<1>2. /\ c \in Seq(S) /\ Len(c) = m + n /\ DOMAIN c = 1 .. m + n
      /\ \A i \in 1 .. m : c[i] = a[i]
      /\ \A i \in 1 .. n : c[m + i] = b[i]
  BY <1>1, ConcatProperties
<1> HIDE DEF c
<1>3. \A i \in 1 .. m + n : i \in 1 .. m \/ \E j \in 1 .. n : i = m + j
  <2> SUFFICES ASSUME NEW i \in 1 .. m + n, i > m PROVE \E j \in 1 .. n : i = m + j
    BY <1>1
  <2>1. i - m \in 1 .. n /\ i = m + (i - m)
    BY <1>1
  <2> QED BY <2>1
<1>4. ToSet(c) = ToSet(a) \cup ToSet(b)
  <2>1. \A x : x \in ToSet(c) <=> \E k \in 1 .. m + n : c[k] = x
    BY <1>2 DEF ToSet
  <2>2. \A x : x \in ToSet(a) <=> \E k \in 1 .. m : a[k] = x
    BY <1>1 DEF ToSet
  <2>3. \A x : x \in ToSet(b) <=> \E k \in 1 .. n : b[k] = x
    BY <1>1 DEF ToSet
  <2>4. (\A k \in 1 .. m : k \in 1 .. m + n) /\ (\A k \in 1 .. n : m + k \in 1 .. m + n)
    BY <1>1
  <2>5. \A x : x \in ToSet(c) <=> x \in ToSet(a) \/ x \in ToSet(b)
    <3> SUFFICES ASSUME NEW x PROVE x \in ToSet(c) <=> x \in ToSet(a) \/ x \in ToSet(b)
      OBVIOUS
    <3>1. x \in ToSet(a) => x \in ToSet(c)
      BY <1>2, <2>1, <2>2, <2>4
    <3>2. ASSUME x \in ToSet(b) PROVE x \in ToSet(c)
      <4>1. PICK k \in 1 .. n : b[k] = x
        BY <2>3, <3>2
      <4>2. PICK i \in 1 .. m + n : i = m + k
        BY <2>4
      <4> QED BY <1>2, <2>1, <4>1, <4>2
    <3>3. ASSUME x \in ToSet(c) PROVE x \in ToSet(a) \/ x \in ToSet(b)
      <4>1. PICK k \in 1 .. m + n : c[k] = x
        BY <2>1, <3>3
      <4> QED BY <1>2, <1>3, <2>2, <2>3, <4>1
    <3> QED BY <3>1, <3>2, <3>3
  <2> QED BY <2>5
<1>5. ASSUME Distinct(a), Distinct(b), ToSet(a) \cap ToSet(b) = {} PROVE Distinct(c)
  <2> SUFFICES ASSUME NEW i \in 1 .. m + n, NEW j \in 1 .. m + n, c[i] = c[j] PROVE i = j
    BY <1>2 DEF Distinct
  <2>1. (\A k \in 1 .. m : a[k] \in ToSet(a)) /\ (\A k \in 1 .. n : b[k] \in ToSet(b))
    BY <1>1 DEF ToSet
  <2>2. CASE i \in 1 .. m /\ j \in 1 .. m
    BY <1>1, <1>2, <1>5, <2>2 DEF Distinct
  <2>3. CASE i \in 1 .. m /\ j \notin 1 .. m
    <3>1. PICK k \in 1 .. n : j = m + k
      BY <1>3, <2>3
    <3> QED BY <1>2, <1>5, <2>1, <2>3, <3>1
  <2>4. CASE i \notin 1 .. m /\ j \in 1 .. m
    <3>1. PICK k \in 1 .. n : i = m + k
      BY <1>3, <2>4
    <3> QED BY <1>2, <1>5, <2>1, <2>4, <3>1
  <2>5. CASE i \notin 1 .. m /\ j \notin 1 .. m
    <3>1. PICK k \in 1 .. n : i = m + k
      BY <1>3, <2>5
    <3>2. PICK l \in 1 .. n : j = m + l
      BY <1>3, <2>5
    <3>3. b[k] = b[l]
      BY <1>2, <3>1, <3>2
    <3> QED BY <1>1, <1>5, <3>1, <3>2, <3>3 DEF Distinct
  <2> QED BY <2>2, <2>3, <2>4, <2>5
<1> QED BY <1>2, <1>4, <1>5 DEF c

-----------------------------------------------------------------------------
(* Trees of bigrams.                                                       *)

Leaves == {AnyQuery} \cup [op : {"consec", "skip1"}, key : Byte \X Byte]

Over(S) == Leaves \cup [op : {"and", "or"}, children : FiniteSubsets(S)]

Top == NestLimit + 2

LEMMA TreesUnfold ==
    /\ Top \in Nat /\ Top >= 2 /\ Trees = TreesTo[Top] /\ TreesTo[0] = Leaves
    /\ \A n \in 1 .. Top : TreesTo[n] = Over(TreesTo[n - 1])
<1>1. Top \in Nat /\ Top >= 2
  BY TreesAssumption DEF Top
<1> DEFINE turn(f) == [n \in 0 .. Top |-> IF n = 0 THEN Leaves ELSE Over(f[n - 1])]
           Tower(f, n) == f = [i \in 0 .. n |-> f[i]] /\ f[0] = Leaves /\ \A i \in 1 .. n : f[i] = Over(f[i - 1])
           Good(n) == \E f : Tower(f, n)
           S == {n \in Nat : Good(n)}
<1>2. Good(0)
  <2> DEFINE f == [i \in 0 .. 0 |-> Leaves]
  <2>1. Tower(f, 0)
    OBVIOUS
  <2> QED BY <2>1
<1>3. ASSUME NEW n \in Nat, Good(n) PROVE Good(n + 1)
  <2>1. PICK f : Tower(f, n)
    BY <1>3
  <2>2. PICK j \in Nat : j = n + 1
    OBVIOUS
  <2> DEFINE g == [i \in 0 .. j |-> IF i = j THEN Over(f[n]) ELSE f[i]]
  <2>3. g = [i \in 0 .. j |-> g[i]] /\ g[0] = Leaves
    BY <2>1, <2>2
  <2>4. \A i \in 1 .. j : g[i] = Over(g[i - 1])
    <3> SUFFICES ASSUME NEW i \in 1 .. j PROVE g[i] = Over(g[i - 1])
      OBVIOUS
    <3>1. g[i - 1] = f[i - 1]
      BY <2>2
    <3>2. CASE i = j
      <4>1. g[i] = Over(f[n]) /\ i - 1 = n
        BY <2>2, <3>2
      <4> QED BY <3>1, <4>1
    <3>3. CASE i # j
      <4>1. g[i] = f[i] /\ i \in 1 .. n
        BY <2>2, <3>3
      <4> QED BY <2>1, <3>1, <4>1
    <3> QED BY <3>2, <3>3
  <2> HIDE DEF g
  <2>5. Tower(g, j)
    BY <2>3, <2>4
  <2> HIDE DEF Tower
  <2> QED BY <2>2, <2>5
<1> HIDE DEF Good
<1>4. Nat \subseteq S
  <2>1. 0 \in S /\ \A n \in Nat : n \in S => n + 1 \in S
    BY <1>2, <1>3
  <2> HIDE DEF S
  <2> QED BY <2>1, InductionOver
<1>5. PICK f : Tower(f, Top)
  BY <1>1, <1>4 DEF Good
<1>6. f = turn(f)
  <2>1. \A n \in 0 .. Top : f[n] = IF n = 0 THEN Leaves ELSE Over(f[n - 1])
    <3> SUFFICES ASSUME NEW n \in 0 .. Top PROVE f[n] = IF n = 0 THEN Leaves ELSE Over(f[n - 1])
      OBVIOUS
    <3>1. n # 0 => n \in 1 .. Top
      BY <1>1
    <3> QED BY <1>5, <3>1
  <2> QED BY <1>5, <2>1
<1>7. TreesTo = CHOOSE g : g = turn(g)
  <2>1. \A g : turn(g) = [n \in 0 .. NestLimit + 2 |->
            {AnyQuery} \cup [op : {"consec", "skip1"}, key : Byte \X Byte]
            \cup IF n = 0 THEN {} ELSE [op : {"and", "or"}, children : FiniteSubsets(g[n - 1])]]
    <3> SUFFICES ASSUME NEW g
                 PROVE  turn(g) = [n \in 0 .. NestLimit + 2 |->
            {AnyQuery} \cup [op : {"consec", "skip1"}, key : Byte \X Byte]
            \cup IF n = 0 THEN {} ELSE [op : {"and", "or"}, children : FiniteSubsets(g[n - 1])]]
      OBVIOUS
    <3>1. \A X : Over(X) = {AnyQuery} \cup [op : {"consec", "skip1"}, key : Byte \X Byte]
                           \cup [op : {"and", "or"}, children : FiniteSubsets(X)]
      BY DEF Over, Leaves
    <3>2. Leaves = {AnyQuery} \cup [op : {"consec", "skip1"}, key : Byte \X Byte] \cup {}
      BY DEF Leaves
    <3>3. ASSUME NEW n \in 0 .. Top
          PROVE  (IF n = 0 THEN Leaves ELSE Over(g[n - 1]))
                 = {AnyQuery} \cup [op : {"consec", "skip1"}, key : Byte \X Byte]
                   \cup IF n = 0 THEN {} ELSE [op : {"and", "or"}, children : FiniteSubsets(g[n - 1])]
      <4>1. CASE n = 0
        BY <3>2, <4>1
      <4>2. CASE n # 0
        BY <3>1, <4>2
      <4> QED BY <4>1, <4>2
    <3> QED BY <3>3 DEF Top
  <2> HIDE DEF turn
  <2> QED BY <2>1 DEF TreesTo
<1>8. TreesTo = turn(TreesTo)
  <2> HIDE DEF turn
  <2> QED BY <1>6, <1>7
<1>9. TreesTo[0] = Leaves /\ \A n \in 1 .. Top : TreesTo[n] = Over(TreesTo[n - 1])
  <2>1. \A n \in 0 .. Top : TreesTo[n] = IF n = 0 THEN Leaves ELSE Over(TreesTo[n - 1])
    <3> HIDE DEF TreesTo
    <3> QED BY <1>8
  <2>2. 0 \in 0 .. Top /\ \A n \in 1 .. Top : n \in 0 .. Top /\ n # 0
    BY <1>1
  <2> QED BY <2>1, <2>2
<1> QED BY <1>1, <1>9 DEF Trees, Top

LEMMA TreesGrow ==
    ASSUME NEW n \in 1 .. Top
    PROVE  TreesTo[n - 1] \subseteq TreesTo[n]
<1> DEFINE Good(i) == i + 1 \in 1 .. Top => TreesTo[i] \subseteq TreesTo[i + 1]
           T == {i \in Nat : Good(i)}
<1>1. Good(0)
  <2> SUFFICES ASSUME 1 \in 1 .. Top PROVE TreesTo[0] \subseteq TreesTo[1]
    OBVIOUS
  <2> QED BY TreesUnfold DEF Over
<1>2. ASSUME NEW i \in Nat, Good(i) PROVE Good(i + 1)
  <2>1. PICK j \in Nat : j = i + 1
    OBVIOUS
  <2>2. PICK k \in Nat : k = j + 1
    OBVIOUS
  <2> SUFFICES ASSUME k \in 1 .. Top PROVE TreesTo[j] \subseteq TreesTo[k]
    BY <2>1, <2>2
  <2>3. j \in 1 .. Top /\ k - 1 = j /\ j - 1 = i
    BY TreesUnfold, <2>1, <2>2
  <2>4. TreesTo[i] \subseteq TreesTo[j]
    BY <1>2, <2>1, <2>3
  <2>5. TreesTo[j] = Over(TreesTo[i]) /\ TreesTo[k] = Over(TreesTo[j])
    BY <2>3, TreesUnfold
  <2> QED BY <2>4, <2>5 DEF Over, FiniteSubsets
<1> HIDE DEF Good
<1>3. 0 \in T /\ \A i \in Nat : i \in T => i + 1 \in T
  BY <1>1, <1>2
<1> HIDE DEF T
<1>4. Nat \subseteq T
  BY <1>3, InductionOver
<1>5. PICK i \in Nat : i = n - 1 /\ n = i + 1
  BY TreesUnfold
<1>6. Good(i)
  BY <1>4 DEF T
<1> QED BY <1>5, <1>6 DEF Good

\* A node is a leaf or has children that are lower.
LEMMA NodeKinds ==
    ASSUME NEW n \in 0 .. Top, NEW t \in TreesTo[n]
    PROVE  \/ t.op \in {"any", "consec", "skip1"}
           \/ n # 0 /\ t.op \in {"and", "or"} /\ t.children \subseteq TreesTo[n - 1] /\ IsFiniteSet(t.children)
<1>1. \A x \in Leaves : x.op \in {"any", "consec", "skip1"}
  BY DEF Leaves, AnyQuery
<1>2. CASE n = 0
  BY <1>1, <1>2, TreesUnfold
<1>3. CASE n # 0
  <2>1. t \in Over(TreesTo[n - 1])
    BY <1>3, TreesUnfold
  <2> QED BY <1>1, <1>3, <2>1 DEF Over, FiniteSubsets
<1> QED BY <1>2, <1>3

LEMMA SameBits ==
    ASSUME NEW f, NEW g, NEW t, NEW untracked, NEW recorded,
           \/ t.op \in {"any", "consec", "skip1"}
           \/ t.op \in {"and", "or"} /\ \A c \in t.children : f[c] = g[c]
    PROVE  NodeBits(f, t, untracked, recorded) = NodeBits(g, t, untracked, recorded)
<1>1. CASE t.op \in {"any", "consec", "skip1"}
  BY <1>1 DEF NodeBits, IsBigram
<1>2. CASE t.op \in {"and", "or"} /\ \A c \in t.children : f[c] = g[c]
  <2>1. {f[c] : c \in t.children} = {g[c] : c \in t.children}
    BY <1>2
  <2> QED BY <1>2, <2>1 DEF NodeBits, IsBigram
<1> QED BY <1>1, <1>2

\* The bits of all trees.
AllBits(bits, untracked, recorded) ==
    bits = [t \in Trees |-> NodeBits(bits, t, untracked, recorded)]

LEMMA EvaluateUnfolds ==
    ASSUME NEW untracked, NEW recorded
    PROVE  \E bits : /\ AllBits(bits, untracked, recorded)
                     /\ \A q : Evaluate(q, untracked, recorded) = bits[q]
<1> DEFINE Node(f, t) == NodeBits(f, t, untracked, recorded)
           Fixed(f, n) == f = [t \in TreesTo[n] |-> Node(f, t)]
           Good(n)     == n \in 0 .. Top => \E f : Fixed(f, n)
           T           == {n \in Nat : Good(n)}
<1>1. Good(0)
  <2> DEFINE f == [t \in TreesTo[0] |-> Node(<<>>, t)]
  <2>1. ASSUME NEW t \in TreesTo[0] PROVE Node(<<>>, t) = Node(f, t)
    <3>1. 0 \in 0 .. Top
      BY TreesUnfold
    <3>2. t.op \in {"any", "consec", "skip1"}
      BY <3>1, NodeKinds
    <3> HIDE DEF f
    <3> QED BY <3>2, SameBits
  <2>2. f = [t \in TreesTo[0] |-> Node(f, t)]
    <3> HIDE DEF Node
    <3> QED BY <2>1
  <2> QED BY <2>2
<1>2. ASSUME NEW n \in Nat, Good(n) PROVE Good(n + 1)
  <2>1. PICK j \in Nat : j = n + 1
    OBVIOUS
  <2> SUFFICES ASSUME j \in 0 .. Top PROVE \E g : Fixed(g, j)
    BY <2>1
  <2>2. n \in 0 .. Top /\ j \in 1 .. Top /\ j - 1 = n /\ j # 0
    BY <2>1, TreesUnfold
  <2>3. PICK f : f = [t \in TreesTo[n] |-> Node(f, t)]
    BY <1>2, <2>2
  <2>4. TreesTo[n] \subseteq TreesTo[j]
    BY <2>2, TreesGrow
  <2> DEFINE g == [t \in TreesTo[j] |-> Node(f, t)]
  <2>5. \A t \in TreesTo[n] : g[t] = f[t]
    <3> HIDE DEF Node
    <3> QED BY <2>3, <2>4
  <2>6. ASSUME NEW t \in TreesTo[j] PROVE Node(f, t) = Node(g, t)
    <3>1. t.op \in {"any", "consec", "skip1"} \/ (t.op \in {"and", "or"} /\ t.children \subseteq TreesTo[n])
      BY <2>2, NodeKinds
    <3> HIDE DEF g
    <3>2. t.op \in {"any", "consec", "skip1"} \/ (t.op \in {"and", "or"} /\ \A c \in t.children : f[c] = g[c])
      BY <2>5, <3>1
    <3> QED BY <3>2, SameBits
  <2>7. g = [t \in TreesTo[j] |-> Node(g, t)]
    <3> HIDE DEF Node
    <3> QED BY <2>6
  <2> HIDE DEF g
  <2> QED BY <2>7
<1> HIDE DEF Good
<1>3. 0 \in T /\ \A n \in Nat : n \in T => n + 1 \in T
  BY <1>1, <1>2
<1> HIDE DEF T
<1>4. Nat \subseteq T
  BY <1>3, InductionOver
<1>5. Good(Top)
  BY <1>4, TreesUnfold DEF T
<1>6. Top \in 0 .. Top /\ Trees = TreesTo[Top]
  BY TreesUnfold
<1>7. PICK f : f = [t \in Trees |-> Node(f, t)]
  BY <1>5, <1>6 DEF Good
<1> DEFINE turn(f1) == [t \in Trees |-> Node(f1, t)]
           bits == CHOOSE f1 : f1 = turn(f1)
<1>9. \A q : Evaluate(q, untracked, recorded) = bits[q]
  <2> SUFFICES ASSUME NEW q PROVE Evaluate(q, untracked, recorded) = bits[q]
    OBVIOUS
  <2> QED BY DEF Evaluate
<1>a. \E f1 : f1 = turn(f1)
  BY <1>7
<1> HIDE DEF turn
<1>10. bits = turn(bits)
  BY <1>a
<1> HIDE DEF bits
<1>11. AllBits(bits, untracked, recorded)
  BY <1>10 DEF AllBits, turn
<1> QED BY <1>9, <1>11

\* The bit of q is there, and clear: the text cannot match.
Clear(q, untracked, recorded) == Evaluate(q, untracked, recorded) = {FALSE}

LEMMA Children ==
    ASSUME NEW t \in Trees, t.op \in {"and", "or"}
    PROVE  t.children \subseteq Trees /\ IsFiniteSet(t.children)
<1>1. Top \in 1 .. Top /\ Top \in 0 .. Top /\ Trees = TreesTo[Top]
  BY TreesUnfold
<1>2. t.children \subseteq TreesTo[Top - 1] /\ IsFiniteSet(t.children)
  BY <1>1, NodeKinds
<1>3. TreesTo[Top - 1] \subseteq TreesTo[Top]
  BY <1>1, TreesGrow
<1> QED BY <1>1, <1>2, <1>3

LEMMA BooleanBit ==
    ASSUME NEW P \in BOOLEAN, NEW B, B = {P}
    PROVE  B \in {{TRUE}, {FALSE}} /\ (B = {FALSE} <=> ~P)
<1>1. CASE P
  <2>1. P = TRUE
    BY <1>1
  <2>2. B = {TRUE} /\ {TRUE} # {FALSE}
    BY <2>1
  <2> QED BY <1>1, <2>2
<1>2. CASE ~P
  <2>1. P = FALSE
    BY <1>2
  <2>2. B = {FALSE}
    BY <2>1
  <2> QED BY <1>2, <2>2
<1> QED BY <1>1, <1>2

LEMMA EvaluateValues ==
    ASSUME NEW t \in Trees, NEW untracked, NEW recorded
    PROVE  /\ Evaluate(t, untracked, recorded) \in {{}, {TRUE}, {FALSE}}
           /\ t.op = "any" => ~Clear(t, untracked, recorded)
           /\ IsBigram(t) => (Clear(t, untracked, recorded) <=> t \notin untracked /\ t \notin recorded)
<1>1. PICK bits : /\ AllBits(bits, untracked, recorded)
                  /\ \A q : Evaluate(q, untracked, recorded) = bits[q]
  BY EvaluateUnfolds
<1>2. Evaluate(t, untracked, recorded) = NodeBits(bits, t, untracked, recorded)
  BY <1>1 DEF AllBits
<1> DEFINE v == NodeBits(bits, t, untracked, recorded)
<1>3. t.op \in {"any", "consec", "skip1", "and", "or"}
  <2>1. Top \in 0 .. Top /\ Trees = TreesTo[Top]
    BY TreesUnfold
  <2> QED BY <2>1, NodeKinds
<1>4. {} # {FALSE}
  OBVIOUS
<1>5. CASE t.op = "any"
  <2>1. v = {} /\ ~IsBigram(t)
    BY <1>5 DEF NodeBits, IsBigram
  <2> QED BY <1>2, <1>4, <2>1 DEF Clear
<1>6. CASE IsBigram(t)
  <2>1. v = IF t \in untracked THEN {} ELSE {(t \in recorded)}
    BY <1>6 DEF NodeBits, IsBigram
  <2>2. t.op # "any"
    BY <1>6 DEF IsBigram
  <2> HIDE DEF v
  <2>3. CASE t \in untracked
    BY <1>2, <1>4, <2>1, <2>2, <2>3 DEF Clear, v
  <2>4. CASE t \notin untracked
    <3> DEFINE P == t \in recorded
    <3>1. P \in BOOLEAN
      OBVIOUS
    <3>2. v = {P}
      BY <2>1, <2>4
    <3> HIDE DEF P
    <3>3. v \in {{TRUE}, {FALSE}} /\ (v = {FALSE} <=> ~P)
      BY <3>1, <3>2, BooleanBit
    <3> QED BY <1>2, <2>2, <2>4, <3>3 DEF Clear, v, P
  <2> QED BY <2>3, <2>4
<1>7. CASE t.op = "and"
  <2> DEFINE bs == {bits[c] : c \in t.children}
  <2>1. v = AndBits(bs) /\ ~IsBigram(t)
    BY <1>7 DEF NodeBits, IsBigram
  <2> HIDE DEF bs, v
  <2> DEFINE P == FALSE \notin UNION bs
  <2>2. v = {} \/ v = {P}
    BY <2>1 DEF AndBits
  <2>3. P \in BOOLEAN
    OBVIOUS
  <2> HIDE DEF P
  <2>4. v = {P} => v \in {{TRUE}, {FALSE}}
    BY <2>3, BooleanBit
  <2> QED BY <1>2, <1>7, <2>1, <2>2, <2>4 DEF v
<1>8. CASE t.op = "or"
  <2> DEFINE bs == {bits[c] : c \in t.children}
  <2>1. v = OrBits(bs) /\ ~IsBigram(t)
    BY <1>8 DEF NodeBits, IsBigram
  <2> HIDE DEF bs, v
  <2> DEFINE P == TRUE \in UNION bs
  <2>2. v = {} \/ v = {P}
    BY <2>1 DEF OrBits
  <2>3. P \in BOOLEAN
    OBVIOUS
  <2> HIDE DEF P
  <2>4. v = {P} => v \in {{TRUE}, {FALSE}}
    BY <2>3, BooleanBit
  <2> QED BY <1>2, <1>8, <2>1, <2>2, <2>4 DEF v
<1> QED BY <1>3, <1>5, <1>6, <1>7, <1>8 DEF IsBigram

\* An And is clear if one of its children is, an Or if all are.
LEMMA EvaluateNodes ==
    ASSUME NEW t \in Trees, NEW untracked, NEW recorded
    PROVE  /\ t.op = "and" => (Clear(t, untracked, recorded) <=> \E c \in t.children : Clear(c, untracked, recorded))
           /\ t.op = "or" =>
                 (Clear(t, untracked, recorded) <=> \A c \in t.children : Clear(c, untracked, recorded))
<1> DEFINE val(q) == Evaluate(q, untracked, recorded)
<1>1. PICK bits : /\ AllBits(bits, untracked, recorded)
                  /\ \A q : Evaluate(q, untracked, recorded) = bits[q]
  BY EvaluateUnfolds
<1>2. val(t) = NodeBits(bits, t, untracked, recorded)
  BY <1>1 DEF AllBits
<1>3. ASSUME t.op \in {"and", "or"} PROVE \A c \in t.children : val(c) \in {{}, {TRUE}, {FALSE}}
  <2>1. t.children \subseteq Trees
    BY <1>3, Children
  <2> QED BY <2>1, EvaluateValues
<1> DEFINE bs == {bits[c] : c \in t.children}
<1>4. \A b : b \in bs <=> \E c \in t.children : b = val(c)
  BY <1>1
<1>5. {} # {FALSE} /\ {TRUE} # {FALSE} /\ {TRUE} # {}
  OBVIOUS
<1>6. ASSUME t.op = "and" PROVE Clear(t, untracked, recorded) <=> \E c \in t.children : Clear(c, untracked, recorded)
  <2>1. val(t) = AndBits(bs)
    BY <1>2, <1>6 DEF NodeBits, IsBigram
  <2>2. \A c \in t.children : val(c) \in {{}, {TRUE}, {FALSE}}
    BY <1>3, <1>6
  <2> HIDE DEF bs, val
  <2>3. FALSE \in UNION bs <=> \E c \in t.children : val(c) = {FALSE}
    <3>1. \A b \in {{}, {TRUE}, {FALSE}} : FALSE \in b <=> b = {FALSE}
      <4>1. FALSE \notin {} /\ FALSE \notin {TRUE} /\ FALSE \in {FALSE} /\ {TRUE} # {FALSE} /\ {} # {FALSE}
        OBVIOUS
      <4> QED BY <4>1, Zenon
    <3>2. FALSE \in UNION bs <=> \E b \in bs : FALSE \in b
      OBVIOUS
    <3>3. FALSE \in UNION bs <=> \E c \in t.children : FALSE \in val(c)
      BY <1>4, <3>2, Zenon
    <3>4. \A c \in t.children : FALSE \in val(c) <=> val(c) = {FALSE}
      BY <2>2, <3>1, Zenon
    <3> QED BY <3>3, <3>4, Zenon
  <2> DEFINE P == FALSE \notin UNION bs
  <2>4. P \in BOOLEAN
    OBVIOUS
  <2>5. UNION bs = {} => val(t) = {} /\ P
    BY <2>1 DEF AndBits
  <2>6. UNION bs # {} => val(t) = {P}
    BY <2>1 DEF AndBits
  <2>7. P <=> ~(FALSE \in UNION bs)
    OBVIOUS
  <2> HIDE DEF P
  <2>8. val(t) = {P} => (val(t) = {FALSE} <=> ~P)
    BY <2>4, BooleanBit
  <2> QED BY <1>5, <2>3, <2>5, <2>6, <2>7, <2>8 DEF Clear, val
<1>7. ASSUME t.op = "or"
      PROVE  Clear(t, untracked, recorded) <=> \A c \in t.children : Clear(c, untracked, recorded)
  <2>1. val(t) = OrBits(bs)
    BY <1>2, <1>7 DEF NodeBits, IsBigram
  <2>2. \A c \in t.children : val(c) \in {{}, {TRUE}, {FALSE}}
    BY <1>3, <1>7
  <2> HIDE DEF bs, val
  <2>3. TRUE \in UNION bs <=> \E c \in t.children : val(c) = {TRUE}
    <3>1. \A b \in {{}, {TRUE}, {FALSE}} : TRUE \in b <=> b = {TRUE}
      <4>1. TRUE \notin {} /\ TRUE \notin {FALSE} /\ TRUE \in {TRUE} /\ {FALSE} # {TRUE} /\ {} # {TRUE}
        OBVIOUS
      <4> QED BY <4>1, Zenon
    <3>2. TRUE \in UNION bs <=> \E b \in bs : TRUE \in b
      OBVIOUS
    <3>3. TRUE \in UNION bs <=> \E c \in t.children : TRUE \in val(c)
      BY <1>4, <3>2, Zenon
    <3>4. \A c \in t.children : TRUE \in val(c) <=> val(c) = {TRUE}
      BY <2>2, <3>1, Zenon
    <3> QED BY <3>3, <3>4, Zenon
  <2>a. {} \in bs <=> \E c \in t.children : val(c) = {}
    BY <1>4
  <2> DEFINE P == TRUE \in UNION bs
  <2>4. P \in BOOLEAN
    OBVIOUS
  <2>5. {} \in bs => val(t) = {}
    BY <2>1 DEF OrBits
  <2>6. {} \notin bs => val(t) = {P}
    BY <2>1 DEF OrBits
  <2>7. P <=> TRUE \in UNION bs
    OBVIOUS
  <2> HIDE DEF P
  <2>8. val(t) = {P} => (val(t) = {FALSE} <=> ~P)
    BY <2>4, BooleanBit
  <2>9. (\A c \in t.children : val(c) = {FALSE}) <=> ~(\E c \in t.children : val(c) = {}) /\ ~(\E c \in t.children : val(c) = {TRUE})
    BY <1>5, <2>2
  <2> QED BY <1>5, <2>3, <2>a, <2>5, <2>6, <2>7, <2>8, <2>9 DEF Clear, val
<1> QED BY <1>6, <1>7

\* Finitely many trees that are no higher than n.
Forest(qs, n) == qs \subseteq TreesTo[n] /\ IsFiniteSet(qs)

LEMMA ForestInTrees ==
    ASSUME NEW n \in 0 .. Top
    PROVE  TreesTo[n] \subseteq Trees /\ Leaves \subseteq TreesTo[n]
<1> DEFINE Up(i)   == n + i \in 0 .. Top => TreesTo[n] \subseteq TreesTo[n + i]
           T       == {i \in Nat : Up(i)}
           Down(i) == i \in 0 .. Top => Leaves \subseteq TreesTo[i]
           U       == {i \in Nat : Down(i)}
<1>1. Up(0)
  BY TreesUnfold
<1>2. ASSUME NEW i \in Nat, Up(i) PROVE Up(i + 1)
  <2>1. PICK j \in Nat, k \in Nat : j = n + i /\ k = n + (i + 1) /\ k = j + 1
    BY TreesUnfold
  <2> SUFFICES ASSUME k \in 0 .. Top PROVE TreesTo[n] \subseteq TreesTo[k]
    BY <2>1
  <2>2. j \in 0 .. Top /\ k \in 1 .. Top /\ k - 1 = j
    BY <2>1, TreesUnfold
  <2>3. TreesTo[n] \subseteq TreesTo[j]
    BY <1>2, <2>1, <2>2
  <2>4. TreesTo[j] \subseteq TreesTo[k]
    BY <2>2, TreesGrow
  <2> QED BY <2>3, <2>4
<1>3. Down(0)
  BY TreesUnfold
<1>4. ASSUME NEW i \in Nat, Down(i) PROVE Down(i + 1)
  <2>1. PICK k \in Nat : k = i + 1 /\ k # 0 /\ k - 1 = i
    OBVIOUS
  <2> SUFFICES ASSUME k \in 0 .. Top PROVE Leaves \subseteq TreesTo[k]
    BY <2>1
  <2>2. k \in 1 .. Top
    BY <2>1, TreesUnfold
  <2>3. TreesTo[k] = Over(TreesTo[k - 1])
    BY <2>2, TreesUnfold
  <2> QED BY <2>3 DEF Over
<1> HIDE DEF Up, Down
<1>5. 0 \in T /\ (\A i \in Nat : i \in T => i + 1 \in T) /\ 0 \in U /\ (\A i \in Nat : i \in U => i + 1 \in U)
  BY <1>1, <1>2, <1>3, <1>4
<1> HIDE DEF T, U
<1>6. Nat \subseteq T
  BY <1>5, InductionOver
<1>7. Nat \subseteq U
  BY <1>5, InductionOver
<1>8. PICK i \in Nat : i = Top - n /\ n + i = Top
  BY TreesUnfold
<1>9. Up(i) /\ Down(n)
  <2>1. i \in T /\ n \in U
    BY <1>6, <1>7
  <2> QED BY <2>1 DEF T, U
<1>10. Top \in 0 .. Top /\ Trees = TreesTo[Top]
  BY TreesUnfold
<1>11. TreesTo[n] \subseteq TreesTo[Top]
  BY <1>8, <1>9, <1>10 DEF Up
<1>12. Leaves \subseteq TreesTo[n]
  BY <1>9 DEF Down
<1> QED BY <1>10, <1>11, <1>12

\* What becomes of the children of a node that is being simplified.
Spliced(op, qs) == UNION {SplicedInto(op, q) : q \in qs}

LEMMA SplicedForest ==
    ASSUME NEW n \in 0 .. Top, NEW qs, Forest(qs, n), NEW op \in {"and", "or"}
    PROVE  Forest(Spliced(op, qs), n)
<1>1. ASSUME NEW q \in qs PROVE Forest(SplicedInto(op, q), n)
  <2>1. q \in TreesTo[n]
    BY DEF Forest
  <2>2. CASE q.op # op
    <3>1. SplicedInto(op, q) = {q} /\ IsFiniteSet({q})
      BY <2>2, FS_Singleton DEF SplicedInto
    <3> QED BY <2>1, <3>1 DEF Forest
  <2>3. CASE q.op = op
    <3>1. n # 0 /\ q.children \subseteq TreesTo[n - 1] /\ IsFiniteSet(q.children)
      BY <2>1, <2>3, NodeKinds
    <3>2. n \in 1 .. Top
      BY <3>1, TreesUnfold
    <3>3. TreesTo[n - 1] \subseteq TreesTo[n]
      BY <3>2, TreesGrow
    <3>4. SplicedInto(op, q) = q.children
      BY <2>3 DEF SplicedInto
    <3> QED BY <3>1, <3>3, <3>4 DEF Forest
  <2> QED BY <2>2, <2>3
<1> DEFINE f == [q \in qs |-> SplicedInto(op, q)]
           All == {f[q] : q \in qs}
<1>2. Spliced(op, qs) = UNION All
  BY DEF Spliced
<1>3. \A T \in All : IsFiniteSet(T) /\ T \subseteq TreesTo[n]
  BY <1>1 DEF Forest
<1>4. IsFiniteSet(All)
  <2> HIDE DEF f
  <2> QED BY FiniteImage DEF Forest
<1> HIDE DEF All
<1>5. IsFiniteSet(UNION All)
  BY <1>3, <1>4, FS_UNION
<1>6. UNION All \subseteq TreesTo[n]
  BY <1>3
<1> QED BY <1>2, <1>5, <1>6 DEF Forest

\* A set of one, and of more than one.
LEMMA OneOrMore ==
    ASSUME NEW S, IsFiniteSet(S)
    PROVE  /\ Cardinality(S) = 0 <=> S = {}
           /\ Cardinality(S) = 1 => S = {CHOOSE q \in S : TRUE}
<1>1. Cardinality(S) = 0 <=> S = {}
  BY FS_EmptySet
<1>2. ASSUME Cardinality(S) = 1 PROVE S = {CHOOSE q \in S : TRUE}
  <2>1. PICK x : S = {x}
    BY <1>2, FS_Singleton
  <2>2. (CHOOSE q \in S : TRUE) \in S
    BY <2>1
  <2> QED BY <2>1, <2>2
<1> QED BY <1>1, <1>2

\* A simplified And is clear just when one of its parts is.
LEMMA SimplifyAndClear ==
    ASSUME NEW n \in 0 .. Top, NEW m \in 0 .. Top, m = n + 1, NEW qs, Forest(qs, n), NEW untracked, NEW recorded
    PROVE  /\ SimplifyAnd(qs) \in TreesTo[m]
           /\ Clear(SimplifyAnd(qs), untracked, recorded) <=> \E q \in qs : Clear(q, untracked, recorded)
<1> DEFINE some == qs \ {AnyQuery}
           flat == Spliced("and", some)
           C(q) == Clear(q, untracked, recorded)
<1>1. Forest(some, n)
  BY FS_Subset DEF Forest
<1> HIDE DEF some
<1>2. Forest(flat, n)
  BY <1>1, SplicedForest
<1>3. TreesTo[n] \subseteq Trees /\ AnyQuery \in Leaves /\ Leaves \subseteq TreesTo[m] /\ TreesTo[m] \subseteq Trees
  BY ForestInTrees DEF Leaves
<1>4. ~C(AnyQuery)
  <2>1. AnyQuery.op = "any" /\ AnyQuery \in Trees
    BY <1>3 DEF AnyQuery
  <2> QED BY <2>1, EvaluateValues
<1>5. ASSUME NEW q \in some PROVE C(q) <=> \E c \in SplicedInto("and", q) : C(c)
  <2>1. q \in Trees
    BY <1>1, <1>3 DEF Forest
  <2>2. CASE q.op # "and"
    BY <2>2 DEF SplicedInto
  <2>3. CASE q.op = "and"
    <3>1. C(q) <=> \E c \in q.children : C(c)
      BY <2>1, <2>3, EvaluateNodes
    <3> QED BY <2>3, <3>1 DEF SplicedInto
  <2> QED BY <2>2, <2>3
<1> HIDE DEF C
<1>6. (\E c \in flat : C(c)) <=> \E q \in qs : C(q)
  <2>1. \A c : c \in flat <=> \E q \in some : c \in SplicedInto("and", q)
    BY DEF Spliced
  <2>2. \A q : q \in some <=> q \in qs /\ q # AnyQuery
    BY DEF some
  <2> HIDE DEF flat
  <2> QED BY <1>4, <1>5, <2>1, <2>2
<1>7. SimplifyAnd(qs) = CASE Cardinality(flat) = 0 -> AnyQuery
                          [] Cardinality(flat) = 1 -> CHOOSE q \in flat : TRUE
                          [] OTHER                 -> And(flat)
  BY DEF SimplifyAnd, Spliced, some
<1> HIDE DEF flat
<1>8. IsFiniteSet(flat) /\ flat \subseteq TreesTo[n]
  BY <1>2 DEF Forest
<1>9. CASE Cardinality(flat) = 0
  <2>1. flat = {} /\ SimplifyAnd(qs) = AnyQuery
    BY <1>7, <1>8, <1>9, OneOrMore
  <2> QED BY <1>3, <1>4, <1>6, <2>1 DEF C
<1>10. CASE Cardinality(flat) = 1
  <2>1. PICK x : x = CHOOSE q \in flat : TRUE
    OBVIOUS
  <2>2. flat = {x} /\ SimplifyAnd(qs) = x
    <3>1. Cardinality(flat) # 0
      BY <1>10
    <3>2. SimplifyAnd(qs) = CHOOSE q \in flat : TRUE
      BY <1>7, <1>10, <3>1
    <3> QED BY <1>8, <1>10, <2>1, <3>2, OneOrMore
  <2>3. TreesTo[n] \subseteq TreesTo[m]
    <3>1. m \in 1 .. Top /\ m - 1 = n
      BY TreesUnfold
    <3> QED BY <3>1, TreesGrow
  <2> QED BY <1>6, <1>8, <2>2, <2>3 DEF C
<1>11. CASE Cardinality(flat) # 0 /\ Cardinality(flat) # 1
  <2>1. SimplifyAnd(qs) = And(flat)
    BY <1>7, <1>11
  <2>2. And(flat) \in TreesTo[m]
    <3>1. m \in 1 .. Top /\ m - 1 = n
      BY TreesUnfold
    <3>2. TreesTo[m] = Over(TreesTo[n])
      BY <3>1, TreesUnfold
    <3> QED BY <1>8, <3>2 DEF Over, FiniteSubsets, And
  <2>3. And(flat).op = "and" /\ And(flat).children = flat
    BY DEF And
  <2>4. C(And(flat)) <=> \E c \in flat : C(c)
    <3>1. And(flat) \in Trees
      BY <1>3, <2>2
    <3> QED BY <2>3, <3>1, EvaluateNodes DEF C
  <2> QED BY <1>6, <2>1, <2>2, <2>4 DEF C
<1> QED BY <1>9, <1>10, <1>11

\* A simplified Or is only clear when all its parts are.
LEMMA SimplifyOrClear ==
    ASSUME NEW n \in 0 .. Top, NEW m \in 0 .. Top, m = n + 1, NEW qs, Forest(qs, n), NEW untracked, NEW recorded
    PROVE  /\ SimplifyOr(qs) \in TreesTo[m]
           /\ Clear(SimplifyOr(qs), untracked, recorded) => \A q \in qs : Clear(q, untracked, recorded)
<1> DEFINE flat == Spliced("or", qs)
           C(q) == Clear(q, untracked, recorded)
<1>2. Forest(flat, n)
  BY SplicedForest
<1>3. TreesTo[n] \subseteq Trees /\ AnyQuery \in Leaves /\ Leaves \subseteq TreesTo[m] /\ TreesTo[m] \subseteq Trees
  BY ForestInTrees DEF Leaves
<1>4. ~C(AnyQuery)
  <2>1. AnyQuery.op = "any" /\ AnyQuery \in Trees
    BY <1>3 DEF AnyQuery
  <2> QED BY <2>1, EvaluateValues
<1>5. ASSUME NEW q \in qs PROVE C(q) <=> \A c \in SplicedInto("or", q) : C(c)
  <2>1. q \in Trees
    BY <1>3 DEF Forest
  <2>2. CASE q.op # "or"
    BY <2>2 DEF SplicedInto
  <2>3. CASE q.op = "or"
    <3>1. C(q) <=> \A c \in q.children : C(c)
      BY <2>1, <2>3, EvaluateNodes
    <3> QED BY <2>3, <3>1 DEF SplicedInto
  <2> QED BY <2>2, <2>3
<1> HIDE DEF C
<1>6. (\A c \in flat : C(c)) <=> \A q \in qs : C(q)
  <2>1. \A c : c \in flat <=> \E q \in qs : c \in SplicedInto("or", q)
    BY DEF Spliced
  <2> HIDE DEF flat
  <2> QED BY <1>5, <2>1
<1>7. SimplifyOr(qs) = CASE AnyQuery \in qs \/ flat = {} -> AnyQuery
                         [] Cardinality(flat) = 1        -> CHOOSE q \in flat : TRUE
                         [] OTHER                        -> Or(flat)
  BY DEF SimplifyOr, Spliced
<1> HIDE DEF flat
<1>8. IsFiniteSet(flat) /\ flat \subseteq TreesTo[n]
  BY <1>2 DEF Forest
<1>a. m \in 1 .. Top /\ m - 1 = n
  BY TreesUnfold
<1>9. CASE AnyQuery \in qs \/ flat = {}
  <2>1. SimplifyOr(qs) = AnyQuery \/ (Cardinality(flat) = 1 /\ SimplifyOr(qs) = CHOOSE q \in flat : TRUE)
    BY <1>7, <1>9
  <2>2. CASE SimplifyOr(qs) = AnyQuery
    BY <1>3, <1>4, <2>2 DEF C
  <2>3. CASE Cardinality(flat) = 1 /\ SimplifyOr(qs) = CHOOSE q \in flat : TRUE
    <3>1. PICK x : x = CHOOSE q \in flat : TRUE
      OBVIOUS
    <3>2. flat = {x} /\ SimplifyOr(qs) = x
      BY <1>8, <2>3, <3>1, OneOrMore
    <3>3. TreesTo[n] \subseteq TreesTo[m]
      BY <1>a, TreesGrow
    <3> QED BY <1>6, <1>8, <3>2, <3>3 DEF C
  <2> QED BY <2>1, <2>2, <2>3
<1>10. CASE ~(AnyQuery \in qs \/ flat = {}) /\ Cardinality(flat) = 1
  <2>1. PICK x : x = CHOOSE q \in flat : TRUE
    OBVIOUS
  <2>2. flat = {x} /\ SimplifyOr(qs) = x
    <3>1. SimplifyOr(qs) = CHOOSE q \in flat : TRUE
      BY <1>7, <1>10
    <3> QED BY <1>8, <1>10, <2>1, <3>1, OneOrMore
  <2>3. TreesTo[n] \subseteq TreesTo[m]
    BY <1>a, TreesGrow
  <2> QED BY <1>6, <1>8, <2>2, <2>3 DEF C
<1>11. CASE ~(AnyQuery \in qs \/ flat = {}) /\ Cardinality(flat) # 1
  <2>1. SimplifyOr(qs) = Or(flat)
    BY <1>7, <1>11
  <2>2. Or(flat) \in TreesTo[m]
    <3>2. TreesTo[m] = Over(TreesTo[n])
      BY <1>a, TreesUnfold
    <3> QED BY <1>8, <3>2 DEF Over, FiniteSubsets, Or
  <2>3. Or(flat).op = "or" /\ Or(flat).children = flat
    BY DEF Or
  <2>4. C(Or(flat)) <=> \A c \in flat : C(c)
    <3>1. Or(flat) \in Trees
      BY <1>3, <2>2
    <3> QED BY <2>3, <3>1, EvaluateNodes DEF C
  <2> QED BY <1>6, <2>1, <2>2, <2>4 DEF C
<1> QED BY <1>9, <1>10, <1>11

\* The pair of the bytes at i and at i + distance, if both are printable.
PairAt(q, op, s, distance, i) ==
    /\ {s[i], s[i + distance]} \subseteq Printable
    /\ q = Bigram(op, <<Lower[s[i]], Lower[s[i + distance]]>>)

LEMMA WindowsMember ==
    ASSUME NEW op, NEW s, NEW distance, NEW q
    PROVE  q \in Windows(op, s, distance) <=> \E i \in 1 .. Len(s) - distance : PairAt(q, op, s, distance, i)
BY DEF Windows, PairAt

LEMMA WindowsForest ==
    ASSUME NEW op \in {"consec", "skip1"}, NEW s \in Seq(Byte), NEW distance \in Nat, NEW n \in 0 .. Top
    PROVE  Forest(Windows(op, s, distance), n)
<1> DEFINE W == Windows(op, s, distance)
           D == {j \in 1 .. Len(s) - distance : {s[j], s[j + distance]} \subseteq Printable}
           f == [i \in D |-> Bigram(op, <<Lower[s[i]], Lower[s[i + distance]]>>)]
<1>1. PICK l \in Int : l = Len(s) - distance /\ \A j \in 1 .. l : j \in 1 .. Len(s) /\ j + distance \in 1 .. Len(s)
  <2>1. Len(s) \in Nat
    OBVIOUS
  <2>2. Len(s) - distance \in Int /\ \A j \in 1 .. Len(s) - distance : j \in 1 .. Len(s) /\ j + distance \in 1 .. Len(s)
    BY <2>1
  <2> QED BY <2>2
<1>2. W \subseteq Leaves
  <2> SUFFICES ASSUME NEW q \in W PROVE q \in Leaves
    OBVIOUS
  <2>1. PICK i \in 1 .. Len(s) - distance : PairAt(q, op, s, distance, i)
    BY WindowsMember
  <2>2. s[i] \in Byte /\ s[i + distance] \in Byte
    BY <1>1
  <2>3. Lower[s[i]] \in Byte /\ Lower[s[i + distance]] \in Byte
    BY <2>2, LowerAssumption
  <2> QED BY <2>1, <2>3 DEF PairAt, Bigram, Leaves
<1>3. W = {f[i] : i \in D}
  BY DEF Windows
<1>4. IsFiniteSet(D)
  <2>1. IsFiniteSet(1 .. l)
    BY FS_Interval
  <2>2. D \in SUBSET (1 .. l)
    BY <1>1
  <2> HIDE DEF D
  <2> QED BY <2>1, <2>2, FS_Subset
<1>5. IsFiniteSet({f[i] : i \in D})
  <2> HIDE DEF f, D
  <2> QED BY <1>4, FiniteImage
<1>6. IsFiniteSet(W)
  BY <1>3, <1>5
<1>7. Leaves \subseteq TreesTo[n]
  BY ForestInTrees
<1> HIDE DEF W
<1>8. Forest(W, n)
  BY <1>2, <1>6, <1>7 DEF Forest
<1> QED BY <1>8 DEF W

\* The pairs of a part are pairs of the whole.
LEMMA WindowsOfPart ==
    ASSUME NEW sub \in Seq(Byte), NEW s \in Seq(Byte), Occurrences(sub, s) # {}, NEW op, NEW distance \in Nat
    PROVE  Windows(op, sub, distance) \subseteq Windows(op, s, distance)
<1>1. PICK m \in Nat, n \in Nat : m = Len(sub) /\ n = Len(s) /\ DOMAIN sub = 1 .. m
  OBVIOUS
<1>2. PICK o \in 0 .. n - m : \A k \in 1 .. m : s[o + k] = sub[k]
  BY <1>1 DEF Occurrences
<1> SUFFICES ASSUME NEW q \in Windows(op, sub, distance) PROVE q \in Windows(op, s, distance)
  OBVIOUS
<1>3. PICK i \in 1 .. m - distance : PairAt(q, op, sub, distance, i)
  BY <1>1, WindowsMember
<1>4. PICK j \in 1 .. n - distance : j = o + i
  BY <1>1, <1>2, <1>3
<1>5. i \in 1 .. m /\ i + distance \in 1 .. m /\ j + distance = o + (i + distance)
  BY <1>1, <1>2, <1>3, <1>4
<1>6. s[j] = sub[i]
  BY <1>2, <1>4, <1>5
<1>7. s[j + distance] = sub[i + distance]
  <2>1. PICK k \in 1 .. m : k = i + distance
    BY <1>5
  <2>2. s[o + k] = sub[k] /\ o + k = j + distance
    BY <1>2, <1>5, <2>1
  <2> QED BY <2>1, <2>2
<1>8. PairAt(q, op, s, distance, j)
  BY <1>3, <1>6, <1>7 DEF PairAt
<1> QED BY <1>1, <1>4, <1>8, WindowsMember

\* The prefilter lets every text pass that has the term in it, whatever columns
\* the index has.
LEMMA LiteralIncludes ==
    ASSUME NEW term \in Seq(Byte), NEW s \in Seq(Byte), Occurrences(term, s) # {}, NEW untracked
    PROVE  Includes(LiteralQuery(term), untracked, s) /\ LiteralQuery(term) \in Trees
<1> DEFINE one == Windows("consec", term, 1)
           two == Windows("skip1", term, 2)
           qs  == one \cup two
<1>1. 0 \in 0 .. Top /\ 1 \in 0 .. Top /\ 1 = 0 + 1
  BY TreesUnfold
<1>2. Forest(one, 0) /\ Forest(two, 0)
  BY <1>1, WindowsForest
<1>3. one \subseteq TextBigrams(s) /\ two \subseteq TextBigrams(s)
  BY WindowsOfPart DEF TextBigrams
<1>4. \A q \in one \cup two : IsBigram(q)
  BY WindowsMember DEF PairAt, Bigram, IsBigram
<1> HIDE DEF one, two
<1>5. Forest(qs, 0)
  <2>1. IsFiniteSet(one) /\ IsFiniteSet(two)
    BY <1>2 DEF Forest
  <2>2. IsFiniteSet(one \cup two)
    BY <2>1, FS_Union
  <2> QED BY <1>2, <2>2 DEF Forest
<1>6. TreesTo[0] \subseteq Trees /\ TreesTo[1] \subseteq Trees
  BY <1>1, ForestInTrees
<1>7. ASSUME NEW q \in qs PROVE ~Clear(q, untracked, TextBigrams(s))
  <2>1. q \in Trees /\ IsBigram(q) /\ q \in TextBigrams(s)
    BY <1>3, <1>4, <1>5, <1>6 DEF Forest
  <2> QED BY <2>1, EvaluateValues
<1>8. LiteralQuery(term) = SimplifyAnd(qs)
  BY DEF LiteralQuery, one, two
<1> HIDE DEF qs
<1>9. SimplifyAnd(qs) \in TreesTo[1] /\ ~Clear(SimplifyAnd(qs), untracked, TextBigrams(s))
  BY <1>1, <1>5, <1>7, SimplifyAndClear
<1> QED BY <1>6, <1>8, <1>9 DEF Includes, Clear

-----------------------------------------------------------------------------
(* Parts of texts, and the windows that hold them.                         *)

LEMMA WhiteSubSeq ==
    ASSUME NEW T, NEW s \in Seq(T), NEW i \in 1 .. Len(s), NEW j \in 1 .. Len(s)
    PROVE  IsWhite(SubSeq(s, i, j)) <=> \A k \in i .. j : s[k] \in Whitespace
<1> DEFINE sub == SubSeq(s, i, j)
<1>1. /\ sub \in Seq(T)
      /\ Len(sub) = IF i <= j THEN j - i + 1 ELSE 0
      /\ \A k \in 1 .. j - i + 1 : sub[k] = s[i + k - 1]
  BY SubSeqProperties, \A k \in i .. j : s[k] \in T
<1> HIDE DEF sub
<1>2. DOMAIN sub = 1 .. Len(sub)
  BY <1>1
<1>3. ASSUME \A k \in i .. j : s[k] \in Whitespace PROVE \A k \in DOMAIN sub : sub[k] \in Whitespace
  BY <1>1, <1>2, <1>3
<1>4. ASSUME \A k \in DOMAIN sub : sub[k] \in Whitespace, NEW k \in i .. j PROVE s[k] \in Whitespace
  <2>1. k - i + 1 \in DOMAIN sub /\ sub[k - i + 1] = s[k]
    BY <1>1, <1>2
  <2> QED BY <2>1, <1>4
<1>5. IsWhite(sub) <=> \A k \in i .. j : s[k] \in Whitespace
  BY <1>3, <1>4 DEF IsWhite
<1> QED BY <1>5 DEF sub

LEMMA SubSeqFacts ==
    ASSUME NEW S, NEW s \in Seq(S), NEW m \in Nat, NEW n \in Nat, n <= Len(s)
    PROVE  /\ SubSeq(s, m + 1, n) \in Seq(S) /\ Len(SubSeq(s, m + 1, n)) = IF m <= n THEN n - m ELSE 0
           /\ \A i \in 1 .. n - m : SubSeq(s, m + 1, n)[i] = s[m + i]
<1>1. \A i \in m + 1 .. n : s[i] \in S
  OBVIOUS
<1> DEFINE x == SubSeq(s, m + 1, n)
<1>2. /\ x \in Seq(S) /\ Len(x) = IF m + 1 <= n THEN n - (m + 1) + 1 ELSE 0
      /\ \A i \in 1 .. n - (m + 1) + 1 : x[i] = s[m + 1 + i - 1]
  BY <1>1, SubSeqProperties
<1> HIDE DEF x
<1>3. Len(x) = IF m <= n THEN n - m ELSE 0
  BY <1>2
<1>4. ASSUME NEW i \in 1 .. n - m PROVE x[i] = s[m + i]
  <2>1. i \in 1 .. n - (m + 1) + 1 /\ m + 1 + i - 1 = m + i
    OBVIOUS
  <2> QED BY <1>2, <2>1
<1> QED BY <1>2, <1>3, <1>4 DEF x

\* A stretch within a longer one, in three parts.
LEMMA ThreeParts ==
    ASSUME NEW S, NEW s \in Seq(S), NEW f \in Nat, NEW i \in Nat, NEW j \in Nat, NEW t \in Nat,
           f <= i, i <= j, j <= t, t <= Len(s)
    PROVE  SubSeq(s, f + 1, t) = (SubSeq(s, f + 1, i) \o SubSeq(s, i + 1, j)) \o SubSeq(s, j + 1, t)
<1>1. f + 1 \in 1 .. Len(s) + 1 /\ i \in (f + 1) - 1 .. Len(s) /\ j \in i .. Len(s)
  OBVIOUS
<1>2. SubSeq(s, f + 1, i) \o SubSeq(s, i + 1, j) = SubSeq(s, f + 1, j)
  BY <1>1, ConcatAdjacentSubSeq
<1>3. j \in (f + 1) - 1 .. Len(s) /\ t \in j .. Len(s)
  OBVIOUS
<1>4. SubSeq(s, f + 1, j) \o SubSeq(s, j + 1, t) = SubSeq(s, f + 1, t)
  BY <1>1, <1>3, ConcatAdjacentSubSeq
<1> QED BY <1>2, <1>4

\* y is in s after its first a elements.
PartAt(a, y, s) == a + Len(y) <= Len(s) /\ \A i \in 1 .. Len(y) : s[a + i] = y[i]

\* A part of a text is folded as it is on its own.
LEMMA FoldedInside ==
    ASSUME NEW x \in Seq(Char), NEW y \in Seq(Char), NEW z \in Seq(Char), NEW text, text = (x \o y) \o z
    PROVE  /\ Fold(y) \in Seq(Byte) /\ Fold(text) \in Seq(Byte) /\ NormalizeForIndex(text) \in Seq(Byte)
           /\ \E a \in Nat : PartAt(a, Fold(y), Fold(text))
<1> DEFINE fx == Fold(x)
           fy == Fold(y)
           fz == Fold(z)
           s  == (fx \o fy) \o fz
<1>1. fx \in Seq(Byte) /\ fy \in Seq(Byte) /\ fz \in Seq(Byte) /\ Fold(text) = s /\ text \in Seq(Char)
  <2>1. x \o y \in Seq(Char) /\ (x \o y) \o z \in Seq(Char)
    BY ConcatProperties
  <2>2. fx \in Seq(Byte) /\ fy \in Seq(Byte) /\ fz \in Seq(Byte) /\ Fold(x \o y) = fx \o fy
    BY FoldConcat
  <2>3. Fold((x \o y) \o z) = Fold(x \o y) \o fz
    BY <2>1, FoldConcat
  <2> QED BY <2>1, <2>2, <2>3
<1> HIDE DEF fx, fy, fz
<1>2. /\ s \in Seq(Byte) /\ Len(fx) \in Nat /\ Len(fx) + Len(fy) <= Len(s)
      /\ \A i \in 1 .. Len(fy) : s[Len(fx) + i] = fy[i]
  <2> DEFINE u == fx \o fy
  <2>1. u \in Seq(Byte) /\ Len(u) = Len(fx) + Len(fy) /\ \A i \in 1 .. Len(fy) : u[Len(fx) + i] = fy[i]
    BY <1>1, ConcatProperties
  <2>2. Len(fx) \in Nat /\ Len(fy) \in Nat /\ Len(fz) \in Nat
    BY <1>1
  <2> HIDE DEF u
  <2>3. u \o fz \in Seq(Byte) /\ Len(u \o fz) = Len(u) + Len(fz) /\ \A i \in 1 .. Len(u) : (u \o fz)[i] = u[i]
    <3>1. u \in Seq(Byte) /\ fz \in Seq(Byte)
      BY <1>1, <2>1
    <3>2. /\ u \o fz \in Seq(Byte) /\ Len(u \o fz) = Len(u) + Len(fz)
          /\ \A i \in 1 .. Len(u) + Len(fz) : (u \o fz)[i] = IF i <= Len(u) THEN u[i] ELSE fz[i - Len(u)]
      BY <3>1, ConcatProperties
    <3>3. \A i \in 1 .. Len(u) : i \in 1 .. Len(u) + Len(fz) /\ i <= Len(u)
      BY <2>1, <2>2
    <3> QED BY <3>2, <3>3
  <2>4. ASSUME NEW i \in 1 .. Len(fy) PROVE (u \o fz)[Len(fx) + i] = fy[i]
    <3>1. PICK k \in 1 .. Len(u) : k = Len(fx) + i
      BY <2>1, <2>2
    <3> QED BY <2>1, <2>3, <3>1
  <2> QED BY <2>1, <2>2, <2>3, <2>4 DEF u
<1> HIDE DEF s
<1>3. PartAt(Len(fx), fy, s)
  BY <1>2 DEF PartAt
<1>4. NormalizeForIndex(text) \in Seq(Byte)
  BY <1>1, NormalizeTyped
<1>5. \E a \in Nat : PartAt(a, fy, s)
  BY <1>2, <1>3
<1> QED BY <1>1, <1>2, <1>4, <1>5 DEF fy

LEMMA PartIsFound ==
    ASSUME NEW s \in Seq(Byte), NEW y \in Seq(Byte), \E a \in Nat : PartAt(a, y, s),
           NEW m \in 1 .. Len(y), y[m] \notin AsciiBlank,
           NEW g, g = Sift(Spaced(y, AsciiBlank), Kept(y, AsciiBlank, m)), g \in Seq(Byte)
    PROVE  Occurrences(g, CollapseBlanks(s, AsciiBlank)) # {}
<1>1. PICK a \in Nat : a + Len(y) <= Len(s) /\ \A i \in 1 .. Len(y) : s[a + i] = y[i]
  BY DEF PartAt
<1>2. Space \in Byte /\ Space \in AsciiBlank
  BY TextAssumption
<1> QED BY <1>1, <1>2, CollapseFinds

\* What is normalised of a part is found in what the whole is normalised to.
LEMMA NormalizedIsFound ==
    ASSUME NEW x \in Seq(Char), NEW y \in Seq(Char), NEW z \in Seq(Char), NEW text, text = (x \o y) \o z,
           NormalizeForIndex(y) # <<>>
    PROVE  Occurrences(NormalizeForIndex(y), NormalizeForIndex(text)) # {}
<1> DEFINE fy    == Fold(y)
           typed == CollapseBlanks(fy, AsciiBlank)
<1>1. fy \in Seq(Byte) /\ Fold(text) \in Seq(Byte) /\ \E a \in Nat : PartAt(a, fy, Fold(text))
  BY FoldedInside
<1>2. NormalizeForIndex(y) = typed /\ NormalizeForIndex(text) = CollapseBlanks(Fold(text), AsciiBlank)
  BY DEF NormalizeForIndex
<1>3. Space \in Byte /\ Space \in AsciiBlank
  BY TextAssumption
<1> HIDE DEF fy
<1>4. PICK m \in 1 .. Len(fy) : /\ fy[m] \notin AsciiBlank
                                /\ typed = Sift(Spaced(fy, AsciiBlank), Kept(fy, AsciiBlank, m)) /\ typed \in Seq(Byte)
  BY <1>1, <1>2, <1>3, CollapseKeeps
<1> HIDE DEF typed
<1>5. Occurrences(typed, CollapseBlanks(Fold(text), AsciiBlank)) # {}
  BY <1>1, <1>4, PartIsFound
<1> QED BY <1>2, <1>5

\* A window that holds a stretch which is not white makes a chunk of it.
LEMMA WindowHoldsStretch ==
    ASSUME NEW T, NEW pg \in Seq(T), NEW p, NEW o,
           NEW from \in Nat, NEW to \in Nat, from < to, to <= Len(pg),
           NEW i \in DOMAIN pg, NEW j \in DOMAIN pg, i <= j, from < i, j <= to,
           ~IsWhite(SubSeq(pg, i, j))
    PROVE  BuildChunk(pg, p, o, from, to) = {Chunk(p, o, from, to)}
<1>1. i \in 1 .. Len(pg) /\ j \in 1 .. Len(pg) /\ from + 1 \in 1 .. Len(pg) /\ to \in 1 .. Len(pg)
  OBVIOUS
<1>2. PICK k \in i .. j : pg[k] \notin Whitespace
  BY <1>1, WhiteSubSeq
<1>3. k \in from + 1 .. to
  BY <1>1, <1>2
<1>4. ~IsWhite(SubSeq(pg, from + 1, to))
  BY <1>1, <1>2, <1>3, WhiteSubSeq
<1> QED BY <1>4 DEF BuildChunk

\* A stretch that is no longer than one more than the overlap is inside one of
\* the windows of the closed form.
LEMMA StretchInWindow ==
    ASSUME NEW n \in Nat, NEW i \in 1 .. n, NEW j \in i .. n, j <= i + Overlap
    PROVE  \E k \in 0 .. LastWindow(n) : k * Step < i /\ j <= AtMost(k * Step + Window, n)
<1>1. Step \in Nat /\ Window \in Nat /\ Overlap \in Nat /\ Window = Step + Overlap
  BY WindowAssumption DEF Step
<1>2. PICK L \in Nat : L = LastWindow(n)
  BY LastWindowIs
<1> DEFINE T == {k \in Nat : k >= L \/ (k + 1) * Step >= i}
<1>3. PICK m \in T : \A k \in T : m <= k
  <2>1. L \in T /\ T \in SUBSET Nat
    BY <1>2
  <2> HIDE DEF T
  <2> QED BY <2>1, LeastNumber
<1>4. m \in 0 .. L
  <2>1. L \in T
    BY <1>2
  <2> QED BY <1>3, <2>1
<1>5. PICK at \in Nat : at = m * Step
  BY <1>1, <1>4
<1>6. (m + 1) * Step = at + Step
  BY <1>1, <1>4, <1>5
<1>7. at < i
  <2>1. CASE m = 0
    BY <1>1, <1>5, <2>1
  <2>2. CASE m # 0
    <3>1. PICK k \in Nat : m = k + 1
      <4>1. m - 1 \in Nat /\ m = (m - 1) + 1
        BY <1>4, <2>2
      <4> QED BY <4>1
    <3>2. k \notin T
      BY <1>3, <3>1
    <3>3. ~((k + 1) * Step >= i)
      BY <3>2
    <3> QED BY <1>1, <1>4, <1>5, <3>1, <3>3
  <2> QED BY <2>1, <2>2
<1>8. j <= at + Window
  <2>1. CASE (m + 1) * Step >= i
    BY <1>1, <1>6, <2>1
  <2>2. CASE m >= L
    <3>1. m + 1 \in Nat /\ ~(m + 1 <= L) /\ m + 1 # 0
      BY <1>2, <1>4, <2>2
    <3>2. ~((m + 1) * Step + Overlap < n)
      BY <1>2, <3>1, LastWindowIs
    <3>3. ~((at + Step) + Overlap < n)
      BY <1>6, <3>2
    <3> QED BY <1>1, <3>3
  <2> QED BY <1>3, <2>1, <2>2
<1>9. j <= AtMost(at + Window, n)
  BY <1>8 DEF AtMost
<1> QED BY <1>2, <1>4, <1>5, <1>7, <1>9

-----------------------------------------------------------------------------
(* Expressions, and recursion over them.                                   *)

\* The expressions whose parts are in S.
HirsOver(S) ==
    [kind : {"literal"}, bytes : Seq(Byte) \ {<<>>}]
    \cup [kind : {"class"}, unicode : BOOLEAN, ranges : Seq(SUBSET Byte)]
    \cup [kind : {"look"}, at : {"start", "end"}] \cup [kind : {"empty"}]
    \cup [kind : {"repetition"}, sub : S, min : Nat, max : Nat \cup {Unbounded}]
    \cup [kind : {"capture"}, sub : S]
    \cup [kind : {"concat"}, parts : Seq(S)] \cup [kind : {"alternation"}, alts : Seq(S) \ {<<>>}]

LEMMA HirsUnfold ==
    /\ NestLimit \in Nat /\ HirsTo[0] = HirsOver({})
    /\ \A n \in 1 .. NestLimit : HirsTo[n] = HirsOver(HirsTo[n - 1])
<1>1. NestLimit \in Nat
  BY TreesAssumption
<1> DEFINE Base    == HirsOver({})
           turn(f) == [n \in 0 .. NestLimit |-> IF n = 0 THEN Base ELSE HirsOver(f[n - 1])]
           Tower(f, n) == f = [i \in 0 .. n |-> f[i]] /\ f[0] = Base /\ \A i \in 1 .. n : f[i] = HirsOver(f[i - 1])
           Good(n) == \E f : Tower(f, n)
           S == {n \in Nat : Good(n)}
<1> HIDE DEF Base
<1>2. Good(0)
  <2> DEFINE f == [i \in 0 .. 0 |-> Base]
  <2>1. Tower(f, 0)
    OBVIOUS
  <2> QED BY <2>1
<1>3. ASSUME NEW n \in Nat, Good(n) PROVE Good(n + 1)
  <2>1. PICK f : Tower(f, n)
    BY <1>3
  <2>2. PICK j \in Nat : j = n + 1
    OBVIOUS
  <2> DEFINE g == [i \in 0 .. j |-> IF i = j THEN HirsOver(f[n]) ELSE f[i]]
  <2>3. g = [i \in 0 .. j |-> g[i]] /\ g[0] = Base
    BY <2>1, <2>2
  <2>4. \A i \in 1 .. j : g[i] = HirsOver(g[i - 1])
    <3> SUFFICES ASSUME NEW i \in 1 .. j PROVE g[i] = HirsOver(g[i - 1])
      OBVIOUS
    <3>1. g[i - 1] = f[i - 1]
      BY <2>2
    <3>2. CASE i = j
      <4>1. g[i] = HirsOver(f[n]) /\ i - 1 = n
        BY <2>2, <3>2
      <4> QED BY <3>1, <4>1
    <3>3. CASE i # j
      <4>1. g[i] = f[i] /\ i \in 1 .. n
        BY <2>2, <3>3
      <4> QED BY <2>1, <3>1, <4>1
    <3> QED BY <3>2, <3>3
  <2> HIDE DEF g
  <2>5. Tower(g, j)
    BY <2>3, <2>4
  <2> HIDE DEF Tower
  <2> QED BY <2>2, <2>5
<1> HIDE DEF Good
<1>4. Nat \subseteq S
  <2>1. 0 \in S /\ \A n \in Nat : n \in S => n + 1 \in S
    BY <1>2, <1>3
  <2> HIDE DEF S
  <2> QED BY <2>1, InductionOver
<1>5. PICK f : Tower(f, NestLimit)
  BY <1>1, <1>4 DEF Good
<1>6. f = turn(f)
  <2>1. \A n \in 0 .. NestLimit : f[n] = IF n = 0 THEN Base ELSE HirsOver(f[n - 1])
    <3> SUFFICES ASSUME NEW n \in 0 .. NestLimit PROVE f[n] = IF n = 0 THEN Base ELSE HirsOver(f[n - 1])
      OBVIOUS
    <3>1. n # 0 => n \in 1 .. NestLimit
      BY <1>1
    <3> QED BY <1>5, <3>1
  <2> QED BY <1>5, <2>1
<1>7. HirsTo = CHOOSE g : g = turn(g)
  <2> DEFINE from(g) == [n \in 0 .. NestLimit |->
        LET sub == IF n = 0 THEN {} ELSE g[n - 1]
        IN  [kind : {"literal"}, bytes : Seq(Byte) \ {<<>>}]
            \cup [kind : {"class"}, unicode : BOOLEAN, ranges : Seq(SUBSET Byte)]
            \cup [kind : {"look"}, at : {"start", "end"}] \cup [kind : {"empty"}]
            \cup [kind : {"repetition"}, sub : sub, min : Nat, max : Nat \cup {Unbounded}]
            \cup [kind : {"capture"}, sub : sub]
            \cup [kind : {"concat"}, parts : Seq(sub)] \cup [kind : {"alternation"}, alts : Seq(sub) \ {<<>>}]]
  <2>1. HirsTo = CHOOSE g : g = from(g)
    BY DEF HirsTo
  <2>2. \A g : from(g) = turn(g)
    <3> SUFFICES ASSUME NEW g PROVE from(g) = turn(g)
      OBVIOUS
    <3> DEFINE below(n) == IF n = 0 THEN {} ELSE g[n - 1]
    <3>1. from(g) = [n \in 0 .. NestLimit |-> HirsOver(below(n))]
      BY Zenon DEF HirsOver
    <3>2. ASSUME NEW n \in 0 .. NestLimit PROVE HirsOver(below(n)) = IF n = 0 THEN Base ELSE HirsOver(g[n - 1])
      <4>1. CASE n = 0
        <5>1. below(n) = {}
          BY <4>1
        <5> QED BY <4>1, <5>1 DEF Base
      <4>2. CASE n # 0
        <5>1. below(n) = g[n - 1]
          BY <4>2
        <5> QED BY <4>2, <5>1
      <4> QED BY <4>1, <4>2
    <3> HIDE DEF below, from
    <3> QED BY <3>1, <3>2
  <2> HIDE DEF turn, from
  <2> QED BY <2>1, <2>2
<1>8. HirsTo = turn(HirsTo)
  <2> HIDE DEF turn
  <2> QED BY <1>6, <1>7
<1>9. HirsTo[0] = Base /\ \A n \in 1 .. NestLimit : HirsTo[n] = HirsOver(HirsTo[n - 1])
  <2>1. \A n \in 0 .. NestLimit : HirsTo[n] = IF n = 0 THEN Base ELSE HirsOver(HirsTo[n - 1])
    <3> HIDE DEF HirsTo
    <3> QED BY <1>8
  <2>2. 0 \in 0 .. NestLimit /\ \A n \in 1 .. NestLimit : n \in 0 .. NestLimit /\ n # 0
    BY <1>1
  <2> QED BY <2>1, <2>2
<1> QED BY <1>1, <1>9 DEF Base

\* The expressions that may be parts of those in HirsTo[n].
Below(n) == IF n = 0 THEN {} ELSE HirsTo[n - 1]

LEMMA HirsAt ==
    ASSUME NEW n \in 0 .. NestLimit
    PROVE  HirsTo[n] = HirsOver(Below(n))
<1>1. CASE n = 0
  BY <1>1, HirsUnfold DEF Below
<1>2. CASE n # 0
  <2>1. n \in 1 .. NestLimit
    BY <1>2, HirsUnfold
  <2> QED BY <1>2, <2>1, HirsUnfold DEF Below
<1> QED BY <1>1, <1>2

\* The parts of an expression.
Subs(hir) ==
    IF hir.kind \in {"repetition", "capture"} THEN {hir.sub}
    ELSE IF hir.kind = "concat" THEN {hir.parts[i] : i \in DOMAIN hir.parts}
    ELSE IF hir.kind = "alternation" THEN {hir.alts[i] : i \in DOMAIN hir.alts}
    ELSE {}

\* What the fields of an expression are.
WellFormed(hir, S) ==
    /\ hir.kind \in {"literal", "class", "look", "empty", "repetition", "capture", "concat", "alternation"}
    /\ hir.kind = "literal" => hir.bytes \in Seq(Byte) \ {<<>>}
    /\ hir.kind = "class" => hir.ranges \in Seq(SUBSET Byte)
    /\ hir.kind = "repetition" => hir.min \in Nat /\ hir.max \in Nat \cup {Unbounded}
    /\ hir.kind \in {"repetition", "capture"} => hir.sub \in S
    /\ hir.kind = "concat" => hir.parts \in Seq(S)
    /\ hir.kind = "alternation" => hir.alts \in Seq(S) \ {<<>>}

LEMMA HirKinds ==
    ASSUME NEW S, NEW hir \in HirsOver(S)
    PROVE  WellFormed(hir, S) /\ Subs(hir) \subseteq S
<1>1. WellFormed(hir, S)
  BY DEF HirsOver, WellFormed
<1>2. ASSUME hir.kind = "concat" PROVE {hir.parts[i] : i \in DOMAIN hir.parts} \subseteq S
  BY <1>1, <1>2 DEF WellFormed
<1>3. ASSUME hir.kind = "alternation" PROVE {hir.alts[i] : i \in DOMAIN hir.alts} \subseteq S
  BY <1>1, <1>3 DEF WellFormed
<1>4. ASSUME hir.kind \in {"repetition", "capture"} PROVE {hir.sub} \subseteq S
  BY <1>1, <1>4 DEF WellFormed
<1> QED BY <1>1, <1>2, <1>3, <1>4 DEF Subs

\* Expressions that nest no deeper may nest deeper.
LEMMA HirsOverGrow ==
    ASSUME NEW S, NEW T, S \subseteq T
    PROVE  HirsOver(S) \subseteq HirsOver(T)
<1>1. Seq(S) \subseteq Seq(T)
  BY SeqMonotonic
<1> QED BY <1>1 DEF HirsOver

LEMMA HirsGrow ==
    ASSUME NEW n \in 0 .. NestLimit
    PROVE  Below(n) \subseteq HirsTo[n]
<1> DEFINE Good(i) == i \in 0 .. NestLimit => Below(i) \subseteq HirsTo[i]
           T == {i \in Nat : Good(i)}
<1>1. Good(0)
  BY DEF Below
<1>2. ASSUME NEW i \in Nat, Good(i) PROVE Good(i + 1)
  <2>1. PICK j \in Nat : j = i + 1 /\ j # 0 /\ j - 1 = i
    OBVIOUS
  <2> SUFFICES ASSUME j \in 0 .. NestLimit PROVE Below(j) \subseteq HirsTo[j]
    BY <2>1
  <2>2. i \in 0 .. NestLimit
    BY <2>1, HirsUnfold
  <2>3. HirsTo[i] = HirsOver(Below(i)) /\ HirsTo[j] = HirsOver(Below(j))
    BY <2>2, HirsAt
  <2>4. Below(j) = HirsTo[i]
    BY <2>1 DEF Below
  <2>5. HirsOver(Below(i)) \subseteq HirsOver(HirsTo[i])
    BY <1>2, <2>2, HirsOverGrow
  <2> QED BY <2>3, <2>4, <2>5
<1> HIDE DEF Good
<1>3. 0 \in T /\ \A i \in Nat : i \in T => i + 1 \in T
  BY <1>1, <1>2
<1> HIDE DEF T
<1>4. Nat \subseteq T
  BY <1>3, InductionOver
<1>5. n \in Nat
  OBVIOUS
<1> QED BY <1>4, <1>5 DEF T, Good

LEMMA HirsInside ==
    ASSUME NEW n \in 0 .. NestLimit
    PROVE  HirsTo[n] \subseteq Hirs
<1> DEFINE Up(i) == i \in 0 .. NestLimit => HirsTo[NestLimit - i] \subseteq Hirs
           U == {i \in Nat : Up(i)}
<1>1. Up(0)
  BY HirsUnfold DEF Hirs
<1>2. ASSUME NEW i \in Nat, Up(i) PROVE Up(i + 1)
  <2>1. PICK j \in Nat : j = i + 1
    OBVIOUS
  <2> SUFFICES ASSUME j \in 0 .. NestLimit PROVE HirsTo[NestLimit - j] \subseteq Hirs
    BY <2>1
  <2>2. PICK m \in 0 .. NestLimit : m = NestLimit - i /\ m # 0 /\ m - 1 = NestLimit - j
    BY <2>1, HirsUnfold
  <2>3. HirsTo[m] \subseteq Hirs
    <3>1. i \in 0 .. NestLimit
      BY <2>1, HirsUnfold
    <3>2. HirsTo[NestLimit - i] \subseteq Hirs
      BY <1>2, <3>1
    <3> QED BY <2>2, <3>2
  <2>4. Below(m) \subseteq HirsTo[m]
    BY HirsGrow
  <2> QED BY <2>2, <2>3, <2>4 DEF Below
<1> HIDE DEF Up
<1>3. 0 \in U /\ \A i \in Nat : i \in U => i + 1 \in U
  BY <1>1, <1>2
<1> HIDE DEF U
<1>4. Nat \subseteq U
  BY <1>3, InductionOver
<1>5. PICK k \in 0 .. NestLimit : n = NestLimit - k
  <2>1. NestLimit - n \in 0 .. NestLimit /\ n = NestLimit - (NestLimit - n)
    BY HirsUnfold
  <2> QED BY <2>1
<1>6. Up(k)
  BY <1>4 DEF U
<1> QED BY <1>5, <1>6 DEF Up

\* What holds of an expression whenever it holds of its parts holds of all.
LEMMA HirInduction ==
    ASSUME NEW T, \A hir \in Hirs : Subs(hir) \subseteq T => hir \in T
    PROVE  Hirs \subseteq T
<1> DEFINE Good(i) == i \in 0 .. NestLimit => HirsTo[i] \subseteq T
           S == {i \in Nat : Good(i)}
<1>1. ASSUME NEW i \in 0 .. NestLimit, Below(i) \subseteq T PROVE HirsTo[i] \subseteq T
  <2> SUFFICES ASSUME NEW hir \in HirsTo[i] PROVE hir \in T
    OBVIOUS
  <2>1. hir \in HirsOver(Below(i))
    BY HirsAt
  <2>2. Subs(hir) \subseteq Below(i)
    BY <2>1, HirKinds
  <2>3. hir \in Hirs
    BY HirsInside
  <2> QED BY <1>1, <2>2, <2>3
<1>2. Good(0)
  <2>1. ASSUME 0 \in 0 .. NestLimit PROVE HirsTo[0] \subseteq T
    <3>1. Below(0) = {}
      BY DEF Below
    <3> QED BY <1>1, <2>1, <3>1
  <2> QED BY <2>1
<1>3. ASSUME NEW i \in Nat, Good(i) PROVE Good(i + 1)
  <2>1. PICK j \in Nat : j = i + 1 /\ j # 0 /\ j - 1 = i
    OBVIOUS
  <2> SUFFICES ASSUME j \in 0 .. NestLimit PROVE HirsTo[j] \subseteq T
    BY <2>1
  <2>2. i \in 0 .. NestLimit
    BY <2>1, HirsUnfold
  <2>3. Below(j) = HirsTo[i]
    BY <2>1 DEF Below
  <2>4. HirsTo[i] \subseteq T
    BY <1>3, <2>2
  <2> QED BY <1>1, <2>3, <2>4
<1> HIDE DEF Good
<1>4. 0 \in S /\ \A i \in Nat : i \in S => i + 1 \in S
  BY <1>2, <1>3
<1> HIDE DEF S
<1>5. Nat \subseteq S
  BY <1>4, InductionOver
<1>6. NestLimit \in 0 .. NestLimit /\ NestLimit \in Nat
  BY HirsUnfold
<1> QED BY <1>5, <1>6 DEF S, Good, Hirs

\* A turn f -> G[f] that looks at the parts of an expression only.
LooksAtParts(G, V) ==
    \A f, g \in [Hirs -> V] : \A hir \in Hirs : (\A s \in Subs(hir) : f[s] = g[s]) => G[f][hir] = G[g][hir]

\* Recursion over expressions defines a function.
LEMMA HirRecursion ==
    ASSUME NEW V, V # {}, NEW G \in [[Hirs -> V] -> [Hirs -> V]], LooksAtParts(G, V)
    PROVE  \E f \in [Hirs -> V] : f = G[f]
<1> DEFINE F == [Hirs -> V]
           Good(n) == n \in 0 .. NestLimit => \E f \in F : \A hir \in HirsTo[n] : f[hir] = G[f][hir]
           T == {n \in Nat : Good(n)}
<1>1. ASSUME NEW n \in 0 .. NestLimit, NEW f \in F, \A hir \in Below(n) : f[hir] = G[f][hir]
      PROVE  \E g \in F : \A hir \in HirsTo[n] : g[hir] = G[g][hir]
  <2>1. PICK g \in F : g = G[f]
    OBVIOUS
  <2>2. ASSUME NEW hir \in HirsTo[n] PROVE g[hir] = G[g][hir]
    <3>1. Subs(hir) \subseteq Below(n)
      BY HirsAt, HirKinds
    <3>2. \A s \in Subs(hir) : f[s] = g[s]
      BY <1>1, <2>1, <3>1
    <3>3. hir \in Hirs
      BY HirsInside
    <3> HIDE DEF F
    <3>4. G[f][hir] = G[g][hir]
      BY <3>2, <3>3 DEF LooksAtParts, F
    <3> QED BY <2>1, <3>4
  <2> QED BY <2>2
<1>2. Good(0)
  <2> SUFFICES ASSUME 0 \in 0 .. NestLimit PROVE \E f \in F : \A hir \in HirsTo[0] : f[hir] = G[f][hir]
    OBVIOUS
  <2>1. PICK f \in F : TRUE
    <3>1. PICK v \in V : TRUE
      OBVIOUS
    <3>2. [hir \in Hirs |-> v] \in F
      OBVIOUS
    <3> QED BY <3>2
  <2>2. Below(0) = {}
    BY DEF Below
  <2> HIDE DEF F
  <2> QED BY <1>1, <2>2
<1>3. ASSUME NEW n \in Nat, Good(n) PROVE Good(n + 1)
  <2>1. PICK j \in Nat : j = n + 1 /\ j # 0 /\ j - 1 = n
    OBVIOUS
  <2> SUFFICES ASSUME j \in 0 .. NestLimit PROVE \E f \in F : \A hir \in HirsTo[j] : f[hir] = G[f][hir]
    BY <2>1
  <2>2. n \in 0 .. NestLimit /\ Below(j) = HirsTo[n]
    BY <2>1, HirsUnfold DEF Below
  <2>3. PICK f \in F : \A hir \in HirsTo[n] : f[hir] = G[f][hir]
    BY <1>3, <2>2
  <2> HIDE DEF F
  <2> QED BY <1>1, <2>2, <2>3
<1> HIDE DEF Good
<1>4. 0 \in T /\ \A i \in Nat : i \in T => i + 1 \in T
  BY <1>2, <1>3
<1> HIDE DEF T
<1>5. Nat \subseteq T
  BY <1>4, InductionOver
<1>6. NestLimit \in 0 .. NestLimit /\ NestLimit \in Nat
  BY HirsUnfold
<1>7. PICK f \in F : \A hir \in Hirs : f[hir] = G[f][hir]
  BY <1>5, <1>6 DEF T, Good, Hirs
<1>8. f \in [Hirs -> V] /\ G[f] \in [Hirs -> V]
  OBVIOUS
<1> QED BY <1>7, <1>8

LEMMA HirFacts ==
    ASSUME NEW hir \in Hirs
    PROVE  WellFormed(hir, Hirs) /\ Subs(hir) \subseteq Hirs
<1>1. NestLimit \in 0 .. NestLimit
  BY HirsUnfold
<1>2. hir \in HirsOver(Below(NestLimit))
  BY <1>1, HirsAt DEF Hirs
<1>3. HirsOver(Below(NestLimit)) \subseteq HirsOver(Hirs)
  <2>1. Below(NestLimit) \subseteq Hirs
    BY <1>1, HirsGrow DEF Hirs
  <2> QED BY <2>1, HirsOverGrow
<1> QED BY <1>2, <1>3, HirKinds

-----------------------------------------------------------------------------
(* Sums, and walks through a text.                                         *)

\* The sums of the first elements.
Sums(sum, s) ==
    /\ sum \in [0 .. Len(s) -> Nat] /\ sum[0] = 0
    /\ \A n \in 1 .. Len(s) : sum[n] = sum[n - 1] + s[n]

LEMMA TotalUnfolds ==
    ASSUME NEW s \in Seq(Nat)
    PROVE  \E sum : Sums(sum, s) /\ Total(s) = sum[Len(s)]
<1> DEFINE L       == Len(s)
           step    == [x \in (1 .. L) \X Nat |-> x[2] + s[x[1]]]
           turn(f) == [n \in 0 .. L |-> IF n = 0 THEN 0 ELSE f[n - 1] + s[n]]
           sum     == CHOOSE f : f = turn(f)
<1>1. L \in Nat /\ 0 \in Nat /\ \A n \in 1 .. L : s[n] \in Nat
  OBVIOUS
<1>2. \A n \in 1 .. L, a \in Nat : step[<<n, a>>] = a + s[n] /\ a + s[n] \in Nat
  BY <1>1
<1>3. Total(s) = sum[L]
  BY DEF Total
<1> HIDE DEF step
<1>4. Turns(step, L, Nat)
  BY <1>2 DEF Turns
<1>5. PICK f : Iterates(f, 0, step, L, Nat)
  <2> HIDE DEF L
  <2> QED BY <1>1, <1>4, LoopExists
<1>6. f = turn(f)
  <2> HIDE DEF L
  <2>1. ASSUME NEW n \in 0 .. L PROVE f[n] = IF n = 0 THEN 0 ELSE f[n - 1] + s[n]
    <3>1. CASE n = 0
      BY <1>5, <3>1 DEF Iterates
    <3>2. CASE n # 0
      <4>1. n \in 1 .. L
        BY <1>1, <3>2
      <4>2. f[n - 1] \in Nat /\ f[n] = step[<<n, f[n - 1]>>]
        BY <1>5, <4>1 DEF Iterates
      <4>3. step[<<n, f[n - 1]>>] = f[n - 1] + s[n]
        BY <1>2, <4>1, <4>2
      <4> QED BY <3>2, <4>2, <4>3
    <3> QED BY <3>1, <3>2
  <2>2. f = [n \in 0 .. L |-> f[n]]
    BY <1>5 DEF Iterates
  <2> QED BY <2>1, <2>2
<1>7. sum = turn(sum)
  BY <1>6
<1> HIDE DEF sum
<1>8. sum = [n \in 0 .. L |-> sum[n]] /\ sum[0] = 0 /\ \A n \in 1 .. L : sum[n] = sum[n - 1] + s[n]
  <2> HIDE DEF L
  <2>1. \A n \in 0 .. L : sum[n] = IF n = 0 THEN 0 ELSE sum[n - 1] + s[n]
    BY <1>7
  <2>2. sum = [n \in 0 .. L |-> sum[n]]
    BY <1>7
  <2>3. 0 \in 0 .. L /\ \A n \in 1 .. L : n \in 0 .. L /\ n # 0
    BY <1>1
  <2> HIDE DEF turn
  <2> QED BY <2>1, <2>2, <2>3
<1>9. Iterates(sum, 0, step, L, Nat)
  <2> HIDE DEF L
  <2>1. \A n \in 1 .. L : sum[n - 1] \in Nat => sum[n] = step[<<n, sum[n - 1]>>]
    BY <1>2, <1>8
  <2> QED BY <1>1, <1>4, <1>8, <2>1, LoopTyped
<1> QED BY <1>3, <1>8, <1>9 DEF Sums, Iterates

\* Where one may be after the first steps.
Walks(at, steps, i, P) ==
    /\ at \in [0 .. Len(steps) -> SUBSET P] /\ at[0] = {i}
    /\ \A n \in 1 .. Len(steps) : at[n] = UNION {steps[n][j] : j \in at[n - 1]}

LEMMA AfterUnfolds ==
    ASSUME NEW P, NEW steps \in Seq([P -> SUBSET P]), NEW i \in P
    PROVE  \E at : Walks(at, steps, i, P) /\ After(steps, i) = at[Len(steps)]
<1> DEFINE L       == Len(steps)
           A       == SUBSET P
           next(n, a) == UNION {steps[n][j] : j \in a}
           step    == [x \in (1 .. L) \X A |-> next(x[1], x[2])]
           turn(f) == [n \in 0 .. L |-> IF n = 0 THEN {i} ELSE next(n, f[n - 1])]
           at      == CHOOSE f : f = turn(f)
<1>1. L \in Nat /\ {i} \in A /\ \A n \in 1 .. L : steps[n] \in [P -> SUBSET P]
  OBVIOUS
<1>2. \A n \in 1 .. L, a \in A : step[<<n, a>>] = next(n, a) /\ next(n, a) \in A
  <2> SUFFICES ASSUME NEW n \in 1 .. L, NEW a \in A
               PROVE  step[<<n, a>>] = next(n, a) /\ next(n, a) \in A
    OBVIOUS
  <2>1. next(n, a) \in A
    <3>1. \A j \in a : steps[n][j] \subseteq P
      BY <1>1
    <3> QED BY <3>1
  <2>2. step[<<n, a>>] = next(n, a)
    <3> HIDE DEF next, A, L
    <3> QED OBVIOUS
  <2> QED BY <2>1, <2>2
<1>3. After(steps, i) = at[L]
  BY DEF After
<1> HIDE DEF step, next
<1>4. Turns(step, L, A)
  BY <1>2 DEF Turns
<1>5. PICK f : Iterates(f, {i}, step, L, A)
  <2> HIDE DEF A, L
  <2> QED BY <1>1, <1>4, LoopExists
<1>6. f = turn(f)
  <2> HIDE DEF A, L
  <2>1. ASSUME NEW n \in 0 .. L PROVE f[n] = IF n = 0 THEN {i} ELSE next(n, f[n - 1])
    <3>1. CASE n = 0
      BY <1>5, <3>1 DEF Iterates
    <3>2. CASE n # 0
      <4>1. n \in 1 .. L
        BY <1>1, <3>2
      <4>2. f[n - 1] \in A /\ f[n] = step[<<n, f[n - 1]>>]
        BY <1>5, <4>1 DEF Iterates
      <4>3. step[<<n, f[n - 1]>>] = next(n, f[n - 1])
        BY <1>2, <4>1, <4>2
      <4> QED BY <3>2, <4>2, <4>3
    <3> QED BY <3>1, <3>2
  <2>2. f = [n \in 0 .. L |-> f[n]]
    BY <1>5 DEF Iterates
  <2> QED BY <2>1, <2>2
<1>7. at = turn(at)
  BY <1>6
<1> HIDE DEF at
<1>8. at = [n \in 0 .. L |-> at[n]] /\ at[0] = {i} /\ \A n \in 1 .. L : at[n] = next(n, at[n - 1])
  <2> HIDE DEF L, A
  <2>1. \A n \in 0 .. L : at[n] = IF n = 0 THEN {i} ELSE next(n, at[n - 1])
    BY <1>7
  <2>2. at = [n \in 0 .. L |-> at[n]]
    BY <1>7
  <2>3. 0 \in 0 .. L /\ \A n \in 1 .. L : n \in 0 .. L /\ n # 0
    BY <1>1
  <2> HIDE DEF turn
  <2> QED BY <2>1, <2>2, <2>3
<1>9. Iterates(at, {i}, step, L, A)
  <2> HIDE DEF L, A
  <2>1. \A n \in 1 .. L : at[n - 1] \in A => at[n] = step[<<n, at[n - 1]>>]
    BY <1>2, <1>8
  <2> QED BY <1>1, <1>4, <1>8, <2>1, LoopTyped
<1>10. at \in [0 .. L -> A]
  BY <1>9 DEF Iterates
<1>11. \A n \in 1 .. L : at[n] = UNION {steps[n][j] : j \in at[n - 1]}
  BY <1>8 DEF next
<1> QED BY <1>3, <1>8, <1>10, <1>11 DEF Walks

\* A walk from step to step.
Path(p, steps, n, P) == p \in [0 .. n -> P] /\ \A m \in 1 .. n : p[m] \in steps[m][p[m - 1]]

Route(steps, n, i, j, P) == \E p : Path(p, steps, n, P) /\ p[0] = i /\ p[n] = j

LEMMA PathExists ==
    ASSUME NEW P, NEW steps \in Seq([P -> SUBSET P]), NEW i \in P, NEW j \in After(steps, i)
    PROVE  j \in P /\ Route(steps, Len(steps), i, j, P)
<1> DEFINE L       == Len(steps)
           To(n, x) == \E p : Path(p, steps, n, P) /\ p[0] = i /\ p[n] = x
<1>1. L \in Nat
  OBVIOUS
<1>2. PICK at : Walks(at, steps, i, P) /\ After(steps, i) = at[L]
  BY AfterUnfolds
<1> HIDE DEF L
<1>3. at \in [0 .. L -> SUBSET P] /\ at[0] = {i} /\ \A n \in 1 .. L : at[n] = UNION {steps[n][x] : x \in at[n - 1]}
  BY <1>2 DEF Walks, L
<1> DEFINE Good(n) == n <= L => \A x \in at[n] : To(n, x)
           T       == {n \in Nat : Good(n)}
<1>4. Good(0)
  <2> SUFFICES ASSUME NEW x \in at[0] PROVE To(0, x)
    OBVIOUS
  <2> DEFINE p == [m \in 0 .. 0 |-> i]
  <2>1. p \in [0 .. 0 -> P] /\ p[0] = i /\ x = i
    BY <1>3
  <2> HIDE DEF p
  <2>2. Path(p, steps, 0, P)
    BY <2>1 DEF Path
  <2> QED BY <2>1, <2>2
<1>5. ASSUME NEW n \in Nat, Good(n) PROVE Good(n + 1)
  <2>1. PICK m \in Nat : m = n + 1
    OBVIOUS
  <2> SUFFICES ASSUME m <= L, NEW x \in at[m] PROVE To(m, x)
    BY <2>1
  <2>2. m \in 1 .. L /\ m - 1 = n /\ n <= L
    BY <1>1, <2>1
  <2>3. PICK y \in at[n] : x \in steps[m][y]
    BY <1>3, <2>2
  <2>4. PICK p : Path(p, steps, n, P) /\ p[0] = i /\ p[n] = y
    BY <1>5, <2>2
  <2> DEFINE q == [k \in 0 .. m |-> IF k = m THEN x ELSE p[k]]
  <2>5. x \in P
    BY <1>3, <2>2
  <2>6. p \in [0 .. n -> P] /\ \A k \in 1 .. n : p[k] \in steps[k][p[k - 1]]
    BY <2>4 DEF Path
  <2>7. q \in [0 .. m -> P] /\ q[0] = i /\ q[m] = x
    BY <2>1, <2>4, <2>5, <2>6
  <2>8. ASSUME NEW k \in 1 .. m PROVE q[k] \in steps[k][q[k - 1]]
    <3>1. q[k - 1] = p[k - 1]
      BY <2>1
    <3>2. CASE k = m
      <4>1. q[k] = x /\ p[k - 1] = y
        BY <2>1, <2>4, <3>2
      <4> QED BY <2>3, <3>1, <3>2, <4>1
    <3>3. CASE k # m
      <4>1. q[k] = p[k] /\ k \in 1 .. n
        BY <2>1, <3>3
      <4> QED BY <2>6, <3>1, <4>1
    <3> QED BY <3>2, <3>3
  <2> HIDE DEF q
  <2>9. Path(q, steps, m, P)
    BY <2>7, <2>8 DEF Path
  <2> QED BY <2>7, <2>9
<1> HIDE DEF Good
<1>6. 0 \in T /\ \A n \in Nat : n \in T => n + 1 \in T
  BY <1>4, <1>5
<1> HIDE DEF T
<1>7. Nat \subseteq T
  BY <1>6, InductionOver
<1>8. Good(L)
  BY <1>1, <1>7 DEF T
<1>9. To(L, j)
  BY <1>1, <1>2, <1>8 DEF Good
<1>10. j \in P
  BY <1>1, <1>2, <1>3
<1> QED BY <1>9, <1>10 DEF L, Route

LEMMA TotalBounds ==
    ASSUME NEW s \in Seq(Nat)
    PROVE  Total(s) \in Nat /\ \A i \in DOMAIN s : s[i] <= Total(s)
<1>1. PICK sum : Sums(sum, s) /\ Total(s) = sum[Len(s)]
  BY TotalUnfolds
<1>2. PICK n \in Nat : n = Len(s) /\ DOMAIN s = 1 .. n /\ \A i \in 1 .. n : s[i] \in Nat
  OBVIOUS
<1>3. sum \in [0 .. n -> Nat] /\ \A i \in 1 .. n : sum[i] = sum[i - 1] + s[i]
  BY <1>1, <1>2 DEF Sums
<1> DEFINE Good(k) == k <= n => \A i \in 1 .. k : s[i] <= sum[k]
           T       == {k \in Nat : Good(k)}
<1>4. Good(0)
  OBVIOUS
<1>5. ASSUME NEW k \in Nat, Good(k) PROVE Good(k + 1)
  <2>1. PICK m \in Nat : m = k + 1
    OBVIOUS
  <2> SUFFICES ASSUME m <= n, NEW i \in 1 .. m PROVE s[i] <= sum[m]
    BY <2>1
  <2>2. m \in 1 .. n /\ m - 1 = k /\ k \in 0 .. n
    BY <2>1
  <2>a. sum[m] = sum[m - 1] + s[m]
    BY <1>3, <2>2
  <2>b. sum[k] \in Nat /\ s[m] \in Nat /\ s[i] \in Nat
    BY <1>2, <1>3, <2>2
  <2>3. sum[m] = sum[k] + s[m] /\ sum[k] \in Nat /\ s[m] \in Nat /\ s[i] \in Nat
    BY <2>a, <2>b, <2>2
  <2>4. i # m => s[i] <= sum[k]
    BY <1>5, <2>1, <2>2
  <2> QED BY <2>3, <2>4
<1> HIDE DEF Good
<1>6. 0 \in T /\ \A k \in Nat : k \in T => k + 1 \in T
  BY <1>4, <1>5
<1> HIDE DEF T
<1>7. Nat \subseteq T
  BY <1>6, InductionOver
<1>8. Good(n)
  BY <1>7 DEF T
<1>9. sum[n] \in Nat
  BY <1>3
<1> QED BY <1>1, <1>2, <1>8, <1>9 DEF Good


LEMMA MinLenFromTyped ==
    ASSUME NEW f, NEW hir \in Hirs, \A s \in Subs(hir) : f[s] \in Nat
    PROVE  MinLenFrom(f, hir) \in Nat
<1>1. WellFormed(hir, Hirs)
  BY HirFacts
<1>2. CASE hir.kind = "literal"
  <2>1. Len(hir.bytes) \in Nat
    BY <1>1, <1>2 DEF WellFormed
  <2> QED BY <1>2, <2>1 DEF MinLenFrom
<1>3. CASE hir.kind \in {"class", "look", "empty"}
  BY <1>3 DEF MinLenFrom
<1>4. CASE hir.kind = "repetition"
  <2>1. f[hir.sub] \in Nat
    BY <1>4 DEF Subs
  <2>2. PICK k \in Nat : k = hir.min
    <3>1. hir.min \in Nat
      BY <1>1, <1>4 DEF WellFormed, Unbounded
    <3> QED BY <3>1
  <2>3. MinLenFrom(f, hir) = k * f[hir.sub]
    BY <1>4, <2>2 DEF MinLenFrom
  <2>4. \A x, y \in Nat : x * y \in Nat
    OBVIOUS
  <2> QED BY <2>1, <2>3, <2>4
<1>5. CASE hir.kind = "capture"
  BY <1>5 DEF MinLenFrom, Subs
<1>6. CASE hir.kind = "concat"
  <2> DEFINE s == [i \in DOMAIN hir.parts |-> f[hir.parts[i]]]
  <2>1. \A i \in DOMAIN hir.parts : f[hir.parts[i]] \in Nat
    BY <1>6 DEF Subs
  <2>2. s \in Seq(Nat)
    BY <1>1, <1>6, <2>1 DEF WellFormed
  <2>3. MinLenFrom(f, hir) = Total(s)
    BY <1>6 DEF MinLenFrom
  <2> HIDE DEF s
  <2> QED BY <2>2, <2>3, TotalBounds
<1>7. CASE hir.kind = "alternation"
  <2> DEFINE S == {f[hir.alts[i]] : i \in DOMAIN hir.alts}
             s == [i \in DOMAIN hir.alts |-> f[hir.alts[i]]]
  <2>1. \A i \in DOMAIN hir.alts : f[hir.alts[i]] \in Nat
    BY <1>7 DEF Subs
  <2>2. s \in Seq(Nat) /\ DOMAIN hir.alts # {}
    BY <1>1, <1>7, <2>1 DEF WellFormed
  <2>3. MinLenFrom(f, hir) = Min(S)
    BY <1>7 DEF MinLenFrom
  <2>4. Total(s) \in Nat /\ \A i \in DOMAIN s : s[i] <= Total(s)
    BY <2>2, TotalBounds
  <2>a. \A x \in S : \E i \in DOMAIN s : x = s[i]
    OBVIOUS
  <2>b. S \in SUBSET Nat /\ S # {}
    BY <2>1, <2>2
  <2> HIDE DEF S, s
  <2>5. S \in SUBSET Nat /\ S \in SUBSET Int /\ Total(s) \in Int /\ S # {} /\ \A x \in S : x <= Total(s)
    BY <2>4, <2>a, <2>b
  <2>6. Min(S) \in S
    BY <2>4, <2>5, MinOf
  <2> QED BY <2>3, <2>5, <2>6
<1> QED BY <1>1, <1>2, <1>3, <1>4, <1>5, <1>6, <1>7 DEF WellFormed

LEMMA MinLenFromParts ==
    ASSUME NEW f, NEW g, NEW hir \in Hirs, \A s \in Subs(hir) : f[s] = g[s]
    PROVE  MinLenFrom(f, hir) = MinLenFrom(g, hir)
<1>1. WellFormed(hir, Hirs)
  BY HirFacts
<1>2. CASE hir.kind \in {"literal", "class", "look", "empty"}
  BY <1>2 DEF MinLenFrom
<1>3. CASE hir.kind \in {"repetition", "capture"}
  <2>1. f[hir.sub] = g[hir.sub]
    BY <1>3 DEF Subs
  <2> QED BY <1>3, <2>1 DEF MinLenFrom
<1>4. CASE hir.kind = "concat"
  <2>1. \A i \in DOMAIN hir.parts : f[hir.parts[i]] = g[hir.parts[i]]
    BY <1>4 DEF Subs
  <2>2. [i \in DOMAIN hir.parts |-> f[hir.parts[i]]] = [i \in DOMAIN hir.parts |-> g[hir.parts[i]]]
    BY <2>1
  <2> QED BY <1>4, <2>2 DEF MinLenFrom
<1>5. CASE hir.kind = "alternation"
  <2>1. \A i \in DOMAIN hir.alts : f[hir.alts[i]] = g[hir.alts[i]]
    BY <1>5 DEF Subs
  <2>2. {f[hir.alts[i]] : i \in DOMAIN hir.alts} = {g[hir.alts[i]] : i \in DOMAIN hir.alts}
    BY <2>1
  <2> QED BY <1>5, <2>2 DEF MinLenFrom
<1> QED BY <1>1, <1>2, <1>3, <1>4, <1>5 DEF WellFormed

LEMMA MinLenUnfolds ==
    \A hir \in Hirs : MinLen[hir] \in Nat /\ MinLen[hir] = MinLenFrom(MinLen, hir)
<1> DEFINE turn(f) == [hir \in Hirs |-> MinLenFrom(f, hir)]
           G       == [f \in [Hirs -> Nat] |-> turn(f)]
<1>1. ASSUME NEW f \in [Hirs -> Nat] PROVE turn(f) \in [Hirs -> Nat]
  <2> SUFFICES ASSUME NEW hir \in Hirs PROVE MinLenFrom(f, hir) \in Nat
    OBVIOUS
  <2>1. \A s \in Subs(hir) : f[s] \in Nat
    BY HirFacts
  <2> QED BY <2>1, MinLenFromTyped
<1>2. ASSUME NEW f \in [Hirs -> Nat], NEW g \in [Hirs -> Nat], NEW hir \in Hirs, \A s \in Subs(hir) : f[s] = g[s]
      PROVE  G[f][hir] = G[g][hir]
  <2>1. MinLenFrom(f, hir) = MinLenFrom(g, hir)
    BY <1>2, MinLenFromParts
  <2>2. G[f][hir] = MinLenFrom(f, hir) /\ G[g][hir] = MinLenFrom(g, hir)
    OBVIOUS
  <2> QED BY <2>1, <2>2
<1>3. G \in [[Hirs -> Nat] -> [Hirs -> Nat]] /\ \A f \in [Hirs -> Nat] : G[f] = turn(f)
  <2> HIDE DEF turn
  <2> QED BY <1>1
<1> HIDE DEF G
<1>4. LooksAtParts(G, Nat)
  BY <1>2 DEF LooksAtParts
<1>5. Nat # {}
  OBVIOUS
<1>6. PICK f \in [Hirs -> Nat] : f = G[f]
  BY <1>3, <1>4, <1>5, HirRecursion
<1>7. f = turn(f)
  <2> HIDE DEF turn
  <2> QED BY <1>3, <1>6
<1>8. MinLen = CHOOSE m : m = turn(m)
  BY DEF MinLen
<1>9. MinLen = turn(MinLen)
  <2> HIDE DEF turn
  <2> QED BY <1>7, <1>8
<1>10. \A hir \in Hirs : MinLen[hir] = MinLenFrom(MinLen, hir)
  <2> HIDE DEF MinLen
  <2> QED BY <1>9
<1> DEFINE T == {hir \in Hirs : MinLen[hir] \in Nat}
<1>11. ASSUME NEW hir \in Hirs, Subs(hir) \subseteq T PROVE hir \in T
  <2>1. \A s \in Subs(hir) : MinLen[s] \in Nat
    BY <1>11
  <2>2. MinLenFrom(MinLen, hir) \in Nat
    BY <2>1, MinLenFromTyped
  <2> QED BY <1>10, <2>2
<1>12. Hirs \subseteq T
  <2> HIDE DEF T
  <2> QED BY <1>11, HirInduction
<1> QED BY <1>10, <1>12

LEMMA MaxLenFromTyped ==
    ASSUME NEW f, NEW hir \in Hirs, \A s \in Subs(hir) : f[s] \in Nat
    PROVE  MaxLenFrom(f, hir) \in Nat
<1>1. WellFormed(hir, Hirs)
  BY HirFacts
<1>2. CASE hir.kind = "literal"
  <2>1. Len(hir.bytes) \in Nat
    BY <1>1, <1>2 DEF WellFormed
  <2> QED BY <1>2, <2>1 DEF MaxLenFrom
<1>3. CASE hir.kind \in {"class", "look", "empty"}
  BY <1>3 DEF MaxLenFrom
<1>4. CASE hir.kind = "repetition"
  <2>1. f[hir.sub] \in Nat
    BY <1>4 DEF Subs
  <2>2. PICK k \in Nat : k = (IF hir.max = Unbounded THEN 2 ELSE hir.max)
    <3>1. (IF hir.max = Unbounded THEN 2 ELSE hir.max) \in Nat
      BY <1>1, <1>4 DEF WellFormed, Unbounded
    <3> QED BY <3>1
  <2>3. MaxLenFrom(f, hir) = k * f[hir.sub]
    BY <1>4, <2>2 DEF MaxLenFrom
  <2>4. \A x, y \in Nat : x * y \in Nat
    OBVIOUS
  <2> QED BY <2>1, <2>3, <2>4
<1>5. CASE hir.kind = "capture"
  BY <1>5 DEF MaxLenFrom, Subs
<1>6. CASE hir.kind = "concat"
  <2> DEFINE s == [i \in DOMAIN hir.parts |-> f[hir.parts[i]]]
  <2>1. \A i \in DOMAIN hir.parts : f[hir.parts[i]] \in Nat
    BY <1>6 DEF Subs
  <2>2. s \in Seq(Nat)
    BY <1>1, <1>6, <2>1 DEF WellFormed
  <2>3. MaxLenFrom(f, hir) = Total(s)
    BY <1>6 DEF MaxLenFrom
  <2> HIDE DEF s
  <2> QED BY <2>2, <2>3, TotalBounds
<1>7. CASE hir.kind = "alternation"
  <2> DEFINE S == {f[hir.alts[i]] : i \in DOMAIN hir.alts}
             s == [i \in DOMAIN hir.alts |-> f[hir.alts[i]]]
  <2>1. \A i \in DOMAIN hir.alts : f[hir.alts[i]] \in Nat
    BY <1>7 DEF Subs
  <2>2. s \in Seq(Nat) /\ DOMAIN hir.alts # {}
    BY <1>1, <1>7, <2>1 DEF WellFormed
  <2>3. MaxLenFrom(f, hir) = Max(S)
    BY <1>7 DEF MaxLenFrom
  <2>4. Total(s) \in Nat /\ \A i \in DOMAIN s : s[i] <= Total(s)
    BY <2>2, TotalBounds
  <2>a. \A x \in S : \E i \in DOMAIN s : x = s[i]
    OBVIOUS
  <2>b. S \in SUBSET Nat /\ S # {}
    BY <2>1, <2>2
  <2> HIDE DEF S, s
  <2>5. S \in SUBSET Nat /\ S \in SUBSET Int /\ Total(s) \in Int /\ S # {} /\ \A x \in S : x <= Total(s)
    BY <2>4, <2>a, <2>b
  <2>6. Max(S) \in S
    BY <2>4, <2>5, MaxOf
  <2> QED BY <2>3, <2>5, <2>6
<1> QED BY <1>1, <1>2, <1>3, <1>4, <1>5, <1>6, <1>7 DEF WellFormed

LEMMA MaxLenFromParts ==
    ASSUME NEW f, NEW g, NEW hir \in Hirs, \A s \in Subs(hir) : f[s] = g[s]
    PROVE  MaxLenFrom(f, hir) = MaxLenFrom(g, hir)
<1>1. WellFormed(hir, Hirs)
  BY HirFacts
<1>2. CASE hir.kind \in {"literal", "class", "look", "empty"}
  BY <1>2 DEF MaxLenFrom
<1>3. CASE hir.kind \in {"repetition", "capture"}
  <2>1. f[hir.sub] = g[hir.sub]
    BY <1>3 DEF Subs
  <2> QED BY <1>3, <2>1 DEF MaxLenFrom
<1>4. CASE hir.kind = "concat"
  <2>1. \A i \in DOMAIN hir.parts : f[hir.parts[i]] = g[hir.parts[i]]
    BY <1>4 DEF Subs
  <2>2. [i \in DOMAIN hir.parts |-> f[hir.parts[i]]] = [i \in DOMAIN hir.parts |-> g[hir.parts[i]]]
    BY <2>1
  <2> QED BY <1>4, <2>2 DEF MaxLenFrom
<1>5. CASE hir.kind = "alternation"
  <2>1. \A i \in DOMAIN hir.alts : f[hir.alts[i]] = g[hir.alts[i]]
    BY <1>5 DEF Subs
  <2>2. {f[hir.alts[i]] : i \in DOMAIN hir.alts} = {g[hir.alts[i]] : i \in DOMAIN hir.alts}
    BY <2>1
  <2> QED BY <1>5, <2>2 DEF MaxLenFrom
<1> QED BY <1>1, <1>2, <1>3, <1>4, <1>5 DEF WellFormed

LEMMA MaxLenUnfolds ==
    \A hir \in Hirs : MaxLen[hir] \in Nat /\ MaxLen[hir] = MaxLenFrom(MaxLen, hir)
<1> DEFINE turn(f) == [hir \in Hirs |-> MaxLenFrom(f, hir)]
           G       == [f \in [Hirs -> Nat] |-> turn(f)]
<1>1. ASSUME NEW f \in [Hirs -> Nat] PROVE turn(f) \in [Hirs -> Nat]
  <2> SUFFICES ASSUME NEW hir \in Hirs PROVE MaxLenFrom(f, hir) \in Nat
    OBVIOUS
  <2>1. \A s \in Subs(hir) : f[s] \in Nat
    BY HirFacts
  <2> QED BY <2>1, MaxLenFromTyped
<1>2. ASSUME NEW f \in [Hirs -> Nat], NEW g \in [Hirs -> Nat], NEW hir \in Hirs, \A s \in Subs(hir) : f[s] = g[s]
      PROVE  G[f][hir] = G[g][hir]
  <2>1. MaxLenFrom(f, hir) = MaxLenFrom(g, hir)
    BY <1>2, MaxLenFromParts
  <2>2. G[f][hir] = MaxLenFrom(f, hir) /\ G[g][hir] = MaxLenFrom(g, hir)
    OBVIOUS
  <2> QED BY <2>1, <2>2
<1>3. G \in [[Hirs -> Nat] -> [Hirs -> Nat]] /\ \A f \in [Hirs -> Nat] : G[f] = turn(f)
  <2> HIDE DEF turn
  <2> QED BY <1>1
<1> HIDE DEF G
<1>4. LooksAtParts(G, Nat)
  BY <1>2 DEF LooksAtParts
<1>5. Nat # {}
  OBVIOUS
<1>6. PICK f \in [Hirs -> Nat] : f = G[f]
  BY <1>3, <1>4, <1>5, HirRecursion
<1>7. f = turn(f)
  <2> HIDE DEF turn
  <2> QED BY <1>3, <1>6
<1>8. MaxLen = CHOOSE m : m = turn(m)
  BY DEF MaxLen
<1>9. MaxLen = turn(MaxLen)
  <2> HIDE DEF turn
  <2> QED BY <1>7, <1>8
<1>10. \A hir \in Hirs : MaxLen[hir] = MaxLenFrom(MaxLen, hir)
  <2> HIDE DEF MaxLen
  <2> QED BY <1>9
<1> DEFINE T == {hir \in Hirs : MaxLen[hir] \in Nat}
<1>11. ASSUME NEW hir \in Hirs, Subs(hir) \subseteq T PROVE hir \in T
  <2>1. \A s \in Subs(hir) : MaxLen[s] \in Nat
    BY <1>11
  <2>2. MaxLenFrom(MaxLen, hir) \in Nat
    BY <2>1, MaxLenFromTyped
  <2> QED BY <1>10, <2>2
<1>12. Hirs \subseteq T
  <2> HIDE DEF T
  <2> QED BY <1>11, HirInduction
<1> QED BY <1>10, <1>12

-----------------------------------------------------------------------------
(* The matcher.                                                            *)

\* Maps from the positions of a text to positions it leads to.
Moves(text) == [0 .. Len(text) -> SUBSET (0 .. Len(text))]

LEMMA StepsTyped ==
    ASSUME NEW hir \in Hirs, NEW f, NEW M, \A s \in Subs(hir) : f[s] \in M
    PROVE  /\ hir.kind = "repetition" => \A k \in Nat : [n \in 1 .. k |-> f[hir.sub]] \in Seq(M)
           /\ hir.kind = "concat" => [n \in DOMAIN hir.parts |-> f[hir.parts[n]]] \in Seq(M)
<1>1. WellFormed(hir, Hirs)
  BY HirFacts
<1>2. ASSUME hir.kind = "repetition", NEW k \in Nat PROVE [n \in 1 .. k |-> f[hir.sub]] \in Seq(M)
  <2>1. f[hir.sub] \in M
    BY <1>2 DEF Subs
  <2> QED BY <2>1
<1>3. ASSUME hir.kind = "concat" PROVE [n \in DOMAIN hir.parts |-> f[hir.parts[n]]] \in Seq(M)
  <2>1. \A n \in DOMAIN hir.parts : f[hir.parts[n]] \in M
    BY <1>3 DEF Subs
  <2>2. hir.parts \in Seq(Hirs)
    BY <1>1, <1>3 DEF WellFormed
  <2> QED BY <2>1, <2>2
<1> QED BY <1>2, <1>3

LEMMA EndsFromTyped ==
    ASSUME NEW text \in Seq(Byte), NEW f, NEW hir \in Hirs, \A s \in Subs(hir) : f[s] \in Moves(text),
           NEW i \in 0 .. Len(text)
    PROVE  EndsFrom(f, hir, text, i) \subseteq 0 .. Len(text)
<1> DEFINE P == 0 .. Len(text)
<1>1. WellFormed(hir, Hirs) /\ Len(text) \in Nat
  BY HirFacts
<1>2. CASE hir.kind \in {"literal", "class", "look", "empty"}
  BY <1>2 DEF EndsFrom
<1>3. CASE hir.kind = "repetition"
  <2>1. \A k \in Counts(hir, Len(text)) : k \in Nat
    BY <1>1, <1>3 DEF Counts, WellFormed
  <2>2. ASSUME NEW k \in Counts(hir, Len(text)) PROVE After([n \in 1 .. k |-> f[hir.sub]], i) \subseteq P
    <3> DEFINE steps == [n \in 1 .. k |-> f[hir.sub]]
    <3>1. steps \in Seq([P -> SUBSET P])
      BY <1>3, <2>1, StepsTyped DEF Moves
    <3> HIDE DEF steps, P
    <3>2. ASSUME NEW j \in After(steps, i) PROVE j \in P
      BY <3>1, PathExists DEF P
    <3> QED BY <3>2 DEF steps
  <2>3. EndsFrom(f, hir, text, i) = UNION {After([n \in 1 .. k |-> f[hir.sub]], i) : k \in Counts(hir, Len(text))}
    BY <1>3 DEF EndsFrom
  <2> QED BY <2>2, <2>3
<1>4. CASE hir.kind = "capture"
  <2>1. f[hir.sub] \in [P -> SUBSET P]
    BY <1>4 DEF Subs, Moves
  <2> QED BY <1>4, <2>1 DEF EndsFrom
<1>5. CASE hir.kind = "concat"
  <2> DEFINE steps == [n \in DOMAIN hir.parts |-> f[hir.parts[n]]]
  <2>1. steps \in Seq([P -> SUBSET P])
    BY <1>5, StepsTyped DEF Moves
  <2>2. EndsFrom(f, hir, text, i) = After(steps, i)
    BY <1>5 DEF EndsFrom
  <2> HIDE DEF steps, P
  <2>3. ASSUME NEW j \in After(steps, i) PROVE j \in P
    BY <2>1, PathExists DEF P
  <2> QED BY <2>2, <2>3 DEF P
<1>6. CASE hir.kind = "alternation"
  <2>1. \A n \in DOMAIN hir.alts : f[hir.alts[n]] \in [P -> SUBSET P]
    BY <1>6 DEF Subs, Moves
  <2>2. \A n \in DOMAIN hir.alts : f[hir.alts[n]][i] \subseteq P
    BY <2>1
  <2>3. EndsFrom(f, hir, text, i) = UNION {f[hir.alts[n]][i] : n \in DOMAIN hir.alts}
    BY <1>6 DEF EndsFrom
  <2> QED BY <2>2, <2>3
<1> QED BY <1>1, <1>2, <1>3, <1>4, <1>5, <1>6 DEF WellFormed

LEMMA EndsFromParts ==
    ASSUME NEW text, NEW f, NEW g, NEW hir \in Hirs, \A s \in Subs(hir) : f[s] = g[s], NEW i
    PROVE  EndsFrom(f, hir, text, i) = EndsFrom(g, hir, text, i)
<1>1. WellFormed(hir, Hirs)
  BY HirFacts
<1>2. CASE hir.kind \in {"literal", "class", "look", "empty"}
  BY <1>2 DEF EndsFrom
<1>3. CASE hir.kind = "repetition"
  <2>1. f[hir.sub] = g[hir.sub]
    BY <1>3 DEF Subs
  <2>3. EndsFrom(f, hir, text, i) = UNION {After([n \in 1 .. k |-> f[hir.sub]], i) : k \in Counts(hir, Len(text))}
    BY <1>3 DEF EndsFrom
  <2>4. EndsFrom(g, hir, text, i) = UNION {After([n \in 1 .. k |-> g[hir.sub]], i) : k \in Counts(hir, Len(text))}
    BY <1>3 DEF EndsFrom
  <2> QED BY <2>1, <2>3, <2>4
<1>4. CASE hir.kind = "capture"
  <2>1. f[hir.sub] = g[hir.sub]
    BY <1>4 DEF Subs
  <2> QED BY <1>4, <2>1 DEF EndsFrom
<1>5. CASE hir.kind = "concat"
  <2>1. \A n \in DOMAIN hir.parts : f[hir.parts[n]] = g[hir.parts[n]]
    BY <1>5 DEF Subs
  <2>2. [n \in DOMAIN hir.parts |-> f[hir.parts[n]]] = [n \in DOMAIN hir.parts |-> g[hir.parts[n]]]
    BY <2>1
  <2>3. /\ EndsFrom(f, hir, text, i) = After([n \in DOMAIN hir.parts |-> f[hir.parts[n]]], i)
        /\ EndsFrom(g, hir, text, i) = After([n \in DOMAIN hir.parts |-> g[hir.parts[n]]], i)
    BY <1>5 DEF EndsFrom
  <2> QED BY <2>2, <2>3
<1>6. CASE hir.kind = "alternation"
  <2>1. \A n \in DOMAIN hir.alts : f[hir.alts[n]] = g[hir.alts[n]]
    BY <1>6 DEF Subs
  <2>2. {f[hir.alts[n]][i] : n \in DOMAIN hir.alts} = {g[hir.alts[n]][i] : n \in DOMAIN hir.alts}
    BY <2>1
  <2> QED BY <1>6, <2>2 DEF EndsFrom
<1> QED BY <1>1, <1>2, <1>3, <1>4, <1>5, <1>6 DEF WellFormed

\* The ends of all expressions.
AllEnds(ends, text) ==
    /\ ends \in [Hirs -> Moves(text)]
    /\ \A hir \in Hirs, i \in 0 .. Len(text) : ends[hir][i] = EndsFrom(ends, hir, text, i)

LEMMA EndsUnfolds ==
    ASSUME NEW text \in Seq(Byte)
    PROVE  \E ends : AllEnds(ends, text) /\ \A hir, i : Ends(hir, text, i) = ends[hir][i]
<1> DEFINE V       == Moves(text)
           row(f, hir) == [i \in 0 .. Len(text) |-> EndsFrom(f, hir, text, i)]
           turn(f) == [hir \in Hirs |-> row(f, hir)]
           G       == [f \in [Hirs -> V] |-> turn(f)]
           ends    == CHOOSE f : f = turn(f)
<1>0. ASSUME NEW f, NEW hir \in Hirs, \A s \in Subs(hir) : f[s] \in V PROVE row(f, hir) \in V
  <2>1. \A i \in 0 .. Len(text) : EndsFrom(f, hir, text, i) \subseteq 0 .. Len(text)
    BY <1>0, EndsFromTyped
  <2> QED BY <2>1 DEF Moves
<1>1. ASSUME NEW f \in [Hirs -> V] PROVE turn(f) \in [Hirs -> V]
  <2> SUFFICES ASSUME NEW hir \in Hirs PROVE row(f, hir) \in V
    OBVIOUS
  <2>1. \A s \in Subs(hir) : f[s] \in V
    BY HirFacts
  <2> HIDE DEF V, row
  <2> QED BY <1>0, <2>1
<1>2. ASSUME NEW f \in [Hirs -> V], NEW g \in [Hirs -> V], NEW hir \in Hirs, \A s \in Subs(hir) : f[s] = g[s]
      PROVE  G[f][hir] = G[g][hir]
  <2>1. \A i \in 0 .. Len(text) : EndsFrom(f, hir, text, i) = EndsFrom(g, hir, text, i)
    BY <1>2, EndsFromParts
  <2>2. row(f, hir) = row(g, hir)
    BY <2>1
  <2> HIDE DEF row, V
  <2>3. G[f][hir] = row(f, hir) /\ G[g][hir] = row(g, hir)
    OBVIOUS
  <2> QED BY <2>2, <2>3
<1>3. G \in [[Hirs -> V] -> [Hirs -> V]] /\ \A f \in [Hirs -> V] : G[f] = turn(f)
  <2> HIDE DEF turn, V
  <2> QED BY <1>1
<1>a. \A hir, i : Ends(hir, text, i) = ends[hir][i]
  BY DEF Ends
<1> HIDE DEF G
<1>4. LooksAtParts(G, V)
  <2> HIDE DEF V
  <2> QED BY <1>2 DEF LooksAtParts
<1>5. V # {}
  <2>1. [i \in 0 .. Len(text) |-> {}] \in V
    BY DEF Moves
  <2> QED BY <2>1
<1> HIDE DEF V, row
<1>6. PICK f \in [Hirs -> V] : f = G[f]
  BY <1>3, <1>4, <1>5, HirRecursion
<1>7. f = turn(f)
  <2> HIDE DEF turn
  <2> QED BY <1>3, <1>6
<1>9. ends = turn(ends)
  <2> HIDE DEF turn
  <2> QED BY <1>7
<1> HIDE DEF ends
<1>10. ends = [hir \in Hirs |-> ends[hir]] /\ \A hir \in Hirs : ends[hir] = row(ends, hir)
  BY <1>9
<1> DEFINE T == {hir \in Hirs : ends[hir] \in V}
<1>11. ASSUME NEW hir \in Hirs, Subs(hir) \subseteq T PROVE hir \in T
  <2>1. \A s \in Subs(hir) : ends[s] \in V
    BY <1>11
  <2>2. row(ends, hir) \in V
    BY <1>0, <2>1
  <2> QED BY <1>10, <2>2
<1>12. Hirs \subseteq T
  <2> HIDE DEF T
  <2> QED BY <1>11, HirInduction
<1>13. ends \in [Hirs -> Moves(text)]
  BY <1>10, <1>12 DEF V
<1>14. \A hir \in Hirs, i \in 0 .. Len(text) : ends[hir][i] = EndsFrom(ends, hir, text, i)
  BY <1>10 DEF row
<1> QED BY <1>a, <1>13, <1>14 DEF AllEnds

-----------------------------------------------------------------------------
(* How long a match is.                                                    *)

LEMMA PathMonotone ==
    ASSUME NEW n \in Nat, NEW p \in [0 .. n -> Nat], \A x \in 1 .. n : p[x - 1] <= p[x],
           NEW a \in 0 .. n, NEW b \in a .. n
    PROVE  p[a] <= p[b]
<1> DEFINE Good(x) == a + x <= n => p[a] <= p[a + x]
           T       == {x \in Nat : Good(x)}
<1>1. Good(0)
  OBVIOUS
<1>2. ASSUME NEW x \in Nat, Good(x) PROVE Good(x + 1)
  <2>1. PICK m \in Nat, k \in Nat : m = a + (x + 1) /\ k = a + x
    OBVIOUS
  <2> SUFFICES ASSUME m <= n PROVE p[a] <= p[m]
    BY <2>1
  <2>2. m \in 1 .. n /\ m - 1 = k /\ k \in 0 .. n
    BY <2>1
  <2>3. p[m - 1] <= p[m]
    BY <2>2
  <2>4. p[a] <= p[k]
    BY <1>2, <2>1, <2>2
  <2>5. p[k] \in Nat /\ p[m] \in Nat /\ p[a] \in Nat
    BY <2>2
  <2> QED BY <2>2, <2>3, <2>4, <2>5
<1> HIDE DEF Good
<1>3. 0 \in T /\ \A x \in Nat : x \in T => x + 1 \in T
  BY <1>1, <1>2
<1> HIDE DEF T
<1>4. Nat \subseteq T
  BY <1>3, InductionOver
<1>5. PICK x \in Nat : x = b - a /\ a + x = b
  OBVIOUS
<1>6. Good(x)
  BY <1>4 DEF T
<1> QED BY <1>5, <1>6 DEF Good

\* A step of at least l and, if u is 0 or 1, at most u.
Step01(from, to, l, u) == from <= to /\ l <= to - from /\ (u < 2 => to - from <= u)

LEMMA PathSums ==
    ASSUME NEW mins \in Seq(Nat), NEW maxs \in Seq(Nat), Len(mins) = Len(maxs),
           NEW p \in [0 .. Len(mins) -> Nat],
           \A x \in 1 .. Len(mins) : Step01(p[x - 1], p[x], mins[x], maxs[x])
    PROVE  Step01(p[0], p[Len(mins)], Total(mins), Total(maxs))
<1>1. PICK lo : Sums(lo, mins) /\ Total(mins) = lo[Len(mins)]
  BY TotalUnfolds
<1>2. PICK hi : Sums(hi, maxs) /\ Total(maxs) = hi[Len(maxs)]
  BY TotalUnfolds
<1>3. PICK n \in Nat : n = Len(mins) /\ n = Len(maxs)
  OBVIOUS
<1>4. /\ lo \in [0 .. n -> Nat] /\ hi \in [0 .. n -> Nat] /\ lo[0] = 0 /\ hi[0] = 0
      /\ \A x \in 1 .. n : lo[x] = lo[x - 1] + mins[x] /\ hi[x] = hi[x - 1] + maxs[x]
      /\ \A x \in 1 .. n : mins[x] \in Nat /\ maxs[x] \in Nat
      /\ p \in [0 .. n -> Nat]
  BY <1>1, <1>2, <1>3 DEF Sums
<1> DEFINE Good(x) == x <= n => Step01(p[0], p[x], lo[x], hi[x])
           T       == {x \in Nat : Good(x)}
<1>5. Good(0)
  <2>1. p[0] \in Nat
    BY <1>4
  <2> QED BY <1>4, <2>1 DEF Step01
<1>6. ASSUME NEW x \in Nat, Good(x) PROVE Good(x + 1)
  <2>1. PICK m \in Nat : m = x + 1
    OBVIOUS
  <2> SUFFICES ASSUME m <= n PROVE Step01(p[0], p[m], lo[m], hi[m])
    BY <2>1
  <2>2. m \in 1 .. n /\ m - 1 = x /\ x \in 0 .. n /\ m \in 0 .. n /\ x <= n
    BY <2>1
  <2>a. lo[m] = lo[m - 1] + mins[m] /\ hi[m] = hi[m - 1] + maxs[m] /\ mins[m] \in Nat /\ maxs[m] \in Nat
    BY <1>4, <2>2
  <2>3. lo[m] = lo[x] + mins[m] /\ hi[m] = hi[x] + maxs[m]
    BY <2>a, <2>2
  <2>c. 0 \in 0 .. n
    OBVIOUS
  <2>d. p[x] \in Nat /\ p[m] \in Nat /\ p[0] \in Nat
    <3>1. p \in [0 .. n -> Nat]
      BY <1>4
    <3> QED BY <2>2, <2>c, <3>1
  <2>4. lo[x] \in Nat /\ hi[x] \in Nat /\ p[x] \in Nat /\ p[m] \in Nat /\ p[0] \in Nat
    <3>1. lo \in [0 .. n -> Nat] /\ hi \in [0 .. n -> Nat]
      BY <1>4
    <3> HIDE DEF Good
    <3> QED BY <2>2, <2>d, <3>1
  <2>b. Step01(p[m - 1], p[m], mins[m], maxs[m])
    BY <1>3, <2>2
  <2>5. Step01(p[x], p[m], mins[m], maxs[m])
    BY <2>b, <2>2
  <2>6. Step01(p[0], p[x], lo[x], hi[x])
    BY <1>6, <2>2
  <2>7. \A a, b, c, l, k, u, v \in Nat : Step01(a, b, l, u) /\ Step01(b, c, k, v) => Step01(a, c, l + k, u + v)
    BY DEF Step01
  <2> HIDE DEF Good
  <2>8. Step01(p[0], p[m], lo[x] + mins[m], hi[x] + maxs[m])
    BY <2>a, <2>4, <2>5, <2>6, <2>7
  <2> QED BY <2>3, <2>8
<1> HIDE DEF Good
<1>7. 0 \in T /\ \A x \in Nat : x \in T => x + 1 \in T
  BY <1>5, <1>6
<1> HIDE DEF T
<1>8. Nat \subseteq T
  BY <1>7, InductionOver
<1>9. Good(n)
  BY <1>8 DEF T
<1> QED BY <1>1, <1>2, <1>3, <1>9 DEF Good

LEMMA PathProducts ==
    ASSUME NEW n \in Nat, NEW p \in [0 .. n -> Nat], NEW l \in Nat, NEW u \in Nat,
           \A x \in 1 .. n : Step01(p[x - 1], p[x], l, u), NEW k \in 0 .. n
    PROVE  p[0] <= p[k] /\ k * l <= p[k] - p[0] /\ (u < 2 => p[k] - p[0] <= k * u)
<1> DEFINE Good(x) == x <= n => p[0] <= p[x] /\ x * l <= p[x] - p[0] /\ (u < 2 => p[x] - p[0] <= x * u)
           T       == {x \in Nat : Good(x)}
<1>1. Good(0)
  <2>1. p[0] \in Nat /\ 0 * l = 0 /\ 0 * u = 0
    OBVIOUS
  <2> QED BY <2>1
<1>2. ASSUME NEW x \in Nat, Good(x) PROVE Good(x + 1)
  <2>1. PICK m \in Nat : m = x + 1
    OBVIOUS
  <2> SUFFICES ASSUME m <= n
               PROVE p[0] <= p[m] /\ m * l <= p[m] - p[0] /\ (u < 2 => p[m] - p[0] <= m * u)
    BY <2>1
  <2>2. m \in 1 .. n /\ m - 1 = x /\ x \in 0 .. n /\ m \in 0 .. n /\ x <= n
    BY <2>1
  <2>3. PICK y \in Nat, z \in Nat : y = x * l /\ z = x * u /\ m * l = y + l /\ m * u = z + u
    <3>1. x * l \in Nat /\ x * u \in Nat /\ (x + 1) * l = x * l + l /\ (x + 1) * u = x * u + u
      OBVIOUS
    <3> QED BY <2>1, <3>1
  <2>4. p[x] \in Nat /\ p[m] \in Nat /\ p[0] \in Nat
    BY <2>2
  <2>b. Step01(p[m - 1], p[m], l, u)
    BY <2>2
  <2>5. Step01(p[x], p[m], l, u)
    BY <2>b, <2>2
  <2>6. p[0] <= p[x] /\ y <= p[x] - p[0] /\ (u < 2 => p[x] - p[0] <= z)
    BY <1>2, <2>2, <2>3
  <2> HIDE DEF Good
  <2>7. p[0] <= p[m] /\ y + l <= p[m] - p[0] /\ (u < 2 => p[m] - p[0] <= z + u)
    BY <2>4, <2>5, <2>6 DEF Step01
  <2> QED BY <2>3, <2>7
<1> HIDE DEF Good
<1>3. 0 \in T /\ \A x \in Nat : x \in T => x + 1 \in T
  BY <1>1, <1>2
<1> HIDE DEF T
<1>4. Nat \subseteq T
  BY <1>3, InductionOver
<1>5. k \in Nat /\ k <= n
  OBVIOUS
<1> QED BY <1>4, <1>5 DEF T, Good

-----------------------------------------------------------------------------
(* What a match is made of.                                                *)

\* p leads through the text, and each of its n steps is a match of that part.
Through(p, n, ends, parts, text) ==
    p \in [0 .. n -> 0 .. Len(text)] /\ \A m \in 1 .. n : p[m] \in ends[parts[m]][p[m - 1]]

\* The same when the parts are all the same.
Turning(p, n, ends, sub, text) ==
    p \in [0 .. n -> 0 .. Len(text)] /\ \A m \in 1 .. n : p[m] \in ends[sub][p[m - 1]]

\* A match of hir from i to j.
MatchOf(ends, hir, text, i, j) ==
    /\ j \in 0 .. Len(text)
    /\ hir.kind = "literal" =>
          j = i + Len(hir.bytes) /\ \A k \in DOMAIN hir.bytes : Lower[text[i + k]] = Lower[hir.bytes[k]]
    /\ hir.kind = "class" =>
          j = i + 1 /\ \E x \in DOMAIN hir.ranges : \E b \in hir.ranges[x] : Lower[text[j]] = Lower[b]
    /\ hir.kind \in {"look", "empty"} => j = i
    /\ hir.kind = "repetition" =>
          \E k \in Counts(hir, Len(text)) : \E p : Turning(p, k, ends, hir.sub, text) /\ p[0] = i /\ p[k] = j
    /\ hir.kind = "capture" => j \in ends[hir.sub][i]
    /\ hir.kind = "concat" =>
          \E p : Through(p, Len(hir.parts), ends, hir.parts, text) /\ p[0] = i /\ p[Len(hir.parts)] = j
    /\ hir.kind = "alternation" => \E n \in DOMAIN hir.alts : j \in ends[hir.alts[n]][i]

LEMMA MatchMadeOf ==
    ASSUME NEW text \in Seq(Byte), NEW ends, AllEnds(ends, text), NEW hir \in Hirs,
           NEW i \in 0 .. Len(text), NEW j \in ends[hir][i]
    PROVE  MatchOf(ends, hir, text, i, j)
<1> DEFINE P == 0 .. Len(text)
           M == [P -> SUBSET P]
<1>0. i \in P
  OBVIOUS
<1>1. WellFormed(hir, Hirs) /\ Len(text) \in Nat /\ Subs(hir) \subseteq Hirs
  BY HirFacts
<1>2. \A s \in Subs(hir) : ends[s] \in M
  BY <1>1 DEF AllEnds, Moves
<1>3. j \in EndsFrom(ends, hir, text, i)
  BY DEF AllEnds
<1>4. j \in P
  <2>1. ends[hir] \in M
    BY DEF AllEnds, Moves
  <2> QED BY <2>1
<1>5. CASE hir.kind = "literal"
  BY <1>3, <1>4, <1>5 DEF EndsFrom, MatchOf
<1>6. CASE hir.kind = "class"
  <2>1. j = i + 1 /\ Lower[text[j]] \in {Lower[b] : b \in UNION ToSet(hir.ranges)}
    BY <1>3, <1>6 DEF EndsFrom
  <2>2. PICK b \in UNION ToSet(hir.ranges) : Lower[text[j]] = Lower[b]
    BY <2>1
  <2>3. PICK x \in DOMAIN hir.ranges : b \in hir.ranges[x]
    BY <2>2 DEF ToSet
  <2> QED BY <1>4, <1>6, <2>1, <2>2, <2>3 DEF MatchOf
<1>7. CASE hir.kind \in {"look", "empty"}
  BY <1>3, <1>4, <1>7 DEF EndsFrom, MatchOf
<1>8. CASE hir.kind = "repetition"
  <2>1. PICK k \in Counts(hir, Len(text)) : j \in After([n \in 1 .. k |-> ends[hir.sub]], i)
    BY <1>3, <1>8 DEF EndsFrom
  <2>2. k \in Nat
    BY <1>1, <1>8, <2>1 DEF Counts, WellFormed
  <2> DEFINE steps == [n \in 1 .. k |-> ends[hir.sub]]
  <2>3. steps \in Seq(M) /\ Len(steps) = k
    <3>1. ends[hir.sub] \in M
      BY <1>2, <1>8 DEF Subs
    <3> HIDE DEF M
    <3> QED BY <2>2, <3>1
  <2>4. \A m \in 1 .. k : steps[m] = ends[hir.sub]
    OBVIOUS
  <2>5. j \in After(steps, i)
    BY <2>1
  <2> HIDE DEF steps
  <2>6. PICK p : Path(p, steps, Len(steps), P) /\ p[0] = i /\ p[Len(steps)] = j
    <3>1. steps \in Seq([P -> SUBSET P])
      BY <2>3
    <3> HIDE DEF P, M
    <3>2. j \in P /\ Route(steps, Len(steps), i, j, P)
      BY <1>0, <2>5, <3>1, PathExists
    <3> QED BY <3>2 DEF Route
  <2>7. Turning(p, k, ends, hir.sub, text) /\ p[0] = i /\ p[k] = j
    BY <2>3, <2>4, <2>6 DEF Path, Turning
  <2> QED BY <1>4, <1>8, <2>7 DEF MatchOf
<1>9. CASE hir.kind = "capture"
  BY <1>3, <1>4, <1>9 DEF EndsFrom, MatchOf
<1>10. CASE hir.kind = "concat"
  <2> DEFINE steps == [n \in DOMAIN hir.parts |-> ends[hir.parts[n]]]
  <2>1. PICK k \in Nat : k = Len(hir.parts) /\ DOMAIN hir.parts = 1 .. k
    BY <1>1, <1>10 DEF WellFormed
  <2>2. \A n \in DOMAIN hir.parts : ends[hir.parts[n]] \in M
    BY <1>2, <1>10 DEF Subs
  <2>3. steps \in Seq(M) /\ Len(steps) = k
    <3> HIDE DEF M
    <3> QED BY <2>1, <2>2
  <2>4. \A m \in 1 .. k : steps[m] = ends[hir.parts[m]]
    BY <2>1
  <2>5. j \in After(steps, i)
    BY <1>3, <1>10 DEF EndsFrom
  <2> HIDE DEF steps
  <2>6. PICK p : Path(p, steps, Len(steps), P) /\ p[0] = i /\ p[Len(steps)] = j
    <3>1. steps \in Seq([P -> SUBSET P])
      BY <2>3
    <3> HIDE DEF P, M
    <3>2. j \in P /\ Route(steps, Len(steps), i, j, P)
      BY <1>0, <2>5, <3>1, PathExists
    <3> QED BY <3>2 DEF Route
  <2>7. Through(p, k, ends, hir.parts, text) /\ p[0] = i /\ p[k] = j
    BY <2>3, <2>4, <2>6 DEF Path, Through
  <2> QED BY <1>4, <1>10, <2>1, <2>7 DEF MatchOf
<1>11. CASE hir.kind = "alternation"
  <2>1. PICK n \in DOMAIN hir.alts : j \in ends[hir.alts[n]][i]
    BY <1>3, <1>11 DEF EndsFrom
  <2> QED BY <1>4, <1>11, <2>1 DEF MatchOf
<1> QED BY <1>1, <1>5, <1>6, <1>7, <1>8, <1>9, <1>10, <1>11 DEF WellFormed

LEMMA MatchLengths ==
    ASSUME NEW text \in Seq(Byte), NEW ends, AllEnds(ends, text)
    PROVE  \A hir \in Hirs : \A i \in 0 .. Len(text) : \A j \in ends[hir][i] : Step01(i, j, MinLen[hir], MaxLen[hir])
<1> DEFINE P == 0 .. Len(text)
           Good(hir) == \A i \in P : \A j \in ends[hir][i] : Step01(i, j, MinLen[hir], MaxLen[hir])
           T == {hir \in Hirs : Good(hir)}
<1>1. ASSUME NEW hir \in Hirs, Subs(hir) \subseteq T, NEW i \in P, NEW j \in ends[hir][i]
      PROVE  Step01(i, j, MinLen[hir], MaxLen[hir])
  <2>1. MatchOf(ends, hir, text, i, j)
    BY MatchMadeOf
  <2>2. /\ MinLen[hir] \in Nat /\ MinLen[hir] = MinLenFrom(MinLen, hir)
        /\ MaxLen[hir] \in Nat /\ MaxLen[hir] = MaxLenFrom(MaxLen, hir)
    BY MinLenUnfolds, MaxLenUnfolds
  <2>3. WellFormed(hir, Hirs) /\ Len(text) \in Nat /\ i \in Nat /\ j \in Nat
    BY <2>1, HirFacts DEF MatchOf
  <2>4. \A s \in Subs(hir) : s \in Hirs /\ Good(s) /\ MinLen[s] \in Nat /\ MaxLen[s] \in Nat
    BY <1>1, MinLenUnfolds, MaxLenUnfolds
  <2> HIDE DEF Good
  <2>5. CASE hir.kind = "literal"
    <3>1. Len(hir.bytes) \in Nat /\ j = i + Len(hir.bytes)
      BY <2>1, <2>3, <2>5 DEF MatchOf, WellFormed
    <3>2. MinLen[hir] = Len(hir.bytes) /\ MaxLen[hir] = Len(hir.bytes)
      BY <2>2, <2>5 DEF MinLenFrom, MaxLenFrom
    <3> QED BY <2>3, <3>1, <3>2 DEF Step01
  <2>6. CASE hir.kind = "class"
    <3>1. j = i + 1
      BY <2>1, <2>6 DEF MatchOf
    <3>2. MinLen[hir] = 1 /\ MaxLen[hir] = 1
      BY <2>2, <2>6 DEF MinLenFrom, MaxLenFrom
    <3> QED BY <2>3, <3>1, <3>2 DEF Step01
  <2>7. CASE hir.kind \in {"look", "empty"}
    <3>1. j = i
      BY <2>1, <2>7 DEF MatchOf
    <3>2. MinLen[hir] = 0 /\ MaxLen[hir] = 0
      BY <2>2, <2>7 DEF MinLenFrom, MaxLenFrom
    <3> QED BY <2>3, <3>1, <3>2 DEF Step01
  <2>8. CASE hir.kind = "capture"
    <3>1. j \in ends[hir.sub][i] /\ hir.sub \in Subs(hir)
      BY <2>1, <2>8 DEF MatchOf, Subs
    <3>2. MinLen[hir] = MinLen[hir.sub] /\ MaxLen[hir] = MaxLen[hir.sub]
      BY <2>2, <2>8 DEF MinLenFrom, MaxLenFrom
    <3>3. Good(hir.sub)
      BY <2>4, <3>1
    <3> QED BY <3>1, <3>2, <3>3 DEF Good
  <2>9. CASE hir.kind = "alternation"
    <3>1. PICK n \in DOMAIN hir.alts : j \in ends[hir.alts[n]][i]
      BY <2>1, <2>9 DEF MatchOf
    <3> DEFINE a  == hir.alts[n]
               mn == {MinLen[hir.alts[m]] : m \in DOMAIN hir.alts}
               mx == {MaxLen[hir.alts[m]] : m \in DOMAIN hir.alts}
               ms == [m \in DOMAIN hir.alts |-> MaxLen[hir.alts[m]]]
    <3>2. a \in Subs(hir)
      BY <2>9, <3>1 DEF Subs
    <3>3. Good(a) /\ MinLen[a] \in Nat /\ MaxLen[a] \in Nat
      <4> HIDE DEF a
      <4> QED BY <2>4, <3>2
    <3>4. MinLen[hir] = Min(mn) /\ MaxLen[hir] = Max(mx)
      BY <2>2, <2>9 DEF MinLenFrom, MaxLenFrom
    <3>5. \A m \in DOMAIN hir.alts : MinLen[hir.alts[m]] \in Nat /\ MaxLen[hir.alts[m]] \in Nat
      BY <2>4, <2>9 DEF Subs
    <3>6. mn \in SUBSET Nat /\ mx \in SUBSET Int /\ MinLen[a] \in mn /\ MaxLen[a] \in mx
      BY <3>1, <3>5
    <3>7. PICK N \in Int : \A x \in mx : x <= N
      <4>1. ms \in Seq(Nat)
        BY <2>3, <2>9, <3>5 DEF WellFormed
      <4>2. Total(ms) \in Nat /\ \A m \in DOMAIN ms : ms[m] <= Total(ms)
        <5> HIDE DEF ms
        <5> QED BY <4>1, TotalBounds
      <4>3. \A x \in mx : \E m \in DOMAIN ms : x = ms[m]
        OBVIOUS
      <4> HIDE DEF ms, mx
      <4>4. Total(ms) \in Int /\ \A x \in mx : x <= Total(ms)
        BY <4>2, <4>3
      <4> QED BY <4>4
    <3> HIDE DEF mn, mx
    <3>8. Min(mn) <= MinLen[a]
      BY <3>6, MinOf
    <3>9. MaxLen[a] <= Max(mx)
      BY <3>6, <3>7, MaxOf
    <3>10. Step01(i, j, MinLen[a], MaxLen[a])
      BY <3>1, <3>3 DEF Good
    <3> HIDE DEF a
    <3> QED BY <2>2, <2>3, <3>3, <3>4, <3>8, <3>9, <3>10 DEF Step01
  <2>10. CASE hir.kind = "concat"
    <3>1. PICK n \in Nat : n = Len(hir.parts) /\ DOMAIN hir.parts = 1 .. n
      BY <2>3, <2>10 DEF WellFormed
    <3>2. PICK p : Through(p, n, ends, hir.parts, text) /\ p[0] = i /\ p[n] = j
      BY <2>1, <2>10, <3>1 DEF MatchOf
    <3> DEFINE mins == [m \in DOMAIN hir.parts |-> MinLen[hir.parts[m]]]
               maxs == [m \in DOMAIN hir.parts |-> MaxLen[hir.parts[m]]]
    <3>3. \A m \in 1 .. n : /\ hir.parts[m] \in Subs(hir) /\ Good(hir.parts[m])
                            /\ MinLen[hir.parts[m]] \in Nat /\ MaxLen[hir.parts[m]] \in Nat
      BY <2>4, <2>10, <3>1 DEF Subs
    <3>4. mins \in Seq(Nat) /\ maxs \in Seq(Nat) /\ Len(mins) = n /\ Len(maxs) = n
      BY <3>1, <3>3
    <3>5. MinLen[hir] = Total(mins) /\ MaxLen[hir] = Total(maxs)
      BY <2>2, <2>10 DEF MinLenFrom, MaxLenFrom
    <3>6. \A m \in 1 .. n : mins[m] = MinLen[hir.parts[m]] /\ maxs[m] = MaxLen[hir.parts[m]]
      BY <3>1
    <3> HIDE DEF mins, maxs
    <3>7. p \in [0 .. n -> Nat] /\ \A m \in 1 .. n : p[m - 1] \in P
      BY <3>2 DEF Through
    <3>8. \A m \in 1 .. n : Step01(p[m - 1], p[m], mins[m], maxs[m])
      <4> SUFFICES ASSUME NEW m \in 1 .. n PROVE Step01(p[m - 1], p[m], MinLen[hir.parts[m]], MaxLen[hir.parts[m]])
        BY <3>6
      <4>1. p[m] \in ends[hir.parts[m]][p[m - 1]] /\ p[m - 1] \in P
        BY <3>2, <3>7 DEF Through
      <4>2. Good(hir.parts[m])
        BY <3>3
      <4> QED BY <4>1, <4>2 DEF Good
    <3>9. Step01(p[0], p[n], Total(mins), Total(maxs))
      BY <3>4, <3>7, <3>8, PathSums
    <3> QED BY <3>2, <3>5, <3>9
  <2>11. CASE hir.kind = "repetition"
    <3>k. PICK k \in Counts(hir, Len(text)) : \E p : Turning(p, k, ends, hir.sub, text) /\ p[0] = i /\ p[k] = j
      BY <2>1, <2>11 DEF MatchOf
    <3>1. PICK p : Turning(p, k, ends, hir.sub, text) /\ p[0] = i /\ p[k] = j
      BY <3>k
    <3>2. /\ k \in Nat /\ hir.min \in Nat /\ hir.min <= k
          /\ hir.max = Unbounded \/ (hir.max \in Nat /\ k <= hir.max)
      BY <2>3, <2>11, <3>1 DEF Counts, WellFormed, Unbounded
    <3>3. PICK l \in Nat, u \in Nat : l = MinLen[hir.sub] /\ u = MaxLen[hir.sub]
      BY <2>4, <2>11 DEF Subs
    <3>4. PICK M \in Nat : M = (IF hir.max = Unbounded THEN 2 ELSE hir.max)
      BY <3>2
    <3>5. MinLen[hir] = hir.min * l /\ MaxLen[hir] = M * u
      BY <2>2, <2>11, <3>3, <3>4 DEF MinLenFrom, MaxLenFrom
    <3>6. Good(hir.sub)
      BY <2>4, <2>11 DEF Subs
    <3>7. p \in [0 .. k -> Nat] /\ \A m \in 1 .. k : p[m - 1] \in P
      BY <3>1, <3>2 DEF Turning
    <3>8. \A m \in 1 .. k : Step01(p[m - 1], p[m], l, u)
      BY <3>1, <3>3, <3>6, <3>7 DEF Turning, Good
    <3>9. k \in 0 .. k
      BY <3>2
    <3>10. p[0] <= p[k] /\ k * l <= p[k] - p[0] /\ (u < 2 => p[k] - p[0] <= k * u)
      BY <3>2, <3>7, <3>8, <3>9, PathProducts
    <3>11. i <= j /\ k * l <= j - i /\ (u < 2 => j - i <= k * u)
      BY <3>1, <3>10
    <3>12. hir.min * l <= k * l /\ hir.min * l \in Nat /\ k * l \in Nat
      <4>1. \A x, y \in Nat : x <= y => x * l <= y * l /\ x * l \in Nat /\ y * l \in Nat
        OBVIOUS
      <4> QED BY <3>2, <4>1
    <3>13. M * u < 2 => j - i <= M * u
      <4> SUFFICES ASSUME M * u < 2 PROVE j - i <= M * u
        OBVIOUS
      <4>1. CASE u = 0
        <5>1. M * u = 0 /\ k * u = 0
          BY <3>2, <4>1
        <5> QED BY <3>11, <4>1, <5>1
      <4>2. CASE u = 1
        <5>1. M * u = M /\ k * u = k
          BY <3>2, <4>2
        <5>2. M < 2 /\ k <= M
          <6>1. M < 2
            BY <5>1
          <6> QED BY <3>2, <3>4, <6>1
        <5> QED BY <2>3, <3>2, <3>11, <4>2, <5>1, <5>2
      <4>3. CASE u > 1
        <5>1. M = 0
          <6>1. \A x, y \in Nat : y > 1 /\ x # 0 => x * y >= 2
            <7> SUFFICES ASSUME NEW x \in Nat, NEW y \in Nat, y > 1, x # 0 PROVE x * y >= 2
              OBVIOUS
            <7>1. x * y >= 1 * y
              BY Z3
            <7> QED BY <7>1
          <6> QED BY <4>3, <6>1
        <5>2. k = 0
          BY <3>2, <3>4, <5>1
        <5>3. j = i /\ M * u = 0
          BY <3>1, <5>1, <5>2
        <5> QED BY <2>3, <5>3
      <4> QED BY <4>1, <4>2, <4>3
    <3> QED BY <2>3, <3>5, <3>11, <3>12, <3>13 DEF Step01
  <2> QED BY <2>3, <2>5, <2>6, <2>7, <2>8, <2>9, <2>10, <2>11 DEF WellFormed
<1>2. \A hir \in Hirs : Subs(hir) \subseteq T => hir \in T
  BY <1>1
<1> HIDE DEF Good
<1>3. Hirs \subseteq T
  <2> HIDE DEF T
  <2> QED BY <1>2, HirInduction
<1> QED BY <1>3 DEF Good

-----------------------------------------------------------------------------
(* What is known of an expression.                                         *)

\* The bytes a key may consist of.
Keyed == {b \in Printable : Lower[b] = b}

\* What is known of an expression that nests no deeper than n.
InfoAt(n) == [query : TreesTo[n + 1], first : SUBSET Keyed, last : SUBSET Keyed, canBeEmpty : BOOLEAN]

LEMMA KeyedFacts ==
    /\ IsFiniteSet(Keyed) /\ Keyed \subseteq Byte
    /\ \A b \in Byte : b \in Printable => Lower[b] \in Keyed
    /\ \A b \in Byte : Lower[b] \in Keyed <=> b \in Printable
<1>1. Keyed \subseteq Printable
  BY DEF Keyed
<1>2. IsFiniteSet(Keyed)
  BY <1>1, FS_Subset, TreesAssumption
<1>3. \A b \in Byte : Lower[b] \in Byte /\ Lower[Lower[b]] = Lower[b] /\ (b \in Printable <=> Lower[b] \in Printable)
  BY LowerAssumption, TreesAssumption
<1> QED BY <1>1, <1>2, <1>3, TreesAssumption DEF Keyed

LEMMA LeavesForest ==
    ASSUME NEW qs, IsFiniteSet(qs), qs \subseteq Leaves, NEW n \in 0 .. Top
    PROVE  Forest(qs, n)
BY ForestInTrees DEF Forest

LEMMA TreesClimb ==
    ASSUME NEW n \in 0 .. Top, NEW m \in n .. Top
    PROVE  TreesTo[n] \subseteq TreesTo[m]
<1> DEFINE Good(i) == n + i \in 0 .. Top => TreesTo[n] \subseteq TreesTo[n + i]
           T       == {i \in Nat : Good(i)}
<1>0. Top \in Nat
  BY TreesUnfold
<1>1. Good(0)
  OBVIOUS
<1>2. ASSUME NEW i \in Nat, Good(i) PROVE Good(i + 1)
  <2>1. PICK k \in Nat, l \in Nat : k = n + i /\ l = n + (i + 1)
    BY <1>0
  <2> SUFFICES ASSUME l \in 0 .. Top PROVE TreesTo[n] \subseteq TreesTo[l]
    BY <2>1
  <2>2. k \in 0 .. Top /\ l \in 1 .. Top /\ l - 1 = k
    BY <2>1, <1>0
  <2>3. TreesTo[n] \subseteq TreesTo[k]
    BY <1>2, <2>1, <2>2
  <2>4. TreesTo[l - 1] \subseteq TreesTo[l]
    BY <2>2, TreesGrow
  <2> QED BY <2>2, <2>3, <2>4
<1> HIDE DEF Good
<1>3. 0 \in T /\ \A i \in Nat : i \in T => i + 1 \in T
  BY <1>1, <1>2
<1> HIDE DEF T
<1>4. Nat \subseteq T
  BY <1>3, InductionOver
<1>5. PICK i \in Nat : i = m - n /\ n + i = m
  BY <1>0
<1>6. Good(i) /\ m \in 0 .. Top
  BY <1>0, <1>4 DEF T
<1> QED BY <1>5, <1>6 DEF Good

\* The pairs of two sets of bytes.
Crossed(op, last, first) == {Bigram(op, <<l, f>>) : l \in last, f \in first}

LEMMA CrossedForest ==
    ASSUME NEW op \in {"consec", "skip1"}, NEW last \in SUBSET Keyed, NEW first \in SUBSET Keyed, NEW n \in 0 .. Top
    PROVE  /\ Forest(Crossed(op, last, first), n)
           /\ CrossProduct(op, last, first) = SimplifyOr(Crossed(op, last, first))
<1> DEFINE D == last \X first
           f == [x \in D |-> Bigram(op, x)]
<1>1. IsFiniteSet(last) /\ IsFiniteSet(first)
  BY KeyedFacts, FS_Subset
<1>2. IsFiniteSet(D)
  BY <1>1, FS_Product
<1>3. \A x \in D : x = <<x[1], x[2]>> /\ x[1] \in last /\ x[2] \in first
  OBVIOUS
<1>4. Crossed(op, last, first) = {f[x] : x \in D}
  <2>1. \A l \in last, g \in first : <<l, g>> \in D /\ f[<<l, g>>] = Bigram(op, <<l, g>>)
    OBVIOUS
  <2>2. \A x \in D : f[x] = Bigram(op, <<x[1], x[2]>>)
    BY <1>3
  <2>3. \A q : q \in Crossed(op, last, first) <=> \E l \in last, g \in first : q = Bigram(op, <<l, g>>)
    BY DEF Crossed
  <2>4. \A q : q \in {f[x] : x \in D} <=> \E x \in D : q = f[x]
    OBVIOUS
  <2>5. ASSUME NEW q \in Crossed(op, last, first) PROVE q \in {f[x] : x \in D}
    <3>1. PICK l \in last, g \in first : q = Bigram(op, <<l, g>>)
      BY <2>3
    <3>2. <<l, g>> \in D /\ f[<<l, g>>] = q
      BY <2>1, <3>1
    <3> HIDE DEF D, f
    <3> QED BY <3>2
  <2>6. ASSUME NEW q \in {f[x] : x \in D} PROVE q \in Crossed(op, last, first)
    <3>1. PICK x \in D : q = f[x]
      OBVIOUS
    <3>2. q = Bigram(op, <<x[1], x[2]>>) /\ x[1] \in last /\ x[2] \in first
      BY <1>3, <2>2, <3>1
    <3> QED BY <2>3, <3>2
  <2> QED BY <2>5, <2>6
<1>5. IsFiniteSet(Crossed(op, last, first))
  <2> HIDE DEF D, f
  <2>1. IsFiniteSet({f[x] : x \in D})
    BY <1>2, FiniteImage
  <2> QED BY <1>4, <2>1
<1>6. Crossed(op, last, first) \subseteq Leaves
  BY KeyedFacts DEF Crossed, Leaves, Bigram
<1> QED BY <1>5, <1>6, LeavesForest DEF CrossProduct, Crossed

LEMMA CrossProductTyped ==
    ASSUME NEW op \in {"consec", "skip1"}, NEW last \in SUBSET Keyed, NEW first \in SUBSET Keyed, NEW n \in 1 .. Top
    PROVE  CrossProduct(op, last, first) \in TreesTo[n]
<1>1. Top \in Nat /\ Top >= 2
  BY TreesUnfold
<1>2. PICK m \in 0 .. Top : n = m + 1
  <2>1. n - 1 \in 0 .. Top /\ n = (n - 1) + 1
    BY <1>1
  <2> QED BY <2>1
<1>3. Forest(Crossed(op, last, first), m) /\ CrossProduct(op, last, first) = SimplifyOr(Crossed(op, last, first))
  BY CrossedForest
<1>4. n \in 0 .. Top
  BY <1>1
<1> QED BY <1>2, <1>3, <1>4, SimplifyOrClear

LEMMA CappedTyped ==
    ASSUME NEW S, S \subseteq Keyed
    PROVE  Capped(S) \subseteq Keyed /\ (Capped(S) = {} \/ Capped(S) = S)
BY DEF Capped

LEMMA ExpandClassTyped ==
    ASSUME NEW unicode, NEW ranges \in Seq(SUBSET Byte)
    PROVE  /\ ExpandClass(unicode, ranges) \subseteq Keyed
           /\ ExpandClass(unicode, ranges) # {} =>
                 \A x \in DOMAIN ranges : \A b \in ranges[x] \cap Printable : Lower[b] \in ExpandClass(unicode, ranges)
<1> DEFINE Taken(n) == {Lower[b] : b \in Printable \cap UNION {ranges[i] : i \in 1 .. n}}
           E == ExpandClass(unicode, ranges)
<1>1. E = {} \/ E = Taken(Len(ranges))
  BY DEF ExpandClass
<1>2. \A b \in Printable : Lower[b] \in Keyed
  BY KeyedFacts, TreesAssumption
<1>3. Taken(Len(ranges)) \subseteq Keyed
  BY <1>2
<1>4. ASSUME NEW x \in DOMAIN ranges, NEW b \in ranges[x] \cap Printable PROVE Lower[b] \in Taken(Len(ranges))
  <2>1. x \in 1 .. Len(ranges)
    OBVIOUS
  <2> QED BY <1>4, <2>1
<1> HIDE DEF Taken
<1> QED BY <1>1, <1>3, <1>4

LEMMA CollectFirstTyped ==
    ASSUME NEW infos, \A i \in DOMAIN infos : infos[i].first \subseteq Keyed, NEW n \in Nat, DOMAIN infos = 1 .. n,
           Len(infos) = n
    PROVE  CollectFirst(infos) \subseteq Keyed
<1> DEFINE mandatory == {i \in DOMAIN infos : ~infos[i].canBeEmpty}
           reach     == IF mandatory = {} THEN Len(infos) ELSE Min(mandatory)
           S         == UNION {infos[i].first : i \in 1 .. reach}
<1>1. reach \in 0 .. n
  <2>1. CASE mandatory = {}
    BY <2>1
  <2>2. CASE mandatory # {}
    <3>1. mandatory \in SUBSET Nat /\ mandatory \subseteq 0 .. n
      OBVIOUS
    <3> HIDE DEF mandatory
    <3>2. Min(mandatory) \in mandatory
      BY <2>2, <3>1, MinOf
    <3> QED BY <2>2, <3>1, <3>2
  <2> QED BY <2>1, <2>2
<1>2. CollectFirst(infos) = {} \/ CollectFirst(infos) = Capped(S)
  BY DEF CollectFirst
<1> HIDE DEF reach
<1>3. S \subseteq Keyed
  BY <1>1
<1> HIDE DEF S
<1> QED BY <1>2, <1>3, CappedTyped

\* The parts of a sequence from the last to the first, with their ends swapped.
Backwards(infos) == Reverse([i \in DOMAIN infos |-> [infos[i] EXCEPT !.first = infos[i].last]])

LEMMA CollectLastIs ==
    ASSUME NEW n \in Nat, NEW infos, DOMAIN infos = 1 .. n, Len(infos) = n, NEW m,
           \A i \in 1 .. n : infos[i] \in InfoAt(m)
    PROVE  /\ CollectLast(infos) = CollectFirst(Backwards(infos))
           /\ DOMAIN Backwards(infos) = 1 .. n /\ Len(Backwards(infos)) = n
           /\ \A i \in 1 .. n : /\ Backwards(infos)[i].first = infos[n + 1 - i].last
                                /\ Backwards(infos)[i].canBeEmpty = infos[n + 1 - i].canBeEmpty
<1> DEFINE ends == [i \in DOMAIN infos |-> [infos[i] EXCEPT !.first = infos[i].last]]
           back == Reverse(ends)
<1>0. Backwards(infos) = back
  BY DEF Backwards
<1>1. DOMAIN ends = 1 .. n /\ Len(ends) = n
  OBVIOUS
<1>2. \A i \in 1 .. n : ends[i].first = infos[i].last /\ ends[i].canBeEmpty = infos[i].canBeEmpty
  BY DEF InfoAt
<1>3. CollectLast(infos) = CollectFirst(back)
  BY DEF CollectLast
<1> HIDE DEF ends
<1>4. DOMAIN back = 1 .. n /\ Len(back) = n
  BY <1>1 DEF Reverse
<1>5. \A i \in 1 .. n : back[i] = ends[n + 1 - i] /\ n + 1 - i \in 1 .. n
  <2> SUFFICES ASSUME NEW i \in 1 .. n PROVE back[i] = ends[n + 1 - i] /\ n + 1 - i \in 1 .. n
    OBVIOUS
  <2>1. back[i] = ends[(n - i) + 1]
    BY <1>1 DEF Reverse
  <2>2. (n - i) + 1 = n + 1 - i /\ n + 1 - i \in 1 .. n
    OBVIOUS
  <2> QED BY <2>1, <2>2
<1> HIDE DEF back
<1>6. \A i \in 1 .. n : back[i].first = infos[n + 1 - i].last /\ back[i].canBeEmpty = infos[n + 1 - i].canBeEmpty
  BY <1>2, <1>5
<1> QED BY <1>0, <1>3, <1>4, <1>6

LEMMA DecomposeFromTyped ==
    ASSUME NEW n \in 0 .. NestLimit, NEW hir \in HirsTo[n], NEW f,
           \A s \in Subs(hir) : n # 0 /\ f[s] \in InfoAt(n - 1)
    PROVE  DecomposeFrom(f, hir) \in InfoAt(n)
<1>1. /\ NestLimit \in Nat /\ Top = NestLimit + 2 /\ n + 1 \in 1 .. Top /\ n + 1 \in 0 .. Top
      /\ n \in 0 .. Top /\ n \in Nat /\ 0 \in 0 .. Top /\ n + 1 \in 0 .. Top
  BY TreesAssumption DEF Top
<1>2. hir \in Hirs /\ WellFormed(hir, Hirs)
  BY HirsInside, HirFacts
<1>3. AnyQuery \in TreesTo[n + 1]
  BY <1>1, ForestInTrees DEF Leaves
<1>4. MinLen[hir] \in Nat
  BY <1>2, MinLenUnfolds
<1>5. ASSUME NEW q \in TreesTo[n + 1], NEW a \in SUBSET Keyed, NEW b \in SUBSET Keyed, NEW e \in BOOLEAN
      PROVE  Info(q, a, b, e) \in InfoAt(n)
  BY DEF Info, InfoAt
<1>6. ASSUME NEW s \in Subs(hir)
      PROVE  /\ f[s].query \in TreesTo[n] /\ f[s].query \in TreesTo[n + 1] /\ n \in 1 .. Top
             /\ f[s].first \in SUBSET Keyed /\ f[s].last \in SUBSET Keyed /\ f[s].canBeEmpty \in BOOLEAN
  <2>1. n # 0 /\ f[s] \in InfoAt(n - 1) /\ (n - 1) + 1 = n /\ n \in 1 .. Top /\ (n + 1) - 1 = n
    BY <1>1
  <2>2. f[s] \in [query : TreesTo[n], first : SUBSET Keyed, last : SUBSET Keyed, canBeEmpty : BOOLEAN]
    BY <2>1 DEF InfoAt
  <2>3. TreesTo[n] \subseteq TreesTo[n + 1]
    <3>1. TreesTo[(n + 1) - 1] \subseteq TreesTo[n + 1]
      BY <1>1, TreesGrow
    <3> QED BY <2>1, <3>1
  <2> QED BY <2>1, <2>2, <2>3
<1>7. ASSUME NEW qs, Forest(qs, n) PROVE SimplifyAnd(qs) \in TreesTo[n + 1] /\ SimplifyOr(qs) \in TreesTo[n + 1]
  BY <1>1, <1>7, SimplifyAndClear, SimplifyOrClear
<1>8. CASE hir.kind \in {"empty", "look"}
  <2>1. DecomposeFrom(f, hir) = Info(AnyQuery, {}, {}, TRUE)
    BY <1>8 DEF DecomposeFrom, EmptyInfo
  <2> QED BY <1>3, <1>5, <2>1
<1>9. CASE hir.kind = "literal"
  <2> DEFINE bytes == hir.bytes
             one   == Windows("consec", bytes, 1)
             two   == Windows("skip1", bytes, 2)
             Known(b) == {Lower[b]} \cap Printable
  <2>1. bytes \in Seq(Byte) /\ bytes # <<>>
    BY <1>2, <1>9 DEF WellFormed
  <2> HIDE DEF bytes
  <2>2. Forest(one, n) /\ Forest(two, n)
    BY <1>1, <2>1, WindowsForest
  <2>3. Forest(one \cup two, n)
    BY <2>2, FS_Union DEF Forest
  <2>4. Head(bytes) \in Byte /\ Last(bytes) \in Byte
    BY <2>1 DEF Last
  <2>5. \A b \in Byte : Known(b) \subseteq Keyed
    BY KeyedFacts, LowerAssumption, TreesAssumption
  <2>6. DecomposeFrom(f, hir) = Info(SimplifyAnd(one \cup two), Known(Head(bytes)), Known(Last(bytes)), FALSE)
    BY <1>9 DEF DecomposeFrom, DecomposeLiteral, bytes
  <2> HIDE DEF one, two, Known
  <2>7. SimplifyAnd(one \cup two) \in TreesTo[n + 1]
    BY <1>7, <2>3
  <2> QED BY <1>5, <2>4, <2>5, <2>6, <2>7
<1>10. CASE hir.kind = "class"
  <2> DEFINE E == ExpandClass(hir.unicode, hir.ranges)
  <2>1. E \subseteq Keyed
    BY <1>2, <1>10, ExpandClassTyped DEF WellFormed
  <2>2. DecomposeFrom(f, hir) = Info(AnyQuery, E, E, MinLen[hir] = 0)
    BY <1>10 DEF DecomposeFrom, DecomposeClass
  <2>3. (MinLen[hir] = 0) \in BOOLEAN
    OBVIOUS
  <2> HIDE DEF E
  <2>4. Info(AnyQuery, E, E, MinLen[hir] = 0) \in InfoAt(n)
    BY <1>3, <1>5, <2>1, <2>3
  <2> QED BY <2>2, <2>4
<1>11. CASE hir.kind = "repetition"
  <2> DEFINE inner == f[hir.sub]
             seam  == IF hir.min >= 2 THEN {CrossProduct("consec", inner.last, inner.first)} ELSE {}
             qs    == {inner.query} \cup seam
  <2>0. hir.sub \in Subs(hir)
    BY <1>11 DEF Subs
  <2>1. /\ inner.query \in TreesTo[n] /\ inner.query \in TreesTo[n + 1] /\ n \in 1 .. Top
        /\ inner.first \in SUBSET Keyed /\ inner.last \in SUBSET Keyed /\ inner.canBeEmpty \in BOOLEAN
    BY <1>6, <2>0
  <2>2. CrossProduct("consec", inner.last, inner.first) \in TreesTo[n]
    <3> HIDE DEF inner
    <3> QED BY <2>1, CrossProductTyped
  <2>3. Forest(qs, n)
    <3> HIDE DEF inner
    <3>1. qs \subseteq TreesTo[n]
      BY <2>1, <2>2
    <3>2. IsFiniteSet({inner.query}) /\ IsFiniteSet({CrossProduct("consec", inner.last, inner.first)}) /\ IsFiniteSet({})
      BY FS_EmptySet, FS_Singleton
    <3>3. IsFiniteSet(qs)
      BY <3>2, FS_Union
    <3> QED BY <3>1, <3>3 DEF Forest
  <2>4. DecomposeFrom(f, hir) =
           IF hir.min = 0 THEN Info(AnyQuery, inner.first, inner.last, TRUE)
           ELSE Info(SimplifyAnd(qs), inner.first, inner.last, MinLen[hir] = 0)
    BY <1>11 DEF DecomposeFrom, DecomposeRepetition
  <2> HIDE DEF inner, qs
  <2>5. SimplifyAnd(qs) \in TreesTo[n + 1]
    BY <1>7, <2>3
  <2> QED BY <1>3, <1>5, <2>1, <2>4, <2>5
<1>12. CASE hir.kind = "capture"
  <2>1. hir.sub \in Subs(hir)
    BY <1>12 DEF Subs
  <2>2. DecomposeFrom(f, hir) = f[hir.sub]
    BY <1>12 DEF DecomposeFrom
  <2>3. f[hir.sub] \in InfoAt(n - 1)
    BY <2>1
  <2> QED BY <1>6, <2>1, <2>2, <2>3 DEF InfoAt
<1>13. CASE hir.kind = "concat"
  <2> DEFINE infos == [i \in DOMAIN hir.parts |-> f[hir.parts[i]]]
  <2>1. PICK k \in Nat : k = Len(hir.parts) /\ DOMAIN hir.parts = 1 .. k
    BY <1>2, <1>13 DEF WellFormed
  <2>2. DOMAIN infos = 1 .. k /\ Len(infos) = k
    BY <2>1
  <2>3. \A i \in 1 .. k : infos[i] = f[hir.parts[i]] /\ hir.parts[i] \in Subs(hir)
    BY <1>13, <2>1 DEF Subs
  <2>4. DecomposeFrom(f, hir) = DecomposeConcat(hir.parts, infos)
    BY <1>13 DEF DecomposeFrom
  <2> HIDE DEF infos
  <2> DEFINE Mandatory(i) == ~infos[i].canBeEmpty
             OneByte(i)   == MinLen[hir.parts[i]] = 1 /\ MaxLen[hir.parts[i]] = 1
             adjacent == {i \in 1 .. Len(hir.parts) - 1 : Mandatory(i) /\ Mandatory(i + 1)}
             across   == {i \in 1 .. Len(hir.parts) - 2 : Mandatory(i) /\ OneByte(i + 1) /\ Mandatory(i + 2)}
             Q == {infos[i].query : i \in DOMAIN infos}
             A == {CrossProduct("consec", infos[i].last, infos[i + 1].first) : i \in adjacent}
             B == {CrossProduct("skip1", infos[i].last, infos[i + 2].first) : i \in across}
             qs == (Q \cup A) \cup B
  <2>5. DecomposeConcat(hir.parts, infos) =
           Info(SimplifyAnd(qs), CollectFirst(infos), CollectLast(infos), \A i \in DOMAIN infos : infos[i].canBeEmpty)
    BY DEF DecomposeConcat
  <2>6. \A i \in 1 .. k : /\ infos[i].query \in TreesTo[n] /\ n \in 1 .. Top
                          /\ infos[i].first \in SUBSET Keyed /\ infos[i].last \in SUBSET Keyed
                          /\ infos[i].canBeEmpty \in BOOLEAN
    BY <1>6, <2>3
  <2>a. adjacent \subseteq 1 .. k /\ across \subseteq 1 .. k /\ \A i \in adjacent : i + 1 \in 1 .. k
    BY <2>1
  <2>b. \A i \in across : i + 2 \in 1 .. k
    BY <2>1
  <2> HIDE DEF adjacent, across
  <2>7. Q \subseteq TreesTo[n]
    BY <2>2, <2>6
  <2>8. A \subseteq TreesTo[n]
    <3> SUFFICES ASSUME NEW i \in adjacent PROVE CrossProduct("consec", infos[i].last, infos[i + 1].first) \in TreesTo[n]
      OBVIOUS
    <3>1. infos[i].last \in SUBSET Keyed /\ infos[i + 1].first \in SUBSET Keyed /\ n \in 1 .. Top
      BY <2>6, <2>a
    <3> QED BY <3>1, CrossProductTyped
  <2>9. B \subseteq TreesTo[n]
    <3> SUFFICES ASSUME NEW i \in across PROVE CrossProduct("skip1", infos[i].last, infos[i + 2].first) \in TreesTo[n]
      OBVIOUS
    <3>1. infos[i].last \in SUBSET Keyed /\ infos[i + 2].first \in SUBSET Keyed /\ n \in 1 .. Top
      BY <2>6, <2>a, <2>b
    <3> QED BY <3>1, CrossProductTyped
  <2>c. IsFiniteSet(1 .. k)
    BY FS_Interval
  <2>10. IsFiniteSet(1 .. k) /\ IsFiniteSet(adjacent) /\ IsFiniteSet(across)
    BY <2>a, <2>c, FS_Subset
  <2>11. IsFiniteSet(Q) /\ IsFiniteSet(A) /\ IsFiniteSet(B)
    <3> DEFINE g1 == [i \in 1 .. k |-> infos[i].query]
               g2 == [i \in adjacent |-> CrossProduct("consec", infos[i].last, infos[i + 1].first)]
               g3 == [i \in across |-> CrossProduct("skip1", infos[i].last, infos[i + 2].first)]
    <3>1. Q = {g1[i] : i \in 1 .. k}
      BY <2>2
    <3>2. A = {g2[i] : i \in adjacent}
      OBVIOUS
    <3>3. B = {g3[i] : i \in across}
      OBVIOUS
    <3> HIDE DEF g1, g2, g3, Q, A, B
    <3>4. IsFiniteSet({g1[i] : i \in 1 .. k}) /\ IsFiniteSet({g2[i] : i \in adjacent}) /\ IsFiniteSet({g3[i] : i \in across})
      BY <2>10, FiniteImage
    <3> QED BY <3>1, <3>2, <3>3, <3>4
  <2>12. Forest(qs, n)
    <3> HIDE DEF Q, A, B
    <3>1. IsFiniteSet(Q \cup A)
      BY <2>11, FS_Union
    <3>2. IsFiniteSet(qs)
      BY <2>11, <3>1, FS_Union
    <3> QED BY <2>7, <2>8, <2>9, <3>2 DEF Forest
  <2> HIDE DEF qs
  <2>13. SimplifyAnd(qs) \in TreesTo[n + 1]
    BY <1>7, <2>12
  <2>14. CollectFirst(infos) \in SUBSET Keyed
    BY <2>2, <2>6, CollectFirstTyped
  <2>15. CollectLast(infos) \in SUBSET Keyed
    <3> DEFINE back == Backwards(infos)
    <3>1. \A i \in 1 .. k : infos[i] \in InfoAt(n - 1)
      BY <2>3
    <3>2. /\ CollectLast(infos) = CollectFirst(back) /\ DOMAIN back = 1 .. k /\ Len(back) = k
          /\ \A i \in 1 .. k : back[i].first = infos[k + 1 - i].last
      BY <2>2, <3>1, CollectLastIs
    <3> HIDE DEF back
    <3>6. \A i \in DOMAIN back : back[i].first \subseteq Keyed
      <4>1. \A i \in 1 .. k : k + 1 - i \in 1 .. k
        OBVIOUS
      <4> QED BY <2>6, <3>2, <4>1
    <3>7. CollectFirst(back) \subseteq Keyed
      BY <3>2, <3>6, CollectFirstTyped
    <3> QED BY <3>2, <3>7
  <2>16. (\A i \in DOMAIN infos : infos[i].canBeEmpty) \in BOOLEAN
    OBVIOUS
  <2> QED BY <1>5, <2>4, <2>5, <2>13, <2>14, <2>15, <2>16
<1>14. CASE hir.kind = "alternation"
  <2> DEFINE infos == [i \in DOMAIN hir.alts |-> f[hir.alts[i]]]
             Of(field) == {infos[i][field] : i \in DOMAIN infos}
  <2>1. PICK k \in Nat : k = Len(hir.alts) /\ DOMAIN hir.alts = 1 .. k
    BY <1>2, <1>14 DEF WellFormed
  <2>2. DOMAIN infos = 1 .. k
    BY <2>1
  <2>3. \A i \in 1 .. k : infos[i] = f[hir.alts[i]] /\ hir.alts[i] \in Subs(hir)
    BY <1>14, <2>1 DEF Subs
  <2>4. DecomposeFrom(f, hir) = Info(SimplifyOr(Of("query")), MergeByteSets(Of("first")), MergeByteSets(Of("last")),
                                     TRUE \in Of("canBeEmpty"))
    BY <1>14 DEF DecomposeFrom, DecomposeAlternation
  <2> HIDE DEF infos
  <2>5. \A i \in 1 .. k : /\ infos[i].query \in TreesTo[n]
                          /\ infos[i].first \in SUBSET Keyed /\ infos[i].last \in SUBSET Keyed
    BY <1>6, <2>3
  <2>6. Forest(Of("query"), n)
    <3> DEFINE g == [i \in 1 .. k |-> infos[i].query]
    <3>1. Of("query") = {g[i] : i \in 1 .. k}
      BY <2>2
    <3> HIDE DEF g
    <3>a. IsFiniteSet(1 .. k)
      BY FS_Interval
    <3>2. IsFiniteSet({g[i] : i \in 1 .. k})
      BY <3>a, FiniteImage
    <3>3. Of("query") \subseteq TreesTo[n]
      BY <2>2, <2>5
    <3> QED BY <3>1, <3>2, <3>3 DEF Forest
  <2>7. ASSUME NEW sets, sets \subseteq SUBSET Keyed PROVE MergeByteSets(sets) \in SUBSET Keyed
    <3>1. UNION sets \subseteq Keyed
      BY <2>7
    <3>2. Capped(UNION sets) \subseteq Keyed
      BY <3>1, CappedTyped
    <3> QED BY <3>2 DEF MergeByteSets
  <2>8. Of("first") \subseteq SUBSET Keyed /\ Of("last") \subseteq SUBSET Keyed
    BY <2>2, <2>5
  <2> HIDE DEF Of
  <2>9. MergeByteSets(Of("first")) \in SUBSET Keyed /\ MergeByteSets(Of("last")) \in SUBSET Keyed
    BY <2>7, <2>8
  <2>10. SimplifyOr(Of("query")) \in TreesTo[n + 1]
    BY <1>7, <2>6
  <2>11. (TRUE \in Of("canBeEmpty")) \in BOOLEAN
    OBVIOUS
  <2>12. Info(SimplifyOr(Of("query")), MergeByteSets(Of("first")), MergeByteSets(Of("last")), TRUE \in Of("canBeEmpty"))
            \in InfoAt(n)
    BY <1>5, <2>9, <2>10, <2>11
  <2> QED BY <2>4, <2>12
<1> QED BY <1>2, <1>8, <1>9, <1>10, <1>11, <1>12, <1>13, <1>14 DEF WellFormed

LEMMA DecomposeFromParts ==
    ASSUME NEW f, NEW g, NEW hir \in Hirs, \A s \in Subs(hir) : f[s] = g[s]
    PROVE  DecomposeFrom(f, hir) = DecomposeFrom(g, hir)
<1>1. WellFormed(hir, Hirs)
  BY HirFacts
<1>2. CASE hir.kind \in {"literal", "class", "look", "empty"}
  BY <1>2 DEF DecomposeFrom
<1>3. CASE hir.kind \in {"repetition", "capture"}
  <2>1. f[hir.sub] = g[hir.sub]
    BY <1>3 DEF Subs
  <2> QED BY <1>3, <2>1 DEF DecomposeFrom
<1>4. CASE hir.kind = "concat"
  <2>1. \A i \in DOMAIN hir.parts : f[hir.parts[i]] = g[hir.parts[i]]
    BY <1>4 DEF Subs
  <2>2. [i \in DOMAIN hir.parts |-> f[hir.parts[i]]] = [i \in DOMAIN hir.parts |-> g[hir.parts[i]]]
    BY <2>1
  <2> QED BY <1>4, <2>2 DEF DecomposeFrom
<1>5. CASE hir.kind = "alternation"
  <2>1. \A i \in DOMAIN hir.alts : f[hir.alts[i]] = g[hir.alts[i]]
    BY <1>5 DEF Subs
  <2>2. [i \in DOMAIN hir.alts |-> f[hir.alts[i]]] = [i \in DOMAIN hir.alts |-> g[hir.alts[i]]]
    BY <2>1
  <2> QED BY <1>5, <2>2 DEF DecomposeFrom
<1> QED BY <1>1, <1>2, <1>3, <1>4, <1>5 DEF WellFormed

\* All that may be known of an expression.
Infos == [query : Trees, first : SUBSET Keyed, last : SUBSET Keyed, canBeEmpty : BOOLEAN]

LEMMA InfoAtInfos ==
    ASSUME NEW n \in 0 .. NestLimit
    PROVE  InfoAt(n) \subseteq Infos
<1>1. n + 1 \in 0 .. Top
  BY TreesAssumption DEF Top
<1>2. TreesTo[n + 1] \subseteq Trees
  BY <1>1, ForestInTrees
<1> QED BY <1>2 DEF InfoAt, Infos

\* What is derived of the parts is true to their nesting.
LEMMA DecomposeLevels ==
    ASSUME NEW f, \A hir \in Hirs : DecomposeFrom(f, hir) \in Infos => f[hir] = DecomposeFrom(f, hir),
           NEW n \in 0 .. NestLimit
    PROVE  \A hir \in HirsTo[n] : f[hir] \in InfoAt(n) /\ f[hir] = DecomposeFrom(f, hir)
<1> DEFINE Good(i) == i \in 0 .. NestLimit => \A hir \in HirsTo[i] : f[hir] \in InfoAt(i) /\ f[hir] = DecomposeFrom(f, hir)
           T       == {i \in Nat : Good(i)}
<1>1. ASSUME NEW i \in 0 .. NestLimit, NEW hir \in HirsTo[i], \A s \in Subs(hir) : i # 0 /\ f[s] \in InfoAt(i - 1)
      PROVE  f[hir] \in InfoAt(i) /\ f[hir] = DecomposeFrom(f, hir)
  <2>1. DecomposeFrom(f, hir) \in InfoAt(i)
    BY <1>1, DecomposeFromTyped
  <2>2. hir \in Hirs /\ InfoAt(i) \subseteq Infos
    BY HirsInside, InfoAtInfos
  <2> QED BY <2>1, <2>2
<1>2. Good(0)
  <2> SUFFICES ASSUME 0 \in 0 .. NestLimit, NEW hir \in HirsTo[0]
               PROVE f[hir] \in InfoAt(0) /\ f[hir] = DecomposeFrom(f, hir)
    OBVIOUS
  <2>1. Subs(hir) \subseteq Below(0)
    BY HirsAt, HirKinds
  <2>2. Below(0) = {}
    BY DEF Below
  <2> QED BY <1>1, <2>1, <2>2
<1>3. ASSUME NEW i \in Nat, Good(i) PROVE Good(i + 1)
  <2>1. PICK j \in Nat : j = i + 1 /\ j # 0 /\ j - 1 = i
    OBVIOUS
  <2> SUFFICES ASSUME j \in 0 .. NestLimit, NEW hir \in HirsTo[j]
               PROVE f[hir] \in InfoAt(j) /\ f[hir] = DecomposeFrom(f, hir)
    BY <2>1
  <2>2. i \in 0 .. NestLimit /\ Below(j) = HirsTo[i]
    BY <2>1, HirsUnfold DEF Below
  <2>3. Subs(hir) \subseteq Below(j)
    BY HirsAt, HirKinds
  <2>4. \A s \in Subs(hir) : f[s] \in InfoAt(i)
    BY <1>3, <2>2, <2>3
  <2>5. \A s \in Subs(hir) : j # 0 /\ f[s] \in InfoAt(j - 1)
    BY <2>1, <2>4
  <2> HIDE DEF Good
  <2> QED BY <1>1, <2>5
<1> HIDE DEF Good
<1>4. 0 \in T /\ \A i \in Nat : i \in T => i + 1 \in T
  BY <1>2, <1>3
<1> HIDE DEF T
<1>5. Nat \subseteq T
  BY <1>4, InductionOver
<1>6. n \in Nat
  OBVIOUS
<1> QED BY <1>5, <1>6 DEF T, Good

LEMMA DecomposeUnfolds ==
    \A hir \in Hirs : Decompose[hir] \in Infos /\ Decompose[hir] = DecomposeFrom(Decompose, hir)
<1> DEFINE turn(f) == [hir \in Hirs |-> DecomposeFrom(f, hir)]
           cut(f, hir) == IF DecomposeFrom(f, hir) \in Infos THEN DecomposeFrom(f, hir) ELSE EmptyInfo
           G       == [f \in [Hirs -> Infos] |-> [hir \in Hirs |-> cut(f, hir)]]
<1>0. EmptyInfo \in Infos
  <2>1. 0 \in 0 .. Top
    BY TreesUnfold
  <2>2. AnyQuery \in Trees
    BY <2>1, ForestInTrees DEF Leaves
  <2> QED BY <2>2 DEF EmptyInfo, Info, Infos
<1>1. ASSUME NEW f \in [Hirs -> Infos] PROVE [hir \in Hirs |-> cut(f, hir)] \in [Hirs -> Infos]
  BY <1>0
<1>2. ASSUME NEW f \in [Hirs -> Infos], NEW g \in [Hirs -> Infos], NEW hir \in Hirs, \A s \in Subs(hir) : f[s] = g[s]
      PROVE  G[f][hir] = G[g][hir]
  <2>1. DecomposeFrom(f, hir) = DecomposeFrom(g, hir)
    BY <1>2, DecomposeFromParts
  <2>2. G[f][hir] = cut(f, hir) /\ G[g][hir] = cut(g, hir)
    <3> HIDE DEF cut
    <3> QED OBVIOUS
  <2> QED BY <2>1, <2>2
<1>3. G \in [[Hirs -> Infos] -> [Hirs -> Infos]] /\ \A f \in [Hirs -> Infos], hir \in Hirs : G[f][hir] = cut(f, hir)
  <2> HIDE DEF cut
  <2> QED BY <1>1
<1> HIDE DEF G
<1>4. LooksAtParts(G, Infos)
  BY <1>2 DEF LooksAtParts
<1>5. PICK f \in [Hirs -> Infos] : f = G[f]
  BY <1>0, <1>3, <1>4, HirRecursion
<1>6. \A hir \in Hirs : DecomposeFrom(f, hir) \in Infos => f[hir] = DecomposeFrom(f, hir)
  <2>1. \A hir \in Hirs : f[hir] = cut(f, hir)
    BY <1>3, <1>5
  <2> QED BY <2>1
<1>7. NestLimit \in 0 .. NestLimit
  BY HirsUnfold
<1>8. \A hir \in Hirs : f[hir] = DecomposeFrom(f, hir)
  BY <1>6, <1>7, DecomposeLevels DEF Hirs
<1>9. f = turn(f)
  BY <1>8
<1>10. Decompose = CHOOSE m : m = turn(m)
  BY DEF Decompose
<1>11. Decompose = turn(Decompose)
  <2> HIDE DEF turn
  <2> QED BY <1>9, <1>10
<1>12. \A hir \in Hirs : Decompose[hir] = DecomposeFrom(Decompose, hir)
  <2> HIDE DEF Decompose
  <2> QED BY <1>11
<1>13. \A hir \in HirsTo[NestLimit] : Decompose[hir] \in InfoAt(NestLimit)
  <2> HIDE DEF Decompose
  <2> QED BY <1>7, <1>12, DecomposeLevels
<1>14. InfoAt(NestLimit) \subseteq Infos
  BY <1>7, InfoAtInfos
<1> QED BY <1>12, <1>13, <1>14 DEF Hirs

LEMMA DecomposeAt ==
    ASSUME NEW hir \in Hirs
    PROVE  Decompose[hir] \in InfoAt(NestLimit)
<1>1. NestLimit \in 0 .. NestLimit
  BY HirsUnfold
<1>2. \A h \in Hirs : DecomposeFrom(Decompose, h) \in Infos => Decompose[h] = DecomposeFrom(Decompose, h)
  BY DecomposeUnfolds
<1> HIDE DEF Decompose
<1>3. \A h \in HirsTo[NestLimit] : Decompose[h] \in InfoAt(NestLimit)
  BY <1>1, <1>2, DecomposeLevels
<1> QED BY <1>3 DEF Hirs

LEMMA HidesAnEdgeFromTyped ==
    ASSUME NEW f, NEW hir \in Hirs, \A s \in Subs(hir) : f[s] \in BOOLEAN
    PROVE  HidesAnEdgeFrom(f, hir) \in BOOLEAN
<1>1. WellFormed(hir, Hirs)
  BY HirFacts
<1>2. CASE hir.kind = "class"
  BY <1>2 DEF HidesAnEdgeFrom
<1>3. CASE hir.kind = "concat"
  BY <1>3 DEF HidesAnEdgeFrom
<1>4. CASE hir.kind = "repetition"
  BY <1>4 DEF HidesAnEdgeFrom
<1>5. CASE hir.kind = "capture"
  <2>1. HidesAnEdgeFrom(f, hir) = f[hir.sub] /\ hir.sub \in Subs(hir)
    BY <1>5 DEF HidesAnEdgeFrom, Subs
  <2> QED BY <2>1
<1>6. CASE hir.kind = "alternation"
  BY <1>6 DEF HidesAnEdgeFrom
<1>7. CASE hir.kind \in {"literal", "look", "empty"}
  BY <1>7 DEF HidesAnEdgeFrom
<1> QED BY <1>1, <1>2, <1>3, <1>4, <1>5, <1>6, <1>7 DEF WellFormed

LEMMA HidesAnEdgeFromParts ==
    ASSUME NEW f, NEW g, NEW hir \in Hirs, \A s \in Subs(hir) : f[s] = g[s]
    PROVE  HidesAnEdgeFrom(f, hir) = HidesAnEdgeFrom(g, hir)
<1>1. WellFormed(hir, Hirs)
  BY HirFacts
<1>2. CASE hir.kind \in {"literal", "class", "look", "empty"}
  BY <1>2 DEF HidesAnEdgeFrom
<1>3. CASE hir.kind \in {"repetition", "capture"}
  <2>1. f[hir.sub] = g[hir.sub]
    BY <1>3 DEF Subs
  <2> QED BY <1>3, <2>1 DEF HidesAnEdgeFrom
<1>4. CASE hir.kind = "concat"
  <2>1. \A p \in ToSet(hir.parts) : f[p] = g[p]
    BY <1>4 DEF Subs, ToSet
  <2>2. (\E p \in ToSet(hir.parts) : f[p]) = (\E p \in ToSet(hir.parts) : g[p])
    BY <2>1
  <2> QED BY <1>4, <2>2 DEF HidesAnEdgeFrom
<1>5. CASE hir.kind = "alternation"
  <2>1. \A a \in ToSet(hir.alts) : f[a] = g[a]
    BY <1>5 DEF Subs, ToSet
  <2>2. (\E a \in ToSet(hir.alts) : f[a]) = (\E a \in ToSet(hir.alts) : g[a])
    BY <2>1
  <2> QED BY <1>5, <2>2 DEF HidesAnEdgeFrom
<1> QED BY <1>1, <1>2, <1>3, <1>4, <1>5 DEF WellFormed

LEMMA HidesAnEdgeUnfolds ==
    \A hir \in Hirs : HidesAnEdge[hir] \in BOOLEAN /\ HidesAnEdge[hir] = HidesAnEdgeFrom(HidesAnEdge, hir)
<1> DEFINE turn(f) == [hir \in Hirs |-> HidesAnEdgeFrom(f, hir)]
           G       == [f \in [Hirs -> BOOLEAN] |-> turn(f)]
<1>1. ASSUME NEW f \in [Hirs -> BOOLEAN] PROVE turn(f) \in [Hirs -> BOOLEAN]
  <2> SUFFICES ASSUME NEW hir \in Hirs PROVE HidesAnEdgeFrom(f, hir) \in BOOLEAN
    OBVIOUS
  <2>1. \A s \in Subs(hir) : f[s] \in BOOLEAN
    BY HirFacts
  <2> QED BY <2>1, HidesAnEdgeFromTyped
<1>2. ASSUME NEW f \in [Hirs -> BOOLEAN], NEW g \in [Hirs -> BOOLEAN], NEW hir \in Hirs, \A s \in Subs(hir) : f[s] = g[s]
      PROVE  G[f][hir] = G[g][hir]
  <2>1. HidesAnEdgeFrom(f, hir) = HidesAnEdgeFrom(g, hir)
    BY <1>2, HidesAnEdgeFromParts
  <2>2. G[f][hir] = HidesAnEdgeFrom(f, hir) /\ G[g][hir] = HidesAnEdgeFrom(g, hir)
    OBVIOUS
  <2> QED BY <2>1, <2>2
<1>3. G \in [[Hirs -> BOOLEAN] -> [Hirs -> BOOLEAN]] /\ \A f \in [Hirs -> BOOLEAN] : G[f] = turn(f)
  <2> HIDE DEF turn
  <2> QED BY <1>1
<1> HIDE DEF G
<1>4. LooksAtParts(G, BOOLEAN)
  BY <1>2 DEF LooksAtParts
<1>5. BOOLEAN # {}
  OBVIOUS
<1>6. PICK f \in [Hirs -> BOOLEAN] : f = G[f]
  BY <1>3, <1>4, <1>5, HirRecursion
<1>7. f = turn(f)
  <2> HIDE DEF turn
  <2> QED BY <1>3, <1>6
<1>8. HidesAnEdge = CHOOSE m : m = turn(m)
  BY DEF HidesAnEdge
<1>9. HidesAnEdge = turn(HidesAnEdge)
  <2> HIDE DEF turn
  <2> QED BY <1>7, <1>8
<1>10. \A hir \in Hirs : HidesAnEdge[hir] = HidesAnEdgeFrom(HidesAnEdge, hir)
  <2> HIDE DEF HidesAnEdge
  <2> QED BY <1>9
<1> DEFINE T == {hir \in Hirs : HidesAnEdge[hir] \in BOOLEAN}
<1>11. ASSUME NEW hir \in Hirs, Subs(hir) \subseteq T PROVE hir \in T
  <2>1. \A s \in Subs(hir) : HidesAnEdge[s] \in BOOLEAN
    BY <1>11
  <2>2. HidesAnEdgeFrom(HidesAnEdge, hir) \in BOOLEAN
    BY <2>1, HidesAnEdgeFromTyped
  <2> QED BY <1>10, <2>2
<1>12. Hirs \subseteq T
  <2> HIDE DEF T
  <2> QED BY <1>11, HirInduction
<1> QED BY <1>10, <1>12

-----------------------------------------------------------------------------
(* What the decomposition says is true of every match.                     *)

\* The first and the last part of a match that match something.
LEMMA FirstMove ==
    ASSUME NEW n \in Nat, NEW p \in [0 .. n -> Nat], \A x \in 1 .. n : p[x - 1] <= p[x], p[0] < p[n]
    PROVE  \E m \in 1 .. n : p[m - 1] = p[0] /\ p[m - 1] < p[m] /\ \A x \in 1 .. n : x < m => ~(p[x - 1] < p[x])
<1>0. 0 \in 0 .. n /\ n \in 0 .. n
  OBVIOUS
<1> DEFINE S == {x \in 0 .. n : p[0] < p[x]}
<1>1. S \in SUBSET Nat /\ S # {}
  <2>1. n \in S /\ S \subseteq 0 .. n
    BY <1>0
  <2> HIDE DEF S
  <2> QED BY <2>1
<1>2. PICK m \in S : \A x \in S : m <= x
  BY <1>1, LeastNumber
<1>3. m \in 1 .. n /\ m - 1 \in 0 .. n /\ p[0] < p[m]
  BY <1>0, <1>2
<1>4. ASSUME NEW x \in 0 .. n, x < m PROVE p[x] = p[0]
  <2>1. x \notin S
    BY <1>2, <1>3, <1>4
  <2>2. p[0] <= p[x]
    BY <1>0, PathMonotone
  <2>3. p[x] \in Nat /\ p[0] \in Nat
    BY <1>0
  <2> QED BY <2>1, <2>2, <2>3
<1>5. p[m - 1] = p[0]
  BY <1>3, <1>4
<1>6. ASSUME NEW x \in 1 .. n, x < m PROVE ~(p[x - 1] < p[x])
  <2>1. x - 1 \in 0 .. n /\ x \in 0 .. n /\ x - 1 < m
    BY <1>3, <1>6
  <2>2. p[x - 1] = p[0] /\ p[x] = p[0] /\ p[0] \in Nat
    BY <1>0, <1>4, <1>6, <2>1
  <2> QED BY <2>2
<1> QED BY <1>3, <1>5, <1>6

LEMMA LastMove ==
    ASSUME NEW n \in Nat, NEW p \in [0 .. n -> Nat], \A x \in 1 .. n : p[x - 1] <= p[x], p[0] < p[n]
    PROVE  \E m \in 1 .. n : p[m] = p[n] /\ p[m - 1] < p[m] /\ \A x \in 1 .. n : m < x => ~(p[x - 1] < p[x])
<1>0. 0 \in 0 .. n /\ n \in 0 .. n
  OBVIOUS
<1> DEFINE S == {x \in 0 .. n : p[n] <= p[x]}
<1>1. S \in SUBSET Nat /\ S # {}
  BY <1>0
<1>2. PICK m \in S : \A x \in S : m <= x
  BY <1>1, LeastNumber
<1>3. m \in 1 .. n /\ m - 1 \in 0 .. n /\ p[n] <= p[m] /\ m \in 0 .. n
  BY <1>0, <1>2
<1>4. ASSUME NEW x \in 0 .. n, m <= x PROVE p[x] = p[n]
  <2>a. x \in m .. n /\ n \in x .. n
    BY <1>3, <1>4
  <2>1. p[m] <= p[x]
    BY <1>3, <2>a, PathMonotone
  <2>2. p[x] <= p[n]
    BY <1>0, <2>a, PathMonotone
  <2>3. p[x] \in Nat /\ p[n] \in Nat /\ p[m] \in Nat
    BY <1>0, <1>3
  <2> QED BY <1>3, <2>1, <2>2, <2>3
<1>5. p[m] = p[n] /\ p[m - 1] < p[m]
  <2>1. m - 1 \notin S
    BY <1>2, <1>3
  <2>2. p[m - 1] \in Nat /\ p[n] \in Nat /\ p[m] = p[n]
    BY <1>0, <1>3, <1>4
  <2> QED BY <1>3, <2>1, <2>2
<1>6. ASSUME NEW x \in 1 .. n, m < x PROVE ~(p[x - 1] < p[x])
  <2>1. x - 1 \in 0 .. n /\ x \in 0 .. n /\ m <= x - 1 /\ m <= x
    BY <1>3, <1>6
  <2>2. p[x - 1] = p[n] /\ p[x] = p[n] /\ p[n] \in Nat
    BY <1>0, <1>4, <2>1
  <2> QED BY <2>2
<1> QED BY <1>3, <1>5, <1>6

\* Two bytes of a text that a key may consist of are a bigram of it.
LEMMA PairInText ==
    ASSUME NEW text \in Seq(Byte), NEW op, NEW d, (op = "consec" /\ d = 1) \/ (op = "skip1" /\ d = 2),
           NEW k \in 1 .. Len(text), NEW m \in 1 .. Len(text), m = k + d,
           Lower[text[k]] \in Keyed, Lower[text[m]] \in Keyed
    PROVE  Bigram(op, <<Lower[text[k]], Lower[text[m]]>>) \in TextBigrams(text)
<1>1. text[k] \in Byte /\ text[m] \in Byte
  OBVIOUS
<1>2. text[k] \in Printable /\ text[m] \in Printable
  BY <1>1, KeyedFacts
<1>3. Len(text) \in Nat /\ d \in {1, 2}
  OBVIOUS
<1>4. k \in 1 .. Len(text) - d /\ {text[k], text[m]} \subseteq Printable
  BY <1>2, <1>3
<1>5. Bigram(op, <<Lower[text[k]], Lower[text[m]]>>) \in Windows(op, text, d)
  <2>1. PairAt(Bigram(op, <<Lower[text[k]], Lower[text[m]]>>), op, text, d, k)
    BY <1>4 DEF PairAt
  <2> QED BY <1>4, <2>1, WindowsMember
<1> QED BY <1>5 DEF TextBigrams

\* Where two matches meet, the pairs of their edges exclude nothing.
LEMMA SeamHolds ==
    ASSUME NEW text \in Seq(Byte), NEW op, NEW d, (op = "consec" /\ d = 1) \/ (op = "skip1" /\ d = 2),
           NEW k \in 1 .. Len(text), NEW m \in 1 .. Len(text), m = k + d,
           NEW last \in SUBSET Keyed, NEW first \in SUBSET Keyed,
           last # {} => Lower[text[k]] \in last, first # {} => Lower[text[m]] \in first, NEW untracked
    PROVE  ~Clear(CrossProduct(op, last, first), untracked, TextBigrams(text))
<1> DEFINE C(q) == Clear(q, untracked, TextBigrams(text))
           qs == Crossed(op, last, first)
<1>1. op \in {"consec", "skip1"} /\ 0 \in 0 .. Top /\ 1 \in 0 .. Top /\ 1 = 0 + 1
  BY TreesUnfold
<1>2. Forest(qs, 0) /\ CrossProduct(op, last, first) = SimplifyOr(qs)
  BY <1>1, CrossedForest
<1>3. CASE last = {} \/ first = {}
  <2>1. qs = {}
    <3>1. \A q : q \in qs <=> \E l \in last, f \in first : q = Bigram(op, <<l, f>>)
      BY DEF Crossed
    <3> HIDE DEF qs
    <3>2. \A q : q \notin qs
      BY <1>3, <3>1
    <3> QED BY <3>2
  <2>2. SimplifyOr(qs) = AnyQuery
    BY <2>1 DEF SimplifyOr
  <2>3. AnyQuery \in Trees
    BY <1>1, ForestInTrees DEF Leaves
  <2>4. ~C(AnyQuery)
    BY <2>3, EvaluateValues DEF AnyQuery
  <2> QED BY <1>2, <2>2, <2>4
<1>4. CASE last # {} /\ first # {}
  <2> DEFINE q == Bigram(op, <<Lower[text[k]], Lower[text[m]]>>)
  <2>1. q \in qs
    <3>1. Lower[text[k]] \in last /\ Lower[text[m]] \in first
      BY <1>4
    <3>2. \A l \in last, f \in first : Bigram(op, <<l, f>>) \in qs
      BY DEF Crossed
    <3> HIDE DEF qs
    <3> QED BY <3>1, <3>2
  <2>2. q \in TextBigrams(text)
    <3>1. Lower[text[k]] \in Keyed /\ Lower[text[m]] \in Keyed
      BY <1>4
    <3> QED BY <3>1, PairInText
  <2>3. q \in Trees /\ IsBigram(q)
    <3>1. q \in TreesTo[0]
      BY <1>2, <2>1 DEF Forest
    <3>2. IsBigram(q)
      BY <1>1 DEF IsBigram, Bigram
    <3> QED BY <1>1, <3>1, <3>2, ForestInTrees
  <2>4. ~C(q)
    BY <2>2, <2>3, EvaluateValues
  <2>5. C(SimplifyOr(qs)) => \A x \in qs : C(x)
    <3> HIDE DEF qs
    <3> QED BY <1>1, <1>2, SimplifyOrClear
  <2> QED BY <1>2, <2>1, <2>4, <2>5
<1> QED BY <1>3, <1>4

\* A text that reads like a literal, whatever the case, has its bigrams.
LEMMA LiteralWindows ==
    ASSUME NEW text \in Seq(Byte), NEW bytes \in Seq(Byte), NEW i \in Nat, i + Len(bytes) <= Len(text),
           \A k \in DOMAIN bytes : Lower[text[i + k]] = Lower[bytes[k]], NEW op, NEW d \in Nat
    PROVE  Windows(op, bytes, d) \subseteq Windows(op, text, d)
<1> SUFFICES ASSUME NEW q \in Windows(op, bytes, d) PROVE q \in Windows(op, text, d)
  OBVIOUS
<1>1. PICK k \in 1 .. Len(bytes) - d : PairAt(q, op, bytes, d, k)
  BY WindowsMember
<1>2. PICK x \in DOMAIN bytes, y \in DOMAIN bytes : x = k /\ y = k + d
  <2>1. k \in 1 .. Len(bytes) /\ k + d \in 1 .. Len(bytes)
    OBVIOUS
  <2> QED BY <2>1
<1>3. i + x \in 1 .. Len(text) /\ i + y \in 1 .. Len(text) /\ i + y = (i + x) + d /\ i + x \in 1 .. Len(text) - d
  BY <1>2
<1>4. Lower[text[i + x]] = Lower[bytes[x]] /\ Lower[text[i + y]] = Lower[bytes[y]]
  OBVIOUS
<1>5. text[i + x] \in Byte /\ text[i + y] \in Byte /\ bytes[x] \in Byte /\ bytes[y] \in Byte
  BY <1>3
<1>6. {bytes[x], bytes[y]} \subseteq Printable /\ q = Bigram(op, <<Lower[bytes[x]], Lower[bytes[y]]>>)
  BY <1>1, <1>2 DEF PairAt
<1>7. {text[i + x], text[i + y]} \subseteq Printable
  BY <1>4, <1>5, <1>6, TreesAssumption
<1>8. PICK a \in 1 .. Len(text) - d, b \in 1 .. Len(text) : a = i + x /\ b = i + y /\ b = a + d
  BY <1>3
<1>9. PairAt(q, op, text, d, a)
  BY <1>4, <1>6, <1>7, <1>8 DEF PairAt
<1> QED BY <1>8, <1>9, WindowsMember

\* The first part of a sequence that matches something begins as the
\* sequence does.
LEMMA CollectFirstHolds ==
    ASSUME NEW n \in Nat, NEW infos, DOMAIN infos = 1 .. n, Len(infos) = n, NEW parts, NEW W, NEW b,
           \A i \in 1 .. n : /\ ~infos[i].canBeEmpty => i \in W
                             /\ i \in W /\ infos[i].first # {} => b[i] \in infos[i].first
                             /\ i \in W => MaxLen[parts[i]] > 0,
           ~BeginsUnknown(infos, parts),
           NEW m \in 1 .. n, m \in W, \A x \in 1 .. n : x < m => x \notin W, CollectFirst(infos) # {}
    PROVE  b[m] \in CollectFirst(infos)
<1> DEFINE mandatory == {i \in DOMAIN infos : ~infos[i].canBeEmpty}
           reach     == IF mandatory = {} THEN Len(infos) ELSE Min(mandatory)
           S         == UNION {infos[i].first : i \in 1 .. reach}
<1>1. CollectFirst(infos) = Capped(S) /\ ~(\E i \in mandatory : i = reach /\ infos[i].first = {})
  BY DEF CollectFirst
<1>2. mandatory \in SUBSET Nat /\ mandatory \subseteq 1 .. n
  OBVIOUS
<1>3. \A i \in mandatory : m <= i
  <2> SUFFICES ASSUME NEW i \in mandatory PROVE m <= i
    OBVIOUS
  <2>1. i \in 1 .. n /\ i \in W
    OBVIOUS
  <2> QED BY <2>1
<1>4. m \in 1 .. reach /\ (mandatory # {} => reach \in mandatory)
  <2>1. CASE mandatory = {}
    BY <2>1
  <2>2. CASE mandatory # {}
    <3> HIDE DEF mandatory
    <3>1. Min(mandatory) \in mandatory
      BY <1>2, <2>2, MinOf
    <3>2. m <= Min(mandatory) /\ Min(mandatory) \in Nat
      BY <1>2, <1>3, <3>1
    <3> QED BY <2>2, <3>1, <3>2
  <2> QED BY <2>1, <2>2
<1>5. infos[m].first # {}
  <2>1. CASE m \in mandatory
    <3>1. reach = m
      <4>1. reach <= m
        <5> HIDE DEF mandatory
        <5> QED BY <1>2, <2>1, MinOf
      <4>2. reach \in Nat
        <5> HIDE DEF mandatory
        <5> QED BY <1>2, <1>4, <2>1
      <4> HIDE DEF mandatory, reach
      <4> QED BY <1>4, <4>1, <4>2
    <3> QED BY <1>1, <2>1, <3>1
  <2>2. CASE m \notin mandatory
    <3>1. infos[m].canBeEmpty /\ MaxLen[parts[m]] > 0
      BY <2>2
    <3>2. ASSUME NEW x \in 1 .. m - 1 PROVE infos[x].canBeEmpty
      <4>1. x \in 1 .. n /\ x < m
        OBVIOUS
      <4> QED BY <4>1
    <3> QED BY <3>1, <3>2 DEF BeginsUnknown
  <2> QED BY <2>1, <2>2
<1>6. b[m] \in S
  <2>1. b[m] \in infos[m].first
    BY <1>5
  <2> HIDE DEF reach
  <2> QED BY <1>4, <2>1
<1> HIDE DEF S, reach, mandatory
<1> QED BY <1>1, <1>6 DEF Capped

\* What is known of an expression is true of a match from i to j.
Holds(info, text, untracked, i, j) ==
    /\ ~Clear(info.query, untracked, TextBigrams(text))
    /\ i < j /\ info.first # {} => Lower[text[i + 1]] \in info.first
    /\ i < j /\ info.last # {} => Lower[text[j]] \in info.last
    /\ ~info.canBeEmpty => i < j

\* The fields of what is known, and what joins the trees.
LEMMA KnownFacts ==
    /\ NestLimit + 1 \in 0 .. Top /\ Top \in 0 .. Top /\ Top = (NestLimit + 1) + 1 /\ NestLimit + 1 \in 1 .. Top
    /\ \A hir \in Hirs :
          /\ Decompose[hir].query \in TreesTo[NestLimit + 1]
          /\ Decompose[hir].first \in SUBSET Keyed /\ Decompose[hir].last \in SUBSET Keyed
          /\ Decompose[hir].canBeEmpty \in BOOLEAN
<1>1. NestLimit + 1 \in 0 .. Top /\ Top \in 0 .. Top /\ Top = (NestLimit + 1) + 1 /\ NestLimit + 1 \in 1 .. Top
  BY TreesAssumption DEF Top
<1> QED BY <1>1, DecomposeAt DEF InfoAt

LEMMA AllOfThem ==
    ASSUME NEW text, NEW untracked, NEW qs, Forest(qs, NestLimit + 1),
           \A q \in qs : ~Clear(q, untracked, TextBigrams(text))
    PROVE  ~Clear(SimplifyAnd(qs), untracked, TextBigrams(text))
<1>1. NestLimit + 1 \in 0 .. Top /\ Top \in 0 .. Top /\ Top = (NestLimit + 1) + 1
  BY KnownFacts
<1> QED BY <1>1, SimplifyAndClear

LEMMA AnyHolds ==
    ASSUME NEW untracked, NEW recorded
    PROVE  ~Clear(AnyQuery, untracked, recorded)
<1>1. 0 \in 0 .. Top
  BY TreesUnfold
<1>2. AnyQuery \in Trees
  BY <1>1, ForestInTrees DEF Leaves
<1> QED BY <1>2, EvaluateValues DEF AnyQuery

LEMMA LiteralHolds ==
    ASSUME NEW text \in Seq(Byte), NEW untracked, NEW hir \in Hirs, hir.kind = "literal",
           NEW i \in 0 .. Len(text), NEW j \in 0 .. Len(text), j = i + Len(hir.bytes),
           \A k \in DOMAIN hir.bytes : Lower[text[i + k]] = Lower[hir.bytes[k]]
    PROVE  Holds(Decompose[hir], text, untracked, i, j)
<1> DEFINE bytes == hir.bytes
           one   == Windows("consec", bytes, 1)
           two   == Windows("skip1", bytes, 2)
           Known(b) == {Lower[b]} \cap Printable
           R     == TextBigrams(text)
<1>1. bytes \in Seq(Byte) /\ bytes # <<>>
  BY HirFacts DEF WellFormed
<1>2. Decompose[hir] = Info(SimplifyAnd(one \cup two), Known(Head(bytes)), Known(Last(bytes)), FALSE)
  BY DecomposeUnfolds DEF DecomposeFrom, DecomposeLiteral
<1> HIDE DEF bytes
<1>3. PICK n \in Nat : n = Len(bytes) /\ n \in DOMAIN bytes /\ 1 \in DOMAIN bytes /\ Head(bytes) = bytes[1] /\ Last(bytes) = bytes[n]
  BY <1>1 DEF Last
<1>4. 0 \in 0 .. Top /\ NestLimit + 1 \in 0 .. Top
  BY TreesUnfold, KnownFacts
<1>5. Forest(one, NestLimit + 1) /\ Forest(two, NestLimit + 1)
  BY <1>1, <1>4, WindowsForest
<1>6. Forest(one \cup two, NestLimit + 1)
  BY <1>5, FS_Union DEF Forest
<1>7. one \subseteq Windows("consec", text, 1) /\ two \subseteq Windows("skip1", text, 2)
  <2>1. i \in Nat /\ i + Len(bytes) <= Len(text)
    BY <1>1 DEF bytes
  <2>2. \A k \in DOMAIN bytes : Lower[text[i + k]] = Lower[bytes[k]]
    BY DEF bytes
  <2> QED BY <1>1, <2>1, <2>2, LiteralWindows
<1>8. \A q \in one \cup two : ~Clear(q, untracked, R)
  <2> SUFFICES ASSUME NEW q \in one \cup two PROVE ~Clear(q, untracked, R)
    OBVIOUS
  <2>1. q \in R
    BY <1>7 DEF TextBigrams
  <2>2. q \in Trees
    BY <1>4, <1>6, ForestInTrees DEF Forest
  <2>3. IsBigram(q)
    BY DEF Windows, Bigram, IsBigram
  <2> QED BY <2>1, <2>2, <2>3, EvaluateValues
<1>9. ~Clear(SimplifyAnd(one \cup two), untracked, R)
  <2> HIDE DEF one, two
  <2> QED BY <1>6, <1>8, AllOfThem
<1>10. i < j
  BY <1>1, <1>3 DEF bytes
<1>11. Lower[text[i + 1]] = Lower[Head(bytes)] /\ Lower[text[j]] = Lower[Last(bytes)]
  BY <1>3 DEF bytes
<1> HIDE DEF one, two
<1> QED BY <1>2, <1>9, <1>10, <1>11 DEF Holds, Info

LEMMA ClassHolds ==
    ASSUME NEW text \in Seq(Byte), NEW untracked, NEW hir \in Hirs, hir.kind = "class", ~HidesAnEdge[hir],
           NEW i \in 0 .. Len(text), NEW j \in 0 .. Len(text), j = i + 1,
           \E x \in DOMAIN hir.ranges : \E b \in hir.ranges[x] : Lower[text[j]] = Lower[b]
    PROVE  Holds(Decompose[hir], text, untracked, i, j)
<1> DEFINE E == ExpandClass(hir.unicode, hir.ranges)
<1>1. hir.ranges \in Seq(SUBSET Byte)
  BY HirFacts DEF WellFormed
<1>2. Decompose[hir] = Info(AnyQuery, E, E, MinLen[hir] = 0)
  BY DecomposeUnfolds DEF DecomposeFrom, DecomposeClass
<1>3. E # {} => UNION ToSet(hir.ranges) \subseteq Printable
  <2>1. ~HidesAnEdgeFrom(HidesAnEdge, hir)
    BY HidesAnEdgeUnfolds
  <2> QED BY <2>1 DEF HidesAnEdgeFrom
<1>4. PICK x \in DOMAIN hir.ranges : \E b \in hir.ranges[x] : Lower[text[j]] = Lower[b]
  OBVIOUS
<1>5. PICK b \in hir.ranges[x] : Lower[text[j]] = Lower[b]
  BY <1>4
<1>6. E # {} => Lower[b] \in E
  <2>1. E # {} => b \in Printable
    BY <1>3 DEF ToSet
  <2>2. E # {} => \A y \in DOMAIN hir.ranges : \A c \in hir.ranges[y] \cap Printable : Lower[c] \in E
    BY <1>1, ExpandClassTyped
  <2> QED BY <2>1, <2>2
<1>7. i < j
  OBVIOUS
<1>8. ~Clear(AnyQuery, untracked, TextBigrams(text))
  BY AnyHolds
<1> HIDE DEF E
<1> QED BY <1>2, <1>5, <1>6, <1>7, <1>8 DEF Holds, Info

LEMMA RepetitionHolds ==
    ASSUME NEW text \in Seq(Byte), NEW untracked, NEW ends, AllEnds(ends, text), NEW hir \in Hirs, hir.kind = "repetition",
           ~HidesAnEdge[hir], NEW k \in Nat, hir.min <= k, NEW p, Turning(p, k, ends, hir.sub, text),
           \A x \in 1 .. k : Holds(Decompose[hir.sub], text, untracked, p[x - 1], p[x]),
           MinLen[hir] <= p[k] - p[0]
    PROVE  Holds(Decompose[hir], text, untracked, p[0], p[k])
<1> DEFINE inner == Decompose[hir.sub]
           seam  == IF hir.min >= 2 THEN {CrossProduct("consec", inner.last, inner.first)} ELSE {}
           qs    == {inner.query} \cup seam
           R     == TextBigrams(text)
<1>1. hir.min \in Nat /\ hir.sub \in Hirs /\ MinLen[hir] \in Nat /\ MinLen[hir.sub] \in Nat /\ MaxLen[hir.sub] \in Nat
  BY HirFacts, MinLenUnfolds, MaxLenUnfolds DEF WellFormed
<1>2. Decompose[hir] = IF hir.min = 0 THEN Info(AnyQuery, inner.first, inner.last, TRUE)
                       ELSE Info(SimplifyAnd(qs), inner.first, inner.last, MinLen[hir] = 0)
  BY DecomposeUnfolds DEF DecomposeFrom, DecomposeRepetition
<1>3. hir.min >= 2 => MinLen[hir.sub] # 0
  <2>1. ~HidesAnEdgeFrom(HidesAnEdge, hir)
    BY HidesAnEdgeUnfolds
  <2> QED BY <2>1 DEF HidesAnEdgeFrom
<1>4. /\ inner.query \in TreesTo[NestLimit + 1] /\ inner.first \in SUBSET Keyed /\ inner.last \in SUBSET Keyed
  BY <1>1, KnownFacts
<1>5. p \in [0 .. k -> Nat] /\ \A x \in 0 .. k : p[x] \in 0 .. Len(text)
  <2>1. p \in [0 .. k -> 0 .. Len(text)]
    BY DEF Turning
  <2>2. 0 .. Len(text) \subseteq Nat
    OBVIOUS
  <2> QED BY <2>1, <2>2
<1>6. \A x \in 1 .. k : p[x - 1] \in 0 .. Len(text) /\ p[x] \in ends[hir.sub][p[x - 1]]
  BY <1>5 DEF Turning
<1>7. \A x \in 1 .. k : Step01(p[x - 1], p[x], MinLen[hir.sub], MaxLen[hir.sub])
  BY <1>1, <1>6, MatchLengths
<1>8. \A x \in 1 .. k : p[x - 1] <= p[x]
  BY <1>7 DEF Step01
<1> HIDE DEF inner
<1>9. ASSUME p[0] < p[k], inner.first # {} PROVE Lower[text[p[0] + 1]] \in inner.first
  <2>1. PICK m \in 1 .. k : p[m - 1] = p[0] /\ p[m - 1] < p[m]
    BY <1>5, <1>8, <1>9, FirstMove
  <2>2. Holds(inner, text, untracked, p[m - 1], p[m])
    BY DEF inner
  <2> QED BY <1>9, <2>1, <2>2 DEF Holds
<1>10. ASSUME p[0] < p[k], inner.last # {} PROVE Lower[text[p[k]]] \in inner.last
  <2>1. PICK m \in 1 .. k : p[m] = p[k] /\ p[m - 1] < p[m]
    BY <1>5, <1>8, <1>10, LastMove
  <2>2. Holds(inner, text, untracked, p[m - 1], p[m])
    BY DEF inner
  <2> QED BY <1>10, <2>1, <2>2 DEF Holds
<1>11. CASE hir.min = 0
  <2>1. ~Clear(AnyQuery, untracked, R)
    BY AnyHolds
  <2> QED BY <1>2, <1>9, <1>10, <1>11, <2>1 DEF Holds, Info
<1>12. CASE hir.min # 0
  <2>a. 1 \in 1 .. k
    BY <1>1, <1>12
  <2>1. Holds(inner, text, untracked, p[1 - 1], p[1])
    BY <2>a DEF inner
  <2>2. ~Clear(inner.query, untracked, R)
    BY <2>1 DEF Holds
  <2>3. ASSUME hir.min >= 2 PROVE ~Clear(CrossProduct("consec", inner.last, inner.first), untracked, R)
    <3>1. 1 \in 1 .. k /\ 2 \in 1 .. k /\ 1 \in 0 .. k /\ 0 \in 0 .. k /\ 2 \in 0 .. k /\ 1 - 1 = 0 /\ 2 - 1 = 1
      BY <1>1, <2>3
    <3>2. Step01(p[1 - 1], p[1], MinLen[hir.sub], MaxLen[hir.sub]) /\ Step01(p[2 - 1], p[2], MinLen[hir.sub], MaxLen[hir.sub])
      BY <1>7, <3>1
    <3>3. Holds(inner, text, untracked, p[1 - 1], p[1]) /\ Holds(inner, text, untracked, p[2 - 1], p[2])
      BY <3>1 DEF inner
    <3>4. PICK a \in 0 .. Len(text), b \in 0 .. Len(text), c \in 0 .. Len(text) : a = p[0] /\ b = p[1] /\ c = p[2]
      BY <1>5, <3>1
    <3>5. a < b /\ b < c
      BY <1>1, <1>3, <2>3, <3>1, <3>2, <3>4 DEF Step01
    <3>6. b \in 1 .. Len(text) /\ b + 1 \in 1 .. Len(text)
      BY <3>4, <3>5
    <3>7. inner.last # {} => Lower[text[b]] \in inner.last
      BY <3>1, <3>3, <3>4, <3>5 DEF Holds
    <3>8. inner.first # {} => Lower[text[b + 1]] \in inner.first
      BY <3>1, <3>3, <3>4, <3>5 DEF Holds
    <3>9. PICK c1 \in 1 .. Len(text), c2 \in 1 .. Len(text) : c1 = b /\ c2 = b + 1 /\ c2 = c1 + 1
      BY <3>6
    <3>10. inner.last # {} => Lower[text[c1]] \in inner.last
      BY <3>7, <3>9
    <3>11. inner.first # {} => Lower[text[c2]] \in inner.first
      BY <3>8, <3>9
    <3> QED BY <1>4, <3>9, <3>10, <3>11, SeamHolds
  <2>4. Forest(qs, NestLimit + 1)
    <3>1. CrossProduct("consec", inner.last, inner.first) \in TreesTo[NestLimit + 1]
      BY <1>4, KnownFacts, CrossProductTyped
    <3>2. IsFiniteSet({inner.query}) /\ IsFiniteSet({CrossProduct("consec", inner.last, inner.first)}) /\ IsFiniteSet({})
      BY FS_EmptySet, FS_Singleton
    <3>3. IsFiniteSet(qs)
      BY <3>2, FS_Union
    <3> QED BY <1>4, <3>1, <3>3 DEF Forest
  <2>5. \A q \in qs : ~Clear(q, untracked, R)
    BY <2>2, <2>3
  <2> HIDE DEF qs, R
  <2>6. ~Clear(SimplifyAnd(qs), untracked, R)
    BY <2>4, <2>5, AllOfThem DEF R
  <2>7. MinLen[hir] # 0 => p[0] < p[k]
    <3>1. p[0] \in Nat /\ p[k] \in Nat
      BY <1>5
    <3> QED BY <1>1, <3>1
  <2>8. /\ Decompose[hir].query = SimplifyAnd(qs) /\ Decompose[hir].first = inner.first
        /\ Decompose[hir].last = inner.last /\ Decompose[hir].canBeEmpty = (MinLen[hir] = 0)
    BY <1>2, <1>12 DEF Info
  <2> QED BY <1>9, <1>10, <2>6, <2>7, <2>8 DEF Holds, R
<1> QED BY <1>11, <1>12

LEMMA AlternationHolds ==
    ASSUME NEW text \in Seq(Byte), NEW untracked, NEW hir \in Hirs, hir.kind = "alternation", NEW n \in DOMAIN hir.alts,
           NEW i, NEW j, Holds(Decompose[hir.alts[n]], text, untracked, i, j)
    PROVE  Holds(Decompose[hir], text, untracked, i, j)
<1> DEFINE infos == [x \in DOMAIN hir.alts |-> Decompose[hir.alts[x]]]
           Of(field) == {infos[x][field] : x \in DOMAIN infos}
           R == TextBigrams(text)
<1>1. PICK k \in Nat : DOMAIN hir.alts = 1 .. k /\ \A x \in 1 .. k : hir.alts[x] \in Hirs
  <2>1. hir.alts \in Seq(Hirs)
    BY HirFacts DEF WellFormed
  <2> QED BY <2>1
<1>2. /\ DOMAIN infos = 1 .. k /\ n \in 1 .. k /\ Holds(infos[n], text, untracked, i, j)
      /\ \A x \in 1 .. k : infos[x] = Decompose[hir.alts[x]]
  BY <1>1
<1>3. Decompose[hir] = Info(SimplifyOr(Of("query")), MergeByteSets(Of("first")), MergeByteSets(Of("last")),
                            TRUE \in Of("canBeEmpty"))
  BY DecomposeUnfolds DEF DecomposeFrom, DecomposeAlternation
<1> HIDE DEF infos
<1>4. \A x \in 1 .. k : infos[x].query \in TreesTo[NestLimit + 1] /\ infos[x].canBeEmpty \in BOOLEAN
  BY <1>1, <1>2, KnownFacts
<1>5. Forest(Of("query"), NestLimit + 1)
  <2> DEFINE g == [x \in 1 .. k |-> infos[x].query]
  <2>1. Of("query") = {g[x] : x \in 1 .. k}
    BY <1>2
  <2> HIDE DEF g
  <2>2. IsFiniteSet(1 .. k)
    BY FS_Interval
  <2>3. IsFiniteSet({g[x] : x \in 1 .. k})
    BY <2>2, FiniteImage
  <2>4. Of("query") \subseteq TreesTo[NestLimit + 1]
    BY <1>2, <1>4
  <2> QED BY <2>1, <2>3, <2>4 DEF Forest
<1>6. infos[n].query \in Of("query") /\ infos[n].first \in Of("first") /\ infos[n].last \in Of("last")
      /\ infos[n].canBeEmpty \in Of("canBeEmpty")
  BY <1>2
<1> HIDE DEF Of
<1>7. ~Clear(SimplifyOr(Of("query")), untracked, R)
  <2>1. ~Clear(infos[n].query, untracked, R)
    BY <1>2 DEF Holds
  <2> HIDE DEF R
  <2>2. Clear(SimplifyOr(Of("query")), untracked, R) => \A q \in Of("query") : Clear(q, untracked, R)
    BY <1>5, KnownFacts, SimplifyOrClear
  <2> QED BY <1>6, <2>1, <2>2
<1>8. ASSUME NEW sets, NEW s \in sets, MergeByteSets(sets) # {} PROVE s # {} /\ s \subseteq MergeByteSets(sets)
  BY <1>8 DEF MergeByteSets, Capped
<1>9. MergeByteSets(Of("first")) # {} => infos[n].first # {} /\ infos[n].first \subseteq MergeByteSets(Of("first"))
  BY <1>6, <1>8
<1>10. MergeByteSets(Of("last")) # {} => infos[n].last # {} /\ infos[n].last \subseteq MergeByteSets(Of("last"))
  BY <1>6, <1>8
<1>11. ~(TRUE \in Of("canBeEmpty")) => ~infos[n].canBeEmpty
  BY <1>2, <1>4, <1>6
<1>12. /\ Decompose[hir].query = SimplifyOr(Of("query")) /\ Decompose[hir].first = MergeByteSets(Of("first"))
       /\ Decompose[hir].last = MergeByteSets(Of("last")) /\ Decompose[hir].canBeEmpty = (TRUE \in Of("canBeEmpty"))
  BY <1>3 DEF Info
<1> QED BY <1>2, <1>7, <1>9, <1>10, <1>11, <1>12 DEF Holds

\* The parts of a sequence, matched one after the other from p[0] to p[n].
InARow(hir, n, p, text, ends) ==
    /\ hir.kind = "concat" /\ n = Len(hir.parts) /\ DOMAIN hir.parts = 1 .. n
    /\ \A x \in 1 .. n : hir.parts[x] \in Hirs
    /\ p \in [0 .. n -> Nat] /\ \A x \in 0 .. n : p[x] \in 0 .. Len(text)
    /\ \A x \in 1 .. n : Step01(p[x - 1], p[x], MinLen[hir.parts[x]], MaxLen[hir.parts[x]])

LEMMA InARowIs ==
    ASSUME NEW text \in Seq(Byte), NEW ends, AllEnds(ends, text), NEW hir \in Hirs, hir.kind = "concat",
           NEW n \in Nat, n = Len(hir.parts), NEW p, Through(p, n, ends, hir.parts, text)
    PROVE  InARow(hir, n, p, text, ends)
<1>1. hir.parts \in Seq(Hirs)
  BY HirFacts DEF WellFormed
<1>2. DOMAIN hir.parts = 1 .. n /\ \A x \in 1 .. n : hir.parts[x] \in Hirs
  BY <1>1
<1>3. p \in [0 .. n -> 0 .. Len(text)]
  BY DEF Through
<1>4. 0 .. Len(text) \subseteq Nat
  OBVIOUS
<1>5. p \in [0 .. n -> Nat] /\ \A x \in 0 .. n : p[x] \in 0 .. Len(text)
  BY <1>3, <1>4
<1>6. \A x \in 1 .. n : Step01(p[x - 1], p[x], MinLen[hir.parts[x]], MaxLen[hir.parts[x]])
  <2> SUFFICES ASSUME NEW x \in 1 .. n PROVE Step01(p[x - 1], p[x], MinLen[hir.parts[x]], MaxLen[hir.parts[x]])
    OBVIOUS
  <2>1. p[x] \in ends[hir.parts[x]][p[x - 1]] /\ p[x - 1] \in 0 .. Len(text)
    BY <1>5 DEF Through
  <2> QED BY <1>2, <2>1, MatchLengths
<1> QED BY <1>2, <1>5, <1>6 DEF InARow

LEMMA ConcatHolds ==
    ASSUME NEW text \in Seq(Byte), NEW untracked, NEW ends, NEW hir \in Hirs, NEW n \in Nat, NEW p,
           InARow(hir, n, p, text, ends),
           \A x \in 1 .. n : Holds(Decompose[hir.parts[x]], text, untracked, p[x - 1], p[x])
    PROVE  /\ ~Clear(Decompose[hir].query, untracked, TextBigrams(text))
           /\ ~Decompose[hir].canBeEmpty => p[0] < p[n]
<1> DEFINE infos == [x \in DOMAIN hir.parts |-> Decompose[hir.parts[x]]]
           parts == hir.parts
           R     == TextBigrams(text)
<1>1. /\ n = Len(parts) /\ DOMAIN parts = 1 .. n /\ \A x \in 1 .. n : parts[x] \in Hirs
      /\ p \in [0 .. n -> Nat] /\ \A x \in 0 .. n : p[x] \in 0 .. Len(text)
      /\ \A x \in 1 .. n : Step01(p[x - 1], p[x], MinLen[parts[x]], MaxLen[parts[x]])
  BY DEF InARow
<1>2. Decompose[hir] = DecomposeConcat(parts, infos)
  BY DecomposeUnfolds DEF DecomposeFrom, InARow
<1>3. /\ DOMAIN infos = 1 .. n /\ \A x \in 1 .. n : infos[x] = Decompose[parts[x]]
      /\ \A x \in 1 .. n : Holds(infos[x], text, untracked, p[x - 1], p[x])
  BY <1>1
<1> HIDE DEF infos, parts
<1> DEFINE Mandatory(i) == ~infos[i].canBeEmpty
           OneByte(i)   == MinLen[parts[i]] = 1 /\ MaxLen[parts[i]] = 1
           adjacent == {i \in 1 .. Len(parts) - 1 : Mandatory(i) /\ Mandatory(i + 1)}
           across   == {i \in 1 .. Len(parts) - 2 : Mandatory(i) /\ OneByte(i + 1) /\ Mandatory(i + 2)}
           Q == {infos[i].query : i \in DOMAIN infos}
           A == {CrossProduct("consec", infos[i].last, infos[i + 1].first) : i \in adjacent}
           B == {CrossProduct("skip1", infos[i].last, infos[i + 2].first) : i \in across}
           qs == (Q \cup A) \cup B
<1>4. Decompose[hir] = Info(SimplifyAnd(qs), CollectFirst(infos), CollectLast(infos), \A i \in DOMAIN infos : infos[i].canBeEmpty)
  BY <1>2 DEF DecomposeConcat
<1>5. \A x \in 1 .. n : /\ infos[x].query \in TreesTo[NestLimit + 1]
                        /\ infos[x].first \in SUBSET Keyed /\ infos[x].last \in SUBSET Keyed
                        /\ infos[x].canBeEmpty \in BOOLEAN
  BY <1>1, <1>3, KnownFacts
<1>6. \A i \in adjacent : i \in 1 .. n /\ i + 1 \in 1 .. n /\ (i + 1) - 1 = i /\ Mandatory(i) /\ Mandatory(i + 1)
  BY <1>1
<1>7. \A i \in across : /\ i \in 1 .. n /\ i + 1 \in 1 .. n /\ i + 2 \in 1 .. n /\ (i + 1) - 1 = i /\ (i + 2) - 1 = i + 1
                        /\ Mandatory(i) /\ OneByte(i + 1) /\ Mandatory(i + 2)
  BY <1>1
<1> HIDE DEF adjacent, across
<1>8. \A x \in 1 .. n : /\ x \in 0 .. n /\ x - 1 \in 0 .. n /\ p[x] \in 0 .. Len(text) /\ p[x - 1] \in 0 .. Len(text)
                        /\ p[x - 1] <= p[x] /\ (Mandatory(x) => p[x - 1] < p[x])
  BY <1>1, <1>3 DEF Holds, Step01
<1>9. \A q \in Q : q \in TreesTo[NestLimit + 1] /\ ~Clear(q, untracked, R)
  BY <1>3, <1>5 DEF Holds
<1>10. ASSUME NEW i \in adjacent
       PROVE  LET q == CrossProduct("consec", infos[i].last, infos[i + 1].first)
              IN  q \in TreesTo[NestLimit + 1] /\ ~Clear(q, untracked, R)
  <2>1. /\ i \in 1 .. n /\ i + 1 \in 1 .. n /\ (i + 1) - 1 = i
        /\ infos[i].last \in SUBSET Keyed /\ infos[i + 1].first \in SUBSET Keyed
    BY <1>5, <1>6
  <2>2. Holds(infos[i], text, untracked, p[i - 1], p[i]) /\ p[i - 1] < p[i]
    BY <1>3, <1>6, <1>8
  <2>3. Holds(infos[i + 1], text, untracked, p[(i + 1) - 1], p[i + 1]) /\ p[(i + 1) - 1] < p[i + 1]
    BY <1>3, <1>6, <1>8
  <2>4. Holds(infos[i + 1], text, untracked, p[i], p[i + 1]) /\ p[i] < p[i + 1]
    BY <2>1, <2>3
  <2>5. PICK a \in 0 .. Len(text), b \in 0 .. Len(text), c \in 0 .. Len(text) : a = p[i - 1] /\ b = p[i] /\ c = p[i + 1]
    BY <1>8, <2>1
  <2>6. PICK k \in 1 .. Len(text), m \in 1 .. Len(text) : k = p[i] /\ m = p[i] + 1 /\ m = k + 1
    BY <2>2, <2>4, <2>5
  <2>7. (infos[i].last # {} => Lower[text[k]] \in infos[i].last) /\ (infos[i + 1].first # {} => Lower[text[m]] \in infos[i + 1].first)
    BY <2>2, <2>4, <2>6 DEF Holds
  <2>8. ~Clear(CrossProduct("consec", infos[i].last, infos[i + 1].first), untracked, R)
    BY <2>1, <2>6, <2>7, SeamHolds
  <2>9. CrossProduct("consec", infos[i].last, infos[i + 1].first) \in TreesTo[NestLimit + 1]
    BY <2>1, KnownFacts, CrossProductTyped
  <2> QED BY <2>8, <2>9
<1>11. ASSUME NEW i \in across
       PROVE  LET q == CrossProduct("skip1", infos[i].last, infos[i + 2].first)
              IN  q \in TreesTo[NestLimit + 1] /\ ~Clear(q, untracked, R)
  <2>1. /\ i \in 1 .. n /\ i + 1 \in 1 .. n /\ i + 2 \in 1 .. n /\ (i + 1) - 1 = i /\ (i + 2) - 1 = i + 1
        /\ infos[i].last \in SUBSET Keyed /\ infos[i + 2].first \in SUBSET Keyed
    BY <1>5, <1>7
  <2>2. Holds(infos[i], text, untracked, p[i - 1], p[i]) /\ p[i - 1] < p[i]
    BY <1>3, <1>7, <1>8
  <2>3. Holds(infos[i + 2], text, untracked, p[(i + 2) - 1], p[i + 2]) /\ p[(i + 2) - 1] < p[i + 2]
    BY <1>3, <1>7, <1>8
  <2>4. Holds(infos[i + 2], text, untracked, p[i + 1], p[i + 2]) /\ p[i + 1] < p[i + 2]
    BY <2>1, <2>3
  <2>a. Step01(p[(i + 1) - 1], p[i + 1], 1, 1)
    BY <1>1, <1>7
  <2>b. Step01(p[i], p[i + 1], 1, 1)
    BY <2>1, <2>a
  <2>5. PICK a \in 0 .. Len(text), b \in 0 .. Len(text), c \in 0 .. Len(text), d \in 0 .. Len(text) :
           a = p[i - 1] /\ b = p[i] /\ c = p[i + 1] /\ d = p[i + 2]
    BY <1>8, <2>1
  <2>c. c = b + 1
    BY <2>5, <2>b DEF Step01
  <2>d. a < b /\ c < d
    BY <2>2, <2>4, <2>5
  <2>e. b \in 1 .. Len(text) /\ c + 1 \in 1 .. Len(text) /\ c + 1 = b + 2
    BY <2>c, <2>d
  <2>6. PICK k \in 1 .. Len(text), m \in 1 .. Len(text) : k = p[i] /\ m = p[i + 1] + 1 /\ m = k + 2
    BY <2>5, <2>e
  <2>7. (infos[i].last # {} => Lower[text[k]] \in infos[i].last) /\ (infos[i + 2].first # {} => Lower[text[m]] \in infos[i + 2].first)
    BY <2>2, <2>4, <2>6 DEF Holds
  <2>8. ~Clear(CrossProduct("skip1", infos[i].last, infos[i + 2].first), untracked, R)
    BY <2>1, <2>6, <2>7, SeamHolds
  <2>9. CrossProduct("skip1", infos[i].last, infos[i + 2].first) \in TreesTo[NestLimit + 1]
    BY <2>1, KnownFacts, CrossProductTyped
  <2> QED BY <2>8, <2>9
<1>12. \A q \in qs : q \in TreesTo[NestLimit + 1] /\ ~Clear(q, untracked, R)
  <2>1. \A q \in A : q \in TreesTo[NestLimit + 1] /\ ~Clear(q, untracked, R)
    BY <1>10
  <2>2. \A q \in B : q \in TreesTo[NestLimit + 1] /\ ~Clear(q, untracked, R)
    BY <1>11
  <2> HIDE DEF Q, A, B, R
  <2> QED BY <1>9, <2>1, <2>2
<1>13. IsFiniteSet(qs)
  <2>1. IsFiniteSet(1 .. n)
    BY FS_Interval
  <2>2. IsFiniteSet(adjacent) /\ IsFiniteSet(across)
    <3>1. adjacent \subseteq 1 .. n /\ across \subseteq 1 .. n
      BY <1>6, <1>7
    <3> QED BY <2>1, <3>1, FS_Subset
  <2> DEFINE g1 == [i \in 1 .. n |-> infos[i].query]
             g2 == [i \in adjacent |-> CrossProduct("consec", infos[i].last, infos[i + 1].first)]
             g3 == [i \in across |-> CrossProduct("skip1", infos[i].last, infos[i + 2].first)]
  <2>3. Q = {g1[i] : i \in 1 .. n}
    BY <1>3
  <2>4. A = {g2[i] : i \in adjacent}
    OBVIOUS
  <2>5. B = {g3[i] : i \in across}
    OBVIOUS
  <2> HIDE DEF g1, g2, g3, Q, A, B
  <2>6. IsFiniteSet({g1[i] : i \in 1 .. n}) /\ IsFiniteSet({g2[i] : i \in adjacent}) /\ IsFiniteSet({g3[i] : i \in across})
    BY <2>1, <2>2, FiniteImage
  <2>7. IsFiniteSet(Q) /\ IsFiniteSet(A) /\ IsFiniteSet(B)
    BY <2>3, <2>4, <2>5, <2>6
  <2>8. IsFiniteSet(Q \cup A)
    BY <2>7, FS_Union
  <2> QED BY <2>7, <2>8, FS_Union
<1> HIDE DEF qs
<1>14. ~Clear(SimplifyAnd(qs), untracked, R)
  <2>1. Forest(qs, NestLimit + 1)
    BY <1>12, <1>13 DEF Forest
  <2> QED BY <1>12, <2>1, AllOfThem
<1>15. Decompose[hir].query = SimplifyAnd(qs) /\ Decompose[hir].canBeEmpty = (\A i \in DOMAIN infos : infos[i].canBeEmpty)
  BY <1>4 DEF Info
<1>16. ASSUME ~Decompose[hir].canBeEmpty PROVE p[0] < p[n]
  <2>1. PICK x \in 1 .. n : ~infos[x].canBeEmpty
    BY <1>3, <1>15, <1>16
  <2>2. p[x - 1] < p[x]
    BY <1>8, <2>1
  <2>3. 0 \in 0 .. n /\ n \in 0 .. n /\ x - 1 \in 0 .. n /\ x \in 0 .. n /\ x - 1 \in 0 .. n /\ n \in x .. n
    OBVIOUS
  <2>4. \A y \in 1 .. n : p[y - 1] <= p[y]
    BY <1>8
  <2>5. p[0] <= p[x - 1]
    BY <1>1, <2>3, <2>4, PathMonotone
  <2>6. p[x] <= p[n]
    BY <1>1, <2>3, <2>4, PathMonotone
  <2>7. p[0] \in Nat /\ p[x - 1] \in Nat /\ p[x] \in Nat /\ p[n] \in Nat
    BY <1>1, <2>3
  <2> QED BY <2>2, <2>5, <2>6, <2>7
<1> QED BY <1>14, <1>15, <1>16

LEMMA ConcatEdges ==
    ASSUME NEW text \in Seq(Byte), NEW untracked, NEW ends, NEW hir \in Hirs, NEW n \in Nat, NEW p,
           InARow(hir, n, p, text, ends), ~HidesAnEdge[hir],
           \A x \in 1 .. n : Holds(Decompose[hir.parts[x]], text, untracked, p[x - 1], p[x])
    PROVE  Holds(Decompose[hir], text, untracked, p[0], p[n])
<1> DEFINE infos == [x \in DOMAIN hir.parts |-> Decompose[hir.parts[x]]]
           parts == hir.parts
           back  == Backwards(infos)
           W     == {x \in 1 .. n : p[x - 1] < p[x]}
           V     == {x \in 1 .. n : n + 1 - x \in W}
           b     == [x \in 1 .. n |-> Lower[text[p[x - 1] + 1]]]
           d     == [x \in 1 .. n |-> Lower[text[p[n + 1 - x]]]]
<1>1. /\ n = Len(parts) /\ DOMAIN parts = 1 .. n /\ \A x \in 1 .. n : parts[x] \in Hirs
      /\ p \in [0 .. n -> Nat] /\ \A x \in 0 .. n : p[x] \in 0 .. Len(text)
      /\ \A x \in 1 .. n : Step01(p[x - 1], p[x], MinLen[parts[x]], MaxLen[parts[x]])
  BY DEF InARow
<1>2. Decompose[hir] = DecomposeConcat(parts, infos)
  BY DecomposeUnfolds DEF DecomposeFrom, InARow
<1>3. /\ DOMAIN infos = 1 .. n /\ Len(infos) = n /\ \A x \in 1 .. n : infos[x] = Decompose[parts[x]]
      /\ \A x \in 1 .. n : Holds(infos[x], text, untracked, p[x - 1], p[x])
  BY <1>1
<1>4. ~BeginsUnknown(infos, parts) /\ ~BeginsUnknown(back, Reverse(parts))
  <2>1. ~HidesAnEdgeFrom(HidesAnEdge, hir) /\ hir.kind = "concat"
    BY HidesAnEdgeUnfolds DEF InARow
  <2> DEFINE ended == [i \in DOMAIN infos |-> [infos[i] EXCEPT !.first = infos[i].last]]
  <2>2. ~BeginsUnknown(infos, parts) /\ ~BeginsUnknown(Reverse(ended), Reverse(parts))
    BY <2>1 DEF HidesAnEdgeFrom
  <2>3. back = Reverse(ended)
    BY DEF Backwards
  <2> QED BY <2>2, <2>3
<1> HIDE DEF infos, parts
<1>5. /\ Decompose[hir].first = CollectFirst(infos) /\ Decompose[hir].last = CollectLast(infos)
  <2>1. \E q, e : DecomposeConcat(parts, infos) = Info(q, CollectFirst(infos), CollectLast(infos), e)
    BY Zenon DEF DecomposeConcat
  <2>2. \A q, f, l, e : Info(q, f, l, e).first = f /\ Info(q, f, l, e).last = l
    BY DEF Info
  <2> QED BY <1>2, <2>1, <2>2
<1>6. \A x \in 1 .. n : infos[x] \in InfoAt(NestLimit)
  BY <1>1, <1>3, DecomposeAt
<1>7. \A x \in 1 .. n : p[x - 1] \in Nat /\ p[x] \in Nat /\ p[x - 1] <= p[x] /\ MaxLen[parts[x]] \in Nat
  BY <1>1, MaxLenUnfolds DEF Step01
<1>8. ASSUME NEW x \in 1 .. n
      PROVE  /\ ~infos[x].canBeEmpty => x \in W
             /\ x \in W /\ infos[x].first # {} => b[x] \in infos[x].first
             /\ x \in W /\ infos[x].last # {} => Lower[text[p[x]]] \in infos[x].last
             /\ x \in W => MaxLen[parts[x]] > 0
  <2>1. Holds(infos[x], text, untracked, p[x - 1], p[x])
    BY <1>3
  <2>2. x \in W => MaxLen[parts[x]] > 0
    <3>1. Step01(p[x - 1], p[x], MinLen[parts[x]], MaxLen[parts[x]])
      BY <1>1
    <3>2. x \in W => p[x - 1] < p[x]
      OBVIOUS
    <3> QED BY <1>7, <3>1, <3>2 DEF Step01
  <2> QED BY <2>1, <2>2 DEF Holds
<1>9. ASSUME p[0] < p[n], Decompose[hir].first # {} PROVE Lower[text[p[0] + 1]] \in Decompose[hir].first
  <2>1. PICK m \in 1 .. n : p[m - 1] = p[0] /\ p[m - 1] < p[m] /\ \A x \in 1 .. n : x < m => ~(p[x - 1] < p[x])
    BY <1>1, <1>7, <1>9, FirstMove
  <2>2. m \in W /\ \A x \in 1 .. n : x < m => x \notin W
    BY <2>1
  <2>3. b[m] = Lower[text[p[0] + 1]]
    BY <2>1
  <2> HIDE DEF W, b
  <2>4. b[m] \in CollectFirst(infos)
    BY <1>3, <1>4, <1>5, <1>8, <1>9, <2>2, CollectFirstHolds
  <2> QED BY <1>5, <2>3, <2>4
<1>10. ASSUME p[0] < p[n], Decompose[hir].last # {} PROVE Lower[text[p[n]]] \in Decompose[hir].last
  <2>1. PICK m \in 1 .. n : p[m] = p[n] /\ p[m - 1] < p[m] /\ \A x \in 1 .. n : m < x => ~(p[x - 1] < p[x])
    BY <1>1, <1>7, <1>10, LastMove
  <2>2. /\ CollectLast(infos) = CollectFirst(back) /\ DOMAIN back = 1 .. n /\ Len(back) = n
        /\ \A i \in 1 .. n : back[i].first = infos[n + 1 - i].last /\ back[i].canBeEmpty = infos[n + 1 - i].canBeEmpty
    BY <1>3, <1>6, CollectLastIs
  <2> HIDE DEF back
  <2>3. \A i \in 1 .. n : Reverse(parts)[i] = parts[n + 1 - i] /\ n + 1 - i \in 1 .. n
    <3> SUFFICES ASSUME NEW i \in 1 .. n PROVE Reverse(parts)[i] = parts[n + 1 - i] /\ n + 1 - i \in 1 .. n
      OBVIOUS
    <3>1. Reverse(parts)[i] = parts[(n - i) + 1]
      BY <1>1 DEF Reverse
    <3>2. (n - i) + 1 = n + 1 - i /\ n + 1 - i \in 1 .. n
      OBVIOUS
    <3> QED BY <3>1, <3>2
  <2>4. ASSUME NEW i \in 1 .. n
        PROVE  /\ ~back[i].canBeEmpty => i \in V
               /\ i \in V /\ back[i].first # {} => d[i] \in back[i].first
               /\ i \in V => MaxLen[Reverse(parts)[i]] > 0
    <3>1. PICK x \in 1 .. n : x = n + 1 - i
      BY <2>3
    <3>2. back[i].first = infos[x].last /\ back[i].canBeEmpty = infos[x].canBeEmpty /\ Reverse(parts)[i] = parts[x]
      BY <2>2, <2>3, <3>1
    <3>3. d[i] = Lower[text[p[x]]] /\ (i \in V <=> x \in W)
      BY <3>1
    <3> HIDE DEF V, W, d
    <3> QED BY <1>8, <3>2, <3>3
  <2>5. PICK k \in 1 .. n : k = n + 1 - m /\ n + 1 - k = m
    BY <2>3
  <2>6. k \in V /\ d[k] = Lower[text[p[n]]]
    BY <2>1, <2>5
  <2>7. ASSUME NEW x \in 1 .. n, x < k PROVE x \notin V
    <3>1. PICK y \in 1 .. n : y = n + 1 - x /\ m < y
      BY <2>3, <2>5, <2>7
    <3>2. y \notin W
      BY <2>1, <3>1
    <3> QED BY <3>1, <3>2
  <2> HIDE DEF V, W, d
  <2>8. CollectFirst(back) # {}
    BY <1>5, <1>10, <2>2
  <2>9. d[k] \in CollectFirst(back)
    BY <1>4, <2>2, <2>4, <2>6, <2>7, <2>8, CollectFirstHolds
  <2> QED BY <1>5, <2>2, <2>6, <2>9
<1>11. /\ ~Clear(Decompose[hir].query, untracked, TextBigrams(text))
       /\ ~Decompose[hir].canBeEmpty => p[0] < p[n]
  BY ConcatHolds
<1> QED BY <1>9, <1>10, <1>11 DEF Holds

LEMMA MatchHolds ==
    ASSUME NEW text \in Seq(Byte), NEW ends, AllEnds(ends, text), NEW untracked, NEW hir \in Hirs, ~HidesAnEdge[hir],
           NEW i \in 0 .. Len(text), NEW j \in ends[hir][i]
    PROVE  Holds(Decompose[hir], text, untracked, i, j)
<1> DEFINE P == 0 .. Len(text)
           Good(h) == ~HidesAnEdge[h] => \A a \in P : \A b \in ends[h][a] : Holds(Decompose[h], text, untracked, a, b)
           T == {h \in Hirs : Good(h)}
<1>1. ASSUME NEW h \in Hirs, Subs(h) \subseteq T, ~HidesAnEdge[h], NEW a \in P, NEW b \in ends[h][a]
      PROVE  Holds(Decompose[h], text, untracked, a, b)
  <2>1. MatchOf(ends, h, text, a, b)
    BY MatchMadeOf
  <2>2. WellFormed(h, Hirs) /\ b \in P
    BY <2>1, HirFacts DEF MatchOf
  <2>3. ~HidesAnEdgeFrom(HidesAnEdge, h)
    BY <1>1, HidesAnEdgeUnfolds
  <2>4. ASSUME NEW s \in Subs(h), ~HidesAnEdge[s], NEW c \in P, NEW d \in ends[s][c]
        PROVE  Holds(Decompose[s], text, untracked, c, d)
    BY <1>1, <2>4
  <2> HIDE DEF T, Good
  <2>5. CASE h.kind = "literal"
    <3>1. b = a + Len(h.bytes) /\ \A k \in DOMAIN h.bytes : Lower[text[a + k]] = Lower[h.bytes[k]]
      BY <2>1, <2>5 DEF MatchOf
    <3> QED BY <2>2, <2>5, <3>1, LiteralHolds
  <2>6. CASE h.kind = "class"
    <3>1. b = a + 1 /\ \E x \in DOMAIN h.ranges : \E y \in h.ranges[x] : Lower[text[b]] = Lower[y]
      BY <2>1, <2>6 DEF MatchOf
    <3> QED BY <1>1, <2>2, <2>6, <3>1, ClassHolds
  <2>7. CASE h.kind \in {"look", "empty"}
    <3>1. b = a
      BY <2>1, <2>7 DEF MatchOf
    <3>2. Decompose[h] = Info(AnyQuery, {}, {}, TRUE)
      BY <2>7, DecomposeUnfolds DEF DecomposeFrom, EmptyInfo
    <3>3. ~Clear(AnyQuery, untracked, TextBigrams(text))
      BY AnyHolds
    <3> QED BY <3>1, <3>2, <3>3 DEF Holds, Info
  <2>8. CASE h.kind = "repetition"
    <3>1. PICK k \in Counts(h, Len(text)) : \E p : Turning(p, k, ends, h.sub, text) /\ p[0] = a /\ p[k] = b
      BY <2>1, <2>8 DEF MatchOf
    <3>2. PICK p : Turning(p, k, ends, h.sub, text) /\ p[0] = a /\ p[k] = b
      BY <3>1
    <3>3. k \in Nat /\ h.min <= k
      BY <2>2, <2>8 DEF WellFormed, Counts
    <3>4. h.sub \in Subs(h) /\ ~HidesAnEdge[h.sub]
      BY <2>3, <2>8 DEF HidesAnEdgeFrom, Subs
    <3>5. \A x \in 1 .. k : Holds(Decompose[h.sub], text, untracked, p[x - 1], p[x])
      <4> SUFFICES ASSUME NEW x \in 1 .. k PROVE Holds(Decompose[h.sub], text, untracked, p[x - 1], p[x])
        OBVIOUS
      <4>1. x - 1 \in 0 .. k
        BY <3>3
      <4>2. p[x - 1] \in P /\ p[x] \in ends[h.sub][p[x - 1]]
        BY <3>2, <4>1 DEF Turning
      <4> QED BY <2>4, <3>4, <4>2
    <3>6. MinLen[h] <= p[k] - p[0]
      <4>1. Step01(a, b, MinLen[h], MaxLen[h])
        BY MatchLengths
      <4> QED BY <3>2, <4>1 DEF Step01
    <3>7. Holds(Decompose[h], text, untracked, p[0], p[k])
      BY <1>1, <2>8, <3>2, <3>3, <3>5, <3>6, RepetitionHolds
    <3> QED BY <3>2, <3>7
  <2>9. CASE h.kind = "capture"
    <3>1. b \in ends[h.sub][a] /\ h.sub \in Subs(h) /\ ~HidesAnEdge[h.sub]
      BY <2>1, <2>3, <2>9 DEF MatchOf, Subs, HidesAnEdgeFrom
    <3>2. Decompose[h] = Decompose[h.sub]
      BY <2>9, DecomposeUnfolds DEF DecomposeFrom
    <3> QED BY <2>4, <3>1, <3>2
  <2>10. CASE h.kind = "concat"
    <3>1. PICK n \in Nat : n = Len(h.parts) /\ DOMAIN h.parts = 1 .. n
      BY <2>2, <2>10 DEF WellFormed
    <3>2. PICK p : Through(p, n, ends, h.parts, text) /\ p[0] = a /\ p[n] = b
      BY <2>1, <2>10, <3>1 DEF MatchOf
    <3>3. \A x \in 1 .. n : h.parts[x] \in Subs(h) /\ ~HidesAnEdge[h.parts[x]]
      BY <2>3, <2>10, <3>1 DEF Subs, HidesAnEdgeFrom, ToSet
    <3>4. \A x \in 1 .. n : Holds(Decompose[h.parts[x]], text, untracked, p[x - 1], p[x])
      <4> SUFFICES ASSUME NEW x \in 1 .. n PROVE Holds(Decompose[h.parts[x]], text, untracked, p[x - 1], p[x])
        OBVIOUS
      <4>1. x - 1 \in 0 .. n
        OBVIOUS
      <4>2. p[x - 1] \in P /\ p[x] \in ends[h.parts[x]][p[x - 1]]
        BY <3>2, <4>1 DEF Through
      <4> QED BY <2>4, <3>3, <4>2
    <3>5. InARow(h, n, p, text, ends)
      BY <2>10, <3>1, <3>2, InARowIs
    <3>6. Holds(Decompose[h], text, untracked, p[0], p[n])
      BY <1>1, <3>4, <3>5, ConcatEdges
    <3> QED BY <3>2, <3>6
  <2>11. CASE h.kind = "alternation"
    <3>1. PICK n \in DOMAIN h.alts : b \in ends[h.alts[n]][a]
      BY <2>1, <2>11 DEF MatchOf
    <3>2. h.alts[n] \in Subs(h) /\ ~HidesAnEdge[h.alts[n]]
      BY <2>3, <2>11 DEF Subs, HidesAnEdgeFrom, ToSet
    <3>3. Holds(Decompose[h.alts[n]], text, untracked, a, b)
      BY <2>4, <3>1, <3>2
    <3> QED BY <2>11, <3>3, AlternationHolds
  <2> QED BY <2>2, <2>5, <2>6, <2>7, <2>8, <2>9, <2>10, <2>11 DEF WellFormed
<1>2. \A h \in Hirs : Subs(h) \subseteq T => h \in T
  BY <1>1
<1> HIDE DEF Good
<1>3. Hirs \subseteq T
  <2> HIDE DEF T
  <2> QED BY <1>2, HirInduction
<1> QED BY <1>3 DEF Good

\* A text that an expression without a hidden edge matches is let through.
LEMMA RegexIncludes ==
    ASSUME NEW text \in Seq(Byte), NEW hir \in Hirs, ~JoinsAHiddenEdge(hir), Matches(hir, text), NEW untracked
    PROVE  Includes(Decompose[hir].query, untracked, text)
<1>1. PICK ends : AllEnds(ends, text) /\ \A h, i : Ends(h, text, i) = ends[h][i]
  BY EndsUnfolds
<1>2. PICK i \in 0 .. Len(text) : ends[hir][i] # {}
  BY <1>1 DEF Matches
<1>3. PICK j \in ends[hir][i] : TRUE
  BY <1>2
<1>4. CASE hir.kind # "concat"
  <2>1. ~HidesAnEdge[hir]
    BY <1>4 DEF JoinsAHiddenEdge
  <2>2. Holds(Decompose[hir], text, untracked, i, j)
    BY <1>1, <2>1, MatchHolds
  <2> QED BY <2>2 DEF Holds, Clear, Includes
<1>5. CASE hir.kind = "concat"
  <2>1. MatchOf(ends, hir, text, i, j) /\ WellFormed(hir, Hirs)
    BY <1>1, MatchMadeOf, HirFacts
  <2>2. PICK n \in Nat : n = Len(hir.parts) /\ DOMAIN hir.parts = 1 .. n /\ \A x \in 1 .. n : hir.parts[x] \in Hirs
    <3>1. hir.parts \in Seq(Hirs)
      BY <1>5, <2>1 DEF WellFormed
    <3> QED BY <3>1
  <2>3. PICK p : Through(p, n, ends, hir.parts, text) /\ p[0] = i /\ p[n] = j
    BY <1>5, <2>1, <2>2 DEF MatchOf
  <2>4. \A x \in 1 .. n : ~HidesAnEdge[hir.parts[x]]
    BY <1>5, <2>2 DEF JoinsAHiddenEdge, ToSet
  <2>5. \A x \in 1 .. n : Holds(Decompose[hir.parts[x]], text, untracked, p[x - 1], p[x])
    <3> SUFFICES ASSUME NEW x \in 1 .. n PROVE Holds(Decompose[hir.parts[x]], text, untracked, p[x - 1], p[x])
      OBVIOUS
    <3>1. x - 1 \in 0 .. n
      OBVIOUS
    <3>2. p[x - 1] \in 0 .. Len(text) /\ p[x] \in ends[hir.parts[x]][p[x - 1]]
      BY <2>3, <3>1 DEF Through
    <3> QED BY <1>1, <2>2, <2>4, <3>2, MatchHolds
  <2>6. InARow(hir, n, p, text, ends)
    BY <1>1, <1>5, <2>2, <2>3, InARowIs
  <2>7. ~Clear(Decompose[hir].query, untracked, TextBigrams(text))
    BY <2>5, <2>6, ConcatHolds
  <2> QED BY <2>7 DEF Clear, Includes
<1> QED BY <1>4, <1>5

-----------------------------------------------------------------------------
(* Recursion over trees, and their normal form.                            *)

\* A turn f -> G[f] that looks at the children of a node only.
LooksAtChildren(G, V) ==
    \A f, g \in [Trees -> V] : \A t \in Trees :
        (t.op \in {"and", "or"} => \A c \in t.children : f[c] = g[c]) => G[f][t] = G[g][t]

\* Recursion over trees defines a function.
LEMMA TreeRecursion ==
    ASSUME NEW V, V # {}, NEW G \in [[Trees -> V] -> [Trees -> V]], LooksAtChildren(G, V)
    PROVE  \E f \in [Trees -> V] : f = G[f]
<1> DEFINE F == [Trees -> V]
           Good(n) == n \in 0 .. Top => \E f \in F : \A t \in TreesTo[n] : f[t] = G[f][t]
           T == {n \in Nat : Good(n)}
<1>1. ASSUME NEW n \in 0 .. Top, NEW f \in F, n # 0 => \A t \in TreesTo[n - 1] : f[t] = G[f][t]
      PROVE  \E g \in F : \A t \in TreesTo[n] : g[t] = G[g][t]
  <2>1. PICK g \in F : g = G[f]
    OBVIOUS
  <2>2. ASSUME NEW t \in TreesTo[n] PROVE g[t] = G[g][t]
    <3>1. t.op \in {"any", "consec", "skip1"} \/ (n # 0 /\ t.op \in {"and", "or"} /\ t.children \subseteq TreesTo[n - 1])
      BY NodeKinds
    <3>2. t.op \in {"and", "or"} => \A c \in t.children : f[c] = g[c]
      BY <1>1, <2>1, <3>1
    <3>3. t \in Trees
      BY ForestInTrees
    <3> HIDE DEF F
    <3>4. G[f][t] = G[g][t]
      BY <3>2, <3>3 DEF LooksAtChildren, F
    <3> QED BY <2>1, <3>4
  <2> QED BY <2>2
<1>2. Good(0)
  <2> SUFFICES ASSUME 0 \in 0 .. Top PROVE \E f \in F : \A t \in TreesTo[0] : f[t] = G[f][t]
    OBVIOUS
  <2>1. PICK f \in F : TRUE
    <3>1. PICK v \in V : TRUE
      OBVIOUS
    <3>2. [t \in Trees |-> v] \in F
      OBVIOUS
    <3> QED BY <3>2
  <2> HIDE DEF F
  <2> QED BY <1>1, <2>1
<1>3. ASSUME NEW n \in Nat, Good(n) PROVE Good(n + 1)
  <2>1. PICK j \in Nat : j = n + 1 /\ j # 0 /\ j - 1 = n
    OBVIOUS
  <2> SUFFICES ASSUME j \in 0 .. Top PROVE \E f \in F : \A t \in TreesTo[j] : f[t] = G[f][t]
    BY <2>1
  <2>2. n \in 0 .. Top
    BY <2>1, TreesUnfold
  <2>3. PICK f \in F : \A t \in TreesTo[n] : f[t] = G[f][t]
    BY <1>3, <2>2
  <2> HIDE DEF F
  <2>4. \A t \in TreesTo[j - 1] : f[t] = G[f][t]
    BY <2>1, <2>3
  <2> QED BY <1>1, <2>4
<1> HIDE DEF Good
<1>4. 0 \in T /\ \A i \in Nat : i \in T => i + 1 \in T
  BY <1>2, <1>3
<1> HIDE DEF T
<1>5. Nat \subseteq T
  BY <1>4, InductionOver
<1>6. Top \in 0 .. Top /\ Top \in Nat /\ Trees = TreesTo[Top]
  BY TreesUnfold
<1>7. PICK f \in F : \A t \in Trees : f[t] = G[f][t]
  BY <1>5, <1>6 DEF T, Good
<1>8. f \in [Trees -> V] /\ G[f] \in [Trees -> V]
  OBVIOUS
<1> QED BY <1>7, <1>8
===============================================================================
