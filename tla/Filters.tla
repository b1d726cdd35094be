------------------------------ MODULE Filters ------------------------------
(***************************************************************************)
(* Sequences cut down and sorted, as the comprehensions and the stable     *)
(* sorted() of the Python code do it.  SelectSeq and SortSeq do the same   *)
(* by recursion; here the element of a place is the one with as many       *)
(* before it, which is something that can be reasoned about, and what      *)
(* follows from it is proved below.  So is what is needed of sums and of   *)
(* what is built one step after the other.                                 *)
(***************************************************************************)
EXTENDS Integers, Sequences, FiniteSets, Functions, FiniteSetTheorems, TLAPS

\* How many of I come no later than i in the order of their keys, the
\* earlier number first where the keys are the same.
NoLater(I, key, i) == {j \in I : key[j] < key[i] \/ (key[j] = key[i] /\ j <= i)}
Rank(I, key, i) == Cardinality(NoLater(I, key, i))
Nth(I, key, n)  == CHOOSE i \in I : Rank(I, key, i) = n

\* The elements of s at the places I, by their keys.
Pick(s, I, key) == [n \in 1 .. Cardinality(I) |-> s[Nth(I, key, n)]]

\* [x for x in s if P(x)]
Where(s, P(_)) == LET I == {i \in DOMAIN s : P(s[i])} IN Pick(s, I, [i \in I |-> i])

-----------------------------------------------------------------------------
\* Who has more before it comes later.
LEMMA RankIsStrict ==
    ASSUME NEW I \in SUBSET Int, IsFiniteSet(I), NEW key \in [I -> Int],
           NEW i \in I, NEW j \in I, key[i] < key[j] \/ (key[i] = key[j] /\ i < j)
    PROVE  Rank(I, key, i) < Rank(I, key, j)
<1> DEFINE A == NoLater(I, key, i)
           B == NoLater(I, key, j)
<1>1. key[i] \in Int /\ key[j] \in Int /\ i \in Int /\ j \in Int
  OBVIOUS
<1>2. A \subseteq B
  <2> SUFFICES ASSUME NEW k \in A PROVE k \in B
    OBVIOUS
  <2>1. k \in I /\ k \in Int /\ key[k] \in Int
    BY DEF NoLater
  <2>2. QED
    BY <1>1, <2>1 DEF NoLater
<1>3. j \in B /\ j \notin A
  BY <1>1 DEF NoLater
<1>4. B \subseteq I
  BY DEF NoLater
<1> HIDE DEF A, B
<1>5. IsFiniteSet(B)
  BY <1>4, FS_Subset
<1>6. IsFiniteSet(A) /\ Cardinality(A) <= Cardinality(B) /\ (Cardinality(B) = Cardinality(A) => B = A)
  BY <1>2, <1>5, FS_Subset
<1>7. Cardinality(A) \in Nat /\ Cardinality(B) \in Nat
  BY <1>5, <1>6, FS_CardinalityType
<1>8. Cardinality(A) < Cardinality(B)
  BY <1>3, <1>6, <1>7
<1>9. QED
  BY <1>8 DEF Rank, A, B

LEMMA RankType ==
    ASSUME NEW I \in SUBSET Int, IsFiniteSet(I), NEW key \in [I -> Int], NEW i \in I
    PROVE  Rank(I, key, i) \in 1 .. Cardinality(I)
<1> DEFINE A == NoLater(I, key, i)
<1>1. key[i] \in Int /\ i \in Int
  OBVIOUS
<1>2. A \subseteq I /\ i \in A
  BY <1>1 DEF NoLater
<1> HIDE DEF A
<1>3. IsFiniteSet(A) /\ Cardinality(A) <= Cardinality(I)
  BY <1>2, FS_Subset
<1>4. Cardinality(A) \in Nat /\ Cardinality(I) \in Nat
  BY <1>3, FS_CardinalityType
<1>5. Cardinality(A) # 0
  BY <1>2, <1>3, FS_EmptySet
<1>6. Cardinality(A) \in 1 .. Cardinality(I)
  BY <1>3, <1>4, <1>5
<1>7. QED
  BY <1>6 DEF Rank, A

\* Every place is taken, by exactly one.
LEMMA EveryPlaceIsTaken ==
    ASSUME NEW I \in SUBSET Int, IsFiniteSet(I), NEW key \in [I -> Int],
           NEW n \in 1 .. Cardinality(I)
    PROVE  Nth(I, key, n) \in I /\ Rank(I, key, Nth(I, key, n)) = n
<1> DEFINE R == [i \in I |-> Rank(I, key, i)]
           N == 1 .. Cardinality(I)
<1>1. Cardinality(I) \in Nat
  BY FS_CardinalityType
<1>2. R \in [I -> N]
  BY RankType
<1>3. \A i, j \in I : R[i] = R[j] => i = j
  <2> SUFFICES ASSUME NEW i \in I, NEW j \in I, R[i] = R[j], i # j PROVE FALSE
    OBVIOUS
  <2>1. Rank(I, key, i) = Rank(I, key, j) /\ Rank(I, key, i) \in Int
    BY <1>2
  <2>2. key[i] \in Int /\ key[j] \in Int /\ i \in Int /\ j \in Int
    OBVIOUS
  <2>3. CASE key[i] < key[j] \/ (key[i] = key[j] /\ i < j)
    <3>1. Rank(I, key, i) < Rank(I, key, j)
      BY <2>3, RankIsStrict
    <3>2. QED
      BY <2>1, <3>1
  <2>4. CASE key[j] < key[i] \/ (key[j] = key[i] /\ j < i)
    <3>1. Rank(I, key, j) < Rank(I, key, i)
      BY <2>4, RankIsStrict
    <3>2. QED
      BY <2>1, <3>1
  <2>5. QED
    BY <2>2, <2>3, <2>4
<1>4. R \in Injection(I, N)
  BY <1>2, <1>3 DEF Injection, IsInjective
<1>5. IsFiniteSet(N) /\ Cardinality(N) = Cardinality(I)
  BY <1>1, FS_Interval
<1> HIDE DEF R, N
<1>6. R \in Surjection(I, N)
  BY <1>4, <1>5, FS_Injection
<1>7. n \in N
  BY DEF N
<1>8. \E i \in I : R[i] = n
  BY <1>6, <1>7 DEF Surjection
<1>9. \E i \in I : Rank(I, key, i) = n
  BY <1>8 DEF R
<1>10. QED
  BY <1>9 DEF Nth

-----------------------------------------------------------------------------
\* The function place enumerates I by the keys.
Enumerates(place, I, key) ==
    /\ place \in [1 .. Cardinality(I) -> I]
    /\ \A i \in I : \E n \in 1 .. Cardinality(I) : place[n] = i
    /\ \A m, n \in 1 .. Cardinality(I) : m < n =>
          \/ key[place[m]] < key[place[n]]
          \/ (key[place[m]] = key[place[n]] /\ place[m] < place[n])

\* What is picked: every element of the places once, in the order of the keys.
LEMMA PickIsOrdered ==
    ASSUME NEW S, NEW s \in Seq(S), NEW I \in SUBSET DOMAIN s, NEW key \in [I -> Int]
    PROVE  /\ Pick(s, I, key) \in Seq(S)
           /\ Len(Pick(s, I, key)) = Cardinality(I) /\ Cardinality(I) \in Nat
           /\ \E place : /\ Enumerates(place, I, key)
                         /\ \A n \in 1 .. Cardinality(I) : Pick(s, I, key)[n] = s[place[n]]
<1> DEFINE N == 1 .. Cardinality(I)
           place == [n \in N |-> Nth(I, key, n)]
<1>1. DOMAIN s = 1 .. Len(s) /\ Len(s) \in Nat
  OBVIOUS
<1>2. I \in SUBSET Int /\ I \in SUBSET (1 .. Len(s))
  BY <1>1
<1>3. IsFiniteSet(1 .. Len(s))
  BY <1>1, FS_Interval
<1>4. IsFiniteSet(I)
  BY <1>2, <1>3, FS_Subset
<1>5. Cardinality(I) \in Nat
  BY <1>4, FS_CardinalityType
<1>6. \A n \in N : Nth(I, key, n) \in I /\ Rank(I, key, Nth(I, key, n)) = n
  BY <1>2, <1>4, EveryPlaceIsTaken
<1>7. place \in [N -> I]
  BY <1>6
<1>8. Pick(s, I, key) = [n \in N |-> s[place[n]]]
  BY DEF Pick
<1>9. \A n \in N : s[place[n]] \in S
  <2> TAKE n \in N
  <2>1. place[n] \in 1 .. Len(s)
    BY <1>2, <1>7
  <2>2. QED
    BY <2>1
<1> HIDE DEF place
<1>10. Pick(s, I, key) \in [1 .. Cardinality(I) -> S]
  BY <1>8, <1>9
<1>11. Pick(s, I, key) \in Seq(S) /\ Len(Pick(s, I, key)) = Cardinality(I)
  BY <1>5, <1>10
<1>12. \A i \in I : \E n \in N : place[n] = i
  <2> TAKE i \in I
  <2>1. Rank(I, key, i) \in N
    BY <1>2, <1>4, RankType
  <2> DEFINE n == Rank(I, key, i)
             j == Nth(I, key, n)
  <2>2. j \in I /\ Rank(I, key, j) = Rank(I, key, i) /\ Rank(I, key, i) \in Int
    BY <1>6, <2>1
  <2> HIDE DEF j
  <2>3. ~(key[i] < key[j] \/ (key[i] = key[j] /\ i < j))
    <3> SUFFICES ASSUME key[i] < key[j] \/ (key[i] = key[j] /\ i < j) PROVE FALSE
      OBVIOUS
    <3>1. Rank(I, key, i) < Rank(I, key, j)
      BY <1>2, <1>4, <2>2, RankIsStrict
    <3>2. QED
      BY <2>2, <3>1
  <2>4. ~(key[j] < key[i] \/ (key[j] = key[i] /\ j < i))
    <3> SUFFICES ASSUME key[j] < key[i] \/ (key[j] = key[i] /\ j < i) PROVE FALSE
      OBVIOUS
    <3>1. Rank(I, key, j) < Rank(I, key, i)
      BY <1>2, <1>4, <2>2, RankIsStrict
    <3>2. QED
      BY <2>2, <3>1
  <2>5. key[i] \in Int /\ key[j] \in Int /\ i \in Int /\ j \in Int
    BY <1>2, <2>2
  <2>6. i = j
    BY <2>3, <2>4, <2>5
  <2>7. QED
    BY <2>1, <2>6 DEF j, place
<1>13. \A m, n \in N : m < n =>
          \/ key[place[m]] < key[place[n]]
          \/ key[place[m]] = key[place[n]] /\ place[m] < place[n]
  <2> SUFFICES ASSUME NEW m \in N, NEW n \in N, m < n
               PROVE  \/ key[place[m]] < key[place[n]]
                      \/ key[place[m]] = key[place[n]] /\ place[m] < place[n]
    OBVIOUS
  <2> DEFINE i == place[m]
             j == place[n]
  <2>1. i \in I /\ j \in I /\ Rank(I, key, i) = m /\ Rank(I, key, j) = n
    BY <1>6 DEF place
  <2>2. m \in Int /\ n \in Int
    OBVIOUS
  <2> HIDE DEF i, j
  <2>3. i # j
    BY <2>1, <2>2
  <2>4. ~(key[j] < key[i] \/ (key[j] = key[i] /\ j < i))
    <3> SUFFICES ASSUME key[j] < key[i] \/ (key[j] = key[i] /\ j < i) PROVE FALSE
      OBVIOUS
    <3>1. Rank(I, key, j) < Rank(I, key, i)
      BY <1>2, <1>4, <2>1, RankIsStrict
    <3>2. QED
      BY <2>1, <2>2, <3>1
  <2>5. key[i] \in Int /\ key[j] \in Int /\ i \in Int /\ j \in Int
    BY <1>2, <2>1
  <2>6. key[i] < key[j] \/ (key[i] = key[j] /\ i < j)
    BY <2>3, <2>4, <2>5
  <2>7. QED
    BY <2>6 DEF i, j
<1>14. \A n \in N : Pick(s, I, key)[n] = s[place[n]]
  BY <1>8
<1>15. QED
  BY <1>5, <1>7, <1>11, <1>12, <1>13, <1>14 DEF Enumerates

LEMMA EnumeratesOnce ==
    ASSUME NEW I \in SUBSET Int, NEW key \in [I -> Int], NEW place, Enumerates(place, I, key),
           Cardinality(I) \in Nat,
           NEW m \in 1 .. Cardinality(I), NEW n \in 1 .. Cardinality(I), place[m] = place[n]
    PROVE  m = n
<1>0. place[m] \in I
  BY DEF Enumerates
<1>a. place[m] \in Int
  BY <1>0
<1>b. key[place[m]] \in Int
  BY <1>0
<1>c. m \in Int /\ n \in Int
  OBVIOUS
<1>2. ~(m < n) /\ ~(n < m)
  BY <1>a, <1>b DEF Enumerates
<1>3. QED
  BY <1>c, <1>2

LEMMA CardinalityUpTo ==
    ASSUME NEW n \in Nat
    PROVE  IsFiniteSet(1 .. n) /\ Cardinality(1 .. n) = n
<1>1. /\ IsFiniteSet(1 .. n)
      /\ Cardinality(1 .. n) = IF 1 > n THEN 0 ELSE n - 1 + 1
  BY FS_Interval
<1>2. QED
  BY <1>1

\* A finite set of numbers that is not empty has a greatest.
LEMMA GreatestExists ==
    ASSUME NEW S \in SUBSET Int, IsFiniteSet(S), S # {}
    PROVE  \E n \in S : \A m \in S : m <= n
<1> DEFINE key == [i \in S |-> i]
           last == Cardinality(S)
           top == Nth(S, key, last)
<1>1. Cardinality(S) \in Nat /\ Cardinality(S) # 0
  BY FS_CardinalityType, FS_EmptySet
<1>2. key \in [S -> Int] /\ last \in 1 .. Cardinality(S)
  BY <1>1
<1>3. top \in S /\ Rank(S, key, top) = last
  BY <1>2, EveryPlaceIsTaken
<1>4. \A m \in S : m <= top
  <2>0. top \in Int /\ \A m \in S : m \in Int
    BY <1>3
  <2> SUFFICES ASSUME NEW m \in S, top < m PROVE FALSE
    BY <2>0
  <2>1. key[top] < key[m]
    BY <1>3
  <2> HIDE DEF top, key
  <2>2. Rank(S, key, top) < Rank(S, key, m)
    BY <1>2, <1>3, <2>1, RankIsStrict
  <2>3. Rank(S, key, m) \in 1 .. Cardinality(S)
    BY <1>2, RankType
  <2>4. QED
    BY <1>1, <1>3, <2>2, <2>3
<1>5. QED
  BY <1>3, <1>4

-----------------------------------------------------------------------------
(* Induction.  What holds of 0 and of the number after every number it     *)
(* holds of holds of every number; P is the set of those it holds of.      *)

LEMMA LeastNumberExists ==
    ASSUME NEW S \in SUBSET Nat, S # {}
    PROVE  \E n \in S : \A m \in S : n <= m
<1>1. PICK m \in S : TRUE
  OBVIOUS
<1> DEFINE N == {m - k : k \in {k \in S : k <= m}}
<1>2. N \subseteq 0 .. m /\ m - m \in N
  OBVIOUS
<1>3. IsFiniteSet(0 .. m)
  BY FS_Interval
<1>4. PICK top \in N : \A d \in N : d <= top
  <2> HIDE DEF N
  <2>0. N \in SUBSET Int
    BY <1>2
  <2>1. IsFiniteSet(N) /\ N # {}
    BY <1>2, <1>3, FS_Subset
  <2>2. QED
    BY <2>0, <2>1, GreatestExists
<1>5. PICK n \in S : n <= m /\ top = m - n
  OBVIOUS
<1>6. \A k \in S : n <= k
  <2> SUFFICES ASSUME NEW k \in S, k < n PROVE FALSE
    OBVIOUS
  <2>1. m - k \in N
    BY <1>5
  <2>2. m - k <= m - n
    BY <1>4, <1>5, <2>1
  <2>3. QED
    BY <2>2
<1>7. QED
  BY <1>6

LEMMA Inductively ==
    ASSUME NEW n \in Nat, NEW P, 0 \in P, \A m \in 0 .. n - 1 : m \in P => m + 1 \in P
    PROVE  0 .. n \subseteq P
<1> SUFFICES ASSUME (0 .. n) \ P # {} PROVE FALSE
  OBVIOUS
<1>1. PICK m \in (0 .. n) \ P : \A k \in (0 .. n) \ P : m <= k
  BY LeastNumberExists, (0 .. n) \ P \in SUBSET Nat
<1>2. m # 0 /\ m - 1 \in 0 .. n - 1
  OBVIOUS
<1>3. m - 1 \in P
  BY <1>1, <1>2
<1>4. (m - 1) + 1 \in P
  BY <1>2, <1>3
<1>5. QED
  BY <1>4

LEMMA EveryNumber ==
    ASSUME NEW P, 0 \in P, \A m \in Nat : m \in P => m + 1 \in P
    PROVE  \A n \in Nat : n \in P
<1> SUFFICES ASSUME NEW n \in Nat PROVE n \in P
  OBVIOUS
<1>1. \A m \in 0 .. n - 1 : m \in P => m + 1 \in P
  OBVIOUS
<1>2. 0 .. n \subseteq P
  BY <1>1, Inductively
<1>3. QED
  BY <1>2

-----------------------------------------------------------------------------
(* Sums of f over finite sets, which SumFunctionOnSet takes one element    *)
(* after the other.                                                        *)
Numbers(f, A) == \A x \in A : f[x] \in Int

Summing(f, A, g) ==
    g = [T \in SUBSET A |-> IF T = {} THEN 0
                            ELSE f[CHOOSE x \in T : TRUE] + g[T \ {CHOOSE x \in T : TRUE}]]

Sums(f, A, g) == g \in [SUBSET A -> Int] /\ Summing(f, A, g)
Totals(f, A, g) == Sums(f, A, g) /\ \A B \in SUBSET A : SumFunctionOnSet(f, B) = g[B]

LEMMA SumUnfolds ==
    ASSUME NEW f, NEW A
    PROVE  SumFunctionOnSet(f, A) = (CHOOSE g : Summing(f, A, g))[A]
BY DEF SumFunctionOnSet, FoldFunctionOnSet, MapThenFoldSet, Summing

LEMMA OneLess ==
    ASSUME NEW T, IsFiniteSet(T), NEW n \in Nat, Cardinality(T) = n + 1, NEW x \in T
    PROVE  IsFiniteSet(T \ {x}) /\ Cardinality(T \ {x}) = n
<1>1. IsFiniteSet(T \ {x}) /\ Cardinality(T \ {x}) = Cardinality(T) - 1
  BY FS_RemoveElement
<1>2. QED
  BY <1>1

One(T) == CHOOSE x \in T : TRUE

\* There is such a function, whatever is summed.
LEMMA SumsExist ==
    ASSUME NEW A, IsFiniteSet(A), NEW f, Numbers(f, A)
    PROVE  \E g : Sums(f, A, g)
<1> DEFINE body(g) == [T \in SUBSET A |-> IF T = {} THEN 0 ELSE f[One(T)] + g[T \ {One(T)}]]
           upTo(n, g) == \A T \in SUBSET A : Cardinality(T) <= n => g[T] = body(g)[T]
           P == {n \in Nat : \E g \in [SUBSET A -> Int] : upTo(n, g)}
<1>1. \A T \in SUBSET A : IsFiniteSet(T) /\ Cardinality(T) \in Nat
  BY FS_Subset, FS_CardinalityType
<1>2. \A T \in SUBSET A : T # {} => One(T) \in T
  BY DEF One
<1>3. ASSUME NEW g \in [SUBSET A -> Int] PROVE body(g) \in [SUBSET A -> Int]
  BY <1>2 DEF Numbers
<1>4. 0 \in P
  <2> DEFINE g == [T \in SUBSET A |-> 0]
  <2>1. upTo(0, g)
    <3> SUFFICES ASSUME NEW T \in SUBSET A, Cardinality(T) <= 0 PROVE g[T] = body(g)[T]
      OBVIOUS
    <3>1. T = {}
      BY <1>1, FS_EmptySet
    <3>2. QED
      BY <3>1
  <2>2. g \in [SUBSET A -> Int]
    OBVIOUS
  <2>3. QED
    BY <2>1, <2>2
<1>5. ASSUME NEW n \in Nat, n \in P PROVE n + 1 \in P
  <2>1. PICK g \in [SUBSET A -> Int] : upTo(n, g)
    BY <1>5
  <2> DEFINE h == body(g)
  <2>2. upTo(n + 1, h)
    <3> SUFFICES ASSUME NEW T \in SUBSET A, Cardinality(T) <= n + 1 PROVE h[T] = body(h)[T]
      OBVIOUS
    <3>1. CASE T = {}
      BY <3>1
    <3>2. CASE T # {}
      <4> DEFINE U == T \ {One(T)}
      <4>1. One(T) \in T /\ U \in SUBSET A
        BY <1>2, <3>2
      <4>2. Cardinality(U) = Cardinality(T) - 1
        BY <1>1, <4>1, FS_RemoveElement
      <4>3. Cardinality(U) <= n
        BY <1>1, <4>2
      <4>4. g[U] = h[U]
        BY <2>1, <4>1, <4>3
      <4>5. QED
        BY <3>2, <4>1, <4>4
    <3>3. QED
      BY <3>1, <3>2
  <2>3. h \in [SUBSET A -> Int]
    BY <1>3
  <2> HIDE DEF h
  <2>4. \E k \in [SUBSET A -> Int] : upTo(n + 1, k)
    BY <2>2, <2>3
  <2>5. n + 1 \in Nat
    OBVIOUS
  <2>6. QED
    BY <2>4, <2>5
<1> DEFINE n == Cardinality(A)
<1>6. n \in Nat
  BY FS_CardinalityType
<1> HIDE DEF P
<1>7. n \in P
  BY <1>4, <1>5, <1>6, EveryNumber
<1>8. PICK g \in [SUBSET A -> Int] : upTo(n, g)
  BY <1>7 DEF P
<1>9. \A T \in SUBSET A : g[T] = body(g)[T]
  BY <1>1, <1>8, FS_Subset
<1>10. g = body(g)
  BY <1>9
<1>11. QED
  BY <1>10 DEF Sums, Summing, One

\* An element may be taken out of a sum, whichever it is.
LEMMA AnyElementFirst ==
    ASSUME NEW A, IsFiniteSet(A), NEW f, Numbers(f, A),
           NEW g, Sums(f, A, g)
    PROVE  \A T \in SUBSET A, x \in A : x \in T => g[T] = f[x] + g[T \ {x}]
<1> DEFINE P == {n \in Nat : \A T \in SUBSET A, x \in A :
                     Cardinality(T) = n /\ x \in T => g[T] = f[x] + g[T \ {x}]}
<1>1. \A T \in SUBSET A : IsFiniteSet(T) /\ Cardinality(T) \in Nat
  BY FS_Subset, FS_CardinalityType
<1>2. /\ g \in [SUBSET A -> Int]
      /\ \A T \in SUBSET A : T # {} => One(T) \in T /\ g[T] = f[One(T)] + g[T \ {One(T)}]
  BY DEF One, Sums, Summing
<1>3. 0 \in P
  BY <1>1, FS_EmptySet
<1>4. ASSUME NEW n \in Nat, n \in P PROVE n + 1 \in P
  <2> SUFFICES ASSUME NEW T \in SUBSET A, NEW x \in A, Cardinality(T) = n + 1, x \in T
               PROVE  g[T] = f[x] + g[T \ {x}]
    OBVIOUS
  <2> DEFINE y == One(T)
  <2>1. y \in T /\ g[T] = f[y] + g[T \ {y}]
    BY <1>2
  <2> HIDE DEF y
  <2>2. CASE x = y
    BY <2>1, <2>2
  <2>3. CASE x # y
    <3> DEFINE X == T \ {x}
               Y == T \ {y}
               B == T \ {x, y}
    <3>1. Cardinality(X) = n /\ Cardinality(Y) = n
      BY <1>1, <2>1, OneLess
    <3>2. X \in SUBSET A /\ Y \in SUBSET A /\ x \in Y /\ y \in X /\ y \in A
      BY <2>1, <2>3
    <3>3. X \ {y} = B /\ Y \ {x} = B /\ B \in SUBSET A
      OBVIOUS
    <3>4. g[Y] = f[x] + g[Y \ {x}]
      BY <1>4, <3>1, <3>2
    <3>5. g[X] = f[y] + g[X \ {y}]
      BY <1>4, <3>1, <3>2
    <3> HIDE DEF B, X, Y
    <3>6. f[x] \in Int /\ f[y] \in Int /\ g[B] \in Int
      BY <1>2, <3>2, <3>3 DEF Numbers
    <3>7. g[T] = f[y] + g[Y]
      BY <2>1 DEF Y
    <3>a. g[Y] = f[x] + g[B] /\ g[X] = f[y] + g[B]
      BY <3>3, <3>4, <3>5
    <3>8. g[T] = f[x] + g[X]
      BY <3>6, <3>7, <3>a
    <3>9. QED
      BY <3>8 DEF X
  <2>4. QED
    BY <2>2, <2>3
<1> HIDE DEF P
<1>5. \A n \in Nat : n \in P
  BY <1>3, <1>4, EveryNumber
<1>6. QED
  BY <1>1, <1>5 DEF P

\* Sums over the subsets of a set do not depend on the set.
LEMMA SumsAgree ==
    ASSUME NEW A, IsFiniteSet(A), NEW f, Numbers(f, A),
           NEW g, Sums(f, A, g),
           NEW B \in SUBSET A, NEW h, Summing(f, B, h)
    PROVE  \A T \in SUBSET B : g[T] = h[T]
<1> DEFINE P == {n \in Nat : \A T \in SUBSET B : Cardinality(T) = n => g[T] = h[T]}
<1>1. \A T \in SUBSET B : IsFiniteSet(T) /\ Cardinality(T) \in Nat
  BY FS_Subset, FS_CardinalityType
<1>2. \A T \in SUBSET B : T = {} => g[T] = 0 /\ h[T] = 0
  BY DEF Sums, Summing
<1>3. \A T \in SUBSET B : T # {} =>
          One(T) \in T /\ g[T] = f[One(T)] + g[T \ {One(T)}] /\ h[T] = f[One(T)] + h[T \ {One(T)}]
  BY DEF One, Sums, Summing
<1>4. 0 \in P
  BY <1>1, <1>2, FS_EmptySet
<1>5. ASSUME NEW n \in Nat, n \in P PROVE n + 1 \in P
  <2> SUFFICES ASSUME NEW T \in SUBSET B, Cardinality(T) = n + 1 PROVE g[T] = h[T]
    OBVIOUS
  <2>1. T # {}
    BY <1>1, FS_EmptySet
  <2>2. One(T) \in T
    BY <1>3, <2>1
  <2>3. Cardinality(T \ {One(T)}) = n /\ T \ {One(T)} \in SUBSET B
    BY <1>1, <2>2, OneLess
  <2>4. g[T \ {One(T)}] = h[T \ {One(T)}]
    BY <1>5, <2>3
  <2>5. QED
    BY <1>3, <2>1, <2>4
<1> HIDE DEF P
<1>6. \A n \in Nat : n \in P
  BY <1>4, <1>5, EveryNumber
<1>7. QED
  BY <1>1, <1>6 DEF P

LEMMA SumIs ==
    ASSUME NEW A, IsFiniteSet(A), NEW f, Numbers(f, A)
    PROVE  \E g : Totals(f, A, g)
<1>1. PICK g : Sums(f, A, g)
  BY SumsExist
<1>2. ASSUME NEW B \in SUBSET A PROVE SumFunctionOnSet(f, B) = g[B]
  <2> DEFINE h == CHOOSE h : Summing(f, B, h)
  <2>1. IsFiniteSet(B) /\ Numbers(f, B)
    BY FS_Subset DEF Numbers
  <2>2. PICK k : Sums(f, B, k)
    BY <2>1, SumsExist
  <2>3. Summing(f, B, h)
    BY <2>2 DEF Sums
  <2>4. SumFunctionOnSet(f, B) = h[B]
    BY SumUnfolds
  <2> HIDE DEF h
  <2>5. \A T \in SUBSET B : g[T] = h[T]
    BY <1>1, <2>3, SumsAgree
  <2>6. QED
    BY <2>4, <2>5
<1>3. QED
  BY <1>1, <1>2 DEF Totals

LEMMA SumType ==
    ASSUME NEW A, IsFiniteSet(A), NEW f, Numbers(f, A)
    PROVE  SumFunctionOnSet(f, A) \in Int
<1>1. PICK g : Totals(f, A, g)
  BY SumIs
<1>2. QED
  BY <1>1 DEF Totals, Sums

LEMMA SumOfNone ==
    ASSUME NEW f
    PROVE  SumFunctionOnSet(f, {}) = 0
<1>1. IsFiniteSet({}) /\ Numbers(f, {})
  BY FS_EmptySet DEF Numbers
<1>2. PICK g : Totals(f, {}, g)
  BY <1>1, SumIs
<1>3. QED
  BY <1>2 DEF Totals, Sums, Summing

LEMMA SumTakesOut ==
    ASSUME NEW A, IsFiniteSet(A), NEW f, Numbers(f, A), NEW x \in A
    PROVE  SumFunctionOnSet(f, A) = f[x] + SumFunctionOnSet(f, A \ {x})
<1>1. PICK g : Totals(f, A, g)
  BY SumIs
<1>2. Sums(f, A, g) /\ \A B \in SUBSET A : SumFunctionOnSet(f, B) = g[B]
  BY <1>1 DEF Totals
<1>3. g[A] = f[x] + g[A \ {x}]
  BY <1>2, AnyElementFirst
<1>4. QED
  BY <1>2, <1>3

\* Two sums are the same if their terms are, in whatever order.
LEMMA SumRenames ==
    ASSUME NEW P, IsFiniteSet(P), NEW at, NEW f, NEW g,
           \A p \in P : g[p] \in Int /\ g[p] = f[at[p]],
           \A p, q \in P : at[p] = at[q] => p = q
    PROVE  SumFunctionOnSet(g, P) = SumFunctionOnSet(f, {at[p] : p \in P})
<1> DEFINE image(Q) == {at[p] : p \in Q}
           N == {n \in Nat : \A Q \in SUBSET P : Cardinality(Q) = n =>
                     SumFunctionOnSet(g, Q) = SumFunctionOnSet(f, image(Q))}
<1>1. \A Q \in SUBSET P : IsFiniteSet(Q) /\ Cardinality(Q) \in Nat
  BY FS_Subset, FS_CardinalityType
<1>2. 0 \in N
  <2> SUFFICES ASSUME NEW Q \in SUBSET P, Cardinality(Q) = 0
               PROVE  SumFunctionOnSet(g, Q) = SumFunctionOnSet(f, image(Q))
    OBVIOUS
  <2>1. Q = {}
    BY <1>1, FS_EmptySet
  <2>2. image(Q) = {}
    BY <2>1
  <2> HIDE DEF image
  <2>3. QED
    BY <2>1, <2>2, SumOfNone
<1>3. ASSUME NEW n \in Nat, n \in N PROVE n + 1 \in N
  <2> SUFFICES ASSUME NEW Q \in SUBSET P, Cardinality(Q) = n + 1
               PROVE  SumFunctionOnSet(g, Q) = SumFunctionOnSet(f, image(Q))
    OBVIOUS
  <2>1. Q # {}
    BY <1>1, FS_EmptySet
  <2>2. PICK q \in Q : TRUE
    BY <2>1
  <2> DEFINE R == Q \ {q}
  <2>3. R \in SUBSET P /\ Cardinality(R) = n
    BY <1>1, OneLess
  <2>4. SumFunctionOnSet(g, R) = SumFunctionOnSet(f, image(R))
    BY <1>3, <2>3
  <2>5. image(R) = image(Q) \ {at[q]} /\ at[q] \in image(Q)
    OBVIOUS
  <2>6. IsFiniteSet(image(Q)) /\ Numbers(f, image(Q))
    <3> DEFINE h == [p \in Q |-> at[p]]
    <3>1. h \in Surjection(Q, image(Q))
      BY DEF Surjection
    <3>2. Numbers(f, image(Q))
      BY DEF Numbers
    <3> HIDE DEF h, image
    <3>3. IsFiniteSet(image(Q))
      BY <1>1, <3>1, FS_Surjection
    <3>4. QED
      BY <3>2, <3>3
  <2>a. Numbers(g, Q)
    BY DEF Numbers
  <2>7. SumFunctionOnSet(g, Q) = g[q] + SumFunctionOnSet(g, R)
    BY <1>1, <2>a, SumTakesOut
  <2> DEFINE Y == image(Q)
  <2>c. at[q] \in Y /\ IsFiniteSet(Y) /\ Numbers(f, Y) /\ image(R) = Y \ {at[q]}
    BY <2>5, <2>6
  <2> HIDE DEF image, Y, R
  <2>d. SumFunctionOnSet(f, Y) = f[at[q]] + SumFunctionOnSet(f, Y \ {at[q]})
    BY <2>c, SumTakesOut
  <2>8. SumFunctionOnSet(f, image(Q)) = f[at[q]] + SumFunctionOnSet(f, image(R))
    BY <2>c, <2>d DEF Y
  <2>9. QED
    BY <2>4, <2>7, <2>8
<1> HIDE DEF N
<1>4. \A n \in Nat : n \in N
  BY <1>2, <1>3, EveryNumber
<1>5. QED
  BY <1>1, <1>4 DEF N

\* A running sum is the sum up to a place and what comes after it.
LEMMA SumsUp ==
    ASSUME NEW B, IsFiniteSet(B), NEW A, IsFiniteSet(A), A \cap B = {},
           NEW f, Numbers(f, A \cup B)
    PROVE  SumFunctionOnSet(f, A \cup B) = SumFunctionOnSet(f, A) + SumFunctionOnSet(f, B)
<1> DEFINE N == {n \in Nat : \A C \in SUBSET B : Cardinality(C) = n =>
                    SumFunctionOnSet(f, A \cup C) = SumFunctionOnSet(f, A) + SumFunctionOnSet(f, C)}
<1>1. \A C \in SUBSET B : IsFiniteSet(C) /\ Cardinality(C) \in Nat
  BY FS_Subset, FS_CardinalityType
<1>a. Numbers(f, A) /\ \A C \in SUBSET B : Numbers(f, C) /\ Numbers(f, A \cup C)
  BY DEF Numbers
<1>2. SumFunctionOnSet(f, A) \in Int /\ \A C \in SUBSET B : SumFunctionOnSet(f, C) \in Int
  BY <1>1, <1>a, SumType
<1>3. 0 \in N
  <2> SUFFICES ASSUME NEW C \in SUBSET B, Cardinality(C) = 0
               PROVE  SumFunctionOnSet(f, A \cup C) = SumFunctionOnSet(f, A) + SumFunctionOnSet(f, C)
    OBVIOUS
  <2>1. C = {} /\ A \cup C = A
    BY <1>1, FS_EmptySet
  <2>2. QED
    BY <1>2, <2>1, SumOfNone
<1>4. ASSUME NEW n \in Nat, n \in N PROVE n + 1 \in N
  <2> SUFFICES ASSUME NEW C \in SUBSET B, Cardinality(C) = n + 1
               PROVE  SumFunctionOnSet(f, A \cup C) = SumFunctionOnSet(f, A) + SumFunctionOnSet(f, C)
    OBVIOUS
  <2>1. C # {}
    BY <1>1, FS_EmptySet
  <2>2. PICK c \in C : TRUE
    BY <2>1
  <2> DEFINE D == C \ {c}
  <2>3. D \in SUBSET B /\ Cardinality(D) = n
    BY <1>1, OneLess
  <2>4. SumFunctionOnSet(f, A \cup D) = SumFunctionOnSet(f, A) + SumFunctionOnSet(f, D)
    BY <1>4, <2>3
  <2>5. (A \cup C) \ {c} = A \cup D /\ c \in A \cup C
    OBVIOUS
  <2>6. IsFiniteSet(A \cup C) /\ Numbers(f, A \cup C)
    BY <1>1, <1>a, FS_Union
  <2>7. SumFunctionOnSet(f, A \cup C) = f[c] + SumFunctionOnSet(f, A \cup D)
    BY <2>5, <2>6, SumTakesOut
  <2>8. SumFunctionOnSet(f, C) = f[c] + SumFunctionOnSet(f, D)
    BY <1>1, <1>a, SumTakesOut
  <2>9. f[c] \in Int /\ SumFunctionOnSet(f, D) \in Int
    BY <1>2, <2>3 DEF Numbers
  <2> HIDE DEF D
  <2>10. QED
    BY <1>2, <2>4, <2>7, <2>8, <2>9
<1> HIDE DEF N
<1>5. \A n \in Nat : n \in N
  BY <1>3, <1>4, EveryNumber
<1>6. QED
  BY <1>1, <1>5 DEF N

Counts(f, A) == \A x \in A : f[x] \in Nat

\* What counts sum up to is a count, and a part of them sums up to no more.
LEMMA SumIsNatural ==
    ASSUME NEW A, IsFiniteSet(A), NEW f, Counts(f, A)
    PROVE  SumFunctionOnSet(f, A) \in Nat
<1> DEFINE P == {n \in Nat : \A B \in SUBSET A : Cardinality(B) = n => SumFunctionOnSet(f, B) \in Nat}
<1>1. \A B \in SUBSET A : IsFiniteSet(B) /\ Cardinality(B) \in Nat /\ Numbers(f, B)
  BY FS_Subset, FS_CardinalityType DEF Numbers, Counts
<1>2. 0 \in P
  <2> SUFFICES ASSUME NEW B \in SUBSET A, Cardinality(B) = 0 PROVE SumFunctionOnSet(f, B) \in Nat
    OBVIOUS
  <2>1. B = {}
    BY <1>1, FS_EmptySet
  <2>2. SumFunctionOnSet(f, {}) = 0
    BY SumOfNone
  <2>3. QED
    BY <2>1, <2>2
<1>3. ASSUME NEW n \in Nat, n \in P PROVE n + 1 \in P
  <2> SUFFICES ASSUME NEW B \in SUBSET A, Cardinality(B) = n + 1 PROVE SumFunctionOnSet(f, B) \in Nat
    OBVIOUS
  <2>1. B # {}
    <3>1. Cardinality({}) = 0
      BY FS_EmptySet
    <3>2. n + 1 # 0
      OBVIOUS
    <3>3. QED
      BY <3>1, <3>2
  <2>2. PICK x \in B : TRUE
    BY <2>1
  <2>3. IsFiniteSet(B \ {x}) /\ Cardinality(B \ {x}) = n
    BY <1>1, <2>2, OneLess
  <2>4. SumFunctionOnSet(f, B) = f[x] + SumFunctionOnSet(f, B \ {x})
    BY <1>1, <2>2, SumTakesOut
  <2>5. SumFunctionOnSet(f, B \ {x}) \in Nat
    BY <1>3, <2>3
  <2>6. f[x] \in Nat
    BY <2>2 DEF Counts
  <2>7. QED
    BY <2>4, <2>5, <2>6
<1>4. Cardinality(A) \in Nat
  BY FS_CardinalityType
<1> HIDE DEF P
<1>5. Cardinality(A) \in P
  BY <1>2, <1>3, <1>4, EveryNumber
<1>6. QED
  BY <1>5 DEF P

LEMMA SumOfPart ==
    ASSUME NEW A, IsFiniteSet(A), NEW f, Counts(f, A), NEW B \in SUBSET A
    PROVE  SumFunctionOnSet(f, B) <= SumFunctionOnSet(f, A)
<1> DEFINE C == A \ B
<1>1. IsFiniteSet(B) /\ IsFiniteSet(C) /\ B \cap C = {} /\ B \cup C = A
  BY FS_Subset
<1>2. Counts(f, B) /\ Counts(f, C) /\ Numbers(f, B \cup C)
  BY <1>1 DEF Counts, Numbers
<1> HIDE DEF C
<1>3. SumFunctionOnSet(f, B \cup C) = SumFunctionOnSet(f, B) + SumFunctionOnSet(f, C)
  BY <1>1, <1>2, SumsUp
<1>4. SumFunctionOnSet(f, B) \in Nat /\ SumFunctionOnSet(f, C) \in Nat
  BY <1>1, <1>2, SumIsNatural
<1> DEFINE x == SumFunctionOnSet(f, B)
           y == SumFunctionOnSet(f, C)
<1>5. SumFunctionOnSet(f, A) = x + y
  BY <1>1, <1>3
<1>6. x \in Nat /\ y \in Nat
  BY <1>4
<1> HIDE DEF x, y
<1>7. x <= x + y
  BY <1>6
<1>8. QED
  BY <1>5, <1>7 DEF x

-----------------------------------------------------------------------------
(* What is built up one element after the other.                           *)

\* Whatever is built, if every step stays inside V there is a function that
\* builds it from every subset.
Chooses(first, D) == \A T \in SUBSET D : T # {} => first[T] \in T
StaysIn(V, step, D) == \A v \in V, d \in D : step[<<v, d>>] \in V
Folding(g, D, b, first, step) ==
    g = [T \in SUBSET D |-> IF T = {} THEN b ELSE step[<<g[T \ {first[T]}], first[T]>>]]

LEMMA FoldsExist ==
    ASSUME NEW D, IsFiniteSet(D), NEW V, NEW b \in V, NEW first, Chooses(first, D),
           NEW step, StaysIn(V, step, D)
    PROVE  \E g \in [SUBSET D -> V] : Folding(g, D, b, first, step)
<1> DEFINE body(g) == [T \in SUBSET D |-> IF T = {} THEN b ELSE step[<<g[T \ {first[T]}], first[T]>>]]
           upTo(n, g) == \A T \in SUBSET D : Cardinality(T) <= n => g[T] = body(g)[T]
           P == {n \in Nat : \E g \in [SUBSET D -> V] : upTo(n, g)}
<1>1. \A T \in SUBSET D : IsFiniteSet(T) /\ Cardinality(T) \in Nat
  BY FS_Subset, FS_CardinalityType
<1>2. \A T \in SUBSET D : T # {} => first[T] \in T
  BY DEF Chooses
<1>3. ASSUME NEW g \in [SUBSET D -> V] PROVE body(g) \in [SUBSET D -> V]
  <2> SUFFICES ASSUME NEW T \in SUBSET D, T # {} PROVE step[<<g[T \ {first[T]}], first[T]>>] \in V
    OBVIOUS
  <2>1. first[T] \in D /\ T \ {first[T]} \in SUBSET D
    BY <1>2
  <2>2. g[T \ {first[T]}] \in V
    BY <2>1
  <2>3. QED
    BY <2>1, <2>2 DEF StaysIn
<1>4. 0 \in P
  <2> DEFINE g == [T \in SUBSET D |-> b]
  <2>1. upTo(0, g)
    <3> SUFFICES ASSUME NEW T \in SUBSET D, Cardinality(T) <= 0 PROVE g[T] = body(g)[T]
      OBVIOUS
    <3>1. T = {}
      BY <1>1, FS_EmptySet
    <3>2. QED
      BY <3>1
  <2>2. g \in [SUBSET D -> V]
    OBVIOUS
  <2>3. QED
    BY <2>1, <2>2
<1>5. ASSUME NEW n \in Nat, n \in P PROVE n + 1 \in P
  <2>1. PICK g \in [SUBSET D -> V] : upTo(n, g)
    BY <1>5
  <2> DEFINE h == body(g)
  <2>2. upTo(n + 1, h)
    <3> SUFFICES ASSUME NEW T \in SUBSET D, Cardinality(T) <= n + 1 PROVE h[T] = body(h)[T]
      OBVIOUS
    <3>1. CASE T = {}
      BY <3>1
    <3>2. CASE T # {}
      <4> DEFINE U == T \ {first[T]}
      <4>1. first[T] \in T /\ U \in SUBSET D
        BY <1>2, <3>2
      <4>2. Cardinality(U) = Cardinality(T) - 1
        BY <1>1, <4>1, FS_RemoveElement
      <4>3. Cardinality(U) <= n
        BY <1>1, <4>2
      <4>4. g[U] = h[U]
        BY <2>1, <4>1, <4>3
      <4>5. QED
        BY <3>2, <4>1, <4>4
    <3>3. QED
      BY <3>1, <3>2
  <2>3. h \in [SUBSET D -> V]
    BY <1>3
  <2> HIDE DEF h
  <2>4. \E k \in [SUBSET D -> V] : upTo(n + 1, k)
    BY <2>2, <2>3
  <2>5. n + 1 \in Nat
    OBVIOUS
  <2>6. QED
    BY <2>4, <2>5
<1> DEFINE n == Cardinality(D)
<1>6. n \in Nat
  BY FS_CardinalityType
<1> HIDE DEF P
<1>7. n \in P
  BY <1>4, <1>5, <1>6, EveryNumber
<1>8. PICK g \in [SUBSET D -> V] : upTo(n, g)
  BY <1>7 DEF P
<1>9. \A T \in SUBSET D : g[T] = body(g)[T]
  BY <1>1, <1>8, FS_Subset
<1>10. g = body(g)
  BY <1>9
<1>11. QED
  BY <1>10 DEF Folding

\* A function by recursion over 1 .. N.
LEMMA StepsExist ==
    ASSUME NEW N \in Nat, NEW V, NEW b \in V,
           NEW step, StaysIn(V, step, 1 .. N)
    PROVE  \E g \in [0 .. N -> V] : g[0] = b /\ \A n \in 1 .. N : g[n] = step[<<g[n - 1], n>>]
<1> DEFINE D == 1 .. N
           top(T) == CHOOSE x \in T : \A y \in T : y <= x
           first == [T \in SUBSET D |-> top(T)]
<1>1. IsFiniteSet(D)
  BY CardinalityUpTo
<1>2. \A T \in SUBSET D : T # {} => first[T] \in T
  <2> SUFFICES ASSUME NEW T \in SUBSET D, T # {} PROVE \E x \in T : \A y \in T : y <= x
    OBVIOUS
  <2>1. T \in SUBSET Int
    OBVIOUS
  <2>2. IsFiniteSet(T)
    BY <1>1, FS_Subset
  <2>3. QED
    BY <2>1, <2>2, GreatestExists
<1>3. \A n \in 1 .. N : (1 .. n) \in SUBSET D /\ 1 .. n # {} /\ first[1 .. n] = n /\ (1 .. n) \ {n} = 1 .. n - 1
  <2> SUFFICES ASSUME NEW n \in 1 .. N
               PROVE  (1 .. n) \in SUBSET D /\ 1 .. n # {} /\ first[1 .. n] = n /\ (1 .. n) \ {n} = 1 .. n - 1
    OBVIOUS
  <2>1. (1 .. n) \in SUBSET D /\ 1 .. n # {} /\ (1 .. n) \ {n} = 1 .. n - 1
    OBVIOUS
  <2>2. n \in 1 .. n /\ \A y \in 1 .. n : y <= n
    OBVIOUS
  <2>3. top(1 .. n) \in 1 .. n /\ n <= top(1 .. n)
    BY <2>2
  <2>4. top(1 .. n) = n
    BY <2>3
  <2>5. QED
    BY <2>1, <2>4
<1> HIDE DEF first
<1>4. Chooses(first, D) /\ StaysIn(V, step, D)
  BY <1>2 DEF Chooses
<1>5. PICK g \in [SUBSET D -> V] : Folding(g, D, b, first, step)
  BY <1>1, <1>4, FoldsExist
<1>6. \A T \in SUBSET D : g[T] = IF T = {} THEN b ELSE step[<<g[T \ {first[T]}], first[T]>>]
  BY <1>5 DEF Folding
<1> DEFINE h == [n \in 0 .. N |-> g[1 .. n]]
<1>7. \A n \in 0 .. N : (1 .. n) \in SUBSET D
  OBVIOUS
<1>8. h \in [0 .. N -> V]
  BY <1>5, <1>7
<1>9. h[0] = b
  <2>1. 0 \in 0 .. N /\ 1 .. 0 = {}
    OBVIOUS
  <2>2. QED
    BY <1>6, <2>1
<1>10. \A n \in 1 .. N : h[n] = step[<<h[n - 1], n>>]
  <2> SUFFICES ASSUME NEW n \in 1 .. N PROVE h[n] = step[<<h[n - 1], n>>]
    OBVIOUS
  <2>1. n \in 0 .. N /\ n - 1 \in 0 .. N
    OBVIOUS
  <2> DEFINE T == 1 .. n
             U == 1 .. n - 1
  <2>2. T \in SUBSET D /\ T # {} /\ first[T] = n /\ T \ {n} = U
    BY <1>3
  <2> HIDE DEF T, U
  <2>3. g[T] = step[<<g[T \ {first[T]}], first[T]>>]
    BY <1>6, <2>2
  <2>4. g[T] = step[<<g[U], n>>]
    BY <2>2, <2>3
  <2>5. g[1 .. n] = step[<<g[1 .. n - 1], n>>]
    BY <2>4 DEF T, U
  <2>6. QED
    BY <2>1, <2>5
<1>11. QED
  BY <1>8, <1>9, <1>10
=============================================================================
