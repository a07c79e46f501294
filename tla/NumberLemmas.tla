----------------------------- MODULE NumberLemmas -----------------------------
(***************************************************************************)
(* What the provers do not know of numbers and the models use: division    *)
(* with remainder by a constant without a value (rings, frames, keys), and *)
(* the elements of a set in ascending order (maps, batches).               *)
(***************************************************************************)
EXTENDS AscendingOrder, FiniteSetTheorems, SequenceTheorems, WellFoundedInduction, TLAPS

-----------------------------------------------------------------------------
(* Division with remainder                                                  *)

\* Quotient and remainder of a positive divisor.
LEMMA DivMod ==
  ASSUME NEW a \in Int, NEW n \in Nat, n >= 1
  PROVE  /\ a \div n \in Int /\ a % n \in 0 .. n - 1
         /\ a = n * (a \div n) + (a % n)
  BY SMT

\* Quotient and remainder are unique.
LEMMA DivModUnique ==
  ASSUME NEW n \in Nat, n >= 1, NEW q \in Int, NEW p \in Int,
         NEW s \in 0 .. n - 1, NEW t \in 0 .. n - 1, n * q + s = n * p + t
  PROVE  q = p /\ s = t
<1>1. n * (q - p) = t - s
  BY SMT
<1>2. CASE q > p
  <2>1. n * (q - p) >= n
    BY <1>2, SMT
  <2> QED
    BY <1>1, <2>1, SMT
<1>3. CASE q < p
  <2>1. n * (p - q) >= n
    BY <1>3, SMT
  <2>2. n * (p - q) = s - t
    BY <1>1, SMT
  <2> QED
    BY <2>1, <2>2, SMT
<1> QED
  BY <1>1, <1>2, <1>3, SMT

\* A multiple and a remainder are taken apart again.
LEMMA DivModOfSum ==
  ASSUME NEW n \in Nat, n >= 1, NEW q \in Int, NEW s \in 0 .. n - 1
  PROVE  (n * q + s) \div n = q /\ (n * q + s) % n = s
<1> DEFINE m == n * q + s
<1>1. m \in Int
  BY SMT
<1>2. /\ m \div n \in Int /\ m % n \in 0 .. n - 1
      /\ m = n * (m \div n) + (m % n)
  <2> HIDE DEF m
  <2> QED
    BY <1>1, DivMod
<1>3. n * q + s = n * (m \div n) + (m % n)
  BY <1>2
<1> HIDE DEF m
<1>4. q = m \div n /\ s = m % n
  BY <1>2, <1>3, DivModUnique
<1> QED
  BY <1>4 DEF m

\* Multiplying by a positive number keeps the order.
LEMMA TimesMonotone ==
  ASSUME NEW n \in Nat, n >= 1, NEW a \in Int, NEW b \in Int, n * a <= n * b
  PROVE  a <= b
<1>1. SUFFICES ASSUME a > b PROVE FALSE
  OBVIOUS
<1>2. n * (a - b) >= n
  BY <1>1, SMT
<1>3. n * (a - b) = n * a - n * b
  BY SMT
<1> QED
  BY <1>2, <1>3, SMT

\* The quotient of a natural number is a natural number.
LEMMA DivisionOfNat ==
  ASSUME NEW a \in Nat, NEW n \in Nat, n >= 1
  PROVE  a \div n \in Nat
<1>1. a \div n \in Int
  BY DivMod
<1>2. a = n * (a \div n) + (a % n) /\ a % n \in 0 .. n - 1
  BY DivMod
<1> DEFINE q == a \div n
           m == a % n
<1>3. q \in Int /\ m \in 0 .. n - 1 /\ a = n * q + m
  BY <1>1, <1>2
<1> HIDE DEF q, m
<1>4. q >= 0
  <2>1. SUFFICES ASSUME q <= -1 PROVE FALSE
    BY <1>3
  <2>2. n * (-q) >= n
    BY <1>3, <2>1, SMT
  <2>3. n * q = - (n * (-q))
    BY <1>3, SMT
  <2> QED
    BY <1>3, <2>2, <2>3, SMT
<1> QED
  BY <1>3, <1>4 DEF q

-----------------------------------------------------------------------------
(* Ascending order                                                          *)

\* A set of numbers that is not empty has a least one.
LEMMA LeastNumber ==
  ASSUME NEW S \in SUBSET Nat, S # {}
  PROVE  \E n \in S : \A m \in S : n <= m
<1> DEFINE R == OpToRel(<, Nat)
<1>1. IsWellFoundedOn(R, Nat)
  BY NatLessThanWellFounded
<1> HIDE DEF R
<1>2. PICK n \in S : \A m \in S : <<m, n>> \notin R
  BY <1>1, WFMin
<1>3. \A m \in S : ~(m < n)
  BY <1>2 DEF R, OpToRel
<1> QED
  BY <1>2, <1>3

\* The rank of an element is a number between 1 and that of the elements.
LEMMA RankRange ==
  ASSUME NEW S \in SUBSET Int, IsFiniteSet(S), NEW x \in S
  PROVE  Rank(S, x) \in 1 .. Cardinality(S) /\ Cardinality(S) \in Nat
<1> DEFINE below == {y \in S : y <= x}
<1>1. below \in SUBSET S /\ x \in below
  OBVIOUS
<1> HIDE DEF below
<1>2. IsFiniteSet(below) /\ Cardinality(below) <= Cardinality(S)
  BY <1>1, FS_Subset
<1>3. Cardinality(below) \in Nat /\ Cardinality(S) \in Nat
  BY <1>2, FS_CardinalityType
<1>4. Cardinality(below) # 0
  BY <1>1, <1>2, FS_EmptySet
<1>5. Rank(S, x) = Cardinality(below)
  BY DEF Rank, below
<1> QED
  BY <1>2, <1>3, <1>4, <1>5

\* A greater element has a greater rank.
LEMMA RankGrows ==
  ASSUME NEW S \in SUBSET Int, IsFiniteSet(S), NEW x \in S, NEW y \in S, x < y
  PROVE  Rank(S, x) < Rank(S, y)
<1> DEFINE low == {z \in S : z <= x}
           high == {z \in S : z <= y}
<1>1. low \in SUBSET high /\ high \in SUBSET S /\ low # high
  <2>1. ASSUME NEW z \in S, z <= x PROVE z <= y
    <3>1. x \in Int /\ y \in Int /\ z \in Int
      OBVIOUS
    <3> QED
      BY <2>1, <3>1
  <2>2. y \in high /\ y \notin low
    <3>1. x \in Int /\ y \in Int
      OBVIOUS
    <3>2. y <= y /\ ~(y <= x)
      BY <3>1
    <3> QED
      BY <3>2
  <2> QED
    BY <2>1, <2>2
<1>2. Rank(S, x) = Cardinality(low) /\ Rank(S, y) = Cardinality(high)
  BY DEF Rank
<1> HIDE DEF low, high
<1>3. IsFiniteSet(high)
  BY <1>1, FS_Subset
<1>4. IsFiniteSet(low) /\ Cardinality(low) <= Cardinality(high) /\ Cardinality(low) # Cardinality(high)
  BY <1>1, <1>3, FS_Subset
<1>5. Cardinality(low) \in Nat /\ Cardinality(high) \in Nat
  BY <1>3, <1>4, FS_CardinalityType
<1> QED
  BY <1>2, <1>4, <1>5

\* Every number up to that of the elements is the rank of one.
LEMMA RankMet ==
  ASSUME NEW S \in SUBSET Int, IsFiniteSet(S), NEW k \in 1 .. Cardinality(S)
  PROVE  \E x \in S : Rank(S, x) = k
<1> DEFINE n == Cardinality(S)
           f == [x \in S |-> Rank(S, x)]
<1>1. n \in Nat
  BY FS_CardinalityType
<1>2. f \in [S -> 1 .. n]
  BY RankRange
<1>3. \A x, y \in S : f[x] = f[y] => x = y
  <2> SUFFICES ASSUME NEW x \in S, NEW y \in S, x # y PROVE f[x] # f[y]
    OBVIOUS
  <2>1. Rank(S, x) \in Int /\ Rank(S, y) \in Int
    BY RankRange
  <2>2. x < y \/ y < x
    OBVIOUS
  <2> QED
    BY <2>1, <2>2, RankGrows
<1>4. IsFiniteSet(1 .. n) /\ Cardinality(1 .. n) = n
  BY <1>1, FS_Interval
<1> HIDE DEF f
<1>5. f \in Injection(S, 1 .. n)
  BY <1>2, <1>3 DEF Injection, IsInjective
<1>6. f \in Surjection(S, 1 .. n)
  BY <1>4, <1>5, FS_Injection
<1>7. PICK x \in S : f[x] = k
  BY <1>6 DEF Surjection
<1> QED
  BY <1>7 DEF f

\* Ascending(S) has every element of S once and in order.
LEMMA AscendingSorts ==
  ASSUME NEW S \in SUBSET Int, IsFiniteSet(S)
  PROVE  /\ Cardinality(S) \in Nat
         /\ Ascending(S) \in [1 .. Cardinality(S) -> S]
         /\ \A i, j \in 1 .. Cardinality(S) : i < j => Ascending(S)[i] < Ascending(S)[j]
         /\ \A x \in S : Rank(S, x) \in 1 .. Cardinality(S) /\ Ascending(S)[Rank(S, x)] = x
         /\ \A i \in 1 .. Cardinality(S) : Rank(S, Ascending(S)[i]) = i
<1> DEFINE n == Cardinality(S)
           t == Ascending(S)
<1>1. n \in Nat
  BY FS_CardinalityType
<1>2. \A k \in 1 .. n : t[k] \in S /\ Rank(S, t[k]) = k
  <2> SUFFICES ASSUME NEW k \in 1 .. n PROVE t[k] \in S /\ Rank(S, t[k]) = k
    OBVIOUS
  <2>1. t[k] = CHOOSE x \in S : Rank(S, x) = k
    BY DEF Ascending
  <2>2. \E x \in S : Rank(S, x) = k
    BY RankMet
  <2> QED
    BY <2>1, <2>2
<1>3. t = [k \in 1 .. n |-> t[k]]
  BY DEF Ascending
<1> HIDE DEF t
<1>4. t \in [1 .. n -> S]
  BY <1>2, <1>3
<1>5. ASSUME NEW i \in 1 .. n, NEW j \in 1 .. n, i < j PROVE t[i] < t[j]
  <2>1. t[i] \in S /\ t[j] \in S /\ Rank(S, t[i]) = i /\ Rank(S, t[j]) = j
    BY <1>2
  <2>2. t[j] < t[i] => Rank(S, t[j]) < Rank(S, t[i])
    BY <2>1, RankGrows
  <2>3. t[i] # t[j]
    BY <1>5, <2>1
  <2>4. t[i] \in Int /\ t[j] \in Int
    BY <2>1
  <2>5. i \in Int /\ j \in Int /\ ~(j < i)
    BY <1>1, <1>5
  <2> QED
    BY <2>1, <2>2, <2>3, <2>4, <2>5
<1>6. ASSUME NEW x \in S PROVE Rank(S, x) \in 1 .. n /\ t[Rank(S, x)] = x
  <2>1. Rank(S, x) \in 1 .. n
    BY RankRange
  <2>2. PICK y \in S : y = t[Rank(S, x)] /\ Rank(S, y) = Rank(S, x)
    BY <1>2, <2>1
  <2>3. ~(x < y) /\ ~(y < x)
    BY <2>1, <2>2, RankGrows
  <2> QED
    BY <2>1, <2>2, <2>3
<1> QED
  BY <1>1, <1>2, <1>4, <1>5, <1>6 DEF t

\* An ascending sequence of the elements of S is Ascending(S).
LEMMA AscendingUnique ==
  ASSUME NEW S \in SUBSET Int, NEW n \in Nat, NEW s \in [1 .. n -> S],
         \A i, j \in 1 .. n : i < j => s[i] < s[j],
         \A x \in S : \E i \in 1 .. n : s[i] = x
  PROVE  IsFiniteSet(S) /\ Cardinality(S) = n /\ Ascending(S) = s
<1>1. IsFiniteSet(1 .. n) /\ Cardinality(1 .. n) = n
  BY FS_Interval
<1>2. \A i, j \in 1 .. n : s[i] \in Int /\ (s[i] = s[j] => i = j) /\ (s[i] <= s[j] <=> i <= j)
  <2> SUFFICES ASSUME NEW i \in 1 .. n, NEW j \in 1 .. n
               PROVE  s[i] \in Int /\ (s[i] = s[j] => i = j) /\ (s[i] <= s[j] <=> i <= j)
    OBVIOUS
  <2>0. s[i] \in S /\ s[j] \in S
    OBVIOUS
  <2>1. s[i] \in Int /\ s[j] \in Int /\ i \in Int /\ j \in Int
    <3>1. s[i] \in Int /\ s[j] \in Int
      BY <2>0
    <3>2. i \in Int /\ j \in Int
      OBVIOUS
    <3> QED
      BY <3>1, <3>2
  <2>2. (i < j => s[i] < s[j]) /\ (j < i => s[j] < s[i])
    OBVIOUS
  <2> QED
    BY <2>1, <2>2
<1>3. s \in Surjection(1 .. n, S) /\ s \in Injection(1 .. n, S)
  BY <1>2 DEF Surjection, Injection, IsInjective
<1>4. IsFiniteSet(S) /\ Cardinality(S) = n
  BY <1>1, <1>3, FS_Surjection
<1>5. ASSUME NEW k \in 1 .. n PROVE Rank(S, s[k]) = k
  <2> DEFINE T == {y \in S : y <= s[k]}
             f == [i \in 1 .. k |-> s[i]]
  <2>1. IsFiniteSet(1 .. k) /\ Cardinality(1 .. k) = k
    BY FS_Interval
  <2>2. \A i \in 1 .. k : i \in 1 .. n /\ s[i] \in T
    BY <1>2
  <2>3. \A y \in T : \E i \in 1 .. k : s[i] = y
    <3> SUFFICES ASSUME NEW y \in T PROVE \E i \in 1 .. k : s[i] = y
      OBVIOUS
    <3>1. PICK i \in 1 .. n : s[i] = y
      OBVIOUS
    <3>2. i <= k
      BY <1>2, <3>1
    <3> QED
      BY <3>1, <3>2
  <2> HIDE DEF T
  <2>4. f \in Surjection(1 .. k, T)
    BY <2>2, <2>3 DEF Surjection
  <2>5. f \in Injection(1 .. k, T)
    BY <1>2, <2>2 DEF Injection, IsInjective
  <2>6. Cardinality(T) = k
    BY <2>1, <2>4, <2>5, FS_Surjection
  <2> QED
    BY <2>6 DEF T, Rank
<1>6. /\ Ascending(S) \in [1 .. n -> S]
      /\ \A x \in S : Ascending(S)[Rank(S, x)] = x
  BY <1>4, AscendingSorts
<1>7. \A k \in 1 .. n : Ascending(S)[k] = s[k]
  BY <1>5, <1>6
<1> QED
  BY <1>4, <1>6, <1>7

\* A greater element comes last.
LEMMA AscendingMore ==
  ASSUME NEW S \in SUBSET Int, IsFiniteSet(S), NEW m \in Int, \A x \in S : x < m
  PROVE  /\ IsFiniteSet(S \cup {m}) /\ Cardinality(S \cup {m}) = Cardinality(S) + 1
         /\ Ascending(S \cup {m}) = Append(Ascending(S), m)
<1> DEFINE n == Cardinality(S)
           t == Ascending(S)
           s == Append(t, m)
<1>1. /\ n \in Nat /\ t \in [1 .. n -> S]
      /\ \A i, j \in 1 .. n : i < j => t[i] < t[j]
      /\ \A x \in S : Rank(S, x) \in 1 .. n /\ t[Rank(S, x)] = x
  BY AscendingSorts
<1> HIDE DEF t, n
<1>2. t \in Seq(S) /\ Len(t) = n
  BY <1>1
<1>3. /\ s \in Seq(S \cup {m}) /\ Len(s) = n + 1
      /\ \A i \in 1 .. n : s[i] = t[i]
      /\ s[n + 1] = m
  <2>1. t \in Seq(S \cup {m}) /\ m \in S \cup {m}
    BY <1>1, <1>2
  <2> QED
    BY <1>1, <1>2, <2>1, AppendProperties
<1> HIDE DEF s
<1>4. s \in [1 .. n + 1 -> S \cup {m}]
  BY <1>1, <1>3, LenProperties
<1>5. ASSUME NEW i \in 1 .. n + 1, NEW j \in 1 .. n + 1, i < j PROVE s[i] < s[j]
  <2>1. i \in 1 .. n /\ t[i] \in S
    BY <1>1, <1>5
  <2>2. CASE j = n + 1
    BY <1>3, <2>1, <2>2
  <2>3. CASE j \in 1 .. n
    BY <1>1, <1>3, <1>5, <2>1, <2>3
  <2> QED
    BY <1>1, <2>2, <2>3
<1>6. ASSUME NEW x \in S \cup {m} PROVE \E i \in 1 .. n + 1 : s[i] = x
  <2>1. CASE x = m
    BY <1>1, <1>3, <2>1
  <2>2. CASE x \in S
    <3>1. Rank(S, x) \in 1 .. n /\ s[Rank(S, x)] = x
      BY <1>1, <1>3, <2>2
    <3>2. Rank(S, x) \in 1 .. n + 1
      BY <1>1, <3>1
    <3> QED
      BY <3>1, <3>2
  <2> QED
    BY <2>1, <2>2
<1>7. n + 1 \in Nat /\ S \cup {m} \in SUBSET Int
  BY <1>1
<1>8. IsFiniteSet(S \cup {m}) /\ Cardinality(S \cup {m}) = n + 1 /\ Ascending(S \cup {m}) = s
  BY <1>4, <1>5, <1>6, <1>7, AscendingUnique
<1> QED
  BY <1>8 DEF n, s, t

\* Two sets without a common element count as many as each of them.
LEMMA DisjointUnion ==
  ASSUME NEW S, NEW T, IsFiniteSet(S), IsFiniteSet(T), \A x \in S : x \notin T
  PROVE  /\ IsFiniteSet(S \cup T) /\ Cardinality(S) \in Nat /\ Cardinality(T) \in Nat
         /\ Cardinality(S \cup T) = Cardinality(S) + Cardinality(T)
<1>1. S \cap T = {}
  OBVIOUS
<1>2. Cardinality(S \cap T) = 0 /\ Cardinality(S) \in Nat /\ Cardinality(T) \in Nat
  BY <1>1, FS_EmptySet, FS_CardinalityType
<1>3. /\ IsFiniteSet(S \cup T)
      /\ Cardinality(S \cup T) = Cardinality(S) + Cardinality(T) - Cardinality(S \cap T)
  BY FS_Union
<1> QED
  BY <1>2, <1>3

\* y is an element of sequence s
Has(s, y) == \E i \in 1 .. Len(s) : s[i] = y

\* As a sequence a set has its elements, as many as they are.
LEMMA AscendingElements ==
  ASSUME NEW S \in SUBSET Int, IsFiniteSet(S)
  PROVE  /\ Ascending(S) \in Seq(S) /\ Len(Ascending(S)) = Cardinality(S)
         /\ Cardinality(S) \in Nat /\ DOMAIN Ascending(S) = 1 .. Cardinality(S)
         /\ \A i \in 1 .. Cardinality(S) : Ascending(S)[i] \in S
         /\ \A x : Has(Ascending(S), x) <=> x \in S
<1>1. /\ Cardinality(S) \in Nat /\ Ascending(S) \in [1 .. Cardinality(S) -> S]
      /\ \A x \in S : Rank(S, x) \in 1 .. Cardinality(S) /\ Ascending(S)[Rank(S, x)] = x
  BY AscendingSorts
<1>2. Ascending(S) \in Seq(S) /\ Len(Ascending(S)) = Cardinality(S)
  BY <1>1
<1>3. \A x : Has(Ascending(S), x) <=> x \in S
  BY <1>1, <1>2 DEF Has
<1> QED
  BY <1>1, <1>2, <1>3

\* A concatenation has the elements of both sequences.
LEMMA ConcatElements ==
  ASSUME NEW A, NEW s \in Seq(A), NEW t \in Seq(A)
  PROVE  /\ s \o t \in Seq(A) /\ Len(s \o t) = Len(s) + Len(t)
         /\ \A y : Has(s \o t, y) <=> Has(s, y) \/ Has(t, y)
<1>1. /\ s \o t \in Seq(A) /\ Len(s \o t) = Len(s) + Len(t)
      /\ \A i \in 1 .. Len(s) + Len(t) :
           (s \o t)[i] = IF i <= Len(s) THEN s[i] ELSE t[i - Len(s)]
      /\ Len(s) \in Nat /\ Len(t) \in Nat
  BY ConcatProperties, LenProperties
<1> DEFINE u == s \o t
<1> HIDE DEF u
<1>2. /\ Len(u) = Len(s) + Len(t)
      /\ \A i \in 1 .. Len(s) + Len(t) : u[i] = IF i <= Len(s) THEN s[i] ELSE t[i - Len(s)]
  BY <1>1 DEF u
<1>3. ASSUME NEW y, NEW i \in 1 .. Len(u), u[i] = y
      PROVE  (\E j \in 1 .. Len(s) : s[j] = y) \/ (\E j \in 1 .. Len(t) : t[j] = y)
  <2>1. CASE i <= Len(s)
    BY <1>1, <1>2, <1>3, <2>1
  <2>2. CASE ~(i <= Len(s))
    <3>1. i - Len(s) \in 1 .. Len(t)
      BY <1>1, <1>2, <2>2
    <3> QED
      BY <1>1, <1>2, <1>3, <2>2, <3>1
  <2> QED
    BY <2>1, <2>2
<1>4. ASSUME NEW y, NEW i \in 1 .. Len(s), s[i] = y PROVE \E j \in 1 .. Len(u) : u[j] = y
  <2>1. i \in 1 .. Len(u) /\ i \in 1 .. Len(s) + Len(t) /\ i <= Len(s)
    BY <1>1, <1>2
  <2> QED
    BY <1>2, <1>4, <2>1
<1>5. ASSUME NEW y, NEW i \in 1 .. Len(t), t[i] = y PROVE \E j \in 1 .. Len(u) : u[j] = y
  <2>1. /\ Len(s) + i \in 1 .. Len(s) + Len(t) /\ ~(Len(s) + i <= Len(s))
        /\ Len(s) + i - Len(s) = i
    BY <1>1
  <2>2. u[Len(s) + i] = y
    BY <1>2, <1>5, <2>1
  <2> QED
    BY <1>2, <2>1, <2>2
<1>6. \A y : Has(u, y) <=> Has(s, y) \/ Has(t, y)
  BY <1>3, <1>4, <1>5 DEF Has
<1> QED
  BY <1>1, <1>6 DEF u

=============================================================================
