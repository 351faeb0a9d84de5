----------------------------- MODULE NatLemmas -----------------------------
(***************************************************************************)
(* Facts about numbers the proofs of several components need: induction and *)
(* the least element, stated for sets, what a rounded quotient is, and sums *)
(* of samples.                                                              *)
(***************************************************************************)
EXTENDS Integers, Sequences, Samples, WellFoundedInduction, TLAPS

\* A set of natural numbers that is not empty has a least element.
LEMMA LeastNatural ==
  ASSUME NEW T, T \subseteq Nat, T # {}
  PROVE  \E x \in T : \A y \in T : x <= y
<1>1. PICK x \in T : \A y \in T : ~(<<y, x>> \in OpToRel(<, Nat))
  BY NatLessThanWellFounded, WFMin
<1>2. \A y \in T : ~(y < x)
  BY <1>1 DEF OpToRel
<1> QED BY <1>2

\* Induction: what holds for 0, and for n + 1 if it holds for n, holds throughout.
LEMMA ByInduction ==
  ASSUME NEW S, 0 \in S, \A n \in Nat : n \in S => n + 1 \in S
  PROVE  Nat \subseteq S
<1> SUFFICES ASSUME NEW T, T = {n \in Nat : n \notin S}, T # {} PROVE FALSE
  OBVIOUS
<1>1. PICK x \in T : \A y \in T : x <= y
  BY LeastNatural
<1>2. x \in Nat /\ x # 0
  OBVIOUS
<1>3. x - 1 \in Nat /\ x - 1 \notin T
  BY <1>1, <1>2
<1>4. x - 1 \in S
  BY <1>3
<1> QED BY <1>2, <1>3, <1>4

\* What a product with a natural number does to an inequality.
LEMMA ProductGrows ==
  ASSUME NEW a \in Int, NEW b \in Int, NEW d \in Nat, a <= b
  PROVE  d * a <= d * b
<1>1. (b - a) \in Nat
  OBVIOUS
<1>2. d * (b - a) >= 0 /\ d * (b - a) = d * b - d * a
  BY <1>1
<1> QED BY <1>2

\* The quotient rounded down, as an inequality.
LEMMA QuotientFacts ==
  ASSUME NEW n \in Int, NEW d \in Nat \ {0}
  PROVE  /\ n \div d \in Int
         /\ d * (n \div d) <= n
         /\ n < d * (n \div d) + d
OBVIOUS

\* The quotient is the one integer with these bounds.
LEMMA QuotientIs ==
  ASSUME NEW n \in Int, NEW d \in Nat \ {0}, NEW q \in Int, d * q <= n, n < d * q + d
  PROVE  n \div d = q
<1> DEFINE r == n \div d
<1>1. r \in Int /\ d * r <= n /\ n < d * r + d
  BY QuotientFacts
<1> HIDE DEF r
<1>2. CASE r < q
  <2>1. d * (r + 1) <= d * q
    BY <1>1, <1>2, ProductGrows
  <2>2. d * (r + 1) = d * r + d
    BY <1>1
  <2> QED BY <1>1, <2>1, <2>2
<1>3. CASE q < r
  <2>1. d * (q + 1) <= d * r
    BY <1>1, <1>3, ProductGrows
  <2>2. d * (q + 1) = d * q + d
    OBVIOUS
  <2> QED BY <1>1, <2>1, <2>2
<1> QED BY <1>1, <1>2, <1>3 DEF r

-----------------------------------------------------------------------------
(* Sums of samples *)

\* What the recursion of Total computes: the sums of the first samples.
PartialSums(s, sum) ==
  /\ sum \in [0 .. Len(s) -> Int] /\ sum[0] = 0 /\ Total(s) = sum[Len(s)]
  /\ \A i \in 1 .. Len(s) : sum[i] = sum[i - 1] + s[i]

LEMMA SumsExist ==
  ASSUME NEW s \in Seq(Int)
  PROVE  \E sum : PartialSums(s, sum)
<1> DEFINE Sums(g, n) == g = [i \in 0 .. n |-> IF i = 0 THEN 0 ELSE g[i - 1] + s[i]]
           Exist(n) == \E g \in [0 .. n -> Int] : Sums(g, n)
           Begun == {n \in Nat : n <= Len(s) => Exist(n)}
<1>1. 0 \in Begun
  <2>1. [i \in 0 .. 0 |-> 0] \in [0 .. 0 -> Int] /\ Sums([i \in 0 .. 0 |-> 0], 0)
    OBVIOUS
  <2> QED BY <2>1
<1>2. ASSUME NEW n \in Nat, n \in Begun PROVE n + 1 \in Begun
  <2> SUFFICES ASSUME n + 1 <= Len(s) PROVE Exist(n + 1)
    <3> HIDE DEF Exist
    <3> QED OBVIOUS
  <2>0. n <= Len(s)
    OBVIOUS
  <2>1. PICK g \in [0 .. n -> Int] : Sums(g, n)
    BY <1>2, <2>0
  <2> DEFINE h == [i \in 0 .. n + 1 |-> IF i = n + 1 THEN g[n] + s[n + 1] ELSE g[i]]
  <2>2. h \in [0 .. n + 1 -> Int]
    OBVIOUS
  <2>3. ASSUME NEW i \in 0 .. n + 1 PROVE h[i] = IF i = 0 THEN 0 ELSE h[i - 1] + s[i]
    <3>1. CASE i = n + 1
      BY <3>1
    <3>2. CASE i # n + 1
      <4>1. g[i] = IF i = 0 THEN 0 ELSE g[i - 1] + s[i]
        BY <2>1, <3>2
      <4> QED BY <3>2, <4>1
    <3> QED BY <3>1, <3>2
  <2>4. Sums(h, n + 1)
    BY <2>3
  <2> QED BY <2>2, <2>4
<1>3. Len(s) \in Begun
  <2> HIDE DEF Begun
  <2>1. \A n \in Nat : n \in Begun => n + 1 \in Begun
    BY <1>2
  <2>2. Nat \subseteq Begun
    BY <1>1, <2>1, ByInduction
  <2> QED BY <2>2
<1>4. \E g \in [0 .. Len(s) -> Int] : Sums(g, Len(s))
  BY <1>3
<1> DEFINE sum == CHOOSE g : Sums(g, Len(s))
<1>5. Sums(sum, Len(s))
  BY <1>4
<1>6. Total(s) = sum[Len(s)]
  BY DEF Total
<1> HIDE DEF sum
<1>a. Len(s) \in Nat /\ sum = [i \in 0 .. Len(s) |-> IF i = 0 THEN 0 ELSE sum[i - 1] + s[i]]
  <2>1. sum = [i \in 0 .. Len(s) |-> IF i = 0 THEN 0 ELSE sum[i - 1] + s[i]]
    BY <1>5, Zenon
  <2>2. Len(s) \in Nat
    OBVIOUS
  <2> QED BY <2>1, <2>2
<1> HIDE DEF Sums
<1>b. \A i \in 0 .. Len(s) : sum[i] = IF i = 0 THEN 0 ELSE sum[i - 1] + s[i]
  BY <1>a, Zenon
<1>7. \A i \in 1 .. Len(s) : sum[i] = sum[i - 1] + s[i]
  <2>1. \A i \in 1 .. Len(s) : i \in 0 .. Len(s) /\ i # 0
    BY <1>a
  <2> QED BY <1>b, <2>1
<1>8. sum[0] = 0
  <2>1. 0 \in 0 .. Len(s)
    BY <1>a
  <2> QED BY <1>b, <2>1
<1> DEFINE Whole == {n \in Nat : n <= Len(s) => sum[n] \in Int}
<1>9. \A n \in Nat : n \in Whole
  <2>1. 0 \in Whole
    BY <1>8
  <2>2. ASSUME NEW n \in Nat, n \in Whole PROVE n + 1 \in Whole
    <3> SUFFICES ASSUME n + 1 <= Len(s) PROVE sum[n + 1] \in Int
      OBVIOUS
    <3>1. sum[n + 1] = sum[n] + s[n + 1]
      BY <1>7
    <3> QED BY <2>2, <3>1
  <2> HIDE DEF Whole
  <2>3. \A n \in Nat : n \in Whole => n + 1 \in Whole
    BY <2>2
  <2> QED BY <2>1, <2>3, ByInduction
<1>10. sum \in [0 .. Len(s) -> Int]
  <2>1. \A i \in 0 .. Len(s) : sum[i] \in Int
    <3>1. \A i \in 0 .. Len(s) : i \in Nat /\ i <= Len(s)
      BY <1>a
    <3> QED BY <1>9, <3>1
  <2>2. sum = [i \in 0 .. Len(s) |-> sum[i]]
    BY <1>a, <1>b
  <2> QED BY <2>1, <2>2
<1> QED BY <1>6, <1>7, <1>8, <1>10 DEF PartialSums

\* Samples of at most c, or of at least c.
LEMMA SumBounds ==
  ASSUME NEW s \in Seq(Int), NEW sum, PartialSums(s, sum), NEW c \in Int,
         NEW m \in 0 .. Len(s)
  PROVE  /\ (\A i \in 1 .. m : s[i] <= c) => sum[m] <= m * c
         /\ (\A i \in 1 .. m : s[i] >= c) => sum[m] >= m * c
<1>0. sum \in [0 .. Len(s) -> Int] /\ \A i \in 1 .. Len(s) : sum[i] = sum[i - 1] + s[i]
  BY DEF PartialSums
<1> DEFINE Most == {n \in Nat : n <= m /\ (\A i \in 1 .. m : s[i] <= c) => sum[n] <= n * c}
           Least == {n \in Nat : n <= m /\ (\A i \in 1 .. m : s[i] >= c) => sum[n] >= n * c}
<1>1. 0 \in Most /\ 0 \in Least
  <2>1. 0 * c = 0
    OBVIOUS
  <2> QED BY <2>1 DEF PartialSums
<1>2. ASSUME NEW n \in Nat
      PROVE  (n \in Most => n + 1 \in Most) /\ (n \in Least => n + 1 \in Least)
  <2> SUFFICES ASSUME n + 1 <= m
               PROVE  (n \in Most => n + 1 \in Most) /\ (n \in Least => n + 1 \in Least)
    OBVIOUS
  <2>0. n + 1 \in 1 .. m /\ n + 1 \in 1 .. Len(s) /\ n \in 0 .. Len(s)
    OBVIOUS
  <2>1. sum[n + 1] = sum[n] + s[n + 1] /\ sum[n] \in Int /\ s[n + 1] \in Int
    <3> HIDE DEF Most, Least
    <3>1. (n + 1) - 1 = n
      OBVIOUS
    <3>2. sum[n + 1] = sum[n] + s[n + 1]
      BY <1>0, <2>0, <3>1
    <3>3. sum[n] \in Int
      BY <1>0, <2>0
    <3>4. s[n + 1] \in Int
      BY <2>0
    <3> QED BY <3>2, <3>3, <3>4
  <2>2. (n + 1) * c = n * c + c /\ n * c \in Int
    <3> HIDE DEF Most, Least
    <3> QED OBVIOUS
  <2>3. n \in Most => n + 1 \in Most
    BY <2>0, <2>1, <2>2
  <2>4. n \in Least => n + 1 \in Least
    BY <2>0, <2>1, <2>2
  <2> QED BY <2>3, <2>4
<1> HIDE DEF Most, Least
<1>3. Nat \subseteq Most /\ Nat \subseteq Least
  <2>1. Nat \subseteq Most
    BY <1>1, <1>2, ByInduction
  <2>2. Nat \subseteq Least
    BY <1>1, <1>2, ByInduction
  <2> QED BY <2>1, <2>2
<1> QED BY <1>3 DEF Most, Least

\* The sum of samples of which the newest is different.
LEMMA TotalBounds ==
  ASSUME NEW s \in Seq(Int), Len(s) > 0, NEW c \in Int
  PROVE  /\ Total(s) \in Int
         /\ (\A i \in 1 .. Len(s) : s[i] >= c) => Total(s) >= Len(s) * c
         /\ (\A i \in 1 .. Len(s) - 1 : s[i] <= c) => Total(s) <= (Len(s) - 1) * c + s[Len(s)]
<1>1. PICK sum : PartialSums(s, sum)
  BY SumsExist
<1>2. /\ sum \in [0 .. Len(s) -> Int] /\ Total(s) = sum[Len(s)]
      /\ sum[Len(s)] = sum[Len(s) - 1] + s[Len(s)]
  BY <1>1 DEF PartialSums
<1>0. Len(s) \in 0 .. Len(s) /\ Len(s) - 1 \in 0 .. Len(s)
  OBVIOUS
<1>3. (\A i \in 1 .. Len(s) : s[i] >= c) => sum[Len(s)] >= Len(s) * c
  BY <1>0, <1>1, SumBounds
<1>4. (\A i \in 1 .. Len(s) - 1 : s[i] <= c) => sum[Len(s) - 1] <= (Len(s) - 1) * c
  BY <1>0, <1>1, SumBounds
<1>5. s[Len(s)] \in Int /\ (Len(s) - 1) * c \in Int /\ sum[Len(s)] \in Int /\ sum[Len(s) - 1] \in Int
  <2>1. sum[Len(s)] \in Int /\ sum[Len(s) - 1] \in Int
    BY <1>0, <1>2
  <2>2. Len(s) \in Nat /\ Len(s) \in 1 .. Len(s)
    OBVIOUS
  <2> QED BY <2>1, <2>2
<1>6. (\A i \in 1 .. Len(s) - 1 : s[i] <= c) => Total(s) <= (Len(s) - 1) * c + s[Len(s)]
  BY <1>2, <1>4, <1>5
<1> QED BY <1>2, <1>3, <1>5, <1>6

\* Samples that are all of at most c.
LEMMA TotalAtMost ==
  ASSUME NEW s \in Seq(Int), NEW c \in Int, \A i \in 1 .. Len(s) : s[i] <= c
  PROVE  Total(s) <= Len(s) * c
<1>1. PICK sum : PartialSums(s, sum)
  BY SumsExist
<1>2. Len(s) \in 0 .. Len(s)
  OBVIOUS
<1>3. sum[Len(s)] <= Len(s) * c
  BY <1>1, <1>2, SumBounds
<1> QED BY <1>1, <1>3 DEF PartialSums

-----------------------------------------------------------------------------
(* A function applied again and again *)

\* What F makes of a, up to n times.
Iterates(g, F, a, n) == g = [i \in 0 .. n |-> IF i = 0 THEN a ELSE F[g[i - 1]]]

\* Such a sequence exists.
LEMMA IteratesExist ==
  ASSUME NEW S, NEW F \in [S -> S], NEW a \in S, NEW n \in Nat
  PROVE  \E g \in [0 .. n -> S] : Iterates(g, F, a, n)
<1> DEFINE Exist(m) == \E g \in [0 .. m -> S] : Iterates(g, F, a, m)
           Begun == {m \in Nat : Exist(m)}
<1>1. 0 \in Begun
  <2>1. [i \in 0 .. 0 |-> a] \in [0 .. 0 -> S] /\ Iterates([i \in 0 .. 0 |-> a], F, a, 0)
    BY DEF Iterates
  <2> QED BY <2>1
<1>2. ASSUME NEW m \in Nat, m \in Begun PROVE m + 1 \in Begun
  <2>1. PICK g \in [0 .. m -> S] : Iterates(g, F, a, m)
    BY <1>2
  <2>2. \A i \in 0 .. m : g[i] = IF i = 0 THEN a ELSE F[g[i - 1]]
    BY <2>1 DEF Iterates
  <2> DEFINE h == [i \in 0 .. m + 1 |-> IF i = m + 1 THEN F[g[m]] ELSE g[i]]
  <2>3. g[m] \in S /\ \A i \in 0 .. m : g[i] \in S
    OBVIOUS
  <2>4. h \in [0 .. m + 1 -> S]
    <3>1. \A i \in 0 .. m + 1 : i # m + 1 => i \in 0 .. m
      OBVIOUS
    <3> QED BY <2>3, <3>1
  <2>5. ASSUME NEW i \in 0 .. m + 1 PROVE h[i] = IF i = 0 THEN a ELSE F[h[i - 1]]
    <3>1. CASE i = m + 1
      <4>1. i # 0 /\ i - 1 = m /\ m \in 0 .. m + 1 /\ m # m + 1
        BY <3>1
      <4>2. h[i] = F[g[m]] /\ h[i - 1] = g[m]
        BY <3>1, <4>1
      <4> QED BY <4>1, <4>2
    <3>2. CASE i # m + 1 /\ i # 0
      <4>1. i \in 0 .. m /\ i - 1 \in 0 .. m + 1 /\ i - 1 # m + 1
        BY <3>2
      <4>2. h[i] = g[i] /\ h[i - 1] = g[i - 1]
        BY <3>2, <4>1
      <4> QED BY <2>2, <3>2, <4>1, <4>2
    <3>3. CASE i = 0
      <4>1. 0 \in 0 .. m /\ 0 # m + 1
        OBVIOUS
      <4>2. h[i] = g[0]
        BY <3>3, <4>1
      <4> QED BY <2>2, <3>3, <4>1, <4>2
    <3> QED BY <3>1, <3>2, <3>3
  <2>6. h = [i \in 0 .. m + 1 |-> IF i = 0 THEN a ELSE F[h[i - 1]]]
    <3>1. h = [i \in 0 .. m + 1 |-> h[i]]
      BY <2>4
    <3> HIDE DEF h
    <3> QED BY <2>5, <3>1
  <2>7. Exist(m + 1)
    BY <2>4, <2>6 DEF Iterates
  <2> HIDE DEF Exist
  <2> QED BY <2>7
<1> HIDE DEF Begun
<1>3. Nat \subseteq Begun
  BY <1>1, <1>2, ByInduction
<1> QED BY <1>3 DEF Begun

\* A longer one begins with it, and stays in S.
LEMMA IteratesAgree ==
  ASSUME NEW S, NEW F \in [S -> S], NEW a \in S, NEW n \in Nat, NEW m \in Nat, n <= m,
         NEW g, NEW h, Iterates(g, F, a, n), Iterates(h, F, a, m)
  PROVE  \A i \in 0 .. n : g[i] = h[i] /\ g[i] \in S
<1>1. \A i \in 0 .. n : i \in 0 .. m /\ g[i] = IF i = 0 THEN a ELSE F[g[i - 1]]
  BY DEF Iterates
<1>2. \A i \in 0 .. m : h[i] = IF i = 0 THEN a ELSE F[h[i - 1]]
  BY DEF Iterates
<1> DEFINE Same == {i \in Nat : i <= n => g[i] = h[i] /\ g[i] \in S}
<1>3. 0 \in Same
  <2>1. 0 \in 0 .. n /\ 0 \in 0 .. m
    OBVIOUS
  <2> QED BY <1>1, <1>2, <2>1
<1>4. ASSUME NEW i \in Nat, i \in Same PROVE i + 1 \in Same
  <2> SUFFICES ASSUME i + 1 <= n PROVE g[i + 1] = h[i + 1] /\ g[i + 1] \in S
    OBVIOUS
  <2>1. i + 1 \in 0 .. n /\ i + 1 \in 0 .. m /\ i + 1 # 0 /\ (i + 1) - 1 = i /\ i <= n
    OBVIOUS
  <2>2. g[i] = h[i] /\ g[i] \in S
    BY <1>4, <2>1
  <2>3. g[i + 1] = F[g[i]] /\ h[i + 1] = F[h[i]]
    BY <1>1, <1>2, <2>1
  <2> QED BY <2>2, <2>3
<1> HIDE DEF Same
<1>5. Nat \subseteq Same
  BY <1>3, <1>4, ByInduction
<1>6. \A i \in 0 .. n : i \in Nat /\ i <= n
  OBVIOUS
<1> QED BY <1>5, <1>6 DEF Same
=============================================================================
