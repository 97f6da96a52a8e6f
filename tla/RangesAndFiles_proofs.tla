----------------------- MODULE RangesAndFiles_proofs -----------------------
(***************************************************************************)
(* Facts the proofs of several components share: about the ranges of       *)
(* Parallelize for every size, block size, overlap and thread count, about *)
(* reading and writing files, and about numbers.                           *)
(***************************************************************************)
EXTENDS ChunkRanges, Files, SequenceTheorems, WellFoundedInduction, TLAPS

(* Numbers. *)

\* Integer division brackets its operand.
LEMMA DivBounds ==
  ASSUME NEW n \in Nat, NEW b \in Nat \ {0}
  PROVE  /\ n \div b \in Nat
         /\ (n \div b) * b <= n
         /\ n < (n \div b) * b + b
  OBVIOUS

\* Dividing with rounding up loses nothing and adds less than one unit.
LEMMA CeilDivBounds ==
  ASSUME NEW a \in Nat, NEW b \in Nat \ {0}
  PROVE  /\ CeilDiv(a, b) \in Nat
         /\ a <= CeilDiv(a, b) * b
         /\ CeilDiv(a, b) * b < a + b
  <1>1. a + b - 1 \in Nat
    OBVIOUS
  <1> QED
    BY <1>1, DivBounds DEF CeilDiv

\* One more multiple.
LEMMA NextMultiple ==
  ASSUME NEW k \in Nat, NEW b \in Nat
  PROVE  (k + 1) * b = k * b + b
  OBVIOUS

\* Multiplying by a natural number keeps an order.
LEMMA TimesMonotone ==
  ASSUME NEW i \in Int, NEW j \in Int, NEW m \in Nat, i <= j
  PROVE  i * m <= j * m
  <1>1. (j - i) * m >= 0
    OBVIOUS
  <1>2. j * m = i * m + (j - i) * m
    OBVIOUS
  <1> QED
    BY <1>1, <1>2

\* ... and cancelling a positive one too.
LEMMA TimesCancels ==
  ASSUME NEW i \in Int, NEW j \in Int, NEW m \in Nat \ {0}, i * m < j * m
  PROVE  i < j
  <1> SUFFICES ASSUME j <= i PROVE FALSE
    OBVIOUS
  <1>1. j * m <= i * m
    BY TimesMonotone
  <1> QED
    BY <1>1

\* Two multiples of b less than b apart are the same.
LEMMA SameMultiple ==
  ASSUME NEW k \in Int, NEW m \in Int, NEW b \in Nat \ {0},
         m * b <= k * b, k * b < m * b + b
  PROVE  k = m
  <1>1. k < m + 1
    <2>1. k * b < (m + 1) * b
      OBVIOUS
    <2> QED
      BY <2>1, TimesCancels
  <1>2. m < k + 1
    <2>1. m * b < (k + 1) * b
      OBVIOUS
    <2> QED
      BY <2>1, TimesCancels
  <1> QED
    BY <1>1, <1>2

\* Dividing a multiple gives the factor.
LEMMA DivOfMultiple ==
  ASSUME NEW k \in Nat, NEW b \in Nat \ {0}
  PROVE  (k * b) \div b = k
  <1> DEFINE q == (k * b) \div b
  <1>1. k * b \in Nat
    OBVIOUS
  <1>2. q \in Nat /\ q * b <= k * b /\ k * b < q * b + b
    BY <1>1, DivBounds
  <1> HIDE DEF q
  <1>3. k = q
    BY <1>2, SameMultiple
  <1> QED
    BY <1>3 DEF q

\* Quotient and remainder.
LEMMA DivMod ==
  ASSUME NEW x \in Int, NEW m \in Nat \ {0}
  PROVE  /\ x \div m \in Int
         /\ x % m \in Nat
         /\ x % m < m
         /\ x = (x \div m) * m + (x % m)
  OBVIOUS

\* Quotient and remainder are the only numbers of their kind.
LEMMA RemainderIsUnique ==
  ASSUME NEW m \in Nat \ {0}, NEW q \in Int, NEW r \in Nat, r < m
  PROVE  (q * m + r) % m = r
  <1> DEFINE x == q * m + r
             p == x \div m
             s == x % m
  <1>1. x \in Int /\ q * m \in Int
    OBVIOUS
  <1>2. p \in Int /\ s \in Nat /\ s < m /\ x = p * m + s
    BY <1>1, DivMod
  <1> HIDE DEF p, s
  <1>3. p * m \in Int
    BY <1>2
  <1>4. p = q
    <2>1. q * m + r = p * m + s
      BY <1>2
    <2>2. CASE p * m <= q * m
      BY <1>1, <1>2, <1>3, <2>1, <2>2, SameMultiple
    <2>3. CASE q * m <= p * m
      BY <1>1, <1>2, <1>3, <2>1, <2>3, SameMultiple
    <2> QED
      BY <1>1, <1>3, <2>2, <2>3
  <1>5. s = r
    BY <1>1, <1>2, <1>4
  <1> QED
    BY <1>5 DEF s

\* ... and so is the quotient.
LEMMA QuotientIsUnique ==
  ASSUME NEW m \in Nat \ {0}, NEW q \in Int, NEW r \in Nat, r < m
  PROVE  (q * m + r) \div m = q
  <1> DEFINE x == q * m + r
             p == x \div m
             s == x % m
  <1>1. x \in Int /\ q * m \in Int
    OBVIOUS
  <1>2. p \in Int /\ s \in Nat /\ x = p * m + s
    BY <1>1, DivMod
  <1>3. s = r
    BY RemainderIsUnique
  <1> HIDE DEF p, s
  <1>4. p * m = q * m /\ p * m \in Int
    BY <1>1, <1>2, <1>3
  <1>5. p = q
    BY <1>1, <1>2, <1>4, SameMultiple
  <1> QED
    BY <1>5 DEF p

\* Adding a multiple does not change the remainder.
LEMMA RemainderOfSum ==
  ASSUME NEW m \in Nat \ {0}, NEW x \in Int, NEW k \in Int
  PROVE  (x + k * m) % m = x % m
  <1> DEFINE q == x \div m
             r == x % m
  <1>1. q \in Int /\ r \in Nat /\ r < m /\ x = q * m + r
    BY DivMod
  <1> HIDE DEF q, r
  <1>2. x + k * m = (q + k) * m + r
    BY <1>1
  <1>3. ((q + k) * m + r) % m = r
    BY <1>1, RemainderIsUnique
  <1> QED
    BY <1>2, <1>3 DEF r

-----------------------------------------------------------------------------
(* Induction over the natural numbers for a set: the library states it for *)
(* an operator, and the smallest number outside a set needs none.          *)

LEMMA SetInduction ==
  ASSUME NEW S, 0 \in S, \A n \in Nat : n \in S => n + 1 \in S
  PROVE  \A n \in Nat : n \in S
  <1> DEFINE T == Nat \ S
             R == OpToRel(<, Nat)
  <1> SUFFICES ASSUME T # {} PROVE FALSE
    OBVIOUS
  <1>1. T \subseteq Nat
    OBVIOUS
  <1>2. PICK x \in T : \A y \in T : ~ (<<y, x>> \in R)
    <2> HIDE DEF T, R
    <2>1. IsWellFoundedOn(R, Nat)
      BY NatLessThanWellFounded DEF R
    <2> QED
      BY <1>1, <2>1, WFMin
  <1>3. x \in Nat /\ x \notin S /\ x # 0
    BY <1>2
  <1>4. x - 1 \in Nat /\ x - 1 + 1 = x
    BY <1>3
  <1>5. x - 1 \notin S
    BY <1>3, <1>4
  <1>6. ~ (<<x - 1, x>> \in R)
    BY <1>2, <1>4, <1>5
  <1> QED
    BY <1>3, <1>4, <1>6 DEF OpToRel

\* g is defined by recursion over 0 .. n, step[k][x] being its value after x at k.
Follows(g, n, z, step) ==
  g[0] = z /\ \A k \in 0 .. n - 1 : g[k + 1] = step[k][g[k]]

\* Such a function exists, and its values are of one kind.
LEMMA RecursionExists ==
  ASSUME NEW S, NEW z \in S, NEW n \in Nat, NEW step \in [0 .. n - 1 -> [S -> S]]
  PROVE  \E g \in [0 .. n -> S] : Follows(g, n, z, step)
  <1> DEFINE Upto(m, g) ==
               g[0] = z /\ \A k \in 1 .. m : g[k] = step[k - 1][g[k - 1]]
             Good == {m \in Nat : m <= n => \E g \in [0 .. m -> S] : Upto(m, g)}
  <1>1. 0 \in Good
    <2> DEFINE g == [k \in 0 .. 0 |-> z]
    <2>1. g \in [0 .. 0 -> S] /\ Upto(0, g)
      OBVIOUS
    <2> QED
      BY <2>1
  <1>2. ASSUME NEW m \in Nat, m \in Good PROVE m + 1 \in Good
    <2> SUFFICES ASSUME m + 1 <= n PROVE \E g \in [0 .. m + 1 -> S] : Upto(m + 1, g)
      OBVIOUS
    <2>1. PICK g \in [0 .. m -> S] : Upto(m, g)
      BY <1>2
    <2> DEFINE h == [k \in 0 .. m + 1 |-> IF k <= m THEN g[k] ELSE step[m][g[m]]]
    <2>2. step[m][g[m]] \in S
      <3>1. m \in 0 .. n - 1 /\ g[m] \in S
        BY <2>1
      <3> QED
        BY <3>1
    <2>3. h \in [0 .. m + 1 -> S]
      BY <2>1, <2>2
    <2>4. ASSUME NEW k \in 1 .. m + 1 PROVE h[k] = step[k - 1][h[k - 1]]
      <3>1. k \in 0 .. m + 1 /\ k - 1 \in 0 .. m + 1 /\ k - 1 <= m
        BY <2>4
      <3>2. h[k - 1] = g[k - 1]
        BY <3>1
      <3>3. CASE k <= m
        BY <2>1, <3>1, <3>2, <3>3
      <3>4. CASE k = m + 1
        BY <3>1, <3>2, <3>4
      <3> QED
        BY <3>3, <3>4
    <2>5. h[0] = z
      BY <2>1
    <2>6. Upto(m + 1, h)
      BY <2>4, <2>5
    <2> HIDE DEF h, Upto
    <2> QED
      BY <2>3, <2>6
  <1>3. n \in Good
    <2> HIDE DEF Good
    <2> QED
      BY <1>1, <1>2, SetInduction
  <1>4. PICK g \in [0 .. n -> S] : Upto(n, g)
    BY <1>3
  <1>5. ASSUME NEW k \in 0 .. n - 1 PROVE g[k + 1] = step[k][g[k]]
    <2>1. k + 1 \in 1 .. n /\ k + 1 - 1 = k
      OBVIOUS
    <2>2. g[k + 1] = step[k + 1 - 1][g[k + 1 - 1]]
      BY <1>4, <2>1
    <2> QED
      BY <2>1, <2>2
  <1> QED
    BY <1>4, <1>5 DEF Follows

\* Numbers have running sums.
LEMMA RunningSums ==
  ASSUME NEW sizes \in [Nat -> Nat]
  PROVE  \A n \in Nat : \E g \in [0 .. n -> Nat] :
           g[0] = 0 /\ \A i \in 1 .. n : g[i] = g[i - 1] + sizes[i - 1]
  <1> DEFINE IsSum(n, g) == g[0] = 0 /\ \A i \in 1 .. n : g[i] = g[i - 1] + sizes[i - 1]
             S == {n \in Nat : \E g \in [0 .. n -> Nat] : IsSum(n, g)}
  <1>1. 0 \in S
    <2> DEFINE g == [i \in 0 .. 0 |-> 0]
    <2>1. g \in [0 .. 0 -> Nat] /\ IsSum(0, g)
      OBVIOUS
    <2> QED
      BY <2>1
  <1>2. ASSUME NEW n \in Nat, n \in S PROVE n + 1 \in S
    <2>1. PICK g \in [0 .. n -> Nat] : IsSum(n, g)
      BY <1>2
    <2> DEFINE h == [i \in 0 .. n + 1 |-> IF i <= n THEN g[i] ELSE g[n] + sizes[n]]
    <2>2. h \in [0 .. n + 1 -> Nat]
      BY <2>1
    <2>3. ASSUME NEW i \in 1 .. n + 1 PROVE h[i] = h[i - 1] + sizes[i - 1]
      <3>1. CASE i <= n
        <4>1. i \in 1 .. n /\ i - 1 \in 0 .. n + 1 /\ i - 1 <= n /\ i \in 0 .. n + 1
          BY <3>1
        <4>2. h[i] = g[i] /\ h[i - 1] = g[i - 1]
          BY <3>1, <4>1
        <4> QED
          BY <2>1, <4>1, <4>2
      <3>2. CASE i = n + 1
        BY <3>2
      <3> QED
        BY <3>1, <3>2
    <2>4. h[0] = 0
      BY <2>1
    <2>5. IsSum(n + 1, h)
      BY <2>3, <2>4
    <2>6. n + 1 \in Nat
      OBVIOUS
    <2> HIDE DEF h, IsSum
    <2> QED
      BY <2>2, <2>5, <2>6
  <1> HIDE DEF S
  <1>3. \A n \in Nat : n \in S
    BY <1>1, <1>2, SetInduction
  <1> QED
    BY <1>3 DEF S

\* Where pieces of given sizes begin when they lie back to back (sync_command.cc:212-222).
StartsOf(n, sizes) ==
  LET f[i \in 0 .. n - 1] == IF i = 0 THEN 0 ELSE f[i - 1] + sizes[i - 1] IN f

LEMMA StartsDefined ==
  ASSUME NEW n \in Nat, NEW s \in [0 .. n - 1 -> Nat]
  PROVE  /\ StartsOf(n, s) \in [0 .. n - 1 -> Nat]
         /\ 0 < n => StartsOf(n, s)[0] = 0
         /\ \A i \in 0 .. n - 1 :
              i + 1 < n => StartsOf(n, s)[i + 1] = StartsOf(n, s)[i] + s[i]
  <1> DEFINE D == 0 .. n - 1
             Eqn(g) == g = [i \in D |-> IF i = 0 THEN 0 ELSE g[i - 1] + s[i - 1]]
             f == StartsOf(n, s)
  <1>1. f = CHOOSE g : Eqn(g)
    BY DEF StartsOf
  <1>2. D = 0 .. n - 1
    OBVIOUS
  <1> HIDE DEF D, f
  <1>3. \E g : Eqn(g)
    <2> DEFINE all == [i \in Nat |-> IF i \in D THEN s[i] ELSE 0]
    <2>1. all \in [Nat -> Nat]
      BY <1>2
    <2> HIDE DEF all
    <2>2. PICK g \in [0 .. n -> Nat] :
            g[0] = 0 /\ \A i \in 1 .. n : g[i] = g[i - 1] + all[i - 1]
      BY <2>1, RunningSums
    <2> DEFINE h == [i \in D |-> g[i]]
    <2>3. ASSUME NEW i \in D, i # 0 PROVE h[i] = h[i - 1] + s[i - 1]
      <3>1. i \in 1 .. n /\ i - 1 \in D
        BY <1>2, <2>3
      <3>2. all[i - 1] = s[i - 1]
        BY <1>2, <3>1 DEF all
      <3> QED
        BY <2>2, <3>1, <3>2
    <2>4. ASSUME NEW i \in D
          PROVE  h[i] = IF i = 0 THEN 0 ELSE h[i - 1] + s[i - 1]
      BY <2>2, <2>3
    <2>5. h = [i \in D |-> IF i = 0 THEN 0 ELSE h[i - 1] + s[i - 1]]
      <3>1. h = [i \in D |-> h[i]]
        OBVIOUS
      <3> HIDE DEF h
      <3> QED
        BY <2>4, <3>1
    <2> HIDE DEF h
    <2> QED
      BY <2>5
  <1>4. Eqn(f)
    BY <1>1, <1>3
  <1>5. ASSUME NEW i \in D, i + 1 < n PROVE f[i + 1] = f[i] + s[i]
    <2> DEFINE j == i + 1
    <2>1. j \in D /\ j # 0 /\ j - 1 = i
      BY <1>2, <1>5
    <2>2. \A k \in D : f[k] = IF k = 0 THEN 0 ELSE f[k - 1] + s[k - 1]
      BY <1>4
    <2> HIDE DEF j
    <2>3. f[j] = f[j - 1] + s[j - 1]
      BY <2>1, <2>2, Zenon
    <2>4. f[j] = f[i] + s[i]
      BY <2>1, <2>3
    <2> QED
      BY <2>4 DEF j
  <1>6. 0 < n => f[0] = 0
    BY <1>2, <1>4
  <1> DEFINE S == {k \in Nat : k < n => f[k] \in Nat}
  <1>7. 0 \in S
    BY <1>6
  <1>8. ASSUME NEW k \in Nat, k \in S PROVE k + 1 \in S
    <2> SUFFICES ASSUME k + 1 < n PROVE f[k + 1] \in Nat
      OBVIOUS
    <2>1. k \in D /\ k \in 0 .. n - 1
      BY <1>2
    <2>2. f[k + 1] = f[k] + s[k] /\ s[k] \in Nat
      BY <1>5, <2>1
    <2>3. f[k] \in Nat
      BY <1>8
    <2> QED
      BY <2>2, <2>3
  <1> HIDE DEF S
  <1>9. \A k \in Nat : k \in S
    BY <1>7, <1>8, SetInduction
  <1>10. \A k \in D : f[k] \in Nat
    BY <1>2, <1>9 DEF S
  <1>11. f \in [D -> Nat]
    BY <1>4, <1>10
  <1> QED
    BY <1>2, <1>5, <1>6, <1>11 DEF f, D

\* The sums of the first entries of a table.
SumsOf(f, n) ==
  LET s[i \in 0 .. n] == IF i = 0 THEN 0 ELSE s[i - 1] + f[i - 1]
  IN s

LEMMA SumsDefined ==
  ASSUME NEW n \in Nat, NEW f \in [0 .. n - 1 -> Nat]
  PROVE  /\ SumsOf(f, n)[0] = 0
         /\ \A k \in 0 .. n - 1 : SumsOf(f, n)[k + 1] = SumsOf(f, n)[k] + f[k]
         /\ \A k \in 0 .. n : SumsOf(f, n)[k] \in Nat
  <1> DEFINE Eqn(g) == g = [i \in 0 .. n |-> IF i = 0 THEN 0 ELSE g[i - 1] + f[i - 1]]
             s == SumsOf(f, n)
             step == [k \in 0 .. n - 1 |-> [x \in Nat |-> x + f[k]]]
  <1>1. s = CHOOSE g : Eqn(g)
    BY DEF SumsOf
  <1>2. step \in [0 .. n - 1 -> [Nat -> Nat]]
    OBVIOUS
  <1>3. ASSUME NEW k \in 0 .. n - 1, NEW x \in Nat PROVE step[k][x] = x + f[k]
    BY <1>3
  <1> HIDE DEF s, step
  <1>4. PICK z : z = 0 /\ z \in Nat
    OBVIOUS
  <1>5. PICK g \in [0 .. n -> Nat] : Follows(g, n, z, step)
    BY <1>2, <1>4, RecursionExists
  <1>6. g[0] = 0
    BY <1>4, <1>5 DEF Follows
  <1>7. ASSUME NEW i \in 0 .. n, i # 0 PROVE g[i] = g[i - 1] + f[i - 1]
    <2>1. i - 1 \in 0 .. n - 1 /\ i - 1 \in 0 .. n /\ i - 1 + 1 = i
      BY <1>7
    <2>2. g[i - 1 + 1] = step[i - 1][g[i - 1]]
      BY <1>5, <2>1 DEF Follows
    <2>3. g[i - 1] \in Nat
      BY <2>1
    <2> QED
      BY <1>3, <2>1, <2>2, <2>3
  <1>8. Eqn(g)
    <2>1. g = [i \in 0 .. n |-> g[i]]
      OBVIOUS
    <2> QED
      BY <1>6, <1>7, <2>1
  <1>9. Eqn(s)
    <2> HIDE DEF Eqn
    <2> QED
      BY <1>1, <1>8
  <1>10. s[0] = 0
    <2>1. 0 \in 0 .. n
      OBVIOUS
    <2> QED
      BY <1>9, <2>1
  <1>11. ASSUME NEW k \in 0 .. n - 1 PROVE s[k + 1] = s[k] + f[k]
    <2>1. k + 1 \in 0 .. n /\ k + 1 # 0 /\ k + 1 - 1 = k
      OBVIOUS
    <2>2. \A i \in 0 .. n : i # 0 => s[i] = s[i - 1] + f[i - 1]
      BY <1>9
    <2> DEFINE i == k + 1
    <2>3. i \in 0 .. n /\ i # 0 /\ i - 1 = k
      BY <2>1
    <2> HIDE DEF Eqn, i
    <2>4. s[i] = s[i - 1] + f[i - 1]
      BY <2>2, <2>3, Zenon
    <2>5. s[i] = s[k] + f[k]
      BY <2>3, <2>4
    <2> QED
      BY <2>5 DEF i
  <1> DEFINE T == {k \in Nat : k <= n => s[k] \in Nat}
  <1>12. 0 \in T
    BY <1>10
  <1>13. ASSUME NEW k \in Nat, k \in T PROVE k + 1 \in T
    <2> SUFFICES ASSUME k + 1 <= n PROVE s[k + 1] \in Nat
      OBVIOUS
    <2>1. k \in 0 .. n - 1 /\ s[k] \in Nat
      BY <1>13
    <2>2. f[k] \in Nat
      BY <2>1
    <2> QED
      BY <1>11, <2>1, <2>2, SMTT(30)
  <1> HIDE DEF T
  <1>14. \A k \in Nat : k \in T
    BY <1>12, <1>13, SetInduction
  <1>15. \A k \in 0 .. n : s[k] \in Nat
    BY <1>14 DEF T
  <1> QED
    BY <1>10, <1>11, <1>15 DEF s

\* The sum of a whole table.
Total(f, n) == SumsOf(f, n)[n]

LEMMA TotalIsNumber ==
  ASSUME NEW n \in Nat, NEW f \in [0 .. n - 1 -> Nat]
  PROVE  Total(f, n) \in Nat
  BY SumsDefined DEF Total

\* A table of zeros.
LEMMA TotalOfZeros ==
  ASSUME NEW n \in Nat, NEW f \in [0 .. n - 1 -> Nat], \A k \in 0 .. n - 1 : f[k] = 0
  PROVE  Total(f, n) = 0
  <1> DEFINE s == SumsOf(f, n)
             T == {k \in Nat : k <= n => s[k] = 0}
  <1>1. s[0] = 0 /\ \A k \in 0 .. n - 1 : s[k + 1] = s[k] + f[k]
    BY SumsDefined
  <1> HIDE DEF s
  <1>2. 0 \in T
    BY <1>1
  <1>3. ASSUME NEW k \in Nat, k \in T PROVE k + 1 \in T
    <2> SUFFICES ASSUME k + 1 <= n PROVE s[k + 1] = 0
      OBVIOUS
    <2>1. k \in 0 .. n - 1 /\ s[k] = 0
      BY <1>3
    <2>2. f[k] = 0
      BY <2>1
    <2>3. s[k + 1] = s[k] + f[k]
      BY <1>1, <2>1
    <2> QED
      BY <2>1, <2>2, <2>3
  <1> HIDE DEF T
  <1>4. \A k \in Nat : k \in T
    BY <1>2, <1>3, SetInduction
  <1>5. n \in T
    BY <1>4
  <1> QED
    BY <1>5 DEF T, s, Total

\* One entry is filled in.
Filled(f, m, d, h) == f[m] = 0 /\ h = [f EXCEPT ![m] = d]

LEMMA TotalGrows ==
  ASSUME NEW n \in Nat, NEW f \in [0 .. n - 1 -> Nat], NEW m \in 0 .. n - 1, NEW d \in Nat,
         NEW h \in [0 .. n - 1 -> Nat], Filled(f, m, d, h)
  PROVE  Total(h, n) = Total(f, n) + d
  <1> DEFINE s == SumsOf(f, n)
             u == SumsOf(h, n)
             T == {k \in Nat : k <= n => u[k] = s[k] + (IF m < k THEN d ELSE 0)}
  <1>1. /\ s[0] = 0 /\ u[0] = 0
        /\ \A k \in 0 .. n - 1 : s[k + 1] = s[k] + f[k]
        /\ \A k \in 0 .. n - 1 : u[k + 1] = u[k] + h[k]
        /\ \A k \in 0 .. n : s[k] \in Nat
    BY SumsDefined
  <1> HIDE DEF s, u
  <1>2. 0 \in T
    BY <1>1
  <1>3. ASSUME NEW k \in Nat, k \in T PROVE k + 1 \in T
    <2> SUFFICES ASSUME k + 1 <= n
                 PROVE  u[k + 1] = s[k + 1] + (IF m < k + 1 THEN d ELSE 0)
      OBVIOUS
    <2>1. k \in 0 .. n - 1 /\ k \in 0 .. n
      OBVIOUS
    <2>2. u[k] = s[k] + (IF m < k THEN d ELSE 0)
      BY <1>3, <2>1
    <2>3. s[k + 1] = s[k] + f[k] /\ u[k + 1] = u[k] + h[k] /\ s[k] \in Nat
      BY <1>1, <2>1
    <2>4. f[k] \in Nat /\ h[k] = IF k = m THEN d ELSE f[k]
      BY <2>1 DEF Filled
    <2>5. k = m => f[k] = 0
      BY DEF Filled
    <2> QED
      BY <2>2, <2>3, <2>4, <2>5, SMTT(30)
  <1> HIDE DEF T
  <1>4. \A k \in Nat : k \in T
    BY <1>2, <1>3, SetInduction
  <1>5. n \in T
    BY <1>4
  <1>6. u[n] = s[n] + d
    BY <1>5 DEF T
  <1> QED
    BY <1>6 DEF s, u, Total

\* Two tables added up.
AddedUp(f, g, h, n) == \A k \in 0 .. n - 1 : h[k] = f[k] + g[k]

LEMMA TotalOfBoth ==
  ASSUME NEW n \in Nat, NEW f \in [0 .. n - 1 -> Nat], NEW g \in [0 .. n - 1 -> Nat],
         NEW h \in [0 .. n - 1 -> Nat], AddedUp(f, g, h, n)
  PROVE  Total(h, n) = Total(f, n) + Total(g, n)
  <1> DEFINE s == SumsOf(f, n)
             r == SumsOf(g, n)
             u == SumsOf(h, n)
             T == {k \in Nat : k <= n => u[k] = s[k] + r[k]}
  <1>1. /\ s[0] = 0 /\ r[0] = 0 /\ u[0] = 0
        /\ \A k \in 0 .. n - 1 : s[k + 1] = s[k] + f[k]
        /\ \A k \in 0 .. n - 1 : r[k + 1] = r[k] + g[k]
        /\ \A k \in 0 .. n - 1 : u[k + 1] = u[k] + h[k]
        /\ \A k \in 0 .. n : s[k] \in Nat /\ r[k] \in Nat
    BY SumsDefined
  <1> HIDE DEF s, r, u
  <1>2. 0 \in T
    BY <1>1
  <1>3. ASSUME NEW k \in Nat, k \in T PROVE k + 1 \in T
    <2> SUFFICES ASSUME k + 1 <= n PROVE u[k + 1] = s[k + 1] + r[k + 1]
      OBVIOUS
    <2>1. k \in 0 .. n - 1 /\ k \in 0 .. n
      OBVIOUS
    <2>2. u[k] = s[k] + r[k]
      BY <1>3, <2>1
    <2>3. /\ s[k + 1] = s[k] + f[k] /\ r[k + 1] = r[k] + g[k] /\ u[k + 1] = u[k] + h[k]
          /\ s[k] \in Nat /\ r[k] \in Nat
      BY <1>1, <2>1
    <2>4. f[k] \in Nat /\ g[k] \in Nat /\ h[k] = f[k] + g[k]
      BY <2>1 DEF AddedUp
    <2> QED
      BY <2>2, <2>3, <2>4, SMTT(30)
  <1> HIDE DEF T
  <1>4. \A k \in Nat : k \in T
    BY <1>2, <1>3, SetInduction
  <1>5. n \in T
    BY <1>4
  <1>6. u[n] = s[n] + r[n]
    BY <1>5 DEF T
  <1> QED
    BY <1>6 DEF s, r, u, Total

-----------------------------------------------------------------------------
(* The ranges of Parallelize. *)

\* The counts are numbers, and together the threads' chunks hold every block.
LEMMA ChunkFacts ==
  ASSUME NEW c, IsCall(c)
  PROVE  /\ BlockCount(c.size, c.block) \in Nat
         /\ RawChunk(c) \in Nat
         /\ Chunk(c) \in Nat
         /\ ThreadCount(c) \in Nat \ {0}
         /\ ThreadCount(c) <= c.threads
         /\ BlockCount(c.size, c.block) <= ThreadCount(c) * Chunk(c)
  <1>1. BlockCount(c.size, c.block) \in Nat
    BY CeilDivBounds DEF IsCall, BlockCount
  <1>2. /\ RawChunk(c) \in Nat
        /\ BlockCount(c.size, c.block) <= RawChunk(c) * c.threads
    BY <1>1, CeilDivBounds DEF IsCall, RawChunk
  <1>3. CASE TooSmall(c)
    BY <1>1, <1>2, <1>3 DEF IsCall, Chunk, ThreadCount
  <1>4. CASE ~TooSmall(c)
    BY <1>1, <1>2, <1>4 DEF IsCall, Chunk, ThreadCount
  <1> QED
    BY <1>1, <1>2, <1>3, <1>4

\* Offsets are natural numbers, and no range goes beyond the data.
LEMMA RangeFacts ==
  ASSUME NEW c, IsCall(c), NEW id \in Nat
  PROVE  /\ Beg(c, id) \in Nat
         /\ End(c, id) \in Nat
         /\ End(c, id) <= c.size
  <1>1. Chunk(c) \in Nat /\ c.block \in Nat /\ c.size \in Nat /\ c.overlap \in Nat
    BY ChunkFacts DEF IsCall
  <1>2. id * Chunk(c) \in Nat /\ (id + 1) * Chunk(c) \in Nat
    BY <1>1
  <1>3. id * Chunk(c) * c.block \in Nat /\ (id + 1) * Chunk(c) * c.block \in Nat
    BY <1>1, <1>2
  <1> QED
    BY <1>1, <1>3 DEF Beg, End, Min2

\* Every range begins at the first byte of a block: the CHECK of
\* prepare_command.cc:177 and the LOG_ASSERT of sync_command.cc:479.
LEMMA BegIsAligned ==
  ASSUME NEW c, IsCall(c), NEW id \in Nat
  PROVE  \E m \in Nat : Beg(c, id) = m * c.block
  <1>1. id * Chunk(c) \in Nat
    BY ChunkFacts
  <1> QED
    BY <1>1 DEF Beg

\* An aligned offset inside the data is the first byte of one of the blocks.
LEMMA AlignedIsBlockStart ==
  ASSUME NEW c, IsCall(c), NEW m \in Nat, m * c.block < c.size
  PROVE  m * c.block \in BlockStarts(c.size, c.block)
  <1>1. /\ BlockCount(c.size, c.block) \in Nat
        /\ c.size <= BlockCount(c.size, c.block) * c.block
    BY CeilDivBounds DEF IsCall, BlockCount
  <1>2. c.size \in Nat /\ c.block \in Nat \ {0}
    BY DEF IsCall
  <1>3. m * c.block < BlockCount(c.size, c.block) * c.block
    BY <1>1, <1>2
  <1>4. m < BlockCount(c.size, c.block)
    BY <1>1, <1>2, <1>3, TimesCancels
  <1> QED
    BY <1>1, <1>4 DEF BlockStarts

\* Conversely the blocks start inside the data.
LEMMA BlockStartIsInside ==
  ASSUME NEW c, IsCall(c), NEW k \in 0 .. BlockCount(c.size, c.block) - 1
  PROVE  k * c.block \in Nat /\ k * c.block < c.size
  <1>1. /\ BlockCount(c.size, c.block) \in Nat
        /\ BlockCount(c.size, c.block) * c.block < c.size + c.block
    BY CeilDivBounds DEF IsCall, BlockCount
  <1>2. c.size \in Nat /\ c.block \in Nat \ {0} /\ k \in Nat
    BY <1>1 DEF IsCall
  <1>3. (k + 1) * c.block <= BlockCount(c.size, c.block) * c.block
    BY <1>1, <1>2, TimesMonotone
  <1>4. (k + 1) * c.block = k * c.block + c.block
    BY <1>2, NextMultiple
  <1>5. k * c.block \in Nat
    BY <1>2
  <1>6. BlockCount(c.size, c.block) * c.block \in Nat
    BY <1>1, <1>2
  <1> QED
    BY <1>1, <1>2, <1>3, <1>4, <1>5, <1>6

\* Every block is as long as the code expects (sync_command.cc:325-332): the last one
\* is what the division leaves, if it leaves anything.
LEMMA SizeOfBlock ==
  ASSUME NEW n \in Nat, NEW b \in Nat \ {0}, NEW i \in 0 .. BlockCount(n, b) - 1
  PROVE  /\ i \in Nat /\ i * b \in Nat /\ i * b < n
         /\ (IF i < BlockCount(n, b) - 1 \/ n % b = 0 THEN b ELSE n % b) = Min2(b, n - i * b)
  <1> DEFINE count == BlockCount(n, b)
             expected == IF i < count - 1 \/ n % b = 0 THEN b ELSE n % b
  <1>1. /\ count \in Nat
        /\ n <= count * b
        /\ count * b < n + b
    BY CeilDivBounds DEF BlockCount
  <1> HIDE DEF count
  <1>2. i \in Nat /\ i <= count - 1
    BY <1>1 DEF count
  <1>3. i * b \in Nat /\ count * b \in Nat /\ (i + 1) * b = i * b + b
    BY <1>1, <1>2
  <1>4. i * b < n
    <2>1. (i + 1) * b <= count * b
      BY <1>1, <1>2, TimesMonotone
    <2> QED
      BY <1>1, <1>3, <2>1
  <1>5. expected = Min2(b, n - i * b)
    <2>1. CASE i < count - 1
      <3>1. (i + 1 + 1) * b <= count * b
        BY <1>1, <1>2, <2>1, TimesMonotone
      <3>2. (i + 1 + 1) * b = i * b + b + b
        BY <1>2
      <3>3. b <= n - i * b
        BY <1>1, <1>3, <3>1, <3>2
      <3> QED
        BY <2>1, <3>3 DEF expected, Min2
    <2>2. CASE i = count - 1
      <3> DEFINE q == n \div b
                 r == n % b
      <3>1. q \in Int /\ r \in Nat /\ r < b /\ n = q * b + r
        BY DivMod
      <3> HIDE DEF q, r
      <3>2. q * b \in Int
        BY <3>1
      <3>3. count * b = i * b + b
        <4>1. i + 1 = count
          BY <1>1, <1>2, <2>2
        <4> QED
          BY <1>3, <4>1
      <3>4. CASE r = 0
        <4>1. count = q
          <5>1. q * b <= count * b /\ count * b < q * b + b
            BY <1>1, <1>3, <3>1, <3>2, <3>4
          <5> QED
            BY <1>1, <3>1, <5>1, SameMultiple
        <4>2. n - i * b = b
          BY <1>3, <3>1, <3>3, <3>4, <4>1
        <4>3. expected = b
          BY <3>4 DEF expected, r
        <4> QED
          BY <4>2, <4>3 DEF Min2
      <3>5. CASE r # 0
        <4>1. i = q
          <5>1. q * b <= i * b + b /\ i * b < q * b + b
            BY <1>1, <1>4, <3>1, <3>2, <3>3
          <5>2. i < q + 1
            <6>1. (q + 1) * b = q * b + b
              BY <3>1
            <6> QED
              BY <1>2, <3>1, <5>1, <6>1, TimesCancels
          <5>3. q < i + 1
            <6>1. q * b < i * b + b
              BY <1>1, <1>3, <3>1, <3>2, <3>3, <3>5
            <6> QED
              BY <1>2, <1>3, <3>1, <6>1, TimesCancels
          <5> QED
            BY <1>2, <3>1, <5>2, <5>3
        <4>2. n - i * b = r
          BY <1>3, <3>1, <4>1
        <4>3. expected = r
          BY <2>2, <3>5 DEF expected, r
        <4> QED
          BY <3>1, <4>2, <4>3 DEF Min2
      <3> QED
        BY <3>4, <3>5
    <2> QED
      BY <1>1, <1>2, <2>1, <2>2
  <1> QED
    BY <1>2, <1>3, <1>4, <1>5 DEF expected, count

\* Without overlap a range ends where or before the next ones begin.
LEMMA RangesDisjoint ==
  ASSUME NEW c, IsCall(c), c.overlap = 0, NEW i \in Nat, NEW j \in Nat, i < j
  PROVE  End(c, i) <= Beg(c, j)
  <1>1. Chunk(c) \in Nat /\ c.block \in Nat /\ c.size \in Nat
    BY ChunkFacts DEF IsCall
  <1>2. (i + 1) * Chunk(c) <= j * Chunk(c)
    BY <1>1, TimesMonotone
  <1>3. (i + 1) * Chunk(c) \in Nat /\ j * Chunk(c) \in Nat
    BY <1>1
  <1>4. (i + 1) * Chunk(c) * c.block <= j * Chunk(c) * c.block
    BY <1>1, <1>2, <1>3, TimesMonotone
  <1>5. (i + 1) * Chunk(c) * c.block \in Nat /\ j * Chunk(c) * c.block \in Nat
    BY <1>1, <1>3
  <1> QED
    BY <1>1, <1>4, <1>5 DEF Beg, End, Min2

\* Every block starts in the range of some thread that is launched, and before
\* the overlap of that range.
LEMMA BlockHasOwner ==
  ASSUME NEW c, IsCall(c), NEW k \in 0 .. BlockCount(c.size, c.block) - 1
  PROVE  \E id \in ThreadIds(c) :
           /\ Beg(c, id) <= k * c.block
           /\ k * c.block < End(c, id)
           /\ k * c.block + c.block <= (id + 1) * Chunk(c) * c.block
  <1> DEFINE id == k \div Chunk(c)
  <1>1. /\ BlockCount(c.size, c.block) \in Nat
        /\ Chunk(c) \in Nat
        /\ ThreadCount(c) \in Nat \ {0}
        /\ BlockCount(c.size, c.block) <= ThreadCount(c) * Chunk(c)
    BY ChunkFacts
  <1>2. k \in Nat /\ c.size \in Nat /\ c.block \in Nat \ {0} /\ c.overlap \in Nat
    BY <1>1 DEF IsCall
  <1>3. Chunk(c) \in Nat \ {0}
    <2> SUFFICES ASSUME Chunk(c) = 0 PROVE FALSE
      BY <1>1
    <2>1. ThreadCount(c) * Chunk(c) = 0
      BY <1>1
    <2> QED
      BY <1>1, <2>1
  <1>4. id \in Nat /\ id * Chunk(c) <= k /\ k < id * Chunk(c) + Chunk(c)
    BY <1>2, <1>3, DivBounds
  <1> HIDE DEF id
  <1>5. id \in ThreadIds(c)
    <2>1. id * Chunk(c) < ThreadCount(c) * Chunk(c)
      <3>1. id * Chunk(c) \in Nat /\ ThreadCount(c) * Chunk(c) \in Nat
        BY <1>1, <1>4
      <3> QED
        BY <1>1, <1>4, <3>1
    <2>2. id < ThreadCount(c)
      BY <1>1, <1>3, <1>4, <2>1, TimesCancels
    <2> QED
      BY <1>1, <1>4, <2>2 DEF ThreadIds
  <1>6. Beg(c, id) <= k * c.block
    <2>1. id * Chunk(c) \in Nat
      BY <1>1, <1>4
    <2> QED
      BY <1>2, <1>4, <2>1, TimesMonotone DEF Beg
  <1>7. k * c.block + c.block <= (id + 1) * Chunk(c) * c.block
    <2>1. (id + 1) * Chunk(c) \in Nat /\ k + 1 <= (id + 1) * Chunk(c)
      BY <1>1, <1>2, <1>4
    <2>2. (k + 1) * c.block <= (id + 1) * Chunk(c) * c.block
      BY <1>2, <2>1, TimesMonotone
    <2>3. (k + 1) * c.block = k * c.block + c.block
      BY <1>2, NextMultiple
    <2> QED
      BY <2>2, <2>3
  <1>8. k * c.block < End(c, id)
    <2>1. k * c.block \in Nat /\ k * c.block < c.size
      BY BlockStartIsInside
    <2>2. (id + 1) * Chunk(c) \in Nat
      BY <1>1, <1>4
    <2>3. (id + 1) * Chunk(c) * c.block \in Nat
      BY <1>2, <2>2
    <2> QED
      BY <1>2, <1>7, <2>1, <2>3 DEF End, Min2
  <1> QED
    BY <1>5, <1>6, <1>7, <1>8

-----------------------------------------------------------------------------
(* Files. *)

\* A function on 1 .. n is a sequence of n elements.
LEMMA FunctionIsSeq ==
  ASSUME NEW S, NEW n \in Nat, NEW f \in [1 .. n -> S]
  PROVE  f \in Seq(S) /\ Len(f) = n
  OBVIOUS

\* Reading gives the cells there are, at most as many as asked for.
LEMMA ReadAtFacts ==
  ASSUME NEW S, NEW f \in Seq(S), NEW from \in Nat, NEW n \in Nat
  PROVE  /\ ReadAt(f, from, n) \in Seq(S)
         /\ Len(ReadAt(f, from, n)) =
              IF from + n <= Len(f) THEN n ELSE IF from <= Len(f) THEN Len(f) - from ELSE 0
         /\ \A j \in 1 .. Len(ReadAt(f, from, n)) : ReadAt(f, from, n)[j] = f[from + j]
  <1> DEFINE hi == IF from + n <= Len(f) THEN from + n ELSE Len(f)
  <1>1. Len(f) \in Nat /\ f \in [1 .. Len(f) -> S] /\ hi \in Nat /\ hi <= Len(f)
    BY LenProperties
  <1>2. \A i \in from + 1 .. hi : f[i] \in S
    BY <1>1
  <1>3. /\ SubSeq(f, from + 1, hi) \in Seq(S)
        /\ Len(SubSeq(f, from + 1, hi)) = IF from + 1 <= hi THEN hi - (from + 1) + 1 ELSE 0
        /\ \A i \in 1 .. hi - (from + 1) + 1 : SubSeq(f, from + 1, hi)[i] = f[from + 1 + i - 1]
    <2> HIDE DEF hi
    <2> QED
      BY <1>1, <1>2, SubSeqProperties
  <1>4. ReadAt(f, from, n) = SubSeq(f, from + 1, hi)
    BY DEF ReadAt
  <1>5. Len(SubSeq(f, from + 1, hi))
          = IF from + n <= Len(f) THEN n ELSE IF from <= Len(f) THEN Len(f) - from ELSE 0
    BY <1>1, <1>3
  <1>6. ASSUME NEW j \in 1 .. Len(SubSeq(f, from + 1, hi))
        PROVE  SubSeq(f, from + 1, hi)[j] = f[from + j]
    <2>1. j \in 1 .. hi - (from + 1) + 1 /\ from + 1 + j - 1 = from + j
      BY <1>1, <1>3
    <2> QED
      BY <1>3, <2>1
  <1> QED
    BY <1>3, <1>4, <1>5, <1>6

\* Writing inside a file keeps its size and changes the cells written, no other.
LEMMA WriteInside ==
  ASSUME NEW S, NEW f \in Seq(S), NEW at \in Nat, NEW T, NEW cells \in Seq(T), NEW fill,
         at + Len(cells) <= Len(f)
  PROVE  WriteAt(f, at, cells, fill)
           = [j \in 1 .. Len(f) |-> IF at < j /\ j <= at + Len(cells) THEN cells[j - at] ELSE f[j]]
  <1>1. Len(f) \in Nat /\ Len(cells) \in Nat
    BY LenProperties
  <1>2. (IF at + Len(cells) > Len(f) THEN at + Len(cells) ELSE Len(f)) = Len(f)
    <2>1. ~ (at + Len(cells) > Len(f))
      BY <1>1
    <2> QED
      BY <2>1
  <1>3. \A j \in 1 .. Len(f) : j \in at + 1 .. at + Len(cells) <=> at < j /\ j <= at + Len(cells)
    BY <1>1
  <1>4. \A j \in 1 .. Len(f) : j <= Len(f)
    BY <1>1
  <1> QED
    BY <1>2, <1>3, <1>4, Zenon DEF WriteAt

LEMMA WriteAtInside ==
  ASSUME NEW S, NEW f \in Seq(S), NEW at \in Nat, NEW T, NEW cells \in Seq(T), NEW fill,
         at + Len(cells) <= Len(f)
  PROVE  /\ DOMAIN WriteAt(f, at, cells, fill) = 1 .. Len(f)
         /\ \A j \in 1 .. Len(f) : WriteAt(f, at, cells, fill)[j] =
              IF at < j /\ j <= at + Len(cells) THEN cells[j - at] ELSE f[j]
         /\ (\A j \in 1 .. Len(cells) : cells[j] \in S) =>
              WriteAt(f, at, cells, fill) \in Seq(S) /\ Len(WriteAt(f, at, cells, fill)) = Len(f)
  <1> DEFINE w == [j \in 1 .. Len(f) |->
                    IF at < j /\ j <= at + Len(cells) THEN cells[j - at] ELSE f[j]]
  <1>1. Len(f) \in Nat /\ f \in [1 .. Len(f) -> S] /\ Len(cells) \in Nat
    BY LenProperties
  <1>2. WriteAt(f, at, cells, fill) = w
    BY WriteInside
  <1>3. ASSUME \A j \in 1 .. Len(cells) : cells[j] \in S
        PROVE  w \in [1 .. Len(f) -> S]
    BY <1>1, <1>3
  <1>4. (\A j \in 1 .. Len(cells) : cells[j] \in S) => w \in Seq(S) /\ Len(w) = Len(f)
    <2> HIDE DEF w
    <2> QED
      BY <1>1, <1>3, FunctionIsSeq
  <1> QED
    BY <1>2, <1>4

\* Writing anywhere: a file that is too short grows.
LEMMA WriteAtFacts ==
  ASSUME NEW S, NEW f \in Seq(S), NEW at \in Nat, NEW cells \in Seq(S), NEW fill \in S
  PROVE  /\ WriteAt(f, at, cells, fill) \in Seq(S)
         /\ Len(WriteAt(f, at, cells, fill)) \in Nat
         /\ at + Len(cells) <= Len(WriteAt(f, at, cells, fill))
         /\ Len(f) <= Len(WriteAt(f, at, cells, fill))
         /\ \A j \in 1 .. Len(f) : ~(at < j /\ j <= at + Len(cells)) =>
              WriteAt(f, at, cells, fill)[j] = f[j]
         /\ \A j \in 1 .. Len(cells) : WriteAt(f, at, cells, fill)[at + j] = cells[j]
  <1> DEFINE size == IF at + Len(cells) > Len(f) THEN at + Len(cells) ELSE Len(f)
             w == WriteAt(f, at, cells, fill)
  <1>1. Len(f) \in Nat /\ f \in [1 .. Len(f) -> S] /\ Len(cells) \in Nat /\ cells \in [1 .. Len(cells) -> S]
    BY LenProperties
  <1>2. size \in Nat /\ at + Len(cells) <= size /\ Len(f) <= size
    BY <1>1
  <1>3. w = [j \in 1 .. size |-> IF j \in at + 1 .. at + Len(cells) THEN cells[j - at]
                                ELSE IF j <= Len(f) THEN f[j] ELSE fill]
    BY Zenon DEF WriteAt
  <1> HIDE DEF size, w
  <1>4. w \in [1 .. size -> S]
    <2>1. ASSUME NEW j \in 1 .. size
          PROVE  (IF j \in at + 1 .. at + Len(cells) THEN cells[j - at]
                  ELSE IF j <= Len(f) THEN f[j] ELSE fill) \in S
      <3>1. CASE j \in at + 1 .. at + Len(cells)
        <4>1. j - at \in 1 .. Len(cells)
          BY <1>1, <3>1
        <4> QED
          BY <1>1, <3>1, <4>1
      <3>2. CASE j \notin at + 1 .. at + Len(cells) /\ j <= Len(f)
        BY <1>1, <3>2
      <3> QED
        BY <3>1, <3>2
    <2> QED
      BY <1>3, <2>1
  <1>5. w \in Seq(S) /\ Len(w) = size
    BY <1>2, <1>4, FunctionIsSeq
  <1>6. ASSUME NEW j \in 1 .. Len(f), ~(at < j /\ j <= at + Len(cells)) PROVE w[j] = f[j]
    <2>1. j \in 1 .. size /\ j \notin at + 1 .. at + Len(cells) /\ j <= Len(f)
      BY <1>1, <1>2, <1>6
    <2> QED
      BY <1>3, <2>1
  <1>7. ASSUME NEW j \in 1 .. Len(cells) PROVE w[at + j] = cells[j]
    <2>1. at + j \in 1 .. size /\ at + j \in at + 1 .. at + Len(cells) /\ at + j - at = j
      BY <1>1, <1>2
    <2> QED
      BY <1>3, <2>1
  <1>8. w \in Seq(S) /\ Len(w) \in Nat /\ at + Len(cells) <= Len(w) /\ Len(f) <= Len(w)
    BY <1>2, <1>5
  <1> QED
    BY <1>6, <1>7, <1>8 DEF w

\* The same, one cell at a time.
LEMMA ReadInside ==
  ASSUME NEW S, NEW f \in Seq(S), NEW from \in Nat, NEW n \in Nat, from + n <= Len(f)
  PROVE  ReadAt(f, from, n) \in Seq(S) /\ Len(ReadAt(f, from, n)) = n
  BY ReadAtFacts

LEMMA ReadCell ==
  ASSUME NEW S, NEW f \in Seq(S), NEW from \in Nat, NEW n \in Nat, from + n <= Len(f),
         NEW j \in 1 .. n
  PROVE  ReadAt(f, from, n)[j] = f[from + j]
  <1>1. Len(ReadAt(f, from, n)) = n
    BY ReadInside
  <1>2. \A k \in 1 .. Len(ReadAt(f, from, n)) : ReadAt(f, from, n)[k] = f[from + k]
    BY ReadAtFacts, Zenon
  <1> QED
    BY <1>1, <1>2

LEMMA WrittenSize ==
  ASSUME NEW S, NEW f \in Seq(S), NEW at \in Nat, NEW cells \in Seq(S), NEW fill \in S
  PROVE  /\ WriteAt(f, at, cells, fill) \in Seq(S)
         /\ Len(WriteAt(f, at, cells, fill)) \in Nat
         /\ at + Len(cells) <= Len(WriteAt(f, at, cells, fill))
         /\ Len(f) <= Len(WriteAt(f, at, cells, fill))
  BY WriteAtFacts

LEMMA WrittenCell ==
  ASSUME NEW S, NEW f \in Seq(S), NEW at \in Nat, NEW cells \in Seq(S), NEW fill \in S,
         NEW j \in 1 .. Len(cells)
  PROVE  WriteAt(f, at, cells, fill)[at + j] = cells[j]
  BY WriteAtFacts

LEMMA KeptCell ==
  ASSUME NEW S, NEW f \in Seq(S), NEW at \in Nat, NEW cells \in Seq(S), NEW fill \in S,
         NEW j \in 1 .. Len(f), ~(at < j /\ j <= at + Len(cells))
  PROVE  WriteAt(f, at, cells, fill)[j] = f[j]
  BY WriteAtFacts

\* The cells of two sequences, one behind the other.
LEMMA Concatenated ==
  ASSUME NEW S, NEW a \in Seq(S), NEW b \in Seq(S)
  PROVE  /\ a \o b \in Seq(S) /\ Len(a) \in Nat /\ Len(b) \in Nat
         /\ Len(a \o b) = Len(a) + Len(b)
         /\ \A j \in 1 .. Len(a) : (a \o b)[j] = a[j]
         /\ \A j \in 1 .. Len(b) : (a \o b)[Len(a) + j] = b[j]
  <1>1. a \o b \in Seq(S) /\ Len(a) \in Nat /\ Len(b) \in Nat /\ Len(a \o b) = Len(a) + Len(b)
    BY ConcatProperties, LenProperties
  <1>2. \A j \in 1 .. Len(a) + Len(b) :
          (a \o b)[j] = IF j <= Len(a) THEN a[j] ELSE b[j - Len(a)]
    BY ConcatProperties
  <1> DEFINE c == a \o b
             m == Len(a)
             n == Len(b)
  <1> HIDE DEF c, m, n
  <1>3. ASSUME NEW j \in 1 .. m PROVE c[j] = a[j]
    <2>1. j \in 1 .. m + n /\ j <= m
      BY <1>1 DEF m, n
    <2> QED
      BY <1>2, <2>1 DEF c, m, n
  <1>4. ASSUME NEW j \in 1 .. n PROVE c[m + j] = b[j]
    <2> DEFINE k == m + j
    <2>1. k \in 1 .. m + n /\ ~(k <= m) /\ k - m = j
      BY <1>1 DEF m, n
    <2> HIDE DEF k
    <2>2. c[k] = b[k - m]
      BY <1>2, <2>1 DEF c, m, n
    <2> QED
      BY <2>1, <2>2 DEF k
  <1> QED
    BY <1>1, <1>3, <1>4 DEF c, m, n

\* A sequence is its front and its rest.
LEMMA FrontAndRest ==
  ASSUME NEW S, NEW s \in Seq(S), NEW n \in 0 .. Len(s)
  PROVE  /\ SubSeq(s, 1, n) \in Seq(S) /\ SubSeq(s, n + 1, Len(s)) \in Seq(S)
         /\ Len(SubSeq(s, 1, n)) = n /\ Len(SubSeq(s, n + 1, Len(s))) = Len(s) - n
         /\ \A j \in 1 .. n : SubSeq(s, 1, n)[j] = s[j]
         /\ \A j \in 1 .. Len(s) - n : SubSeq(s, n + 1, Len(s))[j] = s[n + j]
         /\ SubSeq(s, 1, n) \o SubSeq(s, n + 1, Len(s)) = s
  <1>1. Len(s) \in Nat /\ \A j \in 1 .. Len(s) : s[j] \in S
    BY LenProperties
  <1>2. n \in Int /\ n + 1 \in Int /\ Len(s) \in Int
    BY <1>1
  <1>3. \A j \in 1 .. n : s[j] \in S
    BY <1>1
  <1>4. \A j \in n + 1 .. Len(s) : s[j] \in S
    BY <1>1
  <1>5. /\ SubSeq(s, 1, n) \in Seq(S)
        /\ Len(SubSeq(s, 1, n)) = IF 1 <= n THEN n - 1 + 1 ELSE 0
        /\ \A j \in 1 .. n - 1 + 1 : SubSeq(s, 1, n)[j] = s[1 + j - 1]
    BY <1>2, <1>3, SubSeqProperties
  <1>6. /\ SubSeq(s, n + 1, Len(s)) \in Seq(S)
        /\ Len(SubSeq(s, n + 1, Len(s))) = IF n + 1 <= Len(s) THEN Len(s) - (n + 1) + 1 ELSE 0
        /\ \A j \in 1 .. Len(s) - (n + 1) + 1 : SubSeq(s, n + 1, Len(s))[j] = s[n + 1 + j - 1]
    BY <1>2, <1>4, SubSeqProperties
  <1>7. ASSUME NEW j \in 1 .. n PROVE SubSeq(s, 1, n)[j] = s[j]
    <2>1. j \in 1 .. n - 1 + 1 /\ 1 + j - 1 = j
      BY <1>2
    <2> QED
      BY <1>5, <2>1
  <1>8. ASSUME NEW j \in 1 .. Len(s) - n PROVE SubSeq(s, n + 1, Len(s))[j] = s[n + j]
    <2>1. j \in 1 .. Len(s) - (n + 1) + 1 /\ n + 1 + j - 1 = n + j
      BY <1>2
    <2> QED
      BY <1>6, <2>1
  <1>9. SubSeq(s, 1, n) \o SubSeq(s, n + 1, Len(s)) = s
    <2>1. 1 \in 1 .. Len(s) + 1 /\ n \in 1 - 1 .. Len(s) /\ Len(s) \in n .. Len(s)
      BY <1>1
    <2>2. SubSeq(s, 1, n) \o SubSeq(s, n + 1, Len(s)) = SubSeq(s, 1, Len(s))
      BY <2>1, ConcatAdjacentSubSeq
    <2> QED
      BY <2>2, SubSeqFull
  <1>10. Len(SubSeq(s, 1, n)) = n /\ Len(SubSeq(s, n + 1, Len(s))) = Len(s) - n
    BY <1>1, <1>5, <1>6
  <1> QED
    BY <1>5, <1>6, <1>7, <1>8, <1>9, <1>10

\* Resizing gives a file of the size asked for.
LEMMA ResizedFacts ==
  ASSUME NEW S, NEW f \in Seq(S), NEW n \in Nat, NEW fill \in S
  PROVE  /\ Resized(f, n, fill) \in Seq(S) /\ Len(Resized(f, n, fill)) = n
         /\ \A j \in 1 .. n : j <= Len(f) => Resized(f, n, fill)[j] = f[j]
  <1>1. Resized(f, n, fill) \in [1 .. n -> S]
    BY LenProperties DEF Resized
  <1>2. \A j \in 1 .. n : j <= Len(f) => Resized(f, n, fill)[j] = f[j]
    BY DEF Resized
  <1> QED
    BY <1>1, <1>2, FunctionIsSeq
=============================================================================
