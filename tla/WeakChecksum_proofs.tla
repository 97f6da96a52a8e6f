------------------------- MODULE WeakChecksum_proofs -------------------------
(***************************************************************************)
(* The rolled weak checksum is the directly computed one, for every width  *)
(* of the sums, every set of bytes and every block size.                   *)
(*                                                                         *)
(* The argument is about the sums before they are wrapped: moving the      *)
(* window by one byte changes them exactly as the loop says, and wrapping  *)
(* in between makes no difference (RemainderOfSum).                        *)
(***************************************************************************)
EXTENDS WeakChecksum, RangesAndFiles_proofs

\* What the bytes of a block add to the second sum.
Weighted(n, w) == [k \in 0 .. n - 1 |-> (n - k) * w[k]]

\* s and t are the running sums of weak_checksum.cc:11-16 over the block w of n
\* bytes, without the wrapping.
AreSums(n, w, s, t) ==
  /\ s \in [0 .. n -> Int] /\ t \in [0 .. n -> Int]
  /\ s[0] = 0 /\ t[0] = 0
  /\ \A k \in 0 .. n - 1 : s[k + 1] = s[k] + w[k]
  /\ \A k \in 0 .. n - 1 : t[k + 1] = t[k] + Weighted(n, w)[k]

\* The block w is v moved on by one byte.
Slides(n, v, w) == \A k \in 0 .. n - 2 : w[k] = v[k + 1]

\* How the sums follow: what is left out comes off the first one, and the second one
\* loses it as often as the block is long and gains the first.
SumsFollow(n, v, w, s, t, s2, t2) ==
  /\ s2[n] = s[n] + w[n - 1] - v[0]
  /\ t2[n] = t[n] + s2[n] - n * v[0]

\* Between two bytes a and b are the wrapped sums of the window, and between two
\* calls what the last one returned holds both.
RollInv ==
  /\ size \in Sizes
  /\ i \in 0 .. size
  /\ buffer \in [-size .. size - 1 -> ByteValues]
  /\ i = size => running_wcs = Packed(a, b)
  /\ \E s, t : /\ AreSums(size, Window, s, t)
               /\ a = Wrapped(s[size])
               /\ b = Wrapped(t[size])

-----------------------------------------------------------------------------
(* Sums. *)

\* The weighted bytes are numbers.
LEMMA WeightedFacts ==
  ASSUME NEW n \in Nat, NEW w \in [0 .. n - 1 -> Int]
  PROVE  /\ Weighted(n, w) \in [0 .. n - 1 -> Int]
         /\ \A k \in 0 .. n - 1 : Weighted(n, w)[k] = (n - k) * w[k]
  <1>1. \A k \in 0 .. n - 1 : (n - k) * w[k] \in Int
    OBVIOUS
  <1>2. Weighted(n, w) = [k \in 0 .. n - 1 |-> (n - k) * w[k]]
    BY DEF Weighted
  <1> QED
    BY <1>1, <1>2

\* When the window moves on, every byte that stays counts once more.
LEMMA WeightedRolled ==
  ASSUME NEW n \in Nat \ {0}, NEW v \in [0 .. n - 1 -> Int], NEW w \in [0 .. n - 1 -> Int],
         Slides(n, v, w)
  PROVE  /\ Weighted(n, v)[0] = n * v[0]
         /\ Weighted(n, w)[n - 1] = w[n - 1]
         /\ \A k \in 0 .. n - 2 : Weighted(n, w)[k] = Weighted(n, v)[k + 1] + v[k + 1]
  <1>1. Weighted(n, v)[0] = n * v[0]
    <2>1. 0 \in 0 .. n - 1 /\ n - 0 = n
      OBVIOUS
    <2>2. Weighted(n, v)[0] = (n - 0) * v[0]
      BY <2>1, WeightedFacts
    <2> QED
      BY <2>1, <2>2
  <1>2. Weighted(n, w)[n - 1] = w[n - 1]
    <2>1. n - 1 \in 0 .. n - 1 /\ n - (n - 1) = 1 /\ w[n - 1] \in Int
      OBVIOUS
    <2>2. Weighted(n, w)[n - 1] = (n - (n - 1)) * w[n - 1]
      BY <2>1, WeightedFacts
    <2>3. Weighted(n, w)[n - 1] = 1 * w[n - 1]
      BY <2>1, <2>2
    <2> QED
      BY <2>1, <2>3
  <1>3. ASSUME NEW k \in 0 .. n - 2
        PROVE  Weighted(n, w)[k] = Weighted(n, v)[k + 1] + v[k + 1]
    <2>1. k \in 0 .. n - 1 /\ k + 1 \in 0 .. n - 1 /\ k \in Nat /\ w[k] = v[k + 1]
      BY DEF Slides
    <2>2. PICK x \in Int : x = v[k + 1]
      BY <2>1
    <2>3. PICK m \in Int : m = n - k
      BY <2>1
    <2>4. n - (k + 1) = m - 1
      BY <2>1, <2>3
    <2>5. Weighted(n, w)[k] = m * x
      BY <2>1, <2>2, <2>3, WeightedFacts, SMTT(30)
    <2>6. Weighted(n, v)[k + 1] = (m - 1) * x
      <3>1. Weighted(n, v)[k + 1] = (n - (k + 1)) * v[k + 1]
        BY <2>1, WeightedFacts
      <3> QED
        BY <2>2, <2>4, <3>1
    <2>7. m * x = (m - 1) * x + x
      OBVIOUS
    <2> QED
      BY <2>2, <2>5, <2>6, <2>7
  <1> QED
    BY <1>1, <1>2, <1>3

\* One running sum of given terms.
LEMMA SumExists ==
  ASSUME NEW n \in Nat, NEW term \in [0 .. n - 1 -> Int]
  PROVE  \E s \in [0 .. n -> Int] :
           s[0] = 0 /\ \A k \in 0 .. n - 1 : s[k + 1] = s[k] + term[k]
  <1> DEFINE step == [k \in 0 .. n - 1 |-> [x \in Int |-> x + term[k]]]
  <1>1. step \in [0 .. n - 1 -> [Int -> Int]]
    OBVIOUS
  <1>2. \A k \in 0 .. n - 1, x \in Int : step[k][x] = x + term[k]
    OBVIOUS
  <1> HIDE DEF step
  <1>3. PICK z \in Int : z = 0
    OBVIOUS
  <1>4. PICK s \in [0 .. n -> Int] : Follows(s, n, z, step)
    BY <1>1, RecursionExists
  <1>5. ASSUME NEW k \in 0 .. n - 1 PROVE s[k + 1] = s[k] + term[k]
    <2>1. s[k] \in Int
      OBVIOUS
    <2>2. s[k + 1] = step[k][s[k]]
      BY <1>4 DEF Follows
    <2> QED
      BY <1>2, <2>1, <2>2
  <1> QED
    BY <1>3, <1>4, <1>5 DEF Follows

\* Every block has its sums.
LEMMA SumsExist ==
  ASSUME NEW n \in Nat, NEW w \in [0 .. n - 1 -> Int]
  PROVE  \E s, t : AreSums(n, w, s, t)
  <1>1. PICK s \in [0 .. n -> Int] :
          s[0] = 0 /\ \A k \in 0 .. n - 1 : s[k + 1] = s[k] + w[k]
    BY SumExists
  <1>2. PICK t \in [0 .. n -> Int] :
          t[0] = 0 /\ \A k \in 0 .. n - 1 : t[k + 1] = t[k] + Weighted(n, w)[k]
    BY WeightedFacts, SumExists
  <1>3. AreSums(n, w, s, t)
    BY <1>1, <1>2, Zenon DEF AreSums
  <1> QED
    BY <1>3

\* The window moves on by one byte, and the sums follow.
LEMMA SumsRolled ==
  ASSUME NEW n \in Nat \ {0}, NEW v \in [0 .. n - 1 -> Int], NEW w \in [0 .. n - 1 -> Int],
         Slides(n, v, w),
         NEW s, NEW t, AreSums(n, v, s, t),
         NEW s2, NEW t2, AreSums(n, w, s2, t2)
  PROVE  SumsFollow(n, v, w, s, t, s2, t2)
  <1> DEFINE p == Weighted(n, v)
             q == Weighted(n, w)
  <1>1. p \in [0 .. n - 1 -> Int] /\ q \in [0 .. n - 1 -> Int]
    BY WeightedFacts
  <1>2. /\ p[0] = n * v[0] /\ q[n - 1] = w[n - 1]
        /\ \A k \in 0 .. n - 2 : q[k] = p[k + 1] + v[k + 1]
    BY WeightedRolled
  <1>3. /\ s \in [0 .. n -> Int] /\ t \in [0 .. n -> Int] /\ s[0] = 0 /\ t[0] = 0
        /\ \A k \in 0 .. n - 1 : s[k + 1] = s[k] + v[k]
        /\ \A k \in 0 .. n - 1 : t[k + 1] = t[k] + p[k]
    BY Zenon DEF AreSums
  <1>4. /\ s2 \in [0 .. n -> Int] /\ t2 \in [0 .. n -> Int] /\ s2[0] = 0 /\ t2[0] = 0
        /\ \A k \in 0 .. n - 1 : s2[k + 1] = s2[k] + w[k]
        /\ \A k \in 0 .. n - 1 : t2[k + 1] = t2[k] + q[k]
    BY Zenon DEF AreSums
  <1> HIDE DEF p, q
  <1> DEFINE S == {k \in Nat : k <= n - 1 =>
                     /\ s2[k] = s[k + 1] - v[0]
                     /\ t2[k] = t[k + 1] - p[0] + s[k + 1] - v[0]}
  <1>5. 0 \in S
    <2>1. 0 \in 0 .. n - 1 /\ 0 + 1 = 1 /\ v[0] \in Int /\ p[0] \in Int
      BY <1>1
    <2>2. s[1] = v[0] /\ t[1] = p[0]
      BY <1>3, <2>1
    <2> QED
      BY <1>4, <2>1, <2>2
  <1>6. ASSUME NEW k \in Nat, k \in S PROVE k + 1 \in S
    <2> SUFFICES ASSUME k + 1 <= n - 1
                 PROVE  /\ s2[k + 1] = s[k + 1 + 1] - v[0]
                        /\ t2[k + 1] = t[k + 1 + 1] - p[0] + s[k + 1 + 1] - v[0]
      OBVIOUS
    <2>1. /\ k \in 0 .. n - 1 /\ k + 1 \in 0 .. n - 1 /\ k \in 0 .. n - 2
          /\ k \in 0 .. n /\ k + 1 \in 0 .. n /\ 0 \in 0 .. n - 1
      OBVIOUS
    <2>2. /\ s[k + 1] \in Int /\ t[k + 1] \in Int /\ s2[k] \in Int /\ t2[k] \in Int
          /\ v[k + 1] \in Int /\ v[0] \in Int /\ p[k + 1] \in Int /\ p[0] \in Int
      BY <1>1, <1>3, <1>4, <2>1
    <2>3. s[k + 1 + 1] = s[k + 1] + v[k + 1] /\ t[k + 1 + 1] = t[k + 1] + p[k + 1]
      BY <1>3, <2>1
    <2>4. s2[k + 1] = s2[k] + v[k + 1] /\ t2[k + 1] = t2[k] + (p[k + 1] + v[k + 1])
      <3>1. w[k] = v[k + 1] /\ q[k] = p[k + 1] + v[k + 1]
        BY <1>2, <2>1 DEF Slides
      <3>2. s2[k + 1] = s2[k] + w[k] /\ t2[k + 1] = t2[k] + q[k]
        BY <1>4, <2>1
      <3> QED
        BY <3>1, <3>2
    <2>5. s2[k] = s[k + 1] - v[0] /\ t2[k] = t[k + 1] - p[0] + s[k + 1] - v[0]
      BY <1>6, <2>1
    <2> HIDE DEF S
    <2> DEFINE s_ == s[k + 1]  t_ == t[k + 1]  v_ == v[k + 1]  p_ == p[k + 1]
               s2_ == s2[k]  t2_ == t2[k]  v0 == v[0]  p0 == p[0]
    <2>6. /\ s_ \in Int /\ t_ \in Int /\ v_ \in Int /\ p_ \in Int
          /\ s2_ \in Int /\ t2_ \in Int /\ v0 \in Int /\ p0 \in Int
          /\ s2_ = s_ - v0 /\ t2_ = t_ - p0 + s_ - v0
      BY <2>2, <2>5
    <2>7. /\ s[k + 1 + 1] = s_ + v_ /\ t[k + 1 + 1] = t_ + p_
          /\ s2[k + 1] = s2_ + v_ /\ t2[k + 1] = t2_ + (p_ + v_)
      BY <2>3, <2>4
    <2> HIDE DEF s_, t_, v_, p_, s2_, t2_, v0, p0
    <2>8. s2_ + v_ = s_ + v_ - v0 /\ t2_ + (p_ + v_) = t_ + p_ - p0 + (s_ + v_) - v0
      BY <2>6
    <2>9. s2[k + 1] = s[k + 1 + 1] - v0
      BY <2>6, <2>7, <2>8
    <2>10. t2[k + 1] = t[k + 1 + 1] - p0 + s[k + 1 + 1] - v0
      BY <2>6, <2>7, <2>8
    <2> QED
      BY <2>9, <2>10 DEF v0, p0
  <1>7. n - 1 \in S
    <2> HIDE DEF S
    <2>1. \A k \in Nat : k \in S
      BY <1>5, <1>6, SetInduction
    <2> QED
      BY <2>1
  <1>8. n - 1 + 1 = n /\ n - 1 \in 0 .. n - 1 /\ 0 \in 0 .. n - 1 /\ n \in 0 .. n
    OBVIOUS
  <1>9. s2[n - 1] = s[n] - v[0] /\ t2[n - 1] = t[n] - p[0] + s[n] - v[0]
    BY <1>7, <1>8
  <1>10. s2[n] = s2[n - 1] + w[n - 1] /\ t2[n] = t2[n - 1] + w[n - 1]
    BY <1>2, <1>4, <1>8
  <1>11. s[n] \in Int /\ t[n] \in Int /\ w[n - 1] \in Int /\ v[0] \in Int /\ p[0] \in Int
    BY <1>1, <1>3, <1>8
  <1>12. s2[n] = s[n] + w[n - 1] - v[0] /\ t2[n] = t[n] + s2[n] - p[0]
    BY <1>9, <1>10, <1>11
  <1> QED
    BY <1>2, <1>12 DEF SumsFollow

-----------------------------------------------------------------------------
(* Wrapping. *)

\* Wrapping a part of a sum does not change the wrapped sum.
LEMMA WrappedPart ==
  ASSUME NEW x \in Int, NEW y \in Int
  PROVE  Wrapped(Wrapped(x) + y) = Wrapped(x + y)
  <1> DEFINE q == x \div Modulus
             r == x % Modulus
  <1>1. q \in Int /\ r \in Nat /\ x = q * Modulus + r
    BY DivMod, WeakChecksumAssumption
  <1> HIDE DEF q, r
  <1>2. x + y = (r + y) + q * Modulus
    BY <1>1, WeakChecksumAssumption
  <1>3. ((r + y) + q * Modulus) % Modulus = (r + y) % Modulus
    <2> DEFINE z == r + y
    <2>1. z \in Int
      BY <1>1
    <2> HIDE DEF z
    <2>2. (z + q * Modulus) % Modulus = z % Modulus
      BY <1>1, <2>1, RemainderOfSum, WeakChecksumAssumption
    <2> QED
      BY <2>2 DEF z
  <1> QED
    BY <1>2, <1>3 DEF Wrapped, r

\* A wrapped sum fits into its half of the checksum.
LEMMA WrappedFits ==
  ASSUME NEW x \in Int
  PROVE  Wrapped(x) \in Nat /\ Wrapped(x) < Modulus
  BY DivMod, WeakChecksumAssumption DEF Wrapped

\* The halves of a checksum come back out of it.
LEMMA Unpacked ==
  ASSUME NEW x \in Nat, NEW y \in Nat, x < Modulus
  PROVE  Low(Packed(x, y)) = x /\ High(Packed(x, y)) = y
  BY RemainderIsUnique, QuotientIsUnique, WeakChecksumAssumption DEF Low, High, Packed

\* What is computed at once are the wrapped sums.
LEMMA DirectIsSums ==
  ASSUME size \in Nat \ {0}, NEW w \in [Block -> Int], NEW s, NEW t, AreSums(size, w, s, t)
  PROVE  Direct(w) = Packed(Wrapped(s[size]), Wrapped(t[size]))
  <1> DEFINE Eqn(g) ==
               g = [k \in 0 .. size |->
                      IF k = 0 THEN <<0, 0>>
                      ELSE <<Wrapped(g[k - 1][1] + w[k - 1]),
                             Wrapped(g[k - 1][2] + (size - (k - 1)) * w[k - 1])>>]
             f == CHOOSE g : Eqn(g)
             h == [k \in 0 .. size |-> <<Wrapped(s[k]), Wrapped(t[k])>>]
  <1>1. Direct(w) = Packed(f[size][1], f[size][2])
    BY DEF Direct
  <1>2. ASSUME NEW k \in 0 .. size, k # 0
        PROVE  h[k] = <<Wrapped(h[k - 1][1] + w[k - 1]),
                        Wrapped(h[k - 1][2] + (size - (k - 1)) * w[k - 1])>>
    <2>1. k - 1 \in 0 .. size - 1 /\ k - 1 \in 0 .. size /\ k - 1 + 1 = k
      BY <1>2
    <2>2. w[k - 1] \in Int /\ s[k - 1] \in Int /\ t[k - 1] \in Int
      BY <2>1 DEF AreSums, Block
    <2>3. (size - (k - 1)) * w[k - 1] \in Int
      BY <2>1, <2>2
    <2>4. s[k] = s[k - 1] + w[k - 1] /\ t[k] = t[k - 1] + (size - (k - 1)) * w[k - 1]
      <3>1. /\ s[k - 1 + 1] = s[k - 1] + w[k - 1]
            /\ t[k - 1 + 1] = t[k - 1] + Weighted(size, w)[k - 1]
        BY <2>1 DEF AreSums
      <3>2. Weighted(size, w)[k - 1] = (size - (k - 1)) * w[k - 1]
        BY <2>1, WeightedFacts DEF Block
      <3> QED
        BY <2>1, <3>1, <3>2
    <2>5. h[k - 1][1] = Wrapped(s[k - 1]) /\ h[k - 1][2] = Wrapped(t[k - 1])
      BY <2>1
    <2>6. h[k] = <<Wrapped(s[k]), Wrapped(t[k])>>
      OBVIOUS
    <2> HIDE DEF h
    <2>7. Wrapped(h[k - 1][1] + w[k - 1]) = Wrapped(s[k])
      BY <2>2, <2>4, <2>5, WrappedPart
    <2>8. Wrapped(h[k - 1][2] + (size - (k - 1)) * w[k - 1]) = Wrapped(t[k])
      BY <2>2, <2>3, <2>4, <2>5, WrappedPart
    <2> QED
      BY <2>6, <2>7, <2>8
  <1>3. h[0] = <<0, 0>>
    <2>1. 0 \in 0 .. size /\ s[0] = 0 /\ t[0] = 0
      BY DEF AreSums
    <2>2. Wrapped(0) = 0
      <3>1. (0 * Modulus + 0) % Modulus = 0
        BY RemainderIsUnique, WeakChecksumAssumption
      <3> QED
        BY <3>1, WeakChecksumAssumption DEF Wrapped
    <2> QED
      BY <2>1, <2>2
  <1>4. Eqn(h)
    <2>1. h = [k \in 0 .. size |-> h[k]]
      OBVIOUS
    <2> HIDE DEF h
    <2> QED
      BY <1>2, <1>3, <2>1
  <1>5. Eqn(f)
    <2> HIDE DEF Eqn, h
    <2> QED
      BY <1>4
  <1> DEFINE S == {n \in Nat : n <= size => f[n] = h[n]}
  <1> HIDE DEF f
  <1>6. 0 \in S
    <2>1. 0 \in 0 .. size
      OBVIOUS
    <2>2. f[0] = <<0, 0>>
      BY <1>5, <2>1
    <2> HIDE DEF h, Eqn
    <2> QED
      BY <1>3, <2>2
  <1>7. ASSUME NEW n \in Nat, n \in S PROVE n + 1 \in S
    <2> SUFFICES ASSUME n + 1 <= size PROVE f[n + 1] = h[n + 1]
      OBVIOUS
    <2>1. n + 1 \in 0 .. size /\ n + 1 # 0 /\ n <= size /\ n + 1 - 1 = n
      OBVIOUS
    <2>2. f[n] = h[n]
      BY <1>7, <2>1
    <2>3. h[n + 1] = <<Wrapped(h[n][1] + w[n]), Wrapped(h[n][2] + (size - n) * w[n])>>
      <3> HIDE DEF h
      <3>1. h[n + 1] = <<Wrapped(h[n + 1 - 1][1] + w[n + 1 - 1]),
                         Wrapped(h[n + 1 - 1][2] + (size - (n + 1 - 1)) * w[n + 1 - 1])>>
        BY <1>2, <2>1
      <3> QED
        BY <2>1, <3>1
    <2>4. f[n + 1] = <<Wrapped(f[n][1] + w[n]), Wrapped(f[n][2] + (size - n) * w[n])>>
      <3>1. f[n + 1] = <<Wrapped(f[n + 1 - 1][1] + w[n + 1 - 1]),
                         Wrapped(f[n + 1 - 1][2] + (size - (n + 1 - 1)) * w[n + 1 - 1])>>
        BY <1>5, <2>1
      <3> QED
        BY <2>1, <3>1
    <2> HIDE DEF h
    <2> QED
      BY <2>2, <2>3, <2>4
  <1>8. f[size] = h[size]
    <2> HIDE DEF S, h, Eqn
    <2>1. size \in S
      BY <1>6, <1>7, SetInduction
    <2> QED
      BY <2>1 DEF S
  <1>9. h[size][1] = Wrapped(s[size]) /\ h[size][2] = Wrapped(t[size])
    OBVIOUS
  <1> HIDE DEF h
  <1> QED
    BY <1>1, <1>8, <1>9

-----------------------------------------------------------------------------
(* The loop. *)

\* The window is a block of bytes.
LEMMA WindowType ==
  ASSUME RollInv
  PROVE  size \in Nat \ {0} /\ Window \in [Block -> Int]
  <1>1. size \in Nat \ {0} /\ i \in 0 .. size /\ \A j \in -size .. size - 1 : buffer[j] \in Int
    BY WeakChecksumAssumption DEF RollInv
  <1>2. ASSUME NEW j \in Block PROVE buffer[j + i - size] \in Int
    <2>1. j + i - size \in -size .. size - 1
      BY <1>1 DEF Block
    <2> QED
      BY <1>1, <2>1
  <1> QED
    BY <1>1, <1>2 DEF Window

\* Nothing is rolled yet: both blocks are zeros, and so are all the sums.
LEMMA InitRolls == Init => RollInv
  <1> SUFFICES ASSUME Init PROVE RollInv
    OBVIOUS
  <1>1. size \in Nat \ {0} /\ 0 \in ByteValues /\ size \in Sizes
    BY WeakChecksumAssumption DEF Init
  <1>2. buffer \in [-size .. size - 1 -> ByteValues]
    BY <1>1 DEF Init
  <1>3. running_wcs = Packed(a, b)
    BY WeakChecksumAssumption DEF Init, Packed
  <1>4. \A k \in 0 .. size - 1 : Window[k] = 0
    BY <1>1 DEF Init, Window, Block
  <1> DEFINE z == [k \in 0 .. size |-> 0]
  <1>5. AreSums(size, Window, z, z)
    <2>1. \A k \in 0 .. size - 1 : z[k + 1] = z[k] + Window[k]
      BY <1>1, <1>4
    <2>2. \A k \in 0 .. size - 1 : z[k + 1] = z[k] + Weighted(size, Window)[k]
      <3>1. \A k \in 0 .. size - 1 : Weighted(size, Window)[k] = 0
        BY <1>1, <1>4 DEF Weighted
      <3> QED
        BY <1>1, <3>1
    <2> QED
      BY <1>1, <2>1, <2>2 DEF AreSums
  <1>6. z[size] = 0
    BY <1>1
  <1>7. Wrapped(0) = 0
    <2>1. (0 * Modulus + 0) % Modulus = 0
      BY RemainderIsUnique, WeakChecksumAssumption
    <2> QED
      BY <2>1, WeakChecksumAssumption DEF Wrapped
  <1>8. \E s, t : AreSums(size, Window, s, t) /\ a = Wrapped(s[size]) /\ b = Wrapped(t[size])
    <2>1. a = Wrapped(z[size]) /\ b = Wrapped(z[size])
      BY <1>6, <1>7 DEF Init
    <2> HIDE DEF z
    <2> QED
      BY <1>5, <2>1
  <1>9. i \in 0 .. size
    BY <1>1 DEF Init
  <1> QED
    BY <1>1, <1>2, <1>3, <1>8, <1>9 DEF RollInv

\* The next block moves in behind the window, and the sums come back out of the
\* checksum.
LEMMA NextBlockRolls ==
  ASSUME RollInv, NextBlock
  PROVE  RollInv'
  <1>1. size \in Nat \ {0} /\ size' = size /\ i = size /\ i' = 0 /\ Window \in [Block -> Int]
    BY WindowType DEF NextBlock
  <1>2. PICK read \in [Block -> ByteValues] :
          buffer' = [j \in -size .. size - 1 |-> IF j < 0 THEN BlockBefore[j] ELSE read[j]]
    BY DEF NextBlock
  <1>3. buffer' \in [-size .. size - 1 -> ByteValues]
    <2>1. ASSUME NEW j \in -size .. size - 1, j < 0 PROVE BlockBefore[j] \in ByteValues
      <3>1. j \in -size .. -1 /\ j + size \in -size .. size - 1
        BY <1>1, <2>1
      <3> QED
        BY <3>1 DEF BlockBefore, RollInv
    <2>2. ASSUME NEW j \in -size .. size - 1, ~(j < 0) PROVE read[j] \in ByteValues
      <3>1. j \in Block
        BY <1>1, <2>2 DEF Block
      <3> QED
        BY <3>1
    <2> QED
      BY <1>2, <2>1, <2>2
  <1>4. Window' = Window
    <2>1. ASSUME NEW j \in Block PROVE buffer'[j + 0 - size] = buffer[j + i - size]
      <3>1. /\ j + 0 - size \in -size .. size - 1 /\ j + 0 - size < 0
            /\ j + 0 - size \in -size .. -1 /\ j + 0 - size + size = j + i - size
        BY <1>1 DEF Block
      <3>2. buffer'[j + 0 - size] = BlockBefore[j + 0 - size]
        BY <1>2, <3>1
      <3> QED
        BY <3>1, <3>2 DEF BlockBefore
    <2> QED
      BY <1>1, <2>1 DEF Window, Block
  <1>5. PICK s, t : AreSums(size, Window, s, t) /\ a = Wrapped(s[size]) /\ b = Wrapped(t[size])
    BY DEF RollInv
  <1>6. a \in Nat /\ a < Modulus /\ b \in Nat
    <2>1. s[size] \in Int /\ t[size] \in Int
      BY <1>1, <1>5 DEF AreSums
    <2> QED
      BY <1>5, <2>1, WrappedFits
  <1>7. a' = a /\ b' = b
    BY <1>1, <1>6, Unpacked DEF NextBlock, RollInv
  <1>8. \E s2, t2 : AreSums(size', Window', s2, t2) /\ a' = Wrapped(s2[size']) /\ b' = Wrapped(t2[size'])
    BY <1>1, <1>4, <1>5, <1>7
  <1>9. size' \in Sizes /\ i' \in 0 .. size' /\ (i' = size' => running_wcs' = Packed(a', b'))
    BY <1>1 DEF RollInv
  <1> QED
    BY <1>1, <1>3, <1>8, <1>9 DEF RollInv, Wrapped

\* One byte: the loop's own sums.
LEMMA RollByteRolls ==
  ASSUME RollInv, RollByte
  PROVE  RollInv'
  <1>1. /\ size \in Nat \ {0} /\ size' = size /\ buffer' = buffer
        /\ i \in Nat /\ i < size /\ i' = i + 1
        /\ Window \in [Block -> Int]
    BY WindowType DEF RollByte, RollInv
  <1>2. \A j \in -size .. size - 1 : buffer[j] \in Int
    BY WeakChecksumAssumption DEF RollInv
  <1>3. Window' = [j \in Block |-> buffer[j + (i + 1) - size]]
    BY <1>1 DEF Window, Block
  <1>4. Window' \in [Block -> Int]
    <2>1. ASSUME NEW j \in Block PROVE buffer[j + (i + 1) - size] \in Int
      <3>1. j + (i + 1) - size \in -size .. size - 1
        BY <1>1 DEF Block
      <3> QED
        BY <1>2, <3>1
    <2> QED
      BY <1>3, <2>1
  <1>5. ASSUME NEW k \in 0 .. size - 2 PROVE Window'[k] = Window[k + 1]
    <2>1. k \in Block /\ k + 1 \in Block /\ k + (i + 1) - size = (k + 1) + i - size
      BY <1>1 DEF Block
    <2> QED
      BY <1>3, <2>1 DEF Window
  <1>6. Window[0] = buffer[i - size] /\ Window'[size - 1] = buffer[i]
    <2>1. /\ 0 \in Block /\ 0 + i - size = i - size
          /\ size - 1 \in Block /\ size - 1 + (i + 1) - size = i
      BY <1>1 DEF Block
    <2> QED
      BY <1>3, <2>1 DEF Window
  <1>7. buffer[i - size] \in Int /\ buffer[i] \in Int
    BY <1>1, <1>2
  <1>8. PICK s, t : AreSums(size, Window, s, t) /\ a = Wrapped(s[size]) /\ b = Wrapped(t[size])
    BY DEF RollInv
  <1> DEFINE w == Window
             w2 == Window'
             n == size
             old == buffer[i - size]
             new == buffer[i]
  <1>9. /\ n \in Nat \ {0} /\ w \in [0 .. n - 1 -> Int] /\ w2 \in [0 .. n - 1 -> Int]
        /\ Slides(n, w, w2)
        /\ w[0] = old /\ w2[n - 1] = new /\ old \in Int /\ new \in Int
        /\ AreSums(n, w, s, t) /\ a = Wrapped(s[n]) /\ b = Wrapped(t[n])
    BY <1>1, <1>4, <1>5, <1>6, <1>7, <1>8 DEF Block, Slides
  <1>10. a' = Wrapped(a + new - old) /\ b' = Wrapped(b + a' - n * old)
    BY DEF RollByte, RolledB
  <1> HIDE DEF w, w2, n, old, new
  <1>11. PICK s2, t2 : AreSums(n, w2, s2, t2)
    BY <1>9, SumsExist
  <1>12. s2[n] = s[n] + new - old /\ t2[n] = t[n] + s2[n] - n * old
    <2>1. SumsFollow(n, w, w2, s, t, s2, t2)
      BY <1>9, <1>11, SumsRolled
    <2> QED
      BY <1>9, <2>1 DEF SumsFollow
  <1>13. s[n] \in Int /\ t[n] \in Int /\ s2[n] \in Int /\ n * old \in Int
    BY <1>9, <1>11 DEF AreSums
  <1>14. a' = Wrapped(s2[n])
    <2>1. Wrapped(Wrapped(s[n]) + (new - old)) = Wrapped(s[n] + (new - old))
      <3>1. new - old \in Int
        BY <1>9
      <3> QED
        BY <1>13, <3>1, WrappedPart, Zenon
    <2>2. s[n] + (new - old) = s[n] + new - old
      BY <1>9, <1>13
    <2>3. Wrapped(s[n]) + (new - old) = a + new - old
      BY <1>9, <1>13, WrappedFits
    <2> QED
      BY <1>10, <1>12, <2>1, <2>2, <2>3
  <1>15. b' = Wrapped(t2[n])
    <2> DEFINE y == n * old
    <2>1. y \in Int
      BY <1>13
    <2>2. t2[n] = t[n] + s2[n] - y /\ b' = Wrapped(b + a' - y)
      BY <1>10, <1>12
    <2> HIDE DEF y
    <2>3. Wrapped(s2[n]) \in Nat /\ Wrapped(t[n]) \in Nat
      BY <1>13, WrappedFits
    <2>4. Wrapped(Wrapped(t[n]) + (Wrapped(s2[n]) - y)) = Wrapped(t[n] + (Wrapped(s2[n]) - y))
      <3>1. Wrapped(s2[n]) - y \in Int
        BY <2>1, <2>3
      <3> QED
        BY <1>13, <3>1, WrappedPart, Zenon
    <2>5. Wrapped(Wrapped(s2[n]) + (t[n] - y)) = Wrapped(s2[n] + (t[n] - y))
      <3>1. t[n] - y \in Int
        BY <1>13, <2>1
      <3> QED
        BY <1>13, <3>1, WrappedPart, Zenon
    <2>6. /\ b + a' - y = Wrapped(t[n]) + (Wrapped(s2[n]) - y)
          /\ t[n] + (Wrapped(s2[n]) - y) = Wrapped(s2[n]) + (t[n] - y)
          /\ s2[n] + (t[n] - y) = t2[n]
      BY <1>9, <1>13, <1>14, <2>1, <2>2, <2>3, SMTT(30)
    <2> QED
      BY <2>2, <2>4, <2>5, <2>6
  <1>16. \E s3, t3 : AreSums(size', Window', s3, t3) /\ a' = Wrapped(s3[size']) /\ b' = Wrapped(t3[size'])
    BY <1>1, <1>11, <1>14, <1>15 DEF n, w2
  <1>17. i' = size' => running_wcs' = Packed(a', b')
    BY <1>1 DEF RollByte
  <1>18. size' \in Sizes /\ i' \in 0 .. size' /\ buffer' \in [-size' .. size' - 1 -> ByteValues]
    BY <1>1 DEF RollInv
  <1> QED
    BY <1>16, <1>17, <1>18 DEF RollInv, Wrapped, Packed

LEMMA RollInvariant == Spec => []RollInv
  <1>1. RollInv /\ [Next]_vars => RollInv'
    <2> SUFFICES ASSUME RollInv, [Next]_vars PROVE RollInv'
      OBVIOUS
    <2>1. CASE NextBlock
      BY <2>1, NextBlockRolls
    <2>2. CASE RollByte
      BY <2>2, RollByteRolls
    <2>3. CASE UNCHANGED vars
      BY <2>3 DEF vars, RollInv, Window, Block, Wrapped, Packed
    <2> QED
      BY <2>1, <2>2, <2>3 DEF Next
  <1> QED
    BY InitRolls, <1>1, PTL DEF Spec

\* Whatever the seed holds, the checksum the loop has after every byte is the one
\* WeakChecksum computes for the window (weak_checksum.cc:7-36).
THEOREM RolledIsComputed == Spec => []RollingIsDirect
  <1>1. RollInv => RollingIsDirect
    <2> SUFFICES ASSUME RollInv PROVE RollingIsDirect
      OBVIOUS
    <2>1. PICK s, t : AreSums(size, Window, s, t) /\ a = Wrapped(s[size]) /\ b = Wrapped(t[size])
      BY DEF RollInv
    <2> QED
      BY <2>1, WindowType, DirectIsSums DEF RollingIsDirect
  <1> QED
    BY RollInvariant, <1>1, PTL
=============================================================================
