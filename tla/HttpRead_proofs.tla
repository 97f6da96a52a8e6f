-------------------------- MODULE HttpRead_proofs --------------------------
(***************************************************************************)
(* What the HTTP reader makes of any answer RFC 7233 allows, for a file of *)
(* any size and all requests: batches of any number of ascending members,  *)
(* and plain reads.                                                        *)
(*                                                                         *)
(* The tokens of a body lie where the parser expects them (Layout), so it  *)
(* is always between two parts, in the header of one or at its bytes.      *)
(* When the reader is told where a part lies, the members handed so far    *)
(* tile the parts before it, and their bytes are their own (ToldInv); when *)
(* it is not, it hands out one member at most (UntoldInv).                 *)
(***************************************************************************)
EXTENDS HttpRead, RangesAndFiles_proofs

(* The concatenation of sequences. *)

\* The concatenations that FlattenSeq goes through.
Flattened(seqs) ==
  LET flatten[i \in 1 .. Len(seqs)] ==
        IF i = 1 THEN seqs[i] ELSE flatten[i - 1] \o seqs[i]
  IN flatten

\* They are defined, by recursion over the sequences.
LEMMA FlattenedDefined ==
  ASSUME NEW S, NEW s \in Seq(Seq(S))
  PROVE  \A i \in 1 .. Len(s) :
           /\ Flattened(s)[i] \in Seq(S)
           /\ Flattened(s)[i] = IF i = 1 THEN s[1] ELSE Flattened(s)[i - 1] \o s[i]
  <1> DEFINE Q == Seq(S)
             n == Len(s)
             Eqn(g) == g = [i \in 1 .. n |-> IF i = 1 THEN s[i] ELSE g[i - 1] \o s[i]]
             f == Flattened(s)
             step == [k \in 0 .. n - 1 |-> [x \in Q |-> x \o s[k + 1]]]
  <1>1. n \in Nat /\ \A i \in 1 .. n : s[i] \in Q
    BY LenProperties
  <1>2. f = CHOOSE g : Eqn(g)
    BY DEF Flattened
  <1>3. step \in [0 .. n - 1 -> [Q -> Q]]
    <2>1. ASSUME NEW k \in 0 .. n - 1, NEW x \in Q PROVE x \o s[k + 1] \in Q
      <3>1. k + 1 \in 1 .. n
        BY <1>1
      <3> QED
        BY <1>1, <3>1, ConcatProperties
    <2> HIDE DEF Q, n
    <2> QED
      BY <2>1
  <1>4. ASSUME NEW k \in 0 .. n - 1, NEW x \in Q PROVE step[k][x] = x \o s[k + 1]
    BY <1>4
  <1>5. PICK z : z = <<>> /\ z \in Q
    BY EmptySeq
  <1> HIDE DEF Q, n, f, step
  <1>6. PICK g \in [0 .. n -> Q] : Follows(g, n, z, step)
    BY <1>1, <1>3, <1>5, RecursionExists
  <1> DEFINE h == [i \in 1 .. n |-> g[i]]
  <1>7. ASSUME NEW i \in 1 .. n PROVE h[i] = IF i = 1 THEN s[i] ELSE h[i - 1] \o s[i]
    <2>1. i - 1 \in 0 .. n - 1 /\ i - 1 \in 0 .. n /\ i - 1 + 1 = i
      BY <1>1
    <2>2. g[i - 1 + 1] = step[i - 1][g[i - 1]]
      BY <1>6, <2>1 DEF Follows
    <2>3. g[i - 1] \in Q
      BY <2>1
    <2>4. g[i] = g[i - 1] \o s[i]
      BY <1>4, <2>1, <2>2, <2>3
    <2>5. CASE i = 1
      <3>1. g[i - 1] = <<>>
        BY <1>5, <1>6, <2>5 DEF Follows
      <3>2. s[i] \in Seq(S)
        BY <1>1 DEF Q
      <3>3. <<>> \o s[i] = s[i]
        BY <3>2, ConcatEmptySeq
      <3> QED
        BY <2>4, <2>5, <3>1, <3>3
    <2>6. CASE i # 1
      <3>1. i - 1 \in 1 .. n
        BY <1>1, <2>6
      <3> QED
        BY <2>4, <2>6, <3>1
    <2> QED
      BY <2>5, <2>6
  <1>8. Eqn(h)
    <2>1. h = [i \in 1 .. n |-> h[i]]
      OBVIOUS
    <2> HIDE DEF h
    <2> QED
      BY <1>7, <2>1
  <1>9. Eqn(f)
    <2> HIDE DEF Eqn, h
    <2> QED
      BY <1>2, <1>8
  <1>10. \A i \in 1 .. n : f[i] = IF i = 1 THEN s[i] ELSE f[i - 1] \o s[i]
    BY <1>9
  <1> DEFINE T == {k \in Nat : k <= n /\ k # 0 => f[k] \in Q}
  <1>11. 0 \in T
    OBVIOUS
  <1>12. ASSUME NEW k \in Nat, k \in T PROVE k + 1 \in T
    <2> SUFFICES ASSUME k + 1 <= n PROVE f[k + 1] \in Q
      OBVIOUS
    <2>1. k + 1 \in 1 .. n /\ s[k + 1] \in Q /\ k + 1 - 1 = k
      BY <1>1
    <2>2. f[k + 1] = IF k + 1 = 1 THEN s[k + 1] ELSE f[k] \o s[k + 1]
      BY <1>10, <2>1
    <2>3. k # 0 => f[k] \in Q
      BY <1>1, <1>12
    <2>4. CASE k = 0
      BY <2>1, <2>2, <2>4
    <2>5. CASE k # 0
      <3>1. f[k] \o s[k + 1] \in Q
        BY <2>1, <2>3, <2>5, ConcatProperties DEF Q
      <3> QED
        BY <2>2, <2>5, <3>1
    <2> QED
      BY <2>4, <2>5
  <1>13. \A k \in Nat : k \in T
    <2> HIDE DEF T
    <2> QED
      BY <1>11, <1>12, SetInduction
  <1>14. \A i \in 1 .. n : f[i] \in Q
    BY <1>1, <1>13
  <1> QED
    BY <1>10, <1>14 DEF f, n, Q

LEMMA FlattenSeqIsLast ==
  ASSUME NEW S, NEW s \in Seq(Seq(S)), s # <<>>
  PROVE  /\ FlattenSeq(s) = Flattened(s)[Len(s)]
         /\ FlattenSeq(s) \in Seq(S)
         /\ Len(s) \in Nat \ {0}
  <1>1. Len(s) \in Nat \ {0}
    BY EmptySeq, LenProperties
  <1>2. FlattenSeq(s) = Flattened(s)[Len(s)]
    BY <1>1 DEF FlattenSeq, Flattened
  <1>3. Len(s) \in 1 .. Len(s)
    BY <1>1
  <1> QED
    BY <1>1, <1>2, <1>3, FlattenedDefined

\* Where the k-th sequence begins in the concatenation; behind the last one it is
\* where the concatenation ends.
Offset(s, k) == IF k = 1 THEN 0 ELSE Len(Flattened(s)[k - 1])

LEMMA OffsetsAddUp ==
  ASSUME NEW S, NEW s \in Seq(Seq(S)), s # <<>>
  PROVE  /\ Offset(s, 1) = 0 /\ Offset(s, Len(s) + 1) = Len(FlattenSeq(s))
         /\ \A k \in 1 .. Len(s) + 1 : Offset(s, k) \in Nat
         /\ \A k \in 1 .. Len(s) : Offset(s, k + 1) = Offset(s, k) + Len(s[k])
  <1> DEFINE f == Flattened(s)
             n == Len(s)
  <1>1. n \in Nat \ {0} /\ FlattenSeq(s) = f[n]
    BY FlattenSeqIsLast
  <1>2. \A i \in 1 .. n : f[i] \in Seq(S) /\ f[i] = IF i = 1 THEN s[1] ELSE f[i - 1] \o s[i]
    BY FlattenedDefined
  <1>3. \A i \in 1 .. n : s[i] \in Seq(S)
    BY LenProperties
  <1> HIDE DEF f, n
  <1>4. ASSUME NEW k \in 1 .. n + 1 PROVE Offset(s, k) \in Nat
    <2>1. CASE k = 1
      BY <2>1 DEF Offset
    <2>2. CASE k # 1
      <3>1. k - 1 \in 1 .. n
        BY <1>1, <2>2
      <3>2. Len(f[k - 1]) \in Nat
        BY <1>2, <3>1, LenProperties
      <3> QED
        BY <2>2, <3>2 DEF Offset, f
    <2> QED
      BY <2>1, <2>2
  <1>5. ASSUME NEW k \in 1 .. n PROVE Offset(s, k + 1) = Offset(s, k) + Len(s[k])
    <2>1. k + 1 # 1 /\ k + 1 - 1 = k
      BY <1>1
    <2>2. Offset(s, k + 1) = Len(f[k])
      BY <2>1 DEF Offset, f
    <2>3. CASE k = 1
      <3>1. f[k] = s[k] /\ Offset(s, k) = 0 /\ Len(s[k]) \in Nat
        BY <1>2, <1>3, <2>3, LenProperties DEF Offset
      <3> QED
        BY <2>2, <3>1
    <2>4. CASE k # 1
      <3>1. k - 1 \in 1 .. n
        BY <1>1, <2>4
      <3>2. f[k] = f[k - 1] \o s[k] /\ f[k - 1] \in Seq(S) /\ s[k] \in Seq(S)
        BY <1>2, <1>3, <2>4, <3>1
      <3>3. Len(f[k - 1] \o s[k]) = Len(f[k - 1]) + Len(s[k])
        BY <3>2, Concatenated
      <3>4. Offset(s, k) = Len(f[k - 1])
        BY <2>4 DEF Offset, f
      <3> QED
        BY <2>2, <3>2, <3>3, <3>4
    <2> QED
      BY <2>3, <2>4
  <1>6. Offset(s, 1) = 0
    BY DEF Offset
  <1>7. Offset(s, n + 1) = Len(FlattenSeq(s))
    <2>1. n + 1 # 1 /\ n + 1 - 1 = n
      BY <1>1
    <2> QED
      BY <1>1, <2>1 DEF Offset, f
  <1> QED
    BY <1>4, <1>5, <1>6, <1>7 DEF n

\* Each element of each sequence is where its offset says.
LEMMA FlattenedElement ==
  ASSUME NEW S, NEW s \in Seq(Seq(S)), s # <<>>,
         NEW k \in 1 .. Len(s), NEW j \in 1 .. Len(s[k])
  PROVE  FlattenSeq(s)[Offset(s, k) + j] = s[k][j]
  <1> DEFINE f == Flattened(s)
             n == Len(s)
             o == Offset(s, k)
             T == {m \in Nat : k <= m /\ m <= n =>
                     o + j \in 1 .. Len(f[m]) /\ f[m][o + j] = s[k][j]}
  <1>1. n \in Nat \ {0} /\ FlattenSeq(s) = f[n]
    BY FlattenSeqIsLast
  <1>2. \A i \in 1 .. n : f[i] \in Seq(S) /\ f[i] = IF i = 1 THEN s[1] ELSE f[i - 1] \o s[i]
    BY FlattenedDefined
  <1>3. \A i \in 1 .. n : s[i] \in Seq(S)
    BY LenProperties
  <1>4. o \in Nat /\ k \in 1 .. n /\ Len(s[k]) \in Nat /\ j \in 1 .. Len(s[k])
    BY <1>1, <1>3, OffsetsAddUp, LenProperties
  <1>5. k = 1 => o = 0
    BY DEF Offset
  <1>6. k # 1 => o = Len(f[k - 1])
    BY DEF Offset
  <1> HIDE DEF f, n, o
  <1>7. 0 \in T
    BY <1>4
  <1>8. ASSUME NEW m \in Nat, m \in T PROVE m + 1 \in T
    <2> SUFFICES ASSUME k <= m + 1, m + 1 <= n
                 PROVE  o + j \in 1 .. Len(f[m + 1]) /\ f[m + 1][o + j] = s[k][j]
      OBVIOUS
    <2>1. m + 1 \in 1 .. n /\ m + 1 - 1 = m
      BY <1>1
    <2>2. f[m + 1] = IF m + 1 = 1 THEN s[1] ELSE f[m] \o s[m + 1]
      BY <1>2, <2>1
    <2>3. CASE m = 0
      <3>1. k = 1 /\ f[m + 1] = s[k] /\ o = 0
        BY <1>4, <1>5, <2>2, <2>3
      <3> QED
        BY <1>4, <3>1
    <2>4. CASE m # 0
      <3> DEFINE p == f[m]
                 q == s[m + 1]
                 r == f[m + 1]
      <3>1. m \in 1 .. n /\ m + 1 # 1
        BY <1>1, <2>1, <2>4
      <3>2. p \in Seq(S) /\ q \in Seq(S) /\ r = p \o q
        BY <1>2, <1>3, <2>1, <2>2, <3>1
      <3> HIDE DEF p, q, r
      <3>3. /\ Len(p) \in Nat /\ Len(q) \in Nat /\ Len(r) = Len(p) + Len(q)
            /\ \A i \in 1 .. Len(p) : r[i] = p[i]
            /\ \A i \in 1 .. Len(q) : r[Len(p) + i] = q[i]
        BY <3>2, Concatenated, SMTT(30)
      <3>4. CASE k <= m
        <4>1. o + j \in 1 .. Len(p) /\ p[o + j] = s[k][j]
          BY <1>8, <3>1, <3>4 DEF p
        <4>2. o + j \in 1 .. Len(r) /\ r[o + j] = p[o + j]
          BY <3>3, <4>1
        <4> QED
          BY <4>1, <4>2 DEF r
      <3>5. CASE k = m + 1
        <4>1. o = Len(p) /\ j \in 1 .. Len(q) /\ s[k][j] = q[j]
          BY <1>4, <1>6, <2>1, <2>4, <3>5 DEF p, q
        <4>2. o + j \in 1 .. Len(r) /\ r[o + j] = q[j]
          BY <3>3, <4>1
        <4> QED
          BY <4>1, <4>2 DEF r
      <3>6. k <= m \/ k = m + 1
        BY <1>4
      <3> QED
        BY <3>4, <3>5, <3>6
    <2> QED
      BY <2>3, <2>4
  <1>9. \A m \in Nat : m \in T
    <2> HIDE DEF T
    <2> QED
      BY <1>7, <1>8, SetInduction
  <1>10. f[n][o + j] = s[k][j]
    <2>1. n \in T /\ k <= n
      BY <1>1, <1>4, <1>9
    <2> QED
      BY <2>1
  <1> QED
    BY <1>1, <1>10 DEF o

\* Appending a sequence adds its length.
LEMMA FlattenAppended ==
  ASSUME NEW S, NEW h \in Seq(Seq(S)), NEW x \in Seq(S)
  PROVE  /\ FlattenSeq(h) \in Seq(S)
         /\ Len(FlattenSeq(Append(h, x))) = Len(FlattenSeq(h)) + Len(x)
  <1> DEFINE n == Len(h)
             t == Append(h, x)
             f == Flattened(h)
             g == Flattened(t)
             T == {m \in Nat : m # 0 /\ m <= n => g[m] = f[m]}
  <1>1. /\ t \in Seq(Seq(S)) /\ Len(t) = n + 1 /\ n \in Nat /\ t[n + 1] = x
        /\ \A i \in 1 .. n : t[i] = h[i]
    BY AppendProperties, LenProperties
  <1>2. /\ \A i \in 1 .. n : f[i] = IF i = 1 THEN h[1] ELSE f[i - 1] \o h[i]
        /\ \A i \in 1 .. n + 1 : g[i] = IF i = 1 THEN t[1] ELSE g[i - 1] \o t[i]
        /\ \A i \in 1 .. n + 1 : g[i] \in Seq(S)
    <2> HIDE DEF t, n
    <2> QED
      BY <1>1, FlattenedDefined, SMTT(30) DEF n
  <1>3. FlattenSeq(t) = g[n + 1]
    <2>1. t # <<>>
      BY <1>1, EmptySeq
    <2> HIDE DEF t, n
    <2> QED
      BY <1>1, <2>1, FlattenSeqIsLast
  <1>4. h = <<>> => n = 0
    BY EmptySeq
  <1>5. h # <<>> => n # 0 /\ FlattenSeq(h) = f[n] /\ FlattenSeq(h) \in Seq(S)
    BY FlattenSeqIsLast
  <1>6. h = <<>> => FlattenSeq(h) = <<>>
    BY <1>4 DEF FlattenSeq
  <1> HIDE DEF n, t, f, g
  <1>7. 0 \in T
    OBVIOUS
  <1>8. ASSUME NEW m \in Nat, m \in T PROVE m + 1 \in T
    <2> SUFFICES ASSUME m + 1 <= n PROVE g[m + 1] = f[m + 1]
      OBVIOUS
    <2>1. m + 1 \in 1 .. n /\ m + 1 \in 1 .. n + 1 /\ 1 \in 1 .. n /\ m + 1 - 1 = m
      BY <1>1
    <2>2. t[m + 1] = h[m + 1] /\ t[1] = h[1]
      BY <1>1, <2>1
    <2>3. /\ f[m + 1] = IF m + 1 = 1 THEN h[1] ELSE f[m] \o h[m + 1]
          /\ g[m + 1] = IF m + 1 = 1 THEN t[1] ELSE g[m] \o t[m + 1]
      BY <1>2, <2>1
    <2>4. m # 0 => g[m] = f[m]
      BY <1>1, <1>8
    <2> QED
      BY <2>2, <2>3, <2>4
  <1>9. \A m \in Nat : m \in T
    <2> HIDE DEF T
    <2> QED
      BY <1>7, <1>8, SetInduction
  <1>10. CASE h = <<>>
    <2>1. g[n + 1] = x
      BY <1>1, <1>2, <1>4, <1>10
    <2> DEFINE e == <<>>
    <2>2. e \in Seq(S) /\ Len(e) = 0 /\ Len(x) \in Nat /\ FlattenSeq(h) = e
      BY <1>6, <1>10, EmptySeq, LenProperties
    <2> HIDE DEF e
    <2>3. Len(FlattenSeq(t)) = Len(x)
      BY <1>3, <2>1
    <2> QED
      BY <2>2, <2>3 DEF t
  <1>11. CASE h # <<>>
    <2>1. n \in 1 .. n + 1 /\ n + 1 \in 1 .. n + 1 /\ n + 1 # 1 /\ n + 1 - 1 = n
      BY <1>1, <1>5, <1>11
    <2>2. g[n + 1] = g[n] \o x
      <3>1. PICK k : k = n + 1
        OBVIOUS
      <3>2. k \in 1 .. n + 1 /\ k # 1 /\ k - 1 = n
        BY <2>1, <3>1
      <3>3. g[k] = g[k - 1] \o t[k]
        BY <1>2, <3>2
      <3> QED
        BY <1>1, <3>1, <3>2, <3>3
    <2>3. g[n] = f[n]
      BY <1>1, <1>5, <1>9, <1>11
    <2>4. f[n] \in Seq(S) /\ Len(f[n] \o x) = Len(f[n]) + Len(x)
      BY <1>5, <1>11, Concatenated
    <2> QED
      BY <1>3, <1>5, <1>11, <2>2, <2>3, <2>4 DEF t
  <1> QED
    BY <1>10, <1>11

-----------------------------------------------------------------------------
(* The body of an answer. *)

Tokens ==
  [is : {"crlf", "dash", "boundary", "other line"}]
  \cup [is : {"byte"}, at : Int] \cup [is : {"range", "range/*"}, beg : Int, end : Int]

Ranges == {r \in [first : Nat, last : Nat] : r.first <= r.last}
SizeOf(range) == range.last - range.first + 1

LEMMA TokenTypes ==
  /\ \A kind \in {"crlf", "dash", "boundary", "other line"} : Mark(kind) \in Tokens
  /\ \A o \in Int : [is |-> "byte", at |-> o] \in Tokens
  /\ \A kind \in {"range", "range/*"}, x \in Int, y \in Int :
       [is |-> kind, beg |-> x, end |-> y] \in Tokens
  <1>1. ASSUME NEW kind \in {"crlf", "dash", "boundary", "other line"} PROVE Mark(kind) \in Tokens
    BY DEF Mark, Tokens
  <1>2. ASSUME NEW o \in Int PROVE [is |-> "byte", at |-> o] \in Tokens
    BY DEF Tokens
  <1>3. ASSUME NEW kind \in {"range", "range/*"}, NEW x \in Int, NEW y \in Int
        PROVE  [is |-> kind, beg |-> x, end |-> y] \in Tokens
    BY DEF Tokens
  <1> QED
    BY <1>1, <1>2, <1>3

\* c is a and b, one behind the other.
Chained(S, c, a, b) ==
  /\ c \in Seq(S) /\ Len(a) \in Nat /\ Len(b) \in Nat /\ Len(c) = Len(a) + Len(b)
  /\ \A j \in 1 .. Len(a) : c[j] = a[j]
  /\ \A j \in 1 .. Len(b) : c[Len(a) + j] = b[j]

LEMMA ConcatenationChains ==
  ASSUME NEW S, NEW a \in Seq(S), NEW b \in Seq(S), NEW c, c = a \o b
  PROVE  Chained(S, c, a, b)
  BY Concatenated DEF Chained

LEMMA BytesFacts ==
  ASSUME NEW r, r.first \in Int, r.last \in Int, r.first <= r.last + 1
  PROVE  /\ BytesOf(r) \in Seq(Tokens)
         /\ Len(BytesOf(r)) = SizeOf(r)
         /\ \A j \in 1 .. SizeOf(r) : BytesOf(r)[j] = [is |-> "byte", at |-> r.first + j - 1]
  <1> DEFINE n == SizeOf(r)
  <1>1. n \in Nat
    BY DEF SizeOf
  <1>2. BytesOf(r) = [j \in 1 .. n |-> [is |-> "byte", at |-> r.first + j - 1]]
    BY DEF BytesOf, SizeOf
  <1> HIDE DEF n
  <1>3. BytesOf(r) \in [1 .. n -> Tokens]
    <2>1. ASSUME NEW j \in 1 .. n PROVE [is |-> "byte", at |-> r.first + j - 1] \in Tokens
      <3>1. r.first + j - 1 \in Int
        BY <1>1
      <3> QED
        BY <3>1, TokenTypes
    <2> QED
      BY <1>2, <2>1
  <1>4. BytesOf(r) \in Seq(Tokens) /\ Len(BytesOf(r)) = n
    BY <1>1, <1>3, FunctionIsSeq
  <1>5. \A j \in 1 .. n : BytesOf(r)[j] = [is |-> "byte", at |-> r.first + j - 1]
    BY <1>2
  <1> QED
    BY <1>4, <1>5 DEF n

\* What comes before the bytes of a part.
PartHead(range, known) ==
  << Mark("dash"), Mark("boundary"), Mark("crlf"), Mark("other line"),
     [is |-> IF known THEN "range" ELSE "range/*", beg |-> range.first, end |-> range.last],
     Mark("other line"), Mark("crlf") >>

LEMMA PartFacts ==
  ASSUME NEW r \in Ranges, NEW known \in BOOLEAN
  PROVE  /\ Part(r, known) \in Seq(Tokens)
         /\ SizeOf(r) \in Nat \ {0}
         /\ Len(Part(r, known)) = SizeOf(r) + 8
         /\ \A j \in 1 .. 7 : Part(r, known)[j] = PartHead(r, known)[j]
         /\ \A j \in 1 .. SizeOf(r) : Part(r, known)[7 + j] = BytesOf(r)[j]
         /\ Part(r, known)[8 + SizeOf(r)] = Mark("crlf")
  <1> DEFINE h == PartHead(r, known)
             b == BytesOf(r)
             z == <<Mark("crlf")>>
             n == SizeOf(r)
             c == h \o b
             p == Part(r, known)
  <1>1. r.first \in Nat /\ r.last \in Nat /\ r.first <= r.last
    BY DEF Ranges
  <1>2. n \in Nat \ {0} /\ b \in Seq(Tokens) /\ Len(b) = n
    BY <1>1, BytesFacts DEF SizeOf
  <1>3. h \in Seq(Tokens) /\ Len(h) = 7
    <2> DEFINE kind == IF known THEN "range" ELSE "range/*"
               t == [is |-> kind, beg |-> r.first, end |-> r.last]
               x1 == Mark("dash")
               x2 == Mark("boundary")
               x3 == Mark("crlf")
               x4 == Mark("other line")
    <2>1. t \in Tokens
      <3>1. kind \in {"range", "range/*"} /\ r.first \in Int /\ r.last \in Int
        BY <1>1
      <3> HIDE DEF kind
      <3> QED
        BY <3>1, TokenTypes
    <2>2. x1 \in Tokens /\ x2 \in Tokens /\ x3 \in Tokens /\ x4 \in Tokens
      BY TokenTypes
    <2>3. h = <<x1, x2, x3, x4, t, x4, x3>>
      BY DEF PartHead
    <2> HIDE DEF t, x1, x2, x3, x4, h
    <2> QED
      BY <2>1, <2>2, <2>3
  <1>4. z \in Seq(Tokens) /\ Len(z) = 1 /\ z[1] = Mark("crlf")
    <2>1. Mark("crlf") \in Tokens
      BY TokenTypes
    <2> QED
      BY <2>1
  <1>5. p = c \o z
    BY DEF Part, PartHead
  <1> HIDE DEF h, b, z, n, c, p
  <1>6. /\ c \in Seq(Tokens) /\ Len(c) = 7 + n
        /\ \A j \in 1 .. 7 : c[j] = h[j]
        /\ \A j \in 1 .. n : c[7 + j] = b[j]
    <2>1. h \in Seq(Tokens) /\ b \in Seq(Tokens) /\ c = h \o b
      BY <1>2, <1>3 DEF c
    <2>2. Chained(Tokens, c, h, b)
      BY <2>1, ConcatenationChains
    <2> QED
      BY <1>2, <1>3, <2>2 DEF Chained
  <1>7. /\ p \in Seq(Tokens) /\ Len(p) = 7 + n + 1
        /\ \A j \in 1 .. 7 + n : p[j] = c[j]
        /\ p[7 + n + 1] = z[1]
    <2> DEFINE m == 7 + n
    <2>1. c \in Seq(Tokens) /\ z \in Seq(Tokens) /\ p = c \o z /\ m = Len(c) /\ Len(z) = 1
      BY <1>4, <1>5, <1>6
    <2> HIDE DEF m
    <2>2. Chained(Tokens, p, c, z)
      BY <2>1, ConcatenationChains
    <2>3. /\ p \in Seq(Tokens) /\ Len(p) = m + 1
          /\ \A j \in 1 .. m : p[j] = c[j]
          /\ p[m + 1] = z[1]
      BY <2>1, <2>2 DEF Chained
    <2> QED
      BY <2>3 DEF m
  <1>8. \A j \in 1 .. 7 : p[j] = h[j]
    BY <1>2, <1>6, <1>7
  <1>9. ASSUME NEW j \in 1 .. n PROVE p[7 + j] = b[j]
    <2>1. 7 + j \in 1 .. 7 + n
      BY <1>2
    <2> QED
      BY <1>6, <1>7, <2>1
  <1>10. p[8 + n] = Mark("crlf")
    <2>1. 7 + n + 1 = 8 + n
      BY <1>2
    <2> QED
      BY <1>4, <1>7, <2>1
  <1>11. Len(p) = n + 8
    BY <1>2, <1>7
  <1> QED
    BY <1>2, <1>7, <1>8, <1>9, <1>10, <1>11 DEF p, h, b, n

PartsOf(a) == [k \in DOMAIN a.parts |-> Part(a.parts[k], a.known)]

\* The offset in the body at which part k begins; behind the last part it is that of
\* the closing line.
Start(a, k) == 1 + Offset(PartsOf(a), k)

IsAnswer(a) == a.parts \in Seq(Ranges) /\ a.parts # <<>> /\ a.known \in BOOLEAN

LEMMA PartsFacts ==
  ASSUME NEW a, IsAnswer(a)
  PROVE  /\ Len(a.parts) \in Nat \ {0}
         /\ \A k \in 1 .. Len(a.parts) :
              /\ a.parts[k] \in Ranges /\ a.parts[k].first \in Nat /\ a.parts[k].last \in Nat
              /\ a.parts[k].first <= a.parts[k].last
              /\ SizeOf(a.parts[k]) \in Nat \ {0}
         /\ PartsOf(a) \in Seq(Seq(Tokens)) /\ PartsOf(a) # <<>>
         /\ Len(PartsOf(a)) = Len(a.parts)
         /\ \A k \in 1 .. Len(a.parts) : PartsOf(a)[k] = Part(a.parts[k], a.known)
  <1> DEFINE n == Len(a.parts)
             p == PartsOf(a)
  <1>1. n \in Nat \ {0} /\ DOMAIN a.parts = 1 .. n /\ \A k \in 1 .. n : a.parts[k] \in Ranges
    BY EmptySeq, LenProperties DEF IsAnswer
  <1>2. p = [k \in 1 .. n |-> Part(a.parts[k], a.known)]
    BY <1>1 DEF PartsOf
  <1> HIDE DEF n, p
  <1>3. \A k \in 1 .. n : /\ a.parts[k].first \in Nat /\ a.parts[k].last \in Nat
                          /\ a.parts[k].first <= a.parts[k].last
    BY <1>1 DEF Ranges
  <1>4. \A k \in 1 .. n : SizeOf(a.parts[k]) \in Nat \ {0}
    BY <1>3 DEF SizeOf
  <1>5. \A k \in 1 .. n : Part(a.parts[k], a.known) \in Seq(Tokens)
    BY <1>1, PartFacts DEF IsAnswer
  <1>6. p \in [1 .. n -> Seq(Tokens)]
    BY <1>2, <1>5
  <1>7. p \in Seq(Seq(Tokens)) /\ Len(p) = n
    BY <1>1, <1>6, FunctionIsSeq
  <1>8. p # <<>>
    BY <1>1, <1>7, EmptySeq
  <1>9. \A k \in 1 .. n : p[k] = Part(a.parts[k], a.known)
    BY <1>2
  <1> QED
    BY <1>1, <1>3, <1>4, <1>7, <1>8, <1>9 DEF n, p

LEMMA StartFacts ==
  ASSUME NEW a, IsAnswer(a)
  PROVE  /\ Start(a, 1) = 1
         /\ \A k \in 1 .. Len(a.parts) + 1 : Start(a, k) \in Nat \ {0}
         /\ \A k \in 1 .. Len(a.parts) :
              Start(a, k + 1) = Start(a, k) + SizeOf(a.parts[k]) + 8
  <1> DEFINE s == PartsOf(a)
             n == Len(a.parts)
  <1>1. s \in Seq(Seq(Tokens)) /\ s # <<>> /\ Len(s) = n /\ n \in Nat \ {0}
    BY PartsFacts
  <1>2. ASSUME NEW k \in 1 .. n PROVE Len(s[k]) = SizeOf(a.parts[k]) + 8
    <2>1. s[k] = Part(a.parts[k], a.known) /\ a.parts[k] \in Ranges /\ a.known \in BOOLEAN
      BY PartsFacts DEF IsAnswer
    <2>2. Len(Part(a.parts[k], a.known)) = SizeOf(a.parts[k]) + 8
      BY <2>1, PartFacts
    <2> QED
      BY <2>1, <2>2
  <1>3. \A k \in 1 .. n : SizeOf(a.parts[k]) \in Nat
    BY PartsFacts
  <1> HIDE DEF s, n
  <1>4. /\ Offset(s, 1) = 0
        /\ \A k \in 1 .. n + 1 : Offset(s, k) \in Nat
        /\ \A k \in 1 .. n : Offset(s, k + 1) = Offset(s, k) + Len(s[k])
    BY <1>1, OffsetsAddUp
  <1>5. ASSUME NEW k \in 1 .. n PROVE Start(a, k + 1) = Start(a, k) + SizeOf(a.parts[k]) + 8
    <2>1. k \in 1 .. n + 1
      BY <1>1
    <2>2. Offset(s, k) \in Nat /\ Offset(s, k + 1) = Offset(s, k) + (SizeOf(a.parts[k]) + 8)
      BY <1>2, <1>4, <2>1
    <2>3. SizeOf(a.parts[k]) \in Nat
      BY <1>3
    <2> QED
      BY <2>2, <2>3 DEF Start, s
  <1>6. \A k \in 1 .. n + 1 : Start(a, k) \in Nat \ {0}
    BY <1>4 DEF Start, s
  <1>7. Start(a, 1) = 1
    BY <1>4 DEF Start, s
  <1> QED
    BY <1>5, <1>6, <1>7 DEF n

\* Where the tokens of a multipart answer lie.
LEMMA Layout ==
  ASSUME NEW a, IsAnswer(a), a.multipart
  PROVE  LET F == BodyOf(a)
             n == Len(a.parts)
             close == Start(a, n + 1)
         IN /\ F \in Seq(Tokens) /\ Len(F) = close + 4
            /\ F[1] = Mark("crlf")
            /\ \A k \in 1 .. n : \A j \in 1 .. SizeOf(a.parts[k]) + 8 :
                 F[Start(a, k) + j] = Part(a.parts[k], a.known)[j]
            /\ F[close + 1] = Mark("dash") /\ F[close + 2] = Mark("boundary")
            /\ F[close + 3] = Mark("dash") /\ F[close + 4] = Mark("crlf")
  <1> DEFINE s == PartsOf(a)
             n == Len(a.parts)
             m == FlattenSeq(s)
             c == <<Mark("crlf")>>
             z == <<Mark("dash"), Mark("boundary"), Mark("dash"), Mark("crlf")>>
             l == Len(m)
             d == c \o m
             F == BodyOf(a)
  <1>1. s \in Seq(Seq(Tokens)) /\ s # <<>> /\ Len(s) = n /\ n \in Nat \ {0}
    BY PartsFacts
  <1>2. c \in Seq(Tokens) /\ Len(c) = 1 /\ c[1] = Mark("crlf")
    <2>1. Mark("crlf") \in Tokens
      BY TokenTypes
    <2> QED
      BY <2>1
  <1>3. /\ z \in Seq(Tokens) /\ Len(z) = 4
        /\ z[1] = Mark("dash") /\ z[2] = Mark("boundary") /\ z[3] = Mark("dash")
        /\ z[4] = Mark("crlf")
    <2> DEFINE x1 == Mark("dash")
               x2 == Mark("boundary")
               x3 == Mark("crlf")
    <2>1. x1 \in Tokens /\ x2 \in Tokens /\ x3 \in Tokens /\ z = <<x1, x2, x1, x3>>
      BY TokenTypes
    <2> HIDE DEF x1, x2, x3, z
    <2> QED
      BY <2>1 DEF x1, x2, x3
  <1>4. F = d \o z
    BY DEF BodyOf, PartsOf
  <1>5. ASSUME NEW k \in 1 .. n PROVE Len(s[k]) = SizeOf(a.parts[k]) + 8
    <2>1. s[k] = Part(a.parts[k], a.known) /\ a.parts[k] \in Ranges /\ a.known \in BOOLEAN
      BY PartsFacts DEF IsAnswer
    <2>2. Len(Part(a.parts[k], a.known)) = SizeOf(a.parts[k]) + 8
      BY <2>1, PartFacts
    <2> QED
      BY <2>1, <2>2
  <1>6. \A k \in 1 .. n : s[k] = Part(a.parts[k], a.known)
    BY PartsFacts
  <1>7. \A k \in 1 .. n : SizeOf(a.parts[k]) \in Nat
    BY PartsFacts
  <1> HIDE DEF s, c, z, F, n
  <1>8. m \in Seq(Tokens) /\ l \in Nat
    BY <1>1, FlattenSeqIsLast, LenProperties
  <1>9. ASSUME NEW k \in 1 .. n, NEW j \in 1 .. SizeOf(a.parts[k]) + 8
        PROVE  m[Offset(s, k) + j] = s[k][j]
    <2>1. k \in 1 .. Len(s) /\ j \in 1 .. Len(s[k])
      BY <1>1, <1>5
    <2> HIDE DEF m
    <2>2. FlattenSeq(s)[Offset(s, k) + j] = s[k][j]
      BY <1>1, <2>1, FlattenedElement, Zenon
    <2> QED
      BY <2>2 DEF m
  <1>10. /\ Offset(s, n + 1) = l
         /\ \A k \in 1 .. n + 1 : Offset(s, k) \in Nat
         /\ \A k \in 1 .. n : Offset(s, k + 1) = Offset(s, k) + Len(s[k])
    BY <1>1, OffsetsAddUp
  <1> HIDE DEF m, l, d
  <1>11. /\ d \in Seq(Tokens) /\ Len(d) = 1 + l /\ d[1] = Mark("crlf")
         /\ \A j \in 1 .. l : d[1 + j] = m[j]
    <2>1. c \in Seq(Tokens) /\ m \in Seq(Tokens) /\ d = c \o m /\ Len(c) = 1 /\ Len(m) = l
      BY <1>2, <1>8 DEF d, l
    <2>2. Chained(Tokens, d, c, m)
      BY <2>1, ConcatenationChains
    <2> QED
      BY <1>2, <1>8, <2>1, <2>2 DEF Chained
  <1>12. /\ F \in Seq(Tokens) /\ Len(F) = 1 + l + 4
         /\ \A j \in 1 .. 1 + l : F[j] = d[j]
         /\ \A j \in 1 .. 4 : F[1 + l + j] = z[j]
    <2> DEFINE x == 1 + l
    <2>1. d \in Seq(Tokens) /\ z \in Seq(Tokens) /\ F = d \o z /\ Len(d) = x /\ Len(z) = 4
      BY <1>3, <1>4, <1>11
    <2> HIDE DEF x
    <2>2. Chained(Tokens, F, d, z)
      BY <2>1, ConcatenationChains
    <2>3. /\ F \in Seq(Tokens) /\ Len(F) = x + 4
          /\ \A j \in 1 .. x : F[j] = d[j]
          /\ \A j \in 1 .. 4 : F[x + j] = z[j]
      BY <2>1, <2>2 DEF Chained
    <2> QED
      BY <2>3 DEF x
  <1>13. F[1] = Mark("crlf")
    BY <1>8, <1>11, <1>12
  <1>14. ASSUME NEW k \in 1 .. n, NEW j \in 1 .. SizeOf(a.parts[k]) + 8
         PROVE  F[Start(a, k) + j] = Part(a.parts[k], a.known)[j]
    <2> DEFINE o == Offset(s, k) + j
    <2>1. Start(a, k) + j = 1 + o /\ o \in Nat \ {0}
      <3>1. k \in 1 .. n + 1
        BY <1>1
      <3>2. Offset(s, k) \in Nat /\ j \in Nat \ {0}
        BY <1>7, <1>10, <3>1
      <3> QED
        BY <3>2 DEF Start, s
    <2>2. o <= l
      <3> DEFINE T == {x \in Nat : k + x <= n + 1 => Offset(s, k + 1) <= Offset(s, k + x) \/ x = 0}
      <3>1. 0 \in T
        OBVIOUS
      <3>2. ASSUME NEW x \in Nat, x \in T PROVE x + 1 \in T
        <4> SUFFICES ASSUME k + (x + 1) <= n + 1 PROVE Offset(s, k + 1) <= Offset(s, k + (x + 1))
          OBVIOUS
        <4>1. CASE x = 0
          <5>1. x + 1 = 1 /\ k + 1 \in 1 .. n + 1
            BY <1>1, <4>1
          <5>2. Offset(s, k + 1) \in Nat
            BY <1>10, <5>1
          <5> QED
            BY <5>1, <5>2
        <4>2. CASE x # 0
          <5>1. k + x \in 1 .. n /\ k + x \in 1 .. n + 1 /\ k + 1 \in 1 .. n + 1 /\ k + x <= n + 1
            BY <1>1
          <5>2. k + (x + 1) = k + x + 1
            BY <1>1
          <5>3. Offset(s, k + x + 1) = Offset(s, k + x) + Len(s[k + x])
            BY <1>10, <5>1
          <5>4. Len(s[k + x]) \in Nat
            <6>1. SizeOf(a.parts[k + x]) \in Nat
              BY <1>7, <5>1
            <6> QED
              BY <1>5, <5>1, <6>1
          <5>5. Offset(s, k + x) \in Nat /\ Offset(s, k + 1) \in Nat
            BY <1>10, <5>1
          <5>6. Offset(s, k + 1) <= Offset(s, k + x)
            BY <3>2, <4>2, <5>1
          <5> QED
            BY <5>2, <5>3, <5>4, <5>5, <5>6
        <4> QED
          BY <4>1, <4>2
      <3>3. \A x \in Nat : x \in T
        <4> HIDE DEF T
        <4> QED
          BY <3>1, <3>2, SetInduction
      <3>4. Offset(s, k + 1) <= Offset(s, n + 1)
        <4>1. n + 1 - k \in Nat /\ n + 1 - k # 0 /\ k + (n + 1 - k) = n + 1
          BY <1>1
        <4>2. n + 1 - k \in T
          BY <3>3, <4>1
        <4> QED
          BY <4>1, <4>2
      <3>5. k \in 1 .. n + 1 /\ k + 1 \in 1 .. n + 1
        BY <1>1
      <3>6. Offset(s, k) \in Nat /\ Offset(s, k + 1) = Offset(s, k) + (SizeOf(a.parts[k]) + 8)
        BY <1>5, <1>10, <3>5
      <3>7. SizeOf(a.parts[k]) \in Nat /\ Offset(s, k + 1) <= l
        BY <1>7, <1>10, <3>4
      <3>8. j <= SizeOf(a.parts[k]) + 8 /\ j \in Nat /\ l \in Nat
        BY <1>7, <1>8
      <3> QED
        BY <3>6, <3>7, <3>8
    <2>3. m[o] = s[k][j]
      BY <1>9
    <2> HIDE DEF o
    <2>4. F[1 + o] = d[1 + o] /\ d[1 + o] = m[o]
      BY <1>8, <1>11, <1>12, <2>1, <2>2
    <2> QED
      BY <1>6, <2>1, <2>3, <2>4
  <1>15. Start(a, n + 1) = 1 + l
    BY <1>10 DEF Start, s
  <1>16. /\ F[1 + l + 1] = Mark("dash") /\ F[1 + l + 2] = Mark("boundary")
         /\ F[1 + l + 3] = Mark("dash") /\ F[1 + l + 4] = Mark("crlf")
    BY <1>3, <1>12
  <1> QED
    BY <1>12, <1>13, <1>14, <1>15, <1>16 DEF F, n

-----------------------------------------------------------------------------
(* The members of a request and the parts of an answer. *)

BeginOf(req, m) == req.members[m].begin
EndOf(req, m) == req.members[m].begin + req.members[m].size

LEMMA MinOfTwo ==
  ASSUME NEW x \in Int, NEW y \in Int
  PROVE  /\ Min({x, y}) \in Int
         /\ Min({x, y}) = IF x <= y THEN x ELSE y
  <1> DEFINE z == IF x <= y THEN x ELSE y
  <1>1. z \in {x, y} /\ \A w \in {x, y} : z <= w
    OBVIOUS
  <1>2. ASSUME NEW v \in {x, y}, \A w \in {x, y} : v <= w PROVE v = z
    BY <1>2
  <1>3. Min({x, y}) = z
    BY <1>1, <1>2 DEF Min
  <1> QED
    BY <1>3

\* The members follow one another in the file.
LEMMA RequestFacts ==
  ASSUME NEW req \in Requests
  PROVE  /\ req.batch \in BOOLEAN
         /\ Len(req.members) \in Nat \ {0} /\ DOMAIN req.members = 1 .. Len(req.members)
         /\ req.batch \/ Len(req.members) = 1
         /\ \A m \in 1 .. Len(req.members) :
              /\ BeginOf(req, m) \in Nat /\ EndOf(req, m) \in Nat
              /\ req.members[m].size \in Nat
              /\ EndOf(req, m) = BeginOf(req, m) + req.members[m].size
         /\ \A i \in 1 .. Len(req.members), j \in 1 .. Len(req.members) :
              i < j => EndOf(req, i) <= BeginOf(req, j)
  <1> DEFINE n == Len(req.members)
  <1>1. /\ req.batch \in BOOLEAN /\ (req.batch \/ n = 1)
        /\ req.members \in Seq([begin : Nat, size : Nat]) /\ req.members # <<>>
        /\ \A k \in DOMAIN req.members \ {1} :
             req.members[k - 1].begin + req.members[k - 1].size <= req.members[k].begin
    BY HttpReadAssumption
  <1>2. /\ n \in Nat \ {0} /\ DOMAIN req.members = 1 .. n
        /\ \A m \in 1 .. n : req.members[m] \in [begin : Nat, size : Nat]
    BY <1>1, EmptySeq, LenProperties
  <1> HIDE DEF n
  <1>3. \A m \in 1 .. n :
          /\ BeginOf(req, m) \in Nat /\ EndOf(req, m) \in Nat /\ req.members[m].size \in Nat
          /\ EndOf(req, m) = BeginOf(req, m) + req.members[m].size
    BY <1>2 DEF BeginOf, EndOf
  <1>4. \A k \in 2 .. n : EndOf(req, k - 1) <= BeginOf(req, k)
    <2>1. ASSUME NEW k \in 2 .. n PROVE EndOf(req, k - 1) <= BeginOf(req, k)
      <3>1. k \in DOMAIN req.members \ {1}
        BY <1>2
      <3> QED
        BY <1>1, <3>1 DEF BeginOf, EndOf
    <2> QED
      BY <2>1
  <1>5. ASSUME NEW i \in 1 .. n, NEW j \in 1 .. n, i < j PROVE EndOf(req, i) <= BeginOf(req, j)
    <2> DEFINE T == {d \in Nat : i + d + 1 <= n => EndOf(req, i) <= BeginOf(req, i + d + 1)}
    <2>1. 0 \in T
      <3> SUFFICES ASSUME i + 1 <= n PROVE EndOf(req, i) <= BeginOf(req, i + 1)
        OBVIOUS
      <3>1. PICK k : k = i + 1
        OBVIOUS
      <3>2. k \in 2 .. n /\ k - 1 = i
        BY <1>2, <3>1
      <3> QED
        BY <1>4, <3>1, <3>2
    <2>2. ASSUME NEW d \in Nat, d \in T PROVE d + 1 \in T
      <3> SUFFICES ASSUME i + (d + 1) + 1 <= n
                   PROVE  EndOf(req, i) <= BeginOf(req, i + (d + 1) + 1)
        OBVIOUS
      <3>1. PICK k : k = i + (d + 1) + 1
        OBVIOUS
      <3>2. k \in 2 .. n /\ k - 1 = i + d + 1 /\ k - 1 \in 1 .. n /\ k \in 1 .. n
        BY <1>2, <3>1
      <3>3. EndOf(req, i) <= BeginOf(req, k - 1)
        BY <2>2, <3>2
      <3>4. EndOf(req, k - 1) <= BeginOf(req, k)
        BY <1>4, <3>2
      <3>5. /\ BeginOf(req, k - 1) \in Nat /\ EndOf(req, k - 1) \in Nat
            /\ req.members[k - 1].size \in Nat /\ BeginOf(req, k) \in Nat
            /\ EndOf(req, k - 1) = BeginOf(req, k - 1) + req.members[k - 1].size
            /\ EndOf(req, i) \in Nat
        BY <1>3, <3>2
      <3>6. EndOf(req, i) <= BeginOf(req, k)
        BY <3>3, <3>4, <3>5
      <3> QED
        BY <3>1, <3>6
    <2>3. \A d \in Nat : d \in T
      <3> HIDE DEF T
      <3> QED
        BY <2>1, <2>2, SetInduction
    <2>4. j - i - 1 \in Nat /\ i + (j - i - 1) + 1 = j /\ j <= n
      BY <1>2, <1>5
    <2>5. j - i - 1 \in T
      BY <2>3, <2>4
    <2> QED
      BY <2>4, <2>5
  <1> QED
    BY <1>1, <1>2, <1>3, <1>5 DEF n

\* The first member that went into part k.
GroupFirst(e, k) == IF k = 1 THEN 1 ELSE e[k - 1] + 1

\* A grouping cuts the members that begin within the file into runs.
LEMMA GroupFacts ==
  ASSUME NEW req \in Requests, NEW e \in Groupings(req)
  PROVE  /\ Len(e) \in Nat \ {0} /\ DOMAIN e = 1 .. Len(e)
         /\ Len(e) <= Len(req.members)
         /\ \A k \in 1 .. Len(e) :
              /\ e[k] \in 1 .. Len(req.members) /\ e[k] <= e[Len(e)]
              /\ GroupFirst(e, k) \in 1 .. Len(req.members) /\ GroupFirst(e, k) <= e[k]
         /\ \A m \in 1 .. Len(req.members) : m <= e[Len(e)] <=> BeginOf(req, m) < FileSize
         /\ \A i \in 1 .. Len(e), k \in 1 .. Len(e) : i < k => e[i] < GroupFirst(e, k)
         /\ \A m \in 1 .. Len(req.members) :
              m <= e[Len(e)] => \E k \in 1 .. Len(e) : GroupFirst(e, k) <= m /\ m <= e[k]
  <1> DEFINE M == Len(req.members)
             N == Len(e)
  <1>1. M \in Nat \ {0} /\ DOMAIN req.members = 1 .. M
    BY RequestFacts
  <1>2. /\ \E n \in DOMAIN req.members : e \in [1 .. n -> DOMAIN req.members]
        /\ \A k \in 2 .. N : e[k - 1] < e[k]
        /\ \A m \in DOMAIN req.members : m <= e[N] <=> req.members[m].begin < FileSize
    BY DEF Groupings
  <1>3. PICK n \in 1 .. M : e \in [1 .. n -> 1 .. M]
    BY <1>1, <1>2
  <1>4. n \in Nat /\ e \in Seq(1 .. M) /\ N = n
    BY <1>1, <1>3, FunctionIsSeq
  <1>5. /\ N \in Nat \ {0} /\ DOMAIN e = 1 .. N /\ N <= M
        /\ \A k \in 1 .. N : e[k] \in 1 .. M
    BY <1>1, <1>3, <1>4
  <1>6. /\ \A k \in 2 .. N : e[k - 1] < e[k]
        /\ \A m \in 1 .. M : m <= e[N] <=> BeginOf(req, m) < FileSize
    BY <1>1, <1>2 DEF BeginOf
  <1> HIDE DEF M, N
  <1>7. ASSUME NEW i \in 1 .. N, NEW k \in 1 .. N, i < k PROVE e[i] <= e[k - 1]
    <2> DEFINE T == {d \in Nat : i + d <= N => e[i] <= e[i + d]}
    <2>1. 0 \in T
      <3>1. i + 0 = i /\ e[i] \in 1 .. M
        BY <1>5
      <3> QED
        BY <1>1, <3>1
    <2>2. ASSUME NEW d \in Nat, d \in T PROVE d + 1 \in T
      <3> SUFFICES ASSUME i + (d + 1) <= N PROVE e[i] <= e[i + (d + 1)]
        OBVIOUS
      <3>1. PICK j : j = i + (d + 1)
        OBVIOUS
      <3>2. j \in 2 .. N /\ j - 1 = i + d /\ j - 1 \in 1 .. N /\ j \in 1 .. N
        BY <1>5, <3>1
      <3>3. e[i] <= e[j - 1] /\ e[j - 1] < e[j]
        BY <1>6, <2>2, <3>2
      <3>4. e[i] \in Nat /\ e[j - 1] \in Nat /\ e[j] \in Nat
        BY <1>1, <1>5, <3>2
      <3> QED
        BY <3>1, <3>3, <3>4
    <2>3. \A d \in Nat : d \in T
      <3> HIDE DEF T
      <3> QED
        BY <2>1, <2>2, SetInduction
    <2>4. k - 1 - i \in Nat /\ i + (k - 1 - i) = k - 1 /\ k - 1 <= N
      BY <1>5, <1>7
    <2>5. k - 1 - i \in T
      BY <2>3, <2>4
    <2> QED
      BY <2>4, <2>5
  <1>8. ASSUME NEW k \in 1 .. N
        PROVE  /\ GroupFirst(e, k) \in 1 .. M /\ GroupFirst(e, k) <= e[k]
               /\ e[k] <= e[N]
    <2>1. e[k] \in 1 .. M /\ e[N] \in 1 .. M
      BY <1>5
    <2>2. GroupFirst(e, k) \in 1 .. M /\ GroupFirst(e, k) <= e[k]
      <3>1. CASE k = 1
        BY <1>1, <2>1, <3>1 DEF GroupFirst
      <3>2. CASE k # 1
        <4>1. k \in 2 .. N /\ k - 1 \in 1 .. N
          BY <1>5, <3>2
        <4>2. e[k - 1] < e[k] /\ e[k - 1] \in 1 .. M
          BY <1>5, <1>6, <4>1
        <4> QED
          BY <1>1, <2>1, <3>2, <4>2 DEF GroupFirst
      <3> QED
        BY <3>1, <3>2
    <2>3. e[k] <= e[N]
      <3>1. CASE k = N
        BY <1>1, <2>1, <3>1
      <3>2. CASE k # N
        <4>1. k < N /\ N \in 2 .. N /\ N \in 1 .. N /\ N - 1 \in 1 .. N
          BY <1>5, <3>2
        <4>2. e[k] <= e[N - 1] /\ e[N - 1] < e[N] /\ e[N - 1] \in 1 .. M
          BY <1>5, <1>6, <1>7, <4>1
        <4> QED
          BY <1>1, <2>1, <4>2
      <3> QED
        BY <3>1, <3>2
    <2> QED
      BY <2>2, <2>3
  <1>9. ASSUME NEW i \in 1 .. N, NEW k \in 1 .. N, i < k PROVE e[i] < GroupFirst(e, k)
    <2>1. k # 1 /\ k - 1 \in 1 .. N
      BY <1>5, <1>9
    <2>2. e[i] \in 1 .. M /\ e[k - 1] \in 1 .. M /\ e[i] <= e[k - 1]
      BY <1>5, <1>7, <1>9, <2>1
    <2> QED
      BY <1>1, <2>1, <2>2 DEF GroupFirst
  <1>10. ASSUME NEW m \in 1 .. M, m <= e[N]
         PROVE  \E k \in 1 .. N : GroupFirst(e, k) <= m /\ m <= e[k]
    <2> DEFINE T == {d \in Nat : d \in 1 .. N => \/ e[d] < m
                                                 \/ \E k \in 1 .. N : GroupFirst(e, k) <= m /\ m <= e[k]}
    <2>1. 0 \in T
      OBVIOUS
    <2>2. ASSUME NEW d \in Nat, d \in T PROVE d + 1 \in T
      <3> SUFFICES ASSUME d + 1 \in 1 .. N, ~(e[d + 1] < m)
                   PROVE  \E k \in 1 .. N : GroupFirst(e, k) <= m /\ m <= e[k]
        OBVIOUS
      <3>1. PICK k : k = d + 1
        OBVIOUS
      <3>2. k \in 1 .. N /\ e[k] \in 1 .. M /\ m <= e[k]
        BY <1>1, <1>5, <3>1
      <3>3. CASE d = 0
        <4>1. GroupFirst(e, k) <= m
          BY <1>1, <3>1, <3>3 DEF GroupFirst
        <4> QED
          BY <3>2, <4>1
      <3>4. CASE d # 0
        <4>1. d \in 1 .. N /\ k # 1 /\ k - 1 = d
          BY <1>5, <3>1, <3>4
        <4>2. CASE e[d] < m
          <5>1. GroupFirst(e, k) = e[d] + 1 /\ e[d] \in 1 .. M
            BY <1>5, <4>1 DEF GroupFirst
          <5>2. GroupFirst(e, k) <= m
            BY <1>1, <4>2, <5>1
          <5> QED
            BY <3>2, <5>2
        <4>3. CASE ~(e[d] < m)
          BY <2>2, <4>1, <4>3
        <4> QED
          BY <4>2, <4>3
      <3> QED
        BY <3>3, <3>4
    <2>3. \A d \in Nat : d \in T
      <3> HIDE DEF T
      <3> QED
        BY <2>1, <2>2, SetInduction
    <2>4. N \in T /\ N \in 1 .. N /\ e[N] \in 1 .. M
      BY <1>5, <2>3
    <2> QED
      BY <1>1, <1>10, <2>4
  <1> QED
    BY <1>5, <1>6, <1>8, <1>9, <1>10 DEF M, N

LEMMA CutFacts ==
  ASSUME NEW x \in Int, NEW y \in Int
  PROVE  Cut([first |-> x, last |-> y])
           = [first |-> x, last |-> IF y < FileSize THEN y ELSE FileSize - 1]
  <1>1. FileSize \in Int /\ FileSize - 1 \in Int
    BY HttpReadAssumption
  <1>2. Min({y, FileSize - 1}) = IF y < FileSize THEN y ELSE FileSize - 1
    BY <1>1, MinOfTwo
  <1> QED
    BY <1>2 DEF Cut

\* A part reaches from the begin of a member to the end of a later one, or of the file.
LEMMA JoinedFacts ==
  ASSUME NEW req \in Requests, Valid(req), NEW e \in Groupings(req)
  PROVE  /\ Joined(req, e) \in Seq(Ranges) /\ Len(Joined(req, e)) = Len(e)
         /\ \A m \in 1 .. Len(req.members) : req.members[m].size \in Nat \ {0}
         /\ \A k \in 1 .. Len(e) :
              /\ Joined(req, e)[k].first = BeginOf(req, GroupFirst(e, k))
              /\ Joined(req, e)[k].last = IF EndOf(req, e[k]) <= FileSize
                                            THEN EndOf(req, e[k]) - 1 ELSE FileSize - 1
              /\ BeginOf(req, GroupFirst(e, k)) <= BeginOf(req, e[k])
              /\ BeginOf(req, e[k]) < EndOf(req, e[k]) /\ BeginOf(req, e[k]) < FileSize
  <1> DEFINE M == Len(req.members)
             N == Len(e)
             J == Joined(req, e)
             B(m) == BeginOf(req, m)
             E(m) == EndOf(req, m)
             G(k) == GroupFirst(e, k)
             L(k) == IF E(e[k]) <= FileSize THEN E(e[k]) - 1 ELSE FileSize - 1
  <1>1. /\ M \in Nat \ {0} /\ DOMAIN req.members = 1 .. M
        /\ \A m \in 1 .. M : /\ B(m) \in Nat /\ E(m) \in Nat /\ req.members[m].size \in Nat
                             /\ E(m) = B(m) + req.members[m].size
        /\ \A i \in 1 .. M, j \in 1 .. M : i < j => E(i) <= B(j)
    BY RequestFacts
  <1>2. /\ N \in Nat \ {0} /\ DOMAIN e = 1 .. N
        /\ \A k \in 1 .. N : /\ e[k] \in 1 .. M /\ e[k] <= e[N]
                             /\ G(k) \in 1 .. M /\ G(k) <= e[k]
        /\ \A m \in 1 .. M : m <= e[N] <=> B(m) < FileSize
    BY GroupFacts
  <1>3. ASSUME NEW m \in 1 .. M
        PROVE  Asked(req)[m] = [first |-> B(m), last |-> E(m) - 1]
    BY <1>1 DEF Asked, RangeOf, BeginOf, EndOf
  <1>4. ASSUME NEW m \in 1 .. M PROVE req.members[m].size \in Nat \ {0} /\ B(m) < E(m)
    <2>1. B(m) <= E(m) - 1
      <3>1. m \in DOMAIN Asked(req)
        BY <1>1 DEF Asked
      <3>2. Asked(req)[m].first <= Asked(req)[m].last
        BY <3>1 DEF Valid
      <3> DEFINE x == B(m)
                 y == E(m) - 1
                 r == [first |-> x, last |-> y]
      <3>3. r.first <= r.last
        BY <1>3, <3>2
      <3> HIDE DEF x, y
      <3>4. x <= y
        BY <3>3
      <3> QED
        BY <3>4 DEF x, y
    <2> QED
      BY <1>1, <2>1
  <1>5. J = [k \in 1 .. N |-> Cut([first |-> Asked(req)[G(k)].first, last |-> Asked(req)[e[k]].last])]
    BY <1>2 DEF Joined, GroupFirst
  <1> HIDE DEF M, N, J, B, E, G, L
  <1>6. FileSize \in Nat \ {0}
    BY HttpReadAssumption
  <1>7. ASSUME NEW k \in 1 .. N
        PROVE  /\ J[k] = [first |-> B(G(k)), last |-> L(k)]
               /\ B(G(k)) <= B(e[k]) /\ B(e[k]) < E(e[k]) /\ B(e[k]) < FileSize
               /\ B(G(k)) \in Nat /\ L(k) \in Nat /\ B(G(k)) <= L(k)
    <2>1. e[k] \in 1 .. M /\ G(k) \in 1 .. M /\ G(k) <= e[k] /\ e[k] <= e[N]
      BY <1>2
    <2>2. /\ B(G(k)) \in Nat /\ B(e[k]) \in Nat /\ E(e[k]) \in Nat /\ E(G(k)) \in Nat
          /\ B(G(k)) < E(G(k)) /\ B(e[k]) < E(e[k])
      BY <1>1, <1>4, <2>1
    <2>3. G(k) < e[k] \/ G(k) = e[k]
      BY <1>1, <2>1
    <2>4. G(k) < e[k] => E(G(k)) <= B(e[k])
      BY <1>1, <2>1
    <2>5. B(G(k)) <= B(e[k])
      BY <2>2, <2>3, <2>4
    <2>6. B(e[k]) < FileSize
      BY <1>2, <2>1
    <2>7. J[k] = Cut([first |-> B(G(k)), last |-> E(e[k]) - 1])
      <3>1. J[k] = Cut([first |-> Asked(req)[G(k)].first, last |-> Asked(req)[e[k]].last])
        BY <1>5
      <3>2. Asked(req)[G(k)] = [first |-> B(G(k)), last |-> E(G(k)) - 1]
        BY <1>3, <2>1
      <3>3. Asked(req)[e[k]] = [first |-> B(e[k]), last |-> E(e[k]) - 1]
        BY <1>3, <2>1
      <3>4. Asked(req)[G(k)].first = B(G(k)) /\ Asked(req)[e[k]].last = E(e[k]) - 1
        BY <3>2, <3>3
      <3> QED
        BY <3>1, <3>4
    <2>8. Cut([first |-> B(G(k)), last |-> E(e[k]) - 1])
            = [first |-> B(G(k)), last |-> IF E(e[k]) - 1 < FileSize THEN E(e[k]) - 1 ELSE FileSize - 1]
      <3>1. B(G(k)) \in Int /\ E(e[k]) - 1 \in Int
        BY <2>2
      <3> QED
        BY <3>1, CutFacts
    <2>9. L(k) = IF E(e[k]) - 1 < FileSize THEN E(e[k]) - 1 ELSE FileSize - 1
      BY <1>6, <2>2 DEF L
    <2>10. L(k) \in Nat /\ B(G(k)) <= L(k)
      BY <1>6, <2>2, <2>5, <2>6, <2>9
    <2> QED
      BY <2>2, <2>5, <2>6, <2>7, <2>8, <2>9, <2>10
  <1>8. ASSUME NEW k \in 1 .. N PROVE J[k] \in Ranges
    <2>1. PICK x, y : x = B(G(k)) /\ y = L(k)
      OBVIOUS
    <2>2. J[k] = [first |-> x, last |-> y] /\ x \in Nat /\ y \in Nat /\ x <= y
      BY <1>7, <2>1
    <2> QED
      BY <2>2 DEF Ranges
  <1>9. DOMAIN J = 1 .. N /\ J \in [1 .. N -> Ranges]
    BY <1>5, <1>8
  <1>10. J \in Seq(Ranges) /\ Len(J) = N
    BY <1>2, <1>9, FunctionIsSeq
  <1>11. ASSUME NEW k \in 1 .. N PROVE J[k].first = B(G(k)) /\ J[k].last = L(k)
    <2>1. J[k] = [first |-> B(G(k)), last |-> L(k)]
      BY <1>7
    <2> QED
      BY <2>1
  <1> QED
    BY <1>4, <1>7, <1>10, <1>11 DEF M, N, J, B, E, G, L

\* What a partial answer promises.
Served(req, a) ==
  /\ IsAnswer(a) /\ a.multipart \in BOOLEAN /\ a.ordered \in BOOLEAN
  /\ IF a.multipart THEN Len(req.members) > 1 ELSE Len(a.parts) = 1
  /\ \A m \in 1 .. Len(req.members) : req.members[m].size \in Nat \ {0}

\* A member that begins within the file begins within some part.
Found(req, a) ==
  \A m \in 1 .. Len(req.members) :
    BeginOf(req, m) < FileSize =>
      \E k \in 1 .. Len(a.parts) :
        a.parts[k].first <= BeginOf(req, m) /\ BeginOf(req, m) <= a.parts[k].last

\* When the file holds the members, none ends outside the part it begins in.
Unsplit(req, a) ==
  InFile(req) =>
    \A k \in 1 .. Len(a.parts), m \in 1 .. Len(req.members) :
      a.parts[k].first <= BeginOf(req, m) /\ BeginOf(req, m) <= a.parts[k].last =>
        EndOf(req, m) <= a.parts[k].last + 1

\* A single part begins with the first member.  It holds more than one byte when the
\* file holds more than one member.
Single(req, a) ==
  Len(a.parts) = 1 =>
    /\ a.parts[1].first = BeginOf(req, 1)
    /\ InFile(req) /\ Len(req.members) > 1 => SizeOf(a.parts[1]) > 1

\* Parts in order lie one behind the other, from the first member on.
InOrder(req, a) ==
  a.ordered =>
    /\ a.parts[1].first = BeginOf(req, 1)
    /\ \A i \in 1 .. Len(a.parts), k \in 1 .. Len(a.parts) :
         i < k => a.parts[i].last < a.parts[k].first

\* A plain read is answered with its range, as far as the file goes.
Plain(req, a) ==
  ~req.batch => ~a.multipart /\ a.parts[1] = Cut(RangeOf(req.members[1]))

Facts(req, a) ==
  Served(req, a) /\ Found(req, a) /\ Unsplit(req, a) /\ Single(req, a) /\ InOrder(req, a)
    /\ Plain(req, a)

LEMMA PartialFacts ==
  ASSUME NEW req \in Requests, Valid(req), NEW a \in PartialAnswers(req)
  PROVE  a.code = 206 /\ Facts(req, a)
  <1> DEFINE M == Len(req.members)
             B(m) == BeginOf(req, m)
             E(m) == EndOf(req, m)
             AnswerOf(J, p, known, m) ==
               [ code |-> 206, multipart |-> m, known |-> known,
                 parts |-> [k \in DOMAIN J |-> J[p[k]]],
                 ordered |-> \A k \in DOMAIN J : p[k] = k ]
  <1>a. PICK e \in Groupings(req) :
          \E p \in Orders(Len(Joined(req, e))), known \in BOOLEAN, multi \in BOOLEAN :
            /\ a = AnswerOf(Joined(req, e), p, known, multi)
            /\ IF multi THEN Len(req.members) > 1 ELSE Len(Joined(req, e)) = 1
    BY DEF PartialAnswers
  <1>1. PICK p \in Orders(Len(Joined(req, e))), known \in BOOLEAN, multi \in BOOLEAN :
          /\ a = AnswerOf(Joined(req, e), p, known, multi)
          /\ IF multi THEN Len(req.members) > 1 ELSE Len(Joined(req, e)) = 1
    BY <1>a
  <1> DEFINE N == Len(e)
             J == Joined(req, e)
             G(k) == GroupFirst(e, k)
             n == Len(a.parts)
  <1>2. /\ M \in Nat \ {0} /\ (req.batch \/ M = 1)
        /\ \A m \in 1 .. M : B(m) \in Nat /\ E(m) \in Nat /\ E(m) = B(m) + req.members[m].size
        /\ \A i \in 1 .. M, j \in 1 .. M : i < j => E(i) <= B(j)
    BY RequestFacts
  <1>3. /\ N \in Nat \ {0} /\ N <= M
        /\ \A k \in 1 .. N : /\ e[k] \in 1 .. M /\ e[k] <= e[N]
                             /\ G(k) \in 1 .. M /\ G(k) <= e[k]
        /\ \A m \in 1 .. M : m <= e[N] <=> B(m) < FileSize
        /\ \A i \in 1 .. N, k \in 1 .. N : i < k => e[i] < G(k)
        /\ \A m \in 1 .. M : m <= e[N] => \E k \in 1 .. N : G(k) <= m /\ m <= e[k]
    BY GroupFacts
  <1>4. /\ J \in Seq(Ranges) /\ Len(J) = N
        /\ \A m \in 1 .. M : req.members[m].size \in Nat \ {0}
        /\ \A k \in 1 .. N :
             /\ J[k].first = B(G(k))
             /\ J[k].last = IF E(e[k]) <= FileSize THEN E(e[k]) - 1 ELSE FileSize - 1
             /\ B(G(k)) <= B(e[k]) /\ B(e[k]) < E(e[k]) /\ B(e[k]) < FileSize
    BY JoinedFacts
  <1>5. G(1) = 1
    BY DEF GroupFirst
  <1>6. FileSize \in Nat \ {0}
    BY HttpReadAssumption
  <1>7. p \in [1 .. N -> 1 .. N] /\ {p[k] : k \in 1 .. N} = 1 .. N
    BY <1>1, <1>4 DEF Orders
  <1>8. /\ a.code = 206 /\ a.multipart = multi /\ a.known = known
        /\ a.parts = [k \in 1 .. N |-> J[p[k]]]
        /\ a.ordered = \A k \in 1 .. N : p[k] = k
    <2>1. DOMAIN J = 1 .. N
      BY <1>4
    <2> HIDE DEF J, N
    <2>2. a = AnswerOf(J, p, known, multi)
      BY <1>1 DEF J
    <2> QED
      BY <2>1, <2>2
  <1>9. \A k \in 1 .. N : J[k] \in Ranges
    BY <1>4
  <1>10. a.parts \in Seq(Ranges) /\ n = N /\ n \in Nat \ {0} /\ a.parts # <<>>
    <2>1. a.parts \in [1 .. N -> Ranges]
      BY <1>7, <1>8, <1>9
    <2>2. a.parts \in Seq(Ranges) /\ Len(a.parts) = N
      BY <1>3, <2>1, FunctionIsSeq
    <2> QED
      BY <1>3, <2>2, EmptySeq
  <1>11. Served(req, a)
    <2>1. a.ordered \in BOOLEAN
      BY <1>8
    <2>2. IF multi THEN M > 1 ELSE N = 1
      BY <1>1, <1>4
    <2> QED
      BY <1>1, <1>4, <1>8, <1>10, <2>1, <2>2 DEF Served, IsAnswer
  <1> HIDE DEF M, N, J, B, E, G, n
  <1>12. \A k \in 1 .. N : p[k] \in 1 .. N /\ a.parts[k] = J[p[k]]
    BY <1>7, <1>8
  <1>13. ASSUME NEW i \in 1 .. N PROVE \E k \in 1 .. N : a.parts[k] = J[i]
    BY <1>7, <1>12
  <1>14. Found(req, a)
    <2> SUFFICES ASSUME NEW m \in 1 .. M, B(m) < FileSize
                 PROVE  \E k \in 1 .. N : a.parts[k].first <= B(m) /\ B(m) <= a.parts[k].last
      BY <1>10 DEF Found, M, B, n
    <2>1. PICK i \in 1 .. N : G(i) <= m /\ m <= e[i]
      BY <1>3
    <2>2. e[i] \in 1 .. M /\ G(i) \in 1 .. M /\ m \in Nat
      <3>1. e[i] \in 1 .. M /\ G(i) \in 1 .. M
        BY <1>3
      <3>2. M \in Nat
        BY <1>2
      <3> QED
        BY <3>1, <3>2
    <2>3. /\ B(m) \in Nat /\ E(m) \in Nat /\ B(e[i]) \in Nat /\ E(e[i]) \in Nat
          /\ B(G(i)) \in Nat /\ E(G(i)) \in Nat
      BY <1>2, <2>2
    <2>4. B(m) < E(m) /\ B(G(i)) < E(G(i)) /\ B(e[i]) < E(e[i])
      <3>1. ASSUME NEW j \in 1 .. M PROVE B(j) < E(j)
        <4>1. req.members[j].size \in Nat \ {0} /\ B(j) \in Nat /\ E(j) = B(j) + req.members[j].size
          BY <1>2, <1>4
        <4> QED
          BY <4>1
      <3> QED
        BY <2>2, <3>1
    <2>5. B(G(i)) <= B(m)
      <3>1. G(i) < m \/ G(i) = m
        BY <1>2, <2>1, <2>2
      <3>2. G(i) < m => E(G(i)) <= B(m)
        BY <1>2, <2>2
      <3> QED
        BY <2>3, <2>4, <3>1, <3>2
    <2>6. E(m) <= E(e[i])
      <3>1. m < e[i] \/ m = e[i]
        BY <1>2, <2>1, <2>2
      <3>2. m < e[i] => E(m) <= B(e[i])
        BY <1>2, <2>2
      <3> QED
        BY <2>3, <2>4, <3>1, <3>2
    <2>7. J[i].first <= B(m) /\ B(m) <= J[i].last
      <3>1. /\ J[i].first = B(G(i))
            /\ J[i].last = IF E(e[i]) <= FileSize THEN E(e[i]) - 1 ELSE FileSize - 1
        BY <1>4
      <3> QED
        BY <1>6, <2>3, <2>4, <2>5, <2>6, <3>1
    <2>8. PICK k \in 1 .. N : a.parts[k] = J[i]
      BY <1>13
    <2> QED
      BY <2>7, <2>8
  <1>15. Unsplit(req, a)
    <2> SUFFICES ASSUME InFile(req), NEW k \in 1 .. N, NEW m \in 1 .. M,
                        a.parts[k].first <= B(m), B(m) <= a.parts[k].last
                 PROVE  E(m) <= a.parts[k].last + 1
      BY <1>10 DEF Unsplit, M, B, E, n
    <2>1. PICK i \in 1 .. N : a.parts[k] = J[i]
      BY <1>12
    <2>2. e[i] \in 1 .. M
      BY <1>3
    <2>3. /\ B(m) \in Nat /\ E(m) \in Nat /\ B(e[i]) \in Nat /\ E(e[i]) \in Nat
          /\ B(e[i]) < E(e[i])
      BY <1>2, <1>4, <2>2
    <2>4. \A j \in 1 .. M : E(j) <= FileSize
      BY RequestFacts DEF InFile, M, E, EndOf
    <2>5. J[i].last = E(e[i]) - 1
      BY <1>4, <2>2, <2>4
    <2>6. B(m) < E(e[i])
      BY <2>1, <2>3, <2>5
    <2>7. m < e[i] \/ m = e[i]
      <3>1. e[i] < m => E(e[i]) <= B(m)
        BY <1>2, <2>2
      <3> QED
        BY <1>2, <2>2, <2>3, <2>6, <3>1, SMTT(30)
    <2>8. m < e[i] => E(m) <= B(e[i])
      BY <1>2, <2>2
    <2>9. E(m) <= E(e[i])
      BY <2>3, <2>7, <2>8
    <2> QED
      BY <2>1, <2>3, <2>5, <2>9
  <1>16. 1 \in 1 .. N /\ 1 \in 1 .. M /\ B(1) \in Nat /\ J[1].first = B(1)
    <2>1. 1 \in 1 .. N /\ 1 \in 1 .. M
      BY <1>2, <1>3
    <2> QED
      BY <1>2, <1>4, <1>5, <2>1
  <1>17. Single(req, a)
    <2> SUFFICES ASSUME N = 1
                 PROVE  /\ a.parts[1].first = B(1)
                        /\ InFile(req) /\ M > 1 => SizeOf(a.parts[1]) > 1
      BY <1>10 DEF Single, M, B, n
    <2>1. p[1] = 1
      BY <1>7
    <2>2. a.parts[1] = J[1]
      BY <1>12, <1>16, <2>1
    <2>3. ASSUME InFile(req), M > 1 PROVE SizeOf(a.parts[1]) > 1
      <3>1. \A j \in 1 .. M : E(j) <= FileSize
        BY <2>3, RequestFacts DEF InFile, M, E, EndOf
      <3>2. M \in 1 .. M /\ B(M) \in Nat /\ E(M) \in Nat /\ B(M) < E(M) /\ E(M) <= FileSize
        <4>1. M \in 1 .. M
          BY <1>2
        <4>2. req.members[M].size \in Nat \ {0}
          BY <1>4, <4>1
        <4> QED
          BY <1>2, <3>1, <4>1, <4>2
      <3>3. e[1] = M
        <4>1. B(M) < FileSize
          BY <1>6, <3>2
        <4>2. M <= e[N]
          BY <1>3, <3>2, <4>1
        <4>3. e[1] \in 1 .. M
          BY <1>3, <1>16
        <4> QED
          BY <1>2, <4>2, <4>3
      <3>4. J[1].last = E(M) - 1
        BY <1>4, <1>16, <3>2, <3>3
      <3>5. E(1) <= B(M)
        BY <1>2, <1>16, <2>3, <3>2
      <3>6. E(1) \in Nat /\ B(1) < E(1)
        BY <1>2, <1>4, <1>16
      <3> QED
        BY <1>16, <2>2, <3>2, <3>4, <3>5, <3>6 DEF SizeOf
    <2> QED
      BY <1>16, <2>2, <2>3
  <1>18. InOrder(req, a)
    <2> SUFFICES ASSUME a.ordered
                 PROVE  /\ a.parts[1].first = B(1)
                        /\ \A i \in 1 .. N, k \in 1 .. N :
                             i < k => a.parts[i].last < a.parts[k].first
      BY <1>10 DEF InOrder, M, B, n
    <2>1. \A k \in 1 .. N : a.parts[k] = J[k]
      <3>1. \A k \in 1 .. N : p[k] = k
        BY <1>8, Zenon
      <3> QED
        BY <1>12, <3>1
    <2>2. ASSUME NEW i \in 1 .. N, NEW k \in 1 .. N, i < k PROVE J[i].last < J[k].first
      <3>1. e[i] \in 1 .. M /\ G(k) \in 1 .. M /\ e[i] < G(k)
        BY <1>3, <2>2
      <3>2. E(e[i]) <= B(G(k)) /\ E(e[i]) \in Nat /\ B(G(k)) \in Nat
        BY <1>2, <3>1
      <3>3. /\ J[k].first = B(G(k))
            /\ J[i].last = IF E(e[i]) <= FileSize THEN E(e[i]) - 1 ELSE FileSize - 1
        BY <1>4
      <3> QED
        BY <1>6, <3>2, <3>3
    <2> QED
      BY <1>16, <2>1, <2>2
  <1>19. Plain(req, a)
    <2> SUFFICES ASSUME ~req.batch
                 PROVE  ~a.multipart /\ a.parts[1] = Cut(RangeOf(req.members[1]))
      BY DEF Plain
    <2>1. M = 1 /\ N = 1
      BY <1>2, <1>3
    <2>2. ~a.multipart
      BY <1>1, <1>8, <2>1 DEF M
    <2>3. p[1] = 1 /\ e[1] = 1
      BY <1>3, <1>7, <2>1
    <2>4. a.parts[1] = J[1] /\ J[1] \in Ranges
      BY <1>9, <1>12, <1>16, <2>3
    <2>5. RangeOf(req.members[1]) = [first |-> B(1), last |-> E(1) - 1]
      <3> DEFINE x == req.members[1]
      <3>1. RangeOf(x) = [first |-> x.begin, last |-> x.begin + x.size - 1]
        BY Zenon DEF RangeOf
      <3>2. B(1) = x.begin /\ E(1) = x.begin + x.size
        BY Zenon DEF B, E, BeginOf, EndOf
      <3>3. PICK b, n1 : b = x.begin /\ n1 = x.size
        OBVIOUS
      <3>4. RangeOf(x) = [first |-> b, last |-> b + n1 - 1]
        BY <3>1, <3>3
      <3>5. B(1) = b /\ E(1) = b + n1 /\ b \in Nat /\ n1 \in Nat
        BY <1>4, <1>16, <3>2, <3>3
      <3>6. b + n1 - 1 = E(1) - 1
        BY <3>5
      <3> QED
        BY <3>4, <3>5, <3>6
    <2>6. Cut(RangeOf(req.members[1]))
            = [first |-> B(1), last |-> IF E(1) - 1 < FileSize THEN E(1) - 1 ELSE FileSize - 1]
      <3>1. B(1) \in Int /\ E(1) - 1 \in Int
        BY <1>2, <1>16
      <3> QED
        BY <2>5, <3>1, CutFacts
    <2>7. J[1].first = B(1) /\ J[1].last = IF E(1) - 1 < FileSize THEN E(1) - 1 ELSE FileSize - 1
      <3>1. J[1].last = IF E(1) <= FileSize THEN E(1) - 1 ELSE FileSize - 1
        BY <1>4, <1>16, <2>3
      <3>2. E(1) \in Nat
        BY <1>2, <1>16
      <3> QED
        BY <1>6, <1>16, <3>1, <3>2
    <2>8. J[1] = [first |-> J[1].first, last |-> J[1].last]
      BY <2>4 DEF Ranges
    <2> QED
      BY <2>2, <2>4, <2>6, <2>7, <2>8
  <1> QED
    BY <1>8, <1>11, <1>14, <1>15, <1>17, <1>18, <1>19 DEF Facts

-----------------------------------------------------------------------------
(* What the parser meets. *)

\* What is left of a sequence when its first elements are gone.
Rest(f, at) == SubSeq(f, at + 1, Len(f))

LEMMA RestFacts ==
  ASSUME NEW S, NEW f \in Seq(S), NEW at \in 0 .. Len(f)
  PROVE  /\ Rest(f, at) \in Seq(S) /\ Len(Rest(f, at)) = Len(f) - at /\ Len(f) \in Nat
         /\ \A j \in 1 .. Len(f) - at : Rest(f, at)[j] = f[at + j]
  <1> DEFINE l == Len(f)
             m == at + 1
  <1>1. l \in Nat /\ \A j \in 1 .. l : f[j] \in S
    BY LenProperties
  <1>2. m \in Int /\ l \in Int /\ \A j \in m .. l : f[j] \in S
    BY <1>1
  <1> HIDE DEF m, l
  <1>3. /\ SubSeq(f, m, l) \in Seq(S)
        /\ Len(SubSeq(f, m, l)) = IF m <= l THEN l - m + 1 ELSE 0
        /\ \A j \in 1 .. l - m + 1 : SubSeq(f, m, l)[j] = f[m + j - 1]
    BY <1>2, SubSeqProperties
  <1>4. l - m + 1 = l - at /\ (IF m <= l THEN l - m + 1 ELSE 0) = l - at
    BY <1>1 DEF m, l
  <1>5. \A j \in 1 .. l - at : m + j - 1 = at + j
    BY <1>1 DEF m, l
  <1> QED
    BY <1>1, <1>3, <1>4, <1>5 DEF m, l, Rest

LEMMA RestOfRest ==
  ASSUME NEW S, NEW f \in Seq(S), NEW at \in 0 .. Len(f), NEW n \in 0 .. Len(f) - at
  PROVE  Rest(Rest(f, at), n) = Rest(f, at + n)
  <1> DEFINE l == Len(f)
             x == at + n
             b == Rest(f, at)
             u == Rest(b, n)
             w == Rest(f, x)
  <1>1. /\ b \in Seq(S) /\ Len(b) = l - at /\ l \in Nat
        /\ \A j \in 1 .. l - at : b[j] = f[at + j]
    BY RestFacts
  <1>2. x \in 0 .. l /\ l - at - n = l - x
    BY <1>1
  <1>3. w \in Seq(S) /\ Len(w) = l - x /\ \A j \in 1 .. l - x : w[j] = f[x + j]
    <2> HIDE DEF x
    <2> QED
      BY <1>2, RestFacts
  <1>4. u \in Seq(S) /\ Len(u) = l - x /\ \A j \in 1 .. l - x : u[j] = b[n + j]
    <2>1. n \in 0 .. Len(b)
      BY <1>1
    <2> HIDE DEF b, l, x
    <2>2. u \in Seq(S) /\ Len(u) = Len(b) - n /\ \A j \in 1 .. Len(b) - n : u[j] = b[n + j]
      BY <1>1, <2>1, RestFacts, ZenonT(60)
    <2>3. Len(b) - n = l - x
      BY <1>1, <1>2
    <2> QED
      BY <2>2, <2>3
  <1> HIDE DEF l, b, u, w
  <1>5. ASSUME NEW j \in 1 .. l - x PROVE u[j] = w[j]
    <2>1. PICK i : i = n + j
      OBVIOUS
    <2>2. i \in 1 .. l - at /\ x + j = at + i
      BY <1>1, <1>2, <2>1 DEF l
    <2>3. u[j] = b[i] /\ w[j] = f[at + i]
      BY <1>3, <1>4, <2>1, <2>2
    <2> QED
      BY <1>1, <2>2, <2>3
  <1>6. Len(u) = Len(w) /\ \A j \in 1 .. Len(u) : u[j] = w[j]
    BY <1>3, <1>4, <1>5
  <1> HIDE DEF x
  <1>7. u = w
    BY <1>3, <1>4, <1>6, SeqEqual
  <1> QED
    BY <1>7 DEF u, w, b, x

\* No part begins behind the closing line.
LEMMA StartsAscend ==
  ASSUME NEW a, IsAnswer(a), NEW k \in 1 .. Len(a.parts) + 1
  PROVE  Start(a, k) <= Start(a, Len(a.parts) + 1)
  <1> DEFINE n == Len(a.parts)
             T == {d \in Nat : d <= n => Start(a, n + 1 - d) <= Start(a, n + 1)}
  <1>1. n \in Nat \ {0} /\ \A i \in 1 .. n : SizeOf(a.parts[i]) \in Nat \ {0}
    BY PartsFacts
  <1>2. /\ \A i \in 1 .. n + 1 : Start(a, i) \in Nat \ {0}
        /\ \A i \in 1 .. n : Start(a, i + 1) = Start(a, i) + SizeOf(a.parts[i]) + 8
    BY StartFacts
  <1> HIDE DEF n
  <1>3. 0 \in T
    <2>1. n + 1 - 0 = n + 1 /\ n + 1 \in 1 .. n + 1
      BY <1>1
    <2>2. Start(a, n + 1) \in Nat
      BY <1>2, <2>1
    <2>3. Start(a, n + 1) <= Start(a, n + 1)
      BY <2>2
    <2> QED
      BY <2>1, <2>3
  <1>4. ASSUME NEW d \in Nat, d \in T PROVE d + 1 \in T
    <2> SUFFICES ASSUME d + 1 <= n PROVE Start(a, n + 1 - (d + 1)) <= Start(a, n + 1)
      OBVIOUS
    <2>1. PICK i : i = n + 1 - (d + 1)
      OBVIOUS
    <2>2. i \in 1 .. n /\ i \in 1 .. n + 1 /\ i + 1 = n + 1 - d /\ n + 1 \in 1 .. n + 1
      BY <1>1, <2>1
    <2>3. Start(a, i + 1) <= Start(a, n + 1)
      BY <1>1, <1>4, <2>2
    <2>4. Start(a, i + 1) = Start(a, i) + SizeOf(a.parts[i]) + 8
      BY <1>2, <2>2
    <2>5. Start(a, i) \in Nat /\ SizeOf(a.parts[i]) \in Nat /\ Start(a, n + 1) \in Nat
      BY <1>1, <1>2, <2>2
    <2>6. Start(a, i) <= Start(a, n + 1)
      BY <2>3, <2>4, <2>5
    <2> QED
      BY <2>1, <2>6
  <1>5. \A d \in Nat : d \in T
    <2> HIDE DEF T
    <2> QED
      BY <1>3, <1>4, SetInduction
  <1>6. n + 1 - k \in Nat /\ n + 1 - (n + 1 - k) = k /\ n + 1 - k <= n
    BY <1>1 DEF n
  <1>7. n + 1 - k \in T
    BY <1>5, <1>6
  <1> QED
    BY <1>6, <1>7 DEF n

\* The tokens of a multipart answer, counted from the begin of each part.
LEMMA TokensAt ==
  ASSUME NEW a, IsAnswer(a), a.multipart
  PROVE  LET F == BodyOf(a)
             n == Len(a.parts)
         IN /\ F \in Seq(Tokens) /\ Len(F) \in Nat /\ n \in Nat \ {0}
            /\ \A k \in 1 .. n + 1 :
                 /\ Start(a, k) \in Nat \ {0} /\ Start(a, k) + 4 <= Len(F)
                 /\ F[Start(a, k)].is = "crlf"
                 /\ F[Start(a, k) + 1].is = "dash"
                 /\ F[Start(a, k) + 2].is = "boundary"
            /\ F[Start(a, n + 1) + 3].is = "dash"
            /\ \A k \in 1 .. n :
                 /\ SizeOf(a.parts[k]) \in Nat \ {0}
                 /\ Start(a, k + 1) = Start(a, k) + SizeOf(a.parts[k]) + 8
                 /\ Start(a, k) + SizeOf(a.parts[k]) + 8 <= Len(F)
                 /\ F[Start(a, k) + 3].is = "crlf"
                 /\ F[Start(a, k) + 4].is = "other line"
                 /\ F[Start(a, k) + 5] = [is |-> IF a.known THEN "range" ELSE "range/*",
                                          beg |-> a.parts[k].first, end |-> a.parts[k].last]
                 /\ F[Start(a, k) + 6].is = "other line"
                 /\ F[Start(a, k) + 7].is = "crlf"
                 /\ \A j \in 1 .. SizeOf(a.parts[k]) :
                      F[Start(a, k) + 7 + j] = [is |-> "byte", at |-> a.parts[k].first + j - 1]
  <1> DEFINE F == BodyOf(a)
             n == Len(a.parts)
             s(k) == Start(a, k)
             z(k) == SizeOf(a.parts[k])
             P(k) == Part(a.parts[k], a.known)
  <1>1. /\ n \in Nat \ {0} /\ a.known \in BOOLEAN
        /\ \A k \in 1 .. n : /\ a.parts[k] \in Ranges /\ z(k) \in Nat \ {0}
                             /\ a.parts[k].first \in Nat /\ a.parts[k].last \in Nat
                             /\ a.parts[k].first <= a.parts[k].last
    BY PartsFacts DEF IsAnswer
  <1>2. /\ s(1) = 1
        /\ \A k \in 1 .. n + 1 : s(k) \in Nat \ {0}
        /\ \A k \in 1 .. n : s(k + 1) = s(k) + z(k) + 8
    BY StartFacts
  <1>3. /\ F \in Seq(Tokens) /\ Len(F) = s(n + 1) + 4
        /\ F[1] = Mark("crlf")
        /\ \A k \in 1 .. n : \A j \in 1 .. z(k) + 8 : F[s(k) + j] = P(k)[j]
        /\ F[s(n + 1) + 1] = Mark("dash") /\ F[s(n + 1) + 2] = Mark("boundary")
        /\ F[s(n + 1) + 3] = Mark("dash")
    BY Layout
  <1>4. \A k \in 1 .. n + 1 : s(k) <= s(n + 1)
    BY StartsAscend
  <1>5. ASSUME NEW k \in 1 .. n
        PROVE  /\ P(k)[1] = Mark("dash") /\ P(k)[2] = Mark("boundary") /\ P(k)[3] = Mark("crlf")
               /\ P(k)[4] = Mark("other line")
               /\ P(k)[5] = [is |-> IF a.known THEN "range" ELSE "range/*",
                             beg |-> a.parts[k].first, end |-> a.parts[k].last]
               /\ P(k)[6] = Mark("other line") /\ P(k)[7] = Mark("crlf")
               /\ P(k)[8 + z(k)] = Mark("crlf")
               /\ \A j \in 1 .. z(k) :
                    P(k)[7 + j] = [is |-> "byte", at |-> a.parts[k].first + j - 1]
    <2> DEFINE r == a.parts[k]
               h == PartHead(r, a.known)
    <2>1. r \in Ranges /\ a.known \in BOOLEAN
      BY <1>1
    <2>2. /\ \A j \in 1 .. 7 : P(k)[j] = h[j]
          /\ \A j \in 1 .. z(k) : P(k)[7 + j] = BytesOf(r)[j]
          /\ P(k)[8 + z(k)] = Mark("crlf")
      <3> HIDE DEF r
      <3> QED
        BY <2>1, PartFacts DEF r
    <2>3. \A j \in 1 .. z(k) : BytesOf(r)[j] = [is |-> "byte", at |-> r.first + j - 1]
      <3>1. r.first \in Int /\ r.last \in Int /\ r.first <= r.last + 1
        BY <1>1
      <3> HIDE DEF r
      <3> QED
        BY <3>1, BytesFacts DEF r
    <2>4. /\ h[1] = Mark("dash") /\ h[2] = Mark("boundary") /\ h[3] = Mark("crlf")
          /\ h[4] = Mark("other line")
          /\ h[5] = [is |-> IF a.known THEN "range" ELSE "range/*",
                     beg |-> r.first, end |-> r.last]
          /\ h[6] = Mark("other line") /\ h[7] = Mark("crlf")
      <3> DEFINE x1 == Mark("dash")
                 x2 == Mark("boundary")
                 x3 == Mark("crlf")
                 x4 == Mark("other line")
                 x5 == [is |-> IF a.known THEN "range" ELSE "range/*",
                        beg |-> r.first, end |-> r.last]
      <3>1. h = <<x1, x2, x3, x4, x5, x4, x3>>
        BY DEF PartHead
      <3> HIDE DEF x1, x2, x3, x4, x5, h
      <3>2. h[1] = x1 /\ h[2] = x2 /\ h[3] = x3 /\ h[4] = x4 /\ h[5] = x5 /\ h[6] = x4 /\ h[7] = x3
        BY <3>1
      <3> QED
        BY <3>2 DEF x1, x2, x3, x4, x5
    <2>5. \A j \in 1 .. z(k) : P(k)[7 + j] = [is |-> "byte", at |-> r.first + j - 1]
      BY <2>2, <2>3
    <2> HIDE DEF h, P, z
    <2>6. /\ P(k)[1] = h[1] /\ P(k)[2] = h[2] /\ P(k)[3] = h[3] /\ P(k)[4] = h[4]
          /\ P(k)[5] = h[5] /\ P(k)[6] = h[6] /\ P(k)[7] = h[7]
      BY <2>2
    <2> QED
      BY <2>2, <2>4, <2>5, <2>6, Zenon
  <1> HIDE DEF F, n, s, z, P
  <1>6. \A kind : Mark(kind).is = kind
    BY DEF Mark
  <1>7. ASSUME NEW k \in 1 .. n
        PROVE  /\ F[s(k) + 1].is = "dash" /\ F[s(k) + 2].is = "boundary"
               /\ F[s(k) + 3].is = "crlf" /\ F[s(k) + 4].is = "other line"
               /\ F[s(k) + 5] = [is |-> IF a.known THEN "range" ELSE "range/*",
                                 beg |-> a.parts[k].first, end |-> a.parts[k].last]
               /\ F[s(k) + 6].is = "other line" /\ F[s(k) + 7].is = "crlf"
               /\ F[s(k) + (8 + z(k))].is = "crlf"
    <2>1. z(k) \in Nat /\ \A j \in 1 .. z(k) + 8 : F[s(k) + j] = P(k)[j]
      BY <1>1, <1>3
    <2>2. /\ F[s(k) + 1] = P(k)[1] /\ F[s(k) + 2] = P(k)[2] /\ F[s(k) + 3] = P(k)[3]
          /\ F[s(k) + 4] = P(k)[4] /\ F[s(k) + 5] = P(k)[5] /\ F[s(k) + 6] = P(k)[6]
          /\ F[s(k) + 7] = P(k)[7] /\ F[s(k) + (8 + z(k))] = P(k)[8 + z(k)]
      BY <2>1
    <2>3. /\ P(k)[1].is = "dash" /\ P(k)[2].is = "boundary" /\ P(k)[3].is = "crlf"
          /\ P(k)[4].is = "other line" /\ P(k)[6].is = "other line" /\ P(k)[7].is = "crlf"
          /\ P(k)[8 + z(k)].is = "crlf"
      <3>1. /\ P(k)[1] = Mark("dash") /\ P(k)[2] = Mark("boundary") /\ P(k)[3] = Mark("crlf")
            /\ P(k)[4] = Mark("other line") /\ P(k)[6] = Mark("other line")
            /\ P(k)[7] = Mark("crlf") /\ P(k)[8 + z(k)] = Mark("crlf")
        BY <1>5
      <3> QED
        BY <1>6, <3>1
    <2>4. P(k)[5] = [is |-> IF a.known THEN "range" ELSE "range/*",
                     beg |-> a.parts[k].first, end |-> a.parts[k].last]
      BY <1>5
    <2> QED
      BY <2>2, <2>3, <2>4, Zenon
  <1>8. ASSUME NEW k \in 1 .. n, NEW j \in 1 .. z(k)
        PROVE  F[s(k) + 7 + j] = [is |-> "byte", at |-> a.parts[k].first + j - 1]
    <2>1. PICK i : i = 7 + j
      OBVIOUS
    <2>2. z(k) \in Nat /\ s(k) \in Nat
      <3>1. k \in 1 .. n + 1
        BY <1>1
      <3> QED
        BY <1>1, <1>2, <3>1
    <2>3. i \in 1 .. z(k) + 8 /\ s(k) + 7 + j = s(k) + i
      BY <2>1, <2>2
    <2>4. F[s(k) + i] = P(k)[i]
      BY <1>3, <2>3
    <2>5. P(k)[7 + j] = [is |-> "byte", at |-> a.parts[k].first + j - 1]
      BY <1>5
    <2> QED
      BY <2>1, <2>3, <2>4, <2>5
  <1>9. ASSUME NEW k \in 1 .. n + 1
        PROVE  /\ s(k) \in Nat \ {0} /\ s(k) + 4 <= Len(F)
               /\ F[s(k)].is = "crlf"
               /\ F[s(k) + 1].is = "dash" /\ F[s(k) + 2].is = "boundary"
    <2>1. n + 1 \in 1 .. n + 1
      BY <1>1
    <2>2. s(k) \in Nat \ {0} /\ s(k) + 4 <= Len(F)
      BY <1>2, <1>3, <1>4, <2>1
    <2>3. F[s(k)].is = "crlf"
      <3>1. CASE k = 1
        BY <1>2, <1>3, <1>6, <3>1
      <3>2. CASE k # 1
        <4>1. PICK i : i = k - 1
          OBVIOUS
        <4>2. i \in 1 .. n /\ i \in 1 .. n + 1 /\ i + 1 = k
          BY <1>1, <3>2, <4>1
        <4>3. s(k) = s(i) + z(i) + 8 /\ s(i) \in Nat /\ z(i) \in Nat
          BY <1>1, <1>2, <4>2
        <4>4. s(k) = s(i) + (8 + z(i))
          BY <4>3
        <4> QED
          BY <1>7, <4>2, <4>4
      <3> QED
        BY <3>1, <3>2
    <2>4. F[s(k) + 1].is = "dash" /\ F[s(k) + 2].is = "boundary"
      <3>1. k \in 1 .. n \/ k = n + 1
        BY <1>1
      <3>2. k \in 1 .. n => F[s(k) + 1].is = "dash" /\ F[s(k) + 2].is = "boundary"
        BY <1>7
      <3>3. k = n + 1 => F[s(k) + 1].is = "dash" /\ F[s(k) + 2].is = "boundary"
        BY <1>3, <1>6
      <3> QED
        BY <3>1, <3>2, <3>3
    <2> QED
      BY <2>2, <2>3, <2>4
  <1>10. F[s(n + 1) + 3].is = "dash"
    BY <1>3, <1>6
  <1>11. ASSUME NEW k \in 1 .. n
         PROVE  /\ z(k) \in Nat \ {0} /\ s(k + 1) = s(k) + z(k) + 8
                /\ s(k) + z(k) + 8 <= Len(F)
    <2>1. k + 1 \in 1 .. n + 1 /\ n + 1 \in 1 .. n + 1
      BY <1>1
    <2>2. s(k + 1) <= s(n + 1) /\ s(k + 1) \in Nat /\ s(n + 1) \in Nat
      BY <1>2, <1>4, <2>1
    <2>3. z(k) \in Nat \ {0} /\ s(k + 1) = s(k) + z(k) + 8
      BY <1>1, <1>2
    <2> QED
      BY <1>3, <2>2, <2>3
  <1>12. Len(F) \in Nat
    BY <1>3, LenProperties
  <1> QED
    BY <1>1, <1>3, <1>7, <1>8, <1>9, <1>10, <1>11, <1>12 DEF F, n, s, z, P

Parts == answer.parts
Count == Len(Parts)
Members == request.members

\* The parser has come as far as this in the body of a multipart answer.
Left(at) == answer.multipart /\ body = Rest(BodyOf(answer), at)

LEMMA UpcomingMeans ==
  /\ \A x : Upcoming(<<x>>) <=> 1 <= Len(body) /\ body[1].is = x
  /\ \A x, y, z : Upcoming(<<x, y, z>>) <=>
       3 <= Len(body) /\ body[1].is = x /\ body[2].is = y /\ body[3].is = z
  <1>1. ASSUME NEW x PROVE Upcoming(<<x>>) <=> 1 <= Len(body) /\ body[1].is = x
    <2> DEFINE t == <<x>>
    <2>1. Len(t) = 1 /\ DOMAIN t = {1} /\ t[1] = x
      OBVIOUS
    <2> HIDE DEF t
    <2>2. Upcoming(t) <=> 1 <= Len(body) /\ body[1].is = x
      BY <2>1 DEF Upcoming
    <2> QED
      BY <2>2 DEF t
  <1>2. ASSUME NEW x, NEW y, NEW z
        PROVE  Upcoming(<<x, y, z>>) <=>
                 3 <= Len(body) /\ body[1].is = x /\ body[2].is = y /\ body[3].is = z
    <2> DEFINE t == <<x, y, z>>
    <2>1. Len(t) = 3 /\ DOMAIN t = {1, 2, 3} /\ t[1] = x /\ t[2] = y /\ t[3] = z
      OBVIOUS
    <2> HIDE DEF t
    <2>2. Upcoming(t) <=> 3 <= Len(body) /\ body[1].is = x /\ body[2].is = y /\ body[3].is = z
      BY <2>1 DEF Upcoming
    <2> QED
      BY <2>2 DEF t
  <1> QED
    BY <1>1, <1>2

LEMMA LeftMeans ==
  ASSUME IsAnswer(answer), NEW at \in 0 .. Len(BodyOf(answer)), Left(at)
  PROVE  /\ body \in Seq(Tokens) /\ Len(body) = Len(BodyOf(answer)) - at
         /\ \A j \in 1 .. Len(BodyOf(answer)) - at : body[j] = BodyOf(answer)[at + j]
         /\ \A n \in 0 .. Len(BodyOf(answer)) - at :
              Advance(n) /\ UNCHANGED answer => Left(at + n)'
  <1> DEFINE F == BodyOf(answer)
  <1>1. F \in Seq(Tokens)
    BY TokensAt DEF Left
  <1>2. body = Rest(F, at) /\ answer.multipart
    BY DEF Left
  <1> HIDE DEF F
  <1>a. at \in 0 .. Len(F)
    BY DEF F
  <1>3. /\ body \in Seq(Tokens) /\ Len(body) = Len(F) - at
        /\ \A j \in 1 .. Len(F) - at : body[j] = F[at + j]
    BY <1>1, <1>2, <1>a, RestFacts
  <1>4. ASSUME NEW n \in 0 .. Len(F) - at, Advance(n), answer' = answer
        PROVE  Left(at + n)'
    <2>1. body' = Rest(body, n)
      BY <1>4 DEF Advance, Rest
    <2>2. Rest(body, n) = Rest(F, at + n)
      BY <1>1, <1>2, <1>a, RestOfRest
    <2>3. F' = F
      BY <1>4 DEF F
    <2> QED
      BY <1>2, <1>4, <2>1, <2>2, <2>3 DEF Left, F
  <1> QED
    BY <1>3, <1>4 DEF F

Line == <<"crlf">>
Opening == <<"dash", "boundary", "crlf">>
Closing == <<"dash", "boundary", "dash">>

\* In front of the line that a part ends with.
LEMMA AtLine ==
  ASSUME IsAnswer(answer), NEW k \in 1 .. Count + 1, Left(Start(answer, k) - 1)
  PROVE  /\ Upcoming(Line) /\ ~Upcoming(Opening) /\ ~Upcoming(Closing)
         /\ Advance(1) /\ UNCHANGED answer => Left(Start(answer, k))'
  <1> DEFINE F == BodyOf(answer)
  <1>1. PICK s : s = Start(answer, k)
    OBVIOUS
  <1>2. s \in Nat \ {0} /\ s + 4 <= Len(F) /\ Len(F) \in Nat /\ F[s].is = "crlf"
    BY <1>1, TokensAt DEF Left, Count, Parts
  <1>3. s - 1 \in 0 .. Len(F) /\ 1 \in 0 .. Len(F) - (s - 1) /\ s - 1 + 1 = s
    BY <1>2
  <1>4. Left(s - 1)
    BY <1>1
  <1> HIDE DEF F
  <1>5. /\ Len(body) = Len(F) - (s - 1)
        /\ \A j \in 1 .. Len(F) - (s - 1) : body[j] = F[s - 1 + j]
        /\ Advance(1) /\ UNCHANGED answer => Left(s - 1 + 1)'
    BY <1>3, <1>4, LeftMeans DEF F
  <1>6. body[1].is = "crlf" /\ 1 <= Len(body)
    BY <1>2, <1>3, <1>5
  <1>7. Upcoming(Line) /\ ~Upcoming(Opening) /\ ~Upcoming(Closing)
    BY <1>6, UpcomingMeans DEF Line, Opening, Closing
  <1>8. ASSUME Advance(1), answer' = answer PROVE Left(Start(answer, k))'
    <2>1. Left(s)'
      BY <1>3, <1>5, <1>8
    <2>2. Start(answer', k) = s
      BY <1>1, <1>8
    <2> QED
      BY <2>1, <2>2
  <1> QED
    BY <1>7, <1>8

\* In front of a delimiter.
LEMMA AtDelimiter ==
  ASSUME IsAnswer(answer), NEW k \in 1 .. Count + 1, Left(Start(answer, k))
  PROVE  /\ ~Upcoming(Line)
         /\ Upcoming(Opening) <=> k <= Count
         /\ Upcoming(Closing) <=> k = Count + 1
         /\ k <= Count /\ Advance(3) /\ UNCHANGED answer => Left(Start(answer, k) + 3)'
  <1> DEFINE F == BodyOf(answer)
  <1>1. PICK s : s = Start(answer, k)
    OBVIOUS
  <1>2. /\ s \in Nat \ {0} /\ s + 4 <= Len(F) /\ Len(F) \in Nat /\ Count \in Nat
        /\ F[s + 1].is = "dash" /\ F[s + 2].is = "boundary"
        /\ k <= Count => F[s + 3].is = "crlf"
        /\ k = Count + 1 => F[s + 3].is = "dash"
    <2> DEFINE n == Count
    <2>1. answer.multipart /\ n = Len(answer.parts)
      BY DEF Left, Count, Parts
    <2> HIDE DEF n
    <2>2. /\ Len(F) \in Nat /\ n \in Nat \ {0}
          /\ \A i \in 1 .. n + 1 : /\ Start(answer, i) \in Nat \ {0}
                                   /\ Start(answer, i) + 4 <= Len(F)
                                   /\ F[Start(answer, i) + 1].is = "dash"
                                   /\ F[Start(answer, i) + 2].is = "boundary"
          /\ F[Start(answer, n + 1) + 3].is = "dash"
          /\ \A i \in 1 .. n : F[Start(answer, i) + 3].is = "crlf"
      BY <2>1, TokensAt, ZenonT(60)
    <2> HIDE DEF F
    <2>3. k \in 1 .. n + 1
      BY DEF n
    <2>4. k <= n => k \in 1 .. n
      BY <2>2, <2>3
    <2>5. k = n + 1 => F[s + 3].is = "dash"
      BY <1>1, <2>2
    <2>6. k <= n => F[s + 3].is = "crlf"
      BY <1>1, <2>2, <2>4
    <2>7. /\ s \in Nat \ {0} /\ s + 4 <= Len(F) /\ Len(F) \in Nat /\ n \in Nat
          /\ F[s + 1].is = "dash" /\ F[s + 2].is = "boundary"
      BY <1>1, <2>2, <2>3
    <2> QED
      BY <2>5, <2>6, <2>7 DEF n
  <1>3. s \in 0 .. Len(F) /\ 3 \in 0 .. Len(F) - s
    BY <1>2
  <1>4. Left(s)
    BY <1>1
  <1> HIDE DEF F
  <1>5. /\ Len(body) = Len(F) - s
        /\ \A j \in 1 .. Len(F) - s : body[j] = F[s + j]
        /\ Advance(3) /\ UNCHANGED answer => Left(s + 3)'
    BY <1>3, <1>4, LeftMeans DEF F
  <1>6. /\ body[1].is = "dash" /\ body[2].is = "boundary" /\ 3 <= Len(body)
        /\ k <= Count => body[3].is = "crlf"
        /\ k = Count + 1 => body[3].is = "dash"
    BY <1>2, <1>3, <1>5, SMTT(30)
  <1>7. k <= Count \/ k = Count + 1
    BY <1>2
  <1>8. k <= Count => k # Count + 1
    BY <1>2
  <1>9. /\ ~Upcoming(Line)
        /\ Upcoming(Opening) <=> k <= Count
        /\ Upcoming(Closing) <=> k = Count + 1
    <2>1. ~Upcoming(Line)
      BY <1>6, UpcomingMeans DEF Line
    <2>2. Upcoming(Opening) <=> k <= Count
      BY <1>6, <1>7, UpcomingMeans DEF Opening
    <2>3. Upcoming(Closing) <=> k = Count + 1
      BY <1>6, <1>7, <1>8, UpcomingMeans DEF Closing
    <2> QED
      BY <2>1, <2>2, <2>3
  <1>10. ASSUME Advance(3), answer' = answer PROVE (Left(Start(answer, k) + 3))'
    <2>1. Left(s + 3)'
      BY <1>5, <1>10
    <2>2. Start(answer', k) = s
      BY <1>1, <1>10
    <2> QED
      BY <2>1, <2>2
  <1> QED
    BY <1>9, <1>10

\* In front of a line of the header of a part.
LEMMA AtHeaderLine ==
  ASSUME IsAnswer(answer), NEW k \in 1 .. Count, NEW d \in 3 .. 6, Left(Start(answer, k) + d)
  PROVE  /\ Upcoming(<<"range">>) <=> d = 4 /\ answer.known
         /\ Upcoming(<<"range/*">>) <=> d = 4 /\ ~answer.known
         /\ Upcoming(<<"other line">>) <=> d = 3 \/ d = 5
         /\ Upcoming(Line) <=> d = 6
         /\ d = 4 => body[1].beg = Parts[k].first /\ body[1].end = Parts[k].last
         /\ Advance(1) /\ UNCHANGED answer => Left(Start(answer, k) + (d + 1))'
  <1> DEFINE F == BodyOf(answer)
             n == Count
             t == [is |-> IF answer.known THEN "range" ELSE "range/*",
                   beg |-> Parts[k].first, end |-> Parts[k].last]
  <1>1. PICK s : s = Start(answer, k)
    OBVIOUS
  <1>2. answer.multipart /\ n = Len(answer.parts) /\ k \in 1 .. n /\ answer.known \in BOOLEAN
    BY DEF Left, Count, Parts, IsAnswer
  <1>a. n \in Nat
    BY PartsFacts DEF Count, Parts
  <1>b. k \in 1 .. n + 1
    BY <1>2, <1>a
  <1>c. s \in Nat \ {0} /\ s + 8 <= Len(F) /\ Len(F) \in Nat
    <2> HIDE DEF n
    <2>1. /\ Len(F) \in Nat
          /\ \A i \in 1 .. n + 1 : Start(answer, i) \in Nat \ {0}
          /\ \A i \in 1 .. n :
               /\ SizeOf(answer.parts[i]) \in Nat \ {0}
               /\ Start(answer, i) + SizeOf(answer.parts[i]) + 8 <= Len(F)
      BY <1>2, TokensAt
    <2> HIDE DEF F
    <2>2. /\ s \in Nat \ {0} /\ SizeOf(answer.parts[k]) \in Nat \ {0} /\ Len(F) \in Nat
          /\ s + SizeOf(answer.parts[k]) + 8 <= Len(F)
      BY <1>1, <1>2, <1>b, <2>1
    <2> QED
      BY <2>2
  <1>3. /\ F[s + 4].is = "other line" /\ F[s + 5] = t
        /\ F[s + 6].is = "other line" /\ F[s + 7].is = "crlf"
    <2> HIDE DEF n
    <2>1. \A i \in 1 .. n :
            /\ F[Start(answer, i) + 4].is = "other line"
            /\ F[Start(answer, i) + 5] = [is |-> IF answer.known THEN "range" ELSE "range/*",
                                          beg |-> answer.parts[i].first,
                                          end |-> answer.parts[i].last]
            /\ F[Start(answer, i) + 6].is = "other line"
            /\ F[Start(answer, i) + 7].is = "crlf"
      BY <1>2, TokensAt
    <2> HIDE DEF F
    <2> QED
      BY <1>1, <1>2, <2>1 DEF Parts
  <1>4. s + d \in 0 .. Len(F) /\ 1 \in 0 .. Len(F) - (s + d) /\ s + d + 1 = s + (d + 1)
    BY <1>c
  <1>5. Left(s + d)
    BY <1>1
  <1>6. /\ t.is = IF answer.known THEN "range" ELSE "range/*"
        /\ t.beg = Parts[k].first /\ t.end = Parts[k].last
    OBVIOUS
  <1> HIDE DEF F, t
  <1>7. /\ Len(body) = Len(F) - (s + d)
        /\ \A j \in 1 .. Len(F) - (s + d) : body[j] = F[s + d + j]
        /\ Advance(1) /\ UNCHANGED answer => Left(s + d + 1)'
    BY <1>4, <1>5, LeftMeans DEF F
  <1>8. 1 <= Len(body) /\ body[1] = F[s + (d + 1)]
    <2>1. Len(F) - (s + d) \in Nat \ {0} /\ 1 \in 1 .. Len(F) - (s + d)
      BY <1>c
    <2>2. body[1] = F[s + d + 1] /\ 1 <= Len(body)
      BY <1>7, <2>1
    <2> QED
      BY <1>4, <2>2
  <1>9. /\ d \in {3, 5} => body[1].is = "other line"
        /\ d = 4 => body[1] = t
        /\ d = 6 => body[1].is = "crlf"
        /\ d = 3 \/ d = 4 \/ d = 5 \/ d = 6
    <2>1. d = 3 \/ d = 4 \/ d = 5 \/ d = 6
      OBVIOUS
    <2>2. 3 + 1 = 4 /\ 4 + 1 = 5 /\ 5 + 1 = 6 /\ 6 + 1 = 7
      OBVIOUS
    <2>3. body[1] = F[s + (d + 1)]
      BY <1>8
    <2> QED
      BY <1>3, <2>1, <2>2, <2>3
  <1>10. /\ Upcoming(<<"range">>) <=> d = 4 /\ answer.known
         /\ Upcoming(<<"range/*">>) <=> d = 4 /\ ~answer.known
         /\ Upcoming(<<"other line">>) <=> d = 3 \/ d = 5
         /\ Upcoming(Line) <=> d = 6
    <2>1. /\ Upcoming(<<"range">>) <=> body[1].is = "range"
          /\ Upcoming(<<"range/*">>) <=> body[1].is = "range/*"
          /\ Upcoming(<<"other line">>) <=> body[1].is = "other line"
          /\ Upcoming(Line) <=> body[1].is = "crlf"
      BY <1>8, UpcomingMeans DEF Line
    <2>2. d = 4 => body[1].is = IF answer.known THEN "range" ELSE "range/*"
      BY <1>6, <1>9
    <2>3. CASE d = 4
      <3>1. CASE answer.known
        <4>1. body[1].is = "range" /\ d # 3 /\ d # 5 /\ d # 6
          BY <2>2, <2>3, <3>1
        <4> QED
          BY <2>1, <2>3, <3>1, <4>1
      <3>2. CASE ~answer.known
        <4>1. body[1].is = "range/*" /\ d # 3 /\ d # 5 /\ d # 6
          BY <2>2, <2>3, <3>2
        <4> QED
          BY <2>1, <2>3, <3>2, <4>1
      <3> QED
        BY <3>1, <3>2
    <2>4. CASE d = 6
      <3>1. body[1].is = "crlf" /\ d # 3 /\ d # 4 /\ d # 5
        BY <1>9, <2>4
      <3> QED
        BY <2>1, <2>4, <3>1
    <2>5. CASE d = 3 \/ d = 5
      <3>1. body[1].is = "other line" /\ d # 4 /\ d # 6
        BY <1>9, <2>5
      <3> QED
        BY <2>1, <2>5, <3>1
    <2>6. d = 4 \/ d = 6 \/ (d = 3 \/ d = 5)
      BY <1>9
    <2> QED
      BY <2>3, <2>4, <2>5, <2>6, Zenon
  <1>11. d = 4 => body[1].beg = Parts[k].first /\ body[1].end = Parts[k].last
    BY <1>6, <1>9
  <1>12. ASSUME Advance(1), answer' = answer PROVE (Left(Start(answer, k) + (d + 1)))'
    <2>1. Left(s + (d + 1))'
      BY <1>4, <1>7, <1>12
    <2>2. Start(answer', k) = s
      BY <1>1, <1>12
    <2> QED
      BY <2>1, <2>2
  <1> QED
    BY <1>10, <1>11, <1>12

\* The bytes of part k come next.
Holds(k) ==
  /\ body \in Seq(Tokens)
  /\ SizeOf(Parts[k]) <= Len(body)
  /\ \A j \in 1 .. SizeOf(Parts[k]) : body[j] = [is |-> "byte", at |-> Parts[k].first + j - 1]

LEMMA AtBytes ==
  ASSUME IsAnswer(answer), NEW k \in 1 .. Count, Left(Start(answer, k) + 7)
  PROVE  /\ Holds(k)
         /\ Start(answer, k) + (7 + SizeOf(Parts[k])) = Start(answer, k + 1) - 1
         /\ \A n \in 0 .. SizeOf(Parts[k]) :
              Advance(n) /\ UNCHANGED answer => Left(Start(answer, k) + (7 + n))'
  <1> DEFINE F == BodyOf(answer)
             n == Count
             z == SizeOf(Parts[k])
  <1>1. PICK s : s = Start(answer, k)
    OBVIOUS
  <1>2. answer.multipart /\ n = Len(answer.parts) /\ k \in 1 .. n
    BY DEF Left, Count, Parts
  <1>3. /\ s \in Nat \ {0} /\ s + z + 8 <= Len(F) /\ Len(F) \in Nat /\ z \in Nat \ {0}
        /\ Start(answer, k + 1) = s + z + 8
        /\ \A j \in 1 .. z : F[s + 7 + j] = [is |-> "byte", at |-> Parts[k].first + j - 1]
    <2> HIDE DEF n
    <2>1. /\ Len(F) \in Nat /\ n \in Nat \ {0}
          /\ \A i \in 1 .. n + 1 : Start(answer, i) \in Nat \ {0}
          /\ \A i \in 1 .. n :
               /\ SizeOf(answer.parts[i]) \in Nat \ {0}
               /\ Start(answer, i + 1) = Start(answer, i) + SizeOf(answer.parts[i]) + 8
               /\ Start(answer, i) + SizeOf(answer.parts[i]) + 8 <= Len(F)
               /\ \A j \in 1 .. SizeOf(answer.parts[i]) :
                    F[Start(answer, i) + 7 + j]
                      = [is |-> "byte", at |-> answer.parts[i].first + j - 1]
      BY <1>2, TokensAt, ZenonT(60)
    <2> HIDE DEF F
    <2>2. k \in 1 .. n + 1
      BY <1>2, <2>1
    <2> QED
      BY <1>1, <1>2, <2>1, <2>2 DEF Parts
  <1>4. Left(s + 7)
    BY <1>1
  <1>5. s + 7 \in 0 .. Len(F) /\ \A i \in 0 .. z : i \in 0 .. Len(F) - (s + 7)
    BY <1>3
  <1> HIDE DEF F, z
  <1>6. /\ body \in Seq(Tokens) /\ Len(body) = Len(F) - (s + 7)
        /\ \A j \in 1 .. Len(F) - (s + 7) : body[j] = F[s + 7 + j]
        /\ \A i \in 0 .. Len(F) - (s + 7) :
             Advance(i) /\ UNCHANGED answer => Left(s + 7 + i)'
    BY <1>4, <1>5, LeftMeans DEF F
  <1>7. Holds(k)
    <2>1. z <= Len(body)
      BY <1>3, <1>6
    <2>2. \A j \in 1 .. z : body[j] = [is |-> "byte", at |-> Parts[k].first + j - 1]
      <3>1. \A j \in 1 .. z : j \in 1 .. Len(F) - (s + 7)
        BY <1>3
      <3> QED
        BY <1>3, <1>6, <3>1
    <2> QED
      BY <1>6, <2>1, <2>2 DEF Holds, z
  <1>8. ASSUME NEW i \in 0 .. z, Advance(i), answer' = answer
        PROVE  (Left(Start(answer, k) + (7 + i)))'
    <2>1. Left(s + 7 + i)'
      BY <1>5, <1>6, <1>8
    <2>2. Start(answer', k) = s
      BY <1>1, <1>8
    <2>3. s + 7 + i = s + (7 + i)
      BY <1>3
    <2> QED
      BY <2>1, <2>2, <2>3
  <1>9. Start(answer, k) + (7 + z) = Start(answer, k + 1) - 1
    BY <1>1, <1>3
  <1> QED
    BY <1>7, <1>8, <1>9 DEF z

\* In front of a byte that is not the first of its part.
LEMMA AtByte ==
  ASSUME IsAnswer(answer), NEW k \in 1 .. Count, SizeOf(Parts[k]) > 1, Left(Start(answer, k) + 8)
  PROVE  ~Upcoming(Line) /\ ~Upcoming(Opening) /\ ~Upcoming(Closing)
  <1> DEFINE F == BodyOf(answer)
             n == Count
             z == SizeOf(Parts[k])
  <1>1. PICK s : s = Start(answer, k)
    OBVIOUS
  <1>2. answer.multipart /\ n = Len(answer.parts) /\ k \in 1 .. n
    BY DEF Left, Count, Parts
  <1>3. /\ s \in Nat \ {0} /\ s + z + 8 <= Len(F) /\ Len(F) \in Nat /\ z \in Nat \ {0}
        /\ \A j \in 1 .. z : F[s + 7 + j] = [is |-> "byte", at |-> Parts[k].first + j - 1]
    <2> HIDE DEF n
    <2>1. /\ Len(F) \in Nat /\ n \in Nat \ {0}
          /\ \A i \in 1 .. n + 1 : Start(answer, i) \in Nat \ {0}
          /\ \A i \in 1 .. n :
               /\ SizeOf(answer.parts[i]) \in Nat \ {0}
               /\ Start(answer, i) + SizeOf(answer.parts[i]) + 8 <= Len(F)
               /\ \A j \in 1 .. SizeOf(answer.parts[i]) :
                    F[Start(answer, i) + 7 + j]
                      = [is |-> "byte", at |-> answer.parts[i].first + j - 1]
      BY <1>2, TokensAt
    <2> HIDE DEF F
    <2>2. k \in 1 .. n + 1
      BY <1>2, <2>1
    <2> QED
      BY <1>1, <1>2, <2>1, <2>2 DEF Parts
  <1>4. F[s + 9].is = "byte"
    <2>1. 2 \in 1 .. z /\ s + 7 + 2 = s + 9
      BY <1>3
    <2>2. F[s + 7 + 2] = [is |-> "byte", at |-> Parts[k].first + 2 - 1]
      BY <1>3, <2>1
    <2> QED
      BY <2>1, <2>2
  <1>5. Left(s + 8)
    BY <1>1
  <1>6. s + 8 \in 0 .. Len(F) /\ 1 \in 1 .. Len(F) - (s + 8)
    BY <1>3
  <1> HIDE DEF F
  <1>7. \A j \in 1 .. Len(F) - (s + 8) : body[j] = F[s + 8 + j]
    BY <1>5, <1>6, LeftMeans DEF F
  <1>8. body[1].is = "byte"
    <2>1. s + 8 + 1 = s + 9
      BY <1>3
    <2> QED
      BY <1>4, <1>6, <1>7, <2>1
  <1> QED
    BY <1>8, UpcomingMeans DEF Line, Opening, Closing

LEMMA PayloadFacts ==
  ASSUME body \in Seq(Tokens), NEW from \in Nat, NEW n \in Nat, from + n <= Len(body)
  PROVE  /\ Payload(from, n) \in Seq(Tokens) /\ Len(Payload(from, n)) = n
         /\ \A j \in 1 .. n : Payload(from, n)[j] = body[from + j]
  <1> DEFINE m == from + 1
             l == from + n
  <1>1. Len(body) \in Nat /\ \A j \in 1 .. Len(body) : body[j] \in Tokens
    BY LenProperties
  <1>2. Min({from + n, Len(body)}) = l
    BY <1>1, MinOfTwo
  <1>3. Payload(from, n) = SubSeq(body, m, l)
    BY <1>2 DEF Payload
  <1>4. m \in Int /\ l \in Int /\ \A j \in m .. l : body[j] \in Tokens
    BY <1>1
  <1> HIDE DEF m, l
  <1>5. /\ SubSeq(body, m, l) \in Seq(Tokens)
        /\ Len(SubSeq(body, m, l)) = IF m <= l THEN l - m + 1 ELSE 0
        /\ \A j \in 1 .. l - m + 1 : SubSeq(body, m, l)[j] = body[m + j - 1]
    BY <1>4, SubSeqProperties
  <1>6. l - m + 1 = n /\ (IF m <= l THEN l - m + 1 ELSE 0) = n
    BY DEF m, l
  <1>7. \A j \in 1 .. n : m + j - 1 = from + j
    BY DEF m
  <1> QED
    BY <1>3, <1>5, <1>6, <1>7

\* Bytes out of a part are bytes of the file, from the place it says.
LEMMA PayloadIsBytes ==
  ASSUME NEW k, Parts[k].first \in Nat, SizeOf(Parts[k]) \in Nat, Holds(k),
         NEW from \in Nat, NEW n \in Nat, from + n <= SizeOf(Parts[k]),
         NEW r, r.first = Parts[k].first + from, r.last = r.first + n - 1
  PROVE  Payload(from, n) = BytesOf(r) /\ Len(Payload(from, n)) = n
  <1> DEFINE x == Parts[k].first
             p == Payload(from, n)
             b == BytesOf(r)
  <1>1. from + n <= Len(body) /\ body \in Seq(Tokens)
    BY LenProperties DEF Holds
  <1>2. p \in Seq(Tokens) /\ Len(p) = n /\ \A j \in 1 .. n : p[j] = body[from + j]
    BY <1>1, PayloadFacts
  <1>3. r.first \in Int /\ r.last \in Int /\ r.first <= r.last + 1 /\ SizeOf(r) = n
    BY DEF SizeOf
  <1>4. /\ b \in Seq(Tokens) /\ Len(b) = n
        /\ \A j \in 1 .. n : b[j] = [is |-> "byte", at |-> r.first + j - 1]
    BY <1>3, BytesFacts
  <1>5. ASSUME NEW j \in 1 .. n PROVE p[j] = b[j]
    <2>1. PICK i : i = from + j
      OBVIOUS
    <2>2. i \in 1 .. SizeOf(Parts[k]) /\ x + i - 1 = r.first + j - 1
      BY <2>1
    <2>3. body[i] = [is |-> "byte", at |-> x + i - 1]
      BY <2>2 DEF Holds
    <2> QED
      BY <1>2, <1>4, <2>1, <2>2, <2>3
  <1> HIDE DEF p, b
  <1>6. p = b
    BY <1>2, <1>4, <1>5, SeqEqual
  <1> QED
    BY <1>2, <1>6 DEF p, b

-----------------------------------------------------------------------------
(* The invariant. *)

\* The reader knows where the parts lie.
Told == answer.known \/ ~answer.multipart

\* Each member so far was given its own bytes.
Exact ==
  /\ handed \in Seq(Seq(Tokens)) /\ Len(handed) = member - 1
  /\ \A m \in 1 .. member - 1 : handed[m] = Named(Members[m])

InMember(o, m) == BeginOf(request, m) <= o /\ o < EndOf(request, m)

\* The first n bytes of part k have gone to members.
Tiled(k, n) ==
  \A o \in Parts[k].first .. Parts[k].first + n - 1 : \E m \in 1 .. member - 1 : InMember(o, m)
Passed(n) == \A k \in 1 .. n : Tiled(k, SizeOf(Parts[k]))

\* When the parts are in order, no member so far reaches behind these bytes.
Behind(k, n) ==
  answer.ordered /\ k <= Count =>
    \A m \in 1 .. member - 1 : EndOf(request, m) <= Parts[k].first + n

\* In front of part k.
Between(k) ==
  /\ Passed(k - 1) /\ Behind(k, 0) /\ Exact
  /\ Len(FlattenSeq(handed)) = count

\* In the bytes of part k.
Within(k) ==
  /\ beg = Parts[k].first /\ end = Parts[k].last
  /\ Passed(k - 1)
  /\ size_read <= ChunkSize =>
       /\ Tiled(k, size_read) /\ Behind(k, size_read) /\ Exact
       /\ Len(FlattenSeq(handed)) = size_read + (IF answer.multipart THEN count ELSE 0)
  /\ InFile(request) => size_read <= ChunkSize
  /\ ~answer.multipart => count = ChunkSize

AtBoundary(k) == Left(Start(answer, k) - 1) \/ Left(Start(answer, k))
AtHeader(k, d) ==
  Left(Start(answer, k) + d) /\ (d >= 5 => beg = Parts[k].first /\ end = Parts[k].last)
AtChunk(k) ==
  IF answer.multipart THEN Left(Start(answer, k) + 7) ELSE body = BytesOf(Parts[k])

\* The answer holds a byte that was not asked for.
Unasked ==
  \E k \in 1 .. Count : \E o \in Parts[k].first .. Parts[k].last :
    \A m \in 1 .. Len(Members) : ~InMember(o, m)

ToldInv ==
  /\ status = "boundary" => \E k \in 1 .. Count + 1 : AtBoundary(k) /\ Between(k)
  /\ status = "header" => \E k \in 1 .. Count, d \in 3 .. 6 : AtHeader(k, d) /\ Between(k)
  /\ status = "chunk" => \E k \in 1 .. Count : AtChunk(k) /\ Within(k)
  /\ status = "ok" => Between(Count + 1)
  /\ status = "aborted" /\ InFile(request) => Exact /\ (answer.ordered => Unasked)

\* A batched read that was answered in parts.
Batched ==
  /\ request \in Requests /\ request.batch
  /\ Facts(request, answer)
  /\ member \in 1 .. Len(Members) + 1 /\ size_read \in Nat /\ count \in Nat

Statuses == {"sent", "boundary", "header", "chunk", "ok", "aborted"}

LEMMA BatchedFacts ==
  ASSUME Batched
  PROVE  /\ IsAnswer(answer) /\ answer.multipart \in BOOLEAN /\ answer.known \in BOOLEAN
         /\ answer.ordered \in BOOLEAN
         /\ ~answer.multipart => Count = 1
         /\ Count \in Nat \ {0} /\ Len(Members) \in Nat \ {0}
         /\ \A k \in 1 .. Count :
              /\ Parts[k].first \in Nat /\ Parts[k].last \in Nat
              /\ SizeOf(Parts[k]) \in Nat \ {0}
              /\ Parts[k].last = Parts[k].first + SizeOf(Parts[k]) - 1
         /\ \A m \in 1 .. Len(Members) :
              /\ BeginOf(request, m) \in Nat /\ EndOf(request, m) \in Nat
              /\ Members[m].size \in Nat \ {0}
              /\ EndOf(request, m) = BeginOf(request, m) + Members[m].size
              /\ BeginOf(request, m) < EndOf(request, m)
         /\ \A i \in 1 .. Len(Members), j \in 1 .. Len(Members) :
              i < j => EndOf(request, i) <= BeginOf(request, j)
  <1>1. /\ IsAnswer(answer) /\ answer.multipart \in BOOLEAN /\ answer.known \in BOOLEAN
        /\ answer.ordered \in BOOLEAN
    BY DEF Batched, Facts, Served, IsAnswer
  <1>2. ~answer.multipart => Count = 1
    BY DEF Batched, Facts, Served, Count, Parts
  <1>3. /\ Count \in Nat \ {0}
        /\ \A k \in 1 .. Count :
             /\ Parts[k].first \in Nat /\ Parts[k].last \in Nat
             /\ SizeOf(Parts[k]) \in Nat \ {0}
    BY <1>1, PartsFacts DEF Count, Parts
  <1>4. ASSUME NEW k \in 1 .. Count
        PROVE  Parts[k].last = Parts[k].first + SizeOf(Parts[k]) - 1
    BY <1>3 DEF SizeOf
  <1>5. /\ Len(Members) \in Nat \ {0}
        /\ \A m \in 1 .. Len(Members) :
             /\ BeginOf(request, m) \in Nat /\ EndOf(request, m) \in Nat
             /\ EndOf(request, m) = BeginOf(request, m) + Members[m].size
        /\ \A i \in 1 .. Len(Members), j \in 1 .. Len(Members) :
             i < j => EndOf(request, i) <= BeginOf(request, j)
    BY RequestFacts DEF Batched, Members
  <1>6. \A m \in 1 .. Len(Members) : Members[m].size \in Nat \ {0}
    BY DEF Batched, Facts, Served, Members
  <1>7. ASSUME NEW m \in 1 .. Len(Members) PROVE BeginOf(request, m) < EndOf(request, m)
    <2>1. BeginOf(request, m) \in Nat /\ Members[m].size \in Nat \ {0}
      BY <1>5, <1>6
    <2>2. EndOf(request, m) = BeginOf(request, m) + Members[m].size
      BY <1>5
    <2> QED
      BY <2>1, <2>2
  <1> QED
    BY <1>1, <1>2, <1>3, <1>4, <1>5, <1>6, <1>7

\* What the members were given does not change with the position.
LEMMA TiledKept ==
  ASSUME UNCHANGED <<request, answer, member>>, NEW k, NEW n
  PROVE  /\ Tiled(k, n) => Tiled(k, n)'
         /\ Passed(n) => Passed(n)'
         /\ Behind(k, n) => Behind(k, n)'
  <1>1. request' = request /\ answer' = answer /\ member' = member
    OBVIOUS
  <1>2. Tiled(k, n) => Tiled(k, n)'
    BY <1>1 DEF Tiled, Parts, InMember
  <1>3. Passed(n) => Passed(n)'
    BY <1>1 DEF Passed, Tiled, Parts, InMember
  <1>4. Behind(k, n) => Behind(k, n)'
    BY <1>1 DEF Behind, Parts, Count
  <1> QED
    BY <1>2, <1>3, <1>4

LEMMA BetweenKept ==
  ASSUME UNCHANGED <<request, answer, member, handed>>, NEW k, Between(k)
  PROVE  /\ Passed(k - 1)' /\ Behind(k, 0)' /\ Exact' /\ Unasked' = Unasked
         /\ UNCHANGED count => Between(k)'
  <1>1. request' = request /\ answer' = answer /\ member' = member /\ handed' = handed
    OBVIOUS
  <1>2. PICK j : j = k - 1
    OBVIOUS
  <1>3. Passed(j) /\ Behind(k, 0) /\ Exact /\ Len(FlattenSeq(handed)) = count
    BY <1>2 DEF Between
  <1>4. Passed(j)' /\ Behind(k, 0)'
    BY <1>1, <1>3, TiledKept
  <1>5. Exact'
    BY <1>1, <1>3 DEF Exact, Members
  <1>6. Unasked' = Unasked
    BY <1>1 DEF Unasked, Parts, Count, Members, InMember
  <1>7. ASSUME count' = count PROVE Between(k)'
    BY <1>1, <1>2, <1>3, <1>4, <1>5, <1>7 DEF Between
  <1> QED
    BY <1>2, <1>4, <1>5, <1>6, <1>7

\* How the invariant is established again.
LEMMA ToldIntro ==
  ASSUME UNCHANGED answer
  PROVE  /\ \A k \in 1 .. Count + 1 :
              status' = "boundary" /\ AtBoundary(k)' /\ Between(k)' => ToldInv'
         /\ \A k \in 1 .. Count, d \in 3 .. 6 :
              status' = "header" /\ AtHeader(k, d)' /\ Between(k)' => ToldInv'
         /\ \A k \in 1 .. Count :
              status' = "chunk" /\ AtChunk(k)' /\ Within(k)' => ToldInv'
         /\ status' = "ok" /\ Between(Count + 1)' => ToldInv'
  <1>1. Count' = Count
    BY DEF Count, Parts
  <1>2. ASSUME NEW k \in 1 .. Count + 1, status' = "boundary", AtBoundary(k)', Between(k)'
        PROVE  ToldInv'
    <2>1. k \in 1 .. Count' + 1
      BY <1>1
    <2> QED
      BY <1>2, <2>1 DEF ToldInv
  <1>3. ASSUME NEW k \in 1 .. Count, NEW d \in 3 .. 6,
               status' = "header", AtHeader(k, d)', Between(k)'
        PROVE  ToldInv'
    <2>1. k \in 1 .. Count'
      BY <1>1
    <2> QED
      BY <1>3, <2>1 DEF ToldInv
  <1>4. ASSUME NEW k \in 1 .. Count, status' = "chunk", AtChunk(k)', Within(k)'
        PROVE  ToldInv'
    <2>1. k \in 1 .. Count'
      BY <1>1
    <2> QED
      BY <1>4, <2>1 DEF ToldInv
  <1>5. ASSUME status' = "ok", Between(Count + 1)' PROVE ToldInv'
    BY <1>5 DEF ToldInv
  <1> QED
    BY <1>2, <1>3, <1>4, <1>5

LEMMA ToldSkipLine ==
  ASSUME Batched, Told, ToldInv, SkipLine
  PROVE  ToldInv'
  <1>1. /\ status = "boundary" /\ status' = "boundary" /\ Upcoming(Line) /\ Advance(1)
        /\ UNCHANGED <<request, answer, member, handed, count>>
    BY DEF SkipLine, Line, input
  <1>2. PICK k \in 1 .. Count + 1 : AtBoundary(k) /\ Between(k)
    BY <1>1 DEF ToldInv
  <1>3. IsAnswer(answer)
    BY BatchedFacts
  <1>4. Left(Start(answer, k) - 1)
    BY <1>1, <1>2, <1>3, AtDelimiter DEF AtBoundary
  <1>5. Left(Start(answer, k))'
    BY <1>1, <1>3, <1>4, AtLine
  <1>6. AtBoundary(k)' /\ Between(k)'
    BY <1>1, <1>2, <1>5, BetweenKept DEF AtBoundary
  <1> QED
    BY <1>1, <1>6, ToldIntro

LEMMA ToldOpenPart ==
  ASSUME Batched, Told, ToldInv, OpenPart
  PROVE  ToldInv'
  <1>1. /\ status = "boundary" /\ status' = "header" /\ Upcoming(Opening) /\ Advance(3)
        /\ UNCHANGED <<request, answer, member, handed, count>>
    BY DEF OpenPart, Opening, input
  <1>2. PICK k \in 1 .. Count + 1 : AtBoundary(k) /\ Between(k)
    BY <1>1 DEF ToldInv
  <1>3. IsAnswer(answer)
    BY BatchedFacts
  <1>4. Left(Start(answer, k))
    BY <1>1, <1>2, <1>3, AtLine DEF AtBoundary
  <1>5. k <= Count
    BY <1>1, <1>3, <1>4, AtDelimiter
  <1>6. (Left(Start(answer, k) + 3))'
    BY <1>1, <1>3, <1>4, <1>5, AtDelimiter
  <1>7. AtHeader(k, 3)' /\ Between(k)'
    BY <1>1, <1>2, <1>6, BetweenKept DEF AtHeader
  <1>8. k \in 1 .. Count /\ 3 \in 3 .. 6
    BY <1>5, BatchedFacts
  <1> QED
    BY <1>1, <1>7, <1>8, ToldIntro

LEMMA ToldCloseBody ==
  ASSUME Batched, Told, ToldInv, CloseBody
  PROVE  ToldInv'
  <1>1. /\ status = "boundary" /\ status' = "ok" /\ Upcoming(Closing) /\ Advance(3)
        /\ UNCHANGED <<request, answer, member, handed, count>>
    BY DEF CloseBody, Closing, input
  <1>2. PICK k \in 1 .. Count + 1 : AtBoundary(k) /\ Between(k)
    BY <1>1 DEF ToldInv
  <1>3. IsAnswer(answer)
    BY BatchedFacts
  <1>4. Left(Start(answer, k))
    BY <1>1, <1>2, <1>3, AtLine DEF AtBoundary
  <1>5. k = Count + 1
    BY <1>1, <1>3, <1>4, AtDelimiter
  <1>6. Between(k)'
    BY <1>1, <1>2, BetweenKept
  <1>7. Count' = Count
    BY <1>1 DEF Count, Parts
  <1>8. Between(Count + 1)'
    BY <1>5, <1>6, <1>7
  <1> QED
    BY <1>1, <1>8, ToldIntro

\* Between two parts there is always one of the lines that the parser expects.
LEMMA ToldNoBoundary ==
  ASSUME Batched, Told, ToldInv, NoBoundary
  PROVE  FALSE
  <1>1. status = "boundary" /\ ~Upcoming(Line) /\ ~Upcoming(Opening) /\ ~Upcoming(Closing)
    BY DEF NoBoundary, Line, Opening, Closing
  <1>2. PICK k \in 1 .. Count + 1 : AtBoundary(k) /\ Between(k)
    BY <1>1 DEF ToldInv
  <1>3. IsAnswer(answer) /\ Count \in Nat
    BY BatchedFacts
  <1>4. Left(Start(answer, k))
    BY <1>1, <1>2, <1>3, AtLine DEF AtBoundary
  <1>5. k <= Count \/ k = Count + 1
    BY <1>3
  <1> QED
    BY <1>1, <1>3, <1>4, <1>5, AtDelimiter

LEMMA ToldHeader ==
  ASSUME Batched, Told, ToldInv, ReadRange \/ SkipHeader
  PROVE  ToldInv'
  <1>1. /\ status = "header" /\ status' = "header" /\ Advance(1)
        /\ UNCHANGED <<request, answer, member, handed, count>>
    BY DEF ReadRange, SkipHeader, input
  <1>2. PICK k \in 1 .. Count, d \in 3 .. 6 : AtHeader(k, d) /\ Between(k)
    BY <1>1 DEF ToldInv
  <1>3. IsAnswer(answer) /\ Left(Start(answer, k) + d) /\ answer.multipart
    BY <1>2, BatchedFacts DEF AtHeader, Left
  <1>4. answer.known
    BY <1>3 DEF Told
  <1>5. (Left(Start(answer, k) + (d + 1)))'
    BY <1>1, <1>3, AtHeaderLine
  <1>6. Between(k)'
    <2>1. k \in 1 .. Count + 1
      BY BatchedFacts
    <2> QED
      BY <1>1, <1>2, <2>1, BetweenKept
  <1>7. Parts' = Parts
    BY <1>1 DEF Parts
  <1>8. PICK e : e = d + 1
    OBVIOUS
  <1>9. e \in 3 .. 6 /\ (e >= 5 => beg' = Parts[k].first /\ end' = Parts[k].last)
    <2>1. CASE ReadRange
      <3>1. Upcoming(<<"range">>) /\ beg' = body[1].beg /\ end' = body[1].end
        BY <2>1 DEF ReadRange
      <3>2. d = 4 /\ body[1].beg = Parts[k].first /\ body[1].end = Parts[k].last
        BY <1>3, <3>1, AtHeaderLine
      <3> QED
        BY <1>8, <3>1, <3>2
    <2>2. CASE SkipHeader
      <3>1. /\ Upcoming(<<"other line">>) \/ Upcoming(<<"range/*">>)
            /\ beg' = beg /\ end' = end
        BY <2>2 DEF SkipHeader
      <3>2. d = 3 \/ d = 5
        BY <1>3, <1>4, <3>1, AtHeaderLine
      <3>3. d = 5 => beg = Parts[k].first /\ end = Parts[k].last
        BY <1>2 DEF AtHeader
      <3>4. e \in 3 .. 6 /\ (e >= 5 => d = 5)
        BY <1>8, <3>2
      <3> QED
        BY <3>1, <3>3, <3>4
    <2> QED
      BY <2>1, <2>2
  <1>10. AtHeader(k, e)'
    BY <1>5, <1>7, <1>8, <1>9 DEF AtHeader
  <1> QED
    BY <1>1, <1>6, <1>9, <1>10, ToldIntro

LEMMA ToldEndHeaders ==
  ASSUME Batched, Told, ToldInv, EndHeaders
  PROVE  ToldInv'
  <1>1. /\ status = "header" /\ status' = "chunk" /\ Advance(1) /\ Upcoming(Line)
        /\ size_read' = 0 /\ beg' = beg /\ end' = end
        /\ UNCHANGED <<request, answer, member, handed, count>>
    BY DEF EndHeaders, Line, input
  <1>2. PICK k \in 1 .. Count, d \in 3 .. 6 : AtHeader(k, d) /\ Between(k)
    BY <1>1 DEF ToldInv
  <1>3. IsAnswer(answer) /\ Left(Start(answer, k) + d) /\ answer.multipart
    BY <1>2, BatchedFacts DEF AtHeader, Left
  <1>4. d = 6
    BY <1>1, <1>3, AtHeaderLine
  <1>5. (Left(Start(answer, k) + (6 + 1)))'
    BY <1>1, <1>3, <1>4, AtHeaderLine
  <1>6. AtChunk(k)'
    <2>1. 6 + 1 = 7
      OBVIOUS
    <2>2. answer'.multipart
      BY <1>1, <1>3
    <2> QED
      BY <1>5, <2>1, <2>2 DEF AtChunk
  <1>7. beg' = Parts'[k].first /\ end' = Parts'[k].last /\ Parts' = Parts
    BY <1>1, <1>2, <1>4 DEF AtHeader, Parts
  <1>8. Within(k)'
    <2>1. /\ Passed(k - 1)' /\ Behind(k, 0)' /\ Exact'
      BY <1>1, <1>2, BetweenKept
    <2>2. Len(FlattenSeq(handed)) = count /\ count \in Nat
      <3>1. Len(FlattenSeq(handed)) = count /\ handed \in Seq(Seq(Tokens))
        BY <1>2 DEF Between, Exact
      <3>2. <<>> \in Seq(Tokens)
        OBVIOUS
      <3>3. FlattenSeq(handed) \in Seq(Tokens)
        BY <3>1, <3>2, FlattenAppended
      <3> QED
        BY <3>1, <3>3, LenProperties
    <2>3. Len(FlattenSeq(handed'))
            = size_read' + (IF answer'.multipart THEN count' ELSE 0)
      BY <1>1, <1>3, <2>2
    <2>4. /\ Parts[k].first \in Nat /\ Parts[k].last \in Nat /\ SizeOf(Parts[k]) \in Nat \ {0}
          /\ Parts[k].last = Parts[k].first + SizeOf(Parts[k]) - 1
      BY BatchedFacts
    <2>5. ChunkSize' = SizeOf(Parts[k])
      BY <1>7, <2>4 DEF ChunkSize
    <2>6. Tiled(k, size_read)'
      <3>1. Parts'[k].first .. Parts'[k].first + size_read' - 1 = {}
        BY <1>1, <1>7, <2>4
      <3> QED
        BY <3>1 DEF Tiled
    <2>7. Behind(k, size_read)'
      BY <1>1, <2>1
    <2>8. (size_read <= ChunkSize)'
      BY <1>1, <2>4, <2>5
    <2> QED
      BY <1>1, <1>3, <1>7, <2>1, <2>3, <2>6, <2>7, <2>8 DEF Within
  <1> QED
    BY <1>1, <1>6, <1>8, ToldIntro

\* The bytes of a chunk that the reader knows the place of.
LEMMA ToldChunkFacts ==
  ASSUME Batched, NEW k \in 1 .. Count, AtChunk(k), Within(k)
  PROVE  /\ Holds(k) /\ ChunkSize = SizeOf(Parts[k]) /\ ChunkSize \in Nat \ {0}
         /\ beg = Parts[k].first /\ beg \in Nat /\ end = beg + ChunkSize - 1
         /\ k \in 1 .. Count + 1
  <1>1. /\ Parts[k].first \in Nat /\ Parts[k].last \in Nat /\ SizeOf(Parts[k]) \in Nat \ {0}
        /\ Parts[k].last = Parts[k].first + SizeOf(Parts[k]) - 1
    BY BatchedFacts
  <1>2. beg = Parts[k].first /\ end = Parts[k].last
    BY DEF Within
  <1>3. ChunkSize = SizeOf(Parts[k])
    BY <1>1, <1>2 DEF ChunkSize
  <1>4. IsAnswer(answer) /\ k \in 1 .. Count + 1
    BY BatchedFacts
  <1>5. CASE answer.multipart
    <2>1. Left(Start(answer, k) + 7)
      BY <1>5 DEF AtChunk
    <2>2. Holds(k)
      BY <1>4, <2>1, AtBytes
    <2> QED
      BY <1>1, <1>2, <1>3, <1>4, <2>2
  <1>6. CASE ~answer.multipart
    <2> DEFINE r == Parts[k]
    <2>1. body = BytesOf(r)
      BY <1>6 DEF AtChunk
    <2>2. r.first \in Int /\ r.last \in Int /\ r.first <= r.last + 1 /\ SizeOf(r) \in Nat
      BY <1>1
    <2> HIDE DEF r
    <2>3. /\ body \in Seq(Tokens) /\ Len(body) = SizeOf(r)
          /\ \A j \in 1 .. SizeOf(r) : body[j] = [is |-> "byte", at |-> r.first + j - 1]
      BY <2>1, <2>2, BytesFacts
    <2>4. SizeOf(r) <= Len(body)
      BY <2>2, <2>3
    <2>5. Holds(k)
      BY <2>3, <2>4 DEF Holds, r
    <2> QED
      BY <1>1, <1>2, <1>3, <1>4, <2>5
  <1> QED
    BY <1>5, <1>6

\* A member takes the bytes from its own place on.
LEMMA ToldHandMember ==
  ASSUME Batched, Told, ToldInv, HandMember
  PROVE  ToldInv' /\ member' \in 1 .. Len(Members) + 1 /\ size_read' \in Nat
  <1> DEFINE x == size_read
             n == Info.size
             z == ChunkSize
             p == Payload(size_read, Info.size)
  <1>1. /\ status = "chunk" /\ status' = "chunk" /\ x < z
        /\ member \in DOMAIN request.members /\ beg + x = Info.begin
        /\ handed' = Append(handed, p) /\ size_read' = x + n /\ member' = member + 1
        /\ UNCHANGED <<request, answer, body, beg, end, count>>
    BY DEF HandMember, BeginsAtMember, input
  <1>2. PICK k \in 1 .. Count : AtChunk(k) /\ Within(k)
    BY <1>1 DEF ToldInv
  <1>3. /\ Holds(k) /\ z = SizeOf(Parts[k]) /\ z \in Nat \ {0}
        /\ beg = Parts[k].first /\ beg \in Nat /\ end = beg + z - 1
    BY <1>2, ToldChunkFacts
  <1>4. /\ member \in 1 .. Len(Members) /\ Len(Members) \in Nat /\ x \in Nat
        /\ DOMAIN request.members = 1 .. Len(Members)
    <2>1. request \in Requests /\ x \in Nat
      BY DEF Batched
    <2> QED
      BY <1>1, <2>1, RequestFacts DEF Members
  <1>5. /\ n \in Nat \ {0} /\ BeginOf(request, member) = beg + x
        /\ EndOf(request, member) = beg + x + n
    <2>1. n = Members[member].size
      BY DEF Info, Members
    <2>2. BeginOf(request, member) = beg + x
      BY <1>1 DEF Info, BeginOf
    <2>3. /\ Members[member].size \in Nat \ {0}
          /\ EndOf(request, member) = BeginOf(request, member) + Members[member].size
      BY <1>4, BatchedFacts
    <2> QED
      BY <2>1, <2>2, <2>3
  <1>a. size_read <= ChunkSize
    BY <1>1, <1>3, <1>4
  <1> HIDE DEF x, n, z, p
  <1>6. /\ Passed(k - 1) /\ Tiled(k, x) /\ Behind(k, x) /\ Exact
        /\ Len(FlattenSeq(handed)) = x + (IF answer.multipart THEN count ELSE 0)
    BY <1>a, <1>2 DEF Within, x
  <1>7. /\ InFile(request) => x <= z
        /\ ~answer.multipart => count = z
    BY <1>2 DEF Within, x, z
  <1>8. member' \in 1 .. Len(Members) + 1 /\ size_read' \in Nat
    BY <1>1, <1>4, <1>5
  <1>9. /\ Parts' = Parts /\ Members' = Members /\ Count' = Count /\ InFile(request)' = InFile(request)
    BY <1>1 DEF Parts, Members, Count
  <1>10. ChunkSize' = z
    BY <1>1 DEF ChunkSize, z
  <1>11. AtChunk(k)'
    BY <1>1, <1>2 DEF AtChunk, Left, Parts
  <1>12. ASSUME NEW o, \E m \in 1 .. member - 1 : InMember(o, m)
         PROVE  \E m \in 1 .. member' - 1 : InMember(o, m)'
    <2>1. PICK m \in 1 .. member - 1 : InMember(o, m)
      BY <1>12
    <2>2. m \in 1 .. member' - 1
      BY <1>1, <1>4
    <2>3. InMember(o, m)'
      BY <1>1, <2>1 DEF InMember
    <2> QED
      BY <2>2, <2>3
  <1>13. Passed(k - 1)'
    <2>1. \A i \in 1 .. k - 1 : \A o \in Parts[i].first .. Parts[i].first + SizeOf(Parts[i]) - 1 :
            \E m \in 1 .. member - 1 : InMember(o, m)
      BY <1>6 DEF Passed, Tiled
    <2>2. \A i \in 1 .. k - 1 : \A o \in Parts[i].first .. Parts[i].first + SizeOf(Parts[i]) - 1 :
            \E m \in 1 .. member' - 1 : InMember(o, m)'
      BY <1>12, <2>1
    <2> QED
      BY <1>9, <2>2 DEF Passed, Tiled
  <1>14. Tiled(k, size_read)'
    <2>1. ASSUME NEW o \in beg .. beg + (x + n) - 1
          PROVE  \E m \in 1 .. member' - 1 : InMember(o, m)'
      <3>1. CASE o <= beg + x - 1
        <4>1. o \in Parts[k].first .. Parts[k].first + x - 1
          BY <1>3, <1>4, <1>5, <3>1
        <4>2. \E m \in 1 .. member - 1 : InMember(o, m)
          BY <1>6, <4>1 DEF Tiled
        <4> QED
          BY <1>12, <4>2
      <3>2. CASE ~(o <= beg + x - 1)
        <4>1. member \in 1 .. member' - 1
          BY <1>1, <1>4
        <4>2. BeginOf(request, member) <= o /\ o < EndOf(request, member)
          <5>1. beg \in Nat /\ x \in Nat /\ n \in Nat
            BY <1>3, <1>4, <1>5
          <5>2. o \in Int /\ beg + x <= o /\ o < beg + x + n
            BY <3>2, <5>1
          <5> QED
            BY <1>5, <5>2
        <4>3. InMember(o, member)
          BY <4>2 DEF InMember
        <4>4. PICK m : m = member
          OBVIOUS
        <4>5. InMember(o, m)'
          BY <1>1, <4>3, <4>4 DEF InMember
        <4>6. m \in 1 .. member' - 1
          BY <4>1, <4>4
        <4> QED
          BY <4>5, <4>6
      <3> QED
        BY <3>1, <3>2
    <2>2. Parts'[k].first = beg /\ size_read' = x + n
      BY <1>1, <1>3, <1>9
    <2> QED
      BY <2>1, <2>2 DEF Tiled
  <1>15. Behind(k, size_read)'
    <2> SUFFICES ASSUME answer'.ordered, k <= Count', NEW m \in 1 .. member' - 1
                 PROVE  EndOf(request', m) <= Parts'[k].first + size_read'
      BY DEF Behind
    <2>1. answer.ordered /\ k <= Count /\ Parts'[k].first = beg /\ size_read' = x + n
      BY <1>1, <1>3, <1>9
    <2>2. \A i \in 1 .. member - 1 : EndOf(request, i) <= beg + x
      BY <1>3, <1>6, <2>1 DEF Behind
    <2>3. m \in 1 .. member - 1 \/ m = member
      BY <1>1, <1>4
    <2>4. m \in 1 .. Len(Members)
      BY <1>1, <1>4
    <2>5. EndOf(request, m) \in Nat
      BY <2>4, BatchedFacts
    <2>6. EndOf(request, m) <= beg + (x + n)
      <3>1. CASE m \in 1 .. member - 1
        <4>1. EndOf(request, m) <= beg + x
          BY <2>2, <3>1
        <4> QED
          BY <1>3, <1>4, <1>5, <2>5, <4>1, SMTT(30)
      <3>2. CASE m = member
        BY <1>3, <1>4, <1>5, <2>5, <3>2, SMTT(30)
      <3> QED
        BY <2>3, <3>1, <3>2
    <2> QED
      BY <1>1, <2>1, <2>6
  <1>16. ASSUME x + n <= z
         PROVE  p = Named(Members[member]) /\ p \in Seq(Tokens) /\ Len(p) = n
    <2> DEFINE r == RangeOf(Members[member])
    <2>1. r.first = beg + x /\ r.last = r.first + n - 1
      <3>1. r.first = Members[member].begin
        BY DEF RangeOf
      <3>2. r.last = Members[member].begin + Members[member].size - 1
        BY DEF RangeOf
      <3>3. Members[member].begin = beg + x /\ Members[member].size = n
        BY <1>5 DEF BeginOf, Members, n, Info
      <3> QED
        BY <3>1, <3>2, <3>3
    <2> HIDE DEF r
    <2>2. /\ Parts[k].first \in Nat /\ SizeOf(Parts[k]) \in Nat /\ Holds(k)
          /\ x \in Nat /\ n \in Nat /\ x + n <= SizeOf(Parts[k])
          /\ r.first = Parts[k].first + x
      BY <1>3, <1>4, <1>5, <1>16, <2>1
    <2>3. Payload(x, n) = BytesOf(r) /\ Len(Payload(x, n)) = n
      BY <2>1, <2>2, PayloadIsBytes
    <2>4. body \in Seq(Tokens) /\ x + n <= Len(body)
      <3>1. body \in Seq(Tokens) /\ z <= Len(body)
        BY <1>3 DEF Holds
      <3>2. Len(body) \in Nat
        BY <3>1, LenProperties
      <3> QED
        BY <1>3, <1>4, <1>5, <1>16, <3>1, <3>2
    <2>5. Payload(x, n) \in Seq(Tokens)
      BY <1>4, <1>5, <2>4, PayloadFacts
    <2>6. p = Payload(x, n)
      BY DEF p, x, n
    <2> QED
      BY <2>3, <2>5, <2>6 DEF Named, r
  <1>17. ASSUME x + n <= z PROVE Exact'
    <2>1. /\ handed \in Seq(Seq(Tokens)) /\ Len(handed) = member - 1
          /\ \A m \in 1 .. member - 1 : handed[m] = Named(Members[m])
      BY <1>6 DEF Exact
    <2>2. p \in Seq(Tokens) /\ p = Named(Members[member])
      BY <1>16, <1>17
    <2>3. /\ Append(handed, p) \in Seq(Seq(Tokens)) /\ Len(Append(handed, p)) = member
          /\ \A m \in 1 .. member - 1 : Append(handed, p)[m] = handed[m]
          /\ Append(handed, p)[member] = p
      <3> DEFINE l == Len(handed)
      <3>1. /\ Append(handed, p) \in Seq(Seq(Tokens)) /\ Len(Append(handed, p)) = l + 1
            /\ \A m \in 1 .. l : Append(handed, p)[m] = handed[m]
            /\ Append(handed, p)[l + 1] = p
        BY <2>1, <2>2, AppendProperties
      <3>2. l = member - 1 /\ l + 1 = member
        BY <1>4, <2>1
      <3> HIDE DEF l
      <3> QED
        BY <3>1, <3>2
    <2>4. \A m \in 1 .. member : handed'[m] = Named(Members[m])
      <3>1. ASSUME NEW m \in 1 .. member PROVE handed'[m] = Named(Members[m])
        <4>1. m \in 1 .. member - 1 \/ m = member
          BY <1>4
        <4> QED
          BY <1>1, <2>1, <2>2, <2>3, <4>1
      <3> QED
        BY <3>1
    <2>5. member' - 1 = member
      BY <1>1, <1>4
    <2> QED
      BY <1>1, <1>9, <2>3, <2>4, <2>5 DEF Exact
  <1>18. ASSUME x + n <= z
         PROVE  Len(FlattenSeq(handed')) = size_read' + (IF answer'.multipart THEN count' ELSE 0)
    <2>1. handed \in Seq(Seq(Tokens)) /\ p \in Seq(Tokens) /\ Len(p) = n
      BY <1>6, <1>16, <1>18 DEF Exact
    <2>2. /\ FlattenSeq(handed) \in Seq(Tokens)
          /\ Len(FlattenSeq(Append(handed, p))) = Len(FlattenSeq(handed)) + Len(p)
      BY <2>1, FlattenAppended
    <2>3. Len(FlattenSeq(handed)) \in Nat
      BY <2>2, LenProperties
    <2>4. PICK c : c = IF answer.multipart THEN count ELSE 0
      OBVIOUS
    <2>5. PICK l : l = Len(FlattenSeq(handed))
      OBVIOUS
    <2>6. l \in Nat /\ l = x + c /\ Len(FlattenSeq(handed')) = l + n
      BY <1>1, <1>6, <2>1, <2>2, <2>3, <2>4, <2>5
    <2>7. (IF answer'.multipart THEN count' ELSE 0) = c
      BY <1>1, <2>4
    <2>8. x + c + n = x + n + c
      <3>1. c \in Nat /\ x \in Nat /\ n \in Nat
        BY <1>4, <1>5, <2>4 DEF Batched
      <3> QED
        BY <3>1
    <2> QED
      BY <1>1, <2>6, <2>7, <2>8
  <1>19. (InFile(request) => size_read <= ChunkSize)'
    <2> SUFFICES ASSUME InFile(request) PROVE x + n <= z
      BY <1>1, <1>9, <1>10
    <2>1. Unsplit(request, answer)
      BY DEF Batched, Facts
    <2>2. /\ Parts[k].first <= BeginOf(request, member)
          /\ BeginOf(request, member) <= Parts[k].last
          /\ Parts[k].last = beg + z - 1
      <3>1. Parts[k].last = end
        BY <1>2 DEF Within
      <3>2. x < z
        BY <1>1 DEF x, z
      <3> QED
        BY <1>3, <1>4, <1>5, <3>1, <3>2, SMTT(30)
    <2>3. EndOf(request, member) <= Parts[k].last + 1
      BY <1>4, <2>1, <2>2 DEF Unsplit, Count, Parts, Members
    <2>4. beg + x + n <= beg + z - 1 + 1
      BY <1>5, <2>2, <2>3
    <2>5. beg \in Nat /\ x \in Nat /\ n \in Nat /\ z \in Nat
      BY <1>3, <1>4, <1>5
    <2> QED
      BY <2>4, <2>5
  <1>20. Within(k)'
    <2>1. beg' = Parts'[k].first /\ end' = Parts'[k].last
      BY <1>1, <1>2, <1>9 DEF Within
    <2>2. (~answer.multipart => count = ChunkSize)'
      BY <1>1, <1>7, <1>10
    <2>3. (size_read <= ChunkSize)' <=> x + n <= z
      BY <1>1, <1>10
    <2> QED
      BY <1>13, <1>14, <1>15, <1>17, <1>18, <1>19, <2>1, <2>2, <2>3 DEF Within
  <1> QED
    BY <1>1, <1>8, <1>11, <1>20, ToldIntro

\* At the end of a chunk all of its bytes have gone to members.
LEMMA ToldEndChunk ==
  ASSUME Batched, Told, ToldInv, EndChunk
  PROVE  ToldInv' /\ count' \in Nat
  <1> DEFINE z == ChunkSize
  <1>1. /\ status = "chunk" /\ size_read = z /\ Advance(z)
        /\ status' = IF answer.multipart THEN "boundary" ELSE "ok"
        /\ count' = IF answer.multipart THEN count + z ELSE count
        /\ UNCHANGED <<request, answer, member, handed>>
    BY DEF EndChunk, ChunkDone, input
  <1>2. PICK k \in 1 .. Count : AtChunk(k) /\ Within(k)
    BY <1>1 DEF ToldInv
  <1>3. /\ z = SizeOf(Parts[k]) /\ z \in Nat \ {0} /\ k \in 1 .. Count + 1
    BY <1>2, ToldChunkFacts
  <1>4. /\ IsAnswer(answer) /\ Count \in Nat \ {0} /\ count \in Nat
        /\ answer.multipart \in BOOLEAN
        /\ ~answer.multipart => Count = 1
        /\ Parts[k].first \in Nat /\ Parts[k].last = Parts[k].first + z - 1
    BY <1>3, BatchedFacts DEF Batched
  <1>5. size_read <= ChunkSize
    BY <1>1, <1>3
  <1>6. /\ Passed(k - 1) /\ Tiled(k, z) /\ Behind(k, z) /\ Exact
        /\ Len(FlattenSeq(handed)) = z + (IF answer.multipart THEN count ELSE 0)
        /\ ~answer.multipart => count = z
    BY <1>1, <1>2, <1>5 DEF Within
  <1> HIDE DEF z
  <1>7. PICK e : e = k + 1
    OBVIOUS
  <1>8. e \in 1 .. Count + 1 /\ e - 1 = k
    BY <1>4, <1>7
  <1>9. Passed(k)
    <2>1. ASSUME NEW i \in 1 .. k PROVE Tiled(i, SizeOf(Parts[i]))
      <3>1. i \in 1 .. k - 1 \/ i = k
        BY <1>4
      <3> QED
        BY <1>3, <1>6, <3>1 DEF Passed
    <2> QED
      BY <2>1 DEF Passed
  <1>10. Behind(e, 0)
    <2> SUFFICES ASSUME answer.ordered, e <= Count, NEW m \in 1 .. member - 1
                 PROVE  EndOf(request, m) <= Parts[e].first + 0
      BY DEF Behind
    <2>1. k <= Count
      BY <1>4
    <2>2. EndOf(request, m) <= Parts[k].first + z
      BY <1>6, <2>1 DEF Behind
    <2>3. Parts[k].last < Parts[e].first
      <3>1. InOrder(request, answer)
        BY DEF Batched, Facts
      <3>2. e \in 1 .. Count /\ k < e
        BY <1>4, <1>7, <1>8
      <3> QED
        BY <3>1, <3>2 DEF InOrder, Count, Parts
    <2>4. EndOf(request, m) \in Nat /\ Parts[e].first \in Nat
      <3>1. m \in 1 .. Len(Members) /\ e \in 1 .. Count
        BY <1>4, <1>8, BatchedFacts DEF Batched
      <3> QED
        BY <3>1, BatchedFacts
    <2> QED
      BY <1>3, <1>4, <2>2, <2>3, <2>4
  <1>11. Passed(e - 1)' /\ Behind(e, 0)' /\ Exact'
    <2>1. Passed(k)' /\ Behind(e, 0)'
      BY <1>1, <1>9, <1>10, TiledKept
    <2>2. Exact'
      BY <1>1, <1>6 DEF Exact, Members
    <2> QED
      BY <1>8, <2>1, <2>2
  <1>12. Len(FlattenSeq(handed)) = count' /\ count' \in Nat
    <2>1. CASE answer.multipart
      BY <1>1, <1>3, <1>4, <1>6, <2>1
    <2>2. CASE ~answer.multipart
      BY <1>1, <1>3, <1>4, <1>6, <2>2
    <2> QED
      BY <2>1, <2>2
  <1>13. Between(e)'
    BY <1>1, <1>11, <1>12 DEF Between
  <1>14. CASE answer.multipart
    <2>1. Left(Start(answer, k) + 7)
      BY <1>2, <1>14 DEF AtChunk
    <2>2. PICK n, at : n = z /\ at = Start(answer, k) + (7 + z)
      OBVIOUS
    <2>3. at = Start(answer, e) - 1
      BY <1>3, <1>4, <1>7, <2>1, <2>2, AtBytes
    <2>4. Left(at)'
      <3>1. n \in 0 .. SizeOf(Parts[k]) /\ Advance(n) /\ answer' = answer
        BY <1>1, <1>3, <2>2
      <3>2. (Left(Start(answer, k) + (7 + n)))'
        BY <1>4, <2>1, <3>1, AtBytes
      <3>3. Start(answer', k) + (7 + n) = at
        BY <1>1, <2>2
      <3> QED
        BY <3>2, <3>3
    <2>5. at = Start(answer', e) - 1
      BY <1>1, <2>3
    <2>6. AtBoundary(e)'
      BY <2>4, <2>5 DEF AtBoundary
    <2> QED
      BY <1>1, <1>8, <1>12, <1>13, <1>14, <2>6, ToldIntro
  <1>15. CASE ~answer.multipart
    <2>1. e = Count + 1
      BY <1>4, <1>7, <1>15
    <2>2. Count' = Count
      BY <1>1 DEF Count, Parts
    <2>3. Between(Count + 1)'
      BY <1>13, <2>1, <2>2
    <2> QED
      BY <1>1, <1>12, <1>15, <2>3, ToldIntro
  <1> QED
    BY <1>14, <1>15

\* An answer in order is given up only for a byte that was not asked for.
LEMMA ToldWrongMember ==
  ASSUME Batched, Told, ToldInv, WrongMember
  PROVE  ToldInv'
  <1> DEFINE x == size_read
             z == ChunkSize
             M == Len(Members)
  <1>1. /\ status = "chunk" /\ status' = "aborted" /\ x < z /\ ~BeginsAtMember
        /\ UNCHANGED <<request, answer, member, handed>>
    BY DEF WrongMember, Abort
  <1>2. PICK k \in 1 .. Count : AtChunk(k) /\ Within(k)
    BY <1>1 DEF ToldInv
  <1>3. /\ z = SizeOf(Parts[k]) /\ z \in Nat \ {0} /\ beg = Parts[k].first /\ beg \in Nat
        /\ end = beg + z - 1
    BY <1>2, ToldChunkFacts
  <1>4. x \in Nat /\ member \in 1 .. M + 1 /\ M \in Nat \ {0} /\ Count \in Nat
    BY BatchedFacts DEF Batched
  <1>5. size_read <= ChunkSize
    BY <1>1, <1>3, <1>4
  <1>6. Passed(k - 1) /\ Tiled(k, x) /\ Behind(k, x) /\ Exact
    BY <1>2, <1>5 DEF Within
  <1>7. Exact'
    BY <1>1, <1>6 DEF Exact, Members
  <1>8. Parts[k].last = beg + z - 1
    BY <1>2, <1>3 DEF Within
  <1>9. /\ \A m \in 1 .. M : BeginOf(request, m) \in Nat /\ EndOf(request, m) \in Nat
                             /\ BeginOf(request, m) < EndOf(request, m)
        /\ \A i \in 1 .. M, j \in 1 .. M : i < j => EndOf(request, i) <= BeginOf(request, j)
    BY BatchedFacts
  <1>10. ~(member <= M /\ BeginOf(request, member) = beg + x)
    <2> SUFFICES ASSUME member <= M, BeginOf(request, member) = beg + x PROVE FALSE
      OBVIOUS
    <2>1. member \in DOMAIN request.members
      <3>1. request \in Requests /\ member \in 1 .. Len(request.members)
        BY <1>4 DEF Batched, Members
      <3> QED
        BY <3>1, RequestFacts
    <2>2. beg + size_read = Info.begin
      BY DEF Info, BeginOf
    <2> QED
      BY <1>1, <2>1, <2>2 DEF BeginsAtMember
  <1> HIDE DEF x, z, M
  <1>11. ASSUME InFile(request), answer.ordered PROVE Unasked
    <2> DEFINE o == beg + x
    <2>1. o \in Parts[k].first .. Parts[k].last /\ o \in Nat /\ o <= Parts[k].last
      <3>1. x < z
        BY <1>1 DEF x, z
      <3> QED
        BY <1>3, <1>4, <1>8, <3>1
    <2>2. ASSUME NEW j \in 1 .. M, InMember(o, j) PROVE FALSE
      <3>1. BeginOf(request, j) <= o /\ o < EndOf(request, j)
        BY <2>2 DEF InMember
      <3>2. ~(j \in 1 .. member - 1)
        <4> SUFFICES ASSUME j \in 1 .. member - 1 PROVE FALSE
          OBVIOUS
        <4>1. k <= Count
          BY <1>4
        <4>2. EndOf(request, j) <= Parts[k].first + x
          BY <1>6, <1>11, <4>1 DEF Behind
        <4>3. EndOf(request, j) <= o /\ EndOf(request, j) \in Nat
          BY <1>3, <1>9, <4>2
        <4> QED
          BY <2>1, <3>1, <4>3
      <3>3. member \in 1 .. M /\ (member < j \/ member = j)
        BY <1>4, <3>2
      <3>4. BeginOf(request, member) < o
        <4>1. /\ BeginOf(request, member) \in Nat /\ EndOf(request, member) \in Nat
              /\ BeginOf(request, member) < EndOf(request, member)
              /\ BeginOf(request, j) \in Nat
          BY <1>9, <3>3
        <4>2. CASE member = j
          <5>1. BeginOf(request, member) # o
            BY <1>4, <1>10, <3>3
          <5> QED
            BY <2>1, <3>1, <4>1, <4>2, <5>1
        <4>3. CASE member < j
          <5>1. EndOf(request, member) <= BeginOf(request, j)
            BY <1>9, <3>3, <4>3
          <5> QED
            BY <2>1, <3>1, <4>1, <5>1
        <4> QED
          BY <3>3, <4>2, <4>3
      <3> DEFINE b == BeginOf(request, member)
      <3>5. b \in Nat /\ b < o
        BY <1>9, <3>3, <3>4
      <3>6. ~\E m \in 1 .. member - 1 : InMember(b, m)
        <4> SUFFICES ASSUME NEW m \in 1 .. member - 1, InMember(b, m) PROVE FALSE
          OBVIOUS
        <4>1. m \in 1 .. M /\ m < member
          BY <1>4
        <4>2. b < EndOf(request, m) /\ EndOf(request, m) \in Nat
          BY <1>9, <4>1 DEF InMember
        <4>3. EndOf(request, m) <= b
          BY <1>9, <3>3, <4>1
        <4> QED
          BY <3>5, <4>2, <4>3
      <3>7. b < FileSize
        <4>1. EndOf(request, member) <= FileSize
          <5>1. request \in Requests /\ member \in 1 .. Len(request.members)
            BY <3>3 DEF Batched, M, Members
          <5>2. member \in DOMAIN request.members
            BY <5>1, RequestFacts
          <5> QED
            BY <1>11, <5>2 DEF InFile, EndOf
        <4>2. b < EndOf(request, member) /\ EndOf(request, member) \in Nat
          BY <1>9, <3>3
        <4>3. FileSize \in Nat
          BY HttpReadAssumption
        <4> QED
          BY <3>5, <4>1, <4>2, <4>3
      <3>8. PICK i \in 1 .. Count : Parts[i].first <= b /\ b <= Parts[i].last
        <4>1. Found(request, answer)
          BY DEF Batched, Facts
        <4>2. member \in 1 .. Len(request.members)
          BY <3>3 DEF M, Members
        <4> QED
          BY <3>7, <4>1, <4>2 DEF Found, Parts, Count
      <3> HIDE DEF b, o
      <3>9. /\ Parts[i].first \in Nat /\ Parts[i].last \in Nat /\ SizeOf(Parts[i]) \in Nat \ {0}
            /\ Parts[i].last = Parts[i].first + SizeOf(Parts[i]) - 1
        BY BatchedFacts
      <3>10. CASE i < k
        <4>1. i \in 1 .. k - 1
          BY <1>4, <3>10
        <4>2. Tiled(i, SizeOf(Parts[i]))
          BY <1>6, <4>1 DEF Passed
        <4>3. b \in Parts[i].first .. Parts[i].first + SizeOf(Parts[i]) - 1
          BY <3>5, <3>8, <3>9
        <4> QED
          BY <3>6, <4>2, <4>3 DEF Tiled
      <3>11. CASE i = k
        <4>1. b \in Parts[k].first .. Parts[k].first + x - 1
          <5>1. o = beg + x
            BY DEF o
          <5> QED
            BY <1>3, <1>4, <3>5, <3>8, <3>11, <5>1
        <4> QED
          BY <1>6, <3>6, <4>1 DEF Tiled
      <3>12. CASE k < i
        <4>1. Parts[k].last < Parts[i].first
          <5>1. InOrder(request, answer)
            BY DEF Batched, Facts
          <5> QED
            BY <1>11, <3>12, <5>1 DEF InOrder, Count, Parts
        <4>2. Parts[k].last \in Nat
          BY BatchedFacts
        <4> QED
          BY <2>1, <3>5, <3>8, <3>9, <4>1, <4>2
      <3> QED
        BY <1>4, <3>10, <3>11, <3>12
    <2> HIDE DEF o
    <2>3. \A m \in 1 .. Len(Members) : ~InMember(o, m)
      BY <2>2 DEF M
    <2> QED
      BY <2>1, <2>3 DEF Unasked
  <1>12. Unasked' = Unasked /\ InFile(request') = InFile(request) /\ answer' = answer
    BY <1>1 DEF Unasked, Parts, Count, Members, InMember
  <1> QED
    BY <1>1, <1>7, <1>11, <1>12 DEF ToldInv

\* The members end where their part ends, if the file holds them.
LEMMA ToldWrongSize ==
  ASSUME Batched, Told, ToldInv, WrongSize
  PROVE  ToldInv'
  <1>1. /\ status = "chunk" /\ status' = "aborted" /\ size_read > ChunkSize
        /\ request' = request
    BY DEF WrongSize, Abort
  <1>2. PICK k \in 1 .. Count : AtChunk(k) /\ Within(k)
    BY <1>1 DEF ToldInv
  <1>3. ChunkSize \in Nat /\ size_read \in Nat
    BY <1>2, ToldChunkFacts DEF Batched
  <1>4. ~InFile(request)
    BY <1>1, <1>2, <1>3 DEF Within
  <1> QED
    BY <1>1, <1>4 DEF ToldInv

-----------------------------------------------------------------------------
(* Parts of which the reader does not know where they lie: it takes each for the *)
(* first byte of the file.                                                       *)

\* The first member was given the first bytes of the first part.
FirstHanded ==
  /\ member = 2 /\ BeginOf(request, 1) = 0 /\ handed = <<handed[1]>>
  /\ Members[1].size = 1 =>
       handed[1] = BytesOf([first |-> Parts[1].first, last |-> Parts[1].first])
  /\ answer.ordered /\ InFile(request) => handed[1] = Named(Members[1])

\* In front of part k.
Seen(k) ==
  IF k = 1 THEN member = 1 /\ handed = <<>> /\ count = 0
  ELSE FirstHanded /\ Members[1].size = 1 /\ count = 1

\* What comes next is the second byte of the first part.
AtSecondByte == Left(Start(answer, 1) + 8) /\ SizeOf(Parts[1]) > 1 /\ Seen(2)

UntoldInv ==
  /\ beg = 0 /\ end = 0
  /\ status = "boundary" =>
       \/ \E k \in 1 .. Count + 1 :
            k <= 2 /\ (k = 2 => SizeOf(Parts[1]) = 1) /\ AtBoundary(k) /\ Seen(k)
       \/ AtSecondByte
  /\ status = "header" =>
       \E k \in 1 .. Count, d \in 3 .. 6 : k <= 2 /\ Left(Start(answer, k) + d) /\ Seen(k)
  /\ status = "chunk" =>
       \E k \in 1 .. Count :
         /\ k <= 2 /\ Left(Start(answer, k) + 7)
         /\ \/ Seen(k) /\ size_read = 0
            \/ k = 1 /\ FirstHanded /\ count = 0 /\ size_read = Members[1].size
  /\ status = "ok" => Count = 1 /\ SizeOf(Parts[1]) = 1 /\ Seen(2)
  /\ status = "aborted" => handed = <<>> \/ FirstHanded

LEMMA SeenKept ==
  ASSUME UNCHANGED <<request, answer, member, handed>>
  PROVE  /\ FirstHanded => FirstHanded'
         /\ UNCHANGED count => \A k : Seen(k) => Seen(k)'
  <1>1. request' = request /\ answer' = answer /\ member' = member /\ handed' = handed
    OBVIOUS
  <1>2. FirstHanded => FirstHanded'
    BY <1>1 DEF FirstHanded, Members, Parts
  <1>3. ASSUME count' = count, NEW k, Seen(k) PROVE Seen(k)'
    <2>1. Members' = Members
      BY <1>1 DEF Members
    <2> QED
      BY <1>1, <1>2, <1>3, <2>1 DEF Seen
  <1> QED
    BY <1>2, <1>3

LEMMA UntoldIntro ==
  ASSUME UNCHANGED answer, beg' = 0, end' = 0
  PROVE  /\ \A k \in 1 .. Count + 1 :
              /\ status' = "boundary" /\ k <= 2 /\ (k = 2 => SizeOf(Parts[1]) = 1)
              /\ AtBoundary(k)' /\ Seen(k)'
              => UntoldInv'
         /\ \A k \in 1 .. Count, d \in 3 .. 6 :
              status' = "header" /\ k <= 2 /\ (Left(Start(answer, k) + d))' /\ Seen(k)'
              => UntoldInv'
         /\ \A k \in 1 .. Count :
              /\ status' = "chunk" /\ k <= 2 /\ (Left(Start(answer, k) + 7))'
              /\ \/ Seen(k)' /\ size_read' = 0
                 \/ k = 1 /\ FirstHanded' /\ count' = 0 /\ size_read' = Members'[1].size
              => UntoldInv'
         /\ status' = "aborted" /\ (handed = <<>> \/ FirstHanded)' => UntoldInv'
  <1>1. Count' = Count /\ Parts' = Parts
    BY DEF Count, Parts
  <1>2. ASSUME NEW k \in 1 .. Count + 1, status' = "boundary", k <= 2,
               k = 2 => SizeOf(Parts[1]) = 1, AtBoundary(k)', Seen(k)'
        PROVE  UntoldInv'
    <2>1. k \in 1 .. Count' + 1 /\ (k = 2 => SizeOf(Parts'[1]) = 1)
      BY <1>1, <1>2
    <2> QED
      BY <1>2, <2>1 DEF UntoldInv
  <1>3. ASSUME NEW k \in 1 .. Count, NEW d \in 3 .. 6, status' = "header", k <= 2,
               (Left(Start(answer, k) + d))', Seen(k)'
        PROVE  UntoldInv'
    <2>1. k \in 1 .. Count'
      BY <1>1
    <2> QED
      BY <1>3, <2>1 DEF UntoldInv
  <1>4. ASSUME NEW k \in 1 .. Count, status' = "chunk", k <= 2, (Left(Start(answer, k) + 7))',
               \/ Seen(k)' /\ size_read' = 0
               \/ k = 1 /\ FirstHanded' /\ count' = 0 /\ size_read' = Members'[1].size
        PROVE  UntoldInv'
    <2>1. k \in 1 .. Count'
      BY <1>1
    <2> QED
      BY <1>4, <2>1 DEF UntoldInv
  <1>5. ASSUME status' = "aborted", (handed = <<>> \/ FirstHanded)' PROVE UntoldInv'
    BY <1>5 DEF UntoldInv
  <1> QED
    BY <1>2, <1>3, <1>4, <1>5

LEMMA UntoldFacts ==
  ASSUME Batched, ~Told
  PROVE  /\ IsAnswer(answer) /\ answer.multipart /\ ~answer.known
         /\ Count \in Nat \ {0} /\ 1 \in 1 .. Count /\ 1 \in 1 .. Count + 1
         /\ 1 \in 1 .. Len(Members)
         /\ BeginOf(request, 1) \in Nat /\ Members[1].size \in Nat \ {0}
         /\ EndOf(request, 1) = BeginOf(request, 1) + Members[1].size
         /\ Parts[1].first \in Nat /\ SizeOf(Parts[1]) \in Nat \ {0}
         /\ Parts[1].last = Parts[1].first + SizeOf(Parts[1]) - 1
  <1>1. IsAnswer(answer) /\ answer.multipart /\ ~answer.known
    BY BatchedFacts DEF Told
  <1>2. /\ Count \in Nat \ {0} /\ 1 \in 1 .. Count /\ 1 \in 1 .. Count + 1
        /\ 1 \in 1 .. Len(Members)
    BY BatchedFacts
  <1> QED
    BY <1>1, <1>2, BatchedFacts

LEMMA UntoldSkipLine ==
  ASSUME Batched, ~Told, UntoldInv, SkipLine
  PROVE  UntoldInv'
  <1>1. /\ status = "boundary" /\ status' = "boundary" /\ Upcoming(Line) /\ Advance(1)
        /\ UNCHANGED <<request, answer, member, handed, count>> /\ beg' = beg /\ end' = end
    BY DEF SkipLine, Line, input
  <1>2. IsAnswer(answer) /\ 1 \in 1 .. Count
    BY UntoldFacts
  <1>3. ~AtSecondByte
    BY <1>1, <1>2, AtByte DEF AtSecondByte
  <1>4. PICK k \in 1 .. Count + 1 :
          k <= 2 /\ (k = 2 => SizeOf(Parts[1]) = 1) /\ AtBoundary(k) /\ Seen(k)
    BY <1>1, <1>3 DEF UntoldInv
  <1>5. Left(Start(answer, k) - 1)
    BY <1>1, <1>2, <1>4, AtDelimiter DEF AtBoundary
  <1>6. AtBoundary(k)' /\ Seen(k)'
    BY <1>1, <1>2, <1>4, <1>5, AtLine, SeenKept DEF AtBoundary
  <1>7. beg' = 0 /\ end' = 0
    BY <1>1 DEF UntoldInv
  <1> QED
    BY <1>1, <1>4, <1>6, <1>7, UntoldIntro

LEMMA UntoldOpenPart ==
  ASSUME Batched, ~Told, UntoldInv, OpenPart
  PROVE  UntoldInv'
  <1>1. /\ status = "boundary" /\ status' = "header" /\ Upcoming(Opening) /\ Advance(3)
        /\ UNCHANGED <<request, answer, member, handed, count>> /\ beg' = beg /\ end' = end
    BY DEF OpenPart, Opening, input
  <1>2. IsAnswer(answer) /\ 1 \in 1 .. Count
    BY UntoldFacts
  <1>3. ~AtSecondByte
    BY <1>1, <1>2, AtByte DEF AtSecondByte
  <1>4. PICK k \in 1 .. Count + 1 : k <= 2 /\ AtBoundary(k) /\ Seen(k)
    BY <1>1, <1>3 DEF UntoldInv
  <1>5. Left(Start(answer, k))
    BY <1>1, <1>2, <1>4, AtLine DEF AtBoundary
  <1>6. k <= Count
    BY <1>1, <1>2, <1>5, AtDelimiter
  <1>7. (Left(Start(answer, k) + 3))' /\ Seen(k)'
    BY <1>1, <1>2, <1>4, <1>5, <1>6, AtDelimiter, SeenKept
  <1>8. beg' = 0 /\ end' = 0 /\ k \in 1 .. Count /\ 3 \in 3 .. 6
    BY <1>1, <1>6, UntoldFacts DEF UntoldInv
  <1> QED
    BY <1>1, <1>4, <1>7, <1>8, UntoldIntro

LEMMA UntoldCloseBody ==
  ASSUME Batched, ~Told, UntoldInv, CloseBody
  PROVE  UntoldInv'
  <1>1. /\ status = "boundary" /\ status' = "ok" /\ Upcoming(Closing)
        /\ UNCHANGED <<request, answer, member, handed, count>> /\ beg' = beg /\ end' = end
    BY DEF CloseBody, Closing, input
  <1>2. IsAnswer(answer) /\ 1 \in 1 .. Count /\ Count \in Nat
    BY UntoldFacts
  <1>3. ~AtSecondByte
    BY <1>1, <1>2, AtByte DEF AtSecondByte
  <1>4. PICK k \in 1 .. Count + 1 :
          k <= 2 /\ (k = 2 => SizeOf(Parts[1]) = 1) /\ AtBoundary(k) /\ Seen(k)
    BY <1>1, <1>3 DEF UntoldInv
  <1>5. Left(Start(answer, k))
    BY <1>1, <1>2, <1>4, AtLine DEF AtBoundary
  <1>6. k = Count + 1
    BY <1>1, <1>2, <1>5, AtDelimiter
  <1>7. k = 2 /\ Count = 1
    BY <1>2, <1>4, <1>6
  <1>8. Seen(2)'
    BY <1>1, <1>4, <1>7, SeenKept
  <1>9. Count' = Count /\ Parts' = Parts
    BY <1>1 DEF Count, Parts
  <1>10. beg' = 0 /\ end' = 0
    BY <1>1 DEF UntoldInv
  <1> QED
    BY <1>1, <1>4, <1>7, <1>8, <1>9, <1>10 DEF UntoldInv

LEMMA UntoldNoBoundary ==
  ASSUME Batched, ~Told, UntoldInv, NoBoundary
  PROVE  UntoldInv'
  <1>1. /\ status = "boundary" /\ status' = "aborted"
        /\ UNCHANGED <<request, answer, member, handed>> /\ beg' = beg /\ end' = end
    BY DEF NoBoundary, Abort
  <1>2. handed = <<>> \/ FirstHanded
    <2>1. (\E k \in 1 .. Count + 1 : Seen(k)) \/ Seen(2)
      BY <1>1 DEF UntoldInv, AtSecondByte
    <2> QED
      BY <2>1 DEF Seen
  <1>3. (handed = <<>> \/ FirstHanded)'
    BY <1>1, <1>2, SeenKept
  <1>4. beg' = 0 /\ end' = 0
    BY <1>1 DEF UntoldInv
  <1> QED
    BY <1>1, <1>3, <1>4, UntoldIntro

\* The line that would tell the range is skipped like the others.
LEMMA UntoldHeader ==
  ASSUME Batched, ~Told, UntoldInv, ReadRange \/ SkipHeader
  PROVE  UntoldInv'
  <1>1. /\ status = "header" /\ status' = "header" /\ Advance(1)
        /\ UNCHANGED <<request, answer, member, handed, count>>
    BY DEF ReadRange, SkipHeader, input
  <1>2. PICK k \in 1 .. Count, d \in 3 .. 6 : k <= 2 /\ Left(Start(answer, k) + d) /\ Seen(k)
    BY <1>1 DEF UntoldInv
  <1>3. IsAnswer(answer) /\ ~answer.known
    BY UntoldFacts
  <1>4. ~Upcoming(<<"range">>)
    BY <1>2, <1>3, AtHeaderLine
  <1>5. /\ Upcoming(<<"other line">>) \/ Upcoming(<<"range/*">>)
        /\ beg' = beg /\ end' = end
    BY <1>4 DEF ReadRange, SkipHeader
  <1>6. d = 3 \/ d = 4 \/ d = 5
    BY <1>2, <1>3, <1>5, AtHeaderLine
  <1>7. PICK e : e = d + 1
    OBVIOUS
  <1>8. e \in 3 .. 6
    BY <1>6, <1>7
  <1>9. (Left(Start(answer, k) + e))'
    <2>1. (Left(Start(answer, k) + (d + 1)))'
      BY <1>1, <1>2, <1>3, AtHeaderLine
    <2> QED
      BY <1>7, <2>1
  <1>10. Seen(k)' /\ beg' = 0 /\ end' = 0
    BY <1>1, <1>2, <1>5, SeenKept DEF UntoldInv
  <1> QED
    BY <1>1, <1>2, <1>8, <1>9, <1>10, UntoldIntro

LEMMA UntoldEndHeaders ==
  ASSUME Batched, ~Told, UntoldInv, EndHeaders
  PROVE  UntoldInv'
  <1>1. /\ status = "header" /\ status' = "chunk" /\ Advance(1) /\ Upcoming(Line)
        /\ size_read' = 0 /\ beg' = beg /\ end' = end
        /\ UNCHANGED <<request, answer, member, handed, count>>
    BY DEF EndHeaders, Line, input
  <1>2. PICK k \in 1 .. Count, d \in 3 .. 6 : k <= 2 /\ Left(Start(answer, k) + d) /\ Seen(k)
    BY <1>1 DEF UntoldInv
  <1>3. IsAnswer(answer)
    BY UntoldFacts
  <1>4. d = 6
    BY <1>1, <1>2, <1>3, AtHeaderLine
  <1>5. (Left(Start(answer, k) + 7))'
    <2>1. (Left(Start(answer, k) + (6 + 1)))'
      BY <1>1, <1>2, <1>3, <1>4, AtHeaderLine
    <2>2. 6 + 1 = 7
      OBVIOUS
    <2> QED
      BY <2>1, <2>2
  <1>6. Seen(k)' /\ beg' = 0 /\ end' = 0
    BY <1>1, <1>2, SeenKept DEF UntoldInv
  <1> QED
    BY <1>1, <1>2, <1>5, <1>6, UntoldIntro

LEMMA UntoldHandMember ==
  ASSUME Batched, ~Told, UntoldInv, HandMember
  PROVE  UntoldInv' /\ member' \in 1 .. Len(Members) + 1 /\ size_read' \in Nat
  <1> DEFINE n == Members[1].size
             p == Payload(0, n)
             x == Parts[1].first
             z == SizeOf(Parts[1])
  <1>1. /\ status = "chunk" /\ status' = "chunk" /\ size_read < ChunkSize
        /\ member \in DOMAIN request.members /\ beg + size_read = Info.begin
        /\ handed' = Append(handed, Payload(size_read, Info.size))
        /\ size_read' = size_read + Info.size /\ member' = member + 1
        /\ UNCHANGED <<request, answer, body, beg, end, count>>
    BY DEF HandMember, BeginsAtMember, input
  <1>2. beg = 0 /\ end = 0
    BY DEF UntoldInv
  <1>3. size_read = 0
    <2>1. ChunkSize = 1 /\ size_read \in Nat
      BY <1>2 DEF ChunkSize, Batched
    <2> QED
      BY <1>1, <2>1
  <1>4. /\ IsAnswer(answer) /\ n \in Nat \ {0} /\ 1 \in 1 .. Count
        /\ EndOf(request, 1) = BeginOf(request, 1) + n /\ BeginOf(request, 1) \in Nat
        /\ x \in Nat /\ z \in Nat \ {0} /\ Parts[1].last = x + z - 1
        /\ 1 \in 1 .. Len(Members)
    BY UntoldFacts
  <1>5. PICK k \in 1 .. Count : k <= 2 /\ Left(Start(answer, k) + 7) /\ Seen(k)
    <2>1. ~(size_read = Members[1].size)
      BY <1>3, <1>4
    <2> QED
      BY <1>1, <2>1 DEF UntoldInv
  <1>6. Info.begin = 0
    BY <1>1, <1>2, <1>3
  <1>7. k = 1
    <2> SUFFICES ASSUME k # 1 PROVE FALSE
      OBVIOUS
    <2>1. member = 2 /\ n = 1
      BY <1>5 DEF Seen, FirstHanded
    <2>2. request \in Requests
      BY DEF Batched
    <2>3. 2 \in 1 .. Len(Members)
      BY <1>1, <2>1, <2>2, RequestFacts DEF Members
    <2>4. EndOf(request, 1) <= BeginOf(request, 2)
      BY <1>4, <2>3, BatchedFacts
    <2>5. BeginOf(request, 2) = 0
      BY <1>6, <2>1 DEF Info, BeginOf
    <2> QED
      BY <1>4, <2>1, <2>4, <2>5
  <1>8. member = 1 /\ handed = <<>> /\ count = 0
    BY <1>5, <1>7 DEF Seen
  <1>9. BeginOf(request, 1) = 0 /\ Info.size = n
    BY <1>6, <1>8 DEF Info, BeginOf, Members
  <1>10. /\ handed' = <<p>> /\ handed'[1] = p
         /\ size_read' = n /\ member' = 2 /\ count' = 0
    <2>1. handed' = Append(<<>>, p)
      BY <1>1, <1>3, <1>8, <1>9
    <2>2. size_read' = n
      BY <1>1, <1>3, <1>4, <1>9
    <2>3. member' = 2 /\ count' = 0
      BY <1>1, <1>8
    <2> HIDE DEF p, n
    <2>4. Append(<<>>, p) = <<p>> /\ <<p>>[1] = p
      OBVIOUS
    <2> QED
      BY <2>1, <2>2, <2>3, <2>4
  <1>11. Holds(1)
    BY <1>4, <1>5, <1>7, AtBytes
  <1> HIDE DEF n, p, x, z
  <1>12. ASSUME n = 1 PROVE p = BytesOf([first |-> x, last |-> x])
    <2> DEFINE r == [first |-> x, last |-> x]
    <2>1. r.first = x + 0 /\ r.last = r.first + 1 - 1
      BY <1>4
    <2> HIDE DEF r
    <2>2. /\ Parts[1].first \in Nat /\ SizeOf(Parts[1]) \in Nat /\ Holds(1)
          /\ 0 \in Nat /\ 1 \in Nat /\ 0 + 1 <= SizeOf(Parts[1])
          /\ r.first = Parts[1].first + 0
      BY <1>4, <1>11, <2>1 DEF x, z
    <2>3. Payload(0, 1) = BytesOf(r)
      BY <2>1, <2>2, PayloadIsBytes
    <2> QED
      BY <1>12, <2>3 DEF p, r
  <1>13. ASSUME answer.ordered, InFile(request) PROVE p = Named(Members[1])
    <2> DEFINE r == RangeOf(Members[1])
    <2>1. x = 0
      <3>1. InOrder(request, answer)
        BY DEF Batched, Facts
      <3> QED
        BY <1>9, <1>13, <3>1 DEF InOrder, Parts, x
    <2>2. r.first = 0 /\ r.last = n - 1
      <3>1. Members[1].begin = 0
        BY <1>9 DEF BeginOf, Members
      <3>2. r.first = Members[1].begin /\ r.last = Members[1].begin + Members[1].size - 1
        BY DEF RangeOf
      <3> QED
        BY <1>4, <3>1, <3>2 DEF n
    <2> HIDE DEF r
    <2>3. n <= z
      <3>1. Unsplit(request, answer)
        BY DEF Batched, Facts
      <3>2. Parts[1].first <= BeginOf(request, 1) /\ BeginOf(request, 1) <= Parts[1].last
        BY <1>4, <1>9, <2>1 DEF x
      <3>3. EndOf(request, 1) <= Parts[1].last + 1
        BY <1>4, <1>13, <3>1, <3>2 DEF Unsplit, Parts, Count, Members
      <3> QED
        BY <1>4, <1>9, <2>1, <3>3
    <2>4. /\ Parts[1].first \in Nat /\ SizeOf(Parts[1]) \in Nat /\ Holds(1)
          /\ 0 \in Nat /\ n \in Nat /\ 0 + n <= SizeOf(Parts[1])
          /\ r.first = Parts[1].first + 0 /\ r.last = r.first + n - 1
      BY <1>4, <1>11, <2>1, <2>2, <2>3 DEF x, z
    <2>5. Payload(0, n) = BytesOf(r)
      BY <2>4, PayloadIsBytes
    <2> QED
      BY <2>5 DEF p, Named, r
  <1>14. FirstHanded'
    <2>1. /\ Members' = Members /\ Parts' = Parts /\ answer' = answer /\ request' = request
      BY <1>1 DEF Members, Parts
    <2>2. Members'[1].size = 1 => handed'[1] = BytesOf([first |-> Parts'[1].first, last |-> Parts'[1].first])
      BY <1>10, <1>12, <2>1 DEF n, x
    <2>3. answer'.ordered /\ InFile(request') => handed'[1] = Named(Members'[1])
      BY <1>10, <1>13, <2>1
    <2>4. handed' = <<handed'[1]>>
      BY <1>10
    <2> QED
      BY <1>9, <1>10, <2>1, <2>2, <2>3, <2>4 DEF FirstHanded
  <1>15. (Left(Start(answer, k) + 7))'
    BY <1>1, <1>5 DEF Left
  <1>16. size_read' = Members'[1].size
    BY <1>1, <1>10 DEF Members, n
  <1>17. beg' = 0 /\ end' = 0
    BY <1>1, <1>2
  <1>18. UntoldInv'
    BY <1>1, <1>5, <1>7, <1>10, <1>14, <1>15, <1>16, <1>17, UntoldIntro
  <1>19. member' \in 1 .. Len(Members) + 1 /\ size_read' \in Nat
    BY <1>4, <1>10
  <1> QED
    BY <1>18, <1>19

LEMMA UntoldAborted ==
  ASSUME Batched, ~Told, UntoldInv, WrongMember \/ WrongSize
  PROVE  UntoldInv'
  <1>1. /\ status = "chunk" /\ status' = "aborted"
        /\ UNCHANGED <<request, answer, member, handed>> /\ beg' = beg /\ end' = end
    BY DEF WrongMember, WrongSize, Abort
  <1>2. handed = <<>> \/ FirstHanded
    <2>1. FirstHanded \/ \E k \in 1 .. Count : Seen(k)
      BY <1>1 DEF UntoldInv
    <2> QED
      BY <2>1 DEF Seen
  <1>3. (handed = <<>> \/ FirstHanded)'
    BY <1>1, <1>2, SeenKept
  <1>4. beg' = 0 /\ end' = 0
    BY <1>1 DEF UntoldInv
  <1> QED
    BY <1>1, <1>3, <1>4, UntoldIntro

LEMMA UntoldEndChunk ==
  ASSUME Batched, ~Told, UntoldInv, EndChunk
  PROVE  UntoldInv' /\ count' \in Nat
  <1>1. beg = 0 /\ end = 0 /\ ChunkSize = 1 /\ answer.multipart
    BY UntoldFacts DEF UntoldInv, ChunkSize
  <1>2. /\ status = "chunk" /\ size_read = 1 /\ Advance(1) /\ status' = "boundary"
        /\ count' = count + 1 /\ beg' = 0 /\ end' = 0
        /\ UNCHANGED <<request, answer, member, handed>>
    BY <1>1 DEF EndChunk, ChunkDone, input
  <1>3. /\ Left(Start(answer, 1) + 7) /\ FirstHanded /\ count = 0 /\ Members[1].size = 1
    BY <1>2 DEF UntoldInv
  <1>4. count' = 1
    BY <1>2, <1>3
  <1>5. FirstHanded' /\ Seen(2)'
    <2>1. FirstHanded'
      BY <1>2, <1>3, SeenKept
    <2>2. Members' = Members
      BY <1>2 DEF Members
    <2> QED
      BY <1>3, <1>4, <2>1, <2>2 DEF Seen
  <1>6. /\ IsAnswer(answer) /\ Count \in Nat \ {0} /\ 1 \in 1 .. Count
        /\ SizeOf(Parts[1]) \in Nat \ {0}
    BY UntoldFacts
  <1>7. (Left(Start(answer, 1) + (7 + 1)))'
    BY <1>2, <1>3, <1>6, AtBytes
  <1>8. Start(answer', 1) = Start(answer, 1) /\ Start(answer', 2) = Start(answer, 2)
    BY <1>2
  <1>9. CASE SizeOf(Parts[1]) = 1
    <2>1. Start(answer, 1) + (7 + 1) = Start(answer, 2) - 1
      <3>1. Start(answer, 1) + (7 + SizeOf(Parts[1])) = Start(answer, 1 + 1) - 1
        BY <1>3, <1>6, AtBytes
      <3>2. 1 + 1 = 2
        OBVIOUS
      <3> QED
        BY <1>9, <3>1, <3>2
    <2>2. AtBoundary(2)'
      <3>1. PICK at : at = Start(answer, 1) + (7 + 1)
        OBVIOUS
      <3>2. Left(at)'
        BY <1>2, <1>7, <3>1
      <3>3. at = Start(answer', 2) - 1
        BY <1>8, <2>1, <3>1
      <3> QED
        BY <3>2, <3>3 DEF AtBoundary
    <2>3. 2 \in 1 .. Count + 1
      BY <1>6
    <2> QED
      BY <1>2, <1>4, <1>5, <1>9, <2>2, <2>3, UntoldIntro
  <1>10. CASE SizeOf(Parts[1]) # 1
    <2>1. 7 + 1 = 8
      OBVIOUS
    <2>2. (Left(Start(answer, 1) + 8))'
      BY <1>7, <2>1
    <2>3. SizeOf(Parts'[1]) > 1
      BY <1>2, <1>6, <1>10 DEF Parts
    <2>4. AtSecondByte'
      BY <1>5, <2>2, <2>3 DEF AtSecondByte
    <2> QED
      BY <1>2, <1>4, <2>4 DEF UntoldInv
  <1> QED
    BY <1>9, <1>10

-----------------------------------------------------------------------------
(* The invariant of a read, whatever was asked for and answered. *)

\* The range of a plain read, as far as the file goes.
PlainInv ==
  /\ ~request.batch /\ request \in Requests
  /\ Facts(request, answer)
  /\ status \in {"chunk", "ok"}
  /\ status = "chunk" =>
       /\ body = BytesOf(Parts[1]) /\ beg = Parts[1].first /\ end = Parts[1].last
       /\ handed = <<>> /\ count = SizeOf(Parts[1])
  /\ status = "ok" => handed = <<BytesOf(Parts[1])>> /\ count = SizeOf(Parts[1])

Fresh == answer = NotAnswered /\ member = 1 /\ size_read = 0 /\ handed = <<>>

BatchInv == Batched /\ (Told => ToldInv) /\ (~Told => UntoldInv)

PartialInv == status # "sent" /\ (PlainInv \/ BatchInv)

ReadInv ==
  /\ request \in Requests /\ status \in Statuses
  /\ status = "sent" => Fresh
  /\ answer.code = 206 => PartialInv

\* An answer in parts has come.
Answered ==
  /\ request \in Requests /\ Facts(request, answer)
  /\ member = 1 /\ size_read = 0 /\ handed = <<>>
  /\ body = BodyOf(answer)
  /\ status = IF answer.multipart THEN "boundary" ELSE "chunk"
  /\ beg = IF answer.multipart THEN 0 ELSE BeginOf(request, 1)
  /\ end = IF answer.multipart THEN 0 ELSE beg + Len(body) - 1
  /\ count = IF answer.multipart THEN 0 ELSE Len(body)

\* In an answer in one piece the part is the body.
LEMMA WholePart ==
  ASSUME Facts(request, answer), ~answer.multipart
  PROVE  /\ IsAnswer(answer) /\ Count = 1 /\ BodyOf(answer) = BytesOf(Parts[1])
         /\ Parts[1].first = BeginOf(request, 1)
         /\ Parts[1].first \in Nat /\ Parts[1].last \in Nat /\ SizeOf(Parts[1]) \in Nat \ {0}
         /\ Parts[1].last = Parts[1].first + SizeOf(Parts[1]) - 1
         /\ Len(BytesOf(Parts[1])) = SizeOf(Parts[1])
         /\ body = BytesOf(Parts[1]) => Holds(1)
  <1>1. IsAnswer(answer) /\ Count = 1 /\ BodyOf(answer) = BytesOf(Parts[1])
    BY DEF Facts, Served, BodyOf, Parts, Count
  <1>2. Parts[1].first = BeginOf(request, 1)
    BY <1>1 DEF Facts, Single, Parts, Count
  <1>3. /\ Parts[1].first \in Nat /\ Parts[1].last \in Nat /\ SizeOf(Parts[1]) \in Nat \ {0}
        /\ Parts[1].first <= Parts[1].last
    <2>1. 1 \in 1 .. Len(answer.parts)
      BY <1>1 DEF Parts, Count
    <2> QED
      BY <1>1, <2>1, PartsFacts DEF Parts
  <1>4. Parts[1].last = Parts[1].first + SizeOf(Parts[1]) - 1
    BY <1>3 DEF SizeOf
  <1> DEFINE r == Parts[1]
  <1>5. r.first \in Int /\ r.last \in Int /\ r.first <= r.last + 1
    BY <1>3
  <1> HIDE DEF r
  <1>6. /\ BytesOf(r) \in Seq(Tokens) /\ Len(BytesOf(r)) = SizeOf(r)
        /\ \A j \in 1 .. SizeOf(r) : BytesOf(r)[j] = [is |-> "byte", at |-> r.first + j - 1]
    BY <1>5, BytesFacts
  <1>7. ASSUME body = BytesOf(r) PROVE Holds(1)
    <2>1. SizeOf(r) <= Len(body)
      BY <1>3, <1>6, <1>7 DEF r
    <2> QED
      BY <1>6, <1>7, <2>1 DEF Holds, r
  <1> QED
    BY <1>1, <1>2, <1>3, <1>4, <1>6, <1>7 DEF r

\* Before any part nothing was given to members.
LEMMA NothingHanded ==
  ASSUME member = 1, handed = <<>>
  PROVE  Passed(0) /\ Behind(1, 0) /\ Exact /\ Len(FlattenSeq(handed)) = 0
  <1>1. \A k \in 1 .. 0 : FALSE
    OBVIOUS
  <1>2. 1 .. member - 1 = {}
    OBVIOUS
  <1>3. Passed(0)
    BY <1>1 DEF Passed
  <1>4. Behind(1, 0)
    BY <1>2 DEF Behind
  <1>5. Exact
    <2>1. handed \in Seq(Seq(Tokens)) /\ Len(handed) = 0
      BY EmptySeq
    <2> QED
      BY <1>2, <2>1 DEF Exact
  <1>6. Len(FlattenSeq(handed)) = 0
    BY DEF FlattenSeq
  <1> QED
    BY <1>3, <1>4, <1>5, <1>6

\* A body from its beginning.
LEMMA LeftAll ==
  ASSUME IsAnswer(answer), answer.multipart, body = BodyOf(answer)
  PROVE  AtBoundary(1)
  <1> DEFINE F == BodyOf(answer)
  <1>1. F \in Seq(Tokens) /\ Start(answer, 1) = 1
    BY TokensAt, StartFacts
  <1> HIDE DEF F
  <1>2. Len(F) \in Nat /\ 0 \in 0 .. Len(F)
    BY <1>1, LenProperties
  <1>3. /\ Rest(F, 0) \in Seq(Tokens) /\ Len(Rest(F, 0)) = Len(F) - 0
        /\ \A j \in 1 .. Len(F) - 0 : Rest(F, 0)[j] = F[0 + j]
    BY <1>1, <1>2, RestFacts
  <1>4. Len(Rest(F, 0)) = Len(F) /\ \A j \in 1 .. Len(F) : Rest(F, 0)[j] = F[j]
    <2>1. Len(F) - 0 = Len(F) /\ \A j \in 1 .. Len(F) : 0 + j = j
      BY <1>2
    <2> QED
      BY <1>3, <2>1
  <1>5. Rest(F, 0) = F
    BY <1>1, <1>3, <1>4, SeqEqual
  <1>6. Left(0)
    BY <1>5 DEF Left, F
  <1>7. Start(answer, 1) - 1 = 0
    BY <1>1
  <1> QED
    BY <1>6, <1>7 DEF AtBoundary

LEMMA AnsweredPlain ==
  ASSUME Answered, ~request.batch
  PROVE  PlainInv
  <1>1. request \in Requests /\ Facts(request, answer) /\ ~answer.multipart
    BY DEF Answered, Facts, Plain
  <1>2. /\ body = BytesOf(Parts[1]) /\ Parts[1].first = BeginOf(request, 1)
        /\ Parts[1].first \in Nat /\ SizeOf(Parts[1]) \in Nat
        /\ Parts[1].last = Parts[1].first + SizeOf(Parts[1]) - 1
        /\ Len(BytesOf(Parts[1])) = SizeOf(Parts[1])
    BY <1>1, WholePart DEF Answered
  <1>3. /\ status = "chunk" /\ beg = BeginOf(request, 1) /\ end = beg + Len(body) - 1
        /\ count = Len(body) /\ handed = <<>>
    BY <1>1 DEF Answered
  <1>4. end = Parts[1].last /\ count = SizeOf(Parts[1])
    BY <1>2, <1>3
  <1> QED
    BY <1>1, <1>2, <1>3, <1>4 DEF PlainInv

LEMMA AnsweredInParts ==
  ASSUME Answered, Batched, answer.multipart
  PROVE  (Told => ToldInv) /\ (~Told => UntoldInv)
  <1>1. IsAnswer(answer) /\ Count \in Nat \ {0} /\ 1 \in 1 .. Count + 1
    BY BatchedFacts
  <1>2. AtBoundary(1)
    BY <1>1, LeftAll DEF Answered
  <1>3. /\ status = "boundary" /\ member = 1 /\ handed = <<>> /\ count = 0 /\ beg = 0 /\ end = 0
    BY DEF Answered
  <1>4. Between(1)
    <2>1. Passed(1 - 1)
      <3>1. 1 - 1 = 0
        OBVIOUS
      <3> QED
        BY <1>3, <3>1, NothingHanded
    <2> QED
      BY <1>3, <2>1, NothingHanded DEF Between
  <1>5. ToldInv
    BY <1>1, <1>2, <1>3, <1>4 DEF ToldInv
  <1>6. Seen(1)
    BY <1>3 DEF Seen
  <1>7. UntoldInv
    BY <1>1, <1>2, <1>3, <1>6 DEF UntoldInv
  <1> QED
    BY <1>5, <1>7

LEMMA AnsweredInOne ==
  ASSUME Answered, Batched, ~answer.multipart
  PROVE  ToldInv
  <1>1. /\ Count = 1 /\ body = BytesOf(Parts[1]) /\ Parts[1].first = BeginOf(request, 1)
        /\ Parts[1].first \in Nat /\ SizeOf(Parts[1]) \in Nat \ {0}
        /\ Parts[1].last = Parts[1].first + SizeOf(Parts[1]) - 1
        /\ Len(BytesOf(Parts[1])) = SizeOf(Parts[1])
    BY WholePart DEF Answered
  <1>2. /\ status = "chunk" /\ beg = BeginOf(request, 1) /\ end = beg + Len(body) - 1
        /\ count = Len(body) /\ member = 1 /\ size_read = 0 /\ handed = <<>>
    BY DEF Answered
  <1>3. beg = Parts[1].first /\ end = Parts[1].last
    BY <1>1, <1>2
  <1>4. ChunkSize = SizeOf(Parts[1])
    BY <1>1, <1>3 DEF ChunkSize, SizeOf
  <1>5. count = ChunkSize /\ size_read <= ChunkSize
    BY <1>1, <1>2, <1>4
  <1>6. /\ Passed(1 - 1) /\ Behind(1, size_read) /\ Exact
        /\ Len(FlattenSeq(handed)) = size_read + (IF answer.multipart THEN count ELSE 0)
    <2>1. 1 - 1 = 0
      OBVIOUS
    <2> QED
      BY <1>2, <2>1, NothingHanded
  <1>7. Tiled(1, size_read)
    <2>1. \A o \in Parts[1].first .. Parts[1].first + 0 - 1 : FALSE
      BY <1>1
    <2> QED
      BY <1>2, <2>1 DEF Tiled
  <1>8. Within(1)
    BY <1>3, <1>5, <1>6, <1>7 DEF Within
  <1>9. AtChunk(1)
    BY <1>1 DEF AtChunk
  <1>10. 1 \in 1 .. Count
    BY <1>1
  <1> QED
    BY <1>2, <1>8, <1>9, <1>10 DEF ToldInv

LEMMA AnsweredInv == Answered => PartialInv
  <1> SUFFICES ASSUME Answered PROVE PartialInv
    OBVIOUS
  <1>1. status # "sent"
    BY DEF Answered
  <1>2. CASE ~request.batch
    BY <1>1, <1>2, AnsweredPlain DEF PartialInv
  <1>3. CASE request.batch
    <2>1. /\ request \in Requests /\ Facts(request, answer) /\ member = 1 /\ size_read = 0
          /\ Len(Members) \in Nat \ {0}
      BY RequestFacts DEF Answered, Members
    <2>2. count \in Nat
      <3>1. CASE answer.multipart
        BY <3>1 DEF Answered
      <3>2. CASE ~answer.multipart
        BY <2>1, <3>2, WholePart DEF Answered
      <3> QED
        BY <3>1, <3>2
    <2>3. Batched
      BY <1>3, <2>1, <2>2 DEF Batched
    <2>4. CASE answer.multipart
      BY <1>1, <2>3, <2>4, AnsweredInParts DEF BatchInv, PartialInv
    <2>5. CASE ~answer.multipart
      BY <1>1, <2>3, <2>5, AnsweredInOne DEF BatchInv, PartialInv, Told
    <2> QED
      BY <2>4, <2>5
  <1> QED
    BY <1>2, <1>3

LEMMA ReceiveInv ==
  ASSUME ReadInv, Receive
  PROVE  ReadInv'
  <1>1. /\ status = "sent" /\ Fresh /\ request' = request /\ request \in Requests
        /\ answer' \in Answers(request) /\ body' = BodyOf(answer')
        /\ status' = IF answer'.multipart THEN "boundary" ELSE "chunk"
        /\ beg' = IF answer'.multipart THEN 0 ELSE request.members[1].begin
        /\ end' = IF answer'.multipart THEN 0 ELSE beg' + Len(body') - 1
        /\ count' = IF answer'.multipart THEN 0 ELSE Len(body')
        /\ member' = 1 /\ size_read' = 0 /\ handed' = <<>>
    BY DEF ReadInv, Receive, Fresh
  <1>2. status' # "sent" /\ status' \in Statuses
    BY <1>1 DEF Statuses
  <1>3. Answered' => PartialInv'
    BY AnsweredInv, PTL
  <1>4. ASSUME answer'.code = 206 PROVE PartialInv'
    <2>1. WholeAnswer.code # 206
      BY DEF WholeAnswer
    <2>2. PICK a : a = answer'
      OBVIOUS
    <2>3. Valid(request) /\ a \in PartialAnswers(request)
      BY <1>1, <1>4, <2>1, <2>2 DEF Answers
    <2>4. Facts(request, a)
      BY <1>1, <2>3, PartialFacts
    <2>5. Facts(request', answer')
      BY <1>1, <2>2, <2>4
    <2>6. Answered'
      BY <1>1, <2>5 DEF Answered, BeginOf
    <2> QED
      BY <1>3, <2>6
  <1> QED
    BY <1>1, <1>2, <1>4 DEF ReadInv

LEMMA PlainStep ==
  ASSUME PlainInv, Next
  PROVE  PlainInv'
  <1>1. status \in {"chunk", "ok"} /\ ~request.batch
    BY DEF PlainInv
  <1>2. CopyChunk
    <2>1. ~Receive /\ ~NoAnswer
      BY <1>1 DEF Receive, NoAnswer
    <2>2. ~SkipLine /\ ~OpenPart /\ ~CloseBody /\ ~NoBoundary
      BY <1>1 DEF SkipLine, OpenPart, CloseBody, NoBoundary
    <2>3. ~ReadRange /\ ~SkipHeader /\ ~EndHeaders
      BY <1>1 DEF ReadRange, SkipHeader, EndHeaders
    <2>4. ~HandMember /\ ~WrongMember /\ ~EndChunk /\ ~WrongSize
      BY <1>1 DEF HandMember, WrongMember, EndChunk, WrongSize
    <2> QED
      BY <2>1, <2>2, <2>3, <2>4 DEF Next
  <1>3. request \in Requests /\ Facts(request, answer) /\ ~answer.multipart
    BY <1>1 DEF PlainInv, Facts, Plain
  <1>4. /\ status = "chunk" /\ status' = "ok"
        /\ handed' = Append(handed, Payload(0, ChunkSize)) /\ count' = count
        /\ request' = request /\ answer' = answer
    BY <1>2, <1>3 DEF CopyChunk, ChunkDone, input
  <1>5. /\ body = BytesOf(Parts[1]) /\ beg = Parts[1].first /\ end = Parts[1].last
        /\ handed = <<>> /\ count = SizeOf(Parts[1])
    BY <1>4 DEF PlainInv
  <1>6. /\ Parts[1].first \in Nat /\ SizeOf(Parts[1]) \in Nat /\ Holds(1)
        /\ Parts[1].last = Parts[1].first + SizeOf(Parts[1]) - 1
    BY <1>3, <1>5, WholePart
  <1>7. ChunkSize = SizeOf(Parts[1])
    BY <1>5 DEF ChunkSize, SizeOf
  <1>8. Payload(0, ChunkSize) = BytesOf(Parts[1])
    <2> DEFINE z == SizeOf(Parts[1])
               r == Parts[1]
    <2>1. 0 + z <= z /\ r.first = r.first + 0 /\ r.last = r.first + z - 1 /\ z \in Nat
      BY <1>6
    <2>2. Payload(0, z) = BytesOf(r)
      BY <1>6, <2>1, PayloadIsBytes
    <2> QED
      BY <1>7, <2>2
  <1>9. handed' = <<BytesOf(Parts[1])>>
    BY <1>4, <1>5, <1>8
  <1>10. Parts' = Parts /\ request' \in Requests /\ Facts(request', answer')
    BY <1>3, <1>4 DEF Parts
  <1>11. status' \in {"chunk", "ok"} /\ status' # "chunk" /\ ~request'.batch
    BY <1>1, <1>4
  <1>12. handed' = <<BytesOf(Parts'[1])>> /\ count' = SizeOf(Parts'[1])
    BY <1>4, <1>5, <1>9, <1>10
  <1> QED
    BY <1>10, <1>11, <1>12 DEF PlainInv

\* The variables that the steps on a batched answer leave alone.
LEMMA BatchedKept ==
  ASSUME Batched, UNCHANGED <<request, answer>>,
         member' \in 1 .. Len(Members) + 1, size_read' \in Nat, count' \in Nat
  PROVE  Batched' /\ (Told' <=> Told)
  <1>1. /\ request' \in Requests /\ request'.batch /\ Facts(request', answer')
        /\ Members' = Members
    BY DEF Batched, Members
  <1>2. Batched'
    BY <1>1 DEF Batched
  <1>3. Told' <=> Told
    BY DEF Told
  <1> QED
    BY <1>2, <1>3

LEMMA BatchStep ==
  ASSUME BatchInv, status # "sent", Next
  PROVE  BatchInv'
  <1>1. /\ Batched /\ request.batch /\ (Told => ToldInv) /\ (~Told => UntoldInv)
        /\ member \in 1 .. Len(Members) + 1 /\ size_read \in Nat /\ count \in Nat
    BY DEF BatchInv, Batched
  <1> DEFINE Kept == (Told => ToldInv') /\ (~Told => UntoldInv')
  <1>2. ASSUME UNCHANGED <<request, answer>>, Kept,
               member' \in 1 .. Len(Members) + 1, size_read' \in Nat, count' \in Nat
        PROVE  BatchInv'
    <2>1. Batched' /\ (Told' <=> Told)
      BY <1>1, <1>2, BatchedKept
    <2> QED
      BY <1>2, <2>1 DEF BatchInv
  <1> HIDE DEF Kept
  <1>3. ASSUME UNCHANGED <<request, answer, member, size_read, count>>, Kept PROVE BatchInv'
    BY <1>1, <1>2, <1>3
  <1>4. CASE SkipLine
    <2>1. Kept
      BY <1>1, <1>4, ToldSkipLine, UntoldSkipLine DEF Kept
    <2>2. UNCHANGED <<request, answer, member, size_read, count>>
      BY <1>4 DEF SkipLine, input
    <2> QED
      BY <1>3, <2>1, <2>2
  <1>5. CASE OpenPart
    <2>1. Kept
      BY <1>1, <1>5, ToldOpenPart, UntoldOpenPart DEF Kept
    <2>2. UNCHANGED <<request, answer, member, size_read, count>>
      BY <1>5 DEF OpenPart, input
    <2> QED
      BY <1>3, <2>1, <2>2
  <1>6. CASE CloseBody
    <2>1. Kept
      BY <1>1, <1>6, ToldCloseBody, UntoldCloseBody DEF Kept
    <2>2. UNCHANGED <<request, answer, member, size_read, count>>
      BY <1>6 DEF CloseBody, input
    <2> QED
      BY <1>3, <2>1, <2>2
  <1>7. CASE NoBoundary
    <2>1. Kept
      BY <1>1, <1>7, ToldNoBoundary, UntoldNoBoundary DEF Kept
    <2>2. UNCHANGED <<request, answer, member, size_read, count>>
      BY <1>7 DEF NoBoundary, Abort
    <2> QED
      BY <1>3, <2>1, <2>2
  <1>8. CASE ReadRange \/ SkipHeader
    <2>1. Kept
      BY <1>1, <1>8, ToldHeader, UntoldHeader DEF Kept
    <2>2. UNCHANGED <<request, answer, member, size_read, count>>
      BY <1>8 DEF ReadRange, SkipHeader, input
    <2> QED
      BY <1>3, <2>1, <2>2
  <1>9. CASE EndHeaders
    <2>1. Kept
      BY <1>1, <1>9, ToldEndHeaders, UntoldEndHeaders DEF Kept
    <2>2. UNCHANGED <<request, answer, member, count>> /\ size_read' \in Nat
      BY <1>9 DEF EndHeaders, input
    <2> QED
      BY <1>1, <1>2, <2>1, <2>2
  <1>10. CASE HandMember
    <2>1. Kept /\ member' \in 1 .. Len(Members) + 1 /\ size_read' \in Nat
      BY <1>1, <1>10, ToldHandMember, UntoldHandMember DEF Kept
    <2>2. UNCHANGED <<request, answer, count>>
      BY <1>10 DEF HandMember, input
    <2> QED
      BY <1>1, <1>2, <2>1, <2>2
  <1>11. CASE WrongMember \/ WrongSize
    <2>1. Kept
      BY <1>1, <1>11, ToldWrongMember, ToldWrongSize, UntoldAborted DEF Kept
    <2>2. UNCHANGED <<request, answer, member, size_read, count>>
      BY <1>11 DEF WrongMember, WrongSize, Abort
    <2> QED
      BY <1>3, <2>1, <2>2
  <1>12. CASE EndChunk
    <2>1. Kept /\ count' \in Nat
      BY <1>1, <1>12, ToldEndChunk, UntoldEndChunk DEF Kept
    <2>2. UNCHANGED <<request, answer, member, size_read>>
      BY <1>12 DEF EndChunk, input
    <2> QED
      BY <1>1, <1>2, <2>1, <2>2
  <1>13. ~Receive /\ ~NoAnswer /\ ~CopyChunk
    BY <1>1 DEF Receive, NoAnswer, CopyChunk
  <1> QED
    BY <1>4, <1>5, <1>6, <1>7, <1>8, <1>9, <1>10, <1>11, <1>12, <1>13 DEF Next

\* Only the answer of the server changes the input of the reader.
LEMMA InputKept ==
  ASSUME Next, ~Receive
  PROVE  request' = request /\ answer' = answer /\ status' \in Statuses \ {"sent"}
  <1>1. CASE NoAnswer
    BY <1>1 DEF NoAnswer, Abort, Statuses
  <1>2. CASE SkipLine \/ OpenPart \/ CloseBody \/ NoBoundary
    BY <1>2 DEF SkipLine, OpenPart, CloseBody, NoBoundary, Abort, Statuses, input
  <1>3. CASE ReadRange \/ SkipHeader \/ EndHeaders
    BY <1>3 DEF ReadRange, SkipHeader, EndHeaders, Statuses, input
  <1>4. CASE CopyChunk \/ EndChunk
    BY <1>4 DEF CopyChunk, EndChunk, ChunkDone, Statuses, input
  <1>5. CASE HandMember \/ WrongMember \/ WrongSize
    BY <1>5 DEF HandMember, WrongMember, WrongSize, Abort, Statuses, input
  <1> QED
    BY <1>1, <1>2, <1>3, <1>4, <1>5 DEF Next

LEMMA NextInv ==
  ASSUME ReadInv, Next
  PROVE  ReadInv'
  <1>1. CASE Receive
    BY <1>1, ReceiveInv
  <1>2. CASE ~Receive
    <2>1. /\ request' = request /\ answer' = answer /\ status' # "sent"
          /\ request' \in Requests /\ status' \in Statuses
      BY <1>2, InputKept DEF ReadInv
    <2>2. ASSUME answer.code = 206 PROVE PartialInv'
      <3>1. (PlainInv \/ BatchInv) /\ status # "sent"
        BY <2>2 DEF ReadInv, PartialInv
      <3>2. PlainInv' \/ BatchInv'
        BY <3>1, PlainStep, BatchStep
      <3> QED
        BY <2>1, <3>2 DEF PartialInv
    <2> QED
      BY <2>1, <2>2 DEF ReadInv
  <1> QED
    BY <1>1, <1>2

LEMMA StutterInv ==
  ASSUME ReadInv, UNCHANGED vars
  PROVE  ReadInv'
  <1>1. /\ request' = request /\ answer' = answer /\ status' = status /\ body' = body
        /\ beg' = beg /\ end' = end /\ member' = member /\ size_read' = size_read
        /\ handed' = handed /\ count' = count
    BY DEF vars
  <1>2. Parts' = Parts /\ Count' = Count /\ Members' = Members /\ ChunkSize' = ChunkSize
    BY <1>1 DEF Parts, Count, Members, ChunkSize
  <1>3. /\ \A k, n : (Tiled(k, n) => Tiled(k, n)') /\ (Behind(k, n) => Behind(k, n)')
        /\ \A n : Passed(n) => Passed(n)'
    BY <1>1, TiledKept
  <1>4. Exact' = Exact /\ Unasked' = Unasked
    BY <1>1, <1>2 DEF Exact, Unasked, InMember
  <1>5. \A k : (AtBoundary(k) => AtBoundary(k)') /\ (AtChunk(k) => AtChunk(k)')
    BY <1>1 DEF AtBoundary, AtChunk, Left, Parts
  <1>6. \A k, d : AtHeader(k, d) => AtHeader(k, d)'
    BY <1>1 DEF AtHeader, Left, Parts
  <1>7. \A k : (Between(k) => Between(k)') /\ (Within(k) => Within(k)')
    BY <1>1, <1>2, <1>3, <1>4 DEF Between, Within
  <1>8. ToldInv => ToldInv'
    BY <1>1, <1>2, <1>4, <1>5, <1>6, <1>7 DEF ToldInv
  <1>9. /\ \A k : Seen(k) => Seen(k)'
        /\ FirstHanded => FirstHanded'
        /\ \A k, d : Left(Start(answer, k) + d) => (Left(Start(answer, k) + d))'
    BY <1>1, SeenKept DEF Left
  <1>10. UntoldInv => UntoldInv'
    <2>1. AtSecondByte => AtSecondByte'
      BY <1>1, <1>2, <1>9 DEF AtSecondByte
    <2> QED
      BY <1>1, <1>2, <1>5, <1>9, <2>1 DEF UntoldInv
  <1>11. PlainInv => PlainInv'
    BY <1>1, <1>2 DEF PlainInv
  <1>12. BatchInv => BatchInv'
    <2>1. Batched => Batched' /\ Told' = Told
      BY <1>1, <1>2 DEF Batched, Told
    <2> QED
      BY <1>8, <1>10, <2>1 DEF BatchInv
  <1>13. PartialInv => PartialInv'
    BY <1>1, <1>11, <1>12 DEF PartialInv
  <1>14. Fresh => Fresh'
    BY <1>1 DEF Fresh
  <1> QED
    BY <1>1, <1>13, <1>14 DEF ReadInv

\* What the reader knows of its place in the body, of the bytes it has passed and of
\* the members it has given bytes to fits together in every state.
THEOREM ReadInvariant == Spec => []ReadInv
  <1>1. Init => ReadInv
    BY DEF Init, ReadInv, Fresh, Statuses, NotAnswered
  <1>2. ReadInv /\ [Next \/ Terminated]_vars => ReadInv'
    <2> SUFFICES ASSUME ReadInv, [Next \/ Terminated]_vars PROVE ReadInv'
      OBVIOUS
    <2>1. Next \/ UNCHANGED vars
      BY DEF Terminated
    <2> QED
      BY <2>1, NextInv, StutterInv
  <1> QED
    BY <1>1, <1>2, PTL DEF Spec

\* When all parts have been passed every member that the file holds has its bytes.
LEMMA AllGiven ==
  ASSUME Batched, InFile(request), Passed(Count)
  PROVE  member = Len(Members) + 1
  <1>1. member \in 1 .. Len(Members) + 1 /\ Len(Members) \in Nat \ {0} /\ Count \in Nat
    BY BatchedFacts DEF Batched
  <1> SUFFICES ASSUME member \in 1 .. Len(Members) PROVE FALSE
    BY <1>1
  <1>2. /\ BeginOf(request, member) \in Nat /\ EndOf(request, member) \in Nat
        /\ BeginOf(request, member) < EndOf(request, member)
    BY BatchedFacts
  <1>3. EndOf(request, member) <= FileSize
    <2>1. member \in DOMAIN request.members
      BY RequestFacts DEF Batched, Members
    <2> QED
      BY <2>1 DEF InFile, EndOf
  <1>4. BeginOf(request, member) < FileSize
    BY <1>2, <1>3, HttpReadAssumption
  <1>5. PICK k \in 1 .. Count :
          Parts[k].first <= BeginOf(request, member) /\ BeginOf(request, member) <= Parts[k].last
    BY <1>4 DEF Batched, Facts, Found, Members, Parts, Count
  <1>6. /\ Parts[k].first \in Nat /\ SizeOf(Parts[k]) \in Nat
        /\ Parts[k].last = Parts[k].first + SizeOf(Parts[k]) - 1
    BY BatchedFacts
  <1>7. BeginOf(request, member) \in Parts[k].first .. Parts[k].first + SizeOf(Parts[k]) - 1
    BY <1>2, <1>5, <1>6
  <1>8. PICK m \in 1 .. member - 1 : InMember(BeginOf(request, member), m)
    BY <1>7 DEF Passed, Tiled
  <1>9. m \in 1 .. Len(Members) /\ m < member
    BY <1>1
  <1>10. EndOf(request, m) <= BeginOf(request, member) /\ EndOf(request, m) \in Nat
    BY <1>9, BatchedFacts
  <1> QED
    BY <1>2, <1>8, <1>10 DEF InMember

LEMMA ToldOk ==
  ASSUME Batched, Told, ToldInv, status = "ok"
  PROVE  OkMeansExact
  <1>1. Count \in Nat /\ member \in 1 .. Len(Members) + 1 /\ Len(Members) \in Nat
    BY BatchedFacts DEF Batched
  <1>2. Between(Count + 1)
    BY DEF ToldInv
  <1>3. Passed(Count)
    <2>1. PICK k : k = Count + 1
      OBVIOUS
    <2>2. Passed(k - 1)
      BY <1>2, <2>1 DEF Between
    <2>3. 1 .. k - 1 = 1 .. Count
      BY <1>1, <2>1
    <2> QED
      BY <2>2, <2>3 DEF Passed
  <1>4. Exact /\ Len(FlattenSeq(handed)) = count
    BY <1>2 DEF Between
  <1>5. Len(handed) = member - 1 /\ DOMAIN handed = 1 .. member - 1
    BY <1>4, LenProperties DEF Exact
  <1>6. \A k \in DOMAIN handed : handed[k] = Named(request.members[k])
    BY <1>4, <1>5 DEF Exact, Members
  <1>7. ASSUME InFile(request) PROVE Len(handed) = Len(request.members)
    <2>1. member = Len(Members) + 1
      BY <1>3, <1>7, AllGiven
    <2> QED
      BY <1>1, <1>5, <2>1 DEF Members
  <1>8. request.batch
    BY DEF Batched
  <1> QED
    BY <1>4, <1>6, <1>7, <1>8 DEF OkMeansExact

LEMMA UntoldOk ==
  ASSUME Batched, ~Told, UntoldInv, status = "ok"
  PROVE  OkMeansExact
  <1>1. /\ Count = 1 /\ SizeOf(Parts[1]) = 1 /\ member = 2 /\ BeginOf(request, 1) = 0
        /\ handed = <<handed[1]>> /\ Members[1].size = 1 /\ count = 1
        /\ handed[1] = BytesOf([first |-> Parts[1].first, last |-> Parts[1].first])
    BY DEF UntoldInv, Seen, FirstHanded
  <1>2. Single(request, answer)
    BY DEF Batched, Facts
  <1>3. Parts[1].first = 0
    BY <1>1, <1>2 DEF Single, Parts, Count
  <1>4. RangeOf(Members[1]) = [first |-> 0, last |-> 0]
    <2>1. Members[1].begin = 0
      BY <1>1 DEF BeginOf, Members
    <2> QED
      BY <1>1, <2>1 DEF RangeOf
  <1>5. handed[1] = Named(Members[1])
    BY <1>1, <1>3, <1>4 DEF Named
  <1> DEFINE h == handed[1]
             r == [first |-> 0, last |-> 0]
  <1>6. h \in Seq(Tokens) /\ Len(h) = 1
    <2>1. h = BytesOf(r) /\ r.first \in Int /\ r.last \in Int /\ r.first <= r.last + 1
      BY <1>1, <1>3
    <2>2. SizeOf(r) = 1
      BY DEF SizeOf
    <2> HIDE DEF r, h
    <2> QED
      BY <2>1, <2>2, BytesFacts
  <1>7. handed = <<h>>
    BY <1>1
  <1> HIDE DEF h, r
  <1>8. DOMAIN handed = {1} /\ Len(handed) = 1
    BY <1>7
  <1>9. \A k \in DOMAIN handed : handed[k] = Named(request.members[k])
    BY <1>5, <1>8 DEF Members
  <1>10. Len(FlattenSeq(handed)) = 1
    <2>1. handed \in Seq(Seq(Tokens)) /\ handed # <<>>
      BY <1>6, <1>7, <1>8
    <2>2. FlattenSeq(handed) = Flattened(handed)[1]
      BY <1>8, <2>1, FlattenSeqIsLast
    <2>3. Flattened(handed)[1] = handed[1]
      BY <1>8, <2>1, FlattenedDefined
    <2> QED
      BY <1>6, <2>2, <2>3 DEF h
  <1>11. ASSUME InFile(request) PROVE Len(handed) = Len(request.members)
    <2>1. Len(Members) \in Nat \ {0}
      BY BatchedFacts
    <2>2. PICK l : l = Len(Members)
      OBVIOUS
    <2>3. ~(l > 1)
      BY <1>1, <1>2, <1>11, <2>2 DEF Single, Parts, Count, Members
    <2>4. l = 1
      BY <2>1, <2>2, <2>3
    <2> QED
      BY <1>8, <2>2, <2>4 DEF Members
  <1>12. request.batch
    BY DEF Batched
  <1> QED
    BY <1>1, <1>9, <1>10, <1>11, <1>12 DEF OkMeansExact

LEMMA PlainOk ==
  ASSUME PlainInv, status = "ok"
  PROVE  OkMeansExact
  <1>1. /\ ~request.batch /\ request \in Requests /\ Facts(request, answer)
        /\ handed = <<BytesOf(Parts[1])>> /\ count = SizeOf(Parts[1])
    BY DEF PlainInv
  <1>2. ~answer.multipart /\ Parts[1] = Cut(RangeOf(request.members[1]))
    BY <1>1 DEF Facts, Plain, Parts
  <1>3. Len(BytesOf(Parts[1])) = SizeOf(Parts[1])
    BY <1>1, <1>2, WholePart
  <1>4. handed[1] = BytesOf(Parts[1])
    BY <1>1
  <1> QED
    BY <1>1, <1>2, <1>3, <1>4 DEF OkMeansExact

LEMMA ReadOk == ReadInv => OkMeansExact
  <1> SUFFICES ASSUME ReadInv, status = "ok", answer.code = 206 PROVE OkMeansExact
    BY DEF OkMeansExact
  <1>1. PlainInv \/ BatchInv
    BY DEF ReadInv, PartialInv
  <1>2. ASSUME BatchInv PROVE OkMeansExact
    <2>1. Batched /\ (Told => ToldInv) /\ (~Told => UntoldInv)
      BY <1>2 DEF BatchInv
    <2> QED
      BY <2>1, ToldOk, UntoldOk
  <1> QED
    BY <1>1, <1>2, PlainOk

\* A read that returns has given the members, or the caller of a plain read, their
\* own bytes and counted just these, whatever the server made of the ranges: what
\* the callback compares (sync_command.cc:386-394) is enough.
THEOREM OkIsExact == Spec => []OkMeansExact
  BY ReadInvariant, ReadOk, PTL

\* What the only member given bytes from an untold part got, when the parts are in order.
LEMMA UntoldBytes ==
  ASSUME handed = <<>> \/ FirstHanded, answer.ordered, InFile(request)
  PROVE  \A k \in DOMAIN handed : handed[k] = Named(request.members[k])
  <1>1. CASE handed = <<>>
    BY <1>1
  <1>2. CASE FirstHanded
    <2>1. handed = <<handed[1]>> /\ handed[1] = Named(Members[1])
      BY <1>2 DEF FirstHanded
    <2>2. DOMAIN handed = {1}
      BY <2>1
    <2> QED
      BY <2>1, <2>2 DEF Members
  <1> QED
    BY <1>1, <1>2

LEMMA ToldBytes ==
  ASSUME Batched, ToldInv, InFile(request), status \in Statuses \ {"sent"}
  PROVE  \A k \in DOMAIN handed : handed[k] = Named(request.members[k])
  <1>1. Exact
    <2>1. CASE status = "boundary" \/ status = "header" \/ status = "ok"
      BY <2>1 DEF ToldInv, Between
    <2>2. CASE status = "chunk"
      BY <2>2 DEF ToldInv, Within
    <2>3. CASE status = "aborted"
      BY <2>3 DEF ToldInv
    <2> QED
      BY <2>1, <2>2, <2>3 DEF Statuses
  <1>2. DOMAIN handed = 1 .. member - 1
    BY <1>1, LenProperties DEF Exact
  <1> QED
    BY <1>1, <1>2 DEF Exact, Members

LEMMA ReadBytes == ReadInv => NoForeignBytes
  <1> SUFFICES ASSUME ReadInv, answer.code = 206, InFile(request), request.batch,
                      answer.known \/ answer.ordered
               PROVE  \A k \in DOMAIN handed : handed[k] = Named(request.members[k])
    BY DEF NoForeignBytes
  <1>1. Batched /\ (Told => ToldInv) /\ (~Told => UntoldInv) /\ status \in Statuses \ {"sent"}
    BY DEF ReadInv, PartialInv, PlainInv, BatchInv
  <1>2. CASE Told
    BY <1>1, <1>2, ToldBytes
  <1>3. CASE ~Told
    <2>1. answer.ordered /\ UntoldInv
      BY <1>1, <1>3 DEF Told
    <2>2. (\E k : Seen(k)) \/ FirstHanded \/ handed = <<>>
      <3>1. CASE status = "boundary" \/ status = "header"
        BY <2>1, <3>1 DEF UntoldInv, AtSecondByte
      <3>2. CASE status \in {"chunk", "ok", "aborted"}
        BY <2>1, <3>2 DEF UntoldInv
      <3> QED
        BY <1>1, <3>1, <3>2 DEF Statuses
    <2>3. handed = <<>> \/ FirstHanded
      BY <2>2 DEF Seen
    <2> QED
      BY <2>1, <2>3, UntoldBytes
  <1> QED
    BY <1>2, <1>3

\* Members are written as the parts are read; still no state, not even one of a read
\* that fails later, has given a member other bytes than its own, unless the server
\* both hides where the parts lie and sends them out of order.
THEOREM NoBytesAreForeign == Spec => []NoForeignBytes
  BY ReadInvariant, ReadBytes, PTL

LEMMA ReadAccepts == ReadInv => OrderedAnswersAccepted
  <1> SUFFICES ASSUME ReadInv, status = "aborted", answer.code = 206,
                      InFile(request), answer.ordered, answer.known
               PROVE  \E k \in DOMAIN answer.parts :
                        \E o \in answer.parts[k].first .. answer.parts[k].last :
                          \A j \in DOMAIN request.members :
                            o \notin Asked(request)[j].first .. Asked(request)[j].last
    BY DEF OrderedAnswersAccepted
  <1>1. Batched /\ ToldInv
    BY DEF ReadInv, PartialInv, PlainInv, BatchInv, Told
  <1>2. Unasked
    BY <1>1 DEF ToldInv
  <1>a. PICK k \in 1 .. Count :
          \E o \in Parts[k].first .. Parts[k].last :
            \A m \in 1 .. Len(Members) : ~InMember(o, m)
    BY <1>2 DEF Unasked
  <1>3. PICK o \in Parts[k].first .. Parts[k].last :
          \A m \in 1 .. Len(Members) : ~InMember(o, m)
    BY <1>a
  <1>4. /\ DOMAIN request.members = 1 .. Len(Members) /\ DOMAIN answer.parts = 1 .. Count
        /\ o \in Int
    <2>1. request \in Requests /\ IsAnswer(answer)
      BY <1>1, BatchedFacts DEF Batched
    <2>2. DOMAIN answer.parts = 1 .. Count
      BY <2>1, LenProperties DEF IsAnswer, Count, Parts
    <2> QED
      BY <2>1, <2>2, RequestFacts DEF Members
  <1>5. ASSUME NEW j \in DOMAIN request.members
        PROVE  o \notin Asked(request)[j].first .. Asked(request)[j].last
    <2>1. /\ Asked(request)[j].first = Members[j].begin
          /\ Asked(request)[j].last = Members[j].begin + Members[j].size - 1
      BY DEF Asked, RangeOf, Members
    <2>2. /\ Members[j].begin \in Nat /\ Members[j].size \in Nat
          /\ ~(Members[j].begin <= o /\ o < Members[j].begin + Members[j].size)
      BY <1>1, <1>3, <1>4, BatchedFacts DEF InMember, BeginOf, EndOf, Members
    <2> QED
      BY <1>4, <2>1, <2>2
  <1> QED
    BY <1>3, <1>4, <1>5 DEF Parts

\* The answers that the reader counts on, parts in order that say where they lie and
\* hold nothing that was not asked for, are never turned down.
THEOREM ExpectedAnswersAreAccepted == Spec => []OrderedAnswersAccepted
  BY ReadInvariant, ReadAccepts, PTL
=============================================================================
