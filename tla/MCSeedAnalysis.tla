--------------------------- MODULE MCSeedAnalysis ---------------------------
(* Blocks of two bytes; a few sources with collisions, repeated blocks and a *)
(* partial last block against every seed of five or six bytes over {1, 2},    *)
(* long enough for two threads.  Short seeds run on one thread.               *)
EXTENDS SeedAnalysis, Sequences

BlockSize == 2
Bytes == {1, 2}

\* The bytes a block or window holds, padded with zeros after the end.
BytesFrom(s, o) ==
  [j \in 1 .. BlockSize |-> IF o + j <= Len(s) THEN s[o + j] ELSE 0]

Contents == [1 .. BlockSize -> Bytes \union {0}]

\* A sum of the bytes: order is lost, so <<1, 2>> and <<2, 1>> collide.
MCWeak == [v \in Contents |-> v[1] + v[2]]

\* Two words: the bits of the sums 2 and 3 share one.
MCWord == [w \in 0 .. 4 |-> IF w \in 2 .. 3 THEN "low" ELSE "high"]

Sources == { <<1, 2, 2, 1, 1>>, <<1, 1, 1, 2, 2, 2>>, <<2, 1, 2, 1>> }

Seeds == UNION {[1 .. n -> Bytes] : n \in 5 .. 6} \union {<<>>, <<1>>, <<2, 1, 2>>}

Input(src, seed, t) ==
  LET n == BlockCount(Len(src), BlockSize) IN
  [ block_count |-> n,
    blocks      |-> [i \in 0 .. n - 1 |-> BytesFrom(src, i * BlockSize)],
    seed_size   |-> Len(seed),
    windows     |-> [o \in 0 .. Len(seed) - 1 |-> BytesFrom(seed, o)],
    block_size  |-> BlockSize,
    threads     |-> t ]

MCInputs == {Input(src, seed, t) : src \in Sources, seed \in Seeds, t \in 1 .. 2}
=============================================================================
