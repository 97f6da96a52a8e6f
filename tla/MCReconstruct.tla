--------------------------- MODULE MCReconstruct ---------------------------
(* Blocks of two bytes, up to four blocks on one or two threads, batches of *)
(* one to three blocks, compressed or not, with the data file of the source  *)
(* or with that of another version of it, and every assignment of seed       *)
(* offsets that module SeedReuse allows.                                     *)
EXTENDS Reconstruct
LOCAL INSTANCE SequencesExt

BlockSize == 2

Padded(s, o) == [j \in 1 .. BlockSize |-> IF o + j <= Len(s) THEN s[o + j] ELSE 0]

\* Frames of one or two cells: blocks of equal bytes compress better.
Frame(bytes) ==
  LET n == IF Len(bytes) = 2 /\ bytes[1] # bytes[2] THEN 2 ELSE 1
  IN [j \in 1 .. n |-> <<bytes, j, n>>]

Frames(src) ==
  [i \in 1 .. BlockCount(Len(src), BlockSize) |->
     Frame(SubSeq(src, (i - 1) * BlockSize + 1, Min2(i * BlockSize, Len(src))))]

DataFile(src, compressed) ==
  IF compressed THEN FlattenSeq(Frames(src))
  ELSE [j \in 1 .. Len(src) |-> <<<<src[j]>>, 1, 1>>]

CompressedSizes(src) ==
  [i \in 0 .. BlockCount(Len(src), BlockSize) - 1 |-> Len(Frames(src)[i + 1])]

\* The offsets at which the analysis looks (SeedAnalysis: Examinable) and finds
\* the padded contents of block i; every choice of them is sound.
OffsetsFor(src, seed, i) ==
  {-1} \union {o \in 0 .. (BlockCount(Len(seed), BlockSize) - 1) * BlockSize :
                 Padded(seed, o) = Padded(src, i * BlockSize)}

SoundMaps(src, seed) ==
  LET ids == 0 .. BlockCount(Len(src), BlockSize) - 1
  IN {m \in [ids -> -1 .. Len(seed)] : \A i \in ids : m[i] \in OffsetsFor(src, seed, i)}

InputsFor(cases) ==
  UNION { { [ source |-> c.source, size |-> Len(c.source), seed |-> c.seed,
              data |-> DataFile(c.data, z), old_output |-> old,
              genuine |-> c.data = c.source,
              block_size |-> BlockSize,
              compressed_sizes |-> CompressedSizes(c.source),
              compressed |-> z, seed_offsets |-> m, blocks_per_batch |-> b, threads |-> t ] :
              m \in SoundMaps(c.source, c.seed), z \in BOOLEAN, b \in 0 .. 3, t \in 1 .. 2,
              old \in {<<>>, c.source, <<3, 3, 3, 3, 3, 3, 3, 3>>} } : c \in cases }

Case(src, seed, data) == [source |-> src, seed |-> seed, data |-> data]

\* Sources and seeds that hold zero bytes.
ZeroInputs == InputsFor({
  Case(<<1, 0, 2, 2>>, <<2, 2, 1>>, <<1, 0, 2, 2>>),
  Case(<<2, 2, 1>>, <<1, 0, 2>>, <<2, 2, 1>>) })

MCInputs == ZeroInputs \union InputsFor({
  Case(<<1, 2, 2, 1, 1>>, <<2, 1, 2, 2, 1>>, <<1, 2, 2, 1, 1>>),
  Case(<<1, 1, 2, 2, 2, 1>>, <<2, 2, 1, 1>>, <<1, 1, 2, 2, 2, 1>>),
  Case(<<1, 1, 2, 2, 2, 1, 2>>, <<2, 2, 1>>, <<1, 1, 2, 2, 2, 1, 2>>),
  Case(<<2, 1, 1>>, <<1, 2, 1>>, <<2, 1, 1>>),
  Case(<<>>, <<1>>, <<>>),
  Case(<<1, 2, 2, 1, 1>>, <<2, 1>>, <<1, 1, 2, 1>>),
  Case(<<1, 1, 2, 1>>, <<2, 1>>, <<1, 2, 2, 1, 1>>),
  Case(<<1, 2, 1, 2>>, <<2, 1>>, <<1, 2>>) })
=============================================================================
