------------------------- MODULE Reconstruct_proofs -------------------------
(***************************************************************************)
(* What rebuilding the source guarantees for every source, seed, data      *)
(* file, old output, block size, batch size and number of threads.         *)
(*                                                                         *)
(* LayoutInv holds whatever the data file contains: what is queued says    *)
(* where it belongs, and a stream stands where the loop is.  ContentInv    *)
(* holds with the data file of the source: each block that a thread has    *)
(* passed is right in the output already, or still queued.  AccountInv     *)
(* says of which blocks the counters are the sums.                         *)
(***************************************************************************)
EXTENDS Reconstruct, RangesAndFiles_proofs, FiniteSetTheorems

Indices == IndicesOf(in)
BlockStart(i) == i * in.block_size

\* The largest batch: a batch size of zero works like one.
Limit == IF in.blocks_per_batch = 0 THEN 1 ELSE in.blocks_per_batch

\* How the retrieval of block i is queued, whoever queues it.
Queued(i) ==
  [ block_index |-> i,
    begin |-> IF in.compressed THEN compressed_file_offsets[i] ELSE BlockStart(i),
    size  |-> IF in.compressed THEN in.compressed_sizes[i]
              ELSE Min2(in.block_size, in.size - BlockStart(i)),
    to    |-> BlockStart(i) ]

Infos == {Queued(i) : i \in Indices}

Typed ==
  /\ in \in Inputs
  /\ status \in {"running", "verifying", "ok", "aborted", "stuck"}
  /\ cause \in {"none", "seed block size", "data block size", "not compressed", "hash"}
  /\ output \in Bytes
  /\ Len(output) = in.size
  /\ pc \in [Threads -> Labels]
  /\ offset \in [Threads -> Nat]
  /\ tellp \in [Threads -> Nat]
  /\ batch \in [Threads -> Seq(Infos)]
  /\ member \in [Threads -> Nat]
  /\ buffer \in [Threads -> Cells]
  /\ reused \in Nat /\ downloaded \in Nat /\ decompressed \in Nat /\ progress \in Nat

\* The loop variable is the first byte of a block, in or behind the chunk.
OffsetOK(t) ==
  /\ offset[t] = BlockStart(Block(t))
  /\ Beg(Call, t) <= offset[t]
  /\ pc[t] \in {"open", "threw"} => offset[t] = Beg(Call, t)
  /\ pc[t] = "done" => ChunkEnd(t) <= offset[t]
  /\ pc[t] = "loop" /\ offset[t] < ChunkEnd(t) => tellp[t] = offset[t]

\* Before the end of its chunk a thread flushes right after it has queued a block.
BatchOK(t) ==
  /\ Len(batch[t]) <= Limit
  /\ pc[t] \in {"open", "done", "threw"} => batch[t] = <<>>
  /\ pc[t] = "loop" => Len(batch[t]) < Limit
  /\ pc[t] = "flush" =>
       /\ member[t] \in 1 .. Len(batch[t])
       /\ offset[t] < ChunkEnd(t) =>
            batch[t][Len(batch[t])].to + in.block_size = offset[t]

LayoutInv == Typed /\ \A t \in Threads : OffsetOK(t) /\ BatchOK(t)

\* Block i of the output is block i of the source.
BlockRight(i) ==
  \A j \in 1 .. ExpectedSize(i) : output[BlockStart(i) + j] = in.source[BlockStart(i) + j]

\* The flush of thread t has not come to block i yet.
Waiting(t, i) ==
  \E k \in 1 .. Len(batch[t]) :
    batch[t][k].block_index = i /\ (pc[t] = "flush" => member[t] <= k)

Covered(t) ==
  \A i \in Indices :
    Beg(Call, t) <= BlockStart(i) /\ BlockStart(i) < offset[t] /\ BlockStart(i) < ChunkEnd(t)
      => BlockRight(i) \/ Waiting(t, i)

OverWhenVerified ==
  status \in {"verifying", "ok"} \/ cause = "hash" =>
    \A t \in Threads : pc[t] \in {"done", "threw"}

\* Why the process may have aborted.
CauseOK ==
  /\ status # "aborted" <=> cause = "none"
  /\ cause = "hash" => output # in.source
  /\ cause \notin {"none", "hash"} => ~ZeroFree

ContentInv == in.genuine => (\A t \in Threads : Covered(t)) /\ OverWhenVerified /\ CauseOK

-----------------------------------------------------------------------------
(* Facts about the input. *)

\* What the assumptions say of the input of the run.
LEMMA InputFacts ==
  ASSUME in \in Inputs
  PROVE  /\ in.source \in Bytes /\ in.seed \in Bytes /\ in.old_output \in Bytes
         /\ in.data \in Cells
         /\ in.size = Len(in.source)
         /\ in.size \in Nat
         /\ in.block_size \in Nat \ {0}
         /\ in.compressed_sizes \in [Indices -> Nat]
         /\ in.seed_offsets \in [Indices -> Nat \union {-1}]
         /\ in.threads \in Nat \ {0}
         /\ in.blocks_per_batch \in Nat
         /\ in.compressed \in BOOLEAN
         /\ Limit \in Nat \ {0}
         /\ IsCall(Call) /\ Call.overlap = 0 /\ Call.size = in.size /\ Call.block = in.block_size
  <1>1. /\ in.source \in Bytes /\ in.seed \in Bytes /\ in.old_output \in Bytes
        /\ in.data \in Cells
        /\ in.size = Len(in.source)
        /\ in.block_size \in Nat \ {0}
        /\ in.compressed_sizes \in [Indices -> Nat]
        /\ in.seed_offsets \in [Indices -> Nat \union {-1}]
        /\ in.threads \in Nat \ {0}
        /\ in.blocks_per_batch \in Nat
        /\ in.compressed \in BOOLEAN
    BY InputsAssumption DEF Indices
  <1>2. in.size \in Nat
    BY <1>1, LenProperties DEF Bytes
  <1>3. Limit \in Nat \ {0}
    BY <1>1 DEF Limit
  <1> QED
    BY <1>1, <1>2, <1>3 DEF IsCall, Call

\* Threads are numbers, and their chunks lie inside the source.
LEMMA ChunkInside ==
  ASSUME in \in Inputs
  PROVE  /\ Threads \subseteq Nat
         /\ \A t \in Threads : /\ Beg(Call, t) \in Nat
                               /\ ChunkEnd(t) \in Nat
                               /\ ChunkEnd(t) <= in.size
                               /\ Beg(Call, t) = BlockStart(IndexAt(Beg(Call, t)))
  <1>1. ThreadCount(Call) \in Nat
    BY InputFacts, ChunkFacts
  <1>2. Threads \subseteq Nat
    BY <1>1 DEF Threads, ThreadIds
  <1>3. ASSUME NEW t \in Threads
        PROVE  /\ Beg(Call, t) \in Nat
               /\ ChunkEnd(t) \in Nat
               /\ ChunkEnd(t) <= in.size
               /\ Beg(Call, t) = BlockStart(IndexAt(Beg(Call, t)))
    <2>1. t \in Nat
      BY <1>2
    <2>2. PICK m \in Nat : Beg(Call, t) = m * in.block_size
      BY <2>1, InputFacts, BegIsAligned
    <2>3. IndexAt(Beg(Call, t)) = m
      BY <2>2, InputFacts, DivOfMultiple DEF IndexAt
    <2> QED
      BY <2>1, <2>2, <2>3, InputFacts, RangeFacts DEF ChunkEnd, BlockStart
  <1> QED
    BY <1>2, <1>3

\* The size a block is checked against is what the source has of it.
LEMMA BlockFacts ==
  ASSUME in \in Inputs, NEW i \in Indices
  PROVE  /\ i \in Nat
         /\ BlockStart(i) \in Nat
         /\ BlockStart(i) < in.size
         /\ ExpectedSize(i) = Min2(in.block_size, in.size - BlockStart(i))
         /\ ExpectedSize(i) \in Nat \ {0}
         /\ ExpectedSize(i) <= in.block_size
         /\ BlockStart(i) + ExpectedSize(i) <= in.size
  <1>1. in.size \in Nat /\ in.block_size \in Nat \ {0}
    BY InputFacts
  <1>2. i \in 0 .. BlockCount(in.size, in.block_size) - 1
    BY DEF Indices, IndicesOf
  <1> DEFINE n == in.size
             b == in.block_size
             start == i * b
  <1>3. /\ i \in Nat /\ start \in Nat /\ start < n
        /\ ExpectedSize(i) = Min2(b, n - start)
    BY <1>1, <1>2, SizeOfBlock DEF ExpectedSize, Blocks
  <1>4. BlockStart(i) = start
    BY DEF BlockStart
  <1> HIDE DEF n, b, start
  <1> QED
    BY <1>1, <1>3, <1>4 DEF Min2, n, b

\* An aligned offset inside the source is that of a block.
LEMMA OffsetHasBlock ==
  ASSUME in \in Inputs, NEW o \in Nat, o = BlockStart(IndexAt(o)), o < in.size
  PROVE  IndexAt(o) \in Indices
  <1>1. in.size \in Nat /\ in.block_size \in Nat \ {0}
    BY InputFacts
  <1>2. /\ Blocks \in Nat
        /\ in.size <= Blocks * in.block_size
    BY <1>1, CeilDivBounds DEF Blocks, BlockCount
  <1>3. IndexAt(o) \in Nat
    BY <1>1, DivBounds DEF IndexAt
  <1>4. IndexAt(o) * in.block_size < Blocks * in.block_size
    BY <1>1, <1>2 DEF BlockStart
  <1>5. IndexAt(o) < Blocks
    BY <1>1, <1>2, <1>3, <1>4, TimesCancels
  <1> QED
    BY <1>2, <1>3, <1>5 DEF Indices, IndicesOf, Blocks

\* The next block starts one block later.
LEMMA NextBlockStart ==
  ASSUME in \in Inputs, NEW i \in Nat
  PROVE  /\ BlockStart(i) \in Nat
         /\ IndexAt(BlockStart(i)) = i
         /\ BlockStart(i + 1) = BlockStart(i) + in.block_size
         /\ IndexAt(BlockStart(i) + in.block_size) = i + 1
  <1>1. in.block_size \in Nat \ {0}
    BY InputFacts
  <1>2. (i + 1) * in.block_size = i * in.block_size + in.block_size
    BY <1>1, NextMultiple
  <1>3. (i * in.block_size) \div in.block_size = i
    BY <1>1, DivOfMultiple
  <1>4. ((i + 1) * in.block_size) \div in.block_size = i + 1
    BY <1>1, DivOfMultiple
  <1>5. i * in.block_size \in Nat
    BY <1>1
  <1> QED
    BY <1>2, <1>3, <1>4, <1>5 DEF IndexAt, BlockStart

\* The offsets of the frames are the numbers their definition says.
LEMMA FrameStartsType ==
  ASSUME NEW x \in Inputs
  PROVE  FrameStarts(x) \in [IndicesOf(x) -> Nat]
  <1> DEFINE count == BlockCount(x.size, x.block_size)
             s == x.compressed_sizes
  <1>1. IndicesOf(x) = 0 .. count - 1
    BY DEF IndicesOf
  <1>2. s \in [0 .. count - 1 -> Nat]
    BY <1>1, InputsAssumption
  <1>3. count \in Nat
    <2>1. x.size \in Nat /\ x.block_size \in Nat \ {0}
      BY InputsAssumption, LenProperties DEF Bytes
    <2> QED
      BY <2>1, CeilDivBounds DEF BlockCount
  <1>4. FrameStarts(x) = StartsOf(count, s)
    BY <1>1 DEF FrameStarts, StartsOf
  <1> HIDE DEF count, s
  <1> QED
    BY <1>1, <1>2, <1>3, <1>4, StartsDefined

\* What is queued for a block.
LEMMA QueuedFacts ==
  ASSUME in \in Inputs, NEW i \in Indices
  PROVE  /\ Queued(i).block_index = i
         /\ Queued(i).to = BlockStart(i)
         /\ Queued(i).begin \in Nat
         /\ Queued(i).size \in Nat
         /\ Queued(i) \in Infos
  <1>1. compressed_file_offsets \in [Indices -> Nat]
    BY FrameStartsType DEF compressed_file_offsets, Indices
  <1>2. in.compressed_sizes \in [Indices -> Nat]
    BY InputFacts
  <1>3. BlockStart(i) \in Nat /\ Min2(in.block_size, in.size - BlockStart(i)) \in Nat
    BY BlockFacts
  <1>4. Queued(i).begin \in Nat
    BY <1>1, <1>3 DEF Queued
  <1>5. Queued(i).size \in Nat
    BY <1>2, <1>3 DEF Queued
  <1> QED
    BY <1>4, <1>5 DEF Queued, Infos

\* A step that keeps the input keeps everything that is defined from it.
LEMMA SameInput ==
  ASSUME in' = in
  PROVE  /\ Call' = Call /\ Threads' = Threads /\ Indices' = Indices /\ Infos' = Infos
         /\ Limit' = Limit
         /\ \A t : Beg(Call, t)' = Beg(Call, t) /\ ChunkEnd(t)' = ChunkEnd(t)
         /\ \A i : BlockStart(i)' = BlockStart(i) /\ ExpectedSize(i)' = ExpectedSize(i)
         /\ \A o : IndexAt(o)' = IndexAt(o)
  <1>1. Call' = Call
    BY DEF Call
  <1>2. compressed_file_offsets' = compressed_file_offsets /\ Indices' = Indices
    BY DEF compressed_file_offsets, Indices
  <1>3. \A i : BlockStart(i)' = BlockStart(i)
    BY DEF BlockStart
  <1>4. \A i : Queued(i)' = Queued(i)
    BY <1>2, <1>3 DEF Queued
  <1>5. Infos' = Infos
    BY <1>2, <1>4 DEF Infos
  <1>6. \A i : ExpectedSize(i)' = ExpectedSize(i)
    BY DEF ExpectedSize, Blocks
  <1> QED
    BY <1>1, <1>2, <1>3, <1>5, <1>6 DEF Threads, Limit, ChunkEnd, IndexAt

-----------------------------------------------------------------------------
(* What a thread has in its hands. *)

\* In its loop: the block at its offset, and its stream at the same place.
LEMMA LoopFacts ==
  ASSUME LayoutInv, NEW t \in Threads, InLoop(t)
  PROVE  /\ Block(t) \in Indices
         /\ offset[t] = BlockStart(Block(t))
         /\ tellp[t] = BlockStart(Block(t))
         /\ RetrievalInfo(t) = Queued(Block(t))
         /\ offset[t] + in.block_size \in Nat
         /\ offset[t] + in.block_size = BlockStart(Block(t) + 1)
         /\ IndexAt(offset[t] + in.block_size) = Block(t) + 1
  <1>1. /\ in \in Inputs /\ offset[t] \in Nat /\ pc[t] = "loop" /\ offset[t] < ChunkEnd(t)
        /\ offset[t] = BlockStart(Block(t)) /\ tellp[t] = offset[t]
    BY DEF LayoutInv, Typed, OffsetOK, InLoop, At
  <1>2. ChunkEnd(t) \in Nat /\ ChunkEnd(t) <= in.size /\ in.size \in Nat
    BY <1>1, ChunkInside, InputFacts
  <1>3. offset[t] < in.size
    BY <1>1, <1>2
  <1>4. Block(t) \in Indices
    BY <1>1, <1>3, OffsetHasBlock DEF Block
  <1>5. RetrievalInfo(t) = Queued(Block(t))
    BY <1>1 DEF RetrievalInfo, Queued
  <1>6. Block(t) \in Nat /\ in.block_size \in Nat
    BY <1>1, <1>4, BlockFacts, InputFacts
  <1>7. /\ BlockStart(Block(t) + 1) = BlockStart(Block(t)) + in.block_size
        /\ IndexAt(BlockStart(Block(t)) + in.block_size) = Block(t) + 1
    BY <1>1, <1>6, NextBlockStart
  <1> QED
    BY <1>1, <1>4, <1>5, <1>6, <1>7

\* The seed's copy of the block.
LEMMA SeedFacts ==
  ASSUME LayoutInv, NEW t \in Threads, InLoop(t), FoundInSeed(t)
  PROVE  /\ in.seed_offsets[Block(t)] \in Nat
         /\ SeedBytes(t) \in Bytes
  <1>1. /\ in.seed_offsets \in [Indices -> Nat \union {-1}] /\ in.block_size \in Nat
        /\ in.seed \in Seq(Int)
    BY InputFacts DEF LayoutInv, Typed, Bytes
  <1>2. in.seed_offsets[Block(t)] \in Nat
    BY <1>1, LoopFacts DEF FoundInSeed, kInvalidOffset
  <1> QED
    BY <1>1, <1>2, ReadAtFacts DEF SeedBytes, Bytes

\* While it flushes: what was queued for some block, and what arrives for it.
LEMMA FlushFacts ==
  ASSUME LayoutInv, NEW t \in Threads, At(t, "flush")
  PROVE  /\ \E i \in Indices : Info(t) = Queued(i)
         /\ member[t] \in 1 .. Len(batch[t])
         /\ ReadAt(in.data, Info(t).begin, Info(t).size) \in Cells
         /\ ReadCount(t) \in Nat
         /\ ReadCount(t) <= Info(t).size
         /\ Received(t) \in Cells
         /\ Payload(t) \in Cells
         /\ Len(Payload(t)) = Info(t).size
         /\ \A j \in 1 .. ReadCount(t) :
              Payload(t)[j] = ReadAt(in.data, Info(t).begin, Info(t).size)[j]
         /\ Decodes(t) => Decoded(t) \in Bytes
  <1> DEFINE C == (Bytes \ {<<>>}) \X Nat \X Nat
             got == ReadAt(in.data, Info(t).begin, Info(t).size)
             z == Info(t).size
             n == IF Len(buffer[t]) < z THEN z ELSE Len(buffer[t])
  <1>1. /\ in \in Inputs /\ batch[t] \in Seq(Infos) /\ buffer[t] \in Seq(C)
        /\ member[t] \in 1 .. Len(batch[t])
    BY DEF LayoutInv, Typed, BatchOK, At, Cells
  <1>2. PICK i \in Indices : Info(t) = Queued(i)
    BY <1>1, ElementOfSeq DEF Info, Infos
  <1>3. Info(t).begin \in Nat /\ z \in Nat
    BY <1>1, <1>2, QueuedFacts
  <1>4. in.data \in Seq(C)
    BY <1>1, InputFacts DEF Cells
  <1>5. ZeroCell \in C
    <2>1. <<0>> \in Seq(Int) /\ <<0>> # <<>>
      OBVIOUS
    <2> QED
      BY <2>1 DEF ZeroCell, Bytes
  <1> HIDE DEF C, z
  <1>6. /\ got \in Seq(C) /\ Len(got) \in Nat /\ Len(got) <= z
        /\ \A j \in 1 .. Len(got) : got[j] \in C
    <2>1. got \in Seq(C)
      BY <1>3, <1>4, ReadAtFacts DEF z
    <2>2. Len(got) <= z
      <3>1. Len(in.data) \in Nat /\ z \in Nat /\ Info(t).begin \in Nat
        BY <1>3, <1>4, LenProperties
      <3>2. Len(got) = IF Info(t).begin + z <= Len(in.data) THEN z
                       ELSE IF Info(t).begin <= Len(in.data) THEN Len(in.data) - Info(t).begin
                       ELSE 0
        BY <1>3, <1>4, ReadAtFacts DEF z
      <3> QED
        BY <3>1, <3>2
    <2> HIDE DEF got
    <2> QED
      BY <2>1, <2>2, LenProperties
  <1> HIDE DEF got
  <1>7. /\ n \in Nat /\ z <= n /\ Len(buffer[t]) \in Nat
        /\ \A j \in 1 .. Len(buffer[t]) : buffer[t][j] \in C
    BY <1>1, <1>3, LenProperties
  <1> DEFINE cell(j) == IF j <= Len(got) THEN got[j]
                        ELSE IF j <= Len(buffer[t]) THEN buffer[t][j] ELSE ZeroCell
             f == [j \in 1 .. n |-> cell(j)]
  <1>8. Received(t) = f
    BY DEF Received, got, z
  <1> HIDE DEF n
  <1>9. ASSUME NEW j \in 1 .. n PROVE cell(j) \in C
    BY <1>5, <1>6, <1>7
  <1>10. f \in [1 .. n -> C]
    <2> HIDE DEF cell
    <2> QED
      BY <1>9
  <1>11. f \in Seq(C) /\ Len(f) = n
    <2> HIDE DEF f
    <2> QED
      BY <1>7, <1>10, FunctionIsSeq
  <1>12. \A j \in 1 .. Len(got) : f[j] = got[j]
    BY <1>3, <1>6, <1>7
  <1>13. \A j \in 1 .. z : f[j] \in C
    BY <1>3, <1>7, <1>10
  <1> HIDE DEF f
  <1>14. /\ SubSeq(f, 1, z) \in Seq(C)
         /\ Len(SubSeq(f, 1, z)) = z
         /\ \A j \in 1 .. z : SubSeq(f, 1, z)[j] = f[j]
    BY <1>3, <1>13, SubSeqProperties
  <1>15. Payload(t) = SubSeq(f, 1, z)
    BY <1>8 DEF Payload, z
  <1>16. \A j \in 1 .. Len(got) : Payload(t)[j] = got[j]
    BY <1>3, <1>6, <1>12, <1>14, <1>15
  <1>17. ASSUME Decodes(t) PROVE Decoded(t) \in Bytes
    <2>1. \A j \in 1 .. z : Payload(t)[j][1] \in Bytes /\ Payload(t)[j][1] # <<>>
      BY <1>13, <1>14, <1>15 DEF C
    <2>2. CASE in.compressed
      <3>1. Len(Payload(t)) > 0
        BY <1>17, <2>2 DEF Decodes, IsFrame
      <3>2. 1 \in 1 .. z
        BY <1>3, <1>14, <1>15, <3>1
      <3> QED
        BY <2>1, <2>2, <3>2 DEF Decoded
    <2>3. CASE ~ in.compressed
      <3>1. ASSUME NEW j \in 1 .. z PROVE Payload(t)[j][1][1] \in Int
        <4>1. Len(Payload(t)[j][1]) \in Nat \ {0}
          BY <2>1, EmptySeq DEF Bytes
        <4> QED
          BY <2>1, <4>1, ElementOfSeq DEF Bytes
      <3>2. [j \in 1 .. z |-> Payload(t)[j][1][1]] \in [1 .. z -> Int]
        BY <3>1
      <3>3. Decoded(t) = [j \in 1 .. z |-> Payload(t)[j][1][1]]
        BY <2>3 DEF Decoded, z
      <3> QED
        BY <1>3, <3>2, <3>3, FunctionIsSeq DEF Bytes
    <2> QED
      BY <2>2, <2>3
  <1>18. ReadCount(t) = Len(got)
    BY DEF ReadCount, got
  <1> QED
    BY <1>1, <1>2, <1>6, <1>8, <1>11, <1>14, <1>15, <1>16, <1>17, <1>18 DEF C, Cells, got, z

\* Writing what a block must have at its place keeps the output's size and
\* changes no byte outside the block.
LEMMA WriteFacts ==
  ASSUME LayoutInv, NEW i \in Indices, NEW bytes \in Bytes, Len(bytes) = ExpectedSize(i)
  PROVE  /\ WriteAt(output, BlockStart(i), bytes, 0) \in Bytes
         /\ Len(WriteAt(output, BlockStart(i), bytes, 0)) = in.size
         /\ \A j \in 1 .. in.size :
              WriteAt(output, BlockStart(i), bytes, 0)[j] =
                IF BlockStart(i) < j /\ j <= BlockStart(i) + ExpectedSize(i)
                THEN bytes[j - BlockStart(i)] ELSE output[j]
  <1>1. output \in Seq(Int) /\ Len(output) = in.size /\ bytes \in Seq(Int)
    BY DEF LayoutInv, Typed, Bytes
  <1>2. BlockStart(i) \in Nat /\ BlockStart(i) + Len(bytes) <= Len(output)
    BY <1>1, BlockFacts DEF LayoutInv, Typed
  <1>3. \A j \in 1 .. Len(bytes) : bytes[j] \in Int
    BY <1>1, ElementOfSeq
  <1> DEFINE w == WriteAt(output, BlockStart(i), bytes, 0)
  <1>4. /\ w \in Seq(Int) /\ Len(w) = Len(output)
        /\ \A j \in 1 .. Len(output) :
             w[j] = IF BlockStart(i) < j /\ j <= BlockStart(i) + Len(bytes)
                    THEN bytes[j - BlockStart(i)] ELSE output[j]
    <2> DEFINE at == BlockStart(i)
               v == WriteAt(output, at, bytes, 0)
    <2>1. at \in Nat /\ at + Len(bytes) <= Len(output)
      BY <1>2
    <2> HIDE DEF at
    <2>2. v \in Seq(Int) /\ Len(v) = Len(output)
      BY <1>1, <1>3, <2>1, WriteAtInside
    <2>3. ASSUME NEW j \in 1 .. Len(output)
          PROVE  v[j] = IF at < j /\ j <= at + Len(bytes) THEN bytes[j - at] ELSE output[j]
      <3>1. v = [k \in 1 .. Len(output) |->
                  IF at < k /\ k <= at + Len(bytes) THEN bytes[k - at] ELSE output[k]]
        BY <1>1, <2>1, WriteInside, SMTT(30)
      <3> HIDE DEF v
      <3> QED
        BY <3>1
    <2> HIDE DEF v
    <2> QED
      BY <2>2, <2>3 DEF v, at
  <1> HIDE DEF w
  <1>5. /\ w \in Bytes /\ Len(w) = in.size
        /\ \A j \in 1 .. in.size :
             w[j] = IF BlockStart(i) < j /\ j <= BlockStart(i) + ExpectedSize(i)
                    THEN bytes[j - BlockStart(i)] ELSE output[j]
    BY <1>1, <1>4 DEF Bytes
  <1> QED
    BY <1>5 DEF w

-----------------------------------------------------------------------------
(* LayoutInv, one lemma for each kind of step. *)

\* A thread that takes no part in a step.
LEMMA OtherThread ==
  ASSUME LayoutInv, in' = in, NEW u \in Threads,
         pc'[u] = pc[u], offset'[u] = offset[u], tellp'[u] = tellp[u],
         batch'[u] = batch[u], member'[u] = member[u]
  PROVE  OffsetOK(u)' /\ BatchOK(u)'
  <1>1. OffsetOK(u) /\ BatchOK(u)
    BY DEF LayoutInv
  <1>2. OffsetOK(u)'
    BY <1>1, SameInput DEF OffsetOK, Block
  <1>3. BatchOK(u)'
    BY <1>1, SameInput DEF BatchOK
  <1> QED
    BY <1>2, <1>3

\* Steps that leave the output and the threads alone.
LEMMA QuietLayout ==
  ASSUME LayoutInv, UNCHANGED <<in, output, threadVars, counters>>,
         status' \in {"running", "verifying", "ok", "aborted", "stuck"},
         cause' \in {"none", "seed block size", "data block size", "not compressed", "hash"}
  PROVE  LayoutInv'
  <1>1. in' = in /\ UNCHANGED <<output, pc, offset, tellp, batch, member, buffer,
                                reused, downloaded, decompressed, progress>>
    BY DEF threadVars, counters
  <1>2. Typed'
    BY <1>1, SameInput DEF LayoutInv, Typed
  <1>3. \A t \in Threads : OffsetOK(t)' /\ BatchOK(t)'
    BY <1>1, OtherThread
  <1> QED
    BY <1>1, <1>2, <1>3, SameInput DEF LayoutInv

\* A thread opens its files, or cannot.
LEMMA OpenLayout ==
  ASSUME LayoutInv, NEW t \in Threads, Open(t) \/ CannotOpen(t)
  PROVE  LayoutInv'
  <1>1. /\ in' = in /\ pc[t] = "open"
        /\ UNCHANGED <<status, cause, output, offset, batch, member, buffer,
                       reused, downloaded, decompressed, progress>>
        /\ \/ pc' = [pc EXCEPT ![t] = "loop"] /\ tellp' = [tellp EXCEPT ![t] = Beg(Call, t)]
           \/ pc' = [pc EXCEPT ![t] = "threw"] /\ tellp' = tellp
    BY DEF Open, CannotOpen, At, Goto, counters
  <1>2. Typed /\ in \in Inputs /\ OffsetOK(t) /\ BatchOK(t)
    BY DEF LayoutInv, Typed
  <1>3. Beg(Call, t) \in Nat
    BY <1>2, ChunkInside
  <1>4. Typed'
    BY <1>1, <1>2, <1>3, SameInput DEF Typed, Labels
  <1>5. offset[t] = Beg(Call, t) /\ batch[t] = <<>>
    BY <1>1, <1>2 DEF OffsetOK, BatchOK
  <1>6. pc'[t] \in {"loop", "threw"} /\ (pc'[t] = "loop" => tellp'[t] = Beg(Call, t))
    BY <1>1, <1>2 DEF Typed
  <1>7. OffsetOK(t)'
    BY <1>1, <1>2, <1>3, <1>5, <1>6, SameInput DEF OffsetOK, Block
  <1>8. BatchOK(t)'
    <2>1. Len(<<>>) = 0 /\ Limit \in Nat \ {0}
      BY <1>2, InputFacts
    <2> QED
      BY <1>1, <1>5, <1>6, <2>1, SameInput DEF BatchOK
  <1>9. ASSUME NEW u \in Threads, u # t PROVE OffsetOK(u)' /\ BatchOK(u)'
    BY <1>1, <1>2, <1>9, OtherThread DEF Typed
  <1> QED
    BY <1>1, <1>4, <1>7, <1>8, <1>9, SameInput DEF LayoutInv

\* A block is copied from the seed.  Its size passed the check, so it is either
\* a whole block or the last one.
LEMMA CopyLayout ==
  ASSUME LayoutInv, NEW t \in Threads, CopyFromSeed(t)
  PROVE  LayoutInv'
  <1> DEFINE i == Block(t)
             b == SeedBytes(t)
  <1>1. InLoop(t) /\ FoundInSeed(t) /\ Len(b) = ExpectedSize(i) /\ pc[t] = "loop"
    BY DEF CopyFromSeed, SizeValid, InLoop, At
  <1>2. Typed /\ in \in Inputs /\ OffsetOK(t) /\ BatchOK(t)
    BY DEF LayoutInv, Typed
  <1>3. /\ i \in Indices /\ offset[t] = BlockStart(i) /\ tellp[t] = BlockStart(i)
        /\ offset[t] + in.block_size \in Nat
        /\ offset[t] + in.block_size = BlockStart(i + 1)
        /\ IndexAt(offset[t] + in.block_size) = i + 1
    BY <1>1, LoopFacts
  <1>4. b \in Bytes
    BY <1>1, SeedFacts
  <1>5. /\ in' = in
        /\ output' = WriteAt(output, BlockStart(i), b, 0)
        /\ tellp' = [tellp EXCEPT ![t] = BlockStart(i) + ExpectedSize(i)]
        /\ progress' = progress + ExpectedSize(i)
        /\ reused' = reused + ExpectedSize(i)
        /\ offset' = [offset EXCEPT ![t] = offset[t] + in.block_size]
        /\ UNCHANGED <<status, cause, pc, batch, member, buffer, downloaded, decompressed>>
    BY <1>1, <1>3 DEF CopyFromSeed, Write
  <1>6. /\ BlockStart(i) \in Nat
        /\ ExpectedSize(i) \in Nat
        /\ ExpectedSize(i) = Min2(in.block_size, in.size - BlockStart(i))
    BY <1>2, <1>3, BlockFacts
  <1>7. output' \in Bytes /\ Len(output') = in.size
    BY <1>1, <1>3, <1>4, <1>5, WriteFacts
  <1> HIDE DEF i, b
  <1>8. Typed'
    <2>1. offset' \in [Threads -> Nat]
      BY <1>2, <1>3, <1>5 DEF Typed
    <2>2. tellp' \in [Threads -> Nat]
      <3>1. BlockStart(i) + ExpectedSize(i) \in Nat
        BY <1>6
      <3> QED
        BY <1>2, <1>5, <3>1 DEF Typed
    <2>3. progress' \in Nat /\ reused' \in Nat
      <3>1. progress \in Nat /\ reused \in Nat
        BY <1>2 DEF Typed
      <3> QED
        BY <1>5, <1>6, <3>1
    <2> QED
      BY <1>2, <1>5, <1>7, <2>1, <2>2, <2>3, SameInput DEF Typed
  <1>9. offset'[t] = offset[t] + in.block_size /\ tellp'[t] = BlockStart(i) + ExpectedSize(i)
    BY <1>2, <1>5 DEF Typed
  <1>10. /\ ChunkEnd(t) \in Nat /\ ChunkEnd(t) <= in.size /\ Beg(Call, t) \in Nat
         /\ in.size \in Nat /\ in.block_size \in Nat
    BY <1>2, ChunkInside, InputFacts
  <1>11. OffsetOK(t)'
    <2>1. offset'[t] < ChunkEnd(t) => tellp'[t] = offset'[t]
      BY <1>3, <1>6, <1>9, <1>10 DEF Min2
    <2>2. Beg(Call, t) <= offset'[t]
      BY <1>2, <1>3, <1>6, <1>9, <1>10 DEF OffsetOK
    <2>3. offset'[t] = BlockStart(IndexAt(offset'[t]))
      BY <1>3, <1>9
    <2> QED
      BY <1>1, <1>5, <2>1, <2>2, <2>3, SameInput DEF OffsetOK, Block
  <1>12. BatchOK(t)'
    BY <1>1, <1>2, <1>5, SameInput DEF BatchOK
  <1>13. ASSUME NEW u \in Threads, u # t PROVE OffsetOK(u)' /\ BatchOK(u)'
    BY <1>2, <1>5, <1>13, OtherThread DEF Typed
  <1> QED
    BY <1>5, <1>8, <1>11, <1>12, <1>13, SameInput DEF LayoutInv

\* A block is queued; a full batch is flushed right away.
LEMMA EnqueueLayout ==
  ASSUME LayoutInv, NEW t \in Threads, Enqueue(t)
  PROVE  LayoutInv'
  <1> DEFINE i == Block(t)
             q == Queued(i)
             b == Append(batch[t], q)
             n == Len(batch[t])
  <1>1. InLoop(t) /\ pc[t] = "loop"
    BY DEF Enqueue, InLoop, At
  <1>2. Typed /\ in \in Inputs /\ OffsetOK(t) /\ BatchOK(t)
    BY DEF LayoutInv, Typed
  <1>3. /\ i \in Indices /\ offset[t] = BlockStart(i) /\ tellp[t] = BlockStart(i)
        /\ RetrievalInfo(t) = q
        /\ offset[t] + in.block_size \in Nat
        /\ offset[t] + in.block_size = BlockStart(i + 1)
        /\ IndexAt(offset[t] + in.block_size) = i + 1
    BY <1>1, LoopFacts
  <1>4. q.to = BlockStart(i) /\ q \in Infos
    BY <1>2, <1>3, QueuedFacts
  <1>5. /\ b \in Seq(Infos) /\ n \in Nat /\ Len(b) = n + 1 /\ b[n + 1] = q
    <2>1. batch[t] \in Seq(Infos) /\ n \in Nat
      BY <1>2, LenProperties DEF Typed
    <2> HIDE DEF q
    <2> QED
      BY <1>4, <2>1, AppendProperties
  <1>6. /\ in' = in
        /\ batch' = [batch EXCEPT ![t] = b]
        /\ tellp' = [tellp EXCEPT ![t] = offset[t] + in.block_size]
        /\ offset' = [offset EXCEPT ![t] = offset[t] + in.block_size]
        /\ IF n + 1 >= in.blocks_per_batch
           THEN pc' = [pc EXCEPT ![t] = "flush"] /\ member' = [member EXCEPT ![t] = 1]
           ELSE pc' = pc /\ member' = member
        /\ buffer' = [buffer EXCEPT ![t] = <<>>]
        /\ UNCHANGED <<status, cause, output, reused, downloaded, decompressed, progress>>
    BY <1>3, <1>5 DEF Enqueue, Goto, BatchFull, PositionSkipped, counters
  <1> HIDE DEF i, q, b, n
  <1>7. <<>> \in Cells
    BY DEF Cells
  <1>8. Typed'
    <2>1. offset' \in [Threads -> Nat] /\ tellp' \in [Threads -> Nat]
      BY <1>2, <1>3, <1>6 DEF Typed
    <2>2. batch' \in [Threads -> Seq(Infos)] /\ buffer' \in [Threads -> Cells]
      BY <1>2, <1>5, <1>6, <1>7 DEF Typed
    <2>3. pc' \in [Threads -> Labels] /\ member' \in [Threads -> Nat]
      <3>1. \/ pc' = [pc EXCEPT ![t] = "flush"] /\ member' = [member EXCEPT ![t] = 1]
            \/ pc' = pc /\ member' = member
        BY <1>6
      <3>2. pc \in [Threads -> Labels] /\ member \in [Threads -> Nat]
        BY <1>2 DEF Typed
      <3> QED
        BY <3>1, <3>2 DEF Labels
    <2> QED
      BY <1>2, <1>6, <2>1, <2>2, <2>3, SameInput DEF Typed
  <1>9. /\ offset'[t] = offset[t] + in.block_size /\ tellp'[t] = offset'[t]
        /\ batch'[t] = b
        /\ pc'[t] \in {"loop", "flush"}
        /\ pc'[t] = "flush" => member'[t] = 1
        /\ pc'[t] = "loop" => n + 1 < in.blocks_per_batch
    <2>1. in.blocks_per_batch \in Nat
      BY <1>2, InputFacts
    <2>2. /\ offset'[t] = offset[t] + in.block_size /\ tellp'[t] = offset[t] + in.block_size
          /\ batch'[t] = b
      BY <1>2, <1>6 DEF Typed
    <2>3. CASE n + 1 >= in.blocks_per_batch
      BY <1>2, <1>6, <2>2, <2>3 DEF Typed
    <2>4. CASE ~ (n + 1 >= in.blocks_per_batch)
      <3>1. pc' = pc /\ n + 1 < in.blocks_per_batch
        BY <1>5, <1>6, <2>1, <2>4
      <3> QED
        BY <1>1, <2>2, <3>1
    <2> QED
      BY <2>3, <2>4
  <1>10. /\ Beg(Call, t) \in Nat /\ in.block_size \in Nat /\ in.blocks_per_batch \in Nat
    BY <1>2, ChunkInside, InputFacts
  <1>11. OffsetOK(t)'
    <2>1. Beg(Call, t) <= offset'[t]
      <3>1. Beg(Call, t) <= offset[t] /\ offset[t] \in Nat
        BY <1>2 DEF OffsetOK, Typed
      <3> QED
        BY <1>9, <1>10, <3>1
    <2>2. offset'[t] = BlockStart(IndexAt(offset'[t]))
      BY <1>3, <1>9
    <2> QED
      BY <1>6, <1>9, <2>1, <2>2, SameInput DEF OffsetOK, Block
  <1>12. BatchOK(t)'
    <2>1. n < Limit /\ n + 1 <= Limit
      BY <1>1, <1>2, <1>5, <1>10 DEF BatchOK, n, Limit
    <2>2. pc'[t] = "loop" => n + 1 < Limit
      BY <1>5, <1>9, <1>10 DEF Limit
    <2>3. 1 \in 1 .. Len(b)
      BY <1>5
    <2>4. b[Len(b)].to + in.block_size = offset'[t]
      BY <1>3, <1>4, <1>5, <1>9
    <2> QED
      BY <1>5, <1>6, <1>9, <2>1, <2>2, <2>3, <2>4, SameInput DEF BatchOK
  <1>13. ASSUME NEW u \in Threads, u # t PROVE OffsetOK(u)' /\ BatchOK(u)'
    BY <1>2, <1>6, <1>13, OtherThread DEF Typed
  <1> QED
    BY <1>6, <1>8, <1>11, <1>12, <1>13, SameInput DEF LayoutInv

\* A member of the batch is written.  After the last one the stream stands behind
\* the block that was queued last, which is where the loop goes on.
LEMMA FlushLayout ==
  ASSUME LayoutInv, NEW t \in Threads, FlushMember(t)
  PROVE  LayoutInv'
  <1>1. At(t, "flush") /\ Decodes(t) /\ pc[t] = "flush"
    BY DEF FlushMember, At
  <1>2. Typed /\ in \in Inputs /\ OffsetOK(t) /\ BatchOK(t)
    BY DEF LayoutInv, Typed
  <1>3. PICK i \in Indices : Info(t) = Queued(i)
    BY <1>1, FlushFacts
  <1> DEFINE d == Decoded(t)
             e == ExpectedSize(i)
  <1>4. Info(t).block_index = i /\ Info(t).to = BlockStart(i)
    BY <1>2, <1>3, QueuedFacts
  <1>5. d \in Bytes /\ Len(d) = e /\ Received(t) \in Cells /\ ReadCount(t) \in Nat
    BY <1>1, <1>4, FlushFacts DEF FlushMember, SizeValid
  <1>6. /\ BlockStart(i) \in Nat /\ e \in Nat /\ e = Min2(in.block_size, in.size - BlockStart(i))
        /\ in.size \in Nat /\ in.block_size \in Nat
    BY <1>2, BlockFacts, InputFacts
  <1>7. /\ in' = in
        /\ output' = WriteAt(output, BlockStart(i), d, 0)
        /\ tellp' = [tellp EXCEPT ![t] = BlockStart(i) + e]
        /\ progress' = progress + e
        /\ decompressed' = decompressed + IF in.compressed THEN e ELSE 0
        /\ downloaded' = downloaded + ReadCount(t)
        /\ NextMember(t)
        /\ UNCHANGED <<status, cause, offset, reused>>
    BY <1>4, <1>5 DEF FlushMember, Write, MemberPosition
  <1>8. output' \in Bytes /\ Len(output') = in.size
    BY <1>3, <1>5, <1>7, WriteFacts
  <1> HIDE DEF d, e
  <1> DEFINE More == /\ member[t] < Len(batch[t])
                     /\ member' = [member EXCEPT ![t] = member[t] + 1]
                     /\ buffer' = [buffer EXCEPT ![t] = Received(t)]
                     /\ pc' = pc /\ batch' = batch
             Last == /\ ~ (member[t] < Len(batch[t]))
                     /\ member' = [member EXCEPT ![t] = 0]
                     /\ buffer' = [buffer EXCEPT ![t] = <<>>]
                     /\ batch' = [batch EXCEPT ![t] = <<>>]
                     /\ pc' = [pc EXCEPT ![t] = "loop"]
  <1>9. More \/ Last
    BY <1>7 DEF NextMember, Goto
  <1>10. /\ pc \in [Threads -> Labels] /\ member \in [Threads -> Nat]
         /\ tellp \in [Threads -> Nat] /\ offset[t] \in Nat
         /\ batch \in [Threads -> Seq(Infos)] /\ buffer \in [Threads -> Cells]
         /\ Len(batch[t]) \in Nat /\ member[t] \in 1 .. Len(batch[t])
    BY <1>1, <1>2, LenProperties DEF Typed, BatchOK
  <1>11. Typed'
    <2>1. tellp' \in [Threads -> Nat]
      <3>1. BlockStart(i) + e \in Nat
        BY <1>6
      <3> QED
        BY <1>7, <1>10, <3>1
    <2>2. progress' \in Nat /\ decompressed' \in Nat /\ downloaded' \in Nat
      <3>1. progress \in Nat /\ decompressed \in Nat /\ downloaded \in Nat
        BY <1>2 DEF Typed
      <3>2. /\ progress' = progress + e /\ downloaded' = downloaded + ReadCount(t)
            /\ \/ decompressed' = decompressed + e
               \/ decompressed' = decompressed + 0
        BY <1>7
      <3>3. e \in Nat /\ ReadCount(t) \in Nat
        BY <1>5, <1>6
      <3> QED
        BY <3>1, <3>2, <3>3
    <2>3. /\ pc' \in [Threads -> Labels] /\ member' \in [Threads -> Nat]
          /\ batch' \in [Threads -> Seq(Infos)] /\ buffer' \in [Threads -> Cells]
      <3>1. CASE More
        BY <1>5, <1>10, <3>1
      <3>2. CASE Last
        <4>1. <<>> \in Cells /\ <<>> \in Seq(Infos)
          BY DEF Cells
        <4> QED
          BY <1>10, <3>2, <4>1 DEF Labels
      <3> QED
        BY <1>9, <3>1, <3>2
    <2> QED
      BY <1>2, <1>7, <1>8, <2>1, <2>2, <2>3, SameInput DEF Typed
  <1>12. OffsetOK(t)'
    <2>1. offset' = offset /\ tellp'[t] = BlockStart(i) + e
      BY <1>7, <1>10
    <2>2. CASE More
      BY <1>1, <1>2, <1>7, <2>1, <2>2, SameInput DEF OffsetOK, Block
    <2>3. CASE Last
      <3>1. pc'[t] = "loop"
        BY <1>10, <2>3
      <3>2. ASSUME offset[t] < ChunkEnd(t) PROVE BlockStart(i) + e = offset[t]
        <4>1. member[t] = Len(batch[t])
          BY <1>10, <2>3
        <4>2. BlockStart(i) + in.block_size = offset[t]
          BY <1>1, <1>2, <1>4, <3>2, <4>1 DEF BatchOK, Info
        <4>3. ChunkEnd(t) \in Nat /\ ChunkEnd(t) <= in.size
          BY <1>2, ChunkInside
        <4> QED
          BY <1>6, <1>10, <3>2, <4>2, <4>3, SMTT(30) DEF Min2
      <3> QED
        BY <1>2, <1>7, <2>1, <3>1, <3>2, SameInput DEF OffsetOK, Block
    <2> QED
      BY <1>9, <2>2, <2>3
  <1>13. BatchOK(t)'
    <2>1. CASE More
      <3>1. member'[t] \in 1 .. Len(batch[t])
        BY <1>10, <2>1
      <3> QED
        BY <1>1, <1>2, <1>7, <2>1, <3>1, SameInput DEF BatchOK
    <2>2. CASE Last
      <3>1. pc'[t] = "loop" /\ batch'[t] = <<>> /\ Len(<<>>) = 0
        BY <1>10, <2>2
      <3>2. Limit \in Nat \ {0}
        BY <1>2, InputFacts
      <3> QED
        BY <1>7, <3>1, <3>2, SameInput DEF BatchOK
    <2> QED
      BY <1>9, <2>1, <2>2
  <1>14. ASSUME NEW u \in Threads, u # t PROVE OffsetOK(u)' /\ BatchOK(u)'
    <2>1. /\ pc'[u] = pc[u] /\ offset'[u] = offset[u] /\ tellp'[u] = tellp[u]
          /\ batch'[u] = batch[u] /\ member'[u] = member[u]
      BY <1>7, <1>9, <1>10, <1>14
    <2> QED
      BY <1>7, <2>1, OtherThread
  <1> QED
    BY <1>7, <1>11, <1>12, <1>13, <1>14, SameInput DEF LayoutInv

\* The chunk is over: what is still queued is flushed, or the thread ends.
LEMMA ChunkOverLayout ==
  ASSUME LayoutInv, NEW t \in Threads, FlushTrailing(t) \/ FinishChunk(t)
  PROVE  LayoutInv'
  <1>1. /\ in' = in /\ pc[t] = "loop" /\ offset[t] >= ChunkEnd(t)
        /\ UNCHANGED <<status, cause, output, offset, tellp, batch, buffer,
                       reused, downloaded, decompressed, progress>>
        /\ \/ /\ batch[t] # <<>>
              /\ pc' = [pc EXCEPT ![t] = "flush"]
              /\ member' = [member EXCEPT ![t] = 1]
           \/ /\ batch[t] = <<>>
              /\ pc' = [pc EXCEPT ![t] = "done"]
              /\ member' = member
    BY DEF FlushTrailing, FinishChunk, At, Goto, counters, PastChunk, NothingQueued
  <1>2. Typed /\ in \in Inputs /\ OffsetOK(t) /\ BatchOK(t)
    BY DEF LayoutInv, Typed
  <1>3. /\ pc \in [Threads -> Labels] /\ member \in [Threads -> Nat] /\ offset[t] \in Nat
        /\ batch[t] \in Seq(Infos)
    BY <1>2 DEF Typed
  <1>4. Len(batch[t]) \in Nat /\ (batch[t] # <<>> => Len(batch[t]) \in Nat \ {0})
    BY <1>3, LenProperties, EmptySeq
  <1>5. ChunkEnd(t) \in Nat
    BY <1>2, ChunkInside
  <1>6. /\ batch[t] # <<>> => pc'[t] = "flush" /\ member'[t] = 1
        /\ batch[t] = <<>> => pc'[t] = "done"
    BY <1>1, <1>3
  <1>7. Typed'
    <2>1. pc' \in [Threads -> Labels] /\ member' \in [Threads -> Nat]
      BY <1>1, <1>3, SMTT(30) DEF Labels
    <2> QED
      BY <1>1, <1>2, <2>1, SameInput DEF Typed
  <1>8. OffsetOK(t)'
    <2>1. ~ (offset[t] < ChunkEnd(t)) /\ ChunkEnd(t) <= offset[t]
      BY <1>1, <1>3, <1>5
    <2> QED
      BY <1>1, <1>2, <1>6, <2>1, SameInput DEF OffsetOK, Block
  <1>9. BatchOK(t)'
    <2>1. ~ (offset[t] < ChunkEnd(t)) /\ (batch[t] # <<>> => 1 \in 1 .. Len(batch[t]))
      BY <1>1, <1>3, <1>4, <1>5
    <2> QED
      BY <1>1, <1>2, <1>6, <2>1, SameInput DEF BatchOK
  <1>10. ASSUME NEW u \in Threads, u # t PROVE OffsetOK(u)' /\ BatchOK(u)'
    <2>1. pc'[u] = pc[u] /\ member'[u] = member[u]
      BY <1>1, <1>3, <1>10
    <2> QED
      BY <1>1, <2>1, OtherThread
  <1> QED
    BY <1>1, <1>7, <1>8, <1>9, <1>10, SameInput DEF LayoutInv

\* At the start the threads stand at the beginning of their chunks.
LEMMA InitLayout == Init => LayoutInv
  <1> SUFFICES ASSUME Init PROVE LayoutInv
    OBVIOUS
  <1>1. in \in Inputs
    BY DEF Init
  <1>2. output \in Bytes /\ Len(output) = in.size
    <2>1. in.old_output \in Seq(Int) /\ in.size \in Nat
      BY <1>1, InputFacts DEF Bytes
    <2>2. output = Resized(in.old_output, in.size, 0)
      BY DEF Init
    <2>3. 0 \in Int
      OBVIOUS
    <2> DEFINE old == in.old_output
               n == in.size
    <2>4. old \in Seq(Int) /\ n \in Nat
      BY <2>1
    <2> HIDE DEF old, n
    <2>5. Resized(old, n, 0) \in Seq(Int) /\ Len(Resized(old, n, 0)) = n
      BY <2>3, <2>4, ResizedFacts
    <2> QED
      BY <2>2, <2>5 DEF Bytes, old, n
  <1>3. \A t \in Threads : Beg(Call, t) \in Nat /\ Beg(Call, t) = BlockStart(IndexAt(Beg(Call, t)))
    BY <1>1, ChunkInside
  <1>4. Typed
    <2>1. <<>> \in Cells /\ <<>> \in Seq(Infos)
      BY DEF Cells
    <2>2. /\ offset \in [Threads -> Nat] /\ tellp \in [Threads -> Nat]
          /\ batch \in [Threads -> Seq(Infos)] /\ member \in [Threads -> Nat]
          /\ buffer \in [Threads -> Cells] /\ pc \in [Threads -> Labels]
      BY <1>3, <2>1 DEF Init, Labels
    <2> QED
      BY <1>1, <1>2, <2>2 DEF Init, Typed
  <1>5. ASSUME NEW t \in Threads PROVE OffsetOK(t) /\ BatchOK(t)
    <2>1. pc[t] = "open" /\ offset[t] = Beg(Call, t) /\ batch[t] = <<>> /\ Len(<<>>) = 0
      BY DEF Init
    <2>2. Limit \in Nat \ {0}
      BY <1>1, InputFacts
    <2>3. OffsetOK(t)
      BY <1>3, <2>1 DEF OffsetOK, Block
    <2> QED
      BY <2>1, <2>2, <2>3 DEF BatchOK
  <1> QED
    BY <1>4, <1>5 DEF LayoutInv

\* Every step keeps the layout.
LEMMA LayoutStep == LayoutInv /\ [Next]_vars => LayoutInv'
  <1> SUFFICES ASSUME LayoutInv, [Next]_vars PROVE LayoutInv'
    OBVIOUS
  <1>1. ASSUME NEW t \in Threads, Step(t) PROVE LayoutInv'
    <2>1. CASE Open(t)
      BY <2>1, OpenLayout
    <2>2. CASE CopyFromSeed(t)
      BY <2>2, CopyLayout
    <2>3. CASE SeedBlockHasWrongSize(t)
      BY <2>3, QuietLayout DEF SeedBlockHasWrongSize, Abort
    <2>4. CASE Enqueue(t)
      BY <2>4, EnqueueLayout
    <2>5. CASE FlushMember(t)
      BY <2>5, FlushLayout
    <2>6. CASE MemberNotAFrame(t)
      BY <2>6, QuietLayout DEF MemberNotAFrame, Abort
    <2>7. CASE MemberHasWrongSize(t)
      BY <2>7, QuietLayout DEF MemberHasWrongSize, Abort
    <2>8. CASE FlushTrailing(t) \/ FinishChunk(t)
      BY <2>8, ChunkOverLayout
    <2> QED
      BY <1>1, <2>1, <2>2, <2>3, <2>4, <2>5, <2>6, <2>7, <2>8 DEF Step
  <1>2. ASSUME NEW t \in Threads, CannotOpen(t) PROVE LayoutInv'
    BY <1>2, OpenLayout
  <1>3. CASE Join
    BY <1>3, QuietLayout DEF Join, LayoutInv, Typed
  <1>4. CASE Accept
    BY <1>4, QuietLayout DEF Accept, LayoutInv, Typed
  <1>5. CASE Reject
    BY <1>5, QuietLayout DEF Reject, Abort
  <1>6. CASE WaitForever
    BY <1>6, QuietLayout DEF WaitForever, LayoutInv, Typed
  <1>7. CASE UNCHANGED vars
    BY <1>7, QuietLayout DEF vars, LayoutInv, Typed
  <1> QED
    BY <1>1, <1>2, <1>3, <1>4, <1>5, <1>6, <1>7 DEF Next

LEMMA LayoutInvariant == Spec => []LayoutInv
  BY InitLayout, LayoutStep, PTL DEF Spec

\* Types, for every input.
THEOREM TypesHold == Spec => []TypeOK
  <1>1. LayoutInv => TypeOK
    <2> SUFFICES ASSUME LayoutInv PROVE TypeOK
      OBVIOUS
    <2>1. ASSUME NEW t \in Threads
          PROVE  /\ {offset[t], tellp[t]} \subseteq Nat
                 /\ pc[t] = "flush" => member[t] \in 1 .. Len(batch[t])
                 /\ pc[t] \in {"done", "threw"} => batch[t] = <<>>
      BY DEF LayoutInv, Typed, BatchOK
    <2> QED
      BY <2>1 DEF LayoutInv, Typed, TypeOK
  <1> QED
    BY LayoutInvariant, <1>1, PTL

\* Whenever a thread takes up a block its stream stands at the block, although
\* copying never seeks and flushing jumps back and forth.
THEOREM StreamStandsAtBlock == Spec => []PositionTracksOffset
  <1>1. LayoutInv => PositionTracksOffset
    BY DEF LayoutInv, OffsetOK, PositionTracksOffset
  <1> QED
    BY LayoutInvariant, <1>1, PTL

\* Nothing is ever written behind the end of the output, even with a data file
\* that is not the source's.
THEOREM OutputNeverGrows == Spec => []OutputKeepsSize
  <1>1. LayoutInv => OutputKeepsSize
    BY DEF LayoutInv, Typed, OutputKeepsSize
  <1> QED
    BY LayoutInvariant, <1>1, PTL

\* No read ever asks for more blocks than a batch may hold.
THEOREM BatchesAreBounded == Spec => []BatchBounded
  <1>1. LayoutInv => BatchBounded
    BY DEF LayoutInv, BatchOK, Limit, BatchBounded
  <1> QED
    BY LayoutInvariant, <1>1, PTL

-----------------------------------------------------------------------------
(* What is written, with the data file of the source. *)

\* A block of the source is as long as the size that is checked.
LEMMA SourceBlockFacts ==
  ASSUME in \in Inputs, NEW i \in Indices
  PROVE  /\ SourceBlock(in, i) \in Bytes
         /\ Len(SourceBlock(in, i)) = ExpectedSize(i)
         /\ \A j \in 1 .. ExpectedSize(i) :
              SourceBlock(in, i)[j] = in.source[BlockStart(i) + j]
  <1>1. /\ in.source \in Seq(Int) /\ in.size = Len(in.source) /\ in.size \in Nat
        /\ in.block_size \in Nat
    BY InputFacts DEF Bytes
  <1>2. /\ BlockStart(i) \in Nat /\ BlockStart(i) < in.size
        /\ ExpectedSize(i) = Min2(in.block_size, in.size - BlockStart(i))
    BY BlockFacts
  <1> DEFINE r == ReadAt(in.source, BlockStart(i), in.block_size)
  <1>3. /\ r \in Seq(Int)
        /\ Len(r) = IF BlockStart(i) + in.block_size <= Len(in.source) THEN in.block_size
                    ELSE IF BlockStart(i) <= Len(in.source)
                    THEN Len(in.source) - BlockStart(i) ELSE 0
        /\ \A j \in 1 .. Len(r) : r[j] = in.source[BlockStart(i) + j]
    BY <1>1, <1>2, ReadAtFacts, ZenonT(60)
  <1> HIDE DEF r
  <1>4. Len(r) = ExpectedSize(i)
    BY <1>1, <1>2, <1>3 DEF Min2
  <1>5. SourceBlock(in, i) = r
    BY DEF SourceBlock, BlockStart, r
  <1> QED
    BY <1>3, <1>4, <1>5 DEF Bytes

\* What a flushing thread writes for a block is the block.
LEMMA MemberIsBlock ==
  ASSUME LayoutInv, in.genuine, NEW t \in Threads, At(t, "flush"),
         NEW i \in Indices, Info(t) = Queued(i)
  PROVE  /\ Decodes(t)
         /\ Len(Decoded(t)) = ExpectedSize(i)
         /\ \A j \in 1 .. ExpectedSize(i) : Decoded(t)[j] = in.source[BlockStart(i) + j]
  <1> DEFINE z == Queued(i).size
             got == ReadAt(in.data, Queued(i).begin, z)
  <1>1. in \in Inputs
    BY DEF LayoutInv, Typed
  <1>2. z \in Nat /\ Queued(i).begin \in Nat
    BY <1>1, QueuedFacts
  <1>3. /\ Len(Payload(t)) = z
        /\ \A j \in 1 .. Len(got) : Payload(t)[j] = got[j]
    BY FlushFacts DEF ReadCount
  <1>4. /\ BlockStart(i) \in Nat /\ in.size \in Nat /\ in.block_size \in Nat
        /\ ExpectedSize(i) = Min2(in.block_size, in.size - BlockStart(i))
        /\ BlockStart(i) + ExpectedSize(i) <= in.size /\ ExpectedSize(i) \in Nat
    BY <1>1, BlockFacts, InputFacts
  <1>5. CASE in.compressed
    <2> DEFINE c == in.compressed_sizes[i]
               g == [j \in 1 .. c |-> <<SourceBlock(in, i), j, c>>]
    <2>1. z = c /\ Queued(i).begin = FrameStarts(in)[i]
      BY <1>5 DEF Queued, compressed_file_offsets
    <2>2. ReadAt(in.data, FrameStarts(in)[i], c) = g
      BY <1>1, <1>5, GenuineAssumption DEF Indices
    <2>3. c \in Nat \ {0}
      BY <1>1, InputsAssumption DEF Indices
    <2>4. got = g
      BY <2>1, <2>2
    <2>5. Len(g) = c
      <3> HIDE DEF c
      <3>1. \A j \in 1 .. c : <<SourceBlock(in, i), j, c>> \in {SourceBlock(in, i)} \X Nat \X Nat
        BY <2>3
      <3>2. g \in [1 .. c -> {SourceBlock(in, i)} \X Nat \X Nat]
        BY <3>1
      <3> HIDE DEF g
      <3> QED
        BY <2>3, <3>2, FunctionIsSeq
    <2> HIDE DEF c, got, z
    <2>6. \A j \in 1 .. c : Payload(t)[j] = <<SourceBlock(in, i), j, c>>
      <3>1. \A j \in 1 .. c : Payload(t)[j] = g[j]
        BY <1>3, <2>4, <2>5
      <3> QED
        BY <3>1
    <2>7. 1 \in 1 .. c
      BY <2>3
    <2>8. Decodes(t)
      <3>1. Len(Payload(t)) = c
        BY <1>3, <2>1
      <3>2. Payload(t)[1][1] = SourceBlock(in, i)
        BY <2>6, <2>7
      <3> QED
        BY <2>3, <2>6, <3>1, <3>2 DEF Decodes, IsFrame
    <2>9. Decoded(t) = SourceBlock(in, i)
      BY <1>5, <2>6, <2>7 DEF Decoded
    <2> QED
      BY <1>1, <2>8, <2>9, SourceBlockFacts
  <1>6. CASE ~ in.compressed
    <2> DEFINE d == [j \in 1 .. in.size |-> <<<<in.source[j]>>, 1, 1>>]
               C == (Bytes \ {<<>>}) \X Nat \X Nat
    <2>1. z = ExpectedSize(i) /\ Queued(i).begin = BlockStart(i)
      BY <1>4, <1>6 DEF Queued
    <2>2. in.data = d
      BY <1>1, <1>6, GenuineAssumption
    <2>3. in.data \in Seq(C)
      BY <1>1, InputFacts DEF Cells
    <2>4. Len(in.data) = in.size
      <3>1. Len(in.data) \in Nat /\ DOMAIN in.data = 1 .. Len(in.data)
        BY <2>3, LenProperties
      <3>2. DOMAIN in.data = 1 .. in.size
        BY <2>2
      <3> QED
        BY <1>4, <3>1, <3>2
    <2> HIDE DEF C, z
    <2>5. /\ Len(got) = z
          /\ \A j \in 1 .. Len(got) : got[j] = in.data[BlockStart(i) + j]
      <3> DEFINE r == ReadAt(in.data, BlockStart(i), z)
      <3>0. z \in Nat /\ BlockStart(i) \in Nat
        BY <1>2, <1>4
      <3>1. \A j \in 1 .. Len(r) : r[j] = in.data[BlockStart(i) + j]
        BY <2>3, <3>0, ReadAtFacts
      <3>2. Len(r) = z
        <4>1. BlockStart(i) + z <= Len(in.data)
          BY <1>4, <2>1, <2>4
        <4> QED
          BY <2>3, <3>0, <4>1, ReadAtFacts
      <3> HIDE DEF r
      <3>3. got = r
        BY <2>1 DEF r
      <3> QED
        BY <3>1, <3>2, <3>3
    <2> HIDE DEF got
    <2>6. ASSUME NEW j \in 1 .. z PROVE Payload(t)[j][1][1] = in.source[BlockStart(i) + j]
      <3>1. Payload(t)[j] = in.data[BlockStart(i) + j]
        BY <1>3, <2>5
      <3>2. BlockStart(i) + j \in 1 .. in.size
        BY <1>2, <1>4, <2>1
      <3>3. in.data[BlockStart(i) + j] = <<<<in.source[BlockStart(i) + j]>>, 1, 1>>
        BY <2>2, <3>2
      <3> QED
        BY <3>1, <3>3
    <2>7. Decoded(t) = [j \in 1 .. z |-> Payload(t)[j][1][1]]
      BY <1>6 DEF Decoded, z
    <2>8. Decodes(t)
      BY <1>6 DEF Decodes
    <2>9. Len(Decoded(t)) = z
      <3>1. Decoded(t) \in Seq(Int)
        BY <2>8, FlushFacts DEF Bytes
      <3>2. Len(Decoded(t)) \in Nat /\ DOMAIN Decoded(t) = 1 .. Len(Decoded(t))
        BY <3>1, LenProperties
      <3>3. DOMAIN Decoded(t) = 1 .. z
        BY <2>7
      <3> DEFINE m == Len(Decoded(t))
      <3>4. m \in Nat /\ 1 .. m = 1 .. z
        BY <3>2, <3>3
      <3> HIDE DEF m
      <3>5. m = z
        BY <1>2, <3>4
      <3> QED
        BY <3>5 DEF m
    <2> QED
      BY <2>1, <2>6, <2>7, <2>8, <2>9
  <1> QED
    BY <1>5, <1>6

\* What is copied from the seed is the block, once its size has been checked; and
\* with no zero byte around the size is right.
LEMMA SeedCopyIsBlock ==
  ASSUME LayoutInv, NEW t \in Threads, InLoop(t), FoundInSeed(t)
  PROVE  /\ \A j \in 1 .. ExpectedSize(Block(t)) :
              j <= Len(SeedBytes(t)) => SeedBytes(t)[j] = in.source[BlockStart(Block(t)) + j]
         /\ ZeroFree => Len(SeedBytes(t)) = ExpectedSize(Block(t))
  <1> DEFINE i == Block(t)
             b == SeedBytes(t)
             src == SourceBlock(in, i)
             n == in.block_size
             e == ExpectedSize(i)
  <1>1. in \in Inputs /\ i \in Indices
    BY LoopFacts DEF LayoutInv, Typed
  <1>2. /\ n \in Nat /\ e \in Nat /\ e <= n /\ BlockStart(i) \in Nat
        /\ BlockStart(i) + e <= in.size /\ in.size = Len(in.source) /\ in.size \in Nat
        /\ in.source \in Seq(Int) /\ in.seed \in Seq(Int)
    BY <1>1, BlockFacts, InputFacts DEF Bytes
  <1>3. /\ Len(src) = e /\ \A j \in 1 .. e : src[j] = in.source[BlockStart(i) + j]
    BY <1>1, SourceBlockFacts
  <1>4. PaddedTo(n, b) = PaddedTo(n, src)
    BY <1>1, SeedAssumption DEF FoundInSeed, SeedBytes, kInvalidOffset, Indices
  <1>5. /\ Len(b) \in Nat /\ Len(b) <= n
        /\ \A j \in 1 .. Len(b) : b[j] \in {in.seed[k] : k \in 1 .. Len(in.seed)}
    <2> DEFINE o == in.seed_offsets[i]
               r == ReadAt(in.seed, o, n)
    <2>1. o \in Nat /\ Len(in.seed) \in Nat
      BY <1>2, SeedFacts, LenProperties
    <2> HIDE DEF o
    <2>2. /\ Len(r) = IF o + n <= Len(in.seed) THEN n
                      ELSE IF o <= Len(in.seed) THEN Len(in.seed) - o ELSE 0
          /\ \A j \in 1 .. Len(r) : r[j] = in.seed[o + j]
      <3>1. o \in Nat /\ n \in Nat /\ in.seed \in Seq(Int)
        BY <1>2, <2>1
      <3> HIDE DEF n
      <3> QED
        BY <3>1, ReadAtFacts, ZenonT(60)
    <2> HIDE DEF r
    <2>3. Len(r) \in Nat /\ Len(r) <= n
      BY <1>2, <2>1, <2>2
    <2>4. \A j \in 1 .. Len(r) : o + j \in 1 .. Len(in.seed)
      BY <1>2, <2>1, <2>2
    <2>5. b = r
      BY DEF SeedBytes, r, o
    <2> QED
      BY <2>2, <2>3, <2>4, <2>5
  <1>6. \A j \in 1 .. n : (IF j <= Len(b) THEN b[j] ELSE 0) = (IF j <= e THEN src[j] ELSE 0)
    <2> HIDE DEF b, src, n
    <2>1. \A j \in 1 .. n : PaddedTo(n, b)[j] = PaddedTo(n, src)[j]
      BY <1>4
    <2> QED
      BY <1>3, <2>1 DEF PaddedTo
  <1> HIDE DEF i, b, src, n, e
  <1>7. ASSUME NEW j \in 1 .. e, j <= Len(b) PROVE b[j] = in.source[BlockStart(i) + j]
    <2>1. j \in 1 .. n
      BY <1>2
    <2>2. b[j] = src[j]
      BY <1>6, <1>7, <2>1
    <2> QED
      BY <1>3, <2>2
  <1>8. ASSUME ZeroFree PROVE Len(b) = e
    <2>1. \A j \in 1 .. e : src[j] # 0
      <3>1. \A j \in 1 .. e : BlockStart(i) + j \in DOMAIN in.source
        BY <1>2, LenProperties
      <3> QED
        BY <1>3, <1>8, <3>1 DEF ZeroFree
    <2>2. \A j \in 1 .. Len(b) : b[j] # 0
      <3>1. DOMAIN in.seed = 1 .. Len(in.seed)
        BY <1>2, LenProperties
      <3> QED
        BY <1>5, <1>8, <3>1 DEF ZeroFree
    <2>3. ~ (Len(b) < e)
      <3> SUFFICES ASSUME Len(b) < e PROVE FALSE
        OBVIOUS
      <3>1. Len(b) + 1 \in 1 .. n /\ Len(b) + 1 \in 1 .. e /\ ~ (Len(b) + 1 <= Len(b))
        BY <1>2, <1>5
      <3> QED
        BY <1>6, <2>1, <3>1
    <2>4. ~ (e < Len(b))
      <3> SUFFICES ASSUME e < Len(b) PROVE FALSE
        OBVIOUS
      <3>1. e + 1 \in 1 .. n /\ e + 1 \in 1 .. Len(b) /\ ~ (e + 1 <= e)
        BY <1>2, <1>5
      <3> QED
        BY <1>6, <2>2, <3>1
    <2> QED
      BY <1>2, <1>5, <2>3, <2>4
  <1> QED
    BY <1>7, <1>8 DEF i, b, e

\* A step changes bytes of the output to the source's only.
Onward == in' = in /\ \A j \in 1 .. in.size : output'[j] \in {output[j], in.source[j]}

\* Writing a block of the source does, and the block is right afterwards.
LEMMA WriteIsRight ==
  ASSUME LayoutInv, in' = in, NEW i \in Indices, NEW bytes \in Bytes,
         Len(bytes) = ExpectedSize(i),
         \A j \in 1 .. ExpectedSize(i) : bytes[j] = in.source[BlockStart(i) + j],
         output' = WriteAt(output, BlockStart(i), bytes, 0)
  PROVE  Onward /\ BlockRight(i)'
  <1>1. /\ in \in Inputs /\ in.size \in Nat /\ BlockStart(i) \in Nat /\ ExpectedSize(i) \in Nat
        /\ BlockStart(i) + ExpectedSize(i) <= in.size
    BY BlockFacts, InputFacts DEF LayoutInv, Typed
  <1>2. \A j \in 1 .. in.size :
          output'[j] = IF BlockStart(i) < j /\ j <= BlockStart(i) + ExpectedSize(i)
                       THEN bytes[j - BlockStart(i)] ELSE output[j]
    BY WriteFacts
  <1>3. ASSUME NEW j \in 1 .. in.size PROVE output'[j] \in {output[j], in.source[j]}
    <2>1. CASE BlockStart(i) < j /\ j <= BlockStart(i) + ExpectedSize(i)
      <3>1. j - BlockStart(i) \in 1 .. ExpectedSize(i) /\ BlockStart(i) + (j - BlockStart(i)) = j
        BY <1>1, <2>1
      <3>2. bytes[j - BlockStart(i)] = in.source[j]
        BY <3>1
      <3> QED
        BY <1>2, <2>1, <3>2
    <2>2. CASE ~ (BlockStart(i) < j /\ j <= BlockStart(i) + ExpectedSize(i))
      BY <1>2, <2>2
    <2> QED
      BY <2>1, <2>2
  <1>4. ASSUME NEW j \in 1 .. ExpectedSize(i)
        PROVE  output'[BlockStart(i) + j] = in.source[BlockStart(i) + j]
    <2>1. PICK k \in 1 .. in.size : k = BlockStart(i) + j
      BY <1>1
    <2>2. BlockStart(i) < k /\ k <= BlockStart(i) + ExpectedSize(i) /\ k - BlockStart(i) = j
      BY <1>1, <2>1
    <2>3. output'[k] = bytes[k - BlockStart(i)]
      BY <1>2, <2>2
    <2> QED
      BY <2>1, <2>2, <2>3
  <1>5. BlockRight(i)'
    BY <1>4, SameInput DEF BlockRight
  <1> QED
    BY <1>3, <1>5 DEF Onward

\* What is copied from the seed is right.
LEMMA CopyWrites ==
  ASSUME LayoutInv, NEW t \in Threads, CopyFromSeed(t)
  PROVE  Onward /\ \E i \in Indices : i = Block(t) /\ BlockRight(i)'
  <1> DEFINE b == SeedBytes(t)
  <1>1. InLoop(t) /\ FoundInSeed(t) /\ Len(b) = ExpectedSize(Block(t)) /\ in' = in
    BY DEF CopyFromSeed, SizeValid
  <1>2. PICK i \in Indices : i = Block(t)
    BY <1>1, LoopFacts
  <1>3. tellp[t] = BlockStart(i)
    BY <1>1, <1>2, LoopFacts
  <1>4. output' = WriteAt(output, BlockStart(i), b, 0) /\ Len(b) = ExpectedSize(i)
    BY <1>1, <1>2, <1>3 DEF CopyFromSeed, Write
  <1>5. b \in Bytes
    BY <1>1, SeedFacts
  <1>6. \A j \in 1 .. ExpectedSize(i) : b[j] = in.source[BlockStart(i) + j]
    <2>1. \A j \in 1 .. ExpectedSize(i) :
            j <= Len(b) => b[j] = in.source[BlockStart(i) + j]
      BY <1>1, <1>2, SeedCopyIsBlock
    <2>2. ExpectedSize(i) \in Nat
      BY <1>2, BlockFacts DEF LayoutInv, Typed
    <2> HIDE DEF b
    <2> QED
      BY <1>4, <2>1, <2>2
  <1>7. Onward /\ BlockRight(i)'
    <2>1. \A c \in Bytes :
            /\ Len(c) = ExpectedSize(i)
            /\ \A j \in 1 .. ExpectedSize(i) : c[j] = in.source[BlockStart(i) + j]
            /\ output' = WriteAt(output, BlockStart(i), c, 0)
            => Onward /\ BlockRight(i)'
      BY <1>1, WriteIsRight
    <2> HIDE DEF b
    <2> QED
      BY <1>4, <1>5, <1>6, <2>1
  <1> QED
    BY <1>2, <1>7

\* What is flushed is right.
LEMMA FlushWrites ==
  ASSUME LayoutInv, in.genuine, NEW t \in Threads, FlushMember(t)
  PROVE  Onward /\ \E i \in Indices : i = Info(t).block_index /\ BlockRight(i)'
  <1>1. At(t, "flush") /\ Decodes(t) /\ in' = in
    BY DEF FlushMember
  <1>2. PICK i \in Indices : Info(t) = Queued(i)
    BY <1>1, FlushFacts
  <1>3. Info(t).block_index = i /\ Info(t).to = BlockStart(i)
    BY <1>2, QueuedFacts DEF LayoutInv, Typed
  <1>4. /\ Len(Decoded(t)) = ExpectedSize(i)
        /\ \A j \in 1 .. ExpectedSize(i) : Decoded(t)[j] = in.source[BlockStart(i) + j]
    BY <1>1, <1>2, MemberIsBlock
  <1>5. Decoded(t) \in Bytes
    BY <1>1, FlushFacts
  <1>6. output' = WriteAt(output, BlockStart(i), Decoded(t), 0)
    BY <1>3 DEF FlushMember, Write, MemberPosition
  <1>7. Onward /\ BlockRight(i)'
    <2>1. \A c \in Bytes :
            /\ Len(c) = ExpectedSize(i)
            /\ \A j \in 1 .. ExpectedSize(i) : c[j] = in.source[BlockStart(i) + j]
            /\ output' = WriteAt(output, BlockStart(i), c, 0)
            => Onward /\ BlockRight(i)'
      BY <1>1, WriteIsRight
    <2> QED
      BY <1>4, <1>5, <1>6, <2>1
  <1> QED
    BY <1>3, <1>7

\* Whatever the step.
LEMMA StepOnward ==
  ASSUME LayoutInv, in.genuine, [Next]_vars
  PROVE  Onward
  <1>1. ASSUME in' = in, output' = output PROVE Onward
    BY <1>1 DEF Onward
  <1>2. ASSUME NEW t \in Threads, Step(t) \/ CannotOpen(t) PROVE Onward
    <2>1. CASE CopyFromSeed(t)
      BY <2>1, CopyWrites
    <2>2. CASE FlushMember(t)
      BY <2>2, FlushWrites
    <2>3. CASE ~ CopyFromSeed(t) /\ ~ FlushMember(t)
      BY <1>1, <1>2, <2>3 DEF Step, Open, CannotOpen, SeedBlockHasWrongSize, Enqueue,
         MemberNotAFrame, MemberHasWrongSize, FlushTrailing, FinishChunk, Abort
    <2> QED
      BY <2>1, <2>2, <2>3
  <1>3. CASE Join \/ Accept \/ Reject \/ WaitForever
    BY <1>1, <1>3 DEF Join, Accept, Reject, WaitForever, Abort
  <1>4. CASE UNCHANGED vars
    BY <1>1, <1>4 DEF vars
  <1> QED
    BY <1>2, <1>3, <1>4 DEF Next

\* With the data file of the source no byte ever turns into anything but the
\* source's, in any interleaving of the threads.
THEOREM WritesOnlySourceBytes == Spec => OnlySourceBytes
  <1> DEFINE OK == in.genuine => \A j \in DOMAIN output : output'[j] \in {output[j], in.source[j]}
  <1>1. LayoutInv /\ [Next]_vars => [OK]_vars
    <2> SUFFICES ASSUME LayoutInv, [Next]_vars, in.genuine, NEW j \in DOMAIN output
                 PROVE  output'[j] \in {output[j], in.source[j]}
      OBVIOUS
    <2>1. output \in Seq(Int) /\ Len(output) = in.size
      BY DEF LayoutInv, Typed, Bytes
    <2>2. j \in 1 .. in.size
      BY <2>1, LenProperties
    <2>3. Onward
      BY StepOnward
    <2> QED
      BY <2>2, <2>3 DEF Onward
  <1> QED
    BY LayoutInvariant, <1>1, PTL DEF Spec, OnlySourceBytes

-----------------------------------------------------------------------------
(* ContentInv. *)

\* A block that is right stays right.
LEMMA RightStays ==
  ASSUME LayoutInv, Onward, NEW i \in Indices, BlockRight(i)
  PROVE  BlockRight(i)'
  <1>1. /\ in' = in /\ BlockStart(i) \in Nat /\ ExpectedSize(i) \in Nat /\ in.size \in Nat
        /\ BlockStart(i) + ExpectedSize(i) <= in.size
    BY BlockFacts, InputFacts DEF LayoutInv, Typed, Onward
  <1>2. ASSUME NEW j \in 1 .. ExpectedSize(i)
        PROVE  output'[BlockStart(i) + j] = in.source[BlockStart(i) + j]
    <2>1. BlockStart(i) + j \in 1 .. in.size
      BY <1>1
    <2>2. output[BlockStart(i) + j] = in.source[BlockStart(i) + j]
      BY DEF BlockRight
    <2>3. output'[BlockStart(i) + j]
            \in {output[BlockStart(i) + j], in.source[BlockStart(i) + j]}
      BY <2>1 DEF Onward
    <2> QED
      BY <2>2, <2>3
  <1> QED
    BY <1>1, <1>2, SameInput DEF BlockRight

\* What thread u has to account for: the blocks of its chunk before its offset.
Passed(u, i) ==
  Beg(Call, u) <= BlockStart(i) /\ BlockStart(i) < offset[u] /\ BlockStart(i) < ChunkEnd(u)

\* A thread that takes no part in a step still accounts for all it has passed.
LEMMA OtherCovered ==
  ASSUME LayoutInv, Onward, NEW u \in Threads, Covered(u),
         offset'[u] = offset[u], batch'[u] = batch[u], member'[u] = member[u],
         pc'[u] = "flush" <=> pc[u] = "flush"
  PROVE  Covered(u)'
  <1>1. in' = in
    BY DEF Onward
  <1>2. ASSUME NEW i \in Indices, Passed(u, i) PROVE BlockRight(i)' \/ Waiting(u, i)'
    <2>1. CASE BlockRight(i)
      BY <2>1, RightStays
    <2>2. CASE Waiting(u, i)
      BY <2>2 DEF Waiting
    <2> QED
      BY <1>2, <2>1, <2>2 DEF Covered, Passed
  <1>3. \A i \in Indices : Passed(u, i)' <=> Passed(u, i)
    BY <1>1, SameInput DEF Passed
  <1> QED
    BY <1>1, <1>2, <1>3, SameInput DEF Covered, Passed

\* A thread that has just taken up block i of its loop.
LEMMA LoopCovered ==
  ASSUME LayoutInv, Onward, NEW t \in Threads, Covered(t), InLoop(t),
         NEW i \in Indices, i = Block(t),
         offset'[t] = offset[t] + in.block_size,
         BlockRight(i)' \/ Waiting(t, i)',
         \A k \in Indices : Waiting(t, k) => Waiting(t, k)'
  PROVE  Covered(t)'
  <1>1. in' = in /\ in \in Inputs
    BY DEF Onward, LayoutInv, Typed
  <1>2. /\ offset[t] = BlockStart(i) /\ i \in Nat /\ in.block_size \in Nat \ {0}
    BY <1>1, LoopFacts, BlockFacts, InputFacts
  <1>3. ASSUME NEW k \in Indices, Passed(t, k)' PROVE BlockRight(k)' \/ Waiting(t, k)'
    <2>1. /\ Beg(Call, t) <= BlockStart(k) /\ BlockStart(k) < ChunkEnd(t)
          /\ BlockStart(k) < BlockStart(i) + in.block_size
      BY <1>1, <1>2, <1>3, SameInput DEF Passed
    <2>2. k \in Nat /\ BlockStart(k) \in Nat /\ BlockStart(i) \in Nat
      BY <1>1, BlockFacts
    <2>3. CASE BlockStart(k) < BlockStart(i)
      <3>1. BlockRight(k) \/ Waiting(t, k)
        BY <1>2, <2>1, <2>3 DEF Covered
      <3> QED
        BY <3>1, RightStays
    <2>4. CASE BlockStart(i) <= BlockStart(k)
      <3>1. k = i
        <4> DEFINE n == in.block_size
        <4>1. i * n <= k * n /\ k * n < i * n + n
          BY <2>1, <2>4 DEF BlockStart
        <4>2. i \in Int /\ k \in Int /\ n \in Nat \ {0}
          BY <1>2, <2>2
        <4> HIDE DEF n
        <4> QED
          BY <4>1, <4>2, SameMultiple
      <3> QED
        BY <3>1
    <2> QED
      BY <2>2, <2>3, <2>4
  <1> QED
    BY <1>1, <1>3, SameInput DEF Covered, Passed

\* Every step of a thread keeps what all threads account for.
LEMMA ThreadStepCovered ==
  ASSUME LayoutInv, in.genuine, \A u \in Threads : Covered(u),
         NEW t \in Threads, Step(t) \/ CannotOpen(t)
  PROVE  \A u \in Threads : Covered(u)'
  <1>1. Onward /\ in' = in
    <2>1. [Next]_vars
      BY DEF Next
    <2> QED
      BY <2>1, StepOnward DEF Onward
  <1>2. /\ pc \in [Threads -> Labels] /\ member \in [Threads -> Nat]
        /\ offset \in [Threads -> Nat] /\ batch \in [Threads -> Seq(Infos)]
        /\ Covered(t) /\ OffsetOK(t) /\ BatchOK(t)
    BY DEF LayoutInv, Typed
  <1>3. ASSUME \A u \in Threads \ {t} : /\ offset'[u] = offset[u] /\ batch'[u] = batch[u]
                                       /\ member'[u] = member[u] /\ pc'[u] = pc[u],
               Covered(t)'
        PROVE  \A u \in Threads : Covered(u)'
    BY <1>1, <1>3, OtherCovered
  <1>4. ASSUME UNCHANGED <<offset, batch, member, pc>> PROVE \A u \in Threads : Covered(u)'
    BY <1>1, <1>4, OtherCovered
  <1>5. CASE Open(t) \/ CannotOpen(t)
    <2>1. UNCHANGED <<offset, batch, member>> /\ pc[t] = "open"
      BY <1>5 DEF Open, CannotOpen, At
    <2>2. /\ pc'[t] # "flush" /\ pc[t] # "flush"
          /\ \A u \in Threads \ {t} : pc'[u] = pc[u]
      BY <1>2, <1>5, <2>1 DEF Open, CannotOpen, Goto
    <2>3. Covered(t)'
      BY <1>1, <1>2, <2>1, <2>2, OtherCovered
    <2> QED
      BY <1>3, <2>1, <2>2, <2>3
  <1>6. CASE CopyFromSeed(t)
    <2>1. /\ InLoop(t) /\ UNCHANGED <<batch, member, pc>>
          /\ offset' = [offset EXCEPT ![t] = offset[t] + in.block_size]
      BY <1>6 DEF CopyFromSeed
    <2>2. PICK i \in Indices : i = Block(t) /\ BlockRight(i)'
      BY <1>6, CopyWrites
    <2>3. \A k \in Indices : Waiting(t, k) => Waiting(t, k)'
      BY <2>1 DEF Waiting
    <2>4. offset'[t] = offset[t] + in.block_size
      BY <1>2, <2>1
    <2>5. Covered(t)'
      BY <1>1, <1>2, <2>1, <2>2, <2>3, <2>4, LoopCovered
    <2> QED
      BY <1>2, <1>3, <2>1, <2>5
  <1>7. CASE Enqueue(t)
    <2> DEFINE b == Append(batch[t], RetrievalInfo(t))
               n == Len(batch[t])
    <2>1. /\ InLoop(t) /\ pc[t] = "loop"
          /\ batch' = [batch EXCEPT ![t] = b]
          /\ offset' = [offset EXCEPT ![t] = offset[t] + in.block_size]
          /\ \/ pc' = [pc EXCEPT ![t] = "flush"] /\ member' = [member EXCEPT ![t] = 1]
             \/ pc' = pc /\ member' = member
      BY <1>7 DEF Enqueue, Goto, InLoop, At
    <2>2. PICK i \in Indices : i = Block(t) /\ RetrievalInfo(t) = Queued(i)
      BY <2>1, LoopFacts
    <2>3. /\ n \in Nat /\ Len(b) = n + 1 /\ b[n + 1].block_index = i
          /\ \A k \in 1 .. n : b[k] = batch[t][k]
      <3>1. batch[t] \in Seq(Infos) /\ n \in Nat
        BY <1>2, LenProperties
      <3>2. Queued(i) \in Infos /\ Queued(i).block_index = i
        BY QueuedFacts DEF LayoutInv, Typed
      <3> QED
        BY <2>2, <3>1, <3>2, AppendProperties
    <2> HIDE DEF b, n
    <2>4. /\ batch'[t] = b /\ offset'[t] = offset[t] + in.block_size
          /\ pc'[t] = "flush" => member'[t] = 1
      BY <1>2, <2>1
    <2>5. Waiting(t, i)'
      <3>1. n + 1 \in 1 .. Len(b) /\ 1 <= n + 1
        BY <2>3
      <3> QED
        BY <2>3, <2>4, <3>1 DEF Waiting
    <2>6. ASSUME NEW k \in Indices, Waiting(t, k) PROVE Waiting(t, k)'
      <3>1. PICK m \in 1 .. n : batch[t][m].block_index = k
        BY <2>6 DEF Waiting, n
      <3>2. m \in 1 .. Len(b) /\ 1 <= m /\ b[m].block_index = k
        BY <2>3, <3>1
      <3> QED
        BY <2>4, <3>2 DEF Waiting
    <2>7. Covered(t)'
      BY <1>1, <1>2, <2>1, <2>2, <2>4, <2>5, <2>6, LoopCovered
    <2> QED
      BY <1>2, <1>3, <2>1, <2>7
  <1>8. CASE FlushMember(t)
    <2>1. /\ offset' = offset /\ pc[t] = "flush" /\ NextMember(t)
          /\ member[t] \in 1 .. Len(batch[t])
      BY <1>2, <1>8 DEF FlushMember, At, BatchOK
    <2>2. PICK i \in Indices : i = Info(t).block_index /\ BlockRight(i)'
      BY <1>8, FlushWrites
    <2>3. Len(batch[t]) \in Nat
      BY <1>2, LenProperties
    <2> DEFINE More == /\ member[t] < Len(batch[t])
                       /\ member' = [member EXCEPT ![t] = member[t] + 1]
                       /\ pc' = pc /\ batch' = batch
               Last == /\ ~ (member[t] < Len(batch[t]))
                       /\ member' = [member EXCEPT ![t] = 0]
                       /\ batch' = [batch EXCEPT ![t] = <<>>]
                       /\ pc' = [pc EXCEPT ![t] = "loop"]
    <2>4. More \/ Last
      BY <2>1 DEF NextMember, Goto
    <2>5. ASSUME NEW k \in Indices, Waiting(t, k), k # i PROVE Waiting(t, k)'
      <3>1. PICK m \in 1 .. Len(batch[t]) : batch[t][m].block_index = k /\ member[t] <= m
        BY <2>1, <2>5 DEF Waiting
      <3>2. m # member[t]
        BY <2>2, <2>5, <3>1 DEF Info
      <3>3. member[t] < m /\ member[t] < Len(batch[t])
        BY <2>1, <2>3, <3>1, <3>2
      <3>4. More
        BY <2>4, <3>3
      <3>5. batch'[t] = batch[t] /\ member'[t] <= m
        BY <1>2, <2>1, <2>3, <3>1, <3>3, <3>4
      <3> QED
        BY <3>1, <3>5 DEF Waiting
    <2>6. ASSUME NEW k \in Indices, Passed(t, k) PROVE BlockRight(k)' \/ Waiting(t, k)'
      <3>1. BlockRight(k) \/ Waiting(t, k)
        BY <1>2, <2>6 DEF Covered, Passed
      <3> QED
        BY <1>1, <2>2, <2>5, <3>1, RightStays
    <2>7. \A k \in Indices : Passed(t, k)' <=> Passed(t, k)
      BY <1>1, <2>1, SameInput DEF Passed
    <2>8. Covered(t)'
      BY <1>1, <2>6, <2>7, SameInput DEF Covered, Passed
    <2>9. \A u \in Threads \ {t} : /\ offset'[u] = offset[u] /\ batch'[u] = batch[u]
                                  /\ member'[u] = member[u] /\ pc'[u] = pc[u]
      BY <1>2, <2>1, <2>4
    <2> QED
      BY <1>3, <2>8, <2>9
  <1>9. CASE FlushTrailing(t) \/ FinishChunk(t)
    <2>1. /\ UNCHANGED <<offset, batch>> /\ pc[t] = "loop"
          /\ \/ pc' = [pc EXCEPT ![t] = "flush"] /\ member' = [member EXCEPT ![t] = 1]
             \/ pc' = [pc EXCEPT ![t] = "done"] /\ member' = member
      BY <1>9 DEF FlushTrailing, FinishChunk, At, Goto
    <2>2. pc'[t] = "flush" => member'[t] = 1
      BY <1>2, <2>1
    <2>3. ASSUME NEW k \in Indices, Waiting(t, k) PROVE Waiting(t, k)'
      <3>1. PICK m \in 1 .. Len(batch[t]) : batch[t][m].block_index = k
        BY <2>3 DEF Waiting
      <3>2. 1 <= m
        BY <3>1
      <3> QED
        BY <2>1, <2>2, <3>1, <3>2 DEF Waiting
    <2>4. ASSUME NEW k \in Indices, Passed(t, k) PROVE BlockRight(k)' \/ Waiting(t, k)'
      <3>1. BlockRight(k) \/ Waiting(t, k)
        BY <1>2, <2>4 DEF Covered, Passed
      <3> QED
        BY <1>1, <2>3, <3>1, RightStays
    <2>5. \A k \in Indices : Passed(t, k)' <=> Passed(t, k)
      BY <1>1, <2>1, SameInput DEF Passed
    <2>6. Covered(t)'
      BY <1>1, <2>4, <2>5, SameInput DEF Covered, Passed
    <2>7. \A u \in Threads \ {t} : /\ offset'[u] = offset[u] /\ batch'[u] = batch[u]
                                  /\ member'[u] = member[u] /\ pc'[u] = pc[u]
      BY <1>2, <2>1
    <2> QED
      BY <1>3, <2>6, <2>7
  <1>10. CASE SeedBlockHasWrongSize(t) \/ MemberNotAFrame(t) \/ MemberHasWrongSize(t)
    BY <1>4, <1>10 DEF SeedBlockHasWrongSize, MemberNotAFrame, MemberHasWrongSize, Abort, threadVars
  <1> QED
    BY <1>5, <1>6, <1>7, <1>8, <1>9, <1>10 DEF Step

\* Why the process aborts, and when the output is verified.
LEMMA VerdictStep ==
  ASSUME LayoutInv, in.genuine, OverWhenVerified, CauseOK, [Next]_vars
  PROVE  OverWhenVerified' /\ CauseOK'
  <1>1. Onward /\ in' = in /\ Threads' = Threads
    BY StepOnward, SameInput DEF Onward
  <1>2. ASSUME UNCHANGED <<status, cause, output, pc>> PROVE OverWhenVerified' /\ CauseOK'
    BY <1>1, <1>2 DEF OverWhenVerified, CauseOK, ZeroFree
  <1>3. ASSUME NEW t \in Threads, Step(t) \/ CannotOpen(t) PROVE OverWhenVerified' /\ CauseOK'
    <2>1. status = "running" /\ cause = "none"
      BY <1>3 DEF CauseOK, Step, Open, CannotOpen, CopyFromSeed, SeedBlockHasWrongSize, Enqueue,
         FlushMember, MemberNotAFrame, MemberHasWrongSize, FlushTrailing, FinishChunk, InLoop, At
    <2>2. CASE UNCHANGED <<status, cause>>
      BY <2>1, <2>2 DEF OverWhenVerified, CauseOK
    <2>3. CASE SeedBlockHasWrongSize(t)
      <3>1. /\ InLoop(t) /\ FoundInSeed(t) /\ Len(SeedBytes(t)) # ExpectedSize(Block(t))
            /\ status' = "aborted" /\ cause' = "seed block size"
        BY <2>3 DEF SeedBlockHasWrongSize, SizeValid, Abort
      <3>2. ~ ZeroFree
        BY <3>1, SeedCopyIsBlock
      <3> QED
        BY <1>1, <3>1, <3>2 DEF OverWhenVerified, CauseOK, ZeroFree
    <2>4. CASE MemberNotAFrame(t) \/ MemberHasWrongSize(t)
      <3>1. At(t, "flush") /\ ~ (Decodes(t) /\ Len(Decoded(t)) = ExpectedSize(Info(t).block_index))
        BY <2>4 DEF MemberNotAFrame, MemberHasWrongSize, SizeValid
      <3>2. PICK i \in Indices : Info(t) = Queued(i)
        BY <3>1, FlushFacts
      <3>3. Info(t).block_index = i
        BY <3>2, QueuedFacts DEF LayoutInv, Typed
      <3> QED
        BY <3>1, <3>2, <3>3, MemberIsBlock
    <2> QED
      BY <1>3, <2>2, <2>3, <2>4 DEF Step, Open, CannotOpen, CopyFromSeed, Enqueue,
         FlushMember, FlushTrailing, FinishChunk
  <1>4. CASE Join
    BY <1>1, <1>4 DEF Join, AllOver, threadVars, OverWhenVerified, CauseOK
  <1>5. CASE Accept
    BY <1>1, <1>5 DEF Accept, threadVars, OverWhenVerified, CauseOK
  <1>6. CASE Reject
    <2>1. /\ status = "verifying" /\ output # in.source /\ status' = "aborted" /\ cause' = "hash"
          /\ UNCHANGED <<output, pc>>
      BY <1>6 DEF Reject, HashMatches, Abort, threadVars
    <2> QED
      BY <1>1, <2>1 DEF OverWhenVerified, CauseOK
  <1>7. CASE WaitForever
    BY <1>1, <1>7 DEF WaitForever, AtPhaseStart, OverWhenVerified, CauseOK
  <1>8. CASE UNCHANGED vars
    BY <1>2, <1>8 DEF vars, threadVars
  <1> QED
    BY <1>3, <1>4, <1>5, <1>6, <1>7, <1>8 DEF Next

LEMMA ContentStep == LayoutInv /\ ContentInv /\ [Next]_vars => ContentInv'
  <1> SUFFICES ASSUME LayoutInv, ContentInv, [Next]_vars, in'.genuine
               PROVE  (\A u \in Threads' : Covered(u)') /\ OverWhenVerified' /\ CauseOK'
    BY DEF ContentInv
  <1>1. in' = in
    <2>1. CASE \E t \in Threads : Step(t) \/ CannotOpen(t)
      BY <2>1 DEF Step, Open, CannotOpen, CopyFromSeed, SeedBlockHasWrongSize, Enqueue,
         FlushMember, MemberNotAFrame, MemberHasWrongSize, FlushTrailing, FinishChunk, Abort
    <2> QED
      BY <2>1 DEF Next, Join, Accept, Reject, WaitForever, Abort, vars
  <1>2. /\ in.genuine /\ Threads' = Threads /\ OverWhenVerified /\ CauseOK
        /\ \A u \in Threads : Covered(u)
    BY <1>1, SameInput DEF ContentInv
  <1>3. OverWhenVerified' /\ CauseOK'
    BY <1>2, VerdictStep
  <1>4. \A u \in Threads : Covered(u)'
    <2>1. CASE \E t \in Threads : Step(t) \/ CannotOpen(t)
      BY <1>2, <2>1, ThreadStepCovered
    <2>2. CASE ~ \E t \in Threads : Step(t) \/ CannotOpen(t)
      <3>1. UNCHANGED <<output, offset, batch, member, pc>>
        BY <2>2 DEF Next, Join, Accept, Reject, WaitForever, Abort, threadVars, vars
      <3>2. Onward
        BY <1>2, StepOnward
      <3> QED
        BY <1>2, <3>1, <3>2, OtherCovered
    <2> QED
      BY <2>1, <2>2
  <1> QED
    BY <1>2, <1>3, <1>4

LEMMA ContentInvariant == Spec => [](LayoutInv /\ ContentInv)
  <1>1. Init => ContentInv
    <2> SUFFICES ASSUME Init PROVE (\A t \in Threads : Covered(t)) /\ OverWhenVerified /\ CauseOK
      BY DEF ContentInv
    <2>1. LayoutInv
      BY InitLayout
    <2>2. ASSUME NEW t \in Threads PROVE Covered(t)
      <3>1. offset[t] = Beg(Call, t) /\ in \in Inputs
        BY DEF Init
      <3>2. Beg(Call, t) \in Nat
        BY <3>1, ChunkInside
      <3>3. \A i \in Indices : BlockStart(i) \in Nat
        BY <3>1, BlockFacts
      <3> QED
        BY <3>1, <3>2, <3>3 DEF Covered
    <2> QED
      BY <2>2 DEF Init, OverWhenVerified, CauseOK
  <1> QED
    BY <1>1, InitLayout, LayoutStep, ContentStep, PTL DEF Spec

\* When all blocks are right the output is the source.
LEMMA AllRight ==
  ASSUME LayoutInv, \A i \in Indices : BlockRight(i)
  PROVE  output = in.source
  <1>1. /\ in \in Inputs /\ output \in Seq(Int) /\ in.source \in Seq(Int)
        /\ Len(output) = in.size /\ Len(in.source) = in.size
        /\ in.size \in Nat /\ in.block_size \in Nat \ {0}
    BY InputFacts DEF LayoutInv, Typed, Bytes
  <1>2. ASSUME NEW j \in 1 .. in.size PROVE output[j] = in.source[j]
    <2> DEFINE k == IndexAt(j - 1)
    <2>1. j - 1 \in Nat
      OBVIOUS
    <2>2. k \in Nat /\ BlockStart(k) <= j - 1 /\ j - 1 < BlockStart(k) + in.block_size
      BY <1>1, <2>1, DivBounds DEF IndexAt, BlockStart
    <2> HIDE DEF k
    <2>3. BlockStart(k) \in Nat /\ IndexAt(BlockStart(k)) = k
      BY <1>1, <2>2, NextBlockStart
    <2>4. BlockStart(k) < in.size
      BY <1>1, <2>1, <2>2, <2>3
    <2>5. k \in Indices
      BY <1>1, <2>3, <2>4, OffsetHasBlock
    <2>6. ExpectedSize(k) = Min2(in.block_size, in.size - BlockStart(k))
      BY <1>1, <2>5, BlockFacts
    <2> DEFINE m == j - BlockStart(k)
    <2>7. m \in 1 .. ExpectedSize(k) /\ BlockStart(k) + m = j
      <3>1. /\ m \in Int /\ 1 <= m /\ m <= in.block_size /\ m <= in.size - BlockStart(k)
            /\ BlockStart(k) + m = j
        <4>1. j \in Int /\ j <= in.size /\ BlockStart(k) \in Int /\ in.block_size \in Int
          BY <1>1, <2>3
        <4>2. BlockStart(k) <= j - 1 /\ j - 1 < BlockStart(k) + in.block_size
          BY <2>2
        <4> QED
          BY <1>1, <4>1, <4>2, SMTT(30)
      <3> HIDE DEF m
      <3>2. m <= ExpectedSize(k) /\ ExpectedSize(k) \in Int
        BY <1>1, <2>3, <2>6, <3>1 DEF Min2
      <3> QED
        BY <3>1, <3>2
    <2>8. output[BlockStart(k) + m] = in.source[BlockStart(k) + m]
      <3> HIDE DEF m
      <3> QED
        BY <2>5, <2>7 DEF BlockRight
    <2> QED
      BY <2>7, <2>8
  <1> QED
    BY <1>1, <1>2, SeqEqual

\* With the data file of the source and no zero bytes, the only way to fail is a
\* task that could not open its files.
THEOREM FailuresAreReal == Spec => []NoSpuriousFailure
  <1>1. LayoutInv /\ ContentInv => NoSpuriousFailure
    <2> SUFFICES ASSUME LayoutInv, ContentInv, in.genuine, ZeroFree, status = "aborted"
                 PROVE  cause = "hash" /\ \E t \in Threads : pc[t] = "threw"
      BY DEF NoSpuriousFailure
    <2>1. /\ cause = "hash" /\ output # in.source
          /\ \A t \in Threads : pc[t] \in {"done", "threw"} /\ Covered(t)
      BY DEF ContentInv, CauseOK, OverWhenVerified
    <2>2. ASSUME \A t \in Threads : pc[t] # "threw" PROVE FALSE
      <3>1. in \in Inputs
        BY DEF LayoutInv, Typed
      <3>2. ASSUME NEW i \in Indices PROVE BlockRight(i)
        <4>1. PICK t \in Threads : Beg(Call, t) <= BlockStart(i) /\ BlockStart(i) < ChunkEnd(t)
          <5>1. i \in 0 .. BlockCount(Call.size, Call.block) - 1
            BY <3>1, InputFacts DEF Indices, IndicesOf
          <5> QED
            BY <3>1, <5>1, InputFacts, BlockHasOwner DEF Threads, ChunkEnd, BlockStart
        <4>2. pc[t] = "done" /\ batch[t] = <<>> /\ ChunkEnd(t) <= offset[t] /\ offset[t] \in Nat
          BY <2>1, <2>2 DEF LayoutInv, Typed, OffsetOK, BatchOK
        <4>3. BlockStart(i) \in Nat /\ ChunkEnd(t) \in Nat
          BY <3>1, BlockFacts, ChunkInside
        <4>4. BlockStart(i) < offset[t]
          BY <4>1, <4>2, <4>3
        <4>5. BlockRight(i) \/ Waiting(t, i)
          BY <2>1, <4>1, <4>4 DEF Covered
        <4>6. ~ Waiting(t, i)
          <5>1. 1 .. Len(batch[t]) = {}
            BY <4>2
          <5> QED
            BY <5>1 DEF Waiting
        <4> QED
          BY <4>5, <4>6
      <3> QED
        BY <2>1, <3>2, AllRight
    <2> QED
      BY <2>1, <2>2
  <1> QED
    BY ContentInvariant, <1>1, PTL

-----------------------------------------------------------------------------
(* What is counted. *)

Found == {i \in Indices : in.seed_offsets[i] # kInvalidOffset}

\* What waits in a batch is not in the seed, lies behind the thread, and waits once.
QueueOK(t) ==
  /\ \A k \in 1 .. Len(batch[t]) :
       LET i == batch[t][k].block_index
       IN  i \in Indices \ Found /\ Passed(t, i)
  /\ \A k, l \in 1 .. Len(batch[t]) :
       batch[t][k].block_index = batch[t][l].block_index => k = l

\* The blocks thread t has written, and those that are written at all.
HandledBy(t) == {i \in Indices : Passed(t, i) /\ ~ Waiting(t, i)}
Handled == {i \in Indices : \E t \in Threads : i \in HandledBy(t)}

\* The bytes the source has in a set of blocks.
SizesOf(S) == [i \in Indices |-> IF i \in S THEN ExpectedSize(i) ELSE 0]
SizeOf(S) == Total(SizesOf(S), Blocks)

CountersOK ==
  /\ reused = SizeOf(Handled \cap Found)
  /\ progress = SizeOf(Handled)
  /\ in.compressed => decompressed = SizeOf(Handled \ Found)
  /\ ~ in.compressed => downloaded <= SizeOf(Handled \ Found)
  /\ in.genuine /\ ~ in.compressed => downloaded = SizeOf(Handled \ Found)

OverWhenJoined ==
  status \in {"verifying", "ok"} => \A t \in Threads : pc[t] \in {"done", "threw"}

AccountInv == (\A t \in Threads : QueueOK(t)) /\ CountersOK /\ OverWhenJoined

LEMMA SizesFacts ==
  ASSUME in \in Inputs, NEW S
  PROVE  /\ Blocks \in Nat /\ Indices = 0 .. Blocks - 1
         /\ SizesOf(S) \in [0 .. Blocks - 1 -> Nat]
         /\ \A i \in 0 .. Blocks - 1 : SizesOf(S)[i] = IF i \in S THEN ExpectedSize(i) ELSE 0
         /\ SizeOf(S) \in Nat
  <1>1. Blocks \in Nat
    <2>1. in.size \in Nat /\ in.block_size \in Nat \ {0}
      BY InputFacts
    <2> QED
      BY <2>1, CeilDivBounds DEF Blocks, BlockCount
  <1>2. Indices = 0 .. Blocks - 1
    BY DEF Indices, IndicesOf, Blocks
  <1>3. \A i \in Indices : ExpectedSize(i) \in Nat
    BY BlockFacts
  <1>4. SizesOf(S) \in [Indices -> Nat]
    BY <1>3 DEF SizesOf
  <1>5. SizesOf(S) \in [0 .. Blocks - 1 -> Nat]
    BY <1>2, <1>4
  <1>6. SizeOf(S) \in Nat
    BY <1>1, <1>5, TotalIsNumber DEF SizeOf
  <1> QED
    BY <1>1, <1>2, <1>5, <1>6 DEF SizesOf

\* One block more.
LEMMA SizeOfMore ==
  ASSUME in \in Inputs, NEW S, NEW m \in Indices, m \notin S
  PROVE  SizeOf(S \union {m}) = SizeOf(S) + ExpectedSize(m)
  <1> DEFINE f == SizesOf(S)
             h == SizesOf(S \union {m})
             d == ExpectedSize(m)
  <1>1. /\ Blocks \in Nat /\ m \in 0 .. Blocks - 1 /\ d \in Nat
        /\ f \in [0 .. Blocks - 1 -> Nat] /\ h \in [0 .. Blocks - 1 -> Nat]
    BY SizesFacts, BlockFacts
  <1>2. f[m] = 0
    BY <1>1, SizesFacts
  <1>3. \A i \in 0 .. Blocks - 1 : h[i] = IF i = m THEN d ELSE f[i]
    BY <1>1, SizesFacts
  <1> HIDE DEF f, h, d
  <1>4. h = [f EXCEPT ![m] = d]
    BY <1>1, <1>3
  <1>5. Filled(f, m, d, h)
    BY <1>2, <1>4 DEF Filled
  <1>6. Total(h, Blocks) = Total(f, Blocks) + d
    <2>1. Blocks \in Nat
      BY <1>1
    <2>2. f \in [0 .. Blocks - 1 -> Nat]
      BY <1>1
    <2>3. h \in [0 .. Blocks - 1 -> Nat]
      BY <1>1
    <2>4. m \in 0 .. Blocks - 1
      BY <1>1
    <2>5. d \in Nat
      BY <1>1
    <2> QED
      BY <1>5, <2>1, <2>2, <2>3, <2>4, <2>5, TotalGrows, ZenonT(60)
  <1> QED
    BY <1>6 DEF SizeOf, f, h, d

LEMMA SizeOfNothing ==
  ASSUME in \in Inputs
  PROVE  SizeOf({}) = 0
  <1> DEFINE f == SizesOf({})
  <1>1. Blocks \in Nat /\ f \in [0 .. Blocks - 1 -> Nat] /\ \A k \in 0 .. Blocks - 1 : f[k] = 0
    BY SizesFacts
  <1> HIDE DEF f
  <1>2. Total(f, Blocks) = 0
    BY <1>1, TotalOfZeros
  <1> QED
    BY <1>2 DEF SizeOf, f

\* The blocks of a set and the others.
LEMMA SizeOfBoth ==
  ASSUME in \in Inputs, NEW S \in SUBSET Indices
  PROVE  SizeOf(Indices) = SizeOf(S) + SizeOf(Indices \ S)
  <1> DEFINE f == SizesOf(S)
             g == SizesOf(Indices \ S)
             h == SizesOf(Indices)
  <1>1. /\ Blocks \in Nat
        /\ f \in [0 .. Blocks - 1 -> Nat] /\ g \in [0 .. Blocks - 1 -> Nat]
        /\ h \in [0 .. Blocks - 1 -> Nat]
    BY SizesFacts
  <1>2. ASSUME NEW k \in 0 .. Blocks - 1 PROVE h[k] = f[k] + g[k]
    <2>1. k \in Indices /\ ExpectedSize(k) \in Nat
      BY SizesFacts, BlockFacts
    <2>2. /\ f[k] = IF k \in S THEN ExpectedSize(k) ELSE 0
          /\ g[k] = IF k \in S THEN 0 ELSE ExpectedSize(k)
          /\ h[k] = ExpectedSize(k)
      BY <2>1, SizesFacts
    <2> HIDE DEF f, g, h
    <2> QED
      BY <2>1, <2>2
  <1> HIDE DEF f, g, h
  <1>3. AddedUp(f, g, h, Blocks)
    BY <1>2 DEF AddedUp
  <1>4. Total(h, Blocks) = Total(f, Blocks) + Total(g, Blocks)
    BY <1>1, <1>3, TotalOfBoth
  <1> QED
    BY <1>4 DEF SizeOf, f, g, h

\* All blocks but the last one are whole.
LEMMA WholeBlock ==
  ASSUME in \in Inputs, NEW i \in 0 .. Blocks - 1
  PROVE  ExpectedSize(i) = IF i < Blocks - 1 \/ in.size % in.block_size = 0
                           THEN in.block_size ELSE in.size % in.block_size
  BY DEF ExpectedSize

\* All blocks together are the source.
LEMMA SizeOfAll ==
  ASSUME in \in Inputs
  PROVE  SizeOf(Indices) = in.size
  <1> DEFINE f == SizesOf(Indices)
             s == SumsOf(f, Blocks)
             b == in.block_size
             at(k) == k * b
             n == in.size
             T == {k \in Nat : k <= Blocks => s[k] = Min2(at(k), n)}
  <1>1. /\ Blocks \in Nat /\ Indices = 0 .. Blocks - 1 /\ f \in [0 .. Blocks - 1 -> Nat]
        /\ \A i \in 0 .. Blocks - 1 : f[i] = ExpectedSize(i)
    BY SizesFacts
  <1>2. n \in Nat /\ b \in Nat \ {0} /\ n <= at(Blocks)
    <2>1. n \in Nat /\ b \in Nat \ {0}
      BY InputFacts
    <2> QED
      BY <2>1, CeilDivBounds DEF Blocks, BlockCount
  <1>3. ASSUME NEW k \in 0 .. Blocks - 1
        PROVE  /\ ExpectedSize(k) = Min2(b, n - at(k)) /\ at(k) \in Nat /\ at(k) < n
               /\ at(k + 1) = at(k) + b
    <2>1. k \in Indices /\ k \in Nat
      BY <1>1
    <2>2. at(k + 1) = at(k) + b
      BY <1>2, <2>1, NextMultiple
    <2> QED
      BY <2>1, <2>2, BlockFacts DEF BlockStart
  <1>4. at(0) = 0 /\ at(Blocks) \in Nat
    BY <1>1, <1>2
  <1> HIDE DEF f, at, n, b
  <1>5. s[0] = 0 /\ \A k \in 0 .. Blocks - 1 : s[k + 1] = s[k] + f[k]
    BY <1>1, SumsDefined
  <1> HIDE DEF s
  <1>6. 0 \in T
    BY <1>2, <1>4, <1>5 DEF Min2
  <1>7. ASSUME NEW k \in Nat, k \in T PROVE k + 1 \in T
    <2> SUFFICES ASSUME k + 1 <= Blocks PROVE s[k + 1] = Min2(at(k + 1), n)
      OBVIOUS
    <2>1. k \in 0 .. Blocks - 1 /\ s[k] = Min2(at(k), n)
      BY <1>1, <1>7
    <2>2. s[k + 1] = s[k] + f[k] /\ f[k] = Min2(b, n - at(k)) /\ at(k) \in Nat /\ at(k) < n
          /\ at(k + 1) = at(k) + b
      BY <1>1, <1>3, <1>5, <2>1
    <2> QED
      BY <1>2, <2>1, <2>2 DEF Min2
  <1> HIDE DEF T
  <1>8. \A k \in Nat : k \in T
    BY <1>6, <1>7, SetInduction
  <1>9. Blocks \in T
    BY <1>1, <1>8
  <1>10. s[Blocks] = n
    BY <1>1, <1>2, <1>4, <1>9 DEF T, Min2
  <1> QED
    BY <1>10 DEF s, f, n, SizeOf, Total

\* What a set of blocks holds: whole blocks, but for a short last one.
LEMMA SizeOfSet ==
  ASSUME in \in Inputs, NEW S \in SUBSET Indices
  PROVE  /\ Cardinality(S) \in Nat
         /\ SizeOf(S) = Cardinality(S) * in.block_size
                        - IF in.size % in.block_size # 0 /\ Blocks - 1 \in S
                          THEN in.block_size - (in.size % in.block_size) ELSE 0
  <1> DEFINE f == SizesOf(S)
             s == SumsOf(f, Blocks)
             b == in.block_size
             r == in.size % in.block_size
             upto(k) == S \cap (0 .. k - 1)
             c(k) == Cardinality(upto(k))
             T == {k \in Nat : k <= Blocks =>
                     /\ IsFiniteSet(upto(k)) /\ c(k) \in Nat
                     /\ s[k] = c(k) * b - IF r # 0 /\ Blocks - 1 \in upto(k) THEN b - r ELSE 0}
  <1>1. /\ Blocks \in Nat /\ Indices = 0 .. Blocks - 1 /\ f \in [0 .. Blocks - 1 -> Nat]
        /\ \A i \in 0 .. Blocks - 1 : f[i] = IF i \in S THEN ExpectedSize(i) ELSE 0
    BY SizesFacts
  <1>2. b \in Nat \ {0} /\ r \in Nat
    <2>1. in.size \in Nat /\ b \in Nat \ {0}
      BY InputFacts
    <2> QED
      BY <2>1
  <1>3. \A i \in 0 .. Blocks - 1 :
          ExpectedSize(i) = IF i < Blocks - 1 \/ r = 0 THEN b ELSE r
    BY WholeBlock
  <1> HIDE DEF f, b, r
  <1>4. s[0] = 0 /\ \A k \in 0 .. Blocks - 1 : s[k + 1] = s[k] + f[k]
    BY <1>1, SumsDefined
  <1> HIDE DEF s
  <1>5. 0 \in T
    <2>1. upto(0) = {}
      OBVIOUS
    <2>2. IsFiniteSet(upto(0)) /\ c(0) = 0
      BY <2>1, FS_EmptySet
    <2>3. 0 * b = 0
      BY <1>2
    <2> QED
      BY <1>4, <2>1, <2>2, <2>3
  <1>6. ASSUME NEW k \in Nat, k \in T PROVE k + 1 \in T
    <2> SUFFICES ASSUME k + 1 <= Blocks
                 PROVE  /\ IsFiniteSet(upto(k + 1)) /\ c(k + 1) \in Nat
                        /\ s[k + 1] = c(k + 1) * b
                             - IF r # 0 /\ Blocks - 1 \in upto(k + 1) THEN b - r ELSE 0
      OBVIOUS
    <2>1. /\ k \in 0 .. Blocks - 1 /\ IsFiniteSet(upto(k)) /\ c(k) \in Nat
          /\ s[k] = c(k) * b - IF r # 0 /\ Blocks - 1 \in upto(k) THEN b - r ELSE 0
      BY <1>1, <1>6
    <2>2. Blocks - 1 \notin upto(k)
      BY <1>1, <2>1
    <2>3. s[k] = c(k) * b
      <3>1. c(k) * b \in Nat
        BY <1>2, <2>1
      <3> HIDE DEF c
      <3> QED
        BY <2>1, <2>2, <3>1
    <2>4. s[k + 1] = c(k) * b + f[k] /\ f[k] = IF k \in S THEN ExpectedSize(k) ELSE 0
      BY <1>1, <1>4, <2>1, <2>3
    <2>5. CASE k \in S
      <3>1. upto(k + 1) = upto(k) \union {k} /\ k \notin upto(k)
        BY <2>5
      <3>2. IsFiniteSet(upto(k + 1)) /\ c(k + 1) = c(k) + 1
        <4> DEFINE U == upto(k)
        <4>1. IsFiniteSet(U) /\ k \notin U
          BY <2>1, <3>1
        <4> HIDE DEF U
        <4>2. IsFiniteSet(U \union {k}) /\ Cardinality(U \union {k}) = Cardinality(U) + 1
          BY <4>1, FS_AddElement
        <4>3. upto(k + 1) = U \union {k}
          BY <3>1 DEF U
        <4> HIDE DEF upto
        <4> QED
          BY <4>2, <4>3 DEF U
      <3>3. (c(k) + 1) * b = c(k) * b + b /\ c(k) * b \in Nat
        BY <1>2, <2>1, NextMultiple
      <3>4. Blocks - 1 \in upto(k + 1) <=> k = Blocks - 1
        BY <1>1, <2>1, <2>2, <3>1
      <3> DEFINE x == c(k) * b
      <3>5. s[k + 1] = x + ExpectedSize(k) /\ c(k + 1) * b = x + b /\ x \in Nat
        BY <2>4, <2>5, <3>2, <3>3
      <3>6. c(k + 1) \in Nat
        BY <2>1, <3>2
      <3> DEFINE last == Blocks - 1 \in upto(k + 1)
      <3>10. last <=> k = Blocks - 1
        BY <3>4
      <3> HIDE DEF upto, c, x, last
      <3>7. ExpectedSize(k) = IF k < Blocks - 1 \/ r = 0 THEN b ELSE r
        BY <1>3, <2>1
      <3>8. x + ExpectedSize(k) = x + b - IF r # 0 /\ last THEN b - r ELSE 0
        BY <1>1, <1>2, <2>1, <3>5, <3>7, <3>10
      <3>9. s[k + 1] = c(k + 1) * b - IF r # 0 /\ last THEN b - r ELSE 0
        <4> DEFINE y == c(k + 1) * b
        <4>1. y = x + b
          BY <3>5
        <4> HIDE DEF y
        <4> DEFINE short == IF r # 0 /\ last THEN b - r ELSE 0
        <4>2. s[k + 1] = x + b - short
          BY <3>5, <3>8
        <4>3. x \in Nat /\ b \in Nat /\ short \in Int
          BY <1>2, <3>5
        <4> HIDE DEF short
        <4>4. s[k + 1] = y - short
          BY <4>1, <4>2, <4>3
        <4> QED
          BY <4>4 DEF y, short
      <3> QED
        BY <3>2, <3>6, <3>9 DEF last
    <2>6. CASE k \notin S
      <3>1. upto(k + 1) = upto(k)
        BY <2>6
      <3>2. c(k) * b \in Nat
        BY <1>2, <2>1
      <3>3. s[k + 1] = c(k) * b
        BY <2>4, <2>6, <3>2
      <3>4. c(k + 1) = c(k)
        BY <3>1
      <3> HIDE DEF upto, c
      <3> QED
        BY <2>1, <2>2, <3>1, <3>2, <3>3, <3>4
    <2> QED
      BY <2>5, <2>6
  <1> HIDE DEF T
  <1>7. \A k \in Nat : k \in T
    BY <1>5, <1>6, SetInduction
  <1>8. Blocks \in T /\ upto(Blocks) = S
    BY <1>1, <1>7
  <1>9. /\ Cardinality(S) \in Nat
        /\ s[Blocks] = Cardinality(S) * b - IF r # 0 /\ Blocks - 1 \in S THEN b - r ELSE 0
    <2>1. /\ c(Blocks) \in Nat
          /\ s[Blocks] = c(Blocks) * b
               - IF r # 0 /\ Blocks - 1 \in upto(Blocks) THEN b - r ELSE 0
      <3> HIDE DEF c, upto
      <3> QED
        BY <1>1, <1>8 DEF T
    <2> QED
      BY <1>8, <2>1
  <1> QED
    BY <1>9 DEF s, f, b, r, SizeOf, Total

\* A block belongs to the chunk of one thread only.
LEMMA BlockOfOne ==
  ASSUME in \in Inputs, NEW i \in Indices, NEW t \in Threads, NEW u \in Threads,
         Beg(Call, t) <= BlockStart(i), BlockStart(i) < ChunkEnd(t),
         Beg(Call, u) <= BlockStart(i), BlockStart(i) < ChunkEnd(u)
  PROVE  t = u
  <1>1. IsCall(Call) /\ Call.overlap = 0
    BY InputFacts
  <1>2. /\ t \in Nat /\ u \in Nat /\ BlockStart(i) \in Nat
        /\ Beg(Call, t) \in Nat /\ Beg(Call, u) \in Nat
        /\ ChunkEnd(t) \in Nat /\ ChunkEnd(u) \in Nat
    BY ChunkInside, BlockFacts
  <1>3. ~ (t < u)
    <2> SUFFICES ASSUME t < u PROVE FALSE
      OBVIOUS
    <2>1. ChunkEnd(t) <= Beg(Call, u)
      BY <1>1, <1>2, RangesDisjoint DEF ChunkEnd
    <2> QED
      BY <1>2, <2>1
  <1>4. ~ (u < t)
    <2> SUFFICES ASSUME u < t PROVE FALSE
      OBVIOUS
    <2>1. ChunkEnd(u) <= Beg(Call, t)
      BY <1>1, <1>2, RangesDisjoint DEF ChunkEnd
    <2> QED
      BY <1>2, <2>1
  <1> QED
    BY <1>2, <1>3, <1>4

\* Thread u takes no part in a step.
Idle(u) ==
  offset'[u] = offset[u] /\ batch'[u] = batch[u] /\ member'[u] = member[u] /\ pc'[u] = pc[u]

LEMMA IdleThread ==
  ASSUME in' = in, NEW u \in Threads, Idle(u)
  PROVE  /\ HandledBy(u)' = HandledBy(u)
         /\ QueueOK(u) => QueueOK(u)'
  <1>1. /\ Indices' = Indices /\ Found' = Found
        /\ \A i : BlockStart(i)' = BlockStart(i)
        /\ Beg(Call, u)' = Beg(Call, u) /\ ChunkEnd(u)' = ChunkEnd(u)
    BY SameInput DEF Found
  <1>2. /\ \A i \in Indices : Passed(u, i)' <=> Passed(u, i)
        /\ \A i \in Indices : Waiting(u, i)' <=> Waiting(u, i)
    BY <1>1 DEF Passed, Waiting, Idle
  <1>3. HandledBy(u)' = HandledBy(u)
    BY <1>1, <1>2 DEF HandledBy
  <1>4. ASSUME QueueOK(u) PROVE QueueOK(u)'
    BY <1>1, <1>2, <1>4 DEF QueueOK, Idle
  <1> QED
    BY <1>3, <1>4

\* No thread writes a block.
LEMMA NothingHandled ==
  ASSUME in' = in, NEW t \in Threads, \A u \in Threads \ {t} : Idle(u),
         HandledBy(t)' = HandledBy(t)
  PROVE  Handled' = Handled
  <1>1. \A u \in Threads : HandledBy(u)' = HandledBy(u)
    BY IdleThread
  <1> QED
    BY <1>1, SameInput DEF Handled

\* One thread writes a block of its chunk; nobody has written it before.
LEMMA OneHandled ==
  ASSUME in \in Inputs, in' = in, NEW t \in Threads, \A u \in Threads \ {t} : Idle(u),
         NEW m \in Indices, Beg(Call, t) <= BlockStart(m), BlockStart(m) < ChunkEnd(t),
         m \notin HandledBy(t), HandledBy(t)' = HandledBy(t) \union {m}
  PROVE  Handled' = Handled \union {m} /\ m \notin Handled
  <1>1. \A u \in Threads \ {t} : HandledBy(u)' = HandledBy(u)
    BY IdleThread
  <1>2. Threads' = Threads /\ Indices' = Indices
    BY SameInput
  <1>3. Handled' = Handled \union {m}
    <2>1. ASSUME NEW i \in Indices
          PROVE  (\E u \in Threads : i \in HandledBy(u)')
                   <=> i = m \/ \E u \in Threads : i \in HandledBy(u)
      BY <1>1
    <2> QED
      BY <1>2, <2>1 DEF Handled
  <1>4. m \notin Handled
    <2> SUFFICES ASSUME NEW u \in Threads, m \in HandledBy(u) PROVE FALSE
      BY DEF Handled
    <2>1. Beg(Call, u) <= BlockStart(m) /\ BlockStart(m) < ChunkEnd(u)
      BY DEF HandledBy, Passed
    <2>2. u = t
      BY <2>1, BlockOfOne
    <2> QED
      BY <2>2
  <1> QED
    BY <1>3, <1>4

\* A block of the seed is counted as reused.
LEMMA CountReused ==
  ASSUME in \in Inputs, in' = in, CountersOK, NEW m \in Indices, m \in Found,
         Handled' = Handled \union {m}, m \notin Handled,
         reused' = reused + ExpectedSize(m), progress' = progress + ExpectedSize(m),
         UNCHANGED <<downloaded, decompressed>>
  PROVE  CountersOK'
  <1>1. Found' = Found
    BY SameInput DEF Found
  <1>2. /\ (Handled \union {m}) \cap Found = (Handled \cap Found) \union {m}
        /\ (Handled \union {m}) \ Found = Handled \ Found
    OBVIOUS
  <1>3. /\ SizeOf((Handled \cap Found) \union {m}) = SizeOf(Handled \cap Found) + ExpectedSize(m)
        /\ SizeOf(Handled \union {m}) = SizeOf(Handled) + ExpectedSize(m)
    BY SizeOfMore
  <1> DEFINE H == Handled
             F == Found
             size(S) == SizeOf(S)
  <1>4. /\ reused = size(H \cap F) /\ progress = size(H)
        /\ in.compressed => decompressed = size(H \ F)
        /\ ~ in.compressed => downloaded <= size(H \ F)
        /\ in.genuine /\ ~ in.compressed => downloaded = size(H \ F)
    BY DEF CountersOK
  <1>5. /\ SizeOf(Handled \cap Found)' = size((H \union {m}) \cap F)
        /\ SizeOf(Handled)' = size(H \union {m})
        /\ SizeOf(Handled \ Found)' = size((H \union {m}) \ F)
    BY <1>1, SameInput DEF SizeOf, SizesOf, Blocks, ExpectedSize
  <1> QED
    BY <1>2, <1>3, <1>4, <1>5 DEF CountersOK

\* A block that is not in the seed is counted when it is read and decompressed.
LEMMA CountRead ==
  ASSUME in \in Inputs, in' = in, CountersOK, NEW m \in Indices, m \notin Found,
         Handled' = Handled \union {m}, m \notin Handled,
         NEW n \in Nat, downloaded \in Nat,
         progress' = progress + ExpectedSize(m), downloaded' = downloaded + n,
         in.compressed => decompressed' = decompressed + ExpectedSize(m),
         ~ in.compressed => n <= ExpectedSize(m),
         in.genuine /\ ~ in.compressed => n = ExpectedSize(m),
         reused' = reused
  PROVE  CountersOK'
  <1>2. /\ (Handled \union {m}) \cap Found = Handled \cap Found
        /\ (Handled \union {m}) \ Found = (Handled \ Found) \union {m}
    OBVIOUS
  <1>3. /\ SizeOf((Handled \ Found) \union {m}) = SizeOf(Handled \ Found) + ExpectedSize(m)
        /\ SizeOf(Handled \union {m}) = SizeOf(Handled) + ExpectedSize(m)
        /\ SizeOf(Handled \ Found) \in Nat /\ ExpectedSize(m) \in Nat
    BY SizeOfMore, SizesFacts, BlockFacts
  <1> DEFINE H == Handled
             F == Found
             size(S) == SizeOf(S)
             z == size(H \ F)
             e == ExpectedSize(m)
  <1>4. /\ reused = size(H \cap F) /\ progress = size(H)
        /\ in.compressed => decompressed = z
        /\ ~ in.compressed => downloaded <= z
        /\ in.genuine /\ ~ in.compressed => downloaded = z
    BY DEF CountersOK
  <1>5. Found' = Found
    BY SameInput DEF Found
  <1>6. /\ SizeOf(Handled \cap Found)' = size((H \union {m}) \cap F)
        /\ SizeOf(Handled)' = size(H \union {m})
        /\ SizeOf(Handled \ Found)' = size((H \union {m}) \ F)
    BY <1>5, SameInput DEF SizeOf, SizesOf, Blocks, ExpectedSize
  <1>7. /\ SizeOf(Handled \cap Found)' = size(H \cap F)
        /\ SizeOf(Handled)' = size(H) + e
        /\ SizeOf(Handled \ Found)' = z + e
    BY <1>2, <1>3, <1>6
  <1>8. z \in Nat /\ e \in Nat
    BY <1>3
  <1> HIDE DEF z, e, size
  <1>9. /\ ~ in.compressed => downloaded' <= z + e
        /\ in.genuine /\ ~ in.compressed => downloaded' = z + e
    <2>1. ~ in.compressed => n <= e
      BY DEF e
    <2>2. in.genuine /\ ~ in.compressed => n = e
      BY DEF e
    <2> QED
      BY <1>4, <1>8, <2>1, <2>2
  <1>10. reused' = size(H \cap F) /\ progress' = size(H) + e
         /\ (in.compressed => decompressed' = z + e)
    BY <1>4 DEF e
  <1> QED
    BY <1>7, <1>9, <1>10 DEF CountersOK

\* A thread that goes on behind block m of its chunk has passed this block, too.
LEMMA OneMorePassed ==
  ASSUME LayoutInv, in' = in, NEW t \in Threads, QueueOK(t), InLoop(t),
         NEW m \in Indices, m = Block(t),
         offset'[t] = offset[t] + in.block_size
  PROVE  /\ Beg(Call, t) <= BlockStart(m) /\ BlockStart(m) < ChunkEnd(t)
         /\ ~ Passed(t, m)
         /\ ~ Waiting(t, m)
         /\ \A k \in 1 .. Len(batch[t]) : batch[t][k].block_index # m
         /\ \A i \in Indices : Passed(t, i)' <=> Passed(t, i) \/ i = m
  <1>1. /\ in \in Inputs /\ offset[t] \in Nat /\ Beg(Call, t) <= offset[t]
        /\ offset[t] < ChunkEnd(t)
    BY DEF LayoutInv, Typed, OffsetOK, InLoop
  <1>2. /\ offset[t] = BlockStart(m) /\ m \in Nat /\ BlockStart(m) \in Nat
        /\ in.block_size \in Nat \ {0}
    BY <1>1, LoopFacts, BlockFacts, InputFacts
  <1>3. Beg(Call, t) <= BlockStart(m) /\ BlockStart(m) < ChunkEnd(t)
    BY <1>1, <1>2
  <1>4. ~ Passed(t, m)
    BY <1>1, <1>2 DEF Passed
  <1>5. \A k \in 1 .. Len(batch[t]) : batch[t][k].block_index # m
    BY <1>4 DEF QueueOK
  <1>6. ~ Waiting(t, m)
    BY <1>5 DEF Waiting
  <1>7. ASSUME NEW i \in Indices
        PROVE  BlockStart(i) < offset'[t] <=> BlockStart(i) < offset[t] \/ i = m
    <2>1. i \in Nat /\ BlockStart(i) \in Nat
      BY <1>1, BlockFacts
    <2>2. CASE i = m
      <3> DEFINE s == BlockStart(m)
                 b == in.block_size
      <3>1. s \in Nat /\ b \in Nat \ {0}
        BY <1>2
      <3> HIDE DEF s, b
      <3>2. s < s + b
        BY <3>1
      <3> QED
        BY <1>2, <2>2, <3>2 DEF s, b
    <2>3. CASE i # m
      <3>1. CASE BlockStart(i) < BlockStart(m)
        <4> DEFINE o == BlockStart(i)
                   s == BlockStart(m)
                   b == in.block_size
        <4>1. o \in Nat /\ s \in Nat /\ b \in Nat /\ o < s
          BY <1>2, <2>1, <3>1
        <4> HIDE DEF o, s, b
        <4>2. o < s + b
          BY <4>1
        <4> QED
          BY <1>2, <3>1, <4>2 DEF o, s, b
      <3>2. CASE ~ (BlockStart(i) < BlockStart(m))
        <4> SUFFICES ASSUME BlockStart(i) < BlockStart(m) + in.block_size PROVE FALSE
          BY <1>2, <2>3, <3>2
        <4> DEFINE n == in.block_size
        <4>1. BlockStart(m) <= BlockStart(i)
          BY <1>2, <2>1, <3>2
        <4>2. m * n <= i * n /\ i * n < m * n + n
          BY <4>1 DEF BlockStart
        <4>3. i \in Int /\ m \in Int /\ n \in Nat \ {0}
          BY <1>2, <2>1
        <4> HIDE DEF n
        <4>4. m = i
          BY <4>2, <4>3, SameMultiple
        <4> QED
          BY <2>3, <4>4
      <3> QED
        BY <3>1, <3>2
    <2> QED
      BY <2>2, <2>3
  <1>8. \A i \in Indices : Passed(t, i)' <=> Passed(t, i) \/ i = m
    BY <1>3, <1>7, SameInput DEF Passed
  <1> QED
    BY <1>3, <1>4, <1>5, <1>6, <1>8

LEMMA CopyAccount ==
  ASSUME LayoutInv, NEW t \in Threads, QueueOK(t), CountersOK, CopyFromSeed(t)
  PROVE  CountersOK' /\ QueueOK(t)' /\ \A u \in Threads \ {t} : Idle(u)
  <1> DEFINE m == Block(t)
  <1>1. /\ InLoop(t) /\ FoundInSeed(t) /\ in' = in /\ UNCHANGED <<batch, member, pc>>
        /\ Len(SeedBytes(t)) = ExpectedSize(m)
        /\ offset' = [offset EXCEPT ![t] = offset[t] + in.block_size]
        /\ reused' = reused + Len(SeedBytes(t)) /\ progress' = progress + Len(SeedBytes(t))
        /\ UNCHANGED <<downloaded, decompressed>>
    BY DEF CopyFromSeed, SizeValid, Write
  <1>2. in \in Inputs /\ offset \in [Threads -> Nat]
    BY DEF LayoutInv, Typed
  <1>3. m \in Indices /\ m \in Found
    BY <1>1, LoopFacts DEF Found, FoundInSeed
  <1>4. offset'[t] = offset[t] + in.block_size
    BY <1>1, <1>2
  <1>5. \A u \in Threads \ {t} : Idle(u)
    BY <1>1, <1>2 DEF Idle
  <1> HIDE DEF m
  <1>6. /\ Beg(Call, t) <= BlockStart(m) /\ BlockStart(m) < ChunkEnd(t)
        /\ ~ Passed(t, m) /\ ~ Waiting(t, m)
        /\ \A i \in Indices : Passed(t, i)' <=> Passed(t, i) \/ i = m
    BY <1>1, <1>3, <1>4, OneMorePassed DEF m
  <1>7. \A i \in Indices : Waiting(t, i)' <=> Waiting(t, i)
    BY <1>1 DEF Waiting
  <1>8. Indices' = Indices /\ Found' = Found
    BY <1>1, SameInput DEF Found
  <1>9. HandledBy(t)' = HandledBy(t) \union {m} /\ m \notin HandledBy(t)
    BY <1>3, <1>6, <1>7, <1>8 DEF HandledBy
  <1>10. Handled' = Handled \union {m} /\ m \notin Handled
    BY <1>1, <1>2, <1>3, <1>5, <1>6, <1>9, OneHandled
  <1>11. reused' = reused + ExpectedSize(m) /\ progress' = progress + ExpectedSize(m)
    BY <1>1 DEF m
  <1>12. CountersOK'
    BY <1>1, <1>2, <1>3, <1>10, <1>11, CountReused
  <1>13. QueueOK(t)'
    BY <1>1, <1>6, <1>8 DEF QueueOK
  <1> QED
    BY <1>5, <1>12, <1>13

\* Steps that count nothing, because no block is written.
LEMMA NothingCounted ==
  ASSUME in' = in, CountersOK, Handled' = Handled, UNCHANGED counters
  PROVE  CountersOK'
  <1>1. Found' = Found
    BY SameInput DEF Found
  <1> QED
    BY <1>1, SameInput DEF CountersOK, SizeOf, SizesOf, Blocks, counters, ExpectedSize

LEMMA EnqueueAccount ==
  ASSUME LayoutInv, NEW t \in Threads, QueueOK(t), CountersOK, Enqueue(t)
  PROVE  CountersOK' /\ QueueOK(t)' /\ \A u \in Threads \ {t} : Idle(u)
  <1> DEFINE m == Block(t)
             b == Append(batch[t], RetrievalInfo(t))
             n == Len(batch[t])
  <1>1. /\ InLoop(t) /\ ~ FoundInSeed(t) /\ in' = in /\ pc[t] = "loop"
        /\ batch' = [batch EXCEPT ![t] = b]
        /\ offset' = [offset EXCEPT ![t] = offset[t] + in.block_size]
        /\ \/ pc' = [pc EXCEPT ![t] = "flush"] /\ member' = [member EXCEPT ![t] = 1]
           \/ pc' = pc /\ member' = member
        /\ UNCHANGED counters
    BY DEF Enqueue, Goto, InLoop, At
  <1>2. /\ in \in Inputs /\ offset \in [Threads -> Nat] /\ pc \in [Threads -> Labels]
        /\ member \in [Threads -> Nat] /\ batch \in [Threads -> Seq(Infos)]
    BY DEF LayoutInv, Typed
  <1>3. m \in Indices /\ m \notin Found /\ RetrievalInfo(t) = Queued(m)
    BY <1>1, LoopFacts DEF Found, FoundInSeed
  <1>4. /\ n \in Nat /\ Len(b) = n + 1 /\ b[n + 1].block_index = m
        /\ \A k \in 1 .. n : b[k] = batch[t][k]
    <2>1. batch[t] \in Seq(Infos) /\ n \in Nat
      BY <1>2, LenProperties
    <2>2. Queued(m) \in Infos /\ Queued(m).block_index = m
      BY <1>2, <1>3, QueuedFacts
    <2> QED
      BY <1>3, <2>1, <2>2, AppendProperties
  <1> HIDE DEF m, b, n
  <1>5. /\ batch'[t] = b /\ offset'[t] = offset[t] + in.block_size
        /\ pc'[t] = "flush" => member'[t] = 1
    BY <1>1, <1>2
  <1>6. \A u \in Threads \ {t} : Idle(u)
    BY <1>1, <1>2 DEF Idle
  <1>7. /\ ~ Passed(t, m) /\ ~ Waiting(t, m)
        /\ \A k \in 1 .. n : batch[t][k].block_index # m
        /\ \A i \in Indices : Passed(t, i)' <=> Passed(t, i) \/ i = m
    BY <1>1, <1>3, <1>5, OneMorePassed DEF m, n
  <1>8. ASSUME NEW i \in Indices PROVE Waiting(t, i)' <=> Waiting(t, i) \/ i = m
    <2>1. Waiting(t, i) <=> \E k \in 1 .. n : batch[t][k].block_index = i
      BY <1>1 DEF Waiting, n
    <2>2. Waiting(t, i)' <=> \E k \in 1 .. n + 1 : b[k].block_index = i
      <3>1. \A k \in 1 .. n + 1 : pc'[t] = "flush" => member'[t] <= k
        BY <1>4, <1>5
      <3> QED
        BY <1>4, <1>5, <3>1 DEF Waiting
    <2>3. \A k : k \in 1 .. n + 1 <=> k \in 1 .. n \/ k = n + 1
      BY <1>4
    <2> QED
      BY <1>4, <2>1, <2>2, <2>3
  <1>9. Indices' = Indices /\ Found' = Found
    BY <1>1, SameInput DEF Found
  <1>10. HandledBy(t)' = HandledBy(t)
    BY <1>7, <1>8, <1>9 DEF HandledBy
  <1>11. CountersOK'
    BY <1>1, <1>6, <1>10, NothingHandled, NothingCounted
  <1>12. QueueOK(t)'
    <2>1. /\ \A k \in 1 .. n : /\ batch[t][k].block_index \in Indices \ Found
                               /\ Passed(t, batch[t][k].block_index)
          /\ \A k, l \in 1 .. n : batch[t][k].block_index = batch[t][l].block_index => k = l
      BY DEF QueueOK, n
    <2>2. \A k \in 1 .. n + 1 : k = n + 1 \/ k \in 1 .. n
      BY <1>4
    <2>3. ASSUME NEW k \in 1 .. n + 1
          PROVE  \E i \in Indices \ Found : b[k].block_index = i /\ Passed(t, i)'
      <3>1. CASE k = n + 1
        BY <1>3, <1>4, <1>7, <3>1
      <3>2. CASE k \in 1 .. n
        <4>1. PICK i \in Indices \ Found : i = batch[t][k].block_index /\ Passed(t, i)
          BY <2>1, <3>2
        <4>2. b[k].block_index = i
          BY <1>4, <3>2, <4>1
        <4>3. Passed(t, i)'
          BY <1>7, <4>1
        <4> QED
          BY <4>2, <4>3
      <3> QED
        BY <2>2, <3>1, <3>2
    <2>4. ASSUME NEW k \in 1 .. n + 1, NEW l \in 1 .. n + 1, b[k].block_index = b[l].block_index
          PROVE  k = l
      BY <1>4, <1>7, <2>1, <2>2, <2>4
    <2>5. Len(b) = n + 1
      BY <1>4
    <2> QED
      BY <1>5, <1>9, <2>3, <2>4, <2>5 DEF QueueOK
  <1> QED
    BY <1>6, <1>11, <1>12

\* How much is read for a member of the batch when the data is not compressed.
LEMMA ReadCountFacts ==
  ASSUME LayoutInv, NEW t \in Threads, At(t, "flush"), NEW i \in Indices, Info(t) = Queued(i),
         ~ in.compressed
  PROVE  /\ ReadCount(t) <= ExpectedSize(i)
         /\ in.genuine => ReadCount(t) = ExpectedSize(i)
  <1>1. in \in Inputs
    BY DEF LayoutInv, Typed
  <1>2. /\ BlockStart(i) \in Nat /\ ExpectedSize(i) \in Nat
        /\ ExpectedSize(i) = Min2(in.block_size, in.size - BlockStart(i))
        /\ BlockStart(i) + ExpectedSize(i) <= in.size /\ in.size \in Nat
    BY <1>1, BlockFacts, InputFacts
  <1>3. Info(t).begin = BlockStart(i) /\ Info(t).size = ExpectedSize(i)
    BY <1>2 DEF Queued
  <1>4. ReadCount(t) <= ExpectedSize(i)
    BY <1>3, FlushFacts
  <1>5. ASSUME in.genuine PROVE ReadCount(t) = ExpectedSize(i)
    <2>1. in.data = [j \in 1 .. in.size |-> <<<<in.source[j]>>, 1, 1>>]
      BY <1>1, <1>5, GenuineAssumption
    <2>2. Len(in.data) = in.size
      BY <1>2, <2>1
    <2> DEFINE f == in.data
               at == BlockStart(i)
               e == ExpectedSize(i)
               C == (Bytes \ {<<>>}) \X Nat \X Nat
    <2>3. f \in Seq(C)
      BY <1>1, InputFacts DEF Cells
    <2>4. at \in Nat /\ e \in Nat /\ at + e <= Len(f)
      BY <1>2, <2>2
    <2> HIDE DEF f, at, e, C
    <2>5. Len(ReadAt(f, at, e)) = e
      BY <2>3, <2>4, ReadAtFacts
    <2> QED
      BY <1>3, <2>5 DEF f, at, e, ReadCount
  <1> QED
    BY <1>4, <1>5

LEMMA FlushAccount ==
  ASSUME LayoutInv, NEW t \in Threads, QueueOK(t), CountersOK, FlushMember(t)
  PROVE  CountersOK' /\ QueueOK(t)' /\ \A u \in Threads \ {t} : Idle(u)
  <1>1. /\ At(t, "flush") /\ Decodes(t) /\ pc[t] = "flush" /\ in' = in /\ offset' = offset
        /\ Len(Decoded(t)) = ExpectedSize(Info(t).block_index)
        /\ progress' = progress + Len(Decoded(t))
        /\ decompressed' = decompressed + IF in.compressed THEN Len(Decoded(t)) ELSE 0
        /\ downloaded' = downloaded + ReadCount(t)
        /\ reused' = reused
        /\ NextMember(t)
    BY DEF FlushMember, At, SizeValid, Write
  <1>2. /\ in \in Inputs /\ pc \in [Threads -> Labels]
        /\ member \in [Threads -> Nat] /\ batch \in [Threads -> Seq(Infos)]
        /\ downloaded \in Nat
        /\ member[t] \in 1 .. Len(batch[t])
    BY <1>1 DEF LayoutInv, Typed, BatchOK
  <1>3. PICK m \in Indices : Info(t) = Queued(m)
    BY <1>1, FlushFacts
  <1>4. Info(t).block_index = m /\ batch[t][member[t]].block_index = m
    BY <1>2, <1>3, QueuedFacts DEF Info
  <1>5. m \notin Found /\ Passed(t, m) /\ Len(batch[t]) \in Nat
    BY <1>2, <1>4, LenProperties DEF QueueOK
  <1> DEFINE More == /\ member[t] < Len(batch[t])
                     /\ member' = [member EXCEPT ![t] = member[t] + 1]
                     /\ pc' = pc /\ batch' = batch
             Last == /\ ~ (member[t] < Len(batch[t]))
                     /\ member' = [member EXCEPT ![t] = 0]
                     /\ batch' = [batch EXCEPT ![t] = <<>>]
                     /\ pc' = [pc EXCEPT ![t] = "loop"]
  <1>6. More \/ Last
    BY <1>1 DEF NextMember, Goto
  <1>7. \A u \in Threads \ {t} : Idle(u)
    BY <1>1, <1>2, <1>6 DEF Idle
  <1>8. Waiting(t, m)
    BY <1>2, <1>4 DEF Waiting
  <1>9. ASSUME NEW i \in Indices PROVE Waiting(t, i)' <=> Waiting(t, i) /\ i # m
    <2>1. Waiting(t, i) <=> \E k \in 1 .. Len(batch[t]) :
                              batch[t][k].block_index = i /\ member[t] <= k
      BY <1>1 DEF Waiting
    <2>2. \A k \in 1 .. Len(batch[t]) : batch[t][k].block_index = m => k = member[t]
      BY <1>2, <1>4 DEF QueueOK
    <2>3. CASE More
      <3>1. Waiting(t, i)' <=> \E k \in 1 .. Len(batch[t]) :
                                 batch[t][k].block_index = i /\ member[t] + 1 <= k
        <4>1. member'[t] = member[t] + 1 /\ batch'[t] = batch[t] /\ pc'[t] = "flush"
          BY <1>1, <1>2, <2>3
        <4> QED
          BY <4>1 DEF Waiting
      <3>2. \A k \in 1 .. Len(batch[t]) :
              member[t] + 1 <= k <=> member[t] <= k /\ k # member[t]
        BY <1>2, <1>5
      <3> QED
        BY <1>4, <2>1, <2>2, <3>1, <3>2
    <2>4. CASE Last
      <3>1. ~ Waiting(t, i)'
        <4>1. batch'[t] = <<>>
          BY <1>2, <2>4
        <4>2. 1 .. Len(batch'[t]) = {}
          BY <4>1
        <4> QED
          BY <4>2 DEF Waiting
      <3>2. \A k \in 1 .. Len(batch[t]) : member[t] <= k => k = member[t]
        BY <1>2, <1>5, <2>4
      <3> QED
        BY <1>4, <2>1, <3>1, <3>2
    <2> QED
      BY <1>6, <2>3, <2>4
  <1>10. Indices' = Indices /\ Found' = Found
    BY <1>1, SameInput DEF Found
  <1>11. \A i \in Indices : Passed(t, i)' <=> Passed(t, i)
    BY <1>1, SameInput DEF Passed
  <1>12. HandledBy(t)' = HandledBy(t) \union {m} /\ m \notin HandledBy(t)
    BY <1>5, <1>8, <1>9, <1>10, <1>11 DEF HandledBy
  <1>13. Handled' = Handled \union {m} /\ m \notin Handled
    <2>1. Beg(Call, t) <= BlockStart(m) /\ BlockStart(m) < ChunkEnd(t)
      BY <1>5 DEF Passed
    <2> QED
      BY <1>1, <1>2, <1>7, <1>12, <2>1, OneHandled
  <1>14. CountersOK'
    <2> DEFINE n == ReadCount(t)
    <2>1. n \in Nat
      BY <1>1, FlushFacts
    <2>2. progress' = progress + ExpectedSize(m) /\ downloaded' = downloaded + n
      BY <1>1, <1>4
    <2>3. in.compressed => decompressed' = decompressed + ExpectedSize(m)
      BY <1>1, <1>4
    <2>4. /\ ~ in.compressed => n <= ExpectedSize(m)
          /\ in.genuine /\ ~ in.compressed => n = ExpectedSize(m)
      BY <1>1, <1>3, ReadCountFacts
    <2> HIDE DEF n
    <2> QED
      BY <1>1, <1>2, <1>5, <1>13, <2>1, <2>2, <2>3, <2>4, CountRead
  <1>15. QueueOK(t)'
    <2>1. CASE More
      BY <1>10, <1>11, <2>1 DEF QueueOK
    <2>2. CASE Last
      <3>1. batch'[t] = <<>>
        BY <1>2, <2>2
      <3>2. 1 .. Len(batch'[t]) = {}
        BY <3>1
      <3> QED
        BY <3>2 DEF QueueOK
    <2> QED
      BY <1>6, <2>1, <2>2
  <1> QED
    BY <1>7, <1>14, <1>15

\* A thread opens its files, cannot open them, or has come to the end of its chunk.
LEMMA QuietAccount ==
  ASSUME LayoutInv, NEW t \in Threads, QueueOK(t), CountersOK,
         Open(t) \/ CannotOpen(t) \/ FlushTrailing(t) \/ FinishChunk(t)
  PROVE  CountersOK' /\ QueueOK(t)' /\ \A u \in Threads \ {t} : Idle(u)
  <1>1. /\ in' = in /\ UNCHANGED <<offset, batch>> /\ UNCHANGED counters
        /\ pc[t] # "flush"
        /\ \/ pc' = [pc EXCEPT ![t] = "flush"] /\ member' = [member EXCEPT ![t] = 1]
           \/ pc' = [pc EXCEPT ![t] = "done"] /\ member' = member
           \/ pc' = [pc EXCEPT ![t] = "loop"] /\ member' = member
           \/ pc' = [pc EXCEPT ![t] = "threw"] /\ member' = member
    BY DEF Open, CannotOpen, FlushTrailing, FinishChunk, At, Goto, counters
  <1>2. pc \in [Threads -> Labels] /\ member \in [Threads -> Nat] /\ batch \in [Threads -> Seq(Infos)]
    BY DEF LayoutInv, Typed
  <1>3. \A u \in Threads \ {t} : Idle(u)
    BY <1>1, <1>2 DEF Idle
  <1>4. pc'[t] = "flush" => member'[t] = 1
    BY <1>1, <1>2
  <1>5. \A i \in Indices : Waiting(t, i)' <=> Waiting(t, i)
    <2>1. \A k \in 1 .. Len(batch[t]) : pc'[t] = "flush" => member'[t] <= k
      BY <1>4
    <2> QED
      BY <1>1, <2>1 DEF Waiting
  <1>6. Indices' = Indices /\ Found' = Found /\ \A i \in Indices : Passed(t, i)' <=> Passed(t, i)
    BY <1>1, SameInput DEF Found, Passed
  <1>7. HandledBy(t)' = HandledBy(t)
    BY <1>5, <1>6 DEF HandledBy
  <1>8. CountersOK'
    BY <1>1, <1>3, <1>7, NothingHandled, NothingCounted
  <1>9. QueueOK(t)'
    BY <1>1, <1>6 DEF QueueOK
  <1> QED
    BY <1>3, <1>8, <1>9

LEMMA InitAccount == Init => AccountInv
  <1> SUFFICES ASSUME Init PROVE AccountInv
    OBVIOUS
  <1>1. /\ in \in Inputs /\ status = "running"
        /\ reused = 0 /\ downloaded = 0 /\ decompressed = 0 /\ progress = 0
    BY DEF Init
  <1>2. ASSUME NEW t \in Threads PROVE QueueOK(t) /\ HandledBy(t) = {}
    <2>1. offset[t] = Beg(Call, t) /\ batch[t] = <<>> /\ Beg(Call, t) \in Nat
      BY <1>1, ChunkInside DEF Init
    <2>2. 1 .. Len(batch[t]) = {}
      BY <2>1
    <2>3. QueueOK(t)
      BY <2>2 DEF QueueOK
    <2>4. ASSUME NEW i \in Indices, Passed(t, i) PROVE FALSE
      <3>1. BlockStart(i) \in Nat
        BY <1>1, BlockFacts
      <3> QED
        BY <2>1, <2>4, <3>1 DEF Passed
    <2> QED
      BY <2>3, <2>4 DEF HandledBy
  <1>3. Handled = {} /\ Handled \cap Found = {} /\ Handled \ Found = {}
    BY <1>2 DEF Handled
  <1>4. SizeOf({}) = 0
    BY <1>1, SizeOfNothing
  <1>5. CountersOK
    <2> DEFINE z == SizeOf({})
    <2>1. z = 0
      BY <1>4
    <2>2. /\ SizeOf(Handled) = z /\ SizeOf(Handled \cap Found) = z /\ SizeOf(Handled \ Found) = z
      BY <1>3
    <2> HIDE DEF z
    <2> QED
      BY <1>1, <2>1, <2>2 DEF CountersOK
  <1> QED
    BY <1>1, <1>2, <1>5 DEF AccountInv, OverWhenJoined

LEMMA AccountStep == LayoutInv /\ AccountInv /\ [Next]_vars => AccountInv'
  <1> SUFFICES ASSUME LayoutInv, AccountInv, [Next]_vars PROVE AccountInv'
    OBVIOUS
  <1>1. CountersOK /\ OverWhenJoined /\ \A u \in Threads : QueueOK(u)
    BY DEF AccountInv
  <1>2. ASSUME in' = in, UNCHANGED threadVars, UNCHANGED counters, OverWhenJoined'
        PROVE  AccountInv'
    <2>1. UNCHANGED <<offset, batch, member, pc>>
      BY <1>2 DEF threadVars
    <2>2. \A u \in Threads : Idle(u)
      BY <2>1 DEF Idle
    <2>3. \A u \in Threads : QueueOK(u)' /\ HandledBy(u)' = HandledBy(u)
      BY <1>1, <1>2, <2>2, IdleThread
    <2>4. Handled' = Handled
      BY <1>2, <2>3, SameInput DEF Handled
    <2>5. CountersOK'
      BY <1>1, <1>2, <2>4, NothingCounted
    <2> QED
      BY <1>2, <2>3, <2>5, SameInput DEF AccountInv
  <1>3. ASSUME NEW t \in Threads, Step(t) \/ CannotOpen(t) PROVE AccountInv'
    <2>1. CASE /\ CountersOK' /\ QueueOK(t)' /\ \A u \in Threads \ {t} : Idle(u)
               /\ status = "running" /\ status' = "running" /\ in' = in
      <3>1. \A u \in Threads : QueueOK(u)'
        BY <1>1, <2>1, IdleThread
      <3>2. OverWhenJoined'
        BY <2>1 DEF OverWhenJoined
      <3> QED
        BY <2>1, <3>1, <3>2, SameInput DEF AccountInv
    <2>2. CASE CopyFromSeed(t)
      BY <1>1, <2>1, <2>2, CopyAccount DEF CopyFromSeed, InLoop, At
    <2>3. CASE Enqueue(t)
      BY <1>1, <2>1, <2>3, EnqueueAccount DEF Enqueue, InLoop, At
    <2>4. CASE FlushMember(t)
      BY <1>1, <2>1, <2>4, FlushAccount DEF FlushMember, At
    <2>5. CASE Open(t) \/ CannotOpen(t) \/ FlushTrailing(t) \/ FinishChunk(t)
      <3>1. status = "running" /\ status' = "running" /\ in' = in
        BY <2>5 DEF Open, CannotOpen, FlushTrailing, FinishChunk, At
      <3> QED
        BY <1>1, <2>1, <2>5, <3>1, QuietAccount
    <2>6. CASE SeedBlockHasWrongSize(t) \/ MemberNotAFrame(t) \/ MemberHasWrongSize(t)
      BY <1>2, <2>6 DEF SeedBlockHasWrongSize, MemberNotAFrame, MemberHasWrongSize, Abort,
         OverWhenJoined
    <2> QED
      BY <1>3, <2>2, <2>3, <2>4, <2>5, <2>6 DEF Step
  <1>4. CASE Join
    <2>1. OverWhenJoined'
      BY <1>4, SameInput DEF Join, AllOver, OverWhenJoined, threadVars
    <2> QED
      BY <1>2, <1>4, <2>1 DEF Join
  <1>5. CASE Accept
    <2>1. OverWhenJoined'
      BY <1>1, <1>5, SameInput DEF Accept, OverWhenJoined, threadVars
    <2> QED
      BY <1>2, <1>5, <2>1 DEF Accept
  <1>6. CASE Reject
    BY <1>2, <1>6 DEF Reject, Abort, OverWhenJoined
  <1>7. CASE WaitForever
    <2>1. OverWhenJoined'
      BY <1>7 DEF WaitForever, OverWhenJoined
    <2> QED
      BY <1>2, <1>7, <2>1 DEF WaitForever
  <1>8. CASE UNCHANGED vars
    <2>1. OverWhenJoined'
      BY <1>1, <1>8, SameInput DEF OverWhenJoined, vars, threadVars
    <2> QED
      BY <1>2, <1>8, <2>1 DEF vars
  <1> QED
    BY <1>3, <1>4, <1>5, <1>6, <1>7, <1>8 DEF Next

\* Without failed tasks every block is written when the threads are joined.
LEMMA AllHandled ==
  ASSUME LayoutInv, AccountInv, status = "ok", \A t \in Threads : pc[t] # "threw"
  PROVE  Handled = Indices
  <1>1. in \in Inputs
    BY DEF LayoutInv, Typed
  <1>2. ASSUME NEW i \in Indices PROVE i \in Handled
    <2>1. PICK t \in Threads : Beg(Call, t) <= BlockStart(i) /\ BlockStart(i) < ChunkEnd(t)
      <3>1. i \in 0 .. BlockCount(Call.size, Call.block) - 1
        BY <1>1, InputFacts DEF Indices, IndicesOf
      <3> QED
        BY <1>1, <3>1, InputFacts, BlockHasOwner DEF Threads, ChunkEnd, BlockStart
    <2>2. pc[t] = "done"
      BY DEF AccountInv, OverWhenJoined
    <2>3. batch[t] = <<>> /\ ChunkEnd(t) <= offset[t] /\ offset[t] \in Nat
      BY <2>2 DEF LayoutInv, Typed, OffsetOK, BatchOK
    <2>4. BlockStart(i) \in Nat /\ ChunkEnd(t) \in Nat
      BY <1>1, BlockFacts, ChunkInside
    <2>5. Passed(t, i)
      BY <2>1, <2>3, <2>4 DEF Passed
    <2>6. ~ Waiting(t, i)
      <3>1. 1 .. Len(batch[t]) = {}
        BY <2>3
      <3> QED
        BY <3>1 DEF Waiting
    <2> QED
      BY <2>5, <2>6 DEF Handled, HandledBy
  <1> QED
    BY <1>2 DEF Handled

\* Each byte of the source is counted once: as reused when its block is in the seed
\* and as decompressed, or downloaded, when it is not (sync_command.cc:497-499).
THEOREM EveryByteIsCounted == Spec => []BytesAccounted
  <1>1. LayoutInv /\ AccountInv => BytesAccounted
    <2> SUFFICES ASSUME LayoutInv, AccountInv, status = "ok", \A t \in Threads : pc[t] # "threw"
                 PROVE  BytesAccounted
      BY DEF BytesAccounted
    <2> DEFINE short == in.size % in.block_size
               sizes == Cardinality(Found) * in.block_size
                        - IF short # 0 /\ Blocks - 1 \in Found THEN in.block_size - short ELSE 0
               f == SizeOf(Found)
               g == SizeOf(Indices \ Found)
               n == in.size
    <2>1. in \in Inputs /\ Handled = Indices /\ downloaded \in Nat /\ n \in Nat
      BY AllHandled, InputFacts DEF LayoutInv, Typed
    <2>2. Found \in SUBSET Indices /\ Indices \cap Found = Found
      BY DEF Found
    <2>3. /\ reused = f /\ progress = SizeOf(Indices)
          /\ in.compressed => decompressed = g
          /\ ~ in.compressed => downloaded <= g
          /\ in.genuine /\ ~ in.compressed => downloaded = g
      BY <2>1, <2>2 DEF AccountInv, CountersOK
    <2>4. SizeOf(Indices) = n /\ n = f + g /\ f = sizes
      BY <2>1, <2>2, SizeOfAll, SizeOfBoth, SizeOfSet
    <2>5. f \in Nat /\ g \in Nat
      BY <2>1, SizesFacts
    <2>6. Found = {i \in 0 .. Blocks - 1 : in.seed_offsets[i] # kInvalidOffset}
      BY DEF Found, Indices, IndicesOf, Blocks
    <2> HIDE DEF sizes, f, g, n
    <2>7. /\ reused = sizes /\ progress = n
          /\ in.compressed => reused + decompressed = n
          /\ ~ in.compressed => reused + downloaded <= n
          /\ in.genuine /\ ~ in.compressed => reused + downloaded = n
      BY <2>1, <2>3, <2>4, <2>5
    <2> QED
      BY <2>6, <2>7 DEF BytesAccounted, sizes, n
  <1> QED
    BY <1>1, InitLayout, LayoutStep, InitAccount, AccountStep, PTL DEF Spec
=============================================================================
