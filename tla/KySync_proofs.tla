--------------------------- MODULE KySync_proofs ---------------------------
(***************************************************************************)
(* What a run of prepare leaves behind, and what a sync delivers that may  *)
(* read at any moment: for every set of inputs, block sizes, frames, old   *)
(* files and seeds, any number of publisher threads, runs and crashes.     *)
(* The theorems about the publisher alone (Spec, of Prepare) come first:   *)
(* those about both commands (System) rest on the same invariant.         *)
(*                                                                         *)
(* The publisher.  The slots of the data file are as far apart as frames   *)
(* can be long, and every block belongs to one thread: so no flush of one  *)
(* thread touches what another one has written (PreparedOK).  When the     *)
(* frames are moved together, what the second stream has been given is     *)
(* never longer than the slots that have been read: so it never reaches a  *)
(* slot that is still to be read, however late its buffer is written       *)
(* (CopiedOK).                                                             *)
(*                                                                         *)
(* The sync.  Whatever the publisher is doing, the metadata file is a      *)
(* beginning of what some run writes (PublishedOK): so a hash that can be  *)
(* read is the hash of an input, and FileSync is implemented.  When nobody *)
(* disturbs the sync, the file is the whole of it, and what the sync       *)
(* reads, finds and rebuilds is what the run has put there (QuietOK).      *)
(***************************************************************************)
EXTENDS KySync, RangesAndFiles_proofs

(* The operators of Prepare for a given run. *)

BlocksOf(r) == BlockCount(Len(r.input), r.block_size)
BlockOf(r, i) == ReadAt(r.input, i * r.block_size, r.block_size)
PaddedOf(r, i) ==
  [j \in 1 .. r.block_size |-> IF j <= Len(BlockOf(r, i)) THEN BlockOf(r, i)[j] ELSE 0]
FrameOf(r, i) == Frame(BlockOf(r, i))
FrameSizeOf(r, i) == FrameSize[BlockOf(r, i)]

\* The first frames, back to back.
FramesUpto(r) ==
  LET upto[i \in 0 .. BlocksOf(r)] == IF i = 0 THEN <<>> ELSE upto[i - 1] \o FrameOf(r, i - 1)
  IN upto

\* The metadata that describe the input.
MetadataOf(r) ==
  MetadataFile([size |-> Len(r.input), block_size |-> r.block_size, hash |-> Digest(r.input)],
               [i \in IndicesOf(r) |-> PaddedOf(r, i)],
               [i \in IndicesOf(r) |-> FrameSizeOf(r, i)], BlocksOf(r))

Kinds == {"length", "version", "size", "block_size", "hash", "weak", "strong"}
MetaCells == Kinds \X Seq(Int)

-----------------------------------------------------------------------------
(* The invariant. *)

\* File f holds the frame of block i in its slot.
Holds(r, f, i) ==
  /\ i * r.slot_size + FrameSizeOf(r, i) <= Len(f)
  /\ \A j \in 1 .. FrameSizeOf(r, i) : f[i * r.slot_size + j] = FrameOf(r, i)[j]

\* The write of the frame of block i.
SlotWrite(r, i) == [at |-> i * r.slot_size, cells |-> FrameOf(r, i)]

Typed ==
  /\ run \in Runs
  /\ reruns \in 0 .. MaxReruns
  /\ stage \in {"preparing", "compacting", "metadata", "flushing", "closing", "done", "stuck"}
  /\ data \in Seq(Cells)
  /\ ksync \in Seq(MetaCells) /\ ksync_buffer \in Seq(MetaCells)
  /\ open \subseteq Threads
  /\ offset \in [Threads -> Nat]
  /\ DOMAIN unflushed = Threads
  /\ checksums \in [Indices -> Seq(Int)]
  /\ compressed_sizes \in [Indices -> 0 .. run.slot_size]
  /\ next \in 0 .. Blocks
  /\ compressed_bytes \in Nat /\ progress \in Nat /\ total \in Nat
  /\ out_at \in Nat /\ out_buffer \in Seq(Cells)

\* What the stream of thread t holds is nothing or the frame of a block before its
\* offset.
WritesOwn(t) ==
  \/ unflushed[t] = Unwritten
  \/ \E k \in Indices : /\ Beg(Call, t) <= k * run.block_size
                        /\ k * run.block_size < offset[t]
                        /\ k * run.block_size < End(Call, t)
                        /\ unflushed[t] = SlotWrite(run, k)

\* Thread t is done with block i.
Done(t, i) ==
  /\ Beg(Call, t) <= i * run.block_size
  /\ i * run.block_size < End(Call, t)
  /\ i * run.block_size < offset[t]

\* Block i is in the tables, and its frame in its slot or held by thread t.
Recorded(t, i) ==
  /\ checksums[i] = PaddedOf(run, i)
  /\ compressed_sizes[i] = FrameSizeOf(run, i)
  /\ Holds(run, data, i) \/ (t \in open /\ unflushed[t] = SlotWrite(run, i))

ThreadOK(t) ==
  /\ \E m \in Nat : offset[t] = m * run.block_size
  /\ Beg(Call, t) <= offset[t]
  /\ t \notin open => End(Call, t) <= offset[t]
  /\ \A i \in Indices : Done(t, i) => Recorded(t, i)

\* Nothing has been read back yet.
NotStarted == next = 0 /\ out_at = 0 /\ out_buffer = <<>> /\ hashed = <<>>

PreparedOK == stage = "preparing" => NotStarted /\ \A t \in Threads : ThreadOK(t)

\* A stream that has written `at` cells to f and holds buffer has been given the
\* frames before block n.
Copied(r, f, n, at, buffer) ==
  /\ at + Len(buffer) = Len(FramesUpto(r)[n])
  /\ at <= Len(f)
  /\ \A j \in 1 .. at : f[j] = FramesUpto(r)[n][j]
  /\ \A j \in 1 .. Len(buffer) : buffer[j] = FramesUpto(r)[n][at + j]

CopiedOK ==
  /\ stage \in {"compacting", "metadata", "flushing", "closing"} =>
       /\ checksums = [i \in Indices |-> PaddedOf(run, i)]
       /\ compressed_sizes = [i \in Indices |-> FrameSizeOf(run, i)]
       /\ Copied(run, data, next, out_at, out_buffer)
       /\ hashed = ReadAt(run.input, 0, next * run.block_size)
  /\ stage = "compacting" => \A i \in next .. Blocks - 1 : Holds(run, data, i)
  /\ stage \in {"metadata", "flushing", "closing"} =>
       next = Blocks /\ Len(data) = Len(FramesUpto(run)[Blocks])
  /\ stage = "done" => data = FramesUpto(run)[Blocks]

MetadataOK ==
  /\ stage = "metadata" => ksync = <<>>
  /\ stage = "flushing" => ksync \o ksync_buffer = MetadataOf(run)
  /\ stage \in {"closing", "done"} => ksync = MetadataOf(run)

PrepareInv == Typed /\ (\A t \in Threads : WritesOwn(t)) /\ PreparedOK /\ CopiedOK /\ MetadataOK

-----------------------------------------------------------------------------
(* Runs and their blocks. *)

\* A run makes a call of Parallelize.
LEMMA RunFacts ==
  ASSUME NEW r \in Runs
  PROVE  /\ r.input \in Seq(Int) /\ Len(r.input) \in Nat
         /\ r.block_size \in Nat \ {0} /\ r.slot_size \in Nat
         /\ r.threads \in Nat \ {0}
         /\ BlocksOf(r) \in Nat
         /\ Len(r.input) <= BlocksOf(r) * r.block_size
         /\ IndicesOf(r) = 0 .. BlocksOf(r) - 1
         /\ IsCall(CallOf(r))
         /\ CallOf(r).size = Len(r.input) /\ CallOf(r).block = r.block_size
         /\ CallOf(r).overlap = 0
  <1>1. /\ r.input \in Seq(Int) /\ r.block_size \in Nat \ {0} /\ r.slot_size \in Nat
        /\ r.threads \in Nat \ {0}
    BY RunsAssumption
  <1>2. Len(r.input) \in Nat
    BY <1>1, LenProperties
  <1>3. BlocksOf(r) \in Nat /\ Len(r.input) <= BlocksOf(r) * r.block_size
    BY <1>1, <1>2, CeilDivBounds DEF BlocksOf, BlockCount
  <1>4. /\ CallOf(r).size = Len(r.input) /\ CallOf(r).block = r.block_size
        /\ CallOf(r).overlap = 0 /\ CallOf(r).threads = r.threads
    BY DEF CallOf
  <1>5. IsCall(CallOf(r))
    BY <1>1, <1>2, <1>4 DEF IsCall
  <1> QED
    BY <1>1, <1>2, <1>3, <1>4, <1>5 DEF IndicesOf, BlocksOf

\* The blocks of an input lie in it, and the slots in the file.
LEMMA BlockFacts ==
  ASSUME NEW r \in Runs, NEW i \in IndicesOf(r)
  PROVE  /\ i \in Nat
         /\ i * r.block_size \in Nat
         /\ i * r.block_size < Len(r.input)
         /\ Len(r.input) <= BlocksOf(r) * r.block_size
         /\ BlockOf(r, i) \in Seq(Int)
         /\ Len(BlockOf(r, i)) \in Nat
         /\ FrameSizeOf(r, i) \in Nat \ {0}
         /\ FrameSizeOf(r, i) <= r.slot_size
         /\ i * r.slot_size \in Nat
         /\ i * r.slot_size + r.slot_size <= BlocksOf(r) * r.slot_size
  <1>1. /\ r.input \in Seq(Int) /\ Len(r.input) \in Nat
        /\ r.block_size \in Nat \ {0} /\ r.slot_size \in Nat
        /\ BlocksOf(r) \in Nat
        /\ i \in 0 .. BlocksOf(r) - 1
    BY RunFacts
  <1>2. i \in Nat /\ i + 1 <= BlocksOf(r)
    BY <1>1
  <1>3. i * r.block_size \in Nat /\ i * r.slot_size \in Nat
    BY <1>1, <1>2
  <1>4. i * r.block_size < Len(r.input)
    <2>1. IsCall(CallOf(r)) /\ CallOf(r).size = Len(r.input) /\ CallOf(r).block = r.block_size
      BY RunFacts
    <2>2. i \in 0 .. BlockCount(CallOf(r).size, CallOf(r).block) - 1
      BY <1>1, <2>1 DEF BlocksOf
    <2> QED
      BY <2>1, <2>2, BlockStartIsInside
  <1>5. Len(r.input) <= BlocksOf(r) * r.block_size
    BY RunFacts
  <1>6. BlockOf(r, i) \in Seq(Int) /\ Len(BlockOf(r, i)) \in Nat
    BY <1>1, <1>3, ReadAtFacts, LenProperties DEF BlockOf
  <1>7. /\ BlockOf(r, i) \in DOMAIN FrameSize
        /\ FrameSizeOf(r, i) <= r.slot_size
    <2>1. i * r.block_size \in 0 .. Len(r.input)
      BY <1>1, <1>3, <1>4
    <2> QED
      BY <1>4, <2>1, RunsAssumption DEF BlockOf, FrameSizeOf
  <1>8. FrameSizeOf(r, i) \in Nat \ {0}
    BY <1>7, RunsAssumption DEF FrameSizeOf
  <1>9. i * r.slot_size + r.slot_size <= BlocksOf(r) * r.slot_size
    <2>1. (i + 1) * r.slot_size <= BlocksOf(r) * r.slot_size
      BY <1>1, <1>2, TimesMonotone, SMTT(30)
    <2>2. (i + 1) * r.slot_size = i * r.slot_size + r.slot_size
      BY <1>1, <1>2, NextMultiple
    <2> QED
      BY <2>1, <2>2
  <1> QED
    BY <1>2, <1>3, <1>4, <1>5, <1>6, <1>7, <1>8, <1>9

\* A frame is a sequence of cells.
LEMMA FrameFacts ==
  ASSUME NEW r \in Runs, NEW i \in IndicesOf(r)
  PROVE  FrameOf(r, i) \in Seq(Cells) /\ Len(FrameOf(r, i)) = FrameSizeOf(r, i)
  <1> DEFINE n == FrameSizeOf(r, i)
             v == BlockOf(r, i)
  <1>1. n \in Nat /\ v \in Seq(Int)
    BY BlockFacts
  <1>2. FrameOf(r, i) = [j \in 1 .. n |-> <<v, j, n>>]
    BY DEF FrameOf, Frame, FrameSizeOf
  <1> HIDE DEF n, v
  <1>3. ASSUME NEW j \in 1 .. n PROVE <<v, j, n>> \in Cells
    BY <1>1 DEF Cells
  <1>4. FrameOf(r, i) \in [1 .. n -> Cells]
    BY <1>2, <1>3
  <1> QED
    BY <1>1, <1>4, FunctionIsSeq DEF n

\* What is written in one slot stays out of the others.
LEMMA SlotsApart ==
  ASSUME NEW r \in Runs, NEW i \in Nat, NEW k \in IndicesOf(r), i < k
  PROVE  i * r.slot_size + r.slot_size <= k * r.slot_size
  <1>1. r.slot_size \in Nat /\ k \in Nat /\ i + 1 <= k
    BY RunFacts, BlockFacts
  <1>2. (i + 1) * r.slot_size <= k * r.slot_size
    BY <1>1, TimesMonotone
  <1>3. (i + 1) * r.slot_size = i * r.slot_size + r.slot_size
    BY <1>1, NextMultiple
  <1> QED
    BY <1>2, <1>3

\* Blocks that start before another block have a smaller index.
LEMMA BlocksApart ==
  ASSUME NEW r \in Runs, NEW i \in Nat, NEW k \in Nat
  PROVE  /\ i * r.block_size < k * r.block_size => i < k
         /\ i * r.block_size < k * r.block_size + r.block_size => i <= k
  <1>1. r.block_size \in Nat \ {0}
    BY RunFacts
  <1>2. (k + 1) * r.block_size = k * r.block_size + r.block_size
    BY <1>1, NextMultiple
  <1>3. i * r.block_size < k * r.block_size => i < k
    BY <1>1, TimesCancels
  <1>4. i * r.block_size < (k + 1) * r.block_size => i < k + 1
    BY <1>1, TimesCancels
  <1> QED
    BY <1>2, <1>3, <1>4

\* The frame in its slot is what the loop reads there.
LEMMA HeldIsRead ==
  ASSUME NEW r \in Runs, NEW i \in IndicesOf(r), NEW f \in Seq(Cells), Holds(r, f, i)
  PROVE  ReadAt(f, i * r.slot_size, FrameSizeOf(r, i)) = FrameOf(r, i)
  <1> DEFINE n == FrameSizeOf(r, i)
             at == i * r.slot_size
             w == FrameOf(r, i)
  <1>1. n \in Nat /\ at \in Nat /\ w \in Seq(Cells) /\ Len(w) = n
    BY BlockFacts, FrameFacts
  <1>2. at + n <= Len(f) /\ \A j \in 1 .. n : f[at + j] = w[j]
    BY DEF Holds
  <1> HIDE DEF n, at, w
  <1>3. /\ ReadAt(f, at, n) \in Seq(Cells) /\ Len(ReadAt(f, at, n)) = n
        /\ \A j \in 1 .. n : ReadAt(f, at, n)[j] = f[at + j]
    <2>1. n \in Nat /\ at \in Nat /\ at + n <= Len(f)
      BY <1>1, <1>2
    <2>2. ReadAt(f, at, n) \in Seq(Cells) /\ Len(ReadAt(f, at, n)) = n
      BY <2>1, ReadInside, SMTT(30)
    <2>3. ASSUME NEW j \in 1 .. n PROVE ReadAt(f, at, n)[j] = f[at + j]
      BY <2>1, ReadCell, SMTT(30)
    <2> QED
      BY <2>2, <2>3
  <1>4. ReadAt(f, at, n) = w
    BY <1>1, <1>2, <1>3, SeqEqual
  <1> QED
    BY <1>4 DEF n, at, w

\* Writing a frame puts it into its slot.
LEMMA SlotWritten ==
  ASSUME NEW r \in Runs, NEW i \in IndicesOf(r), NEW f \in Seq(Cells)
  PROVE  Holds(r, WriteAt(f, SlotWrite(r, i).at, SlotWrite(r, i).cells, Hole), i)
  <1> DEFINE n == FrameSizeOf(r, i)
             at == i * r.slot_size
             w == FrameOf(r, i)
             g == WriteAt(f, at, w, Hole)
  <1>1. n \in Nat /\ at \in Nat /\ w \in Seq(Cells) /\ Len(w) = n
    BY BlockFacts, FrameFacts
  <1>2. Hole \in Cells
    BY DEF Cells
  <1>3. at + Len(w) <= Len(g) /\ \A j \in 1 .. Len(w) : g[at + j] = w[j]
    <2> HIDE DEF n, at, w
    <2>1. at + Len(w) <= Len(g)
      BY <1>1, <1>2, WrittenSize
    <2>2. \A j \in 1 .. Len(w) : g[at + j] = w[j]
      <3>1. w \in Seq(Cells) /\ at \in Nat
        BY <1>1
      <3> QED
        BY <1>2, <3>1, WrittenCell
    <2> QED
      BY <2>1, <2>2
  <1>4. SlotWrite(r, i).at = at /\ SlotWrite(r, i).cells = w
    BY DEF SlotWrite
  <1> HIDE DEF g
  <1>5. Holds(r, g, i)
    BY <1>1, <1>3 DEF Holds
  <1> QED
    BY <1>4, <1>5 DEF g

\* ... and a write that stays away from a slot leaves it alone.
LEMMA SlotKept ==
  ASSUME NEW r \in Runs, NEW i \in IndicesOf(r), NEW f \in Seq(Cells), Holds(r, f, i),
         NEW at \in Nat, NEW cells \in Seq(Cells),
         \/ at + Len(cells) <= i * r.slot_size
         \/ i * r.slot_size + r.slot_size <= at
         \/ Len(cells) = 0
  PROVE  Holds(r, WriteAt(f, at, cells, Hole), i)
  <1> DEFINE n == FrameSizeOf(r, i)
             start == i * r.slot_size
             w == FrameOf(r, i)
             g == WriteAt(f, at, cells, Hole)
             slot == r.slot_size
  <1>1. /\ n \in Nat /\ start \in Nat /\ slot \in Nat /\ n <= slot
        /\ Len(f) \in Nat /\ Len(cells) \in Nat
    BY RunFacts, BlockFacts, LenProperties
  <1>2. Hole \in Cells
    BY DEF Cells
  <1>3. start + n <= Len(f) /\ \A j \in 1 .. n : f[start + j] = w[j]
    BY DEF Holds
  <1>4. /\ Len(f) <= Len(g) /\ Len(g) \in Nat
        /\ \A j \in 1 .. Len(f) : ~(at < j /\ j <= at + Len(cells)) => g[j] = f[j]
    <2>1. Len(f) <= Len(g) /\ Len(g) \in Nat
      BY <1>2, WrittenSize
    <2>2. \A j \in 1 .. Len(f) : ~(at < j /\ j <= at + Len(cells)) => g[j] = f[j]
      BY <1>2, KeptCell
    <2> QED
      BY <2>1, <2>2
  <1>5. \/ at + Len(cells) <= start
        \/ start + slot <= at
        \/ Len(cells) = 0
    OBVIOUS
  <1> HIDE DEF g, n, start, w, slot
  <1>6. ASSUME NEW j \in 1 .. n PROVE g[start + j] = w[j]
    <2>1. start + j \in 1 .. Len(f) /\ ~(at < start + j /\ start + j <= at + Len(cells))
      BY <1>1, <1>3, <1>5
    <2> QED
      BY <1>3, <1>4, <2>1
  <1>7. start + n <= Len(g)
    BY <1>1, <1>3, <1>4
  <1> QED
    BY <1>6, <1>7 DEF Holds, g, n, start, w

\* A thread's flush never harms a slot that holds its frame.
LEMMA FlushKeepsSlot ==
  ASSUME NEW r \in Runs, NEW i \in IndicesOf(r), NEW f \in Seq(Cells), Holds(r, f, i),
         NEW w, w = Unwritten \/ \E k \in IndicesOf(r) : w = SlotWrite(r, k)
  PROVE  Holds(r, WriteAt(f, w.at, w.cells, Hole), i)
  <1>1. CASE w = Unwritten
    <2>1. w.at \in Nat /\ w.cells \in Seq(Cells) /\ Len(w.cells) = 0
      BY <1>1, EmptySeq DEF Unwritten
    <2> QED
      BY <2>1, SlotKept
  <1>2. ASSUME NEW k \in IndicesOf(r), w = SlotWrite(r, k)
        PROVE  Holds(r, WriteAt(f, w.at, w.cells, Hole), i)
    <2>1. CASE k = i
      BY <1>2, <2>1, SlotWritten
    <2>2. CASE k # i
      <3> DEFINE slot == r.slot_size
                 ki == k * slot
                 ii == i * slot
      <3>1. /\ w.at = ki /\ w.cells = FrameOf(r, k)
        BY <1>2 DEF SlotWrite
      <3>2. /\ ki \in Nat /\ ii \in Nat /\ slot \in Nat /\ w.cells \in Seq(Cells)
            /\ Len(w.cells) \in Nat /\ Len(w.cells) <= slot
            /\ i \in Nat /\ k \in Nat
        BY <3>1, RunFacts, BlockFacts, FrameFacts
      <3>3. k < i => ki + slot <= ii
        BY <3>2, SlotsApart
      <3>4. i < k => ii + slot <= ki
        BY <3>2, SlotsApart
      <3> HIDE DEF ki, ii, slot
      <3>5. w.at + Len(w.cells) <= ii \/ ii + slot <= w.at
        BY <2>2, <3>1, <3>2, <3>3, <3>4
      <3>6. w.at \in Nat
        BY <3>1, <3>2
      <3> QED
        BY <3>2, <3>5, <3>6, SlotKept DEF ii, slot
    <2> QED
      BY <2>1, <2>2
  <1> QED
    BY <1>1, <1>2

\* What a stream may hold is inside the slots.
LEMMA HeldWriteFacts ==
  ASSUME NEW r \in Runs, NEW w, w = Unwritten \/ \E k \in IndicesOf(r) : w = SlotWrite(r, k)
  PROVE  /\ w.at \in Nat /\ w.cells \in Seq(Cells)
         /\ w.at + Len(w.cells) <= BlocksOf(r) * r.slot_size
  <1>1. CASE w = Unwritten
    <2>1. w.at = 0 /\ w.cells = <<>> /\ w.cells \in Seq(Cells) /\ Len(w.cells) = 0
      BY <1>1, EmptySeq DEF Unwritten
    <2>2. BlocksOf(r) * r.slot_size \in Nat
      <3>1. BlocksOf(r) \in Nat /\ r.slot_size \in Nat
        BY RunFacts
      <3> QED
        BY <3>1
    <2> QED
      BY <2>1, <2>2
  <1>2. ASSUME NEW k \in IndicesOf(r), w = SlotWrite(r, k)
        PROVE  /\ w.at \in Nat /\ w.cells \in Seq(Cells)
               /\ w.at + Len(w.cells) <= BlocksOf(r) * r.slot_size
    <2> DEFINE slot == r.slot_size
               ki == k * slot
               all == BlocksOf(r) * slot
    <2>1. w.at = ki /\ w.cells = FrameOf(r, k)
      BY <1>2 DEF SlotWrite
    <2>2. /\ ki \in Nat /\ slot \in Nat /\ ki + slot <= all
          /\ w.cells \in Seq(Cells) /\ Len(w.cells) \in Nat /\ Len(w.cells) <= slot
      BY <2>1, RunFacts, BlockFacts, FrameFacts
    <2>3. all \in Nat
      <3>1. BlocksOf(r) \in Nat /\ r.slot_size \in Nat
        BY RunFacts
      <3> QED
        BY <3>1
    <2> HIDE DEF ki, all, slot
    <2>4. w.at \in Nat /\ w.at + Len(w.cells) <= all
      BY <2>1, <2>2, <2>3
    <2> QED
      BY <2>2, <2>4 DEF all, slot
  <1> QED
    BY <1>1, <1>2

-----------------------------------------------------------------------------
(* Frames back to back. *)

\* The sequence of all frames is built frame by frame.
LEMMA FramesDefined ==
  ASSUME NEW r \in Runs
  PROVE  /\ FramesUpto(r)[0] = <<>>
         /\ \A n \in IndicesOf(r) : FramesUpto(r)[n + 1] = FramesUpto(r)[n] \o FrameOf(r, n)
         /\ \A n \in 0 .. BlocksOf(r) : FramesUpto(r)[n] \in Seq(Cells)
  <1> DEFINE count == BlocksOf(r)
             S == Seq(Cells)
             Eqn(g) == g = [i \in 0 .. count |->
                              IF i = 0 THEN <<>> ELSE g[i - 1] \o FrameOf(r, i - 1)]
             f == FramesUpto(r)
             step == [k \in 0 .. count - 1 |-> [x \in S |-> x \o FrameOf(r, k)]]
  <1>1. count \in Nat /\ IndicesOf(r) = 0 .. count - 1
    BY RunFacts
  <1>2. \A k \in 0 .. count - 1 : FrameOf(r, k) \in S
    BY <1>1, FrameFacts
  <1>3. f = CHOOSE g : Eqn(g)
    BY DEF FramesUpto
  <1>4. step \in [0 .. count - 1 -> [S -> S]]
    <2>1. ASSUME NEW k \in 0 .. count - 1, NEW x \in S PROVE x \o FrameOf(r, k) \in S
      BY <1>2, ConcatProperties
    <2> HIDE DEF S, count
    <2> QED
      BY <2>1
  <1>5. ASSUME NEW k \in 0 .. count - 1, NEW x \in S PROVE step[k][x] = x \o FrameOf(r, k)
    BY <1>5
  <1>6. PICK z : z = <<>> /\ z \in S
    BY EmptySeq
  <1> HIDE DEF count, S, f, step
  <1>7. PICK g \in [0 .. count -> S] : Follows(g, count, z, step)
    BY <1>1, <1>4, <1>6, RecursionExists
  <1>8. g[0] = <<>>
    BY <1>6, <1>7 DEF Follows
  <1>9. ASSUME NEW i \in 0 .. count, i # 0 PROVE g[i] = g[i - 1] \o FrameOf(r, i - 1)
    <2>1. i - 1 \in 0 .. count - 1 /\ i - 1 \in 0 .. count /\ i - 1 + 1 = i
      BY <1>1, <1>9
    <2>2. g[i - 1 + 1] = step[i - 1][g[i - 1]]
      BY <1>7, <2>1 DEF Follows
    <2>3. g[i - 1] \in S
      BY <2>1
    <2> QED
      BY <1>5, <2>1, <2>2, <2>3
  <1>10. Eqn(g)
    <2>1. g = [i \in 0 .. count |-> g[i]]
      OBVIOUS
    <2> QED
      BY <1>8, <1>9, <2>1
  <1>11. Eqn(f)
    <2> HIDE DEF Eqn
    <2> QED
      BY <1>3, <1>10
  <1>12. f[0] = <<>>
    <2>1. 0 \in 0 .. count
      BY <1>1
    <2> QED
      BY <1>11, <2>1
  <1>13. ASSUME NEW n \in 0 .. count - 1 PROVE f[n + 1] = f[n] \o FrameOf(r, n)
    <2>1. n + 1 \in 0 .. count /\ n + 1 # 0 /\ n + 1 - 1 = n
      BY <1>1
    <2>2. \A i \in 0 .. count : i # 0 => f[i] = f[i - 1] \o FrameOf(r, i - 1)
      BY <1>11
    <2> DEFINE i == n + 1
    <2>3. i \in 0 .. count /\ i # 0 /\ i - 1 = n
      BY <2>1
    <2> HIDE DEF Eqn, i
    <2>4. f[i] = f[i - 1] \o FrameOf(r, i - 1)
      BY <2>2, <2>3, Zenon
    <2>5. f[i] = f[n] \o FrameOf(r, n)
      BY <2>3, <2>4
    <2> QED
      BY <2>5 DEF i
  <1> DEFINE T == {n \in Nat : n <= count => f[n] \in S}
  <1>14. 0 \in T
    BY <1>6, <1>12
  <1>15. ASSUME NEW n \in Nat, n \in T PROVE n + 1 \in T
    <2> SUFFICES ASSUME n + 1 <= count PROVE f[n + 1] \in S
      OBVIOUS
    <2>1. n \in 0 .. count - 1 /\ f[n] \in S
      BY <1>1, <1>15
    <2>2. f[n] \o FrameOf(r, n) \in S
      BY <1>2, <2>1, ConcatProperties DEF S
    <2> QED
      BY <1>13, <2>1, <2>2
  <1> HIDE DEF T
  <1>16. \A n \in Nat : n \in T
    BY <1>14, <1>15, SetInduction
  <1>17. \A n \in 0 .. count : f[n] \in S
    BY <1>1, <1>16 DEF T
  <1> QED
    BY <1>1, <1>12, <1>13, <1>17 DEF f, S, count

\* Frames back to back never take more room than their slots.
LEMMA FramesFit ==
  ASSUME NEW r \in Runs
  PROVE  \A n \in 0 .. BlocksOf(r) : /\ Len(FramesUpto(r)[n]) \in Nat
                                     /\ Len(FramesUpto(r)[n]) <= n * r.slot_size
  <1> DEFINE f == FramesUpto(r)
             slot == r.slot_size
             T == {n \in Nat : n <= BlocksOf(r) => Len(f[n]) <= n * slot}
  <1>1. slot \in Nat /\ BlocksOf(r) \in Nat /\ IndicesOf(r) = 0 .. BlocksOf(r) - 1
    BY RunFacts
  <1>2. \A n \in 0 .. BlocksOf(r) : f[n] \in Seq(Cells) /\ Len(f[n]) \in Nat
    BY FramesDefined, LenProperties
  <1>3. 0 \in T
    <2>1. Len(f[0]) = 0
      BY FramesDefined
    <2>2. 0 * slot = 0
      BY <1>1
    <2> QED
      BY <2>1, <2>2
  <1>4. ASSUME NEW n \in Nat, n \in T PROVE n + 1 \in T
    <2> SUFFICES ASSUME n + 1 <= BlocksOf(r) PROVE Len(f[n + 1]) <= (n + 1) * slot
      OBVIOUS
    <2>1. n \in IndicesOf(r) /\ n \in 0 .. BlocksOf(r)
      BY <1>1
    <2>2. f[n + 1] = f[n] \o FrameOf(r, n)
      BY <2>1, FramesDefined
    <2>3. FrameOf(r, n) \in Seq(Cells) /\ Len(FrameOf(r, n)) \in Nat /\ Len(FrameOf(r, n)) <= slot
      BY <2>1, FrameFacts, BlockFacts
    <2>4. Len(f[n + 1]) = Len(f[n]) + Len(FrameOf(r, n))
      BY <1>2, <2>1, <2>2, <2>3, ConcatProperties
    <2>5. Len(f[n]) <= n * slot /\ (n + 1) * slot = n * slot + slot /\ n * slot \in Nat
      BY <1>1, <1>4, <2>1, NextMultiple, SMTT(30)
    <2> QED
      BY <1>1, <1>2, <2>1, <2>3, <2>4, <2>5, SMTT(30)
  <1> HIDE DEF T
  <1>5. \A n \in Nat : n \in T
    BY <1>3, <1>4, SetInduction
  <1>6. \A n \in 0 .. BlocksOf(r) : Len(f[n]) <= n * slot
    BY <1>1, <1>5 DEF T
  <1> QED
    BY <1>2, <1>6

\* One more frame.
LEMMA NextFrame ==
  ASSUME NEW r \in Runs, NEW n \in IndicesOf(r)
  PROVE  /\ n \in 0 .. BlocksOf(r) /\ n + 1 \in 0 .. BlocksOf(r)
         /\ FramesUpto(r)[n] \in Seq(Cells) /\ Len(FramesUpto(r)[n]) \in Nat
         /\ FramesUpto(r)[n + 1] \in Seq(Cells)
         /\ Len(FramesUpto(r)[n + 1]) = Len(FramesUpto(r)[n]) + FrameSizeOf(r, n)
         /\ \A j \in 1 .. Len(FramesUpto(r)[n]) : FramesUpto(r)[n + 1][j] = FramesUpto(r)[n][j]
         /\ \A j \in 1 .. FrameSizeOf(r, n) :
              FramesUpto(r)[n + 1][Len(FramesUpto(r)[n]) + j] = FrameOf(r, n)[j]
  <1> DEFINE p == FramesUpto(r)[n]
             q == FramesUpto(r)[n + 1]
             w == FrameOf(r, n)
             z == FrameSizeOf(r, n)
  <1>1. n \in 0 .. BlocksOf(r) /\ n + 1 \in 0 .. BlocksOf(r)
    BY RunFacts
  <1>2. p \in Seq(Cells) /\ q \in Seq(Cells) /\ q = p \o w
    BY <1>1, FramesDefined
  <1>3. w \in Seq(Cells) /\ Len(w) = z /\ z \in Nat
    BY FrameFacts, BlockFacts
  <1>4. Len(p) \in Nat
    BY <1>2, LenProperties
  <1> HIDE DEF p, q, w, z
  <1>5. Len(q) = Len(p) + Len(w)
    BY <1>2, <1>3, ConcatProperties
  <1>6. \A j \in 1 .. Len(p) + Len(w) : q[j] = IF j <= Len(p) THEN p[j] ELSE w[j - Len(p)]
    BY <1>2, <1>3, ConcatProperties
  <1>7. ASSUME NEW j \in 1 .. Len(p) PROVE q[j] = p[j]
    <2>1. j \in 1 .. Len(p) + Len(w) /\ j <= Len(p)
      BY <1>3, <1>4
    <2> QED
      BY <1>6, <2>1
  <1>8. ASSUME NEW j \in 1 .. z PROVE q[Len(p) + j] = w[j]
    <2>1. /\ Len(p) + j \in 1 .. Len(p) + Len(w) /\ ~(Len(p) + j <= Len(p))
          /\ Len(p) + j - Len(p) = j
      BY <1>3, <1>4
    <2> QED
      BY <1>6, <2>1
  <1> QED
    BY <1>1, <1>2, <1>3, <1>4, <1>5, <1>7, <1>8 DEF p, q, w, z

-----------------------------------------------------------------------------
(* The threads' chunks. *)

\* A thread that has not reached the end of its chunk reads a block of the input,
\* the last one as far as it goes.
LEMMA ChunkBlock ==
  ASSUME NEW r \in Runs, NEW t \in Nat, NEW m \in Nat,
         m * r.block_size < End(CallOf(r), t)
  PROVE  /\ m \in IndicesOf(r)
         /\ ReadAt(r.input, m * r.block_size,
                   Min2(r.block_size, End(CallOf(r), t) - m * r.block_size))
              = BlockOf(r, m)
  <1> DEFINE c == CallOf(r)
             bs == r.block_size
             from == m * bs
             size == Len(r.input)
             M == (t + 1) * Chunk(c)
             end == End(c, t)
  <1>1. /\ bs \in Nat \ {0} /\ size \in Nat /\ IsCall(c) /\ c.size = size /\ c.block = bs
        /\ c.overlap = 0 /\ IndicesOf(r) = 0 .. BlocksOf(r) - 1 /\ BlocksOf(r) \in Nat
    BY RunFacts
  <1>2. M \in Nat /\ from \in Nat
    <2>1. Chunk(c) \in Nat
      BY <1>1, ChunkFacts
    <2> QED
      BY <1>1, <2>1
  <1>3. end = Min2(M * bs, size) /\ M * bs \in Nat
    <2>1. M * bs \in Nat
      BY <1>1, <1>2
    <2>2. end = Min2(M * bs + 0, size)
      BY <1>1 DEF End
    <2> QED
      BY <2>1, <2>2
  <1>4. from < end
    OBVIOUS
  <1>5. from < size /\ from < M * bs /\ end \in Nat /\ end <= size
    BY <1>1, <1>2, <1>3, <1>4, SMTT(30) DEF Min2
  <1>6. m \in IndicesOf(r)
    <2>1. size <= BlocksOf(r) * bs /\ BlocksOf(r) * bs \in Nat
      <3>1. \A x \in Nat, y \in Nat : x * y \in Nat
        OBVIOUS
      <3> QED
        BY <1>1, <3>1, RunFacts
    <2>2. from < BlocksOf(r) * bs
      BY <1>1, <1>2, <1>5, <2>1, SMTT(30)
    <2>3. m < BlocksOf(r)
      BY <1>1, <2>2, TimesCancels, SMTT(30)
    <2> QED
      BY <1>1, <2>3
  <1>7. from + bs <= M * bs
    <2>1. m < M
      BY <1>1, <1>2, <1>5, TimesCancels
    <2>2. (m + 1) * bs <= M * bs
      BY <1>1, <1>2, <2>1, TimesMonotone, SMTT(30)
    <2> QED
      BY <1>1, <2>2, NextMultiple
  <1>8. ReadAt(r.input, from, Min2(bs, end - from)) = ReadAt(r.input, from, bs)
    <2>1. CASE bs <= end - from
      BY <2>1 DEF Min2
    <2>2. CASE ~(bs <= end - from)
      <3> HIDE DEF from, size, end, M, bs
      <3>1. end = size /\ Min2(bs, end - from) = size - from
        BY <1>1, <1>2, <1>3, <1>5, <1>7, <2>2 DEF Min2
      <3>2. from + (size - from) = size /\ ~(from + bs <= size)
        BY <1>1, <1>2, <1>5, <2>2, <3>1
      <3>3. ReadAt(r.input, from, size - from) = SubSeq(r.input, from + 1, size)
        BY <3>2 DEF ReadAt, size
      <3>4. ReadAt(r.input, from, bs) = SubSeq(r.input, from + 1, size)
        BY <3>2 DEF ReadAt, size
      <3> QED
        BY <3>1, <3>3, <3>4
    <2> QED
      BY <2>1, <2>2
  <1> QED
    BY <1>6, <1>8 DEF BlockOf

\* Every block has a thread, and only one.
LEMMA BlockOwner ==
  ASSUME NEW r \in Runs, NEW i \in IndicesOf(r)
  PROVE  \E t \in ThreadIds(CallOf(r)) : /\ Beg(CallOf(r), t) <= i * r.block_size
                                         /\ i * r.block_size < End(CallOf(r), t)
  <1> DEFINE c == CallOf(r)
  <1>1. IsCall(c) /\ c.block = r.block_size /\ i \in 0 .. BlockCount(c.size, c.block) - 1
    BY RunFacts DEF BlocksOf
  <1> HIDE DEF c
  <1>2. \E t \in ThreadIds(c) : /\ Beg(c, t) <= i * c.block
                                /\ i * c.block < End(c, t)
                                /\ i * c.block + c.block <= (t + 1) * Chunk(c) * c.block
    BY <1>1, BlockHasOwner
  <1> QED
    BY <1>1, <1>2 DEF c

LEMMA OneOwner ==
  ASSUME NEW r \in Runs, NEW t \in Nat, NEW u \in Nat, NEW o \in Nat,
         Beg(CallOf(r), t) <= o, o < End(CallOf(r), t),
         Beg(CallOf(r), u) <= o, o < End(CallOf(r), u)
  PROVE  t = u
  <1> DEFINE c == CallOf(r)
  <1>1. IsCall(c) /\ c.overlap = 0
    BY RunFacts
  <1>2. /\ Beg(c, t) \in Nat /\ End(c, t) \in Nat /\ Beg(c, u) \in Nat /\ End(c, u) \in Nat
        /\ Beg(c, t) <= o /\ o < End(c, t) /\ Beg(c, u) <= o /\ o < End(c, u)
    BY <1>1, RangeFacts
  <1>3. t < u => End(c, t) <= Beg(c, u)
    BY <1>1, RangesDisjoint
  <1>4. u < t => End(c, u) <= Beg(c, t)
    BY <1>1, RangesDisjoint
  <1> HIDE DEF c
  <1> QED
    BY <1>2, <1>3, <1>4

\* The second pass over the input reads it block by block.
LEMMA InputUpto ==
  ASSUME NEW r \in Runs
  PROVE  /\ ReadAt(r.input, 0, 0 * r.block_size) = <<>>
         /\ ReadAt(r.input, 0, BlocksOf(r) * r.block_size) = r.input
         /\ \A n \in IndicesOf(r) :
              ReadAt(r.input, 0, n * r.block_size) \o BlockOf(r, n)
                = ReadAt(r.input, 0, (n + 1) * r.block_size)
  <1> DEFINE bs == r.block_size
             size == Len(r.input)
             s == r.input
  <1>1. s \in Seq(Int) /\ size \in Nat /\ bs \in Nat \ {0} /\ BlocksOf(r) \in Nat
    BY RunFacts
  <1>2. ReadAt(s, 0, 0 * bs) = <<>>
    <2>1. 0 * bs = 0 /\ 0 + 0 <= size
      BY <1>1
    <2>2. ReadAt(s, 0, 0) = SubSeq(s, 1, 0)
      BY <2>1 DEF ReadAt
    <2> QED
      BY <2>1, <2>2, SubSeqEmpty
  <1>3. ReadAt(s, 0, BlocksOf(r) * bs) = s
    <2>1. size <= BlocksOf(r) * bs /\ BlocksOf(r) * bs \in Nat
      <3>1. \A x \in Nat, y \in Nat : x * y \in Nat
        OBVIOUS
      <3> QED
        BY <1>1, <3>1, RunFacts
    <2>2. (IF 0 + BlocksOf(r) * bs <= size THEN 0 + BlocksOf(r) * bs ELSE size) = size
      BY <1>1, <2>1
    <2>3. ReadAt(s, 0, BlocksOf(r) * bs) = SubSeq(s, 1, size)
      BY <2>2 DEF ReadAt
    <2> QED
      BY <1>1, <2>3, SubSeqFull
  <1>4. ASSUME NEW n \in IndicesOf(r)
        PROVE  ReadAt(s, 0, n * bs) \o BlockOf(r, n) = ReadAt(s, 0, (n + 1) * bs)
    <2> DEFINE from == n * bs
               hi == IF from + bs <= size THEN from + bs ELSE size
    <2>1. from \in Nat /\ from < size /\ (n + 1) * bs = from + bs
      BY <1>1, BlockFacts, NextMultiple
    <2>2. BlockOf(r, n) = ReadAt(s, from, bs)
      BY DEF BlockOf
    <2> HIDE DEF from, bs, s, size
    <2>3. ReadAt(s, 0, from) = SubSeq(s, 1, from)
      BY <1>1, <2>1 DEF ReadAt, size, s
    <2>4. ReadAt(s, from, bs) = SubSeq(s, from + 1, hi)
      BY DEF ReadAt, size, s
    <2>5. ReadAt(s, 0, from + bs) = SubSeq(s, 1, hi)
      BY <1>1, <2>1 DEF ReadAt, size, s
    <2>6. 1 \in 1 .. Len(s) + 1 /\ from \in 1 - 1 .. Len(s) /\ hi \in from .. Len(s)
      BY <1>1, <2>1 DEF size, s
    <2> HIDE DEF hi
    <2>7. SubSeq(s, 1, from) \o SubSeq(s, from + 1, hi) = SubSeq(s, 1, hi)
      BY <1>1, <2>6, ConcatAdjacentSubSeq
    <2> QED
      BY <2>1, <2>2, <2>3, <2>4, <2>5, <2>7 DEF from
  <1> QED
    BY <1>2, <1>3, <1>4

-----------------------------------------------------------------------------
(* The metadata. *)

\* An entry of the metadata, and a table of them.
LEMMA CellType ==
  ASSUME NEW x \in Seq(Int)
  PROVE  /\ <<"length", x>> \in MetaCells /\ <<"version", x>> \in MetaCells
         /\ <<"size", x>> \in MetaCells /\ <<"block_size", x>> \in MetaCells
         /\ <<"hash", x>> \in MetaCells
  BY DEF MetaCells, Kinds

LEMMA TableType ==
  ASSUME NEW kind \in Kinds, NEW n \in Nat, NEW f \in [0 .. n - 1 -> Seq(Int)]
  PROVE  Table(kind, f, n) \in Seq(MetaCells)
  <1>1. ASSUME NEW j \in 1 .. n PROVE <<kind, f[j - 1]>> \in MetaCells
    <2>1. j - 1 \in 0 .. n - 1
      OBVIOUS
    <2>2. f[j - 1] \in Seq(Int)
      BY <2>1
    <2> QED
      BY <2>2 DEF MetaCells
  <1> HIDE DEF MetaCells
  <1>2. Table(kind, f, n) \in [1 .. n -> MetaCells]
    BY <1>1 DEF Table
  <1> QED
    BY <1>2, FunctionIsSeq

\* A padded block is a sequence of bytes.
LEMMA PaddedType ==
  ASSUME NEW r \in Runs, NEW i \in IndicesOf(r)
  PROVE  PaddedOf(r, i) \in Seq(Int)
  <1>1. BlockOf(r, i) \in Seq(Int) /\ r.block_size \in Nat
    BY BlockFacts, RunFacts
  <1>2. PaddedOf(r, i) \in [1 .. r.block_size -> Int]
    BY <1>1, LenProperties DEF PaddedOf
  <1> QED
    BY <1>1, <1>2, FunctionIsSeq

\* The metadata of a run are cells of a metadata file.
LEMMA MetadataType ==
  ASSUME NEW r \in Runs
  PROVE  MetadataOf(r) \in Seq(MetaCells)
  <1> DEFINE C == MetaCells
             h == [size |-> Len(r.input), block_size |-> r.block_size, hash |-> Digest(r.input)]
             n == BlocksOf(r)
             sums == [i \in IndicesOf(r) |-> PaddedOf(r, i)]
             lengths == [i \in IndicesOf(r) |-> FrameSizeOf(r, i)]
  <1>1. /\ r.input \in Seq(Int) /\ Len(r.input) \in Nat /\ r.block_size \in Nat
        /\ n \in Nat /\ IndicesOf(r) = 0 .. n - 1
    BY RunFacts
  <1>3. \A x \in Int : <<x>> \in Seq(Int)
    OBVIOUS
  <1>4. Digest(r.input) \in Seq(Int)
    <2>1. <<0>> \in Seq(Int)
      BY <1>3
    <2> QED
      BY <1>1, <2>1, ConcatProperties DEF Digest
  <1>5. \A c \in C : <<c>> \in Seq(C)
    OBVIOUS
  <1>6. WriteHeader(h) \in Seq(C)
    <2>1. h.size \in Nat /\ h.block_size \in Nat /\ h.hash \in Seq(Int)
      BY <1>1, <1>4
    <2> HIDE DEF C, h
    <2>2. <<<<"version", <<Version>>>>>> \in Seq(C)
      <3>1. <<Version>> \in Seq(Int)
        BY DEF Version
      <3> DEFINE x == <<Version>>
      <3> HIDE DEF x
      <3>2. <<"version", x>> \in C
        BY <3>1, CellType DEF x, C
      <3>3. <<<<"version", x>>>> \in Seq(C)
        BY <1>5, <3>2
      <3> QED
        BY <3>3 DEF x
    <2>3. <<h.size>> \in Seq(Int) /\ <<h.block_size>> \in Seq(Int)
      BY <1>3, <2>1
    <2> DEFINE sizeCell == <<"size", <<h.size>>>>
               blockCell == <<"block_size", <<h.block_size>>>>
               hashCell == <<"hash", h.hash>>
    <2>4. sizeCell \in C /\ blockCell \in C /\ hashCell \in C
      <3>1. ASSUME NEW x \in Seq(Int)
            PROVE  <<"size", x>> \in C /\ <<"block_size", x>> \in C /\ <<"hash", x>> \in C
        BY CellType DEF C
      <3> QED
        BY <2>1, <2>3, <3>1
    <2>5. HeaderFields(h) \in Seq(C)
      <3> DEFINE x == <<<<"version", <<Version>>>>>>
                 y == IF h.size = 0 THEN <<>> ELSE <<sizeCell>>
                 z == <<blockCell, hashCell>>
      <3>1. HeaderFields(h) = x \o y \o z
        BY DEF HeaderFields
      <3>2. x \in Seq(C) /\ y \in Seq(C) /\ z \in Seq(C)
        <4> HIDE DEF sizeCell, blockCell, hashCell
        <4>1. <<sizeCell>> \in Seq(C) /\ <<>> \in Seq(C)
          BY <1>5, <2>4, EmptySeq
        <4>2. <<blockCell, hashCell>> \in Seq(C)
          BY <2>4
        <4> QED
          BY <2>2, <4>1, <4>2
      <3> HIDE DEF x, y, z
      <3>3. x \o y \in Seq(C)
        BY <3>2, ConcatProperties
      <3>4. (x \o y) \o z \in Seq(C)
        BY <3>2, <3>3, ConcatProperties
      <3> QED
        BY <3>1, <3>4
    <2>6. <<<<"length", <<Len(HeaderFields(h))>>>>>> \in Seq(C)
      <3> DEFINE x == <<Len(HeaderFields(h))>>
      <3>1. Len(HeaderFields(h)) \in Int
        BY <2>5, LenProperties
      <3>2. x \in Seq(Int)
        BY <1>3, <3>1
      <3> HIDE DEF x
      <3>3. <<"length", x>> \in C
        BY <3>2, CellType DEF C
      <3>4. <<<<"length", x>>>> \in Seq(C)
        BY <1>5, <3>3
      <3> QED
        BY <3>4 DEF x
    <2> QED
      BY <2>5, <2>6, ConcatProperties DEF WriteHeader
  <1>8. sums \in [0 .. n - 1 -> Seq(Int)]
    <2>1. ASSUME NEW i \in IndicesOf(r) PROVE PaddedOf(r, i) \in Seq(Int)
      BY PaddedType
    <2> QED
      BY <1>1, <2>1
  <1> DEFINE words == [i \in 0 .. n - 1 |-> <<lengths[i]>>]
  <1>9. words \in [0 .. n - 1 -> Seq(Int)]
    <2>1. ASSUME NEW i \in 0 .. n - 1 PROVE <<lengths[i]>> \in Seq(Int)
      <3>1. i \in IndicesOf(r)
        BY <1>1
      <3>2. lengths[i] \in Int
        BY <3>1, BlockFacts
      <3> HIDE DEF lengths
      <3> QED
        BY <1>3, <3>2
    <2> HIDE DEF lengths, n
    <2> QED
      BY <2>1
  <1>10. MetadataOf(r) = WriteHeader(h) \o Table("weak", sums, n) \o Table("strong", sums, n)
                           \o Table("size", words, n)
    BY DEF MetadataOf, MetadataFile
  <1> HIDE DEF C, h, n, sums, lengths, words
  <1>11. Table("weak", sums, n) \in Seq(C) /\ Table("strong", sums, n) \in Seq(C)
    <2>1. "weak" \in Kinds /\ "strong" \in Kinds
      BY DEF Kinds
    <2> QED
      BY <1>1, <1>8, <2>1, TableType DEF C
  <1>12. Table("size", words, n) \in Seq(C)
    <2>1. "size" \in Kinds
      BY DEF Kinds
    <2> QED
      BY <1>1, <1>9, <2>1, TableType DEF C
  <1>13. WriteHeader(h) \o Table("weak", sums, n) \in Seq(C)
    BY <1>6, <1>11, ConcatProperties
  <1>14. WriteHeader(h) \o Table("weak", sums, n) \o Table("strong", sums, n) \in Seq(C)
    BY <1>11, <1>13, ConcatProperties
  <1>15. MetadataOf(r) \in Seq(C)
    BY <1>10, <1>12, <1>14, ConcatProperties
  <1> QED
    BY <1>15 DEF C

-----------------------------------------------------------------------------
(* A run starts. *)

Fresh ==
  /\ run \in Runs
  /\ reruns \in 0 .. MaxReruns
  /\ stage = "preparing"
  /\ data \in Seq(Cells) /\ ksync \in Seq(MetaCells) /\ ksync_buffer = <<>>
  /\ offset = NoBlockPrepared(run).offset
  /\ open = Threads
  /\ unflushed = NoBlockPrepared(run).unflushed
  /\ checksums = NoBlockPrepared(run).checksums
  /\ compressed_sizes = NoBlockPrepared(run).sizes
  /\ compressed_bytes = 0
  /\ next = 0 /\ out_at = 0 /\ out_buffer = <<>> /\ hashed = <<>>
  /\ progress = 0
  /\ total = Size

\* Nothing is prepared, so that nothing is claimed yet.
LEMMA FreshIsGood == Fresh => PrepareInv
  <1> SUFFICES ASSUME Fresh PROVE PrepareInv
    OBVIOUS
  <1>1. /\ run \in Runs /\ IsCall(Call) /\ Size \in Nat /\ run.slot_size \in Nat
        /\ Blocks \in Nat /\ Indices = 0 .. Blocks - 1 /\ run.block_size \in Nat \ {0}
        /\ Call.block = run.block_size
    BY RunFacts DEF Fresh, Call, Size, Blocks, BlocksOf, Indices
  <1>2. /\ offset = [t \in Threads |-> Beg(Call, t)]
        /\ unflushed = [t \in Threads |-> Unwritten]
        /\ checksums = [i \in Indices |-> <<>>]
        /\ compressed_sizes = [i \in Indices |-> 0]
    BY DEF Fresh, NoBlockPrepared, Threads, Call, Indices
  <1>3. \A t \in Threads : t \in Nat
    BY <1>1, ChunkFacts DEF Threads, ThreadIds
  <1>4. Typed
    <2>1. offset \in [Threads -> Nat]
      BY <1>1, <1>2, <1>3, RangeFacts
    <2>2. <<>> \in Seq(Cells) /\ <<>> \in Seq(MetaCells)
      BY EmptySeq
    <2>3. compressed_sizes \in [Indices -> 0 .. run.slot_size]
      BY <1>1, <1>2
    <2>4. DOMAIN unflushed = Threads /\ checksums \in [Indices -> Seq(Int)]
      BY <1>2, EmptySeq
    <2>5. next \in 0 .. Blocks
      BY <1>1 DEF Fresh
    <2> QED
      BY <1>1, <2>1, <2>2, <2>3, <2>4, <2>5 DEF Typed, Fresh
  <1>5. \A t \in Threads : WritesOwn(t)
    BY <1>2 DEF WritesOwn
  <1>6. ASSUME NEW t \in Threads PROVE ThreadOK(t)
    <2>1. offset[t] = Beg(Call, t)
      BY <1>2
    <2>2. Beg(Call, t) \in Nat /\ \E m \in Nat : Beg(Call, t) = m * run.block_size
      BY <1>1, <1>3, RangeFacts, BegIsAligned
    <2>3. ASSUME NEW i \in Indices, Done(t, i) PROVE FALSE
      <3>1. i * run.block_size \in Nat
        BY <1>1
      <3> QED
        BY <2>1, <2>2, <2>3, <3>1 DEF Done
    <2>4. t \in open
      BY DEF Fresh
    <2> QED
      BY <2>1, <2>2, <2>3, <2>4 DEF ThreadOK
  <1>7. CopiedOK /\ MetadataOK
    BY DEF Fresh, CopiedOK, MetadataOK
  <1> QED
    BY <1>4, <1>5, <1>6, <1>7 DEF PrepareInv, PreparedOK, NotStarted, Fresh

LEMMA FreshIsGoodNext == Fresh' => PrepareInv'
  BY FreshIsGood, PTL

LEMMA InitIsFresh == Init => Fresh
  <1> SUFFICES ASSUME Init PROVE Fresh
    OBVIOUS
  <1>1. data \in Seq(Cells) /\ <<>> \in Seq(MetaCells) /\ 0 \in 0 .. MaxReruns
    BY RunsAssumption, EmptySeq DEF Init
  <1> QED
    BY <1>1 DEF Init, Fresh

LEMMA RerunIsFresh == PrepareInv /\ Rerun => Fresh'
  <1> SUFFICES ASSUME PrepareInv, Rerun PROVE Fresh'
    OBVIOUS
  <1>1. reruns' \in 0 .. MaxReruns
    BY RunsAssumption DEF PrepareInv, Typed, Rerun
  <1>2. data' \in Seq(Cells) /\ ksync' \in Seq(MetaCells)
    BY DEF PrepareInv, Typed, Rerun
  <1> QED
    BY <1>1, <1>2 DEF Rerun, Fresh, Threads, Call, Size

-----------------------------------------------------------------------------
(* The operators of Prepare are those of the run. *)

LEMMA OfRun ==
  /\ Size = Len(run.input) /\ Call = CallOf(run) /\ Threads = ThreadIds(CallOf(run))
  /\ Blocks = BlocksOf(run) /\ Indices = IndicesOf(run)
  BY DEF Size, Call, Threads, Blocks, BlocksOf, Indices

LEMMA BlocksOfRun ==
  ASSUME NEW i
  PROVE  /\ Block(i) = BlockOf(run, i) /\ Padded(Block(i)) = PaddedOf(run, i)
         /\ Frame(Block(i)) = FrameOf(run, i) /\ FrameSize[Block(i)] = FrameSizeOf(run, i)
  BY DEF Block, BlockOf, Padded, PaddedOf, FrameOf, FrameSizeOf

LEMMA AllFramesOfRun == AllFrames = FramesUpto(run)[BlocksOf(run)]
  BY DEF AllFrames, FramesUpto, Blocks, BlocksOf, Size, Block, BlockOf, FrameOf

LEMMA ThreadsAreNumbers ==
  ASSUME NEW r \in Runs, NEW t \in ThreadIds(CallOf(r))
  PROVE  t \in Nat /\ Beg(CallOf(r), t) \in Nat /\ End(CallOf(r), t) \in Nat
  <1>1. IsCall(CallOf(r))
    BY RunFacts
  <1>2. t \in Nat
    BY <1>1, ChunkFacts DEF ThreadIds
  <1> QED
    BY <1>1, <1>2, RangeFacts

\* What the invariant says of the stream of a thread.
LEMMA StreamFacts ==
  ASSUME PrepareInv, NEW t \in Threads
  PROVE  /\ unflushed[t] = Unwritten \/ \E k \in IndicesOf(run) : unflushed[t] = SlotWrite(run, k)
         /\ unflushed[t].at \in Nat /\ unflushed[t].cells \in Seq(Cells)
         /\ Flushed(t) \in Seq(Cells)
  <1>1. run \in Runs /\ data \in Seq(Cells) /\ Hole \in Cells
    BY DEF PrepareInv, Typed, Cells
  <1>2. unflushed[t] = Unwritten \/ \E k \in IndicesOf(run) : unflushed[t] = SlotWrite(run, k)
    BY OfRun DEF PrepareInv, WritesOwn
  <1>3. unflushed[t].at \in Nat /\ unflushed[t].cells \in Seq(Cells)
    BY <1>1, <1>2, HeldWriteFacts
  <1>4. Flushed(t) \in Seq(Cells)
    BY <1>1, <1>3, WrittenSize DEF Flushed
  <1> QED
    BY <1>2, <1>3, <1>4

\* A flush of thread t harms nobody's frame, and t's own is in its slot then.
LEMMA FlushHolds ==
  ASSUME PrepareInv, stage = "preparing", NEW t \in Threads, NEW u \in Threads,
         NEW i \in Indices, Done(u, i)
  PROVE  /\ checksums[i] = PaddedOf(run, i) /\ compressed_sizes[i] = FrameSizeOf(run, i)
         /\ \/ Holds(run, Flushed(t), i)
            \/ u # t /\ u \in open /\ unflushed[u] = SlotWrite(run, i)
  <1>1. run \in Runs /\ data \in Seq(Cells) /\ i \in IndicesOf(run)
    BY OfRun DEF PrepareInv, Typed
  <1>2. Recorded(u, i)
    BY DEF PrepareInv, PreparedOK, ThreadOK
  <1>3. unflushed[t] = Unwritten \/ \E k \in IndicesOf(run) : unflushed[t] = SlotWrite(run, k)
    BY StreamFacts
  <1>4. Holds(run, data, i) => Holds(run, Flushed(t), i)
    BY <1>1, <1>3, FlushKeepsSlot DEF Flushed
  <1>5. unflushed[t] = SlotWrite(run, i) => Holds(run, Flushed(t), i)
    BY <1>1, SlotWritten DEF Flushed
  <1> QED
    BY <1>2, <1>4, <1>5 DEF Recorded

-----------------------------------------------------------------------------
(* The threads. *)

\* Thread t prepares block m.
Prepares(t, m) ==
  /\ stage = "preparing" /\ t \in open
  /\ offset[t] = m * run.block_size
  /\ m * run.block_size < End(Call, t)
  /\ checksums' = [checksums EXCEPT ![m] = PaddedOf(run, m)]
  /\ data' = Flushed(t)
  /\ unflushed' = [unflushed EXCEPT ![t] = SlotWrite(run, m)]
  /\ compressed_sizes' = [compressed_sizes EXCEPT ![m] = FrameSizeOf(run, m)]
  /\ compressed_bytes' = compressed_bytes + FrameSizeOf(run, m)
  /\ progress' = progress + Len(BlockOf(run, m))
  /\ offset' = [offset EXCEPT ![t] = (m + 1) * run.block_size]
  /\ UNCHANGED <<run, reruns, stage, ksync, ksync_buffer, open, compaction, total>>

LEMMA PrepareBlockPrepares ==
  ASSUME PrepareInv, NEW t \in Threads, PrepareBlock(t)
  PROVE  \E m \in Indices : Prepares(t, m)
  <1>1. run \in Runs /\ stage = "preparing" /\ t \in open
    BY DEF PrepareInv, Typed, PrepareBlock
  <1>2. PICK m \in Nat : offset[t] = m * run.block_size
    BY <1>1 DEF PrepareInv, PreparedOK, ThreadOK
  <1>3. offset[t] < End(Call, t)
    BY DEF PrepareBlock
  <1>4. t \in Nat /\ run.block_size \in Nat \ {0}
    BY <1>1, OfRun, ThreadsAreNumbers, RunFacts
  <1> DEFINE v == ReadAt(run.input, offset[t], Min2(run.block_size, End(Call, t) - offset[t]))
  <1>5. m \in IndicesOf(run) /\ v = BlockOf(run, m)
    BY <1>1, <1>2, <1>3, <1>4, OfRun, ChunkBlock
  <1>6. offset[t] \div run.block_size = m
    BY <1>2, <1>4, DivOfMultiple
  <1>7. v = Block(m)
    BY <1>5, BlocksOfRun
  <1> HIDE DEF v
  <1>8. /\ checksums' = [checksums EXCEPT ![m] = Padded(v)]
        /\ data' = Flushed(t)
        /\ unflushed' = [unflushed EXCEPT ![t] = [at |-> SlotStart(m), cells |-> Frame(v)]]
        /\ compressed_sizes' = [compressed_sizes EXCEPT ![m] = FrameSize[v]]
        /\ compressed_bytes' = compressed_bytes + FrameSize[v]
        /\ progress' = progress + BytesRead(v)
        /\ offset' = [offset EXCEPT ![t] = @ + run.block_size]
        /\ UNCHANGED <<run, reruns, stage, ksync, ksync_buffer, open, compaction, total>>
    BY <1>6 DEF PrepareBlock, v
  <1>9. Padded(v) = PaddedOf(run, m) /\ Frame(v) = FrameOf(run, m)
        /\ FrameSize[v] = FrameSizeOf(run, m) /\ BytesRead(v) = Len(BlockOf(run, m))
    BY <1>5, <1>7, BlocksOfRun DEF BytesRead
  <1>10. offset' = [offset EXCEPT ![t] = (m + 1) * run.block_size]
    <2>1. offset[t] + run.block_size = (m + 1) * run.block_size
      BY <1>2, <1>4, NextMultiple
    <2> QED
      BY <1>8, <2>1
  <1>11. [at |-> SlotStart(m), cells |-> Frame(v)] = SlotWrite(run, m)
    BY <1>9 DEF SlotStart, SlotWrite
  <1>12. Prepares(t, m)
    BY <1>1, <1>2, <1>3, <1>8, <1>9, <1>10, <1>11 DEF Prepares
  <1> QED
    BY <1>5, <1>12, OfRun

\* Within a run nothing else changes.
LEMMA SameRun ==
  ASSUME run' = run
  PROVE  /\ Size' = Size /\ Call' = Call /\ Threads' = Threads
         /\ Blocks' = Blocks /\ Indices' = Indices
  BY DEF Size, Call, Threads, Blocks, Indices

LEMMA PrepareBlockIsGood ==
  ASSUME PrepareInv, NEW t \in Threads, PrepareBlock(t)
  PROVE  PrepareInv'
  <1>1. PICK m \in Indices : Prepares(t, m)
    BY PrepareBlockPrepares
  <1> DEFINE bs == run.block_size
             at(i) == i * bs
  <1>2. /\ run \in Runs /\ m \in IndicesOf(run) /\ m \in Nat /\ bs \in Nat \ {0}
        /\ Indices = 0 .. Blocks - 1 /\ Blocks \in Nat
    BY OfRun, RunFacts, BlockFacts DEF PrepareInv, Typed
  <1>3. /\ run' = run /\ stage' = "preparing" /\ stage = "preparing" /\ open' = open
        /\ data' = Flushed(t) /\ t \in open
    BY <1>1 DEF Prepares
  <1>4. /\ Call' = Call /\ Threads' = Threads /\ Blocks' = Blocks /\ Indices' = Indices
    BY <1>3, SameRun
  <1>5. \A i \in Indices : i \in Nat /\ i \in IndicesOf(run) /\ at(i) \in Nat
    BY <1>2, OfRun
  <1>6. at(m + 1) = at(m) + bs /\ at(m) \in Nat /\ at(m + 1) \in Nat
    BY <1>2, NextMultiple
  <1>7. /\ Beg(Call, t) \in Nat /\ End(Call, t) \in Nat
        /\ offset[t] = at(m) /\ at(m) < End(Call, t) /\ Beg(Call, t) <= at(m)
    BY <1>1, <1>2, <1>3, OfRun, ThreadsAreNumbers DEF Prepares, PrepareInv, PreparedOK, ThreadOK
  <1> HIDE DEF at
  <1>8. /\ offset \in [Threads -> Nat] /\ DOMAIN unflushed = Threads
        /\ checksums \in [Indices -> Seq(Int)]
        /\ compressed_sizes \in [Indices -> 0 .. run.slot_size]
    BY DEF PrepareInv, Typed
  <1>9. /\ offset' = [offset EXCEPT ![t] = at(m + 1)]
        /\ unflushed' = [unflushed EXCEPT ![t] = SlotWrite(run, m)]
        /\ checksums' = [checksums EXCEPT ![m] = PaddedOf(run, m)]
        /\ compressed_sizes' = [compressed_sizes EXCEPT ![m] = FrameSizeOf(run, m)]
    BY <1>1 DEF Prepares, at
  <1>10. Typed'
    <2>1. offset' \in [Threads -> Nat] /\ DOMAIN unflushed' = Threads
          /\ checksums' \in [Indices -> Seq(Int)]
      BY <1>2, <1>6, <1>8, <1>9, PaddedType
    <2>2. FrameSizeOf(run, m) \in 0 .. run.slot_size
      BY <1>2, BlockFacts, RunFacts
    <2>3. compressed_sizes' \in [Indices -> 0 .. run.slot_size]
      BY <1>8, <1>9, <2>2
    <2>4. compressed_bytes' \in Nat /\ progress' \in Nat
      <3>1. FrameSizeOf(run, m) \in Nat /\ Len(BlockOf(run, m)) \in Nat
        BY <1>2, BlockFacts
      <3>2. compressed_bytes \in Nat /\ progress \in Nat
        BY DEF PrepareInv, Typed
      <3> QED
        BY <1>1, <3>1, <3>2 DEF Prepares
    <2>5. data' \in Seq(Cells)
      BY <1>3, StreamFacts
    <2>6. /\ reruns' = reruns /\ ksync' = ksync /\ ksync_buffer' = ksync_buffer
          /\ next' = next /\ out_at' = out_at /\ out_buffer' = out_buffer /\ total' = total
      BY <1>1 DEF Prepares, compaction
    <2> QED
      BY <1>3, <1>4, <2>1, <2>3, <2>4, <2>5, <2>6 DEF PrepareInv, Typed
  <1>11. ASSUME NEW u \in Threads PROVE WritesOwn(u)'
    <2>1. CASE u = t
      <3>1. unflushed'[u] = SlotWrite(run, m) /\ offset'[u] = at(m + 1)
        BY <1>8, <1>9, <2>1
      <3>2. at(m) < at(m + 1)
        BY <1>2, <1>6
      <3> QED
        BY <1>3, <1>4, <1>7, <2>1, <3>1, <3>2 DEF WritesOwn, at
    <2>2. CASE u # t
      <3>1. unflushed'[u] = unflushed[u] /\ offset'[u] = offset[u]
        BY <1>8, <1>9, <2>2
      <3> QED
        BY <1>3, <1>4, <3>1 DEF WritesOwn, PrepareInv
    <2> QED
      BY <2>1, <2>2
  <1>12. ASSUME NEW u \in Threads PROVE ThreadOK(u)'
    <2>1. /\ Beg(Call, u) \in Nat /\ End(Call, u) \in Nat /\ u \in Nat /\ t \in Nat
      BY <1>2, OfRun, ThreadsAreNumbers
    <2>2. ThreadOK(u)
      BY <1>3 DEF PrepareInv, PreparedOK
    <2>3. /\ \E k \in Nat : offset'[u] = k * run.block_size
          /\ Beg(Call, u) <= offset'[u]
          /\ u \notin open => End(Call, u) <= offset'[u]
      <3>1. CASE u = t
        <4>1. offset'[u] = at(m + 1) /\ m + 1 \in Nat
          BY <1>2, <1>8, <1>9, <3>1
        <4>2. Beg(Call, u) <= offset'[u]
          BY <1>2, <1>6, <1>7, <2>1, <3>1, <4>1
        <4> QED
          BY <1>3, <3>1, <4>1, <4>2 DEF at
      <3>2. CASE u # t
        <4>1. offset'[u] = offset[u]
          BY <1>8, <1>9, <3>2
        <4> QED
          BY <2>2, <4>1 DEF ThreadOK
      <3> QED
        BY <3>1, <3>2
    <2>4. ASSUME NEW i \in Indices, Beg(Call, u) <= at(i), at(i) < End(Call, u), at(i) < offset'[u]
          PROVE  /\ checksums'[i] = PaddedOf(run, i)
                 /\ compressed_sizes'[i] = FrameSizeOf(run, i)
                 /\ Holds(run, data', i) \/ (u \in open /\ unflushed'[u] = SlotWrite(run, i))
      <3>1. CASE u = t /\ i = m
        BY <1>3, <1>8, <1>9, <3>1
      <3>2. CASE ~(u = t /\ i = m)
        <4>1. i # m /\ Done(u, i)
          <5>1. CASE u = t
            <6>1. at(i) < at(m) + bs
              BY <1>6, <1>8, <1>9, <2>4, <5>1
            <6>2. i <= m
              BY <1>2, <1>5, <6>1, BlocksApart DEF at
            <6>3. i < m
              BY <1>2, <1>5, <3>2, <5>1, <6>2
            <6>4. at(i) < at(m)
              <7>1. at(i + 1) <= at(m)
                BY <1>2, <1>5, <6>3, TimesMonotone, SMTT(30) DEF at
              <7>2. at(i + 1) = at(i) + bs /\ at(i) \in Nat
                BY <1>2, <1>5, NextMultiple DEF at
              <7> QED
                BY <1>2, <1>6, <7>1, <7>2
            <6> QED
              BY <1>7, <2>4, <5>1, <6>3, <6>4, <1>2, <1>5 DEF Done, at
          <5>2. CASE u # t
            <6>1. offset'[u] = offset[u]
              BY <1>8, <1>9, <5>2
            <6>2. i # m
              <7> SUFFICES ASSUME i = m PROVE u = t
                BY <5>2
              <7> QED
                BY <1>2, <1>6, <1>7, <2>1, <2>4, OfRun, OneOwner
            <6> QED
              BY <2>4, <6>1, <6>2 DEF Done, at
          <5> QED
            BY <5>1, <5>2
        <4>2. checksums'[i] = checksums[i] /\ compressed_sizes'[i] = compressed_sizes[i]
          BY <1>8, <1>9, <4>1
        <4>3. /\ checksums[i] = PaddedOf(run, i) /\ compressed_sizes[i] = FrameSizeOf(run, i)
              /\ \/ Holds(run, Flushed(t), i)
                 \/ u # t /\ u \in open /\ unflushed[u] = SlotWrite(run, i)
          BY <1>3, <4>1, FlushHolds
        <4>4. u # t => unflushed'[u] = unflushed[u]
          BY <1>8, <1>9
        <4> QED
          BY <1>3, <4>2, <4>3, <4>4
      <3> QED
        BY <3>1, <3>2
    <2>5. ASSUME NEW i \in Indices, Done(u, i)' PROVE Recorded(u, i)'
      <3>1. Beg(Call, u) <= at(i) /\ at(i) < End(Call, u) /\ at(i) < offset'[u]
        BY <1>3, <1>4, <2>5 DEF Done, at
      <3>2. /\ checksums'[i] = PaddedOf(run, i)
            /\ compressed_sizes'[i] = FrameSizeOf(run, i)
            /\ Holds(run, data', i) \/ (u \in open /\ unflushed'[u] = SlotWrite(run, i))
        BY <2>4, <3>1
      <3> QED
        BY <1>3, <3>2 DEF Recorded
    <2> QED
      BY <1>3, <1>4, <2>3, <2>5 DEF ThreadOK
  <1>13. PreparedOK'
    <2>1. NotStarted
      BY <1>3 DEF PrepareInv, PreparedOK
    <2>2. NotStarted'
      BY <1>1, <2>1 DEF NotStarted, Prepares, compaction
    <2> QED
      BY <1>4, <1>12, <2>2 DEF PreparedOK
  <1>14. CopiedOK' /\ MetadataOK'
    BY <1>3 DEF CopiedOK, MetadataOK
  <1> QED
    BY <1>4, <1>10, <1>11, <1>13, <1>14 DEF PrepareInv

LEMMA CloseChunkIsGood ==
  ASSUME PrepareInv, NEW t \in Threads, CloseChunk(t)
  PROVE  PrepareInv'
  <1>1. /\ run' = run /\ stage' = "preparing" /\ stage = "preparing" /\ open' = open \ {t}
        /\ data' = Flushed(t) /\ t \in open /\ offset[t] >= End(Call, t)
        /\ offset' = offset /\ unflushed' = unflushed /\ checksums' = checksums
        /\ compressed_sizes' = compressed_sizes
    BY DEF CloseChunk, PastChunk, tables
  <1>2. /\ Call' = Call /\ Threads' = Threads /\ Blocks' = Blocks /\ Indices' = Indices
    BY <1>1, SameRun
  <1>3. Typed'
    <2>1. data' \in Seq(Cells)
      BY <1>1, StreamFacts
    <2>2. UNCHANGED <<reruns, ksync, ksync_buffer, next, out_at, out_buffer, total,
                      compressed_bytes, progress>>
      BY DEF CloseChunk, compaction, tables
    <2> QED
      BY <1>1, <1>2, <2>1, <2>2 DEF PrepareInv, Typed
  <1>4. ASSUME NEW u \in Threads PROVE WritesOwn(u)'
    BY <1>1, <1>2 DEF WritesOwn, PrepareInv
  <1>5. ASSUME NEW u \in Threads PROVE ThreadOK(u)'
    <2>1. ThreadOK(u)
      BY <1>1 DEF PrepareInv, PreparedOK
    <2>2. ASSUME NEW i \in Indices, Done(u, i)' PROVE Recorded(u, i)'
      <3>1. Done(u, i)
        BY <1>1, <1>2, <2>2 DEF Done
      <3>2. /\ checksums[i] = PaddedOf(run, i) /\ compressed_sizes[i] = FrameSizeOf(run, i)
            /\ \/ Holds(run, Flushed(t), i)
               \/ u # t /\ u \in open /\ unflushed[u] = SlotWrite(run, i)
        BY <1>1, <3>1, FlushHolds
      <3> QED
        BY <1>1, <3>2 DEF Recorded
    <2>3. u \notin open' => End(Call, u) <= offset[u]
      <3>1. offset[u] \in Nat /\ End(Call, u) \in Nat
        <4>1. run \in Runs /\ offset \in [Threads -> Nat]
          BY DEF PrepareInv, Typed
        <4> QED
          BY <4>1, OfRun, ThreadsAreNumbers
      <3> QED
        BY <1>1, <2>1, <3>1 DEF ThreadOK
    <2> QED
      BY <1>1, <1>2, <2>1, <2>2, <2>3 DEF ThreadOK
  <1>6. PreparedOK'
    <2>1. NotStarted
      BY <1>1 DEF PrepareInv, PreparedOK
    <2>2. NotStarted'
      BY <2>1 DEF NotStarted, CloseChunk, compaction
    <2> QED
      BY <1>2, <1>5, <2>2 DEF PreparedOK
  <1>7. CopiedOK' /\ MetadataOK'
    BY <1>1 DEF CopiedOK, MetadataOK
  <1> QED
    BY <1>2, <1>3, <1>4, <1>6, <1>7 DEF PrepareInv

-----------------------------------------------------------------------------
(* The frames are moved together. *)

\* The stream is given one more frame.
LEMMA CopiedGrows ==
  ASSUME NEW r \in Runs, NEW n \in IndicesOf(r), NEW f \in Seq(Cells), NEW at \in Nat,
         NEW buffer \in Seq(Cells), Copied(r, f, n, at, buffer)
  PROVE  Copied(r, f, n + 1, at, buffer \o FrameOf(r, n))
  <1> DEFINE p == FramesUpto(r)[n]
             q == FramesUpto(r)[n + 1]
             w == FrameOf(r, n)
             z == FrameSizeOf(r, n)
             more == buffer \o w
  <1>1. w \in Seq(Cells) /\ Len(w) = z /\ z \in Nat
    BY FrameFacts, BlockFacts
  <1>2. /\ Len(p) \in Nat /\ Len(q) = Len(p) + z
        /\ \A j \in 1 .. Len(p) : q[j] = p[j]
        /\ \A j \in 1 .. z : q[Len(p) + j] = w[j]
    BY NextFrame
  <1>3. /\ at + Len(buffer) = Len(p)
        /\ at <= Len(f)
        /\ \A j \in 1 .. at : f[j] = p[j]
        /\ \A j \in 1 .. Len(buffer) : buffer[j] = p[at + j]
    BY DEF Copied
  <1>2a. Len(p) \in Nat /\ Len(q) = Len(p) + z
    BY <1>2
  <1>3a. at + Len(buffer) = Len(p) /\ at <= Len(f)
    BY <1>3
  <1>4. Len(buffer) \in Nat
    BY LenProperties
  <1> HIDE DEF p, q, w, z
  <1>5. Len(more) = Len(buffer) + z
    BY <1>1, ConcatProperties
  <1>6. \A j \in 1 .. Len(buffer) + Len(w) :
          more[j] = IF j <= Len(buffer) THEN buffer[j] ELSE w[j - Len(buffer)]
    BY <1>1, ConcatProperties
  <1> HIDE DEF more
  <1>7. ASSUME NEW j \in 1 .. at PROVE f[j] = q[j]
    <2>1. j \in 1 .. Len(p)
      BY <1>3, <1>4
    <2> QED
      BY <1>2, <1>3, <2>1
  <1>8. ASSUME NEW j \in 1 .. Len(more) PROVE more[j] = q[at + j]
    <2>1. j \in 1 .. Len(buffer) + Len(w)
      BY <1>1, <1>5
    <2>2. CASE j <= Len(buffer)
      <3>1. j \in 1 .. Len(buffer) /\ at + j \in 1 .. Len(p)
        BY <1>3, <1>4, <2>1, <2>2
      <3>2. more[j] = buffer[j]
        BY <1>6, <2>1, <2>2
      <3>3. buffer[j] = p[at + j]
        BY <1>3, <3>1
      <3>4. q[at + j] = p[at + j]
        BY <1>2, <3>1
      <3> QED
        BY <3>2, <3>3, <3>4
    <2>3. CASE ~(j <= Len(buffer))
      <3> DEFINE k == j - Len(buffer)
      <3>1. k \in 1 .. z /\ Len(p) + k = at + j
        <4>1. j \in Nat /\ 1 <= j /\ j <= Len(buffer) + z
          BY <1>1, <1>4, <2>1
        <4>2. z \in Nat
          BY <1>1
        <4>3. k \in Int /\ 1 <= k /\ k <= z
          BY <1>4, <2>3, <4>1, <4>2
        <4>4. Len(p) + k = at + j
          BY <1>2a, <1>3a, <1>4, <4>1
        <4> QED
          BY <4>2, <4>3, <4>4
      <3>2. more[j] = w[k]
        BY <1>6, <2>1, <2>3
      <3> HIDE DEF k
      <3>3. q[Len(p) + k] = w[k]
        BY <1>2, <3>1
      <3> QED
        BY <3>1, <3>2, <3>3
    <2> QED
      BY <2>2, <2>3
  <1>9. at + Len(more) = Len(q)
    BY <1>1, <1>2a, <1>3a, <1>4, <1>5
  <1> QED
    BY <1>3, <1>7, <1>8, <1>9 DEF Copied, q, w, more

\* Some of what the stream holds reaches the file.
LEMMA CopiedMoves ==
  ASSUME NEW r \in Runs, NEW n \in 0 .. BlocksOf(r), NEW f \in Seq(Cells), NEW at \in Nat,
         NEW buffer \in Seq(Cells), Copied(r, f, n, at, buffer), NEW k \in 1 .. Len(buffer)
  PROVE  /\ SubSeq(buffer, 1, k) \in Seq(Cells) /\ Len(SubSeq(buffer, 1, k)) = k
         /\ SubSeq(buffer, k + 1, Len(buffer)) \in Seq(Cells)
         /\ WriteAt(f, at, SubSeq(buffer, 1, k), Hole) \in Seq(Cells)
         /\ at + k <= n * r.slot_size
         /\ Copied(r, WriteAt(f, at, SubSeq(buffer, 1, k), Hole), n, at + k,
                   SubSeq(buffer, k + 1, Len(buffer)))
  <1> DEFINE p == FramesUpto(r)[n]
             front == SubSeq(buffer, 1, k)
             rest == SubSeq(buffer, k + 1, Len(buffer))
             g == WriteAt(f, at, front, Hole)
             room == n * r.slot_size
  <1>1. Len(buffer) \in Nat /\ k \in Nat /\ k <= Len(buffer) /\ 1 <= k /\ Len(f) \in Nat
    BY LenProperties
  <1>2. k \in 0 .. Len(buffer)
    BY <1>1
  <1>3. front \in Seq(Cells) /\ rest \in Seq(Cells) /\ Len(front) = k
        /\ Len(rest) = Len(buffer) - k
    BY <1>2, FrontAndRest
  <1>3a. front \in Seq(Cells)
    BY <1>3
  <1>4. /\ \A j \in 1 .. k : front[j] = buffer[j]
        /\ \A j \in 1 .. Len(buffer) - k : rest[j] = buffer[k + j]
    BY <1>2, FrontAndRest
  <1>5. /\ at + Len(buffer) = Len(p)
        /\ at <= Len(f)
        /\ \A j \in 1 .. at : f[j] = p[j]
        /\ \A j \in 1 .. Len(buffer) : buffer[j] = p[at + j]
    BY DEF Copied
  <1>5a. at + Len(buffer) = Len(p)
    BY <1>5
  <1>6. Len(p) \in Nat /\ Len(p) <= room
    BY FramesFit
  <1>7. room \in Nat
    <2>1. n \in Nat /\ r.slot_size \in Nat
      BY RunFacts
    <2> QED
      BY <2>1
  <1>8. Hole \in Cells
    BY DEF Cells
  <1> HIDE DEF p, front, rest, room
  <1>9. g \in Seq(Cells) /\ Len(g) \in Nat /\ at + Len(front) <= Len(g)
    BY <1>3, <1>8, WrittenSize
  <1>10. ASSUME NEW j \in 1 .. k PROVE g[at + j] = front[j]
    <2>1. j \in 1 .. Len(front)
      BY <1>3
    <2> QED
      BY <1>3a, <1>8, <2>1, WrittenCell
  <1>11. ASSUME NEW j \in 1 .. at PROVE g[j] = f[j]
    <2>1. j \in 1 .. Len(f) /\ ~(at < j /\ j <= at + Len(front))
      BY <1>1, <1>5
    <2> QED
      BY <1>3a, <1>8, <2>1, KeptCell
  <1> HIDE DEF g
  <1>12. ASSUME NEW j \in 1 .. at + k PROVE g[j] = p[j]
    <2>1. CASE j <= at
      <3>1. j \in 1 .. at
        BY <2>1
      <3> QED
        BY <1>5, <1>11, <3>1
    <2>2. CASE ~(j <= at)
      <3> DEFINE i == j - at
      <3>1. i \in 1 .. k /\ i \in 1 .. Len(buffer) /\ at + i = j
        BY <1>1, <2>2
      <3> HIDE DEF i
      <3>2. g[at + i] = front[i] /\ front[i] = buffer[i] /\ buffer[i] = p[at + i]
        BY <1>4, <1>5, <1>10, <3>1
      <3> QED
        BY <3>1, <3>2
    <2> QED
      BY <2>1, <2>2
  <1>13. ASSUME NEW j \in 1 .. Len(rest) PROVE rest[j] = p[at + k + j]
    <2> DEFINE i == k + j
    <2>1. j \in 1 .. Len(buffer) - k /\ i \in 1 .. Len(buffer) /\ at + i = at + k + j
      BY <1>1, <1>3
    <2>2. rest[j] = buffer[i]
      BY <1>4, <2>1
    <2> HIDE DEF i
    <2>3. buffer[i] = p[at + i]
      BY <1>5, <2>1
    <2> QED
      BY <2>1, <2>2, <2>3
  <1>14. /\ at + k + Len(rest) = Len(p)
         /\ at + k <= Len(g)
         /\ at + k <= room
    <2>1. Len(rest) = Len(buffer) - k /\ Len(front) = k
      BY <1>3
    <2>2. at + k + Len(rest) = Len(p)
      BY <1>1, <1>5a, <2>1
    <2>3. at + k <= Len(p)
      BY <1>1, <1>5a, <1>6
    <2>4. at + k <= room
      BY <1>1, <1>6, <1>7, <2>3
    <2>5. at + k <= Len(g)
      BY <1>9, <2>1
    <2> QED
      BY <2>2, <2>4, <2>5
  <1>15. Copied(r, g, n, at + k, rest)
    BY <1>12, <1>13, <1>14 DEF Copied, p
  <1> QED
    BY <1>3, <1>9, <1>14, <1>15 DEF front, rest, g, room

\* The file is cut behind what the stream has been given.
LEMMA CopiedCut ==
  ASSUME NEW r \in Runs, NEW n \in 0 .. BlocksOf(r), NEW f \in Seq(Cells), NEW at \in Nat,
         NEW buffer \in Seq(Cells), Copied(r, f, n, at, buffer)
  PROVE  /\ Resized(f, at + Len(buffer), Hole) \in Seq(Cells)
         /\ Len(Resized(f, at + Len(buffer), Hole)) = Len(FramesUpto(r)[n])
         /\ Copied(r, Resized(f, at + Len(buffer), Hole), n, at, buffer)
  <1> DEFINE p == FramesUpto(r)[n]
             size == at + Len(buffer)
             g == Resized(f, size, Hole)
  <1>1. Len(buffer) \in Nat /\ Len(f) \in Nat
    BY LenProperties
  <1>2. size \in Nat /\ at <= size
    BY <1>1
  <1>3. /\ size = Len(p)
        /\ at <= Len(f)
        /\ \A j \in 1 .. at : f[j] = p[j]
        /\ \A j \in 1 .. Len(buffer) : buffer[j] = p[at + j]
    BY DEF Copied
  <1>4. Hole \in Cells
    BY DEF Cells
  <1>5. size = at + Len(buffer)
    OBVIOUS
  <1> HIDE DEF p, size
  <1>6. /\ g \in Seq(Cells) /\ Len(g) = size
        /\ \A j \in 1 .. size : j <= Len(f) => g[j] = f[j]
    BY <1>2, <1>4, ResizedFacts, ZenonT(60)
  <1> HIDE DEF g
  <1>7. ASSUME NEW j \in 1 .. at PROVE g[j] = p[j]
    <2>1. j \in 1 .. size /\ j <= Len(f)
      BY <1>1, <1>2, <1>3
    <2> QED
      BY <1>3, <1>6, <2>1
  <1>8. Copied(r, g, n, at, buffer)
    BY <1>2, <1>3, <1>5, <1>6, <1>7 DEF Copied, p
  <1> QED
    BY <1>3, <1>6, <1>8 DEF g, size, p

\* What the stream still holds reaches the file when it is closed.
LEMMA CopiedEnds ==
  ASSUME NEW r \in Runs, NEW n \in 0 .. BlocksOf(r), NEW f \in Seq(Cells), NEW at \in Nat,
         NEW buffer \in Seq(Cells), Copied(r, f, n, at, buffer),
         Len(f) = Len(FramesUpto(r)[n])
  PROVE  WriteAt(f, at, buffer, Hole) = FramesUpto(r)[n]
  <1> DEFINE p == FramesUpto(r)[n]
             g == WriteAt(f, at, buffer, Hole)
  <1>1. Len(buffer) \in Nat /\ Len(f) \in Nat
    BY LenProperties
  <1>2. /\ at + Len(buffer) = Len(p)
        /\ \A j \in 1 .. at : f[j] = p[j]
        /\ \A j \in 1 .. Len(buffer) : buffer[j] = p[at + j]
    BY DEF Copied
  <1>3. p \in Seq(Cells) /\ Len(f) = Len(p)
    BY FramesDefined
  <1> HIDE DEF p
  <1>4. \A j \in 1 .. Len(buffer) : buffer[j] \in Cells
    OBVIOUS
  <1>5. at + Len(buffer) <= Len(f)
    BY <1>1, <1>2, <1>3
  <1>6. /\ g \in Seq(Cells) /\ Len(g) = Len(f)
        /\ \A j \in 1 .. Len(f) :
             g[j] = IF at < j /\ j <= at + Len(buffer) THEN buffer[j - at] ELSE f[j]
    BY <1>4, <1>5, WriteAtInside
  <1> HIDE DEF g
  <1>7. ASSUME NEW j \in 1 .. Len(p) PROVE g[j] = p[j]
    <2>0. j \in 1 .. Len(f)
      BY <1>3
    <2>1. CASE at < j
      <3> DEFINE i == j - at
      <3>1. i \in 1 .. Len(buffer) /\ at + i = j /\ j <= at + Len(buffer)
        BY <1>1, <1>2, <1>3, <2>1
      <3>2. g[j] = buffer[i]
        BY <1>6, <2>0, <2>1, <3>1
      <3> HIDE DEF i
      <3>3. buffer[i] = p[at + i]
        BY <1>2, <3>1
      <3> QED
        BY <3>1, <3>2, <3>3
    <2>2. CASE ~(at < j)
      <3>1. j \in 1 .. at
        BY <2>0, <2>2
      <3>2. g[j] = f[j]
        BY <1>6, <2>0, <2>2
      <3> QED
        BY <1>2, <3>1, <3>2
    <2> QED
      BY <2>1, <2>2
  <1>8. Len(g) = Len(p)
    BY <1>3, <1>6
  <1>9. g = p
    BY <1>3, <1>6, <1>7, <1>8, SeqEqual
  <1> QED
    BY <1>9 DEF g, p

\* All threads have gone: every block was somebody's, so that every slot is written.
LEMMA StartCompactionIsGood ==
  ASSUME PrepareInv, StartCompaction
  PROVE  PrepareInv'
  <1>1. /\ run \in Runs /\ data \in Seq(Cells) /\ run' = run /\ data' = data
        /\ stage = "preparing" /\ stage' = "compacting" /\ open = {}
        /\ checksums' = checksums /\ compressed_sizes' = compressed_sizes
        /\ next' = next /\ out_at' = out_at /\ out_buffer' = out_buffer /\ hashed' = hashed
        /\ offset' = offset /\ open' = open /\ unflushed' = unflushed
    BY DEF PrepareInv, Typed, StartCompaction, AllClosed, files, threadVars, tables, compaction
  <1>2. /\ Call' = Call /\ Threads' = Threads /\ Blocks' = Blocks /\ Indices' = Indices
    BY <1>1, SameRun
  <1>3. NotStarted /\ \A t \in Threads : ThreadOK(t)
    BY <1>1 DEF PrepareInv, PreparedOK
  <1>4. Typed'
    <2>1. /\ Size \in Nat /\ compressed_bytes \in Nat
      BY <1>1, OfRun, RunFacts DEF PrepareInv, Typed
    <2>2. total' \in Nat /\ progress' \in Nat
      BY <2>1 DEF StartCompaction
    <2>3. UNCHANGED <<reruns, ksync, ksync_buffer, compressed_bytes>>
      BY DEF StartCompaction, files, tables
    <2> QED
      BY <1>1, <1>2, <2>2, <2>3 DEF PrepareInv, Typed
  <1>5. ASSUME NEW i \in Indices
        PROVE  /\ checksums[i] = PaddedOf(run, i) /\ compressed_sizes[i] = FrameSizeOf(run, i)
               /\ Holds(run, data, i)
    <2>1. i \in IndicesOf(run)
      BY OfRun
    <2>2. PICK t \in Threads : /\ Beg(Call, t) <= i * run.block_size
                               /\ i * run.block_size < End(Call, t)
      BY <1>1, <2>1, OfRun, BlockOwner
    <2> DEFINE at == i * run.block_size
    <2>3. at \in Nat /\ End(Call, t) \in Nat /\ offset[t] \in Nat
      <3>1. End(Call, t) \in Nat
        BY <1>1, OfRun, ThreadsAreNumbers
      <3>2. offset \in [Threads -> Nat]
        BY DEF PrepareInv, Typed
      <3> QED
        BY <1>1, <2>1, <3>1, <3>2, BlockFacts
    <2>4. End(Call, t) <= offset[t]
      BY <1>1, <1>3 DEF ThreadOK
    <2>5. at < End(Call, t)
      BY <2>2
    <2>6. at < offset[t]
      <3> HIDE DEF at
      <3> QED
        BY <2>3, <2>4, <2>5
    <2>7. Recorded(t, i)
      BY <1>3, <2>2, <2>6 DEF ThreadOK, Done
    <2> QED
      BY <1>1, <2>7 DEF Recorded
  <1>6. /\ checksums = [i \in Indices |-> PaddedOf(run, i)]
        /\ compressed_sizes = [i \in Indices |-> FrameSizeOf(run, i)]
    <2>1. checksums \in [Indices -> Seq(Int)] /\ compressed_sizes \in [Indices -> 0 .. run.slot_size]
      BY DEF PrepareInv, Typed
    <2> QED
      BY <1>5, <2>1
  <1>7. Copied(run, data, next, out_at, out_buffer)
    <2>1. FramesUpto(run)[0] = <<>> /\ Len(data) \in Nat
      BY <1>1, FramesDefined, LenProperties
    <2> QED
      BY <1>3, <2>1 DEF Copied, NotStarted
  <1>8. hashed = ReadAt(run.input, 0, next * run.block_size)
    BY <1>1, <1>3, InputUpto DEF NotStarted
  <1>9. CopiedOK'
    <2>1. next .. Blocks - 1 \subseteq Indices
      BY <1>1, <1>3, OfRun, RunFacts DEF NotStarted
    <2> QED
      BY <1>1, <1>2, <1>5, <1>6, <1>7, <1>8, <2>1 DEF CopiedOK
  <1>10. PreparedOK' /\ MetadataOK'
    BY <1>1 DEF PreparedOK, MetadataOK
  <1>11. \A t \in Threads : WritesOwn(t)'
    BY <1>1, <1>2 DEF WritesOwn, PrepareInv
  <1> QED
    BY <1>2, <1>4, <1>9, <1>10, <1>11 DEF PrepareInv

\* Between the barrier and the end the threads' streams do not matter.
LEMMA StreamsRest ==
  ASSUME PrepareInv, run' = run, UNCHANGED threadVars
  PROVE  \A t \in Threads' : WritesOwn(t)'
  BY SameRun DEF PrepareInv, WritesOwn, threadVars

LEMMA CompactBlockIsGood ==
  ASSUME PrepareInv, CompactBlock
  PROVE  PrepareInv'
  <1> DEFINE n == next
             w == FrameOf(run, n)
  <1>1. /\ run \in Runs /\ data \in Seq(Cells) /\ out_buffer \in Seq(Cells) /\ out_at \in Nat
        /\ next \in 0 .. Blocks /\ Blocks \in Nat /\ Indices = 0 .. Blocks - 1
    BY OfRun, RunFacts DEF PrepareInv, Typed
  <1>2. /\ run' = run /\ data' = data /\ out_at' = out_at /\ next' = n + 1
        /\ stage = "compacting" /\ stage' = "compacting"
        /\ checksums' = checksums /\ compressed_sizes' = compressed_sizes
        /\ n < Blocks
        /\ out_buffer' = out_buffer \o InSlot(n)
        /\ hashed' = hashed \o Block(n)
        /\ UNCHANGED threadVars
    BY DEF CompactBlock, files, tables
  <1>3. /\ Call' = Call /\ Threads' = Threads /\ Blocks' = Blocks /\ Indices' = Indices
    BY <1>2, SameRun
  <1>4. n \in Indices /\ n \in IndicesOf(run) /\ n + 1 \in 0 .. Blocks
    BY <1>1, <1>2, OfRun
  <1>5. /\ checksums = [i \in Indices |-> PaddedOf(run, i)]
        /\ compressed_sizes = [i \in Indices |-> FrameSizeOf(run, i)]
        /\ Copied(run, data, n, out_at, out_buffer)
        /\ hashed = ReadAt(run.input, 0, n * run.block_size)
        /\ \A i \in n .. Blocks - 1 : Holds(run, data, i)
    BY <1>2 DEF PrepareInv, CopiedOK
  <1>6. InSlot(n) = w
    <2>1. Holds(run, data, n)
      BY <1>1, <1>2, <1>5
    <2>2. compressed_sizes[n] = FrameSizeOf(run, n)
      BY <1>4, <1>5
    <2> QED
      BY <1>1, <1>4, <2>1, <2>2, HeldIsRead DEF InSlot, SlotStart
  <1>7. w \in Seq(Cells)
    BY <1>1, <1>4, FrameFacts
  <1>8. out_buffer' \in Seq(Cells)
    BY <1>1, <1>2, <1>6, <1>7, ConcatProperties
  <1>9. Copied(run, data, n + 1, out_at, out_buffer')
    BY <1>1, <1>2, <1>4, <1>5, <1>6, CopiedGrows
  <1>10. hashed' = ReadAt(run.input, 0, (n + 1) * run.block_size)
    BY <1>1, <1>2, <1>4, <1>5, BlocksOfRun, InputUpto
  <1>11. Typed'
    <2>1. progress' \in Nat
      <3>1. Len(BlockOf(run, n)) \in Nat /\ FrameSizeOf(run, n) \in Nat
        BY <1>1, <1>4, BlockFacts
      <3>2. compressed_sizes[n] = FrameSizeOf(run, n) /\ progress \in Nat
        BY <1>4, <1>5 DEF PrepareInv, Typed
      <3>3. progress' = progress + Len(Block(n)) + 2 * compressed_sizes[n]
        BY DEF CompactBlock
      <3> QED
        BY <3>1, <3>2, <3>3, BlocksOfRun
    <2>2. UNCHANGED <<reruns, ksync, ksync_buffer, compressed_bytes, total>>
      BY DEF CompactBlock, files, tables
    <2> QED
      BY <1>2, <1>3, <1>4, <1>8, <2>1, <2>2 DEF PrepareInv, Typed, threadVars
  <1>12. CopiedOK'
    <2>1. n + 1 .. Blocks - 1 \subseteq n .. Blocks - 1
      BY <1>1
    <2> QED
      BY <1>2, <1>3, <1>5, <1>9, <1>10, <2>1 DEF CopiedOK
  <1>13. PreparedOK' /\ MetadataOK'
    BY <1>2 DEF PreparedOK, MetadataOK
  <1> QED
    BY <1>2, <1>11, <1>12, <1>13, StreamsRest DEF PrepareInv

\* The frames written back end before the first slot that is still to be read.
LEMMA WriteOutIsGood ==
  ASSUME PrepareInv, WriteOut
  PROVE  PrepareInv'
  <1>1. /\ run \in Runs /\ data \in Seq(Cells) /\ out_buffer \in Seq(Cells) /\ out_at \in Nat
        /\ next \in 0 .. Blocks /\ Blocks \in Nat /\ Indices = 0 .. Blocks - 1
        /\ next \in Nat /\ Blocks = BlocksOf(run)
    BY OfRun, RunFacts DEF PrepareInv, Typed
  <1>2. PICK n \in 1 .. Len(out_buffer) :
          /\ data' = WriteAt(data, out_at, SubSeq(out_buffer, 1, n), Hole)
          /\ out_at' = out_at + n
          /\ out_buffer' = SubSeq(out_buffer, n + 1, Len(out_buffer))
    BY DEF WriteOut
  <1>3. /\ run' = run /\ stage = "compacting" /\ stage' = "compacting"
        /\ checksums' = checksums /\ compressed_sizes' = compressed_sizes
        /\ next' = next /\ hashed' = hashed
        /\ UNCHANGED threadVars
    BY DEF WriteOut, tables
  <1>4. /\ Call' = Call /\ Threads' = Threads /\ Blocks' = Blocks /\ Indices' = Indices
    BY <1>3, SameRun
  <1>5. /\ checksums = [i \in Indices |-> PaddedOf(run, i)]
        /\ compressed_sizes = [i \in Indices |-> FrameSizeOf(run, i)]
        /\ Copied(run, data, next, out_at, out_buffer)
        /\ hashed = ReadAt(run.input, 0, next * run.block_size)
        /\ \A i \in next .. Blocks - 1 : Holds(run, data, i)
    BY <1>3 DEF PrepareInv, CopiedOK
  <1> DEFINE front == SubSeq(out_buffer, 1, n)
             room == next * run.slot_size
  <1>6. /\ front \in Seq(Cells) /\ Len(front) = n /\ out_buffer' \in Seq(Cells)
        /\ data' \in Seq(Cells)
        /\ out_at + n <= room
        /\ Copied(run, data', next, out_at + n, out_buffer')
    BY <1>1, <1>2, <1>5, CopiedMoves
  <1>7. n \in Nat /\ room \in Nat
    <2>1. n \in Nat
      BY <1>1, LenProperties
    <2>2. run.slot_size \in Nat
      BY <1>1, RunFacts
    <2> QED
      BY <1>1, <2>1, <2>2
  <1>8. ASSUME NEW i \in next .. Blocks - 1 PROVE Holds(run, data', i)
    <2> DEFINE start == i * run.slot_size
    <2>1. i \in IndicesOf(run) /\ i \in Nat /\ next <= i
      BY <1>1, OfRun
    <2>2. Holds(run, data, i)
      BY <1>5
    <2>3. room <= start /\ start \in Nat
      <3>1. run.slot_size \in Nat
        BY <1>1, RunFacts
      <3>2. start \in Nat
        BY <1>1, <2>1, BlockFacts
      <3>3. next \in Int /\ i \in Int
        BY <1>1, <2>1
      <3>4. room <= start
        BY <2>1, <3>1, <3>3, TimesMonotone
      <3> QED
        BY <3>2, <3>4
    <2>4. out_at + Len(front) <= start
      <3> HIDE DEF room, start, front
      <3> QED
        BY <1>1, <1>6, <1>7, <2>3
    <2>5. front \in Seq(Cells)
      BY <1>6
    <2> HIDE DEF front
    <2>6. Holds(run, WriteAt(data, out_at, front, Hole), i)
      BY <1>1, <2>1, <2>2, <2>4, <2>5, SlotKept
    <2> QED
      BY <1>2, <2>6 DEF front
  <1>9. Typed'
    <2>1. out_at' \in Nat
      BY <1>1, <1>2, <1>7
    <2>2. UNCHANGED <<reruns, ksync, ksync_buffer, compressed_bytes, progress, total>>
      BY DEF WriteOut, tables
    <2> QED
      BY <1>3, <1>4, <1>6, <2>1, <2>2 DEF PrepareInv, Typed, threadVars
  <1>10. CopiedOK'
    BY <1>2, <1>3, <1>4, <1>5, <1>6, <1>8 DEF CopiedOK
  <1>11. PreparedOK' /\ MetadataOK'
    BY <1>3 DEF PreparedOK, MetadataOK
  <1> QED
    BY <1>3, <1>9, <1>10, <1>11, StreamsRest DEF PrepareInv

LEMMA FinishCompactionIsGood ==
  ASSUME PrepareInv, FinishCompaction
  PROVE  PrepareInv'
  <1>1. /\ run \in Runs /\ data \in Seq(Cells) /\ out_buffer \in Seq(Cells) /\ out_at \in Nat
        /\ next \in 0 .. Blocks /\ Blocks = BlocksOf(run)
    BY OfRun, RunFacts DEF PrepareInv, Typed
  <1>2. /\ run' = run /\ stage = "compacting" /\ stage' = "metadata" /\ next = Blocks
        /\ checksums' = checksums /\ compressed_sizes' = compressed_sizes
        /\ next' = next /\ hashed' = hashed /\ out_at' = out_at /\ out_buffer' = out_buffer
        /\ data' = Resized(data, out_at + Len(out_buffer), Hole)
        /\ ksync' = <<>>
        /\ UNCHANGED threadVars
    BY DEF FinishCompaction, tables, compaction, CutToOutput
  <1>3. /\ Call' = Call /\ Threads' = Threads /\ Blocks' = Blocks /\ Indices' = Indices
    BY <1>2, SameRun
  <1>4. /\ checksums = [i \in Indices |-> PaddedOf(run, i)]
        /\ compressed_sizes = [i \in Indices |-> FrameSizeOf(run, i)]
        /\ Copied(run, data, next, out_at, out_buffer)
        /\ hashed = ReadAt(run.input, 0, next * run.block_size)
    BY <1>2 DEF PrepareInv, CopiedOK
  <1>5. /\ data' \in Seq(Cells) /\ Len(data') = Len(FramesUpto(run)[next])
        /\ Copied(run, data', next, out_at, out_buffer)
    BY <1>1, <1>2, <1>4, CopiedCut
  <1>6. Typed'
    <2>1. ksync' \in Seq(MetaCells)
      BY EmptySeq DEF FinishCompaction
    <2>2. UNCHANGED <<reruns, ksync_buffer, compressed_bytes, progress, total>>
      BY DEF FinishCompaction, tables
    <2> QED
      BY <1>2, <1>3, <1>5, <2>1, <2>2 DEF PrepareInv, Typed, threadVars
  <1>7. CopiedOK'
    BY <1>2, <1>3, <1>4, <1>5 DEF CopiedOK
  <1>8. PreparedOK' /\ MetadataOK'
    BY <1>2 DEF PreparedOK, MetadataOK
  <1> QED
    BY <1>2, <1>6, <1>7, <1>8, StreamsRest DEF PrepareInv

-----------------------------------------------------------------------------
(* What the metadata file of a run holds. *)

HeaderInput(r) ==
  [size |-> Len(r.input), block_size |-> r.block_size, hash |-> Digest(r.input)]
FieldsIn(r) == HeaderFields(HeaderInput(r))

\* Where the tables begin.
HeaderEnd(r) == 1 + Len(FieldsIn(r))

\* The header as it is read back.
HeaderOf(r) ==
  [version |-> Version, size |-> Len(r.input), block_size |-> r.block_size,
   hash |-> Digest(r.input), header_size |-> HeaderEnd(r)]

StrongOf(r) == [i \in IndicesOf(r) |-> <<"strong", PaddedOf(r, i)>>]
FrameSizesOf(r) == [i \in IndicesOf(r) |-> FrameSizeOf(r, i)]

-----------------------------------------------------------------------------
(* Sequences. *)

\* What stands at the beginning of a whole is its first part.
LEMMA FrontOfJoined ==
  ASSUME NEW S, NEW a \in Seq(S), NEW b \in Seq(S)
  PROVE  Len(a) \in 0 .. Len(a \o b) /\ a = SubSeq(a \o b, 1, Len(a))
  <1> DEFINE c == a \o b
             n == Len(a)
  <1>1. /\ c \in Seq(S) /\ n \in Nat /\ n <= Len(c) /\ Len(c) \in Nat
        /\ \A j \in 1 .. n : c[j] = a[j]
    BY Concatenated
  <1> HIDE DEF c
  <1>2. n \in 0 .. Len(c)
    BY <1>1
  <1>3. /\ SubSeq(c, 1, n) \in Seq(S) /\ Len(SubSeq(c, 1, n)) = n
        /\ \A j \in 1 .. n : SubSeq(c, 1, n)[j] = c[j]
    BY <1>1, <1>2, FrontAndRest
  <1>4. a = SubSeq(c, 1, n)
    BY <1>1, <1>3, SeqEqual
  <1> QED
    BY <1>2, <1>4 DEF c

\* A table is as long as it says, and has its entries in order.
LEMMA TableCells ==
  ASSUME NEW kind \in Kinds, NEW n \in Nat, NEW f \in [0 .. n - 1 -> Seq(Int)]
  PROVE  /\ Table(kind, f, n) \in Seq(MetaCells) /\ Len(Table(kind, f, n)) = n
         /\ \A i \in 0 .. n - 1 : Table(kind, f, n)[i + 1] = <<kind, f[i]>>
  <1>1. Table(kind, f, n) = [j \in 1 .. n |-> <<kind, f[j - 1]>>]
    BY DEF Table
  <1>2. ASSUME NEW i \in 0 .. n - 1 PROVE Table(kind, f, n)[i + 1] = <<kind, f[i]>>
    <2>1. i + 1 \in 1 .. n /\ i + 1 - 1 = i
      OBVIOUS
    <2> QED
      BY <1>1, <2>1
  <1>3. Table(kind, f, n) \in Seq(MetaCells)
    BY TableType
  <1>4. DOMAIN Table(kind, f, n) = 1 .. n
    BY <1>1
  <1>5. Len(Table(kind, f, n)) = n
    <2> DEFINE m == Len(Table(kind, f, n))
    <2>1. m \in Nat /\ 1 .. m = 1 .. n
      BY <1>3, <1>4, LenProperties
    <2> HIDE DEF m
    <2>2. m = n
      BY <2>1
    <2> QED
      BY <2>2 DEF m
  <1> QED
    BY <1>2, <1>3, <1>5

\* Checksums are not empty and tell contents apart.
LEMMA DigestFacts ==
  ASSUME NEW s \in Seq(Int)
  PROVE  /\ Digest(s) \in Seq(Int) /\ Digest(s) # <<>>
         /\ \A t \in Seq(Int) : Digest(t) = Digest(s) => t = s
  <1> DEFINE z == <<0>>
  <1>1. z \in Seq(Int) /\ Len(z) = 1
    OBVIOUS
  <1> HIDE DEF z
  <1>2. \A t \in Seq(Int) : Digest(t) = z \o t
    BY DEF Digest, z
  <1>3. ASSUME NEW t \in Seq(Int)
        PROVE  /\ Digest(t) \in Seq(Int) /\ Len(Digest(t)) = 1 + Len(t) /\ Len(t) \in Nat
               /\ \A j \in 1 .. Len(t) : Digest(t)[1 + j] = t[j]
    <2>1. z \in Seq(Int)
      BY <1>1
    <2>2. t \in Seq(Int)
      OBVIOUS
    <2>3. z \o t \in Seq(Int) /\ Len(t) \in Nat /\ Len(z \o t) = Len(z) + Len(t)
      BY <2>1, <2>2, Concatenated
    <2>4. \A j \in 1 .. Len(t) : (z \o t)[Len(z) + j] = t[j]
      BY <2>1, <2>2, Concatenated
    <2> QED
      BY <1>1, <1>2, <2>3, <2>4
  <1>4. Digest(s) # <<>>
    <2>1. Len(Digest(s)) # 0
      BY <1>3
    <2> QED
      BY <2>1, EmptySeq
  <1>5. ASSUME NEW t \in Seq(Int), Digest(t) = Digest(s) PROVE t = s
    <2>1. Len(t) = Len(s)
      BY <1>3, <1>5
    <2>2. ASSUME NEW j \in 1 .. Len(t) PROVE t[j] = s[j]
      <3>1. j \in 1 .. Len(s)
        BY <2>1
      <3>2. Digest(t)[1 + j] = t[j] /\ Digest(s)[1 + j] = s[j]
        BY <1>3, <3>1
      <3> QED
        BY <1>5, <3>2
    <2> QED
      BY <2>1, <2>2, SeqEqual
  <1> QED
    BY <1>3, <1>4, <1>5


-----------------------------------------------------------------------------
(* The cells of the metadata file. *)

\* Which fields the header has, and where.
LEMMA FieldsLayout ==
  ASSUME NEW r \in Runs
  PROVE  /\ FieldsIn(r) \in Seq(MetaCells)
         /\ Len(FieldsIn(r)) = IF Len(r.input) = 0 THEN 3 ELSE 4
         /\ FieldsIn(r)[1] = <<"version", <<Version>>>>
         /\ Len(r.input) # 0 => FieldsIn(r)[2] = <<"size", <<Len(r.input)>>>>
         /\ FieldsIn(r)[Len(FieldsIn(r)) - 1] = <<"block_size", <<r.block_size>>>>
         /\ FieldsIn(r)[Len(FieldsIn(r))] = <<"hash", Digest(r.input)>>
  <1> DEFINE n == Len(r.input)
             v == <<"version", <<Version>>>>
             s == <<"size", <<n>>>>
             b == <<"block_size", <<r.block_size>>>>
             h == <<"hash", Digest(r.input)>>
  <1>1. n \in Nat /\ r.block_size \in Nat /\ r.input \in Seq(Int)
    BY RunFacts
  <1>2. /\ <<Version>> \in Seq(Int) /\ <<n>> \in Seq(Int) /\ <<r.block_size>> \in Seq(Int)
        /\ Digest(r.input) \in Seq(Int)
    BY <1>1, DigestFacts DEF Version
  <1>3. v \in MetaCells /\ s \in MetaCells /\ b \in MetaCells /\ h \in MetaCells
    BY <1>2, CellType
  <1>4. FieldsIn(r) = <<v>> \o (IF n = 0 THEN <<>> ELSE <<s>>) \o <<b, h>>
    BY DEF FieldsIn, HeaderFields, HeaderInput
  <1> HIDE DEF n, v, s, b, h
  <1> DEFINE c == IF n = 0 THEN <<>> ELSE <<s>>
             x == <<v>>
             y == <<b, h>>
             p == x \o c
             F == p \o y
             k == IF n = 0 THEN 1 ELSE 2
  <1>5. x \in Seq(MetaCells) /\ Len(x) = 1 /\ x[1] = v
    BY <1>3
  <1>6. y \in Seq(MetaCells) /\ Len(y) = 2 /\ y[1] = b /\ y[2] = h
    BY <1>3
  <1>7. c \in Seq(MetaCells) /\ Len(c) = k - 1 /\ (n # 0 => c[1] = s)
    <2>1. CASE n = 0
      BY <2>1
    <2>2. CASE n # 0
      BY <2>2, <1>3
    <2> QED
      BY <2>1, <2>2
  <1> HIDE DEF c, x, y
  <1>8. p \in Seq(MetaCells) /\ Len(p) = k /\ p[1] = v /\ (n # 0 => p[2] = s)
    <2>1. p \in Seq(MetaCells) /\ Len(p) = Len(x) + Len(c)
      BY <1>5, <1>7, Concatenated
    <2>2. \A j \in 1 .. Len(x) : p[j] = x[j]
      BY <1>5, <1>7, Concatenated
    <2>3. \A j \in 1 .. Len(c) : p[Len(x) + j] = c[j]
      BY <1>5, <1>7, Concatenated
    <2> HIDE DEF p
    <2>4. p[1] = v
      BY <2>2, <1>5
    <2>5. n # 0 => p[2] = s
      <3>1. n # 0 => 1 \in 1 .. Len(c)
        BY <1>7
      <3> QED
        BY <3>1, <2>3, <1>5, <1>7
    <2> QED
      BY <2>1, <2>4, <2>5, <1>5, <1>7
  <1> HIDE DEF p
  <1>9. /\ F \in Seq(MetaCells) /\ Len(F) = k + 2
        /\ F[1] = v /\ (n # 0 => F[2] = s) /\ F[k + 1] = b /\ F[k + 2] = h
    <2>1. F \in Seq(MetaCells) /\ Len(F) = Len(p) + Len(y)
      BY <1>6, <1>8, Concatenated
    <2>2. \A j \in 1 .. Len(p) : F[j] = p[j]
      BY <1>6, <1>8, Concatenated
    <2>3. \A j \in 1 .. Len(y) : F[Len(p) + j] = y[j]
      BY <1>6, <1>8, Concatenated
    <2> HIDE DEF F
    <2>4. 1 \in 1 .. Len(p) /\ (n # 0 => 2 \in 1 .. Len(p)) /\ 1 \in 1 .. Len(y) /\ 2 \in 1 .. Len(y)
      BY <1>6, <1>8
    <2>5. F[k + 1] = b /\ F[k + 2] = h
      BY <2>3, <2>4, <1>6, <1>8
    <2> QED
      BY <2>1, <2>2, <2>4, <2>5, <1>6, <1>8
  <1>10. FieldsIn(r) = F /\ k + 2 = (IF n = 0 THEN 3 ELSE 4) /\ k \in Nat
    BY <1>4 DEF F, p, x, y, c
  <1> HIDE DEF F, k
  <1>11. /\ F \in Seq(MetaCells) /\ Len(F) = (IF n = 0 THEN 3 ELSE 4)
         /\ F[1] = v /\ (n # 0 => F[2] = s) /\ F[Len(F) - 1] = b /\ F[Len(F)] = h
    <2>1. Len(F) = k + 2 /\ k \in Nat
      BY <1>9, <1>10
    <2>2. Len(F) - 1 = k + 1
      BY <2>1
    <2>3. F[Len(F) - 1] = b /\ F[Len(F)] = h
      BY <2>1, <2>2, <1>9, Zenon
    <2>4. Len(F) = (IF n = 0 THEN 3 ELSE 4)
      BY <2>1, <1>10, Zenon
    <2> QED
      BY <2>3, <2>4, <1>9
  <1> QED
    BY <1>10, <1>11, Zenon DEF n, v, s, b, h
\* What a field is depends on its place.
LEMMA KindsOfFields ==
  ASSUME NEW r \in Runs, NEW j \in 1 .. Len(FieldsIn(r))
  PROVE  /\ FieldsIn(r)[j][1] = "version" <=> j = 1
         /\ FieldsIn(r)[j][1] = "size" <=> Len(r.input) # 0 /\ j = 2
         /\ FieldsIn(r)[j][1] = "block_size" <=> j = Len(FieldsIn(r)) - 1
         /\ FieldsIn(r)[j][1] = "hash" <=> j = Len(FieldsIn(r))
  <1> DEFINE F == FieldsIn(r)
             L == Len(F)
  <1>1. /\ L = IF Len(r.input) = 0 THEN 3 ELSE 4
        /\ F[1][1] = "version" /\ (Len(r.input) # 0 => F[2][1] = "size")
        /\ F[L - 1][1] = "block_size" /\ F[L][1] = "hash" /\ j \in 1 .. L
    BY FieldsLayout
  <1> HIDE DEF F, L
  <1>2. CASE Len(r.input) = 0
    <2>1. L = 3 /\ (j = 1 \/ j = 2 \/ j = 3)
      BY <1>1, <1>2
    <2> QED
      BY <2>1, <1>1, <1>2 DEF F, L
  <1>3. CASE Len(r.input) # 0
    <2>1. L = 4 /\ (j = 1 \/ j = 2 \/ j = 3 \/ j = 4)
      BY <1>1, <1>3
    <2> QED
      BY <2>1, <1>1, <1>3 DEF F, L
  <1> QED
    BY <1>2, <1>3

\* The file is the header and the three tables.
LEMMA MetadataLayout ==
  ASSUME NEW r \in Runs
  PROVE  /\ MetadataOf(r) \in Seq(MetaCells)
         /\ HeaderEnd(r) \in Nat /\ BlocksOf(r) \in Nat
         /\ Len(MetadataOf(r)) = HeaderEnd(r) + BlocksOf(r) + BlocksOf(r) + BlocksOf(r)
         /\ MetadataOf(r)[1] = <<"length", <<Len(FieldsIn(r))>>>>
         /\ \A j \in 1 .. Len(FieldsIn(r)) : MetadataOf(r)[1 + j] = FieldsIn(r)[j]
         /\ \A i \in IndicesOf(r) :
              /\ MetadataOf(r)[HeaderEnd(r) + BlocksOf(r) + (i + 1)] = <<"strong", PaddedOf(r, i)>>
              /\ MetadataOf(r)[HeaderEnd(r) + BlocksOf(r) + BlocksOf(r) + (i + 1)]
                   = <<"size", <<FrameSizeOf(r, i)>>>>
  <1> DEFINE C == MetaCells
             n == BlocksOf(r)
             F == FieldsIn(r)
             sums == [i \in IndicesOf(r) |-> PaddedOf(r, i)]
             frames == [i \in IndicesOf(r) |-> FrameSizeOf(r, i)]
             one == [i \in 0 .. n - 1 |-> <<frames[i]>>]
             len == <<<<"length", <<Len(F)>>>>>>
             a == len \o F
             t == Table("weak", sums, n)
             u == Table("strong", sums, n)
             w == Table("size", one, n)
  <1>1. n \in Nat /\ IndicesOf(r) = 0 .. n - 1
    BY RunFacts
  <1>2. MetadataOf(r) = a \o t \o u \o w
    BY DEF MetadataOf, MetadataFile, WriteHeader, FieldsIn, HeaderInput
  <1>3. F \in Seq(C) /\ Len(F) \in Nat
    BY FieldsLayout
  <1>4. len \in Seq(C) /\ Len(len) = 1
    <2>1. <<Len(F)>> \in Seq(Int)
      BY <1>3
    <2>2. <<"length", <<Len(F)>>>> \in C
      BY <2>1, CellType
    <2> HIDE DEF C
    <2> QED
      BY <2>2
  <1>5. sums \in [0 .. n - 1 -> Seq(Int)]
    BY <1>1, PaddedType
  <1>6. one \in [0 .. n - 1 -> Seq(Int)] /\ \A i \in 0 .. n - 1 : one[i] = <<FrameSizeOf(r, i)>>
    <2>1. ASSUME NEW i \in 0 .. n - 1 PROVE one[i] = <<FrameSizeOf(r, i)>> /\ one[i] \in Seq(Int)
      <3>1. i \in IndicesOf(r)
        BY <1>1
      <3>2. FrameSizeOf(r, i) \in Nat
        BY <3>1, BlockFacts
      <3>3. one[i] = <<FrameSizeOf(r, i)>>
        BY <3>1
      <3> QED
        BY <3>2, <3>3
    <2> QED
      BY <2>1
  <1>7. "weak" \in Kinds /\ "strong" \in Kinds /\ "size" \in Kinds
    BY DEF Kinds
  <1> HIDE DEF C, F, sums, one, len
  <1>8. /\ t \in Seq(C) /\ Len(t) = n
        /\ u \in Seq(C) /\ Len(u) = n /\ \A i \in 0 .. n - 1 : u[i + 1] = <<"strong", sums[i]>>
        /\ w \in Seq(C) /\ Len(w) = n /\ \A i \in 0 .. n - 1 : w[i + 1] = <<"size", one[i]>>
    BY <1>1, <1>5, <1>6, <1>7, TableCells DEF C
  <1>9. /\ a \in Seq(C) /\ Len(a) = 1 + Len(F)
        /\ a[1] = len[1] /\ \A j \in 1 .. Len(F) : a[1 + j] = F[j]
    <2>1. a \in Seq(C) /\ Len(a) = Len(len) + Len(F)
      BY <1>3, <1>4, Concatenated
    <2>2. /\ \A j \in 1 .. Len(len) : a[j] = len[j]
          /\ \A j \in 1 .. Len(F) : a[Len(len) + j] = F[j]
      BY <1>3, <1>4, Concatenated, SMTT(30)
    <2> HIDE DEF a
    <2> QED
      BY <2>1, <2>2, <1>4
  <1> HIDE DEF a, t, u, w
  <1> DEFINE p == a \o t
             q == p \o u
             m == q \o w
             h == 1 + Len(F)
  <1>10. p \in Seq(C) /\ Len(p) = h + n /\ \A j \in 1 .. h : p[j] = a[j]
    <2>1. p \in Seq(C) /\ Len(p) = Len(a) + Len(t)
      BY <1>8, <1>9, Concatenated
    <2>2. \A j \in 1 .. Len(a) : p[j] = a[j]
      BY <1>8, <1>9, Concatenated
    <2> HIDE DEF p
    <2> QED
      BY <2>1, <2>2, <1>8, <1>9
  <1> HIDE DEF p
  <1>11. /\ q \in Seq(C) /\ Len(q) = h + n + n
         /\ \A j \in 1 .. h + n : q[j] = p[j]
         /\ \A j \in 1 .. n : q[h + n + j] = u[j]
    <2>1. q \in Seq(C) /\ Len(q) = Len(p) + Len(u)
      BY <1>8, <1>10, Concatenated
    <2>2. \A j \in 1 .. Len(p) : q[j] = p[j]
      BY <1>8, <1>10, Concatenated
    <2>4. p \in Seq(C) /\ u \in Seq(C)
      BY <1>8, <1>10
    <2>3. \A j \in 1 .. Len(u) : q[Len(p) + j] = u[j]
      BY <2>4, Concatenated
    <2> HIDE DEF q
    <2> QED
      BY <2>1, <2>2, <2>3, <1>8, <1>10
  <1> HIDE DEF q
  <1>12. /\ m \in Seq(C) /\ Len(m) = h + n + n + n
         /\ \A j \in 1 .. h + n + n : m[j] = q[j]
         /\ \A j \in 1 .. n : m[h + n + n + j] = w[j]
    <2>1. m \in Seq(C) /\ Len(m) = Len(q) + Len(w)
      BY <1>8, <1>11, Concatenated
    <2>2. \A j \in 1 .. Len(q) : m[j] = q[j]
      BY <1>8, <1>11, Concatenated
    <2>4. q \in Seq(C) /\ w \in Seq(C)
      BY <1>8, <1>11
    <2>3. \A j \in 1 .. Len(w) : m[Len(q) + j] = w[j]
      BY <2>4, Concatenated
    <2> HIDE DEF m
    <2> QED
      BY <2>1, <2>2, <2>3, <1>8, <1>11
  <1>13. m = MetadataOf(r)
    BY <1>2 DEF m, q, p
  <1> HIDE DEF m
  <1>14. h \in Nat /\ h = HeaderEnd(r) /\ Len(F) \in Nat
    BY <1>3 DEF HeaderEnd, F
  <1>15. m[1] = <<"length", <<Len(F)>>>>
    <2>1. m[1] = a[1]
      <3>1. 1 \in 1 .. h /\ 1 \in 1 .. h + n /\ 1 \in 1 .. h + n + n
        BY <1>1, <1>14
      <3> QED
        BY <3>1, <1>10, <1>11, <1>12
    <2> QED
      BY <2>1, <1>9 DEF len
  <1>16. ASSUME NEW j \in 1 .. Len(F) PROVE m[1 + j] = F[j]
    <2> DEFINE k == 1 + j
    <2>1. k \in 1 .. h /\ k \in 1 .. h + n /\ k \in 1 .. h + n + n
      BY <1>1, <1>14
    <2>2. a[k] = F[j]
      BY <1>9
    <2> HIDE DEF k
    <2>3. m[k] = a[k]
      BY <2>1, <1>10, <1>11, <1>12
    <2> QED
      BY <2>2, <2>3 DEF k
  <1>17. ASSUME NEW i \in IndicesOf(r)
         PROVE  m[h + n + (i + 1)] = <<"strong", PaddedOf(r, i)>>
    <2> DEFINE j == i + 1
               k == h + n + j
    <2>1. i \in 0 .. n - 1 /\ j \in 1 .. n /\ k \in 1 .. h + n + n
      BY <1>1, <1>14
    <2>2. u[j] = <<"strong", PaddedOf(r, i)>>
      BY <2>1, <1>8 DEF sums
    <2> HIDE DEF j
    <2>3. q[k] = u[j]
      BY <2>1, <1>11
    <2> HIDE DEF k
    <2>4. m[k] = q[k]
      BY <2>1, <1>12
    <2> QED
      BY <2>2, <2>3, <2>4 DEF j, k
  <1>18. ASSUME NEW i \in IndicesOf(r)
         PROVE  m[h + n + n + (i + 1)] = <<"size", <<FrameSizeOf(r, i)>>>>
    <2> DEFINE j == i + 1
    <2>1. i \in 0 .. n - 1 /\ j \in 1 .. n
      BY <1>1
    <2>2. w[j] = <<"size", <<FrameSizeOf(r, i)>>>>
      BY <2>1, <1>6, <1>8
    <2> HIDE DEF j
    <2>3. m[h + n + n + j] = w[j]
      BY <2>1, <1>12
    <2> QED
      BY <2>2, <2>3 DEF j
  <1> QED
    BY <1>1, <1>12, <1>13, <1>14, <1>15, <1>16, <1>17, <1>18 DEF C, F

\* There is at least the length that delimits the header.
LEMMA MetadataNotEmpty ==
  ASSUME NEW r \in Runs
  PROVE  Len(MetadataOf(r)) \in Nat \ {0}
  <1>1. /\ Len(MetadataOf(r)) = HeaderEnd(r) + BlocksOf(r) + BlocksOf(r) + BlocksOf(r)
        /\ BlocksOf(r) \in Nat
    BY MetadataLayout
  <1>2. HeaderEnd(r) \in Nat /\ HeaderEnd(r) > 0
    BY FieldsLayout, LenProperties DEF HeaderEnd
  <1> QED
    BY <1>1, <1>2

-----------------------------------------------------------------------------
(* The metadata are written, and the streams closed. *)

\* After the last block the hash is taken of the whole input.
LEMMA MetadataOfRun ==
  ASSUME PrepareInv, stage = "metadata"
  PROVE  Metadata = MetadataOf(run)
  <1>1. run \in Runs /\ Blocks = BlocksOf(run)
    BY OfRun DEF PrepareInv, Typed
  <1>2. /\ checksums = [i \in Indices |-> PaddedOf(run, i)]
        /\ compressed_sizes = [i \in Indices |-> FrameSizeOf(run, i)]
        /\ hashed = ReadAt(run.input, 0, next * run.block_size)
        /\ next = Blocks
    BY DEF PrepareInv, CopiedOK
  <1>3. hashed = run.input
    BY <1>1, <1>2, InputUpto
  <1> QED
    BY <1>1, <1>2, <1>3, OfRun DEF Metadata, MetadataOf

LEMMA WriteMetadataIsGood ==
  ASSUME PrepareInv, WriteMetadata
  PROVE  PrepareInv'
  <1>1. /\ run \in Runs /\ run' = run /\ stage = "metadata" /\ stage' = "flushing"
        /\ data' = data /\ ksync' = ksync /\ ksync_buffer' = Metadata
        /\ UNCHANGED <<threadVars, tables, compaction, reruns>>
        /\ progress' = Len(Metadata) - 1 /\ total' = 1
    BY DEF PrepareInv, Typed, WriteMetadata
  <1>2. /\ Call' = Call /\ Threads' = Threads /\ Blocks' = Blocks /\ Indices' = Indices
    BY <1>1, SameRun
  <1>3. ksync_buffer' = MetadataOf(run) /\ MetadataOf(run) \in Seq(MetaCells)
    BY <1>1, MetadataOfRun, MetadataType
  <1>4. Typed'
    <2>1. progress' \in Nat /\ total' \in Nat
      <3>1. progress' = Len(MetadataOf(run)) - 1
        BY <1>1, MetadataOfRun
      <3> QED
        BY <1>1, <3>1, MetadataNotEmpty
    <2> QED
      BY <1>1, <1>2, <1>3, <2>1 DEF PrepareInv, Typed, threadVars, tables, compaction
  <1>5. CopiedOK'
    BY <1>1, <1>2 DEF PrepareInv, CopiedOK, tables, compaction
  <1>6. MetadataOK'
    <2>1. ksync = <<>>
      BY <1>1 DEF PrepareInv, MetadataOK
    <2>2. ksync' \o ksync_buffer' = MetadataOf(run)
      BY <1>1, <1>3, <2>1, ConcatEmptySeq
    <2> QED
      BY <1>1, <2>2 DEF MetadataOK
  <1>7. PreparedOK'
    BY <1>1 DEF PreparedOK
  <1> QED
    BY <1>1, <1>4, <1>5, <1>6, <1>7, StreamsRest DEF PrepareInv

LEMMA FlushMetadataIsGood ==
  ASSUME PrepareInv, FlushMetadata
  PROVE  PrepareInv'
  <1>1. /\ run \in Runs /\ run' = run /\ stage = "flushing" /\ stage' = "flushing"
        /\ data' = data
        /\ UNCHANGED <<threadVars, tables, compaction, reruns, progress, total>>
        /\ ksync \in Seq(MetaCells) /\ ksync_buffer \in Seq(MetaCells)
    BY DEF PrepareInv, Typed, FlushMetadata
  <1>2. PICK n \in 1 .. Len(ksync_buffer) :
          /\ ksync' = ksync \o SubSeq(ksync_buffer, 1, n)
          /\ ksync_buffer' = SubSeq(ksync_buffer, n + 1, Len(ksync_buffer))
    BY DEF FlushMetadata
  <1>3. /\ Call' = Call /\ Threads' = Threads /\ Blocks' = Blocks /\ Indices' = Indices
    BY <1>1, SameRun
  <1> DEFINE front == SubSeq(ksync_buffer, 1, n)
             rest == SubSeq(ksync_buffer, n + 1, Len(ksync_buffer))
  <1>4. front \in Seq(MetaCells) /\ rest \in Seq(MetaCells) /\ front \o rest = ksync_buffer
    <2>1. n \in 0 .. Len(ksync_buffer)
      BY <1>1, LenProperties
    <2> QED
      BY <1>1, <2>1, FrontAndRest
  <1>5. ksync' = ksync \o front /\ ksync_buffer' = rest
    BY <1>2
  <1> HIDE DEF front, rest
  <1>6. ksync' \in Seq(MetaCells) /\ ksync_buffer' \in Seq(MetaCells)
    BY <1>1, <1>4, <1>5, ConcatProperties
  <1>7. ksync' \o ksync_buffer' = ksync \o ksync_buffer
    <2>1. (ksync \o front) \o rest = ksync \o (front \o rest)
      <3>1. ksync \in Seq(MetaCells) /\ front \in Seq(MetaCells) /\ rest \in Seq(MetaCells)
        BY <1>1, <1>4
      <3> QED
        BY <3>1, ConcatAssociative, SMTT(30)
    <2> QED
      BY <1>4, <1>5, <2>1
  <1>8. Typed'
    BY <1>1, <1>3, <1>6 DEF PrepareInv, Typed, threadVars, tables, compaction
  <1>9. CopiedOK'
    BY <1>1, <1>3 DEF PrepareInv, CopiedOK, tables, compaction
  <1>10. MetadataOK' /\ PreparedOK'
    BY <1>1, <1>7 DEF PrepareInv, MetadataOK, PreparedOK
  <1> QED
    BY <1>1, <1>8, <1>9, <1>10, StreamsRest DEF PrepareInv

LEMMA CloseMetadataIsGood ==
  ASSUME PrepareInv, CloseMetadata
  PROVE  PrepareInv'
  <1>1. /\ run \in Runs /\ run' = run /\ stage = "flushing" /\ stage' = "closing"
        /\ data' = data /\ ksync' = ksync \o ksync_buffer /\ ksync_buffer' = <<>>
        /\ UNCHANGED <<threadVars, tables, compaction, reruns>>
        /\ progress' = 0 /\ total' = 0
        /\ ksync \in Seq(MetaCells) /\ ksync_buffer \in Seq(MetaCells)
    BY DEF PrepareInv, Typed, CloseMetadata
  <1>2. /\ Call' = Call /\ Threads' = Threads /\ Blocks' = Blocks /\ Indices' = Indices
    BY <1>1, SameRun
  <1>3. ksync' \in Seq(MetaCells) /\ ksync_buffer' \in Seq(MetaCells)
    BY <1>1, ConcatProperties, EmptySeq
  <1>4. Typed'
    BY <1>1, <1>2, <1>3 DEF PrepareInv, Typed, threadVars, tables, compaction
  <1>5. CopiedOK'
    BY <1>1, <1>2 DEF PrepareInv, CopiedOK, tables, compaction
  <1>6. MetadataOK' /\ PreparedOK'
    BY <1>1 DEF PrepareInv, MetadataOK, PreparedOK
  <1> QED
    BY <1>1, <1>4, <1>5, <1>6, StreamsRest DEF PrepareInv

LEMMA CloseOutputIsGood ==
  ASSUME PrepareInv, CloseOutput
  PROVE  PrepareInv'
  <1>1. /\ run \in Runs /\ run' = run /\ stage = "closing" /\ stage' = "done"
        /\ data' = WriteAt(data, out_at, out_buffer, Hole)
        /\ ksync' = ksync /\ ksync_buffer' = ksync_buffer
        /\ UNCHANGED <<threadVars, tables, compaction, reruns, progress, total>>
        /\ data \in Seq(Cells) /\ out_at \in Nat /\ out_buffer \in Seq(Cells)
        /\ Blocks = BlocksOf(run) /\ Blocks \in 0 .. BlocksOf(run)
    BY OfRun, RunFacts DEF PrepareInv, Typed, CloseOutput, RestWritten
  <1>2. /\ Call' = Call /\ Threads' = Threads /\ Blocks' = Blocks /\ Indices' = Indices
    BY <1>1, SameRun
  <1>3. /\ Copied(run, data, Blocks, out_at, out_buffer)
        /\ Len(data) = Len(FramesUpto(run)[Blocks])
    BY <1>1 DEF PrepareInv, CopiedOK
  <1>4. data' = FramesUpto(run)[Blocks]
    BY <1>1, <1>3, CopiedEnds
  <1>5. data' \in Seq(Cells)
    BY <1>1, <1>4, FramesDefined
  <1>6. Typed'
    BY <1>1, <1>2, <1>5 DEF PrepareInv, Typed, threadVars, tables, compaction
  <1>7. CopiedOK' /\ MetadataOK' /\ PreparedOK'
    BY <1>1, <1>2, <1>4 DEF PrepareInv, CopiedOK, MetadataOK, PreparedOK
  <1> QED
    BY <1>1, <1>6, <1>7, StreamsRest DEF PrepareInv

\* A run that waits for the observer for ever leaves everything as it is.
LEMMA WaitForeverIsGood ==
  ASSUME PrepareInv, WaitForever
  PROVE  PrepareInv'
  <1>1. /\ stage' = "stuck"
        /\ UNCHANGED <<run, reruns, data, ksync, ksync_buffer, offset, open, unflushed, checksums,
                       compressed_sizes, compressed_bytes, next, out_at, out_buffer, hashed,
                       progress, total>>
    BY DEF WaitForever, files, threadVars, tables, compaction
  <1>2. /\ Call' = Call /\ Threads' = Threads /\ Blocks' = Blocks /\ Indices' = Indices
    BY <1>1, SameRun
  <1>3. Typed'
    BY <1>1, <1>2 DEF PrepareInv, Typed
  <1>4. PreparedOK' /\ CopiedOK' /\ MetadataOK'
    BY <1>1 DEF PreparedOK, CopiedOK, MetadataOK
  <1> QED
    BY <1>1, <1>3, <1>4, StreamsRest DEF PrepareInv, threadVars

LEMMA StutterIsGood ==
  ASSUME PrepareInv, UNCHANGED vars
  PROVE  PrepareInv'
  <1>1. /\ UNCHANGED <<run, reruns, stage, data, ksync, ksync_buffer>>
        /\ UNCHANGED <<offset, open, unflushed, checksums, compressed_sizes, compressed_bytes>>
        /\ UNCHANGED <<next, out_at, out_buffer, hashed, progress, total>>
    BY DEF vars, files, threadVars, tables, compaction
  <1>2. /\ Call' = Call /\ Threads' = Threads /\ Blocks' = Blocks /\ Indices' = Indices
    BY <1>1, SameRun
  <1>3. Typed'
    BY <1>1, <1>2 DEF PrepareInv, Typed
  <1>4. ASSUME NEW t \in Threads PROVE ThreadOK(t)' <=> ThreadOK(t)
    BY <1>1, <1>2 DEF ThreadOK, Done, Recorded
  <1>5. PreparedOK'
    BY <1>1, <1>2, <1>4 DEF PrepareInv, PreparedOK, NotStarted
  <1>6. CopiedOK'
    BY <1>1, <1>2 DEF PrepareInv, CopiedOK
  <1>7. MetadataOK'
    BY <1>1 DEF PrepareInv, MetadataOK
  <1> QED
    BY <1>1, <1>3, <1>5, <1>6, <1>7, StreamsRest DEF PrepareInv, threadVars

LEMMA PrepareStep == PrepareInv /\ [Next]_vars => PrepareInv'
  <1> SUFFICES ASSUME PrepareInv, [Next]_vars PROVE PrepareInv'
    OBVIOUS
  <1>1. CASE \E t \in Threads : PrepareBlock(t) \/ CloseChunk(t)
    BY <1>1, PrepareBlockIsGood, CloseChunkIsGood
  <1>2. CASE StartCompaction
    BY <1>2, StartCompactionIsGood
  <1>3. CASE CompactBlock
    BY <1>3, CompactBlockIsGood
  <1>4. CASE WriteOut
    BY <1>4, WriteOutIsGood
  <1>5. CASE FinishCompaction
    BY <1>5, FinishCompactionIsGood
  <1>6. CASE WriteMetadata
    BY <1>6, WriteMetadataIsGood
  <1>7. CASE FlushMetadata
    BY <1>7, FlushMetadataIsGood
  <1>8. CASE CloseMetadata
    BY <1>8, CloseMetadataIsGood
  <1>9. CASE CloseOutput
    BY <1>9, CloseOutputIsGood
  <1>10. CASE Rerun
    BY <1>10, RerunIsFresh, FreshIsGoodNext
  <1>11. CASE WaitForever
    BY <1>11, WaitForeverIsGood
  <1>12. CASE UNCHANGED vars
    BY <1>12, StutterIsGood
  <1> QED
    BY <1>1, <1>2, <1>3, <1>4, <1>5, <1>6, <1>7, <1>8, <1>9, <1>10, <1>11, <1>12 DEF Next, Work

\* The invariant holds in every state.
THEOREM PrepareInvariant == Spec => []PrepareInv
  BY PrepareStep, InitIsFresh, FreshIsGood, PTL DEF Spec

-----------------------------------------------------------------------------
(* What the invariant says of the runs. *)

\* The tables and files have their types, and no stream writes behind the last slot
\* (prepare_command.cc:207-216).
THEOREM TypesHold == Spec => []TypeOK
  <1>1. PrepareInv => TypeOK
    <2> SUFFICES ASSUME PrepareInv PROVE TypeOK
      OBVIOUS
    <2>1. run \in Runs
      BY DEF PrepareInv, Typed
    <2>2. ASSUME NEW t \in Threads
          PROVE  unflushed[t].at + Len(unflushed[t].cells) <= Blocks * run.slot_size
      BY <2>1, StreamFacts, HeldWriteFacts, OfRun
    <2>3. DOMAIN checksums = Indices
      BY DEF PrepareInv, Typed
    <2> QED
      BY <2>2, <2>3 DEF PrepareInv, Typed, TypeOK
  <1> QED
    BY <1>1, PrepareInvariant, PTL

\* Whenever the compacting loop comes to a slot, the frame of its block is still there
\* (prepare_command.cc:234-246).
THEOREM NoFrameIsOverwritten == Spec => []SlotsSurvive
  <1>1. PrepareInv => SlotsSurvive
    <2> SUFFICES ASSUME PrepareInv, stage = "compacting", NEW i \in next .. Blocks - 1
                 PROVE  ReadAt(data, SlotStart(i), FrameSize[Block(i)]) = Frame(Block(i))
      BY DEF SlotsSurvive
    <2>1. run \in Runs /\ data \in Seq(Cells) /\ next \in 0 .. Blocks
      BY DEF PrepareInv, Typed
    <2>2. i \in IndicesOf(run)
      BY <2>1, OfRun, RunFacts
    <2>3. Holds(run, data, i)
      BY DEF PrepareInv, CopiedOK
    <2> QED
      BY <2>1, <2>2, <2>3, HeldIsRead, BlocksOfRun DEF SlotStart
  <1> QED
    BY <1>1, PrepareInvariant, PTL

\* A run that ends leaves the frames of its input and nothing else
\* (prepare_command.cc:234-248).
THEOREM DataFileIsRight == Spec => []DataIsAllFrames
  <1>1. PrepareInv => DataIsAllFrames
    BY AllFramesOfRun, OfRun DEF PrepareInv, CopiedOK, DataIsAllFrames
  <1> QED
    BY <1>1, PrepareInvariant, PTL

\* A run that ends leaves the metadata of its input (prepare_command.cc:255-267).
THEOREM MetadataAreRight == Spec => []MetadataDescribesInput
  <1>1. PrepareInv => MetadataDescribesInput
    <2> SUFFICES ASSUME PrepareInv, stage \in {"closing", "done"} PROVE MetadataDescribesInput
      BY DEF MetadataDescribesInput
    <2>1. ksync = MetadataOf(run)
      BY DEF PrepareInv, MetadataOK
    <2> QED
      BY <2>1 DEF MetadataDescribesInput, MetadataOf, Size, Indices, Blocks, BlocksOf, Block,
                  BlockOf, Padded, PaddedOf, FrameSizeOf
  <1> QED
    BY <1>1, PrepareInvariant, PTL

\* Nothing of the metadata reaches the file before the data file is complete, but for
\* what the compacting stream still holds (prepare_command.cc:248-269).
THEOREM MetadataAreLast == Spec => MetadataComesLast
  <1> DEFINE step == ksync' # ksync /\ ksync' # <<>> =>
                       /\ Len(data) = Len(AllFrames)
                       /\ SubSeq(data, 1, out_at) = SubSeq(AllFrames, 1, out_at)
  <1>1. PrepareInv /\ [Next]_vars => [step]_vars
    <2> SUFFICES ASSUME PrepareInv, Next, ksync' # ksync, ksync' # <<>>
                 PROVE  /\ Len(data) = Len(AllFrames)
                        /\ SubSeq(data, 1, out_at) = SubSeq(AllFrames, 1, out_at)
      OBVIOUS
    <2>1. stage = "flushing"
      BY DEF Next, Work, PrepareBlock, CloseChunk, StartCompaction, CompactBlock, WriteOut,
             FinishCompaction, WriteMetadata, FlushMetadata, CloseMetadata, CloseOutput,
             WaitForever, Rerun, files
    <2> DEFINE all == FramesUpto(run)[Blocks]
    <2>2. /\ run \in Runs /\ data \in Seq(Cells) /\ out_at \in Nat /\ out_buffer \in Seq(Cells)
          /\ Blocks \in 0 .. BlocksOf(run) /\ Blocks = BlocksOf(run)
      BY OfRun, RunFacts DEF PrepareInv, Typed
    <2>3. Copied(run, data, Blocks, out_at, out_buffer) /\ Len(data) = Len(all)
      BY <2>1 DEF PrepareInv, CopiedOK
    <2>4. all \in Seq(Cells) /\ all = AllFrames
      BY <2>2, FramesDefined, AllFramesOfRun
    <2>5. out_at <= Len(data) /\ \A j \in 1 .. out_at : data[j] = all[j]
      BY <2>3 DEF Copied
    <2> HIDE DEF all
    <2>6. out_at \in 0 .. Len(data) /\ out_at \in 0 .. Len(all)
      BY <2>2, <2>3, <2>5, LenProperties
    <2> DEFINE a == SubSeq(data, 1, out_at)
               b == SubSeq(all, 1, out_at)
    <2>7. /\ a \in Seq(Cells) /\ Len(a) = out_at
          /\ \A j \in 1 .. out_at : a[j] = data[j]
      BY <2>2, <2>6, FrontAndRest
    <2>8. /\ b \in Seq(Cells) /\ Len(b) = out_at
          /\ \A j \in 1 .. out_at : b[j] = all[j]
      BY <2>4, <2>6, FrontAndRest
    <2> HIDE DEF a, b
    <2>9. a = b
      BY <2>5, <2>7, <2>8, SeqEqual
    <2> QED
      BY <2>3, <2>4, <2>9 DEF a, b
  <1> QED
    BY <1>1, PrepareInvariant, PTL DEF Spec, MetadataComesLast

-----------------------------------------------------------------------------
(* The progress that is shown. *)

\* The frames together are as long as the table says.
LEMMA TotalOfFrames ==
  ASSUME NEW r \in Runs
  PROVE  Total([i \in IndicesOf(r) |-> FrameSizeOf(r, i)], BlocksOf(r))
           = Len(FramesUpto(r)[BlocksOf(r)])
  <1> DEFINE n == BlocksOf(r)
             f == [i \in IndicesOf(r) |-> FrameSizeOf(r, i)]
             s == SumsOf(f, n)
             p(k) == Len(FramesUpto(r)[k])
             T == {k \in Nat : k <= n => s[k] = p(k)}
  <1>1. n \in Nat /\ IndicesOf(r) = 0 .. n - 1
    BY RunFacts
  <1>2. f \in [0 .. n - 1 -> Nat] /\ \A k \in 0 .. n - 1 : f[k] = FrameSizeOf(r, k)
    BY <1>1, BlockFacts
  <1>3. p(0) = 0
    BY FramesDefined
  <1>4. \A k \in 0 .. n - 1 : p(k + 1) = p(k) + FrameSizeOf(r, k)
    BY <1>1, NextFrame
  <1> HIDE DEF f, p, n
  <1>5. s[0] = 0 /\ \A k \in 0 .. n - 1 : s[k + 1] = s[k] + f[k]
    BY <1>1, <1>2, SumsDefined
  <1> HIDE DEF s
  <1>6. 0 \in T
    BY <1>3, <1>5
  <1>7. ASSUME NEW k \in Nat, k \in T PROVE k + 1 \in T
    <2> SUFFICES ASSUME k + 1 <= n PROVE s[k + 1] = p(k + 1)
      OBVIOUS
    <2>1. k \in 0 .. n - 1 /\ s[k] = p(k)
      BY <1>1, <1>7
    <2> QED
      BY <1>2, <1>4, <1>5, <2>1
  <1> HIDE DEF T
  <1>8. \A k \in Nat : k \in T
    BY <1>6, <1>7, SetInduction
  <1>9. n \in T
    BY <1>1, <1>8
  <1>10. s[n] = p(n)
    BY <1>1, <1>9 DEF T
  <1> QED
    BY <1>10 DEF s, f, n, p, Total

\* The blocks together are as long as the input.
LEMMA TotalOfBlocks ==
  ASSUME NEW r \in Runs
  PROVE  Total([i \in IndicesOf(r) |-> Len(BlockOf(r, i))], BlocksOf(r)) = Len(r.input)
  <1> DEFINE n == BlocksOf(r)
             f == [i \in IndicesOf(r) |-> Len(BlockOf(r, i))]
             s == SumsOf(f, n)
             q(k) == ReadAt(r.input, 0, k * r.block_size)
             T == {k \in Nat : k <= n => s[k] = Len(q(k))}
  <1>1. n \in Nat /\ IndicesOf(r) = 0 .. n - 1 /\ r.input \in Seq(Int) /\ r.block_size \in Nat
    BY RunFacts
  <1>2. f \in [0 .. n - 1 -> Nat] /\ \A k \in 0 .. n - 1 : f[k] = Len(BlockOf(r, k))
    BY <1>1, BlockFacts
  <1>3. Len(q(0)) = 0 /\ q(n) = r.input
    BY InputUpto
  <1>4. ASSUME NEW k \in 0 .. n - 1 PROVE Len(q(k + 1)) = Len(q(k)) + Len(BlockOf(r, k))
    <2>1. q(k) \o BlockOf(r, k) = q(k + 1)
      BY <1>1, InputUpto
    <2>2. k * r.block_size \in Nat /\ BlockOf(r, k) \in Seq(Int)
      BY <1>1, BlockFacts
    <2>3. q(k) \in Seq(Int)
      <3>1. 0 \in Nat
        OBVIOUS
      <3> QED
        BY <1>1, <2>2, <3>1, ReadAtFacts
    <2> HIDE DEF q
    <2> QED
      BY <2>1, <2>2, <2>3, ConcatProperties
  <1> HIDE DEF f, q, n
  <1>5. s[0] = 0 /\ \A k \in 0 .. n - 1 : s[k + 1] = s[k] + f[k]
    BY <1>1, <1>2, SumsDefined
  <1> HIDE DEF s
  <1>6. 0 \in T
    BY <1>3, <1>5
  <1>7. ASSUME NEW k \in Nat, k \in T PROVE k + 1 \in T
    <2> SUFFICES ASSUME k + 1 <= n PROVE s[k + 1] = Len(q(k + 1))
      OBVIOUS
    <2>1. k \in 0 .. n - 1 /\ s[k] = Len(q(k))
      BY <1>1, <1>7
    <2> QED
      BY <1>2, <1>4, <1>5, <2>1
  <1> HIDE DEF T
  <1>8. \A k \in Nat : k \in T
    BY <1>6, <1>7, SetInduction
  <1>9. n \in T
    BY <1>1, <1>8
  <1>10. s[n] = Len(r.input)
    BY <1>1, <1>3, <1>9 DEF T
  <1> QED
    BY <1>10 DEF s, f, n, Total

\* The bytes of the blocks that the table of sizes says are prepared.
BytesPrepared(r, lengths) ==
  [i \in IndicesOf(r) |-> IF lengths[i] = 0 THEN 0 ELSE Len(BlockOf(r, i))]

\* Blocks no thread has come to are not in the table.
NotReached(t, i) ==
  /\ Beg(Call, t) <= i * run.block_size
  /\ i * run.block_size < End(Call, t)
  /\ offset[t] <= i * run.block_size

ProgressOK ==
  /\ stage = "preparing" =>
       /\ total = Size
       /\ compressed_bytes = Total(compressed_sizes, Blocks)
       /\ progress = Total(BytesPrepared(run, compressed_sizes), Blocks)
       /\ \A t \in Threads, i \in Indices : NotReached(t, i) => compressed_sizes[i] = 0
  /\ stage = "compacting" =>
       /\ total = Size + 2 * Len(FramesUpto(run)[Blocks])
       /\ progress = Len(hashed) + 2 * Len(FramesUpto(run)[next])

LEMMA TablesAreNumbers ==
  ASSUME NEW r \in Runs, NEW lengths \in [IndicesOf(r) -> Nat]
  PROVE  /\ lengths \in [0 .. BlocksOf(r) - 1 -> Nat]
         /\ BytesPrepared(r, lengths) \in [0 .. BlocksOf(r) - 1 -> Nat]
  <1>1. IndicesOf(r) = 0 .. BlocksOf(r) - 1
    BY RunFacts
  <1>2. \A i \in IndicesOf(r) : Len(BlockOf(r, i)) \in Nat
    BY BlockFacts
  <1> QED
    BY <1>1, <1>2 DEF BytesPrepared

LEMMA FreshProgress == Fresh => ProgressOK
  <1> SUFFICES ASSUME Fresh PROVE ProgressOK
    OBVIOUS
  <1>1. run \in Runs /\ Indices = IndicesOf(run) /\ Blocks = BlocksOf(run) /\ Blocks \in Nat
        /\ Indices = 0 .. Blocks - 1
    BY OfRun, RunFacts DEF Fresh
  <1>2. compressed_sizes = [i \in Indices |-> 0]
    BY DEF Fresh, NoBlockPrepared, Indices
  <1>3. compressed_sizes \in [IndicesOf(run) -> Nat]
    BY <1>1, <1>2
  <1>4. /\ compressed_sizes \in [0 .. Blocks - 1 -> Nat]
        /\ BytesPrepared(run, compressed_sizes) \in [0 .. Blocks - 1 -> Nat]
    BY <1>1, <1>3, TablesAreNumbers
  <1>5. \A k \in 0 .. Blocks - 1 : compressed_sizes[k] = 0
    BY <1>1, <1>2
  <1>6. \A k \in 0 .. Blocks - 1 : BytesPrepared(run, compressed_sizes)[k] = 0
    BY <1>1, <1>5 DEF BytesPrepared
  <1>7. Total(compressed_sizes, Blocks) = 0
    BY <1>1, <1>4, <1>5, TotalOfZeros
  <1>8. Total(BytesPrepared(run, compressed_sizes), Blocks) = 0
    BY <1>1, <1>4, <1>6, TotalOfZeros
  <1>9. \A t \in Threads, i \in Indices : NotReached(t, i) => compressed_sizes[i] = 0
    BY <1>2
  <1> QED
    BY <1>7, <1>8, <1>9 DEF Fresh, ProgressOK

LEMMA FreshProgressNext == Fresh' => ProgressOK'
  BY FreshProgress, PTL

\* A block is entered in the table once, when its thread comes to it.
LEMMA PrepareBlockProgress ==
  ASSUME PrepareInv, ProgressOK, NEW t \in Threads, PrepareBlock(t)
  PROVE  ProgressOK'
  <1>1. PICK m \in Indices : Prepares(t, m)
    BY PrepareBlockPrepares
  <1> DEFINE at(i) == i * run.block_size
             z == FrameSizeOf(run, m)
             lengths == compressed_sizes
             bytes == BytesPrepared(run, lengths)
  <1>2. /\ run \in Runs /\ m \in IndicesOf(run) /\ Indices = 0 .. Blocks - 1 /\ Blocks \in Nat
        /\ Indices = IndicesOf(run) /\ Blocks = BlocksOf(run)
        /\ offset \in [Threads -> Nat]
        /\ lengths \in [Indices -> 0 .. run.slot_size] /\ run.slot_size \in Nat
    BY OfRun, RunFacts DEF PrepareInv, Typed
  <1>3. /\ run' = run /\ stage = "preparing" /\ stage' = "preparing" /\ total' = total
        /\ compressed_sizes' = [lengths EXCEPT ![m] = z]
        /\ compressed_bytes' = compressed_bytes + z
        /\ progress' = progress + Len(BlockOf(run, m))
        /\ offset' = [offset EXCEPT ![t] = at(m + 1)]
        /\ offset[t] = at(m) /\ at(m) < End(Call, t)
    BY <1>1 DEF Prepares
  <1>4. /\ Call' = Call /\ Threads' = Threads /\ Blocks' = Blocks /\ Indices' = Indices
        /\ Size' = Size
    BY <1>3, SameRun
  <1>5. z \in Nat \ {0} /\ Len(BlockOf(run, m)) \in Nat /\ at(m) \in Nat
    BY <1>2, BlockFacts
  <1>6. /\ Beg(Call, t) <= at(m) /\ t \in Nat
        /\ total = Size
        /\ compressed_bytes = Total(lengths, Blocks)
        /\ progress = Total(bytes, Blocks)
        /\ \A u \in Threads, i \in Indices : NotReached(u, i) => lengths[i] = 0
    BY <1>2, <1>3, OfRun, ThreadsAreNumbers DEF PrepareInv, PreparedOK, ThreadOK, ProgressOK
  <1>7. lengths[m] = 0
    <2>1. NotReached(t, m)
      BY <1>3, <1>5, <1>6 DEF NotReached
    <2> QED
      BY <1>6, <2>1
  <1>8. at(m) < at(m + 1) /\ at(m + 1) \in Nat
    <2>1. run.block_size \in Nat \ {0} /\ m \in Nat
      BY <1>2, RunFacts, BlockFacts
    <2>2. at(m + 1) = at(m) + run.block_size
      BY <2>1, NextMultiple
    <2> QED
      BY <1>5, <2>1, <2>2
  <1> HIDE DEF at, z, lengths
  <1>9. lengths \in [IndicesOf(run) -> Nat] /\ compressed_sizes' \in [IndicesOf(run) -> Nat]
    <2>1. lengths \in [Indices -> Nat]
      BY <1>2
    <2>2. compressed_sizes' \in [Indices -> Nat]
      <3>1. z \in Nat
        BY <1>5
      <3> QED
        BY <1>3, <2>1, <3>1
    <2>3. Indices = IndicesOf(run)
      BY <1>2
    <2> QED
      BY <2>1, <2>2, <2>3
  <1>10. compressed_bytes' = Total(compressed_sizes', Blocks)
    <2>1. lengths \in [0 .. Blocks - 1 -> Nat] /\ compressed_sizes' \in [0 .. Blocks - 1 -> Nat]
      BY <1>2, <1>9
    <2>2. m \in 0 .. Blocks - 1 /\ z \in Nat
      BY <1>2, <1>5
    <2>3. Total(compressed_sizes', Blocks) = Total(lengths, Blocks) + z
      <3>1. Filled(lengths, m, z, compressed_sizes')
        BY <1>3, <1>7 DEF Filled
      <3>2. Blocks \in Nat
        BY <1>2
      <3> QED
        BY <2>1, <2>2, <3>1, <3>2, TotalGrows, ZenonT(60)
    <2> QED
      BY <1>3, <1>6, <2>3
  <1>11. progress' = Total(BytesPrepared(run, compressed_sizes'), Blocks)
    <2> DEFINE more == BytesPrepared(run, compressed_sizes')
               d == Len(BlockOf(run, m))
    <2>1. bytes \in [0 .. Blocks - 1 -> Nat] /\ more \in [0 .. Blocks - 1 -> Nat]
      BY <1>2, <1>9, TablesAreNumbers
    <2>2. m \in 0 .. Blocks - 1 /\ d \in Nat
      BY <1>2, <1>5
    <2>3. bytes[m] = 0
      BY <1>2, <1>7 DEF BytesPrepared
    <2>4. ASSUME NEW i \in IndicesOf(run) PROVE more[i] = [bytes EXCEPT ![m] = d][i]
      BY <1>2, <1>3, <1>5, <1>9 DEF BytesPrepared
    <2>5. more = [bytes EXCEPT ![m] = d]
      <3>1. \A i \in 0 .. Blocks - 1 : more[i] = [bytes EXCEPT ![m] = d][i]
        BY <1>2, <2>4
      <3> HIDE DEF more, bytes, d
      <3>2. [bytes EXCEPT ![m] = d] \in [0 .. Blocks - 1 -> Nat]
        BY <2>1, <2>2
      <3> QED
        BY <2>1, <3>1, <3>2
    <2> HIDE DEF more, bytes, d
    <2>6. Total(more, Blocks) = Total(bytes, Blocks) + d
      <3>1. Filled(bytes, m, d, more)
        BY <2>3, <2>5 DEF Filled
      <3>2. Blocks \in Nat
        BY <1>2
      <3> QED
        BY <2>1, <2>2, <3>1, <3>2, TotalGrows, ZenonT(60)
    <2> QED
      BY <1>3, <1>6, <2>6 DEF more, d
  <1>12. ASSUME NEW u \in Threads, NEW i \in Indices,
                Beg(Call, u) <= at(i), at(i) < End(Call, u), offset'[u] <= at(i)
         PROVE  compressed_sizes'[i] = 0
    <2>0. at(i) \in Nat
      BY <1>2, BlockFacts DEF at
    <2>1. offset[u] <= at(i)
      <3>1. CASE u = t
        <4>1. at(m + 1) <= at(i)
          BY <1>2, <1>3, <1>12, <3>1
        <4> QED
          BY <1>3, <1>5, <1>8, <2>0, <3>1, <4>1
      <3>2. CASE u # t
        BY <1>2, <1>3, <1>12, <3>2
      <3> QED
        BY <3>1, <3>2
    <2>2. lengths[i] = 0
      BY <1>6, <1>12, <2>1 DEF NotReached, at
    <2>3. i # m
      <3> SUFFICES ASSUME i = m PROVE FALSE
        OBVIOUS
      <3>1. u \in Nat
        BY <1>2, OfRun, ThreadsAreNumbers
      <3>2. u = t
        BY <1>2, <1>3, <1>5, <1>6, <1>12, <3>1, OfRun, OneOwner
      <3>3. at(m + 1) <= at(m)
        BY <1>2, <1>3, <1>12, <3>2
      <3> QED
        BY <1>5, <1>8, <3>3
    <2> QED
      BY <1>2, <1>3, <2>2, <2>3
  <1>13. \A u \in Threads, i \in Indices : NotReached(u, i)' => compressed_sizes'[i] = 0
    BY <1>3, <1>4, <1>12 DEF NotReached, at
  <1> QED
    BY <1>3, <1>4, <1>6, <1>10, <1>11, <1>13 DEF ProgressOK

\* The tables are complete when the threads have gone.
LEMMA AllPrepared ==
  ASSUME PrepareInv, stage = "preparing", open = {}
  PROVE  /\ compressed_sizes = [i \in IndicesOf(run) |-> FrameSizeOf(run, i)]
         /\ Total(compressed_sizes, Blocks) = Len(FramesUpto(run)[Blocks])
         /\ Total(BytesPrepared(run, compressed_sizes), Blocks) = Size
  <1>1. /\ run \in Runs /\ Indices = IndicesOf(run) /\ Blocks = BlocksOf(run)
        /\ offset \in [Threads -> Nat]
        /\ compressed_sizes \in [Indices -> 0 .. run.slot_size]
    BY OfRun DEF PrepareInv, Typed
  <1>2. ASSUME NEW i \in IndicesOf(run) PROVE compressed_sizes[i] = FrameSizeOf(run, i)
    <2> DEFINE at == i * run.block_size
    <2>1. PICK t \in Threads : Beg(Call, t) <= at /\ at < End(Call, t)
      BY <1>1, OfRun, BlockOwner
    <2>2. ThreadOK(t)
      BY DEF PrepareInv, PreparedOK
    <2>3. at \in Nat /\ End(Call, t) \in Nat /\ offset[t] \in Nat /\ End(Call, t) <= offset[t]
      <3>1. End(Call, t) \in Nat
        BY <1>1, OfRun, ThreadsAreNumbers
      <3> QED
        BY <1>1, <2>2, <3>1, BlockFacts DEF ThreadOK
    <2>4. at < offset[t]
      <3> HIDE DEF at
      <3> QED
        BY <2>1, <2>3
    <2> QED
      BY <1>1, <2>1, <2>2, <2>4 DEF ThreadOK, Done, Recorded
  <1>3. compressed_sizes = [i \in IndicesOf(run) |-> FrameSizeOf(run, i)]
    BY <1>1, <1>2
  <1>4. Total(compressed_sizes, Blocks) = Len(FramesUpto(run)[Blocks])
    BY <1>1, <1>3, TotalOfFrames
  <1>5. BytesPrepared(run, compressed_sizes) = [i \in IndicesOf(run) |-> Len(BlockOf(run, i))]
    <2>1. \A i \in IndicesOf(run) : compressed_sizes[i] # 0
      BY <1>1, <1>2, BlockFacts
    <2> QED
      BY <2>1 DEF BytesPrepared
  <1>6. Total(BytesPrepared(run, compressed_sizes), Blocks) = Size
    BY <1>1, <1>5, OfRun, TotalOfBlocks
  <1> QED
    BY <1>3, <1>4, <1>6

LEMMA StartCompactionProgress ==
  ASSUME PrepareInv, ProgressOK, StartCompaction
  PROVE  ProgressOK'
  <1>1. /\ run \in Runs /\ stage = "preparing" /\ open = {} /\ stage' = "compacting"
        /\ run' = run /\ hashed' = hashed /\ next' = next
        /\ progress' = 0 /\ total' = Size + 2 * compressed_bytes
    BY DEF PrepareInv, Typed, StartCompaction, AllClosed, compaction
  <1>2. Blocks' = Blocks /\ Size' = Size
    BY <1>1, SameRun
  <1>3. compressed_bytes = Len(FramesUpto(run)[Blocks])
    BY <1>1, AllPrepared DEF ProgressOK
  <1>4. hashed = <<>> /\ next = 0
    BY <1>1 DEF PrepareInv, PreparedOK, NotStarted
  <1>5. FramesUpto(run)[0] = <<>>
    BY <1>1, FramesDefined
  <1> QED
    BY <1>1, <1>2, <1>3, <1>4, <1>5 DEF ProgressOK

LEMMA CompactBlockProgress ==
  ASSUME PrepareInv, ProgressOK, CompactBlock
  PROVE  ProgressOK'
  <1> DEFINE n == next
             b == BlockOf(run, n)
             z == FrameSizeOf(run, n)
  <1>1. /\ run \in Runs /\ stage = "compacting" /\ stage' = "compacting"
        /\ run' = run /\ hashed' = hashed \o Block(n) /\ next' = n + 1 /\ total' = total
        /\ progress' = progress + Len(Block(n)) + 2 * compressed_sizes[n]
        /\ n \in 0 .. Blocks /\ n < Blocks
    BY DEF PrepareInv, Typed, CompactBlock
  <1>2. Blocks' = Blocks /\ Size' = Size
    BY <1>1, SameRun
  <1>3. n \in IndicesOf(run) /\ n \in Indices
    BY <1>1, OfRun, RunFacts
  <1>4. /\ compressed_sizes[n] = z
        /\ hashed = ReadAt(run.input, 0, n * run.block_size)
        /\ total = Size + 2 * Len(FramesUpto(run)[Blocks])
        /\ progress = Len(hashed) + 2 * Len(FramesUpto(run)[n])
    BY <1>1, <1>3 DEF PrepareInv, CopiedOK, ProgressOK
  <1>5. /\ b \in Seq(Int) /\ Len(b) \in Nat /\ z \in Nat /\ n * run.block_size \in Nat
        /\ Block(n) = b
    BY <1>1, <1>3, BlockFacts, BlocksOfRun
  <1>6. hashed \in Seq(Int)
    <2>1. run.input \in Seq(Int) /\ 0 \in Nat
      BY <1>1, RunFacts
    <2> QED
      BY <1>4, <1>5, <2>1, ReadAtFacts
  <1>7. Len(hashed') = Len(hashed) + Len(b) /\ Len(hashed) \in Nat
    BY <1>1, <1>5, <1>6, ConcatProperties, LenProperties
  <1>8. /\ Len(FramesUpto(run)[n + 1]) = Len(FramesUpto(run)[n]) + z
        /\ Len(FramesUpto(run)[n]) \in Nat
    BY <1>1, <1>3, NextFrame
  <1>9. progress' = Len(hashed') + 2 * Len(FramesUpto(run)[n + 1])
    <2> DEFINE x == Len(FramesUpto(run)[n])
               y == Len(FramesUpto(run)[n + 1])
               lh == Len(hashed)
               lb == Len(b)
    <2>1. x \in Nat /\ y = x + z /\ z \in Nat /\ lh \in Nat /\ lb \in Nat
      BY <1>5, <1>7, <1>8
    <2>2. progress' = (lh + 2 * x) + lb + 2 * z
      BY <1>1, <1>4, <1>5
    <2>3. Len(hashed') = lh + lb
      BY <1>7
    <2> HIDE DEF x, y, lh, lb, z, b
    <2>4. progress' = Len(hashed') + 2 * y
      BY <2>1, <2>2, <2>3
    <2> QED
      BY <2>4 DEF y
  <1> QED
    BY <1>1, <1>2, <1>4, <1>9 DEF ProgressOK

LEMMA OtherStepsProgress ==
  ASSUME PrepareInv, ProgressOK,
         \/ \E t \in Threads : CloseChunk(t)
         \/ WriteOut \/ FinishCompaction \/ WriteMetadata \/ FlushMetadata \/ CloseMetadata
         \/ CloseOutput \/ WaitForever \/ UNCHANGED vars
  PROVE  ProgressOK'
  <1>1. CASE /\ UNCHANGED <<run, stage, total, compressed_bytes, progress, compressed_sizes,
                            offset, hashed, next>>
    <2>1. /\ Call' = Call /\ Threads' = Threads /\ Blocks' = Blocks /\ Indices' = Indices
          /\ Size' = Size
      BY <1>1, SameRun
    <2> QED
      BY <1>1, <2>1 DEF ProgressOK, NotReached
  <1>2. CASE stage' \notin {"preparing", "compacting"}
    BY <1>2 DEF ProgressOK
  <1> QED
    BY <1>1, <1>2 DEF CloseChunk, WriteOut, FinishCompaction, WriteMetadata, FlushMetadata,
                      CloseMetadata, CloseOutput, WaitForever, vars, threadVars, tables, compaction

\* The progress of the two long phases ends at the announced total
\* (prepare_command.cc:201 and 227).
THEOREM ProgressEnds == Spec => []ProgressReachesTotal
  <1>1. Init => ProgressOK
    BY InitIsFresh, FreshProgress
  <1>2. PrepareInv /\ ProgressOK /\ [Next]_vars => ProgressOK'
    <2> SUFFICES ASSUME PrepareInv, ProgressOK, [Next]_vars PROVE ProgressOK'
      OBVIOUS
    <2>1. CASE \E t \in Threads : PrepareBlock(t)
      BY <2>1, PrepareBlockProgress
    <2>2. CASE StartCompaction
      BY <2>2, StartCompactionProgress
    <2>3. CASE CompactBlock
      BY <2>3, CompactBlockProgress
    <2>4. CASE Rerun
      BY <2>4, RerunIsFresh, FreshProgressNext
    <2>5. CASE \/ \E t \in Threads : CloseChunk(t)
               \/ WriteOut \/ FinishCompaction \/ WriteMetadata \/ FlushMetadata
               \/ CloseMetadata \/ CloseOutput \/ WaitForever \/ UNCHANGED vars
      BY <2>5, OtherStepsProgress
    <2> QED
      BY <2>1, <2>2, <2>3, <2>4, <2>5 DEF Next, Work
  <1>3. PrepareInv /\ ProgressOK => ProgressReachesTotal
    <2> SUFFICES ASSUME PrepareInv, ProgressOK,
                        \/ stage = "preparing" /\ AllClosed
                        \/ stage = "compacting" /\ next = Blocks
                 PROVE  progress = total
      BY DEF ProgressReachesTotal
    <2>1. CASE stage = "preparing" /\ AllClosed
      BY <2>1, AllPrepared DEF AllClosed, ProgressOK
    <2>2. CASE stage = "compacting" /\ next = Blocks
      <3>1. run \in Runs /\ Blocks = BlocksOf(run)
        BY OfRun DEF PrepareInv, Typed
      <3>2. hashed = ReadAt(run.input, 0, Blocks * run.block_size)
        BY <2>2 DEF PrepareInv, CopiedOK
      <3>3. Len(hashed) = Size
        BY <3>1, <3>2, InputUpto, OfRun
      <3> QED
        BY <2>2, <3>3 DEF ProgressOK
    <2> QED
      BY <2>1, <2>2
  <1> QED
    BY <1>1, <1>2, <1>3, PrepareInvariant, PTL DEF Spec
-----------------------------------------------------------------------------
(* The header, read from a file that may not be whole. *)

\* The one field of a kind is found, and a field that is not there has its default.
LEMMA FieldFound ==
  ASSUME NEW fields, NEW kind, NEW default, NEW p \in DOMAIN fields,
         \A j \in DOMAIN fields : fields[j][1] = kind <=> j = p
  PROVE  Field(fields, kind, default) = fields[p][2]
  <1>1. (CHOOSE j \in DOMAIN fields : fields[j][1] = kind) = p
    OBVIOUS
  <1>2. \E j \in DOMAIN fields : fields[j][1] = kind
    OBVIOUS
  <1> QED
    BY <1>1, <1>2, Zenon DEF Field

LEMMA FieldMissing ==
  ASSUME NEW fields, NEW kind, NEW default,
         \A j \in DOMAIN fields : fields[j][1] # kind
  PROVE  Field(fields, kind, default) = default
  BY Zenon DEF Field

\* What the first fields of a header tell.
LEMMA FrontOfFields ==
  ASSUME NEW r \in Runs, NEW g \in Seq(MetaCells), Len(g) <= Len(FieldsIn(r)),
         \A j \in 1 .. Len(g) : g[j] = FieldsIn(r)[j]
  PROVE  /\ Field(g, "size", <<0>>)[1] \in {0, Len(r.input)}
         /\ Field(g, "block_size", <<0>>)[1] \in {0, r.block_size}
         /\ Len(g) < Len(FieldsIn(r)) => Field(g, "hash", <<>>) = <<>>
         /\ Len(g) = Len(FieldsIn(r)) =>
              /\ Field(g, "hash", <<>>) = Digest(r.input)
              /\ Field(g, "version", <<0>>)[1] = Version
              /\ Field(g, "size", <<0>>)[1] = Len(r.input)
              /\ Field(g, "block_size", <<0>>)[1] = r.block_size
  <1> DEFINE F == FieldsIn(r)
             L == Len(F)
             n == Len(r.input)
  <1>1. Len(g) \in Nat /\ DOMAIN g = 1 .. Len(g)
    BY LenProperties
  <1>2. /\ L = (IF n = 0 THEN 3 ELSE 4)
        /\ F[1] = <<"version", <<Version>>>> /\ (n # 0 => F[2] = <<"size", <<n>>>>)
        /\ F[L - 1] = <<"block_size", <<r.block_size>>>> /\ F[L] = <<"hash", Digest(r.input)>>
    BY FieldsLayout
  <1>3. \A j \in 1 .. L :
          /\ F[j][1] = "version" <=> j = 1
          /\ F[j][1] = "size" <=> n # 0 /\ j = 2
          /\ F[j][1] = "block_size" <=> j = L - 1
          /\ F[j][1] = "hash" <=> j = L
    BY KindsOfFields
  <1>4. \A j \in DOMAIN g : g[j] = F[j] /\ j \in 1 .. L
    <2>1. Len(g) <= L /\ L \in Nat /\ \A j \in 1 .. Len(g) : g[j] = F[j]
      BY <1>2
    <2> QED
      BY <1>1, <2>1
  <1> HIDE DEF F, L, n
  <1>5. ASSUME Len(g) < L PROVE Field(g, "hash", <<>>) = <<>>
    <2>1. ASSUME NEW j \in DOMAIN g PROVE g[j][1] # "hash"
      <3>1. j # L
        BY <1>1, <1>2, <1>5
      <3> QED
        BY <3>1, <1>3, <1>4
    <2> QED
      BY <2>1, FieldMissing
  <1>6. ASSUME Len(g) = L
        PROVE  /\ Field(g, "hash", <<>>) = Digest(r.input)
               /\ Field(g, "version", <<0>>)[1] = Version
               /\ Field(g, "size", <<0>>)[1] = n
               /\ Field(g, "block_size", <<0>>)[1] = r.block_size
    <2>1. 1 \in DOMAIN g /\ L - 1 \in DOMAIN g /\ L \in DOMAIN g /\ (n # 0 => 2 \in DOMAIN g)
      BY <1>1, <1>2, <1>6
    <2>2. /\ \A j \in DOMAIN g : g[j][1] = "version" <=> j = 1
          /\ \A j \in DOMAIN g : g[j][1] = "size" <=> n # 0 /\ j = 2
          /\ \A j \in DOMAIN g : g[j][1] = "block_size" <=> j = L - 1
          /\ \A j \in DOMAIN g : g[j][1] = "hash" <=> j = L
      BY <1>3, <1>4
    <2>3. Field(g, "hash", <<>>) = Digest(r.input)
      <3>1. Field(g, "hash", <<>>) = g[L][2]
        BY <2>1, <2>2, FieldFound
      <3> QED
        BY <3>1, <2>1, <1>2, <1>4
    <2>4. Field(g, "version", <<0>>)[1] = Version
      <3>1. Field(g, "version", <<0>>) = g[1][2]
        BY <2>1, <2>2, FieldFound
      <3> QED
        BY <3>1, <2>1, <1>2, <1>4
    <2>5. Field(g, "block_size", <<0>>)[1] = r.block_size
      <3>1. Field(g, "block_size", <<0>>) = g[L - 1][2]
        BY <2>1, <2>2, FieldFound
      <3> QED
        BY <3>1, <2>1, <1>2, <1>4
    <2>6. Field(g, "size", <<0>>)[1] = n
      <3>1. CASE n = 0
        <4>1. \A j \in DOMAIN g : g[j][1] # "size"
          BY <3>1, <2>2
        <4>2. Field(g, "size", <<0>>) = <<0>>
          BY <4>1, FieldMissing
        <4> QED
          BY <4>2, <3>1
      <3>2. CASE n # 0
        <4>1. \A j \in DOMAIN g : g[j][1] = "size" <=> j = 2
          BY <3>2, <2>2
        <4>2. Field(g, "size", <<0>>) = g[2][2]
          BY <4>1, <3>2, <2>1, FieldFound
        <4> QED
          BY <4>2, <3>2, <2>1, <1>2, <1>4
      <3> QED
        BY <3>1, <3>2
    <2> QED
      BY <2>3, <2>4, <2>5, <2>6
  <1>7. Field(g, "size", <<0>>)[1] \in {0, n}
    <2>1. CASE \E p \in DOMAIN g : g[p][1] = "size"
      <3>1. PICK p \in DOMAIN g : g[p][1] = "size"
        BY <2>1
      <3>2. n # 0 /\ p = 2 /\ \A j \in DOMAIN g : g[j][1] = "size" <=> j = p
        BY <3>1, <1>3, <1>4
      <3>3. Field(g, "size", <<0>>) = g[p][2]
        BY <3>2, FieldFound
      <3>4. g[p] = <<"size", <<n>>>>
        BY <3>2, <1>2, <1>4
      <3> QED
        BY <3>3, <3>4
    <2>2. CASE \A p \in DOMAIN g : g[p][1] # "size"
      <3>1. Field(g, "size", <<0>>) = <<0>>
        BY <2>2, FieldMissing
      <3> QED
        BY <3>1
    <2> QED
      BY <2>1, <2>2
  <1>8. Field(g, "block_size", <<0>>)[1] \in {0, r.block_size}
    <2>1. CASE \E p \in DOMAIN g : g[p][1] = "block_size"
      <3>1. PICK p \in DOMAIN g : g[p][1] = "block_size"
        BY <2>1
      <3>2. p = L - 1 /\ \A j \in DOMAIN g : g[j][1] = "block_size" <=> j = p
        BY <3>1, <1>3, <1>4
      <3>3. Field(g, "block_size", <<0>>) = g[p][2]
        BY <3>2, FieldFound
      <3>4. g[p] = <<"block_size", <<r.block_size>>>>
        BY <3>2, <1>2, <1>4
      <3> QED
        BY <3>3, <3>4
    <2>2. CASE \A p \in DOMAIN g : g[p][1] # "block_size"
      <3>1. Field(g, "block_size", <<0>>) = <<0>>
        BY <2>2, FieldMissing
      <3> QED
        BY <3>1
    <2> QED
      BY <2>1, <2>2
  <1> QED
    BY <1>5, <1>6, <1>7, <1>8 DEF F, L, n

\* No cell, no hash.
LEMMA NothingRead ==
  /\ ReadHeader(<<>>).hash = <<>>
  /\ ReadHeader(<<>>).size = 0 /\ ReadHeader(<<>>).block_size = 0
  <1> DEFINE e == <<>>
             g == FieldsOf(e)
  <1>1. e \in Seq(MetaCells) /\ Len(e) = 0
    BY EmptySeq
  <1>2. g = ReadAt(e, 1, 0)
    BY DEF FieldsOf
  <1>3. g \in Seq(MetaCells) /\ Len(g) = 0
    <2> HIDE DEF e, g
    <2>1. /\ ReadAt(e, 1, 0) \in Seq(MetaCells)
          /\ Len(ReadAt(e, 1, 0)) = (IF 1 + 0 <= Len(e) THEN 0
                                     ELSE IF 1 <= Len(e) THEN Len(e) - 1 ELSE 0)
      <3>1. e \in Seq(MetaCells) /\ 1 \in Nat /\ 0 \in Nat
        BY <1>1
      <3> QED
        BY <3>1, ReadAtFacts, ZenonT(60)
    <2> QED
      BY <1>1, <1>2, <2>1
  <1>4. g = <<>>
    BY <1>3, EmptySeq
  <1> HIDE DEF g
  <1>5. DOMAIN g = 1 .. 0
    BY <1>3, LenProperties
  <1>6. /\ \A j \in DOMAIN g : g[j][1] # "hash"
        /\ \A j \in DOMAIN g : g[j][1] # "size"
        /\ \A j \in DOMAIN g : g[j][1] # "block_size"
    BY <1>5
  <1>7. /\ Field(g, "hash", <<>>) = <<>> /\ Field(g, "size", <<0>>) = <<0>>
        /\ Field(g, "block_size", <<0>>) = <<0>>
    BY <1>6, FieldMissing
  <1> QED
    BY <1>7 DEF ReadHeader, g

\* A file that is being written shows no hash, or the right one.
LEMMA PartialHeader ==
  ASSUME NEW r \in Runs, NEW n \in 0 .. Len(MetadataOf(r))
  PROVE  /\ ReadHeader(SubSeq(MetadataOf(r), 1, n)).hash \in {<<>>, Digest(r.input)}
         /\ ReadHeader(SubSeq(MetadataOf(r), 1, n)).size \in Nat
         /\ ReadHeader(SubSeq(MetadataOf(r), 1, n)).block_size \in Nat
         /\ HeaderEnd(r) <= n => ReadHeader(SubSeq(MetadataOf(r), 1, n)) = HeaderOf(r)
  <1> DEFINE m == MetadataOf(r)
             f == SubSeq(m, 1, n)
             F == FieldsIn(r)
             L == Len(F)
             g == FieldsOf(f)
  <1>1. /\ m \in Seq(MetaCells) /\ HeaderEnd(r) = 1 + L /\ L \in Nat
        /\ m[1] = <<"length", <<L>>>> /\ \A j \in 1 .. L : m[1 + j] = F[j]
    BY MetadataLayout, FieldsLayout, LenProperties DEF HeaderEnd
  <1>2. n \in Nat /\ n \in 0 .. Len(m) /\ Len(m) \in Nat
    BY <1>1, LenProperties
  <1> HIDE DEF m, F
  <1>3. f \in Seq(MetaCells) /\ Len(f) = n /\ \A j \in 1 .. n : f[j] = m[j]
    BY <1>1, <1>2, FrontAndRest
  <1> HIDE DEF f
  <1>4. CASE n = 0
    <2>1. f = <<>>
      BY <1>3, <1>4, EmptySeq
    <2>2. ~ (HeaderEnd(r) <= n)
      BY <1>1, <1>4
    <2>3. ReadHeader(f).hash = <<>> /\ ReadHeader(f).size = 0 /\ ReadHeader(f).block_size = 0
      BY <2>1, NothingRead, Zenon
    <2>4. ReadHeader(f).size \in Nat /\ ReadHeader(f).block_size \in Nat
      BY <2>3
    <2> QED
      BY <2>2, <2>3, <2>4, Zenon DEF f, m
  <1>5. CASE n # 0
    <2>1. f # <<>> /\ f[1] = m[1] /\ 1 <= n
      <3>1. 1 \in 1 .. n
        BY <1>2, <1>5
      <3>2. f # <<>>
        BY <1>3, <1>5, EmptySeq
      <3> QED
        BY <3>1, <3>2, <1>3
    <2>2. f[1][2][1] = L
      BY <2>1, <1>1
    <2>3. g = ReadAt(f, 1, L)
      BY <2>1, <2>2 DEF FieldsOf
    <2>4. /\ g \in Seq(MetaCells)
          /\ Len(g) = (IF 1 + L <= n THEN L ELSE IF 1 <= n THEN n - 1 ELSE 0)
          /\ \A j \in 1 .. Len(g) : g[j] = f[1 + j]
      <3> HIDE DEF g, L
      <3>1. /\ ReadAt(f, 1, L) \in Seq(MetaCells)
            /\ Len(ReadAt(f, 1, L)) = (IF 1 + L <= Len(f) THEN L
                                       ELSE IF 1 <= Len(f) THEN Len(f) - 1 ELSE 0)
            /\ \A j \in 1 .. Len(ReadAt(f, 1, L)) : ReadAt(f, 1, L)[j] = f[1 + j]
        <4>1. f \in Seq(MetaCells) /\ 1 \in Nat /\ L \in Nat
          BY <1>1, <1>3
        <4> QED
          BY <4>1, ReadAtFacts, ZenonT(60)
      <3> QED
        BY <3>1, <2>3, <1>3
    <2> HIDE DEF g, L
    <2>5. Len(g) = (IF 1 + L <= n THEN L ELSE n - 1) /\ Len(g) <= L /\ Len(g) <= n - 1 /\ Len(g) \in Nat
      BY <2>1, <2>4, <1>1, <1>2
    <2>6. ASSUME NEW j \in 1 .. Len(g) PROVE g[j] = F[j]
      <3> DEFINE k == 1 + j
      <3>1. j \in 1 .. L /\ k \in 1 .. n
        BY <2>5, <1>1, <1>2
      <3>2. g[j] = f[k] /\ m[k] = F[j]
        BY <3>1, <2>4, <1>1
      <3> HIDE DEF k
      <3>3. f[k] = m[k]
        BY <3>1, <1>3
      <3> QED
        BY <3>2, <3>3
    <2>7. /\ Field(g, "size", <<0>>)[1] \in {0, Len(r.input)}
          /\ Field(g, "block_size", <<0>>)[1] \in {0, r.block_size}
          /\ Len(g) < L => Field(g, "hash", <<>>) = <<>>
          /\ Len(g) = L =>
               /\ Field(g, "hash", <<>>) = Digest(r.input)
               /\ Field(g, "version", <<0>>)[1] = Version
               /\ Field(g, "size", <<0>>)[1] = Len(r.input)
               /\ Field(g, "block_size", <<0>>)[1] = r.block_size
      BY <2>4, <2>5, <2>6, FrontOfFields DEF F, L
    <2>8. ReadHeader(f) = [version |-> Field(g, "version", <<0>>)[1],
                           size |-> Field(g, "size", <<0>>)[1],
                           block_size |-> Field(g, "block_size", <<0>>)[1],
                           hash |-> Field(g, "hash", <<>>),
                           header_size |-> 1 + Len(g)]
      BY DEF ReadHeader, HeaderSize, g
    <2>9. ReadHeader(f).hash \in {<<>>, Digest(r.input)}
      <3>1. Len(g) < L \/ Len(g) = L
        BY <2>5, <1>1
      <3> QED
        BY <3>1, <2>7, <2>8
    <2>10. HeaderEnd(r) <= n => ReadHeader(f) = HeaderOf(r)
      <3> SUFFICES ASSUME HeaderEnd(r) <= n PROVE ReadHeader(f) = HeaderOf(r)
        OBVIOUS
      <3>1. Len(g) = L
        BY <2>5, <1>1
      <3> QED
        BY <3>1, <2>7, <2>8, <1>1, Zenon DEF HeaderOf
    <2>11. ReadHeader(f).size \in Nat /\ ReadHeader(f).block_size \in Nat
      <3>1. Len(r.input) \in Nat /\ r.block_size \in Nat
        BY RunFacts
      <3>2. Field(g, "size", <<0>>)[1] \in Nat /\ Field(g, "block_size", <<0>>)[1] \in Nat
        BY <3>1, <2>7
      <3> QED
        BY <3>2, <2>8
    <2> QED
      BY <2>9, <2>10, <2>11 DEF f, m
  <1> QED
    BY <1>4, <1>5

-----------------------------------------------------------------------------
(* What is published. *)

\* File f is the beginning of what run r writes.
FrontOf(f, r) == \E n \in 0 .. Len(MetadataOf(r)) : f = SubSeq(MetadataOf(r), 1, n)

PublishedOK == \E r \in Runs : FrontOf(ksync, r)

Versions == {Digest(r.input) : r \in Runs}

LEMMA NothingIsAFront ==
  ASSUME NEW r \in Runs
  PROVE  FrontOf(<<>>, r)
  <1> DEFINE m == MetadataOf(r)
             f == SubSeq(m, 1, 0)
  <1>1. m \in Seq(MetaCells) /\ 0 \in 0 .. Len(m)
    BY MetadataType, LenProperties
  <1> HIDE DEF m
  <1>2. f \in Seq(MetaCells) /\ Len(f) = 0
    BY <1>1, FrontAndRest
  <1>3. f = <<>>
    BY <1>2, EmptySeq
  <1> QED
    BY <1>1, <1>3, Zenon DEF FrontOf, m

LEMMA JoinedIsAFront ==
  ASSUME NEW r \in Runs, NEW a \in Seq(MetaCells), NEW b \in Seq(MetaCells),
         a \o b = MetadataOf(r)
  PROVE  FrontOf(a, r)
  <1>1. Len(a) \in 0 .. Len(a \o b) /\ a = SubSeq(a \o b, 1, Len(a))
    BY FrontOfJoined
  <1> QED
    BY <1>1, Zenon DEF FrontOf

LEMMA WholeIsAFront ==
  ASSUME NEW r \in Runs
  PROVE  FrontOf(MetadataOf(r), r)
  <1> DEFINE m == MetadataOf(r)
             e == <<>>
  <1>1. m \in Seq(MetaCells) /\ e \in Seq(MetaCells)
    BY MetadataType, EmptySeq
  <1>2. m \o e = m
    <2> HIDE DEF m
    <2> QED
      BY <1>1
  <1> HIDE DEF e
  <1> QED
    BY <1>1, <1>2, JoinedIsAFront

\* What the header of such a file tells.
LEMMA PublishedHeader ==
  ASSUME PublishedOK
  PROVE  /\ ReadHeader(ksync).hash \in Versions \cup {<<>>}
         /\ ReadHeader(ksync).size \in Nat /\ ReadHeader(ksync).block_size \in Nat
  <1>1. PICK r \in Runs : \E n \in 0 .. Len(MetadataOf(r)) : ksync = SubSeq(MetadataOf(r), 1, n)
    BY DEF PublishedOK, FrontOf
  <1>2. PICK n \in 0 .. Len(MetadataOf(r)) : ksync = SubSeq(MetadataOf(r), 1, n)
    BY <1>1
  <1>3. /\ ReadHeader(ksync).hash \in {<<>>, Digest(r.input)}
        /\ ReadHeader(ksync).size \in Nat /\ ReadHeader(ksync).block_size \in Nat
    BY <1>2, PartialHeader
  <1>4. Digest(r.input) \in Versions
    BY DEF Versions
  <1> QED
    BY <1>3, <1>4

\* A step of the publisher leaves such a file.
LEMMA PublishedStays ==
  ASSUME PrepareInv, PrepareInv', PublishedOK, Next
  PROVE  PublishedOK'
  <1>1. run' \in Runs /\ ksync' \in Seq(MetaCells) /\ ksync_buffer' \in Seq(MetaCells)
    BY DEF PrepareInv, Typed
  <1>2. CASE ksync' = ksync
    BY <1>2 DEF PublishedOK, FrontOf
  <1>3. CASE ksync' = <<>>
    BY <1>1, <1>3, NothingIsAFront DEF PublishedOK
  <1>4. CASE stage' = "flushing"
    <2>1. ksync' \o ksync_buffer' = MetadataOf(run')
      BY <1>4 DEF PrepareInv, MetadataOK
    <2>2. FrontOf(ksync', run')
      BY <1>1, <2>1, JoinedIsAFront
    <2> QED
      BY <1>1, <2>2 DEF PublishedOK
  <1>5. CASE stage' = "closing"
    <2>1. ksync' = MetadataOf(run')
      BY <1>5 DEF PrepareInv, MetadataOK
    <2>2. FrontOf(ksync', run')
      BY <1>1, <2>1, WholeIsAFront
    <2> QED
      BY <1>1, <2>2 DEF PublishedOK
  <1>6. ksync' = ksync \/ ksync' = <<>> \/ stage' = "flushing" \/ stage' = "closing"
    BY DEF Next, Work, Rerun, PrepareBlock, CloseChunk, StartCompaction, CompactBlock, WriteOut,
           FinishCompaction, WriteMetadata, FlushMetadata, CloseMetadata, CloseOutput,
           WaitForever, files
  <1> QED
    BY <1>2, <1>3, <1>4, <1>5, <1>6

-----------------------------------------------------------------------------
(* What the sync keeps. *)

SyncTyped ==
  /\ header.hash \in Versions \cup {<<>>}
  /\ header.size \in Nat /\ header.block_size \in Nat
  /\ seed \in Seq(Int) /\ block \in Nat
  /\ sync \in {"idle", "opened"} => header.hash = <<>>
  /\ sync # "idle" => output \in Seq(Int)
  /\ sync \notin {"idle", "opened", "failed", "stuck"} => header.block_size # 0
  /\ sync = "rebuild" =>
       seed_offsets \in [IndicesRead -> {kInvalidOffset} \cup (0 .. Len(seed))]

\* The sync sees nothing of a step of the publisher but the files.
LEMMA SyncStays ==
  ASSUME SyncTyped, UNCHANGED <<sync, seed, output, header, seed_offsets, block>>
  PROVE  SyncTyped'
  BY DEF SyncTyped, IndicesRead, BlockCountRead

LEMMA InitIsTyped == SystemInit => SyncTyped
  <1> SUFFICES ASSUME SystemInit PROVE SyncTyped
    OBVIOUS
  <1>1. header.hash = <<>> /\ header.size = 0 /\ header.block_size = 0
    BY NothingRead DEF SystemInit, InitSync, NoHeader
  <1>2. seed \in Seq(Int) /\ block = 0 /\ sync = "idle"
    BY SeedsAssumption DEF SystemInit, InitSync
  <1> QED
    BY <1>1, <1>2 DEF SyncTyped

\* How many blocks the header announces.
LEMMA ReadIndices ==
  ASSUME SyncTyped, header.block_size # 0
  PROVE  BlockCountRead \in Nat /\ IndicesRead = 0 .. BlockCountRead - 1
  <1>1. header.size \in Nat /\ header.block_size \in Nat \ {0}
    BY DEF SyncTyped
  <1> QED
    BY <1>1, CeilDivBounds DEF BlockCountRead, BlockCount, IndicesRead

\* What a block may be rebuilt from is a sequence of bytes.
LEMMA RebuiltBytes ==
  ASSUME SyncTyped, sync = "rebuild", block < BlockCountRead, NEW v \in Rebuilt(block)
  PROVE  /\ block \in IndicesRead /\ v \in Seq(Int)
         /\ block * header.block_size \in Nat
         /\ WriteAt(output, block * header.block_size, v, 0) \in Seq(Int)
  <1>1. /\ header.block_size \in Nat \ {0} /\ block \in Nat /\ seed \in Seq(Int)
        /\ output \in Seq(Int)
        /\ seed_offsets \in [IndicesRead -> {kInvalidOffset} \cup (0 .. Len(seed))]
    BY DEF SyncTyped
  <1>2. block \in IndicesRead
    BY <1>1, ReadIndices
  <1>3. v \in Seq(Int)
    <2>1. v \in Contents(block)
      BY DEF Rebuilt
    <2>2. CASE seed_offsets[block] # kInvalidOffset
      <3>1. seed_offsets[block] \in Nat
        BY <1>1, <1>2, <2>2, LenProperties
      <3>2. v = ReadAt(seed, seed_offsets[block], header.block_size)
        BY <2>1, <2>2 DEF Contents
      <3>3. ReadAt(seed, seed_offsets[block], header.block_size) \in Seq(Int)
        BY <1>1, <3>1, ReadAtFacts
      <3> QED
        BY <3>2, <3>3
    <2>3. CASE seed_offsets[block] = kInvalidOffset
      <3>1. v \in DOMAIN FrameSize
        BY <2>1, <2>3 DEF Contents
      <3> QED
        BY <3>1, RunsAssumption
    <2> QED
      BY <2>2, <2>3
  <1>4. block * header.block_size \in Nat
    BY <1>1
  <1>5. WriteAt(output, block * header.block_size, v, 0) \in Seq(Int)
    <2> DEFINE at == block * header.block_size
    <2>1. at \in Nat /\ 0 \in Int
      BY <1>4
    <2> HIDE DEF at
    <2>2. output \in Seq(Int)
      BY <1>1
    <2>3. WriteAt(output, at, v, 0) \in Seq(Int)
      BY <2>1, <2>2, <1>3, WrittenSize
    <2> QED
      BY <2>3 DEF at
  <1> QED
    BY <1>2, <1>3, <1>4, <1>5

LEMMA SyncStepIsTyped ==
  ASSUME PublishedOK, SyncTyped, StartSync \/ SyncStep \/ SyncWaitForever
  PROVE  SyncTyped'
  <1>1. CASE Fail /\ sync # "idle"
    BY <1>1 DEF Fail, SyncTyped, IndicesRead, BlockCountRead
  <1>2. CASE StartSync
    <2>1. output' \in Seq(Int)
      BY <1>2 DEF StartSync
    <2> QED
      BY <1>2, <2>1 DEF StartSync, SyncTyped
  <1>3. CASE ParseHeader
    <2>1. /\ header'.hash \in Versions \cup {<<>>}
          /\ header'.size \in Nat /\ header'.block_size \in Nat
      BY <1>3, PublishedHeader, Zenon DEF ParseHeader
    <2>2. header'.block_size # 0
      BY <1>3 DEF ParseHeader, Usable
    <2> QED
      BY <1>3, <2>1, <2>2 DEF ParseHeader, SyncTyped
  <1>4. CASE ReadWeakChecksums
    BY <1>4 DEF ReadWeakChecksums, SyncTyped
  <1>5. CASE ReadStrongChecksums
    BY <1>5 DEF ReadStrongChecksums, SyncTyped
  <1>6. CASE ReadSizes
    <2>1. output \in Seq(Int) /\ header.size \in Nat
      BY <1>6 DEF ReadSizes, SyncTyped
    <2>2. output' \in Seq(Int)
      <3>1. 0 \in Int
        OBVIOUS
      <3>2. Resized(output, header.size, 0) \in Seq(Int)
        BY <2>1, <3>1, ResizedFacts
      <3> QED
        BY <1>6, <3>2 DEF ReadSizes
    <2> QED
      BY <1>6, <2>2 DEF ReadSizes, SyncTyped
  <1>7. CASE AnalyzeSeed
    <2>1. seed_offsets' \in [IndicesRead -> {kInvalidOffset} \cup (0 .. Len(seed))]
      BY <1>7 DEF AnalyzeSeed
    <2>2. IndicesRead' = IndicesRead
      BY <1>7 DEF AnalyzeSeed, IndicesRead, BlockCountRead
    <2> QED
      BY <1>7, <2>1, <2>2 DEF AnalyzeSeed, SyncTyped
  <1>8. CASE RebuildBlock
    <2>1. PICK v \in Rebuilt(block) : output' = WriteAt(output, block * header.block_size, v, 0)
      BY <1>8 DEF RebuildBlock
    <2>2. output' \in Seq(Int)
      BY <1>8, <2>1, RebuiltBytes DEF RebuildBlock
    <2>3. block' \in Nat
      BY <1>8 DEF RebuildBlock, SyncTyped
    <2> QED
      BY <1>8, <2>2, <2>3 DEF RebuildBlock, SyncTyped, IndicesRead, BlockCountRead
  <1>9. CASE SkipBlock
    BY <1>9 DEF SkipBlock, SyncTyped, IndicesRead, BlockCountRead
  <1>10. CASE Verify
    BY <1>10 DEF Verify, SyncTyped
  <1>11. CASE SyncWaitForever
    BY <1>11 DEF SyncWaitForever, SyncAtPhaseStart, SyncTyped
  <1> QED
    BY <1>1, <1>2, <1>3, <1>4, <1>5, <1>6, <1>7, <1>8, <1>9, <1>10, <1>11
    DEF SyncStep, CannotParseHeader, CannotReadTable, ReadsTable, CannotRebuildBlock, CannotVerify

-----------------------------------------------------------------------------
(* One version and no mixture. *)

LEMMA OnlyHashOf ==
  ASSUME NEW x
  PROVE  OnlyHash({h \in {x} : h.hash # <<>>}) = x.hash
  <1>1. CASE x.hash = <<>>
    <2>1. {h \in {x} : h.hash # <<>>} = {}
      BY <1>1
    <2> QED
      BY <1>1, <2>1 DEF OnlyHash, None
  <1>2. CASE x.hash # <<>>
    <2>1. {h \in {x} : h.hash # <<>>} = {x}
      BY <1>2
    <2>2. (CHOOSE h \in {x} : TRUE) = x
      OBVIOUS
    <2> QED
      BY <2>1, <2>2 DEF OnlyHash
  <1> QED
    BY <1>1, <1>2

SystemInv == PrepareInv /\ PublishedOK /\ SyncTyped

LEMMA PublisherStepIsGood ==
  ASSUME SystemInv, PublisherStep
  PROVE  SystemInv'
  <1>1. Next /\ UNCHANGED <<sync, seed, output, header, seed_offsets, block>>
    BY DEF PublisherStep, Next, syncVars
  <1>2. PrepareInv'
    BY <1>1, PrepareStep DEF SystemInv
  <1>3. PublishedOK'
    BY <1>1, <1>2, PublishedStays DEF SystemInv
  <1> QED
    BY <1>1, <1>2, <1>3, SyncStays DEF SystemInv

LEMMA SyncLeavesFiles ==
  ASSUME StartSync \/ SyncStep \/ SyncWaitForever
  PROVE  UNCHANGED vars
  BY DEF StartSync, SyncStep, ParseHeader, CannotParseHeader, ReadWeakChecksums,
         ReadStrongChecksums, ReadSizes, CannotReadTable, AnalyzeSeed, RebuildBlock,
         SkipBlock, CannotRebuildBlock, Verify, CannotVerify, SyncWaitForever, Fail

LEMMA SystemStep == SystemInv /\ [SystemNext]_allVars => SystemInv'
  <1> SUFFICES ASSUME SystemInv, [SystemNext]_allVars PROVE SystemInv'
    OBVIOUS
  <1>1. CASE PublisherStep
    BY <1>1, PublisherStepIsGood
  <1>2. CASE UNCHANGED vars
    <2>1. PrepareInv'
      BY <1>2, StutterIsGood DEF SystemInv
    <2>2. PublishedOK'
      BY <1>2 DEF SystemInv, PublishedOK, FrontOf, vars, files
    <2>3. CASE StartSync \/ SyncStep \/ SyncWaitForever
      BY <2>1, <2>2, <2>3, SyncStepIsTyped DEF SystemInv
    <2>4. CASE UNCHANGED syncVars
      BY <2>1, <2>2, <2>4, SyncStays DEF SystemInv, syncVars
    <2>5. CASE PublisherStep
      BY <2>5, PublisherStepIsGood
    <2> QED
      BY <2>3, <2>4, <2>5 DEF SystemNext, allVars
  <1> QED
    BY <1>1, <1>2, SyncLeavesFiles DEF SystemNext, allVars

LEMMA SystemStarts == SystemInit => SystemInv
  <1> SUFFICES ASSUME SystemInit PROVE SystemInv
    OBVIOUS
  <1>1. PrepareInv
    BY InitIsFresh, FreshIsGood DEF SystemInit
  <1>2. run \in Runs /\ ksync = <<>>
    BY DEF SystemInit, Init
  <1>3. PublishedOK
    BY <1>2, NothingIsAFront DEF PublishedOK
  <1> QED
    BY <1>1, <1>3, InitIsTyped DEF SystemInv

\* The publisher's own invariant holds beside a sync, the metadata file is always the
\* beginning of what some run writes (prepare_command.cc:255-267), and the sync keeps
\* its types.
THEOREM SystemInvariant == System => []SystemInv
  BY SystemStarts, SystemStep, PTL DEF System

\* What FileSync sees of a state.
LEMMA Mapped ==
  /\ OnlyHash(CompleteHeaders(ksync)) = ReadHeader(ksync).hash
  /\ OnlyHash({h \in {header} : h.hash # <<>>}) = header.hash
  BY OnlyHashOf DEF CompleteHeaders

LEMMA MappedNext ==
  /\ OnlyHash(CompleteHeaders(ksync))' = ReadHeader(ksync').hash
  /\ OnlyHash({h \in {header} : h.hash # <<>>})' = header'.hash
  BY OnlyHashOf DEF CompleteHeaders

LEMMA PublishedVersion == PublishedOK => ReadHeader(ksync).hash \in Versions \cup {<<>>}
  BY PublishedHeader

LEMMA PublishedVersionNext == PublishedOK' => (ReadHeader(ksync).hash \in Versions \cup {<<>>})'
  BY PublishedVersion, PTL

LEMMA StepImplements ==
  ASSUME SystemInv, SystemInv', [SystemNext]_allVars
  PROVE  Abstract!Next \/ UNCHANGED Abstract!vars
  <1> DEFINE offered == OnlyHash(CompleteHeaders(ksync))
             chosen == OnlyHash({h \in {header} : h.hash # <<>>})
             delivered == IF sync = "ok" THEN Digest(output) ELSE None
             failed == (sync = "failed")
             V == {Digest(r.input) : r \in Runs}
  <1>1. /\ offered = ReadHeader(ksync).hash /\ chosen = header.hash
        /\ offered' = ReadHeader(ksync').hash /\ chosen' = header'.hash
    BY Mapped, MappedNext
  <1> HIDE DEF offered, chosen
  <1>2. CASE PublisherStep
    <2>1. UNCHANGED <<sync, output, header>>
      BY <1>2 DEF PublisherStep, syncVars
    <2>2. offered' \in V \cup {None}
      <3>1. ReadHeader(ksync').hash \in Versions' \cup {<<>>}
        BY PublishedVersionNext DEF SystemInv
      <3> QED
        BY <3>1, <1>1 DEF Versions, None
    <2>3. UNCHANGED <<chosen, delivered, failed>>
      BY <2>1, <1>1
    <2> QED
      BY <2>2, <2>3 DEF Abstract!Next, Abstract!Publish, offered, chosen
  <1>3. CASE UNCHANGED vars /\ UNCHANGED <<sync, output, header>>
    <2>1. UNCHANGED <<offered, chosen, delivered, failed>>
      BY <1>1, <1>3 DEF vars, files
    <2> QED
      BY <2>1 DEF Abstract!vars, offered, chosen
  <1>4. CASE Fail /\ sync \notin {"idle", "ok"}
    <2>1. /\ UNCHANGED <<offered, chosen>> /\ delivered = None /\ delivered' = None /\ failed'
      BY <1>1, <1>4 DEF Fail, vars, files
    <2> QED
      BY <2>1 DEF Abstract!Next, Abstract!Fail, offered, chosen
  <1>5. CASE ParseHeader
    <2>1. /\ sync = "opened" /\ sync' = "weak" /\ header' = ReadHeader(ksync)
          /\ UNCHANGED <<ksync, output>>
      BY <1>5 DEF ParseHeader, vars, files
    <2>2. chosen = None
      BY <2>1, <1>1 DEF SystemInv, SyncTyped, None
    <2>3. /\ UNCHANGED <<offered, delivered, failed>> /\ chosen' = offered /\ ~failed
      BY <2>1, <1>1
    <2>4. CASE offered = None
      BY <2>2, <2>3, <2>4 DEF Abstract!vars, offered, chosen
    <2>5. CASE offered # None
      BY <2>2, <2>3, <2>5 DEF Abstract!Next, Abstract!Choose, offered, chosen
    <2> QED
      BY <2>4, <2>5
  <1>6. CASE Verify
    <2>1. /\ sync = "rebuild" /\ sync' = "ok" /\ header.hash = Digest(output)
          /\ UNCHANGED <<ksync, header, output>>
      BY <1>6 DEF Verify, HashMatches, vars, files
    <2>2. Digest(output) # <<>>
      <3>1. output \in Seq(Int)
        BY <2>1 DEF SystemInv, SyncTyped
      <3> QED
        BY <3>1, DigestFacts
    <2>3. /\ UNCHANGED <<offered, chosen, failed>> /\ ~failed
          /\ delivered = None /\ delivered' = chosen /\ chosen # None
      BY <2>1, <2>2, <1>1 DEF None
    <2> QED
      BY <2>3 DEF Abstract!Next, Abstract!Deliver, offered, chosen
  <1>7. CASE StartSync \/ ReadWeakChecksums \/ ReadStrongChecksums \/ ReadSizes \/ AnalyzeSeed
             \/ RebuildBlock \/ SkipBlock \/ SyncWaitForever
    <2>1. UNCHANGED <<vars, header>> /\ sync \notin {"ok", "failed"} /\ sync' \notin {"ok", "failed"}
      BY <1>7 DEF StartSync, ReadWeakChecksums, ReadStrongChecksums, ReadSizes, AnalyzeSeed,
                  RebuildBlock, SkipBlock, SyncWaitForever, SyncAtPhaseStart
    <2>2. UNCHANGED <<offered, chosen, delivered, failed>>
      BY <2>1, <1>1 DEF vars, files
    <2> QED
      BY <2>2 DEF Abstract!vars, offered, chosen
  <1>8. CASE SyncStep
    BY <1>4, <1>5, <1>6, <1>7, <1>8
    DEF SyncStep, CannotParseHeader, CannotReadTable, ReadsTable, CannotRebuildBlock, CannotVerify
  <1>9. CASE UNCHANGED allVars
    BY <1>3, <1>9 DEF allVars, syncVars
  <1> QED
    BY <1>2, <1>7, <1>8, <1>9 DEF SystemNext

\* Whatever the publisher does at the same time, a sync delivers the one version whose
\* header was in place when it read the header, or fails (sync_command.cc:185-195 and
\* 514-527).
THEOREM OneVersionAndNoMixture == System => ImplementsFileSync
  <1>1. SystemInit => Abstract!Init
    <2> SUFFICES ASSUME SystemInit PROVE Abstract!Init
      OBVIOUS
    <2>1. ksync = <<>> /\ header.hash = <<>> /\ sync = "idle"
      BY NothingRead DEF SystemInit, Init, InitSync, NoHeader
    <2>2. /\ OnlyHash(CompleteHeaders(ksync)) = None
          /\ OnlyHash({h \in {header} : h.hash # <<>>}) = None
      BY <2>1, Mapped, NothingRead DEF None
    <2> QED
      BY <2>1, <2>2 DEF Abstract!Init
  <1>2. SystemInv /\ SystemInv' /\ [SystemNext]_allVars => [Abstract!Next]_(Abstract!vars)
    BY StepImplements
  <1> QED
    BY <1>1, <1>2, SystemInvariant, PTL DEF System, ImplementsFileSync, Abstract!Spec

-----------------------------------------------------------------------------
(* Frames back to back. *)

\* The frame of block i stands in f, at the end of the frames before it.
Stands(r, f, i) ==
  /\ Len(FramesUpto(r)[i]) + FrameSizeOf(r, i) <= Len(f)
  /\ \A j \in 1 .. FrameSizeOf(r, i) : f[Len(FramesUpto(r)[i]) + j] = FrameOf(r, i)[j]

\* More frames behind it do not move it.
LEMMA FrameStands ==
  ASSUME NEW r \in Runs, NEW i \in IndicesOf(r)
  PROVE  Stands(r, FramesUpto(r)[BlocksOf(r)], i)
  <1> DEFINE B == BlocksOf(r)
             S == {k \in Nat : i + 1 + k <= B => Stands(r, FramesUpto(r)[i + 1 + k], i)}
  <1>1. B \in Nat /\ IndicesOf(r) = 0 .. B - 1 /\ i \in Nat /\ i + 1 <= B
    BY RunFacts
  <1>2. 0 \in S
    <2>1. Stands(r, FramesUpto(r)[i + 1], i)
      BY NextFrame DEF Stands
    <2>2. i + 1 + 0 = i + 1
      BY <1>1
    <2> QED
      BY <2>1, <2>2
  <1>3. ASSUME NEW k \in Nat, k \in S PROVE k + 1 \in S
    <2> DEFINE n == i + 1 + k
    <2> SUFFICES ASSUME n + 1 <= B PROVE Stands(r, FramesUpto(r)[n + 1], i)
      <3>1. i + 1 + (k + 1) = n + 1
        BY <1>1
      <3> QED
        BY <3>1
    <2>1. n \in IndicesOf(r) /\ n <= B
      BY <1>1
    <2>2. Stands(r, FramesUpto(r)[n], i)
      BY <1>3, <2>1
    <2> HIDE DEF n
    <2> DEFINE p == FramesUpto(r)[n]
               q == FramesUpto(r)[n + 1]
               at == Len(FramesUpto(r)[i])
               z == FrameSizeOf(r, i)
    <2>3. /\ Len(p) \in Nat /\ Len(q) = Len(p) + FrameSizeOf(r, n) /\ FrameSizeOf(r, n) \in Nat
          /\ \A j \in 1 .. Len(p) : q[j] = p[j]
      BY <2>1, NextFrame, BlockFacts
    <2>4. at \in Nat /\ z \in Nat
      BY NextFrame, BlockFacts
    <2>5. at + z <= Len(p) /\ \A j \in 1 .. z : p[at + j] = FrameOf(r, i)[j]
      BY <2>2 DEF Stands
    <2> HIDE DEF p, q, at, z
    <2>6. ASSUME NEW j \in 1 .. z PROVE q[at + j] = FrameOf(r, i)[j]
      <3> DEFINE k1 == at + j
      <3>1. k1 \in 1 .. Len(p)
        BY <2>3, <2>4, <2>5
      <3>2. p[k1] = FrameOf(r, i)[j]
        BY <2>5
      <3> HIDE DEF k1
      <3>3. q[k1] = p[k1]
        BY <2>3, <3>1
      <3> QED
        BY <3>2, <3>3 DEF k1
    <2>7. at + z <= Len(q)
      BY <2>3, <2>4, <2>5
    <2> QED
      BY <2>6, <2>7 DEF Stands, q, at, z
  <1> HIDE DEF S
  <1>4. \A k \in Nat : k \in S
    BY <1>2, <1>3, SetInduction
  <1> DEFINE k == B - (i + 1)
  <1>5. k \in Nat /\ i + 1 + k = B
    BY <1>1
  <1> HIDE DEF k
  <1>6. k \in S /\ i + 1 + k <= B
    BY <1>1, <1>4, <1>5
  <1>7. Stands(r, FramesUpto(r)[i + 1 + k], i)
    BY <1>6 DEF S
  <1> QED
    BY <1>5, <1>7

\* The sizes tell where a frame begins.
LEMMA FrameStarts ==
  ASSUME NEW r \in Runs
  PROVE  \A i \in IndicesOf(r) :
           StartsOf(BlocksOf(r), FrameSizesOf(r))[i] = Len(FramesUpto(r)[i])
  <1> DEFINE B == BlocksOf(r)
             s == FrameSizesOf(r)
             g == StartsOf(B, s)
             at(i) == Len(FramesUpto(r)[i])
             S == {i \in Nat : i < B => g[i] = at(i)}
  <1>1. B \in Nat /\ IndicesOf(r) = 0 .. B - 1
    BY RunFacts
  <1>2. s \in [0 .. B - 1 -> Nat] /\ \A i \in 0 .. B - 1 : s[i] = FrameSizeOf(r, i)
    BY <1>1, BlockFacts DEF FrameSizesOf
  <1> HIDE DEF s, B
  <1>3. /\ 0 < B => g[0] = 0
        /\ \A i \in 0 .. B - 1 : i + 1 < B => g[i + 1] = g[i] + s[i]
    BY <1>1, <1>2, StartsDefined
  <1> HIDE DEF g
  <1>4. 0 \in S
    <2>1. at(0) = 0
      BY FramesDefined
    <2> QED
      BY <2>1, <1>3
  <1>5. ASSUME NEW i \in Nat, i \in S PROVE i + 1 \in S
    <2> SUFFICES ASSUME i + 1 < B PROVE g[i + 1] = at(i + 1)
      OBVIOUS
    <2>1. i \in 0 .. B - 1 /\ i < B /\ i \in IndicesOf(r)
      BY <1>1
    <2>2. g[i + 1] = g[i] + s[i] /\ g[i] = at(i) /\ s[i] = FrameSizeOf(r, i)
      BY <2>1, <1>2, <1>3, <1>5
    <2>3. at(i + 1) = at(i) + FrameSizeOf(r, i)
      BY <2>1, NextFrame
    <2> QED
      BY <2>2, <2>3
  <1> HIDE DEF S
  <1>6. \A i \in Nat : i \in S
    BY <1>4, <1>5, SetInduction
  <1>7. ASSUME NEW i \in IndicesOf(r) PROVE g[i] = at(i)
    <2>1. i \in Nat /\ i < B
      BY <1>1
    <2>2. i \in S
      BY <2>1, <1>6
    <2> QED
      BY <2>1, <2>2 DEF S
  <1> QED
    BY <1>7 DEF g, B, s

\* What is read there is the frame.
LEMMA FrameIsRead ==
  ASSUME NEW r \in Runs, NEW i \in IndicesOf(r)
  PROVE  ReadAt(FramesUpto(r)[BlocksOf(r)], Len(FramesUpto(r)[i]), FrameSizeOf(r, i))
           = FrameOf(r, i)
  <1> DEFINE n == FrameSizeOf(r, i)
             at == Len(FramesUpto(r)[i])
             w == FrameOf(r, i)
             f == FramesUpto(r)[BlocksOf(r)]
  <1>1. n \in Nat /\ at \in Nat /\ w \in Seq(Cells) /\ Len(w) = n
    BY BlockFacts, NextFrame, FrameFacts
  <1>2. f \in Seq(Cells)
    <2>1. BlocksOf(r) \in 0 .. BlocksOf(r)
      BY RunFacts
    <2> QED
      BY <2>1, FramesDefined
  <1>3. at + n <= Len(f) /\ \A j \in 1 .. n : f[at + j] = w[j]
    BY FrameStands DEF Stands
  <1> HIDE DEF n, at, w, f
  <1>4. n \in Nat /\ at \in Nat /\ at + n <= Len(f)
    BY <1>1, <1>3
  <1>5. ReadAt(f, at, n) \in Seq(Cells) /\ Len(ReadAt(f, at, n)) = n
    BY <1>2, <1>4, ReadInside, SMTT(30)
  <1>6. ASSUME NEW j \in 1 .. n PROVE ReadAt(f, at, n)[j] = w[j]
    <2>1. ReadAt(f, at, n)[j] = f[at + j]
      BY <1>2, <1>4, ReadCell, SMTT(30)
    <2> QED
      BY <2>1, <1>3
  <1>7. ReadAt(f, at, n) = w
    BY <1>1, <1>5, <1>6, SeqEqual
  <1> QED
    BY <1>7 DEF n, at, w, f

\* A frame tells which block it was made of.
LEMMA FrameTellsBlock ==
  ASSUME NEW u \in DOMAIN FrameSize, NEW v \in DOMAIN FrameSize, Frame(u) = Frame(v)
  PROVE  u = v
  <1>1. 1 \in 1 .. FrameSize[u] /\ 1 \in 1 .. FrameSize[v]
    BY RunsAssumption
  <1>2. Frame(u)[1] = <<u, 1, FrameSize[u]>> /\ Frame(v)[1] = <<v, 1, FrameSize[v]>>
    BY <1>1 DEF Frame
  <1> QED
    BY <1>2

\* Every block of a run has a frame, and the size of the block is known from its index
\* (sync_command.cc:325-332).
LEMMA BlockHasFrame ==
  ASSUME NEW r \in Runs, NEW i \in IndicesOf(r)
  PROVE  /\ BlockOf(r, i) \in DOMAIN FrameSize
         /\ Len(BlockOf(r, i)) = Min2(r.block_size, Len(r.input) - i * r.block_size)
         /\ (IF i < BlocksOf(r) - 1 \/ Len(r.input) % r.block_size = 0
             THEN r.block_size ELSE Len(r.input) % r.block_size) = Len(BlockOf(r, i))
         /\ \A j \in 1 .. Len(BlockOf(r, i)) : BlockOf(r, i)[j] = r.input[i * r.block_size + j]
  <1> DEFINE at == i * r.block_size
             n == Len(r.input)
             b == r.block_size
             v == BlockOf(r, i)
  <1>1. at \in Nat /\ at < n /\ n \in Nat /\ b \in Nat \ {0} /\ r.input \in Seq(Int)
    BY BlockFacts, RunFacts
  <1>2. v = ReadAt(r.input, at, b)
    BY DEF BlockOf
  <1>3. v \in DOMAIN FrameSize
    <2>1. at \in 0 .. n
      BY <1>1
    <2> QED
      BY <1>1, <1>2, <2>1, RunsAssumption
  <1>4. /\ Len(v) = (IF at + b <= n THEN b ELSE IF at <= n THEN n - at ELSE 0)
        /\ \A j \in 1 .. Len(v) : v[j] = r.input[at + j]
    <2> HIDE DEF at, b, v
    <2>1. r.input \in Seq(Int) /\ at \in Nat /\ b \in Nat
      BY <1>1
    <2>2. /\ Len(ReadAt(r.input, at, b)) = (IF at + b <= n THEN b ELSE IF at <= n THEN n - at ELSE 0)
          /\ \A j \in 1 .. Len(ReadAt(r.input, at, b)) : ReadAt(r.input, at, b)[j] = r.input[at + j]
      BY <2>1, ReadAtFacts, ZenonT(60)
    <2> QED
      BY <1>2, <2>2
  <1>5. Len(v) = Min2(b, n - at)
    <2> HIDE DEF at, b, n, v
    <2> QED
      BY <1>1, <1>4 DEF Min2
  <1>6. (IF i < BlocksOf(r) - 1 \/ n % b = 0 THEN b ELSE n % b) = Min2(b, n - at)
    <2>1. i \in 0 .. BlockCount(n, b) - 1 /\ BlocksOf(r) = BlockCount(n, b)
      BY RunFacts DEF BlocksOf
    <2> QED
      BY <1>1, <2>1, SizeOfBlock
  <1> QED
    BY <1>3, <1>4, <1>5, <1>6

-----------------------------------------------------------------------------
(* A sync that nobody disturbs. *)

\* File f is as long as the input, and its first n blocks are those of the input.
RebuiltUpto(r, f, n) ==
  /\ f \in Seq(Int) /\ Len(f) = Len(r.input)
  /\ \A j \in 1 .. Len(f) : j <= n * r.block_size => f[j] = r.input[j]

\* Where the sync is in the metadata file.
ReadsInOrder ==
  /\ sync = "weak" => metadata_at = HeaderEnd(run)
  /\ sync = "strong" => metadata_at = HeaderEnd(run) + BlocksOf(run)
  /\ sync = "sizes" => metadata_at = HeaderEnd(run) + BlocksOf(run) + BlocksOf(run)

\* What it has read is what the run has written.
TablesOK ==
  /\ sync \notin {"opened", "failed", "stuck"} => header = HeaderOf(run)
  /\ sync \in {"sizes", "analyze", "rebuild"} => strong_checksums = StrongOf(run)
  /\ sync \in {"analyze", "rebuild"} => sizes = FrameSizesOf(run)

\* What it has found in the seed has the checksum, and what it has rebuilt is right.
RebuildOK ==
  /\ sync = "rebuild" =>
       \A i \in IndicesRead : seed_offsets[i] \in {kInvalidOffset} \cup FoundAt(strong_checksums[i])
  /\ sync \in {"analyze", "rebuild"} =>
       block <= BlocksOf(run) /\ RebuiltUpto(run, output, block)

Undisturbed ==
  /\ stage = "done"
  /\ ReadsInOrder /\ TablesOK /\ RebuildOK
  /\ ZeroFree => sync # "failed"
  /\ sync = "ok" => output = run.input

QuietOK ==
  /\ sync = "idle" => ~quiet
  /\ sync \in {"idle", "opened", "weak", "strong", "sizes", "analyze"} => block = 0
  /\ quiet => Undisturbed

-----------------------------------------------------------------------------

\* The files of a finished run.
LEMMA FinishedFiles ==
  ASSUME SystemInv, stage = "done"
  PROVE  /\ run \in Runs
         /\ ksync = MetadataOf(run) /\ ReadHeader(ksync) = HeaderOf(run)
         /\ data = FramesUpto(run)[BlocksOf(run)]
  <1> DEFINE m == MetadataOf(run)
             n == Len(m)
  <1>1. run \in Runs
    BY DEF SystemInv, PrepareInv, Typed
  <1>2. ksync = m /\ data = FramesUpto(run)[BlocksOf(run)]
    BY OfRun DEF SystemInv, PrepareInv, MetadataOK, CopiedOK
  <1>3. m \in Seq(MetaCells) /\ n \in 0 .. Len(m) /\ HeaderEnd(run) <= n
    BY <1>1, MetadataLayout, LenProperties
  <1>4. SubSeq(m, 1, n) = m
    <2> HIDE DEF m
    <2>1. /\ SubSeq(m, 1, n) \in Seq(MetaCells) /\ Len(SubSeq(m, 1, n)) = n
          /\ \A j \in 1 .. n : SubSeq(m, 1, n)[j] = m[j]
      BY <1>3, FrontAndRest
    <2> QED
      BY <1>3, <2>1, SeqEqual
  <1>5. ReadHeader(SubSeq(m, 1, n)) = HeaderOf(run)
    BY <1>1, <1>3, PartialHeader
  <1> HIDE DEF m, n
  <1> QED
    BY <1>1, <1>2, <1>4, <1>5 DEF m

\* The header of a run can be used, and announces the run's blocks.
LEMMA HeaderOfRun ==
  ASSUME NEW r \in Runs
  PROVE  /\ Usable(HeaderOf(r)) /\ HeaderOf(r).hash = Digest(r.input)
         /\ HeaderOf(r).size = Len(r.input) /\ HeaderOf(r).block_size = r.block_size
         /\ HeaderOf(r).header_size = HeaderEnd(r)
         /\ BlockCount(HeaderOf(r).size, HeaderOf(r).block_size) = BlocksOf(r)
  <1>1. r.block_size # 0
    BY RunFacts
  <1> QED
    BY <1>1 DEF HeaderOf, Usable, BlocksOf

LEMMA ReadOfRun ==
  ASSUME run \in Runs, header = HeaderOf(run)
  PROVE  /\ BlockCountRead = BlocksOf(run) /\ IndicesRead = IndicesOf(run)
         /\ header.block_size = run.block_size /\ header.size = Len(run.input)
         /\ BlocksOf(run) \in Nat /\ IndicesOf(run) = 0 .. BlocksOf(run) - 1
  <1>1. BlockCountRead = BlocksOf(run)
    BY HeaderOfRun DEF BlockCountRead
  <1>2. BlocksOf(run) \in Nat /\ IndicesOf(run) = 0 .. BlocksOf(run) - 1
    BY RunFacts
  <1> QED
    BY <1>1, <1>2, HeaderOfRun DEF IndicesRead

\* A table of the file is read whole.
LEMMA TableIsRead ==
  ASSUME SystemInv, stage = "done", header = HeaderOf(run), metadata_at \in Nat,
         metadata_at + BlocksOf(run) <= Len(MetadataOf(run))
  PROVE  /\ EntriesComplete /\ Len(Entries) = BlocksOf(run)
         /\ \A i \in IndicesOf(run) : Entries[i + 1] = MetadataOf(run)[metadata_at + (i + 1)]
  <1> DEFINE m == MetadataOf(run)
             n == BlocksOf(run)
             e == ReadAt(m, metadata_at, n)
  <1>1. /\ run \in Runs /\ Entries = e /\ BlockCountRead = n /\ n \in Nat
        /\ IndicesOf(run) = 0 .. n - 1
    BY FinishedFiles, ReadOfRun DEF Entries
  <1>2. m \in Seq(MetaCells)
    BY <1>1, MetadataType
  <1> HIDE DEF m, n
  <1>3. n \in Nat /\ metadata_at + n <= Len(m)
    BY <1>1 DEF m, n
  <1>4. Len(e) = n
    BY <1>2, <1>3, ReadInside, SMTT(30)
  <1>5. ASSUME NEW i \in IndicesOf(run) PROVE e[i + 1] = m[metadata_at + (i + 1)]
    <2> DEFINE j == i + 1
    <2>1. j \in 1 .. n
      BY <1>1
    <2> HIDE DEF j
    <2>2. e[j] = m[metadata_at + j]
      BY <1>2, <1>3, <2>1, ReadCell, SMTT(30)
    <2> QED
      BY <2>2 DEF j
  <1> HIDE DEF e
  <1> QED
    BY <1>1, <1>4, <1>5 DEF EntriesComplete, m, n

\* The publisher has nothing left to do.
LEMMA NoWorkLeft ==
  ASSUME stage = "done"
  PROVE  ~Work
  BY DEF Work, PrepareBlock, CloseChunk, StartCompaction, CompactBlock, WriteOut,
         FinishCompaction, WriteMetadata, FlushMetadata, CloseMetadata, CloseOutput,
         WaitForever, AtPhaseStart

-----------------------------------------------------------------------------
(* A block is rebuilt. *)

\* What is downloaded for a block is its frame.
LEMMA FrameIsDownloaded ==
  ASSUME SystemInv, stage = "done", header = HeaderOf(run), sizes = FrameSizesOf(run),
         NEW i \in IndicesOf(run)
  PROVE  Download(i) = FrameOf(run, i)
  <1>1. /\ run \in Runs /\ data = FramesUpto(run)[BlocksOf(run)]
        /\ BlockCountRead = BlocksOf(run) /\ IndicesRead = IndicesOf(run)
        /\ IndicesOf(run) = 0 .. BlocksOf(run) - 1
    BY FinishedFiles, ReadOfRun
  <1>2. compressed_file_offsets = StartsOf(BlocksOf(run), FrameSizesOf(run))
    BY <1>1 DEF compressed_file_offsets, StartsOf
  <1>3. compressed_file_offsets[i] = Len(FramesUpto(run)[i])
    BY <1>1, <1>2, FrameStarts
  <1>4. sizes[i] = FrameSizeOf(run, i)
    BY DEF FrameSizesOf
  <1> QED
    BY <1>1, <1>3, <1>4, FrameIsRead DEF Download

\* What is found in the seed has the bytes of the block, up to zeros behind its end.
LEMMA FoundBytes ==
  ASSUME run \in Runs, SyncTyped, header = HeaderOf(run), NEW i \in IndicesOf(run),
         NEW o \in FoundAt(<<"strong", PaddedOf(run, i)>>)
  PROVE  /\ ReadAt(seed, o, run.block_size) \in Seq(Int)
         /\ Len(ReadAt(seed, o, run.block_size)) = Len(BlockOf(run, i)) =>
              ReadAt(seed, o, run.block_size) = BlockOf(run, i)
         /\ ZeroFree => Len(ReadAt(seed, o, run.block_size)) = Len(BlockOf(run, i))
  <1> DEFINE b == run.block_size
             v == ReadAt(seed, o, b)
             w == BlockOf(run, i)
             p == [j \in 1 .. b |-> IF j <= Len(v) THEN v[j] ELSE 0]
  <1>1. /\ b \in Nat \ {0} /\ header.block_size = b /\ seed \in Seq(Int) /\ w \in Seq(Int)
        /\ run.input \in Seq(Int) /\ Len(run.input) \in Nat
    BY RunFacts, ReadOfRun, BlockFacts DEF SyncTyped
  <1>2. o \in 0 .. Len(seed) - 1 /\ PaddedOf(run, i) = p
    BY <1>1 DEF FoundAt
  <1>3. o \in Nat /\ Len(seed) \in Nat /\ o < Len(seed)
    BY <1>1, <1>2, LenProperties
  <1>4. /\ v \in Seq(Int) /\ Len(v) \in Nat
        /\ Len(v) = (IF o + b <= Len(seed) THEN b ELSE IF o <= Len(seed) THEN Len(seed) - o ELSE 0)
        /\ \A j \in 1 .. Len(v) : v[j] = seed[o + j]
    <2>1. seed \in Seq(Int) /\ o \in Nat /\ b \in Nat
      BY <1>1, <1>3
    <2> HIDE DEF b
    <2> QED
      BY <2>1, ReadAtFacts, LenProperties, ZenonT(60)
  <1>5. /\ Len(w) = Min2(b, Len(run.input) - i * b) /\ i * b \in Nat /\ i * b < Len(run.input)
        /\ \A j \in 1 .. Len(w) : w[j] = run.input[i * b + j]
    BY BlockHasFrame, BlockFacts
  <1>6. \A j \in 1 .. b : (IF j <= Len(v) THEN v[j] ELSE 0) = (IF j <= Len(w) THEN w[j] ELSE 0)
    <2>1. PaddedOf(run, i) = [j \in 1 .. b |-> IF j <= Len(w) THEN w[j] ELSE 0]
      BY DEF PaddedOf
    <2> HIDE DEF b, v, w
    <2> QED
      BY <1>2, <2>1
  <1> DEFINE at == i * b
             size == Len(run.input)
  <1>7. at \in Nat /\ at < size /\ size \in Nat /\ Len(w) = Min2(b, size - at)
        /\ \A j \in 1 .. Len(w) : w[j] = run.input[at + j]
    BY <1>1, <1>5
  <1> HIDE DEF b, v, w, at, size
  <1>8. Len(v) <= b /\ Len(w) <= b /\ Len(w) \in Nat /\ o + Len(v) <= Len(seed) /\ at + Len(w) <= size
    BY <1>1, <1>3, <1>4, <1>7 DEF Min2
  <1>9. ASSUME Len(v) = Len(w) PROVE v = w
    <2>1. ASSUME NEW j \in 1 .. Len(v) PROVE v[j] = w[j]
      <3>1. j \in 1 .. b /\ j <= Len(v) /\ j <= Len(w)
        BY <1>1, <1>4, <1>8, <1>9
      <3> QED
        BY <3>1, <1>6
    <2> QED
      BY <2>1, <1>1, <1>4, <1>9, SeqEqual
  <1>10. ASSUME ZeroFree PROVE Len(v) = Len(w)
    <2>1. ASSUME Len(v) < Len(w) PROVE FALSE
      <3> DEFINE j == Len(v) + 1
      <3>1. j \in 1 .. b /\ ~(j <= Len(v)) /\ j \in 1 .. Len(w) /\ j <= Len(w)
        BY <1>1, <1>4, <1>8, <2>1, SMTT(30)
      <3>2. at + j \in 1 .. size
        BY <1>4, <1>7, <1>8, <2>1
      <3> HIDE DEF j
      <3>3. w[j] = 0
        BY <3>1, <1>6
      <3>4. run.input[at + j] # 0
        BY <3>2, <1>1, <1>10, LenProperties DEF ZeroFree, size
      <3> QED
        BY <3>1, <3>3, <3>4, <1>7
    <2>2. ASSUME Len(w) < Len(v) PROVE FALSE
      <3> DEFINE j == Len(w) + 1
      <3>1. j \in 1 .. b /\ ~(j <= Len(w)) /\ j \in 1 .. Len(v) /\ j <= Len(v)
        BY <1>1, <1>4, <1>8, <2>2
      <3>2. o + j \in 1 .. Len(seed)
        BY <1>3, <1>4, <1>8, <2>2
      <3> HIDE DEF j
      <3>3. v[j] = 0
        BY <3>1, <1>6
      <3>4. seed[o + j] # 0
        BY <3>2, <1>1, <1>10, LenProperties DEF ZeroFree
      <3> QED
        BY <3>1, <3>3, <3>4, <1>4
    <2> QED
      BY <2>1, <2>2, <1>4, <1>8
  <1> QED
    BY <1>4, <1>9, <1>10 DEF b, v, w

\* What a block is rebuilt from is the block of the input, and unless zeros mislead the
\* sync there is something to rebuild it from.
LEMMA RightBlock ==
  ASSUME SystemInv, stage = "done", sync = "rebuild", TablesOK, RebuildOK,
         block < BlockCountRead
  PROVE  /\ block \in IndicesOf(run)
         /\ \A v \in Rebuilt(block) : v = BlockOf(run, block)
         /\ ZeroFree => Rebuilt(block) # {}
  <1>1. /\ run \in Runs /\ SyncTyped /\ header = HeaderOf(run)
        /\ strong_checksums = StrongOf(run) /\ sizes = FrameSizesOf(run)
    BY FinishedFiles DEF TablesOK, SystemInv
  <1>2. /\ BlockCountRead = BlocksOf(run) /\ IndicesRead = IndicesOf(run)
        /\ header.block_size = run.block_size /\ header.size = Len(run.input)
        /\ BlocksOf(run) \in Nat /\ IndicesOf(run) = 0 .. BlocksOf(run) - 1
    BY <1>1, ReadOfRun
  <1>3. block \in IndicesOf(run)
    BY <1>1, <1>2 DEF SyncTyped
  <1> DEFINE b == BlockOf(run, block)
             o == seed_offsets[block]
  <1>4. b \in DOMAIN FrameSize /\ ExpectedSize(block) = Len(b)
    BY <1>1, <1>2, <1>3, BlockHasFrame DEF ExpectedSize
  <1>5. CASE o = kInvalidOffset
    <2>1. Download(block) = Frame(b)
      BY <1>1, <1>3, FrameIsDownloaded DEF FrameOf
    <2>2. Contents(block) = {v \in DOMAIN FrameSize : Frame(b) = Frame(v)}
      BY <1>5, <2>1 DEF Contents
    <2>3. \A v \in Contents(block) : v = b
      BY <1>4, <2>2, FrameTellsBlock
    <2>4. b \in Contents(block)
      BY <1>4, <2>2
    <2> QED
      BY <1>3, <1>4, <2>3, <2>4 DEF Rebuilt
  <1>6. CASE o # kInvalidOffset
    <2>1. strong_checksums[block] = <<"strong", PaddedOf(run, block)>>
      BY <1>1, <1>3 DEF StrongOf
    <2>2. o \in FoundAt(<<"strong", PaddedOf(run, block)>>)
      BY <1>2, <1>3, <1>6, <2>1 DEF RebuildOK
    <2> DEFINE v == ReadAt(seed, o, run.block_size)
    <2>3. Contents(block) = {v}
      BY <1>2, <1>6 DEF Contents
    <2>4. (Len(v) = Len(b) => v = b) /\ (ZeroFree => Len(v) = Len(b))
      BY <1>1, <1>3, <2>2, FoundBytes
    <2> HIDE DEF v
    <2> QED
      BY <1>3, <1>4, <2>3, <2>4 DEF Rebuilt
  <1> QED
    BY <1>5, <1>6

\* A rebuilt block makes one more right.
LEMMA OneMoreBlock ==
  ASSUME NEW r \in Runs, NEW n \in IndicesOf(r), NEW f, RebuiltUpto(r, f, n)
  PROVE  RebuiltUpto(r, WriteAt(f, n * r.block_size, BlockOf(r, n), 0), n + 1)
  <1> DEFINE at == n * r.block_size
             b == r.block_size
             v == BlockOf(r, n)
             size == Len(r.input)
             g == WriteAt(f, at, v, 0)
  <1>1. /\ at \in Nat /\ at < size /\ size \in Nat /\ b \in Nat \ {0} /\ v \in Seq(Int)
        /\ Len(v) = Min2(b, size - at) /\ \A j \in 1 .. Len(v) : v[j] = r.input[at + j]
    BY BlockFacts, RunFacts, BlockHasFrame
  <1>2. /\ f \in Seq(Int) /\ Len(f) = size
        /\ \A j \in 1 .. Len(f) : j <= at => f[j] = r.input[j]
    BY DEF RebuiltUpto
  <1>3. (n + 1) * r.block_size = at + b
    <2>1. n \in Nat /\ r.block_size \in Nat
      BY BlockFacts, RunFacts
    <2> QED
      BY <2>1, NextMultiple
  <1> HIDE DEF at, b, v, size
  <1>4. Len(v) \in Nat /\ at + Len(v) <= Len(f) /\ (Len(v) = b \/ at + Len(v) = size)
    <2>1. /\ at \in Nat /\ at < size /\ size \in Nat /\ b \in Nat
          /\ Len(v) = (IF b <= size - at THEN b ELSE size - at) /\ Len(f) = size
      BY <1>1, <1>2 DEF Min2
    <2> QED
      BY <2>1
  <1>5. \A j \in 1 .. Len(v) : v[j] \in Int
    BY <1>1, LenProperties
  <1>6. /\ g \in Seq(Int) /\ Len(g) = Len(f)
        /\ \A j \in 1 .. Len(f) : g[j] = IF at < j /\ j <= at + Len(v) THEN v[j - at] ELSE f[j]
    <2>1. f \in Seq(Int) /\ at \in Nat /\ v \in Seq(Int) /\ at + Len(v) <= Len(f)
      BY <1>1, <1>2, <1>4
    <2>2. WriteAt(f, at, v, 0)
            = [k \in 1 .. Len(f) |-> IF at < k /\ k <= at + Len(v) THEN v[k - at] ELSE f[k]]
      BY <2>1, WriteInside
    <2>3. ASSUME NEW j \in 1 .. Len(f)
          PROVE  g[j] = IF at < j /\ j <= at + Len(v) THEN v[j - at] ELSE f[j]
      <3>1. g = [k \in 1 .. Len(f) |-> IF at < k /\ k <= at + Len(v) THEN v[k - at] ELSE f[k]]
        BY <2>2
      <3> HIDE DEF g
      <3> QED
        BY <3>1
    <2>4. g \in Seq(Int) /\ Len(g) = Len(f)
      BY <2>1, <1>5, WriteAtInside, SMTT(30)
    <2> QED
      BY <2>3, <2>4
  <1> HIDE DEF g
  <1>7. ASSUME NEW j \in 1 .. Len(g), j <= at + b PROVE g[j] = r.input[j]
    <2>1. j \in 1 .. Len(f) /\ Len(f) = size
      BY <1>2, <1>6
    <2>2. CASE j <= at
      <3>1. ~(at < j)
        BY <2>2, <1>1
      <3> QED
        BY <2>1, <2>2, <3>1, <1>2, <1>6
    <2>3. CASE at < j
      <3> DEFINE k == j - at
      <3>1. k \in 1 .. Len(v) /\ at + k = j /\ j <= at + Len(v)
        BY <2>1, <2>3, <1>1, <1>4, <1>7
      <3>2. g[j] = v[k]
        BY <2>1, <2>3, <3>1, <1>6
      <3> HIDE DEF k
      <3>3. v[k] = r.input[at + k]
        BY <3>1, <1>1
      <3> QED
        BY <3>1, <3>2, <3>3
    <2> QED
      BY <2>1, <2>2, <2>3, <1>1
  <1>8. ASSUME NEW j \in 1 .. Len(g), j <= (n + 1) * r.block_size PROVE g[j] = r.input[j]
    BY <1>3, <1>7, <1>8
  <1> QED
    BY <1>2, <1>6, <1>8 DEF RebuiltUpto, g, at, v, size

-----------------------------------------------------------------------------
(* The steps of a sync that nobody disturbs. *)

QuietInv == SystemInv /\ QuietOK

\* Nothing that Undisturbed speaks of changes but the sync's place.
LEMMA FailIsQuiet ==
  ASSUME QuietInv, Fail, sync # "idle", quiet /\ ZeroFree => FALSE
  PROVE  QuietOK'
  <1>1. /\ sync' = "failed" /\ quiet' = quiet
        /\ UNCHANGED <<stage, run, seed, output, header, block>>
    BY DEF Fail, vars
  <1>2. ASSUME quiet' PROVE Undisturbed'
    <2>1. ~ZeroFree' /\ stage' = "done"
      BY <1>1, <1>2 DEF QuietInv, QuietOK, Undisturbed, ZeroFree
    <2>2. ReadsInOrder' /\ TablesOK' /\ RebuildOK'
      BY <1>1 DEF ReadsInOrder, TablesOK, RebuildOK
    <2> QED
      BY <1>1, <2>1, <2>2 DEF Undisturbed
  <1> QED
    BY <1>1, <1>2 DEF QuietOK

LEMMA PublisherIsQuiet ==
  ASSUME QuietInv, PublisherStep
  PROVE  QuietOK'
  <1>1. UNCHANGED <<sync, block>>
    BY DEF PublisherStep, syncVars
  <1>2. ~quiet'
    <2>1. CASE Work /\ UNCHANGED syncVars
      <3>1. stage # "done" /\ quiet' = quiet
        BY <2>1, NoWorkLeft DEF syncVars
      <3> QED
        BY <3>1 DEF QuietInv, QuietOK, Undisturbed
    <2>2. CASE quiet' = FALSE
      BY <2>2
    <2> QED
      BY <2>1, <2>2 DEF PublisherStep
  <1> QED
    BY <1>1, <1>2 DEF QuietInv, QuietOK

LEMMA StartIsQuiet ==
  ASSUME QuietInv, StartSync
  PROVE  QuietOK'
  <1>1. /\ sync = "idle" /\ sync' = "opened" /\ block' = block /\ stage' = stage
        /\ quiet' = (stage = "done")
    BY DEF StartSync, vars
  <1>2. ASSUME quiet' PROVE Undisturbed'
    <2>1. stage' = "done"
      BY <1>1, <1>2
    <2>2. ReadsInOrder' /\ TablesOK' /\ RebuildOK'
      BY <1>1 DEF ReadsInOrder, TablesOK, RebuildOK
    <2> QED
      BY <1>1, <2>1, <2>2 DEF Undisturbed
  <1> QED
    BY <1>1, <1>2 DEF QuietInv, QuietOK

LEMMA ParseIsQuiet ==
  ASSUME QuietInv, ParseHeader
  PROVE  QuietOK'
  <1>1. /\ sync = "opened" /\ sync' = "weak" /\ header' = ReadHeader(ksync)
        /\ metadata_at' = header'.header_size
        /\ UNCHANGED <<run, stage, seed, output, block, quiet>>
    BY DEF ParseHeader, vars
  <1>2. ASSUME quiet' PROVE Undisturbed'
    <2>1. stage = "done" /\ Undisturbed
      BY <1>1, <1>2 DEF QuietInv, QuietOK, Undisturbed
    <2>2. run \in Runs /\ ReadHeader(ksync) = HeaderOf(run)
      BY <2>1, FinishedFiles DEF QuietInv
    <2>3. header' = HeaderOf(run') /\ metadata_at' = HeaderEnd(run')
      BY <1>1, <2>2, HeaderOfRun
    <2>4. ReadsInOrder' /\ TablesOK' /\ RebuildOK'
      BY <1>1, <2>3 DEF ReadsInOrder, TablesOK, RebuildOK
    <2> QED
      BY <1>1, <2>1, <2>4 DEF Undisturbed
  <1> QED
    BY <1>1, <1>2 DEF QuietInv, QuietOK

LEMMA CannotParseIsQuiet ==
  ASSUME QuietInv, CannotParseHeader
  PROVE  QuietOK'
  <1>1. sync = "opened" /\ ~Usable(ReadHeader(ksync)) /\ Fail
    BY DEF CannotParseHeader
  <1>2. ASSUME quiet PROVE FALSE
    <2>1. run \in Runs /\ ReadHeader(ksync) = HeaderOf(run)
      BY <1>2, FinishedFiles DEF QuietInv, QuietOK, Undisturbed
    <2> QED
      BY <1>1, <2>1, HeaderOfRun
  <1> QED
    BY <1>1, <1>2, FailIsQuiet

\* An undisturbed sync finds every table.
LEMMA TableIsThere ==
  ASSUME QuietInv, quiet, ReadsTable
  PROVE  /\ run \in Runs /\ header = HeaderOf(run)
         /\ EntriesComplete /\ Len(Entries) = BlocksOf(run)
         /\ \A i \in IndicesOf(run) : Entries[i + 1] = MetadataOf(run)[metadata_at + (i + 1)]
  <1>1. /\ SystemInv /\ stage = "done" /\ header = HeaderOf(run) /\ ReadsInOrder
    BY DEF QuietInv, QuietOK, Undisturbed, TablesOK, ReadsTable
  <1>2. run \in Runs
    BY <1>1, FinishedFiles
  <1> DEFINE n == BlocksOf(run)
             h == HeaderEnd(run)
  <1>3. metadata_at = h \/ metadata_at = h + n \/ metadata_at = h + n + n
    BY <1>1 DEF ReadsTable, ReadsInOrder
  <1>4. h \in Nat /\ n \in Nat /\ Len(MetadataOf(run)) = h + n + n + n
    BY <1>2, MetadataLayout
  <1>5. metadata_at \in Nat /\ metadata_at + n <= Len(MetadataOf(run))
    <2> HIDE DEF n, h
    <2> QED
      BY <1>3, <1>4
  <1> QED
    BY <1>1, <1>2, <1>5, TableIsRead

LEMMA CannotReadIsQuiet ==
  ASSUME QuietInv, CannotReadTable
  PROVE  QuietOK'
  <1>1. ReadsTable /\ ~EntriesComplete /\ Fail /\ sync # "idle"
    BY DEF CannotReadTable, ReadsTable
  <1>2. ASSUME quiet PROVE FALSE
    BY <1>1, <1>2, TableIsThere
  <1> QED
    BY <1>1, <1>2, FailIsQuiet

LEMMA WeakIsQuiet ==
  ASSUME QuietInv, ReadWeakChecksums
  PROVE  QuietOK'
  <1>1. /\ sync = "weak" /\ sync' = "strong" /\ metadata_at' = metadata_at + Len(Entries)
        /\ UNCHANGED <<run, stage, seed, output, header, block, quiet>>
    BY DEF ReadWeakChecksums, vars
  <1>2. ASSUME quiet' PROVE Undisturbed'
    <2>1. Undisturbed
      BY <1>1, <1>2 DEF QuietInv, QuietOK
    <2>2. header = HeaderOf(run) /\ Len(Entries) = BlocksOf(run)
      BY <1>1, <1>2, TableIsThere DEF ReadsTable
    <2>3. metadata_at = HeaderEnd(run)
      BY <1>1, <2>1 DEF Undisturbed, ReadsInOrder
    <2>4. ReadsInOrder' /\ TablesOK' /\ RebuildOK'
      BY <1>1, <2>2, <2>3 DEF ReadsInOrder, TablesOK, RebuildOK
    <2> QED
      BY <1>1, <2>1, <2>4 DEF Undisturbed
  <1> QED
    BY <1>1, <1>2 DEF QuietInv, QuietOK

LEMMA StrongIsQuiet ==
  ASSUME QuietInv, ReadStrongChecksums
  PROVE  QuietOK'
  <1>1. /\ sync = "strong" /\ sync' = "sizes" /\ metadata_at' = metadata_at + Len(Entries)
        /\ strong_checksums' = [i \in IndicesRead |-> Entries[i + 1]]
        /\ UNCHANGED <<run, stage, seed, output, header, block, quiet>>
    BY DEF ReadStrongChecksums, vars
  <1>2. ASSUME quiet' PROVE Undisturbed'
    <2>1. Undisturbed
      BY <1>1, <1>2 DEF QuietInv, QuietOK
    <2>2. /\ run \in Runs /\ header = HeaderOf(run) /\ Len(Entries) = BlocksOf(run)
          /\ \A i \in IndicesOf(run) : Entries[i + 1] = MetadataOf(run)[metadata_at + (i + 1)]
      BY <1>1, <1>2, TableIsThere DEF ReadsTable
    <2>3. metadata_at = HeaderEnd(run) + BlocksOf(run)
      BY <1>1, <2>1 DEF Undisturbed, ReadsInOrder
    <2>4. \A i \in IndicesOf(run) : Entries[i + 1] = <<"strong", PaddedOf(run, i)>>
      BY <2>2, <2>3, MetadataLayout
    <2>5. strong_checksums' = StrongOf(run)
      BY <1>1, <2>2, <2>4, ReadOfRun DEF StrongOf
    <2>6. ReadsInOrder' /\ TablesOK' /\ RebuildOK'
      BY <1>1, <2>2, <2>3, <2>5 DEF ReadsInOrder, TablesOK, RebuildOK
    <2> QED
      BY <1>1, <2>1, <2>6 DEF Undisturbed
  <1> QED
    BY <1>1, <1>2 DEF QuietInv, QuietOK

LEMMA SizesIsQuiet ==
  ASSUME QuietInv, ReadSizes
  PROVE  QuietOK'
  <1>1. /\ sync = "sizes" /\ sync' = "analyze"
        /\ output' = Resized(output, header.size, 0)
        /\ UNCHANGED <<run, stage, seed, header, strong_checksums, block, quiet>>
    BY DEF ReadSizes, vars
  <1>2. ASSUME quiet' PROVE Undisturbed'
    <2>1. Undisturbed
      BY <1>1, <1>2 DEF QuietInv, QuietOK
    <2>2. /\ run \in Runs /\ header = HeaderOf(run)
          /\ \A i \in IndicesOf(run) : Entries[i + 1] = MetadataOf(run)[metadata_at + (i + 1)]
      BY <1>1, <1>2, TableIsThere DEF ReadsTable
    <2>3. metadata_at = HeaderEnd(run) + BlocksOf(run) + BlocksOf(run)
      BY <1>1, <2>1 DEF Undisturbed, ReadsInOrder
    <2>4. \A i \in IndicesOf(run) : Entries[i + 1] = <<"size", <<FrameSizeOf(run, i)>>>>
      BY <2>2, <2>3, MetadataLayout
    <2>5. PICK garbage \in GarbageSizes :
            sizes' = [i \in IndicesRead |->
                        IF Entries[i + 1][1] = "size" THEN Entries[i + 1][2][1] ELSE garbage]
      BY DEF ReadSizes
    <2>6. sizes' = FrameSizesOf(run)
      <3>1. IndicesRead = IndicesOf(run)
        BY <2>2, ReadOfRun
      <3>2. \A i \in IndicesOf(run) :
              (IF Entries[i + 1][1] = "size" THEN Entries[i + 1][2][1] ELSE garbage)
                = FrameSizeOf(run, i)
        BY <2>4
      <3> QED
        BY <2>5, <3>1, <3>2 DEF FrameSizesOf
    <2>7. block' = 0 /\ block' <= BlocksOf(run) /\ RebuiltUpto(run, output', block')
      <3>1. block' = 0 /\ BlocksOf(run) \in Nat /\ run.block_size \in Nat
        BY <1>1, <2>2, RunFacts DEF QuietInv, QuietOK
      <3>2. output \in Seq(Int)
        BY <1>1 DEF QuietInv, SystemInv, SyncTyped
      <3>3. output' \in Seq(Int) /\ Len(output') = Len(run.input)
        <4>1. output' = Resized(output, Len(run.input), 0) /\ Len(run.input) \in Nat /\ 0 \in Int
          BY <1>1, <2>2, ReadOfRun, RunFacts
        <4> QED
          BY <3>2, <4>1, ResizedFacts
      <3>4. 0 * run.block_size = 0
        BY <3>1
      <3>5. \A j \in 1 .. Len(output') : ~(j <= 0)
        OBVIOUS
      <3> QED
        BY <3>1, <3>3, <3>4, <3>5 DEF RebuiltUpto
    <2>8. ReadsInOrder' /\ TablesOK' /\ RebuildOK'
      BY <1>1, <2>1, <2>2, <2>6, <2>7 DEF Undisturbed, ReadsInOrder, TablesOK, RebuildOK
    <2> QED
      BY <1>1, <2>1, <2>8 DEF Undisturbed
  <1> QED
    BY <1>1, <1>2 DEF QuietInv, QuietOK

LEMMA AnalyzeIsQuiet ==
  ASSUME QuietInv, AnalyzeSeed
  PROVE  QuietOK'
  <1>1. /\ sync = "analyze" /\ sync' = "rebuild"
        /\ \A i \in IndicesRead :
             seed_offsets'[i] \in {kInvalidOffset} \cup FoundAt(strong_checksums[i])
        /\ UNCHANGED <<run, stage, seed, output, header, strong_checksums, sizes, block, quiet>>
    BY DEF AnalyzeSeed, vars
  <1>2. ASSUME quiet' PROVE Undisturbed'
    <2>1. Undisturbed
      BY <1>1, <1>2 DEF QuietInv, QuietOK
    <2>2. TablesOK' /\ ReadsInOrder'
      BY <1>1, <2>1 DEF Undisturbed, TablesOK, ReadsInOrder
    <2>3. IndicesRead' = IndicesRead
      BY <1>1 DEF IndicesRead, BlockCountRead
    <2>4. \A i \in IndicesRead : FoundAt(strong_checksums[i])' = FoundAt(strong_checksums[i])
      BY <1>1 DEF FoundAt
    <2>5. RebuildOK'
      <3>1. block' <= BlocksOf(run') /\ RebuiltUpto(run', output', block')
        BY <1>1, <2>1 DEF Undisturbed, RebuildOK
      <3>2. \A i \in IndicesRead' :
              seed_offsets'[i] \in {kInvalidOffset} \cup FoundAt(strong_checksums[i])'
        BY <1>1, <2>3, <2>4
      <3> QED
        BY <1>1, <3>1, <3>2 DEF RebuildOK
    <2> QED
      BY <1>1, <2>1, <2>2, <2>5 DEF Undisturbed
  <1> QED
    BY <1>1, <1>2 DEF QuietInv, QuietOK

LEMMA RebuildIsQuiet ==
  ASSUME QuietInv, RebuildBlock
  PROVE  QuietOK'
  <1>1. /\ sync = "rebuild" /\ sync' = "rebuild" /\ block < BlockCountRead /\ block' = block + 1
        /\ UNCHANGED <<run, stage, seed, header, metadata_at, strong_checksums, sizes,
                       seed_offsets, quiet>>
    BY DEF RebuildBlock, vars
  <1>2. PICK v \in Rebuilt(block) : output' = WriteAt(output, block * header.block_size, v, 0)
    BY DEF RebuildBlock
  <1>3. ASSUME quiet' PROVE Undisturbed'
    <2>1. /\ SystemInv /\ stage = "done" /\ TablesOK /\ RebuildOK /\ ReadsInOrder
          /\ header = HeaderOf(run)
      BY <1>1, <1>3 DEF QuietInv, QuietOK, Undisturbed, TablesOK
    <2>2. run \in Runs
      BY <2>1, FinishedFiles
    <2>3. block \in IndicesOf(run) /\ v = BlockOf(run, block)
      BY <1>1, <1>2, <2>1, RightBlock
    <2>4. header.block_size = run.block_size /\ IndicesOf(run) = 0 .. BlocksOf(run) - 1
          /\ BlocksOf(run) \in Nat
      BY <2>1, <2>2, ReadOfRun
    <2>5. RebuiltUpto(run, output', block + 1)
      <3>1. RebuiltUpto(run, output, block)
        BY <1>1, <2>1 DEF RebuildOK
      <3>2. RebuiltUpto(run, WriteAt(output, block * run.block_size, BlockOf(run, block), 0),
                        block + 1)
        BY <2>2, <2>3, <3>1, OneMoreBlock
      <3> QED
        BY <1>2, <2>3, <2>4, <3>2
    <2>6. block + 1 <= BlocksOf(run)
      BY <2>3, <2>4
    <2>7. TablesOK' /\ ReadsInOrder'
      BY <1>1, <2>1 DEF TablesOK, ReadsInOrder
    <2>8. RebuildOK'
      <3>1. IndicesRead' = IndicesRead
        BY <1>1 DEF IndicesRead, BlockCountRead
      <3>2. \A i \in IndicesRead : FoundAt(strong_checksums[i])' = FoundAt(strong_checksums[i])
        BY <1>1 DEF FoundAt
      <3>3. \A i \in IndicesRead' :
              seed_offsets'[i] \in {kInvalidOffset} \cup FoundAt(strong_checksums[i])'
        BY <1>1, <2>1, <3>1, <3>2 DEF RebuildOK
      <3>4. block' <= BlocksOf(run') /\ RebuiltUpto(run', output', block')
        BY <1>1, <2>5, <2>6
      <3> QED
        BY <1>1, <3>3, <3>4 DEF RebuildOK
    <2> QED
      BY <1>1, <2>1, <2>7, <2>8 DEF Undisturbed
  <1> QED
    BY <1>1, <1>3 DEF QuietInv, QuietOK

LEMMA CannotRebuildIsQuiet ==
  ASSUME QuietInv, CannotRebuildBlock
  PROVE  QuietOK'
  <1>1. sync = "rebuild" /\ block < BlockCountRead /\ Rebuilt(block) = {} /\ Fail
    BY DEF CannotRebuildBlock
  <1>2. ASSUME quiet, ZeroFree PROVE FALSE
    <2>1. SystemInv /\ stage = "done" /\ TablesOK /\ RebuildOK
      BY <1>2 DEF QuietInv, QuietOK, Undisturbed
    <2> QED
      BY <1>1, <1>2, <2>1, RightBlock
  <1> QED
    BY <1>1, <1>2, FailIsQuiet

\* No frame that was published is announced as empty.
LEMMA SkipIsQuiet ==
  ASSUME QuietInv, SkipBlock
  PROVE  QuietOK'
  <1>1. /\ sync = "rebuild" /\ block < BlockCountRead /\ sizes[block] = 0
        /\ sync' = "rebuild" /\ quiet' = quiet
    BY DEF SkipBlock, PassedOver
  <1>2. ASSUME quiet PROVE FALSE
    <2>1. /\ SystemInv /\ stage = "done" /\ header = HeaderOf(run) /\ sizes = FrameSizesOf(run)
      BY <1>1, <1>2 DEF QuietInv, QuietOK, Undisturbed, TablesOK
    <2>2. run \in Runs
      BY <2>1, FinishedFiles
    <2>3. block \in IndicesOf(run)
      <3>1. block \in Nat
        BY <2>1 DEF SystemInv, SyncTyped
      <3> QED
        BY <1>1, <2>1, <2>2, <3>1, ReadOfRun
    <2> QED
      BY <1>1, <2>1, <2>2, <2>3, BlockFacts DEF FrameSizesOf
  <1> QED
    BY <1>1, <1>2 DEF QuietInv, QuietOK

\* A sync that waits for the observer for ever has not failed.
LEMMA WaitIsQuiet ==
  ASSUME QuietInv, SyncWaitForever
  PROVE  QuietOK'
  <1>1. sync # "idle" /\ sync' = "stuck" /\ quiet' = quiet /\ UNCHANGED <<stage, run, output>>
    BY DEF SyncWaitForever, SyncAtPhaseStart, vars
  <1>2. ASSUME quiet' PROVE Undisturbed'
    <2>1. stage' = "done"
      BY <1>1, <1>2 DEF QuietInv, QuietOK, Undisturbed
    <2> QED
      BY <1>1, <2>1 DEF Undisturbed, ReadsInOrder, TablesOK, RebuildOK
  <1> QED
    BY <1>1, <1>2 DEF QuietOK

\* When every block is rebuilt, the output is the input.
LEMMA RebuiltAll ==
  ASSUME NEW r \in Runs, NEW f, RebuiltUpto(r, f, BlocksOf(r))
  PROVE  f = r.input
  <1> DEFINE n == BlocksOf(r) * r.block_size
  <1>1. r.input \in Seq(Int) /\ Len(r.input) \in Nat /\ Len(r.input) <= n /\ n \in Nat
    BY RunFacts
  <1>2. /\ f \in Seq(Int) /\ Len(f) = Len(r.input)
        /\ \A j \in 1 .. Len(f) : j <= n => f[j] = r.input[j]
    BY DEF RebuiltUpto
  <1> HIDE DEF n
  <1>3. ASSUME NEW j \in 1 .. Len(f) PROVE f[j] = r.input[j]
    <2>1. j <= n
      BY <1>1, <1>2
    <2> QED
      BY <1>2, <2>1
  <1> QED
    BY <1>1, <1>2, <1>3, SeqEqual

LEMMA VerifyIsQuiet ==
  ASSUME QuietInv, Verify
  PROVE  QuietOK'
  <1>1. /\ sync = "rebuild" /\ sync' = "ok" /\ header.hash = Digest(output)
        /\ UNCHANGED <<run, stage, output, header, quiet>>
    BY DEF Verify, HashMatches, vars
  <1>2. ASSUME quiet' PROVE Undisturbed'
    <2>1. Undisturbed /\ header = HeaderOf(run) /\ SystemInv /\ stage = "done"
      BY <1>1, <1>2 DEF QuietInv, QuietOK, Undisturbed, TablesOK
    <2>2. run \in Runs
      BY <2>1, FinishedFiles
    <2>3. Digest(output) = Digest(run.input)
      BY <1>1, <2>1, <2>2, HeaderOfRun
    <2>4. output \in Seq(Int) /\ run.input \in Seq(Int)
      BY <1>1, <2>1, <2>2, RunFacts DEF SystemInv, SyncTyped
    <2>5. output = run.input
      BY <2>3, <2>4, DigestFacts
    <2>6. ReadsInOrder' /\ TablesOK' /\ RebuildOK'
      BY <1>1, <2>1 DEF ReadsInOrder, TablesOK, RebuildOK
    <2> QED
      BY <1>1, <2>1, <2>5, <2>6 DEF Undisturbed
  <1> QED
    BY <1>1, <1>2 DEF QuietInv, QuietOK

LEMMA CannotVerifyIsQuiet ==
  ASSUME QuietInv, CannotVerify
  PROVE  QuietOK'
  <1>1. sync = "rebuild" /\ block = BlockCountRead /\ header.hash # Digest(output) /\ Fail
    BY DEF CannotVerify, AllRebuilt, HashMatches
  <1>2. ASSUME quiet PROVE FALSE
    <2>1. SystemInv /\ stage = "done" /\ header = HeaderOf(run) /\ RebuildOK
      BY <1>1, <1>2 DEF QuietInv, QuietOK, Undisturbed, TablesOK
    <2>2. run \in Runs
      BY <2>1, FinishedFiles
    <2>3. RebuiltUpto(run, output, BlocksOf(run))
      BY <1>1, <2>1, <2>2, ReadOfRun DEF RebuildOK
    <2>4. output = run.input
      BY <2>2, <2>3, RebuiltAll
    <2> QED
      BY <1>1, <2>1, <2>2, <2>4, HeaderOfRun
  <1> QED
    BY <1>1, <1>2, FailIsQuiet

LEMMA StutterIsQuiet ==
  ASSUME QuietInv, UNCHANGED allVars
  PROVE  QuietOK'
  <1>1. UNCHANGED <<run, stage, sync, seed, output, header, metadata_at, strong_checksums, sizes,
                    seed_offsets, block, quiet>>
    BY DEF allVars, vars, syncVars
  <1>2. /\ ReadsInOrder' = ReadsInOrder /\ TablesOK' = TablesOK /\ ZeroFree' = ZeroFree
    BY <1>1 DEF ReadsInOrder, TablesOK, ZeroFree
  <1>3. RebuildOK' = RebuildOK
    BY <1>1 DEF RebuildOK, IndicesRead, BlockCountRead, FoundAt
  <1> QED
    BY <1>1, <1>2, <1>3 DEF QuietInv, QuietOK, Undisturbed

LEMMA QuietStep == QuietInv /\ [SystemNext]_allVars => QuietInv'
  <1> SUFFICES ASSUME QuietInv, [SystemNext]_allVars PROVE QuietInv'
    OBVIOUS
  <1>1. SystemInv'
    BY SystemStep DEF QuietInv
  <1> SUFFICES QuietOK'
    BY <1>1 DEF QuietInv
  <1>2. CASE PublisherStep
    BY <1>2, PublisherIsQuiet
  <1>3. CASE StartSync
    BY <1>3, StartIsQuiet
  <1>4. CASE ParseHeader \/ CannotParseHeader
    BY <1>4, ParseIsQuiet, CannotParseIsQuiet
  <1>5. CASE ReadWeakChecksums \/ ReadStrongChecksums \/ ReadSizes \/ CannotReadTable
    BY <1>5, WeakIsQuiet, StrongIsQuiet, SizesIsQuiet, CannotReadIsQuiet
  <1>6. CASE AnalyzeSeed \/ RebuildBlock \/ SkipBlock \/ CannotRebuildBlock
    BY <1>6, AnalyzeIsQuiet, RebuildIsQuiet, SkipIsQuiet, CannotRebuildIsQuiet
  <1>7. CASE Verify \/ CannotVerify
    BY <1>7, VerifyIsQuiet, CannotVerifyIsQuiet
  <1>8. CASE SyncWaitForever
    BY <1>8, WaitIsQuiet
  <1>9. CASE UNCHANGED allVars
    BY <1>9, StutterIsQuiet
  <1> QED
    BY <1>2, <1>3, <1>4, <1>5, <1>6, <1>7, <1>8, <1>9 DEF SystemNext, SyncStep

\* A sync that began when a publication was finished and that nobody disturbs delivers
\* the file, and does not fail unless zero bytes mislead it: the header, the tables, the
\* frames and the offsets of the two commands fit together (prepare_command.cc:234-267,
\* sync_command.cc:185-244).
THEOREM UndisturbedSyncsSucceed == System => []QuietSyncSucceeds
  <1>1. SystemInit => QuietInv
    <2> SUFFICES ASSUME SystemInit PROVE QuietInv
      OBVIOUS
    <2>1. SystemInv
      BY SystemStarts
    <2>2. QuietOK
      BY DEF SystemInit, InitSync, QuietOK
    <2> QED
      BY <2>1, <2>2 DEF QuietInv
  <1>2. QuietInv => QuietSyncSucceeds
    BY DEF QuietInv, QuietOK, Undisturbed, QuietSyncSucceeds
  <1> QED
    BY <1>1, <1>2, QuietStep, PTL DEF System
=============================================================================
