---------------------------- MODULE Reconstruct ----------------------------
(***************************************************************************)
(* Rebuilding the source: ReconstructSource, ReconstructSourceChunk and    *)
(* class ChunkReconstructor (src/commands/sync_command.cc:325-530), with   *)
(* the batched read of readers that have no better one (Reader::Read,      *)
(* src/readers/reader.cc:22-44).                                           *)
(*                                                                         *)
(* Every thread walks over the blocks of its chunk.  A block found in the  *)
(* seed is copied at once at the current position of the thread's output   *)
(* stream; any other block is queued with that position, the stream skips  *)
(* it, and the queue is read from the data file when it is full and at the *)
(* end.  A failed CHECK kills the process.  When all threads are over, the *)
(* output is read back and its hash compared.                              *)
(*                                                                         *)
(* Files are sequences of cells; the cell at offset o has index o + 1.  A  *)
(* cell of the source, the seed or the output is a byte.  A cell of the    *)
(* data file is <<contents, part, parts>>: part of the frame a block with  *)
(* these contents is compressed to, and decompressing succeeds on whole    *)
(* frames only; a byte b of uncompressed data is <<<<b>>, 1, 1>>.          *)
(***************************************************************************)
EXTENDS ChunkRanges, Files, FiniteSets

CONSTANTS
  Inputs,       \* what a run may start from: the files source (only its hash and
                \* size are known to the program), data, seed and old_output; size,
                \* block_size and compressed_sizes of the metadata; seed_offsets of
                \* the analysis; the options compressed, blocks_per_batch, threads;
                \* and genuine: data was prepared from source
  MaxThreads

\* Cells of the source, and cells of a data file.
Bytes == Seq(Int)
Cells == Seq((Bytes \ {<<>>}) \X Nat \X Nat)

\* The blocks of an input's source.
IndicesOf(x) == 0 .. BlockCount(x.size, x.block_size) - 1

\* sync_command.cc:212-222.
FrameStarts(x) ==
  LET f[i \in IndicesOf(x)] == IF i = 0 THEN 0 ELSE f[i - 1] + x.compressed_sizes[i - 1]
  IN f

\* The bytes of block i of the source.
SourceBlock(x, i) == ReadAt(x.source, i * x.block_size, x.block_size)

\* bytes, filled up with zeros to n of them: what is hashed for a block.
PaddedTo(n, bytes) == [j \in 1 .. n |-> IF j <= Len(bytes) THEN bytes[j] ELSE 0]

\* No frame of zstd is empty.  (A size of 0, which only metadata that no prepare has
\* written can announce, would make the loop of sync_command.cc:386 pass over the
\* member; module KySync has that case.)
ASSUME InputsAssumption ==
  /\ MaxThreads \in Nat
  /\ \A x \in Inputs :
       /\ {x.source, x.seed, x.old_output} \subseteq Bytes
       /\ x.data \in Cells
       /\ x.size = Len(x.source)
       /\ x.block_size \in Nat \ {0}
       /\ x.compressed_sizes \in [IndicesOf(x) -> Nat \ {0}]
       /\ x.seed_offsets \in [IndicesOf(x) -> Nat \union {-1}]
       /\ x.threads \in 1 .. MaxThreads
       /\ x.blocks_per_batch \in Nat
       /\ x.compressed \in BOOLEAN
       /\ x.genuine \in BOOLEAN

\* What SeedAnalysis hands over (SeedReuse: Sound): where a block is said to be
\* found, the seed holds it, both padded to the block size.
ASSUME SeedAssumption ==
  \A x \in Inputs : \A i \in IndicesOf(x) : x.seed_offsets[i] # -1 =>
    PaddedTo(x.block_size, ReadAt(x.seed, x.seed_offsets[i], x.block_size))
      = PaddedTo(x.block_size, SourceBlock(x, i))

\* What Prepare leaves behind (Prepare: DataIsAllFrames): the frames of the
\* blocks in their order, or the source itself.
ASSUME GenuineAssumption ==
  \A x \in Inputs : x.genuine =>
    IF x.compressed
    THEN \A i \in IndicesOf(x) :
           ReadAt(x.data, FrameStarts(x)[i], x.compressed_sizes[i])
             = [j \in 1 .. x.compressed_sizes[i] |->
                  <<SourceBlock(x, i), j, x.compressed_sizes[i]>>]
    ELSE x.data = [j \in 1 .. x.size |-> <<<<x.source[j]>>, 1, 1>>]

VARIABLES
  in,        \* the input: files, metadata and options; never changes
  status,    \* "running", "verifying", "ok" or "aborted"; "stuck" while StartNextPhase
             \* waits for a phase that never comes
  cause,     \* why the process aborted: the CHECK that failed
  output,    \* the output file
  pc,        \* where each thread is
  offset,    \* the loop variable of each thread
  tellp,     \* the position of each thread's output stream
  batch,     \* batched_retrieval_infos_ of each thread
  member,    \* the batch member a flushing thread handles next
  buffer,    \* the buffer of each thread's batched read
  reused, downloaded, decompressed, progress   \* metrics and progress_

counters == <<reused, downloaded, decompressed, progress>>
threadVars == <<pc, offset, tellp, batch, member, buffer>>
vars == <<in, status, cause, output, threadVars, counters>>

kInvalidOffset == -1

Call == [size |-> in.size, block |-> in.block_size, overlap |-> 0, threads |-> in.threads]
Threads == ThreadIds(Call)
ChunkEnd(t) == End(Call, t)

Blocks == BlockCount(in.size, in.block_size)
IndexAt(o) == o \div in.block_size

\* Plausible slip: the offsets are one block late.
OffsetsShifted ==
  LET f[i \in 0 .. Blocks - 1] == IF i = 0 THEN 0 ELSE f[i - 1] + in.compressed_sizes[i]
  IN f

compressed_file_offsets == FrameStarts(in)

\* sync_command.cc:325-332.
ExpectedSize(i) ==
  IF i < Blocks - 1 \/ in.size % in.block_size = 0
  THEN in.block_size ELSE in.size % in.block_size

\* Plausible slip: the sizes are not checked.
AnySize(i, count) == TRUE

SizeValid(i, count) == count = ExpectedSize(i)

-----------------------------------------------------------------------------

Init ==
  /\ in \in Inputs
  /\ status = "running"
  /\ cause = "none"
  /\ output = Resized(in.old_output, in.size, 0)
  /\ pc = [t \in Threads |-> "open"]
  /\ offset = [t \in Threads |-> Beg(Call, t)]
  /\ tellp = [t \in Threads |-> 0]
  /\ batch = [t \in Threads |-> <<>>]
  /\ member = [t \in Threads |-> 0]
  /\ buffer = [t \in Threads |-> <<>>]
  /\ reused = 0 /\ downloaded = 0 /\ decompressed = 0 /\ progress = 0

At(t, label) == status = "running" /\ pc[t] = label
Goto(t, label) == pc' = [pc EXCEPT ![t] = label]

Abort(why) ==
  /\ status' = "aborted"
  /\ cause' = why
  /\ UNCHANGED <<in, output, threadVars, counters>>

\* ValidateAndWrite (sync_command.cc:444-451) where the size check passes: the
\* stream writes at a position and stands behind the bytes afterwards.
Write(t, at, bytes) ==
  /\ output' = WriteAt(output, at, bytes, 0)
  /\ tellp' = [tellp EXCEPT ![t] = at + Len(bytes)]
  /\ progress' = progress + Len(bytes)

\* Constructor of ChunkReconstructor, sync_command.cc:453-463.
Open(t) ==
  /\ At(t, "open")
  /\ Goto(t, "loop")
  /\ tellp' = [tellp EXCEPT ![t] = Beg(Call, t)]
  /\ UNCHANGED <<in, status, cause, output, offset, batch, member, buffer, counters>>

\* Reader::Create throws (sync_command.cc:458-459) and Parallelize ignores it.
CannotOpen(t) ==
  /\ At(t, "open")
  /\ Goto(t, "threw")
  /\ UNCHANGED <<in, status, cause, output, offset, tellp, batch, member, buffer, counters>>

-----------------------------------------------------------------------------
(* The loop of ReconstructSourceChunk, sync_command.cc:480-490. *)

\* The block at the thread's offset, and the seed's copy of it.
Block(t) == IndexAt(offset[t])
InLoop(t) == At(t, "loop") /\ offset[t] < ChunkEnd(t)
FoundInSeed(t) == in.seed_offsets[Block(t)] # kInvalidOffset
SeedBytes(t) == ReadAt(in.seed, in.seed_offsets[Block(t)], in.block_size)

\* ReconstructFromSeed, sync_command.cc:465-472.
CopyFromSeed(t) ==
  /\ InLoop(t)
  /\ FoundInSeed(t)
  /\ SizeValid(Block(t), Len(SeedBytes(t)))
  /\ Write(t, tellp[t], SeedBytes(t))
  /\ reused' = reused + Len(SeedBytes(t))
  /\ offset' = [offset EXCEPT ![t] = @ + in.block_size]
  /\ UNCHANGED <<in, status, cause, pc, batch, member, buffer, downloaded, decompressed>>

\* The seed does not hold as many bytes as the block has: CHECK_EQ of
\* sync_command.cc:328 or 330.
SeedBlockHasWrongSize(t) ==
  /\ InLoop(t)
  /\ FoundInSeed(t)
  /\ ~SizeValid(Block(t), Len(SeedBytes(t)))
  /\ Abort("seed block size")

\* sync_command.cc:422-438.
RetrievalInfo(t) ==
  LET i == Block(t) IN
  [ block_index |-> i,
    begin |-> IF in.compressed THEN compressed_file_offsets[i] ELSE offset[t],
    size  |-> IF in.compressed THEN in.compressed_sizes[i]
              ELSE Min2(in.block_size, in.size - offset[t]),
    to    |-> tellp[t] ]

\* Plausible slip: the batch is flushed only when it has more than its size.
BatchOverfull(b) == Len(b) > in.blocks_per_batch

\* FlushBatch(false), sync_command.cc:398-401.
BatchFull(b) == Len(b) >= in.blocks_per_batch

\* Plausible slip: the stream is left where it was.
PositionKept(t) == tellp[t]

\* sync_command.cc:440-441.
PositionSkipped(t) == tellp[t] + in.block_size

\* EnqueueBlockRetrieval and FlushBatch(false), sync_command.cc:419-442 and 488.
Enqueue(t) ==
  LET b == Append(batch[t], RetrievalInfo(t)) IN
  /\ InLoop(t)
  /\ ~FoundInSeed(t)
  /\ batch' = [batch EXCEPT ![t] = b]
  /\ tellp' = [tellp EXCEPT ![t] = PositionSkipped(t)]
  /\ offset' = [offset EXCEPT ![t] = @ + in.block_size]
  /\ IF BatchFull(b)
     THEN Goto(t, "flush") /\ member' = [member EXCEPT ![t] = 1]
     ELSE UNCHANGED <<pc, member>>
  /\ buffer' = [buffer EXCEPT ![t] = <<>>]
  /\ UNCHANGED <<in, status, cause, output, counters>>

-----------------------------------------------------------------------------
(* FlushBatch: one member of the batch at a time. *)

\* What resize() fills the buffer with; part of no frame.
ZeroCell == <<<<0>>, 0, 0>>

Info(t) == batch[t][member[t]]

\* reader.cc:28-34: a read that is short leaves what an earlier member put into
\* the buffer, and zeros where there was none.
Received(t) ==
  LET got == ReadAt(in.data, Info(t).begin, Info(t).size)
      n == IF Len(buffer[t]) < Info(t).size THEN Info(t).size ELSE Len(buffer[t])
  IN [j \in 1 .. n |-> IF j <= Len(got) THEN got[j]
                       ELSE IF j <= Len(buffer[t]) THEN buffer[t][j] ELSE ZeroCell]

ReadCount(t) == Len(ReadAt(in.data, Info(t).begin, Info(t).size))

Payload(t) == SubSeq(Received(t), 1, Info(t).size)

\* A whole frame and nothing else, in order.
IsFrame(cells) ==
  /\ Len(cells) > 0
  /\ \A j \in 1 .. Len(cells) : cells[j] = <<cells[1][1], j, Len(cells)>>

\* What there is to write for the member (sync_command.cc:361-375).
Decodes(t) == in.compressed => IsFrame(Payload(t))
Decoded(t) ==
  IF in.compressed THEN Payload(t)[1][1]
  ELSE [j \in 1 .. Info(t).size |-> Payload(t)[j][1][1]]

\* Plausible slip: the stream is not moved to where the member belongs.
MemberPositionKept(t) == tellp[t]

\* sync_command.cc:362.
MemberPosition(t) == Info(t).to

\* The rest of the batch, or back to the loop with an empty one (line 415).
NextMember(t) ==
  IF member[t] < Len(batch[t])
  THEN /\ member' = [member EXCEPT ![t] = @ + 1]
       /\ buffer' = [buffer EXCEPT ![t] = Received(t)]
       /\ UNCHANGED <<pc, batch>>
  ELSE /\ member' = [member EXCEPT ![t] = 0]
       /\ buffer' = [buffer EXCEPT ![t] = <<>>]
       /\ batch' = [batch EXCEPT ![t] = <<>>]
       /\ Goto(t, "loop")

\* WriteRetrievedBatchMember, sync_command.cc:358-377.
FlushMember(t) ==
  /\ At(t, "flush")
  /\ Decodes(t)
  /\ SizeValid(Info(t).block_index, Len(Decoded(t)))
  /\ Write(t, MemberPosition(t), Decoded(t))
  /\ decompressed' = decompressed + IF in.compressed THEN Len(Decoded(t)) ELSE 0
  /\ downloaded' = downloaded + ReadCount(t)
  /\ NextMember(t)
  /\ UNCHANGED <<in, status, cause, offset, reused>>

\* sync_command.cc:338-353: zstd does not find a frame.
MemberNotAFrame(t) ==
  /\ At(t, "flush")
  /\ ~Decodes(t)
  /\ Abort("not compressed")

\* sync_command.cc:328 or 330 again.
MemberHasWrongSize(t) ==
  /\ At(t, "flush")
  /\ Decodes(t)
  /\ ~SizeValid(Info(t).block_index, Len(Decoded(t)))
  /\ Abort("data block size")

\* Plausible slip: the trailing batch is only flushed when it is full.
NothingTrailing(t) == batch[t] = <<>> \/ ~BatchFull(batch[t])

NothingQueued(t) == batch[t] = <<>>

\* Plausible slip: the loop only stops at the exact end of the chunk.
AtChunkEnd(t) == offset[t] = ChunkEnd(t)

\* sync_command.cc:480.
PastChunk(t) == offset[t] >= ChunkEnd(t)

\* FlushBatch(true), sync_command.cc:492.
FlushTrailing(t) ==
  /\ At(t, "loop")
  /\ PastChunk(t)
  /\ ~NothingQueued(t)
  /\ Goto(t, "flush")
  /\ member' = [member EXCEPT ![t] = 1]
  /\ UNCHANGED <<in, status, cause, output, offset, tellp, batch, buffer, counters>>

FinishChunk(t) ==
  /\ At(t, "loop")
  /\ PastChunk(t)
  /\ NothingQueued(t)
  /\ Goto(t, "done")
  /\ UNCHANGED <<in, status, cause, output, offset, tellp, batch, member, buffer, counters>>

-----------------------------------------------------------------------------
(* ReconstructSource. *)

\* Every future is ready (module Parallelize: JoinIsABarrier, CallReturns).
AllOver == \A t \in Threads : pc[t] \in {"done", "threw"}

\* Parallelize returns and the next phase is started, sync_command.cc:502-512.
Join ==
  /\ status = "running"
  /\ AllOver
  /\ status' = "verifying"
  /\ UNCHANGED <<in, cause, output, threadVars, counters>>

HashMatches == output = in.source

\* sync_command.cc:514-529.
Accept ==
  /\ status = "verifying"
  /\ HashMatches
  /\ status' = "ok"
  /\ UNCHANGED <<in, cause, output, threadVars, counters>>

Reject ==
  /\ status = "verifying"
  /\ ~HashMatches
  /\ Abort("hash")

\* The calls of StartNextPhase, sync_command.cc:499, 511 and 529.
AtPhaseStart ==
  \/ status = "running" /\ \A t \in Threads : pc[t] = "open"
  \/ status = "running" /\ AllOver
  \/ status = "verifying" /\ HashMatches

\* Before each of these calls returns, the observer has to answer it, and the command
\* may miss the answer (module PhaseHandshake: WaitEnds is violated).  It then spins for
\* ever, with the output as it is.
WaitForever ==
  /\ AtPhaseStart
  /\ status' = "stuck"
  /\ UNCHANGED <<in, cause, output, threadVars, counters>>

Step(t) ==
  \/ Open(t) \/ CopyFromSeed(t) \/ SeedBlockHasWrongSize(t) \/ Enqueue(t)
  \/ FlushMember(t) \/ MemberNotAFrame(t) \/ MemberHasWrongSize(t)
  \/ FlushTrailing(t) \/ FinishChunk(t)

Next ==
  \/ \E t \in Threads : Step(t) \/ CannotOpen(t)
  \/ Join \/ Accept \/ Reject
  \/ WaitForever

Spec == Init /\ [][Next]_vars

\* Every thread is scheduled; nothing obliges one to throw, or the command to miss
\* the observer's answer.
FairSpec ==
  /\ Spec
  /\ \A t \in 0 .. MaxThreads - 1 : WF_vars(t \in Threads /\ Step(t))
  /\ WF_vars(Join \/ Accept \/ Reject)

-----------------------------------------------------------------------------
(* Properties. *)

Labels == {"open", "loop", "flush", "done", "threw"}

\* Positions never become negative; a flushing thread always has a member to flush,
\* and one that is over has nothing queued (sync_command.cc:492).
TypeOK ==
  /\ status \in {"running", "verifying", "ok", "aborted", "stuck"}
  /\ cause \in {"none", "seed block size", "data block size", "not compressed", "hash"}
  /\ pc \in [Threads -> Labels]
  /\ \A t \in Threads :
       /\ {offset[t], tellp[t]} \subseteq Nat
       /\ pc[t] = "flush" => member[t] \in 1 .. Len(batch[t])
       /\ pc[t] \in {"done", "threw"} => batch[t] = <<>>
  /\ {reused, downloaded, decompressed, progress} \subseteq Nat

\* ReconstructFromSeed writes wherever the stream stands and never seeks
\* (sync_command.cc:465-472), while queueing skips a block and flushing jumps
\* back and forth: still, whenever a thread takes up a block of its loop its
\* stream stands at the first byte of that block.
PositionTracksOffset ==
  \A t \in Threads :
    pc[t] = "loop" /\ offset[t] < ChunkEnd(t) => tellp[t] = offset[t]

\* Whatever the data file holds, nothing is written behind the end the output was
\* resized to (sync_command.cc:553).  The seed offsets are sound (SeedAssumption).
OutputKeepsSize == Len(output) = in.size

\* At most num_blocks_in_batch blocks (and at least one) are ever requested with
\* one read: the HTTP reader puts them all into one range header.  The option is not
\* negative: as a size_t (sync_command.cc:399) a negative one would exceed any batch.
BatchBounded ==
  \A t \in Threads :
    Len(batch[t]) <= IF in.blocks_per_batch = 0 THEN 1 ELSE in.blocks_per_batch

\* With the data file of this source, no write ever changes a byte of the output
\* to anything but the source's: blocks copied, queued and flushed in any
\* interleaving of the threads never end up in each other's place.
OnlySourceBytes ==
  [][in.genuine => \A j \in DOMAIN output : output'[j] \in {output[j], in.source[j]}]_vars

ZeroFree ==
  /\ \A j \in DOMAIN in.source : in.source[j] # 0
  /\ \A j \in DOMAIN in.seed : in.seed[j] # 0

\* With the data file of this source, and no zero byte in source and seed, the
\* only way to fail is that a task could not open its files: no CHECK of a size
\* fails, every frame is whole, and the output has the right hash.
NoSpuriousFailure ==
  in.genuine /\ ZeroFree /\ status = "aborted" =>
    cause = "hash" /\ \E t \in Threads : pc[t] = "threw"

\* CHECK_EQ(count, block_size_) and CHECK_EQ(count, size_ % block_size_)
\* (sync_command.cc:328 and 330) hold of every block that is copied or decoded.
SizeChecksHold ==
  in.genuine => cause \notin {"seed block size", "data block size"}

\* When a run without failed tasks succeeds, the blocks found in the seed are
\* exactly the reused ones, the progress has reached the announced total
\* (sync_command.cc:497-499), and every other byte of the source has been counted
\* once as decompressed.  Uncompressed data is counted when it is read, before its
\* size is looked at: never too much, and all of it when the data file is the
\* source's.  (One that is cut short can still give the right output: what a short
\* read leaves in the buffer, reader.cc:27-41, may happen to be right.)
BytesAccounted ==
  status = "ok" /\ (\A t \in Threads : pc[t] # "threw") =>
    LET found == {i \in 0 .. Blocks - 1 : in.seed_offsets[i] # kInvalidOffset}
        short == in.size % in.block_size
        sizes == Cardinality(found) * in.block_size
                 - IF short # 0 /\ Blocks - 1 \in found THEN in.block_size - short ELSE 0
    IN /\ reused = sizes
       /\ progress = in.size
       /\ IF in.compressed THEN reused + decompressed = in.size
          ELSE /\ reused + downloaded <= in.size
               /\ in.genuine => reused + downloaded = in.size

\* However threads that queue, flush, throw or abort are scheduled, no block and no
\* trailing batch keeps a run from its end (sync_command.cc:480-530): it is over, or a
\* call of StartNextPhase never returns (observable.cc:42).
RunEnds == <>(status \in {"ok", "aborted", "stuck"})
=============================================================================
