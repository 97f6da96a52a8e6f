------------------------------ MODULE Prepare ------------------------------
(***************************************************************************)
(* The prepare command (src/commands/prepare_command.cc).                  *)
(*                                                                         *)
(* The threads of Parallelize checksum and compress the blocks of their    *)
(* chunks and write every frame to a slot of its own in the data file.     *)
(* Then the frames are moved together in place: one stream reads the slots *)
(* of the file, another one writes the frames back to back into the same   *)
(* file.  The file is cut to what was written, and the metadata file is    *)
(* written last.                                                           *)
(*                                                                         *)
(* Streams are buffered: what a thread wrote reaches the file when it      *)
(* seeks again or closes the stream; what the compacting stream and the    *)
(* stream of the metadata file wrote reaches the files at times of the     *)
(* library's choosing.  The process may                                    *)
(* die between any two steps and be run again over the files it left       *)
(* behind, or be run again for a newer input.                              *)
(*                                                                         *)
(* A cell of the data file is <<contents, part, parts>>, part of the frame *)
(* a block with these contents is compressed to.                           *)
(***************************************************************************)
EXTENDS ChunkRanges, Metadata

CONSTANTS
  Runs,        \* the runs there may be: [input, block_size, slot_size, threads],
               \* slot_size being max_compressed_block_size_
  MaxThreads,  \* the largest thread count among them
  FrameSize,   \* FrameSize[v]: the size of the frame of a block v
  OldFiles,    \* what the data file may hold before the first run
  MaxReruns    \* how often the command is run again

\* What a file has where nothing was ever written, and what a cell may be.
Hole == <<>>
Cells == (Seq(Int) \X Nat \X Nat) \cup {Hole}

ASSUME RunsAssumption ==
  /\ MaxThreads \in Nat /\ MaxReruns \in Nat
  /\ \A v \in DOMAIN FrameSize : v \in Seq(Int) /\ FrameSize[v] \in Nat \ {0}
  /\ \A file \in OldFiles : file \in Seq(Cells)
  /\ \A r \in Runs :
       /\ r.input \in Seq(Int)
       /\ r.block_size \in Nat \ {0}
       /\ r.slot_size \in Nat
       /\ r.threads \in 1 .. MaxThreads
       /\ \A o \in 0 .. Len(r.input) :
            LET v == ReadAt(r.input, o, r.block_size)
            IN o < Len(r.input) => v \in DOMAIN FrameSize /\ FrameSize[v] <= r.slot_size

VARIABLES
  run,        \* the run being executed
  reruns,     \* how many there were before
  stage,      \* "preparing", "compacting", "metadata", "flushing", "closing" or "done";
              \* "stuck" while StartNextPhase waits for a phase that never comes
  data,       \* the data file: output_compressed_file_path
  ksync,      \* the metadata file ...
  ksync_buffer, \* ... and what the stream that writes it still holds
  offset,     \* current_offset of each thread
  open,       \* the threads whose ChunkPreparer has still its stream open
  unflushed,  \* the last write of each thread's stream: [at, cells]
  checksums,  \* weak_checksums_ and strong_checksums_: the padded block
  compressed_sizes,
  compressed_bytes,
  next,       \* i of the compacting loop
  out_at,     \* how far the compacting stream has reached the file ...
  out_buffer, \* ... and what it still holds
  hashed,     \* the bytes that went into the hash
  progress, total

files == <<data, ksync, ksync_buffer>>
threadVars == <<offset, open, unflushed>>
tables == <<checksums, compressed_sizes, compressed_bytes>>
compaction == <<next, out_at, out_buffer, hashed>>
vars == <<run, reruns, stage, files, threadVars, tables, compaction, progress, total>>

\* A stream that holds nothing.
Unwritten == [at |-> 0, cells |-> <<>>]

CallOf(r) ==
  [size |-> Len(r.input), block |-> r.block_size, overlap |-> 0, threads |-> r.threads]
IndicesOf(r) == 0 .. BlockCount(Len(r.input), r.block_size) - 1

Size == Len(run.input)
Call == CallOf(run)
Threads == ThreadIds(Call)
Blocks == BlockCount(Size, run.block_size)
Indices == IndicesOf(run)

\* The block the tables describe at an index, without and with the padding.
Block(i) == ReadAt(run.input, i * run.block_size, run.block_size)
Padded(v) == [j \in 1 .. run.block_size |-> IF j <= Len(v) THEN v[j] ELSE 0]

Frame(v) == [j \in 1 .. FrameSize[v] |-> <<v, j, FrameSize[v]>>]

\* Plausible slips: the slots are as large as a block; the first one is left out.
SlotOfBlockSize(i) == i * run.block_size
SlotOneLate(i) == (i + 1) * run.slot_size

\* prepare_command.cc:157 and 235.
SlotStart(i) == i * run.slot_size

-----------------------------------------------------------------------------

\* The start of Run, prepare_command.cc:198-218.
NoBlockPrepared(r) ==
  [ offset |-> [t \in ThreadIds(CallOf(r)) |-> Beg(CallOf(r), t)],
    unflushed |-> [t \in ThreadIds(CallOf(r)) |-> Unwritten],
    checksums |-> [i \in IndicesOf(r) |-> <<>>],
    sizes |-> [i \in IndicesOf(r) |-> 0] ]

Init ==
  /\ run \in Runs
  /\ reruns = 0
  /\ stage = "preparing"
  /\ data \in OldFiles /\ ksync = <<>> /\ ksync_buffer = <<>>
  /\ offset = NoBlockPrepared(run).offset
  /\ open = Threads
  /\ unflushed = NoBlockPrepared(run).unflushed
  /\ checksums = NoBlockPrepared(run).checksums
  /\ compressed_sizes = NoBlockPrepared(run).sizes
  /\ compressed_bytes = 0
  /\ next = 0 /\ out_at = 0 /\ out_buffer = <<>> /\ hashed = <<>>
  /\ progress = 0
  /\ total = Size

\* The process has ended or died, and is run again on this or on a newer input;
\* the files are as it left them, because FileStreamProvider does not truncate
\* (file_stream_provider.cc:8-26).
Rerun ==
  /\ reruns < MaxReruns
  /\ reruns' = reruns + 1
  /\ run' \in Runs
  /\ stage' = "preparing"
  /\ offset' = NoBlockPrepared(run').offset
  /\ open' = ThreadIds(CallOf(run'))
  /\ unflushed' = NoBlockPrepared(run').unflushed
  /\ checksums' = NoBlockPrepared(run').checksums
  /\ compressed_sizes' = NoBlockPrepared(run').sizes
  /\ compressed_bytes' = 0
  /\ next' = 0 /\ out_at' = 0 /\ out_buffer' = <<>> /\ hashed' = <<>>
  /\ progress' = 0
  /\ total' = Len(run'.input)
  /\ ksync_buffer' = <<>>
  /\ UNCHANGED <<data, ksync>>

-----------------------------------------------------------------------------
(* ChunkPreparer: prepare_command.cc:113-181. *)

\* The data file once thread t's stream has written what it holds.
Flushed(t) == WriteAt(data, unflushed[t].at, unflushed[t].cells, Hole)

\* Plausible slip: a short last block counts as a whole one.
WholeBlock(v) == run.block_size

\* prepare_command.cc:138.
BytesRead(v) == Len(v)

\* Plausible slip: the loop only stops at the exact end of the chunk.
AtChunkEnd(t) == offset[t] = End(Call, t)

\* prepare_command.cc:121.
PastChunk(t) == offset[t] >= End(Call, t)

\* One turn of the loop.  The seek to the slot flushes what the stream holds.
PrepareBlock(t) ==
  LET i == offset[t] \div run.block_size
      v == ReadAt(run.input, offset[t], Min2(run.block_size, End(Call, t) - offset[t]))
  IN
  /\ stage = "preparing"
  /\ t \in open
  /\ offset[t] < End(Call, t)
  /\ checksums' = [checksums EXCEPT ![i] = Padded(v)]
  /\ data' = Flushed(t)
  /\ unflushed' =
       [unflushed EXCEPT ![t] = [at |-> SlotStart(i), cells |-> Frame(v)]]
  /\ compressed_sizes' = [compressed_sizes EXCEPT ![i] = FrameSize[v]]
  /\ compressed_bytes' = compressed_bytes + FrameSize[v]
  /\ progress' = progress + BytesRead(v)
  /\ offset' = [offset EXCEPT ![t] = @ + run.block_size]
  /\ UNCHANGED <<run, reruns, stage, ksync, ksync_buffer, open, compaction, total>>

\* The loop is over and the ChunkPreparer with its stream is destroyed.
CloseChunk(t) ==
  /\ stage = "preparing"
  /\ t \in open
  /\ PastChunk(t)
  /\ data' = Flushed(t)
  /\ open' = open \ {t}
  /\ UNCHANGED <<run, reruns, stage, ksync, ksync_buffer, offset, unflushed, tables,
                 compaction, progress, total>>

-----------------------------------------------------------------------------
(* The rest of Run: prepare_command.cc:220-270. *)

\* Plausible slip: the phases overlap.
SomeClosed == open # Threads

\* Parallelize returns (module Parallelize: JoinIsABarrier, CallReturns).
AllClosed == open = {}

\* prepare_command.cc:220-232.
StartCompaction ==
  /\ stage = "preparing"
  /\ AllClosed
  /\ stage' = "compacting"
  /\ progress' = 0
  /\ total' = Size + 2 * compressed_bytes
  /\ UNCHANGED <<run, reruns, files, threadVars, tables, compaction>>

\* prepare_command.cc:235-236.
InSlot(i) == ReadAt(data, SlotStart(i), compressed_sizes[i])

\* One turn of the loop, prepare_command.cc:234-246.  A short read fails the
\* CHECK of line 238 and ends the process: there is no step then.
CompactBlock ==
  LET v == Block(next) IN
  /\ stage = "compacting"
  /\ next < Blocks
  /\ Len(InSlot(next)) >= compressed_sizes[next]
  /\ out_buffer' = out_buffer \o InSlot(next)
  /\ hashed' = hashed \o v
  /\ next' = next + 1
  /\ progress' = progress + Len(v) + 2 * compressed_sizes[next]
  /\ UNCHANGED <<run, reruns, stage, files, threadVars, tables, out_at, total>>

\* The stream's buffer is full, or a write bypasses it.
WriteOut ==
  /\ stage = "compacting"
  /\ \E n \in 1 .. Len(out_buffer) :
       /\ data' = WriteAt(data, out_at, SubSeq(out_buffer, 1, n), Hole)
       /\ out_at' = out_at + n
       /\ out_buffer' = SubSeq(out_buffer, n + 1, Len(out_buffer))
  /\ UNCHANGED <<run, reruns, stage, ksync, ksync_buffer, threadVars, tables, next,
                 hashed, progress, total>>

\* Plausible slip: the file is not cut.
NotCut == data

\* prepare_command.cc:248: tellp() counts what the stream still holds.
CutToOutput == Resized(data, out_at + Len(out_buffer), Hole)

\* prepare_command.cc:248-253: opening the metadata file truncates it.
FinishCompaction ==
  /\ stage = "compacting"
  /\ next = Blocks
  /\ data' = CutToOutput
  /\ ksync' = <<>>
  /\ stage' = "metadata"
  /\ UNCHANGED <<run, reruns, ksync_buffer, threadVars, tables, compaction, progress, total>>

\* The metadata of this run.
Metadata ==
  MetadataFile([size |-> Size, block_size |-> run.block_size, hash |-> Digest(hashed)],
               checksums, compressed_sizes, Blocks)

\* prepare_command.cc:255-267.  What WriteHeader returns leaves out the length that
\* delimits the header.
WriteMetadata ==
  /\ stage = "metadata"
  /\ ksync_buffer' = Metadata
  /\ stage' = "flushing"
  /\ progress' = Len(Metadata) - 1
  /\ total' = 1
  /\ UNCHANGED <<run, reruns, data, ksync, threadVars, tables, compaction>>

\* The stream's buffer is full, or a write bypasses it.
FlushMetadata ==
  /\ stage = "flushing"
  /\ \E n \in 1 .. Len(ksync_buffer) :
       /\ ksync' = ksync \o SubSeq(ksync_buffer, 1, n)
       /\ ksync_buffer' = SubSeq(ksync_buffer, n + 1, Len(ksync_buffer))
  /\ UNCHANGED <<run, reruns, stage, data, threadVars, tables, compaction, progress, total>>

\* prepare_command.cc:269-270; output_ksync is the first stream to be destroyed.
CloseMetadata ==
  /\ stage = "flushing"
  /\ ksync' = ksync \o ksync_buffer
  /\ ksync_buffer' = <<>>
  /\ stage' = "closing"
  /\ progress' = 0
  /\ total' = 0
  /\ UNCHANGED <<run, reruns, data, threadVars, tables, compaction>>

\* Plausible slip: the buffer never reaches the file.
NotFlushed == data

\* What the compacting stream writes when it is destroyed.
RestWritten == WriteAt(data, out_at, out_buffer, Hole)

CloseOutput ==
  /\ stage = "closing"
  /\ data' = RestWritten
  /\ stage' = "done"
  /\ UNCHANGED <<run, reruns, ksync, ksync_buffer, threadVars, tables, compaction,
                 progress, total>>

-----------------------------------------------------------------------------
(* The calls of StartNextPhase: prepare_command.cc:201, 227, 255 and 269. *)

AtPhaseStart ==
  \/ stage = "preparing" /\ open = Threads /\ offset = NoBlockPrepared(run).offset
  \/ stage = "preparing" /\ AllClosed
  \/ stage \in {"metadata", "flushing"}

\* Before each of these calls returns, the observer has to answer it, and the command
\* may miss the answer (module PhaseHandshake: WaitEnds is violated).  It then spins for
\* ever; its streams stay open, with what they hold.
WaitForever ==
  /\ AtPhaseStart
  /\ stage' = "stuck"
  /\ UNCHANGED <<run, reruns, files, threadVars, tables, compaction, progress, total>>

Work ==
  \/ \E t \in Threads : PrepareBlock(t) \/ CloseChunk(t)
  \/ StartCompaction \/ CompactBlock \/ WriteOut \/ FinishCompaction
  \/ WriteMetadata \/ FlushMetadata \/ CloseMetadata \/ CloseOutput
  \/ WaitForever

Next == Work \/ Rerun

Spec == Init /\ [][Next]_vars

\* The threads are scheduled and the main thread goes on, unless it is stuck.
\* Nothing obliges it to miss the observer's answer, a buffer to be written early,
\* or anybody to run the command again.
FairSpec ==
  /\ Spec
  /\ \A t \in 0 .. MaxThreads - 1 :
       WF_vars(t \in Threads /\ (PrepareBlock(t) \/ CloseChunk(t)))
  /\ WF_vars(StartCompaction \/ CompactBlock \/ FinishCompaction
             \/ WriteMetadata \/ CloseMetadata \/ CloseOutput)

-----------------------------------------------------------------------------
(* Properties. *)

\* No stream ever writes behind the last slot, and the tables keep one entry per
\* block of the input (prepare_command.cc:207-216).
TypeOK ==
  /\ run \in Runs
  /\ reruns \in 0 .. MaxReruns
  /\ stage \in {"preparing", "compacting", "metadata", "flushing", "closing", "done", "stuck"}
  /\ open \subseteq Threads
  /\ offset \in [Threads -> Nat]
  /\ \A t \in Threads :
       unflushed[t].at + Len(unflushed[t].cells) <= Blocks * run.slot_size
  /\ DOMAIN checksums = Indices
  /\ compressed_sizes \in [Indices -> 0 .. run.slot_size]
  /\ next \in 0 .. Blocks
  /\ {compressed_bytes, out_at, progress, total} \subseteq Nat

\* Every block in order: what the data file shall be.
AllFrames ==
  LET upto[i \in 0 .. Blocks] == IF i = 0 THEN <<>> ELSE upto[i - 1] \o Frame(Block(i - 1))
  IN upto[Blocks]

\* The frames are moved within one file by two streams, one of them buffered:
\* whenever the loop comes to a slot, whatever the earlier frames have
\* overwritten by then, the slot still holds the frame of its block.
SlotsSurvive ==
  stage = "compacting" =>
    \A i \in next .. Blocks - 1 : ReadAt(data, SlotStart(i), FrameSize[Block(i)]) = Frame(Block(i))

\* A run that ends leaves the frames of its input, back to back and nothing
\* else, whatever an older or interrupted run had left in the file.
DataIsAllFrames == stage = "done" => data = AllFrames

\* A run that ends leaves metadata that describe its input: each block by the
\* thread that prepared it, and the hash of the whole, taken in a second pass over
\* the input (prepare_command.cc:242-243); nothing of an older file is left.
MetadataDescribesInput ==
  stage \in {"closing", "done"} =>
    ksync = MetadataFile(
              [size |-> Size, block_size |-> run.block_size, hash |-> Digest(run.input)],
              [i \in Indices |-> Padded(Block(i))],
              [i \in Indices |-> FrameSize[Block(i)]], Blocks)

\* The progress of the two long phases ends at the announced total
\* (prepare_command.cc:201 and 227).
ProgressReachesTotal ==
  \/ stage = "preparing" /\ AllClosed
  \/ stage = "compacting" /\ next = Blocks
  => progress = total

\* Nothing of the metadata reaches the file before the data file has its final
\* length and every frame is in its place, but for the tail that the compacting
\* stream still holds: a process that dies then leaves no more than that missing.
MetadataComesLast ==
  [][ksync' # ksync /\ ksync' # <<>> =>
       /\ Len(data) = Len(AllFrames)
       /\ SubSeq(data, 1, out_at) = SubSeq(AllFrames, 1, out_at)]_vars

\* However its threads are scheduled and however often it is killed and run again,
\* a run comes to its end (prepare_command.cc:198-271), unless a call of
\* StartNextPhase never returns (observable.cc:42): a "done" state, or that one.
PrepareEnds == <>[](stage \in {"done", "stuck"})
=============================================================================
