---------------------------- MODULE ChunkRanges ----------------------------
(***************************************************************************)
(* How ky::parallelize::Parallelize (kylibs/parallelize/parallelize.cc)    *)
(* cuts data_size bytes into one range [beg, end) per thread.  Preparing,  *)
(* analysing the seed and reconstructing the source all run on these       *)
(* ranges, so the operators are shared by the modules of those phases.     *)
(*                                                                         *)
(* A call is a record [size, block, overlap, threads] of the arguments.    *)
(***************************************************************************)
EXTENDS Integers

IsCall(call) ==
  /\ call.size \in Nat
  /\ call.block \in Nat \ {0}
  /\ call.overlap \in Nat
  /\ call.threads \in Nat \ {0}

Min2(a, b) == IF a <= b THEN a ELSE b

\* The rounding-up division the code spells (a + b - 1) / b.
CeilDiv(a, b) == (a + b - 1) \div b

\* parallelize.cc:15, also prepare_command.cc:203 and sync_command.cc:194.
BlockCount(size, block) == CeilDiv(size, block)

\* parallelize.cc:16, before the small-size correction.
RawChunk(call) == CeilDiv(BlockCount(call.size, call.block), call.threads)

\* parallelize.cc:18: fewer than two blocks per thread are not worth a thread.
TooSmall(call) == RawChunk(call) < 2

\* Plausible slip: parallelism is switched off but the chunk is not widened.
ChunkNotWidened(call) == RawChunk(call)

ThreadCount(call) == IF TooSmall(call) THEN 1 ELSE call.threads

\* Blocks per thread.
Chunk(call) ==
  IF TooSmall(call) THEN BlockCount(call.size, call.block) ELSE RawChunk(call)

ThreadIds(call) == 0 .. ThreadCount(call) - 1

Beg(call, id) == id * Chunk(call) * call.block

\* Plausible slip: the overlap argument is dropped.
EndWithoutOverlap(call, id) ==
  Min2((id + 1) * Chunk(call) * call.block, call.size)

\* Plausible slip: the end is not clamped to the data size.
EndUnclamped(call, id) ==
  (id + 1) * Chunk(call) * call.block + call.overlap

End(call, id) ==
  Min2((id + 1) * Chunk(call) * call.block + call.overlap, call.size)

\* The first byte of every block of a file of the given size.
BlockStarts(size, block) == {k * block : k \in 0 .. BlockCount(size, block) - 1}
=============================================================================
