---------------------------- MODULE SeedAnalysis ----------------------------
(***************************************************************************)
(* Reading the metadata and analysing the seed:                            *)
(* SyncCommandImpl::ReadMetadata, AnalyzeSeedChunk and AnalyzeSeed         *)
(* (src/commands/sync_command.cc:224-323).                                 *)
(*                                                                         *)
(* Every thread slides a window of block_size bytes over its chunk of the  *)
(* seed and looks for blocks of the source.  The bitset set_, the map      *)
(* analysis_ and the vector seed_offsets_ are shared by the threads and    *)
(* not locked, so a match is several steps: clearing a bit of the bitset   *)
(* reads a word, which holds the bits of other checksums too, and writes   *)
(* it back.                                                                *)
(*                                                                         *)
(* The contents of a window or a block is one value; WeakChecksum maps     *)
(* values to weak checksums (collisions included) and a strong checksum    *)
(* identifies its value.                                                   *)
(***************************************************************************)
EXTENDS ChunkRanges, FiniteSets

CONSTANTS
  Inputs,   \* the records of input variables to start from
  MaxThreads,   \* the largest number of threads among them
  Weak,     \* Weak[v]: the weak checksum of the contents v
  Word      \* Word[w]: the word of the bitset that holds the bit of w

ASSUME InputsAssumption ==
  /\ MaxThreads \in Nat
  /\ \A in \in Inputs :
       /\ in.block_count \in Nat /\ in.seed_size \in Nat
       /\ in.blocks \in [0 .. in.block_count - 1 -> DOMAIN Weak]
       /\ in.windows \in [0 .. in.seed_size - 1 -> DOMAIN Weak]
       /\ in.block_size \in Nat \ {0}
       /\ in.threads \in 1 .. MaxThreads

\* set_ has a bit for every value of a checksum (sync_command.cc:64).
ASSUME WordAssumption == \A v \in DOMAIN Weak : Weak[v] \in DOMAIN Word

\* sync_command.cc:56.
kInvalidOffset == -1

VARIABLES
  blocks, block_count,   \* contents and number of the blocks of the source
  windows, seed_size,    \* contents of the seed from each offset on, its size
  block_size, threads,
  stage,          \* "metadata", "analysis" or "joined"
  set,            \* set_: the weak checksums whose bit is set
  index,          \* index[w]: analysis_[w].index
  analysis,       \* analysis[w]: analysis_[w].seed_offset
  seed_offsets,   \* seed_offsets_
  weak_matches, strong_matches, false_positives,   \* the three metrics
  progress,       \* progress_ of this phase
  pc, pos, warmup, word,   \* of each thread; pos is seed_offset + offset
  matches         \* history: [thread, offset, wcs] of every match so far

input == <<blocks, block_count, windows, seed_size, block_size, threads>>
shared == <<set, index, analysis, seed_offsets>>
metrics == <<weak_matches, strong_matches, false_positives, progress>>
local == <<pc, pos, warmup, word>>
vars == <<input, stage, shared, metrics, local, matches>>

Indices == 0 .. block_count - 1
SeedRange == 0 .. seed_size - 1

\* Plausible slip: the seed is cut like the source, without an overlap.
CallWithoutOverlap ==
  [size |-> seed_size, block |-> block_size, overlap |-> 0, threads |-> threads]

\* sync_command.cc:315-319.
Call ==
  [size |-> seed_size, block |-> block_size, overlap |-> block_size, threads |-> threads]

Threads == ThreadIds(Call)
ChunkBeg(t) == Beg(Call, t)
ChunkEnd(t) == End(Call, t)

\* seed_offset of the read that brings in the last byte of the window at o.
ReadOf(t, o) == ChunkBeg(t) + CeilDiv(o - ChunkBeg(t), block_size) * block_size

\* The windows thread t looks at, unless a match makes it skip them.
Examined(t) == {o \in SeedRange : o >= ChunkBeg(t) /\ ReadOf(t, o) < ChunkEnd(t)}

WordBits(w) == {v \in DOMAIN Word : Word[v] = Word[w]}

\* sync_command.cc:259 and 281: the windows that overlap what was just matched.
FullWarmup == block_size - 1

WcsAt(t) == Weak[windows[pos[t]]]

-----------------------------------------------------------------------------

Init ==
  /\ \E in \in Inputs :
       /\ blocks = in.blocks /\ block_count = in.block_count
       /\ windows = in.windows /\ seed_size = in.seed_size
       /\ block_size = in.block_size /\ threads = in.threads
  /\ stage = "metadata"
  /\ set = {}
  /\ index = <<>>
  /\ analysis = <<>>
  /\ seed_offsets = [i \in Indices |-> kInvalidOffset]
  /\ weak_matches = 0 /\ strong_matches = 0 /\ false_positives = 0
  /\ progress = 0
  /\ pc = <<>> /\ pos = <<>> /\ warmup = <<>> /\ word = <<>>
  /\ matches = {}

\* sync_command.cc:238-243, the last block with a weak checksum wins, and the
\* launch of the tasks with the locals of sync_command.cc:257-261: the first
\* window that is looked at must have been filled with block_size bytes.
ReadMetadata ==
  LET wcs == {Weak[blocks[i]] : i \in Indices} IN
  /\ stage = "metadata"
  /\ stage' = "analysis"
  /\ set' = wcs
  /\ index' = [w \in wcs |->
                 CHOOSE i \in Indices : /\ Weak[blocks[i]] = w
                                        /\ \A j \in Indices : Weak[blocks[j]] = w => j <= i]
  /\ analysis' = [w \in wcs |-> kInvalidOffset]
  /\ pc' = [t \in Threads |-> "scan"]
  /\ pos' = [t \in Threads |-> ChunkBeg(t) - (block_size - 1)]
  /\ warmup' = [t \in Threads |-> FullWarmup]
  /\ word' = [t \in Threads |-> {}]
  /\ UNCHANGED <<input, seed_offsets, metrics, matches>>

-----------------------------------------------------------------------------
(* One call of the callback of sync_command.cc:265-289, in steps. *)

InLoop(t) == pc[t] = "scan" /\ ReadOf(t, pos[t]) < ChunkEnd(t)

\* --warmup; only its sign is ever looked at, so it stops at -1.
Decremented(n) == IF n >= 0 THEN n - 1 ELSE -1

\* sync_command.cc:269.
Candidate(t) ==
  Decremented(warmup[t]) < 0 /\ pos[t] < seed_size /\ WcsAt(t) \in set

\* The callback returns; the last one of a read is followed by line 304.
Slide(t) ==
  /\ pos' = [pos EXCEPT ![t] = @ + 1]
  /\ progress' = IF pos[t] = ReadOf(t, pos[t]) THEN progress + block_size ELSE progress

\* Plausible slip: the strong checksums are not compared.
SameWeakChecksum(t) == TRUE

\* sync_command.cc:273-279.
SameContents(t) == blocks[index[WcsAt(t)]] = windows[pos[t]]

\* Plausible slips: the bit is not cleared; the whole word is.
WordUnchanged(t) == word[t]
WordEmptied(t) == {}

\* sync_command.cc:280.
WordWithoutBit(t) == word[t] \ {WcsAt(t)}

\* Plausible slip: only analysis_ is written.
OffsetNotStored(t) == {seed_offsets[index[WcsAt(t)]]}

\* sync_command.cc:284: data.seed_offset may be what this thread has just
\* stored or what another thread has stored since.
OffsetsToStore(t) == {pos[t], analysis[WcsAt(t)]}

Pass(t) ==
  /\ InLoop(t)
  /\ ~Candidate(t)
  /\ Slide(t)
  /\ warmup' = [warmup EXCEPT ![t] = Decremented(@)]
  /\ UNCHANGED <<input, stage, shared, weak_matches, strong_matches, false_positives,
                 pc, word, matches>>

\* sync_command.cc:270-279 and 286.
FalsePositive(t) ==
  /\ InLoop(t)
  /\ Candidate(t)
  /\ ~SameContents(t)
  /\ Slide(t)
  /\ warmup' = [warmup EXCEPT ![t] = Decremented(@)]
  /\ weak_matches' = weak_matches + 1
  /\ false_positives' = false_positives + 1
  /\ UNCHANGED <<input, stage, shared, strong_matches, pc, word, matches>>

\* sync_command.cc:270-279.
Match(t) ==
  /\ InLoop(t)
  /\ Candidate(t)
  /\ SameContents(t)
  /\ weak_matches' = weak_matches + 1
  /\ matches' = matches \union {[thread |-> t, offset |-> pos[t], wcs |-> WcsAt(t)]}
  /\ pc' = [pc EXCEPT ![t] = "clear"]
  /\ UNCHANGED <<input, stage, shared, strong_matches, false_positives, progress,
                 pos, warmup, word>>

\* sync_command.cc:280 loads the word of the bit ...
LoadWord(t) ==
  /\ pc[t] = "clear"
  /\ word' = [word EXCEPT ![t] = set \intersect WordBits(WcsAt(t))]
  /\ pc' = [pc EXCEPT ![t] = "storeWord"]
  /\ UNCHANGED <<input, stage, shared, metrics, pos, warmup, matches>>

\* ... and stores it without the bit; then line 281.
StoreWord(t) ==
  /\ pc[t] = "storeWord"
  /\ set' = (set \ WordBits(WcsAt(t))) \union WordWithoutBit(t)
  /\ warmup' = [warmup EXCEPT ![t] = FullWarmup]
  /\ pc' = [pc EXCEPT ![t] = "storeAnalysis"]
  /\ UNCHANGED <<input, stage, index, analysis, seed_offsets, metrics, pos, word, matches>>

\* sync_command.cc:282-283.
StoreAnalysis(t) ==
  /\ pc[t] = "storeAnalysis"
  /\ strong_matches' = strong_matches + 1
  /\ analysis' = [analysis EXCEPT ![WcsAt(t)] = pos[t]]
  /\ pc' = [pc EXCEPT ![t] = "storeOffset"]
  /\ UNCHANGED <<input, stage, set, index, seed_offsets, weak_matches, false_positives,
                 progress, pos, warmup, word, matches>>

StoreOffset(t) ==
  /\ pc[t] = "storeOffset"
  /\ \E o \in OffsetsToStore(t) :
       seed_offsets' = [seed_offsets EXCEPT ![index[WcsAt(t)]] = o]
  /\ pc' = [pc EXCEPT ![t] = "scan"]
  /\ Slide(t)
  /\ UNCHANGED <<input, stage, set, index, analysis, weak_matches, strong_matches,
                 false_positives, warmup, word, matches>>

-----------------------------------------------------------------------------
(* The tasks and the phase. *)

\* Plausible slip: the loop only stops at the exact end of the chunk.
AtChunkEnd(t) == ReadOf(t, pos[t]) = ChunkEnd(t)

\* sync_command.cc:262.
PastChunk(t) == ReadOf(t, pos[t]) >= ChunkEnd(t)

FinishChunk(t) ==
  /\ pc[t] = "scan"
  /\ PastChunk(t)
  /\ pc' = [pc EXCEPT ![t] = "done"]
  /\ UNCHANGED <<input, stage, shared, metrics, pos, warmup, word, matches>>

\* sync_command.cc:254: Reader::Create throws before the loop; Parallelize
\* waits for the task but does not look at the exception.
CannotOpenSeed(t) ==
  /\ pc[t] = "scan"
  /\ pos[t] = ChunkBeg(t) - (block_size - 1)
  /\ pc' = [pc EXCEPT ![t] = "threw"]
  /\ UNCHANGED <<input, stage, shared, metrics, pos, warmup, word, matches>>

\* Plausible slip: the phase is over with the first task that is.
SomeThreadOver == \E t \in Threads : pc[t] \in {"done", "threw"}

AllThreadsOver == \A t \in Threads : pc[t] \in {"done", "threw"}

\* Parallelize returns (module Parallelize: JoinIsABarrier, CallReturns).
Join ==
  /\ stage = "analysis"
  /\ AllThreadsOver
  /\ stage' = "joined"
  /\ UNCHANGED <<input, shared, metrics, local, matches>>

Step(t) ==
  \/ Pass(t) \/ FalsePositive(t) \/ Match(t) \/ LoadWord(t) \/ StoreWord(t)
  \/ StoreAnalysis(t) \/ StoreOffset(t) \/ FinishChunk(t)

ThreadsRunning == stage # "metadata"

Next ==
  \/ ReadMetadata
  \/ ThreadsRunning /\ \E t \in Threads : Step(t) \/ CannotOpenSeed(t)
  \/ Join

Spec == Init /\ [][Next]_vars

\* Every task of Parallelize gets to run; nothing obliges one to fail.
FairSpec ==
  /\ Spec
  /\ WF_vars(ReadMetadata)
  /\ WF_vars(Join)
  /\ \A t \in 0 .. MaxThreads - 1 : WF_vars(ThreadsRunning /\ t \in Threads /\ Step(t))
-----------------------------------------------------------------------------
(* Properties. *)

ThreadStates ==
  {"scan", "clear", "storeWord", "storeAnalysis", "storeOffset", "done", "threw"}

SeedOffsets == SeedRange \union {kInvalidOffset}

\* The warmup stays below block_size, and neither seed_offsets_ nor analysis_ ever
\* gets an offset outside the seed (sync_command.cc:282-284).
TypeOK ==
  /\ stage \in {"metadata", "analysis", "joined"}
  /\ set \subseteq {Weak[blocks[i]] : i \in Indices}
  /\ seed_offsets \in [Indices -> SeedOffsets]
  /\ {weak_matches, strong_matches, false_positives, progress} \subseteq Nat
  /\ stage # "metadata" =>
       /\ DOMAIN index = {Weak[blocks[i]] : i \in Indices}
       /\ \A w \in DOMAIN index : index[w] \in Indices /\ Weak[blocks[index[w]]] = w
       /\ analysis \in [DOMAIN index -> SeedOffsets]
       /\ pc \in [Threads -> ThreadStates]
       /\ pos \in [Threads -> Int]
       /\ warmup \in [Threads -> -1 .. block_size - 1]
       /\ word \in [Threads -> SUBSET DOMAIN index]

\* However the threads interleave, and whatever of the two values of
\* sync_command.cc:284 is stored, a block is only ever reused from an offset
\* where the seed holds its (zero-padded) contents.
SeedOffsetsSound ==
  \A i \in Indices :
    seed_offsets[i] # kInvalidOffset => windows[seed_offsets[i]] = blocks[i]

\* The threads that have matched w and have not yet said so in analysis_.
Matching(w) ==
  {t \in Threads : pc[t] \in {"clear", "storeWord", "storeAnalysis"} /\ WcsAt(t) = w}

\* A bit that is clear keeps every thread from looking for the block, so it may
\* only be clear when a match of the block has been or is being recorded:
\* clearing a bit must not lose another block that shares its word.
ClearedBitsAccounted ==
  stage # "metadata" =>
    \A w \in DOMAIN index \ set : analysis[w] # kInvalidOffset \/ Matching(w) # {}

\* analysis_ and seed_offsets_ are written one after the other and may end with
\* different offsets, but once the threads have joined they agree on which
\* blocks were found, and both offsets are good (GetTestAnalysis reads the one,
\* ReconstructSourceChunk the other).
AnalysesAgree ==
  stage = "joined" =>
    \A w \in DOMAIN index :
      /\ analysis[w] = kInvalidOffset <=> seed_offsets[index[w]] = kInvalidOffset
      /\ analysis[w] # kInvalidOffset => windows[analysis[w]] = blocks[index[w]]

\* The windows that start at or before the first byte of the last block of the
\* seed: no thread ever looks at those that start inside the last block.
Examinable == {o \in SeedRange : o <= (CeilDiv(seed_size, block_size) - 1) * block_size}

\* The match kept its thread from looking at the window at o.
Hides(m, o) == m.offset < o /\ o < m.offset + block_size

\* No reuse is lost at a chunk boundary or to a race: if a block is downloaded
\* although an examinable window of the seed holds it, then every thread that
\* has the window in its chunk skipped it because it overlaps one of the
\* thread's own matches (sync_command.cc:281) and at least one thread has it.
NoMissedReuse ==
  stage = "joined" /\ (\A t \in Threads : pc[t] # "threw") =>
    \A w \in DOMAIN index :
      analysis[w] = kInvalidOffset =>
        \A o \in Examinable :
          windows[o] = blocks[index[w]] =>
            LET owners == {t \in Threads : o \in Examined(t)} IN
            /\ owners # {}
            /\ \A t \in owners : \E m \in matches : m.thread = t /\ Hides(m, o)

\* With one thread no block is matched twice (the tests count the matches of
\* single-threaded runs exactly); only a race brings a cleared bit back.
OneThreadMatchesOnce ==
  Cardinality(Threads) = 1 =>
    \A m, n \in matches : m.wcs = n.wcs => m = n

\* Whatever the interleaving the analysis does what SeedReuse promises: blocks
\* are assigned one by one, never taken back, and not any more after the join.
Reuse == INSTANCE SeedReuse WITH found <- seed_offsets, finished <- stage = "joined"
ImplementsSeedReuse == Reuse!Spec

\* Once its threads are launched the analysis ends: every one of them gets through its
\* chunk (sync_command.cc:246-300) and they are joined.  The calls of StartNextPhase
\* before the launch (sync_command.cc:227 and 312) are taken to have returned, which they
\* need not (module PhaseHandshake: WaitEnds is violated).
AnalysisEnds == <>(stage = "joined")
=============================================================================
