------------------------ MODULE SeedAnalysis_proofs ------------------------
(***************************************************************************)
(* What the unlocked analysis of the seed guarantees for every source and  *)
(* seed, every weak checksum, every layout of the bitset and any number of *)
(* threads.                                                                *)
(*                                                                         *)
(* A thread between the comparison of the strong checksums and the end of  *)
(* its stores holds a window that it knows to be a block's.  The inductive *)
(* invariant says so of every thread, and that nothing but such an offset  *)
(* is ever stored; nothing is assumed of the order of the stores.          *)
(***************************************************************************)
EXTENDS SeedAnalysis, RangesAndFiles_proofs, WellFoundedInduction, FiniteSetTheorems

Holding == {"clear", "storeWord", "storeAnalysis", "storeOffset"}

InputOK ==
  /\ block_count \in Nat /\ seed_size \in Nat
  /\ blocks \in [Indices -> DOMAIN Weak]
  /\ windows \in [SeedRange -> DOMAIN Weak]
  /\ block_size \in Nat \ {0}
  /\ threads \in Nat \ {0}

\* The window that thread t has matched.
Holds(t) ==
  /\ pos[t] \in SeedRange
  /\ WcsAt(t) \in DOMAIN index
  /\ SameContents(t)

\* While the thread still stands before the seed, warmup keeps it from looking.
NotBeforeSeed(t) == pos[t] >= 0 \/ pos[t] + warmup[t] >= 0

ThreadOK(t) ==
  /\ NotBeforeSeed(t)
  /\ pc[t] \in Holding => Holds(t)
  /\ pc[t] = "storeOffset" => analysis[WcsAt(t)] # kInvalidOffset

ThreadsOK == stage # "metadata" => \A t \in Threads : ThreadOK(t)

AnalysisSound ==
  stage # "metadata" =>
    \A w \in DOMAIN index :
      analysis[w] # kInvalidOffset => windows[analysis[w]] = blocks[index[w]]

NothingYet ==
  stage = "metadata" => seed_offsets = [i \in Indices |-> kInvalidOffset]

OverWhenJoined == stage = "joined" => \A t \in Threads : pc[t] \in {"done", "threw"}

SoundInv ==
  InputOK /\ TypeOK /\ ThreadsOK /\ AnalysisSound /\ SeedOffsetsSound
  /\ NothingYet /\ OverWhenJoined

-----------------------------------------------------------------------------
(* Facts about the data. *)

\* The arguments of the call of Parallelize satisfy what ChunkRanges asks of them.
LEMMA CallIsCall == ASSUME InputOK PROVE IsCall(Call)
  BY DEF InputOK, IsCall, Call

\* Threads are numbers and their chunks begin at natural offsets.
LEMMA ChunkStarts ==
  ASSUME InputOK
  PROVE  /\ Threads \subseteq Nat
         /\ \A t \in Threads : ChunkBeg(t) \in Nat
  <1>1. ThreadCount(Call) \in Nat
    BY CallIsCall, ChunkFacts
  <1>2. Threads \subseteq Nat
    BY <1>1 DEF Threads, ThreadIds
  <1>3. ASSUME NEW t \in Threads PROVE ChunkBeg(t) \in Nat
    BY <1>2, CallIsCall, RangeFacts DEF ChunkBeg
  <1> QED
    BY <1>2, <1>3

\* A step that keeps the input keeps everything that is defined from it.
LEMMA SameInput ==
  ASSUME UNCHANGED input
  PROVE  /\ Indices' = Indices /\ SeedRange' = SeedRange /\ Call' = Call
         /\ Threads' = Threads
         /\ UNCHANGED <<blocks, block_count, windows, seed_size, block_size, threads>>
         /\ InputOK => InputOK'
  <1>1. UNCHANGED <<blocks, block_count, windows, seed_size, block_size, threads>>
    BY DEF input
  <1>2. Call' = Call
    BY <1>1 DEF Call
  <1>3. Threads' = Threads
    BY <1>2 DEF Threads
  <1>4. Indices' = Indices /\ SeedRange' = SeedRange
    BY <1>1 DEF Indices, SeedRange
  <1> QED
    BY <1>1, <1>2, <1>3, <1>4 DEF InputOK

\* Among the blocks with one weak checksum one has the largest index.
LEMMA LargestExists ==
  ASSUME NEW n \in Nat, NEW S \in SUBSET (0 .. n - 1), S # {}
  PROVE  \E m \in S : \A j \in S : j <= m
  <1> DEFINE T == {n - 1 - i : i \in S}
             R == OpToRel(<, Nat)
  <1>1. T \subseteq Nat
    OBVIOUS
  <1>2. T # {}
    OBVIOUS
  <1>3. PICK x \in T : \A y \in T : ~ (<<y, x>> \in R)
    <2> HIDE DEF T, R
    <2>1. IsWellFoundedOn(R, Nat)
      BY NatLessThanWellFounded DEF R
    <2> QED
      BY <1>1, <1>2, <2>1, WFMin
  <1>4. PICK m \in S : x = n - 1 - m
    BY <1>3
  <1>5. ASSUME NEW j \in S PROVE j <= m
    <2>1. n - 1 - j \in T
      OBVIOUS
    <2>2. ~ (<<n - 1 - j, x>> \in R)
      BY <1>3, <2>1
    <2>3. ~ (n - 1 - j < x)
      BY <1>1, <1>3, <2>1, <2>2 DEF OpToRel
    <2> QED
      BY <1>4, <2>3
  <1> QED
    BY <1>5

WeakChecksums == {Weak[blocks[i]] : i \in Indices}

\* The entries of analysis_ point to blocks with their weak checksum, although
\* several blocks may have the same one.
LEMMA IndexOfChecksum ==
  ASSUME InputOK, NEW w \in WeakChecksums
  PROVE  LET i == CHOOSE i \in Indices :
                    /\ Weak[blocks[i]] = w
                    /\ \A j \in Indices : Weak[blocks[j]] = w => j <= i
         IN  i \in Indices /\ Weak[blocks[i]] = w
  <1> DEFINE S == {i \in Indices : Weak[blocks[i]] = w}
  <1>1. S # {}
    BY DEF WeakChecksums
  <1>2. S \in SUBSET (0 .. block_count - 1) /\ block_count \in Nat
    BY DEF Indices, InputOK
  <1>3. PICK m \in S : \A j \in S : j <= m
    BY <1>1, <1>2, LargestExists
  <1>4. \E i \in Indices : /\ Weak[blocks[i]] = w
                           /\ \A j \in Indices : Weak[blocks[j]] = w => j <= i
    BY <1>3
  <1> QED
    BY <1>4

-----------------------------------------------------------------------------
(* The first states. *)

\* The soundness invariant holds at first.
LEMMA InitSound == Init => SoundInv
  <1> SUFFICES ASSUME Init PROVE SoundInv
    OBVIOUS
  <1>1. InputOK
    <2>1. PICK in \in Inputs :
            /\ blocks = in.blocks /\ block_count = in.block_count
            /\ windows = in.windows /\ seed_size = in.seed_size
            /\ block_size = in.block_size /\ threads = in.threads
      BY DEF Init
    <2> QED
      BY <2>1, InputsAssumption DEF InputOK, Indices, SeedRange
  <1>2. seed_offsets = [i \in Indices |-> kInvalidOffset] /\ stage = "metadata"
    BY DEF Init
  <1>3. TypeOK
    BY <1>2 DEF Init, TypeOK, SeedOffsets
  <1>4. SeedOffsetsSound
    BY <1>2 DEF SeedOffsetsSound
  <1> QED
    BY <1>1, <1>2, <1>3, <1>4
    DEF SoundInv, ThreadsOK, AnalysisSound, NothingYet, OverWhenJoined

\* Reading the metadata establishes the shape of the tables.
LEMMA ReadMetadataSound == ASSUME SoundInv, ReadMetadata PROVE SoundInv'
  <1> USE DEF SoundInv
  <1>1. UNCHANGED input /\ stage = "metadata" /\ stage' = "analysis"
    BY DEF ReadMetadata
  <1>2. /\ Indices' = Indices /\ SeedRange' = SeedRange /\ Threads' = Threads
        /\ UNCHANGED <<blocks, windows, block_size>>
        /\ InputOK'
    BY <1>1, SameInput
  <1>3. set' = WeakChecksums /\ DOMAIN index' = WeakChecksums
    BY DEF ReadMetadata, WeakChecksums
  <1>4. \A w \in WeakChecksums : index'[w] \in Indices /\ Weak[blocks[index'[w]]] = w
    BY IndexOfChecksum DEF ReadMetadata, WeakChecksums
  <1>5. /\ analysis' = [w \in WeakChecksums |-> kInvalidOffset]
        /\ seed_offsets' = seed_offsets
    BY DEF ReadMetadata, WeakChecksums
  <1>6. /\ pc' = [t \in Threads |-> "scan"]
        /\ pos' = [t \in Threads |-> ChunkBeg(t) - (block_size - 1)]
        /\ warmup' = [t \in Threads |-> block_size - 1]
        /\ word' = [t \in Threads |-> {}]
    BY DEF ReadMetadata, FullWarmup
  <1>7. block_size \in Nat \ {0} /\ \A t \in Threads : ChunkBeg(t) \in Nat
    BY ChunkStarts DEF InputOK
  <1>8. \A t \in Threads : ChunkBeg(t) - (block_size - 1) \in Int
    BY <1>7
  <1>9. TypeOK'
    <2>1. pos' \in [Threads -> Int] /\ warmup' \in [Threads -> -1 .. block_size - 1]
      BY <1>6, <1>7, <1>8
    <2>2. analysis' \in [WeakChecksums -> SeedOffsets]
      BY <1>5 DEF SeedOffsets
    <2>3. UNCHANGED metrics
      BY DEF ReadMetadata
    <2>4. SeedOffsets' = SeedOffsets
      BY <1>2 DEF SeedOffsets
    <2> QED
      BY <1>1, <1>2, <1>3, <1>4, <1>5, <1>6, <2>1, <2>2, <2>3, <2>4, ZenonT(60)
      DEF TypeOK, WeakChecksums, ThreadStates, metrics
  <1>10. ThreadsOK'
    <2> SUFFICES ASSUME NEW t \in Threads PROVE ThreadOK(t)'
      BY <1>2 DEF ThreadsOK
    <2>1. pos'[t] + warmup'[t] = ChunkBeg(t) /\ ChunkBeg(t) >= 0
      BY <1>6, <1>7
    <2> QED
      BY <1>6, <2>1 DEF ThreadOK, NotBeforeSeed, Holding
  <1>11. AnalysisSound'
    BY <1>3, <1>5 DEF AnalysisSound
  <1>12. SeedOffsetsSound'
    BY <1>2, <1>5 DEF SeedOffsetsSound
  <1> QED
    BY <1>1, <1>2, <1>9, <1>10, <1>11, <1>12 DEF NothingYet, OverWhenJoined

-----------------------------------------------------------------------------
(* A step of one thread. *)

\* What every step of a thread leaves alone.
OneThread(t) ==
  /\ UNCHANGED <<input, stage, index>>
  /\ \A u \in Threads \ {t} :
       pc'[u] = pc[u] /\ pos'[u] = pos[u] /\ warmup'[u] = warmup[u]

\* The other threads still hold what they held: their windows do not move, and
\* an offset in analysis_ is only ever replaced by another offset.
LEMMA OthersKeep ==
  ASSUME SoundInv, stage = "analysis", NEW t \in Threads, OneThread(t),
         \A w \in DOMAIN index :
           analysis[w] # kInvalidOffset => analysis'[w] # kInvalidOffset,
         NEW u \in Threads, u # t
  PROVE  ThreadOK(u)'
  <1>1. ThreadOK(u)
    BY DEF SoundInv, ThreadsOK
  <1>2. /\ UNCHANGED <<blocks, windows, index>> /\ SeedRange' = SeedRange
        /\ pc'[u] = pc[u] /\ pos'[u] = pos[u] /\ warmup'[u] = warmup[u]
    BY SameInput DEF OneThread
  <1>3. WcsAt(u)' = WcsAt(u)
    BY <1>2 DEF WcsAt
  <1>4. Holds(u)' <=> Holds(u)
    BY <1>2, <1>3 DEF Holds, SameContents
  <1> QED
    BY <1>1, <1>2, <1>3, <1>4 DEF ThreadOK, NotBeforeSeed, Holding, Holds

\* What is left to show of a step of thread t.
LEMMA ThreadStepSound ==
  ASSUME SoundInv, stage = "analysis", NEW t \in Threads, OneThread(t),
         \A w \in DOMAIN index :
           analysis[w] # kInvalidOffset => analysis'[w] # kInvalidOffset,
         TypeOK', ThreadOK(t)', AnalysisSound', SeedOffsetsSound'
  PROVE  SoundInv'
  <1>1. InputOK' /\ Threads' = Threads /\ stage' = "analysis"
    BY SameInput DEF SoundInv, OneThread
  <1>2. \A u \in Threads : ThreadOK(u)'
    BY OthersKeep
  <1> QED
    BY <1>1, <1>2 DEF SoundInv, ThreadsOK, NothingYet, OverWhenJoined

\* What a step that leaves the recorded offsets alone has to show of the rest.
LEMMA SharedTypeKept ==
  ASSUME SoundInv, stage = "analysis",
         UNCHANGED <<input, stage, index, analysis, seed_offsets>>,
         set' \subseteq DOMAIN index,
         pc' \in [Threads -> ThreadStates], pos' \in [Threads -> Int],
         warmup' \in [Threads -> -1 .. block_size - 1],
         word' \in [Threads -> SUBSET DOMAIN index],
         {weak_matches', strong_matches', false_positives', progress'} \subseteq Nat
  PROVE  TypeOK' /\ AnalysisSound' /\ SeedOffsetsSound'
  <1>1. /\ Indices' = Indices /\ SeedRange' = SeedRange /\ Threads' = Threads
        /\ UNCHANGED <<blocks, windows, block_size, index, analysis, seed_offsets>>
    BY SameInput
  <1>2. SeedOffsets' = SeedOffsets
    BY <1>1 DEF SeedOffsets
  <1>3. TypeOK'
    BY <1>1, <1>2 DEF SoundInv, TypeOK
  <1>4. AnalysisSound' /\ SeedOffsetsSound'
    BY <1>1 DEF SoundInv, AnalysisSound, SeedOffsetsSound
  <1> QED
    BY <1>3, <1>4

\* The types of the locals of one thread.
LEMMA LocalType ==
  ASSUME SoundInv, stage = "analysis"
  PROVE  /\ pc \in [Threads -> ThreadStates] /\ pos \in [Threads -> Int]
         /\ warmup \in [Threads -> -1 .. block_size - 1]
         /\ word \in [Threads -> SUBSET DOMAIN index]
         /\ set \subseteq DOMAIN index
         /\ {weak_matches, strong_matches, false_positives, progress} \subseteq Nat
         /\ block_size \in Nat \ {0} /\ seed_size \in Nat
  BY DEF SoundInv, TypeOK, InputOK

\* The warmup counts down with the position: no window that starts before the seed
\* is ever looked at.
LEMMA WarmupCounts ==
  ASSUME SoundInv, stage = "analysis", NEW t \in Threads
  PROVE  /\ Decremented(warmup[t]) \in -1 .. block_size - 1
         /\ pos[t] + 1 \in Int
         /\ pos[t] + 1 >= 0 \/ pos[t] + 1 + Decremented(warmup[t]) >= 0
         /\ Decremented(warmup[t]) < 0 => pos[t] >= 0
  <1>1. warmup[t] \in -1 .. block_size - 1 /\ pos[t] \in Int /\ block_size \in Nat \ {0}
    BY LocalType
  <1>2. pos[t] >= 0 \/ pos[t] + warmup[t] >= 0
    BY DEF SoundInv, ThreadsOK, ThreadOK, NotBeforeSeed
  <1> QED
    BY <1>1, <1>2 DEF Decremented

\* The callback returns without a match.
LEMMA SlideSound ==
  ASSUME SoundInv, stage = "analysis", NEW t \in Threads,
         pc[t] = "scan", Slide(t),
         warmup' = [warmup EXCEPT ![t] = Decremented(@)],
         UNCHANGED <<input, stage, shared, pc, word>>,
         {weak_matches', strong_matches', false_positives'} \subseteq Nat
  PROVE  SoundInv'
  <1>1. /\ pos' = [pos EXCEPT ![t] = @ + 1]
        /\ progress' \in Nat
    BY LocalType DEF Slide
  <1>2. pos' \in [Threads -> Int] /\ warmup' \in [Threads -> -1 .. block_size - 1]
    BY <1>1, LocalType, WarmupCounts
  <1>3. TypeOK' /\ AnalysisSound' /\ SeedOffsetsSound'
    BY <1>1, <1>2, LocalType, SharedTypeKept DEF shared
  <1>4. OneThread(t) /\ analysis' = analysis
    BY <1>1, LocalType DEF OneThread, shared
  <1>5. ThreadOK(t)'
    <2>1. pc'[t] = "scan" /\ pos'[t] = pos[t] + 1 /\ warmup'[t] = Decremented(warmup[t])
      BY <1>1, LocalType
    <2> QED
      BY <2>1, WarmupCounts DEF ThreadOK, NotBeforeSeed, Holding
  <1> QED
    BY <1>3, <1>4, <1>5, ThreadStepSound

\* A window that is passed keeps the soundness invariant.
LEMMA PassSound ==
  ASSUME SoundInv, stage = "analysis", NEW t \in Threads, Pass(t)
  PROVE  SoundInv'
  BY LocalType, SlideSound DEF Pass, InLoop

\* So does a weak match that is no match.
LEMMA FalsePositiveSound ==
  ASSUME SoundInv, stage = "analysis", NEW t \in Threads, FalsePositive(t)
  PROVE  SoundInv'
  <1>1. {weak_matches', strong_matches', false_positives'} \subseteq Nat
    BY LocalType DEF FalsePositive
  <1> QED
    BY <1>1, SlideSound DEF FalsePositive, InLoop

\* A match is a window of the seed, not one before it, and has its block's contents.
LEMMA MatchSound ==
  ASSUME SoundInv, stage = "analysis", NEW t \in Threads, Match(t)
  PROVE  SoundInv'
  <1>1. /\ UNCHANGED <<input, stage, shared, strong_matches, false_positives, progress>>
        /\ UNCHANGED <<pos, warmup, word>>
        /\ pc' = [pc EXCEPT ![t] = "clear"]
        /\ weak_matches' \in Nat
    BY LocalType DEF Match
  <1>2. TypeOK' /\ AnalysisSound' /\ SeedOffsetsSound'
    BY <1>1, LocalType, SharedTypeKept DEF ThreadStates, shared
  <1>3. OneThread(t) /\ analysis' = analysis
    BY <1>1, LocalType DEF OneThread, shared
  <1>4. Holds(t)
    <2>1. pos[t] \in SeedRange
      BY LocalType, WarmupCounts DEF Match, Candidate, SeedRange
    <2> QED
      BY <2>1, LocalType DEF Match, Candidate, Holds
  <1>5. ThreadOK(t)'
    <2>1. Holds(t)'
      BY <1>1, <1>4, SameInput DEF Holds, WcsAt, SameContents, shared
    <2>2. NotBeforeSeed(t)'
      BY <1>1 DEF SoundInv, ThreadsOK, ThreadOK, NotBeforeSeed
    <2> QED
      BY <1>1, <2>1, <2>2, LocalType DEF ThreadOK
  <1> QED
    BY <1>2, <1>3, <1>5, ThreadStepSound

\* Whatever the word holds, writing it back sets no bit that was never set.
LEMMA BitsetSound ==
  ASSUME SoundInv, stage = "analysis", NEW t \in Threads, LoadWord(t) \/ StoreWord(t)
  PROVE  SoundInv'
  <1>1. /\ UNCHANGED <<input, stage, index, analysis, seed_offsets>>
        /\ UNCHANGED <<metrics, pos>>
        /\ pc[t] \in {"clear", "storeWord"}
        /\ pc' \in [Threads -> ThreadStates]
        /\ pc'[t] \in {"storeWord", "storeAnalysis"}
        /\ \A u \in Threads \ {t} : pc'[u] = pc[u]
    BY LocalType DEF LoadWord, StoreWord, ThreadStates, shared
  <1>2. set' \subseteq DOMAIN index /\ word' \in [Threads -> SUBSET DOMAIN index]
    BY LocalType DEF LoadWord, StoreWord, WordWithoutBit, shared
  <1>3. /\ warmup' \in [Threads -> -1 .. block_size - 1]
        /\ warmup'[t] = warmup[t] \/ warmup'[t] = block_size - 1
        /\ \A u \in Threads \ {t} : warmup'[u] = warmup[u]
    BY LocalType DEF LoadWord, StoreWord, FullWarmup
  <1>4. TypeOK' /\ AnalysisSound' /\ SeedOffsetsSound'
    BY <1>1, <1>2, <1>3, LocalType, SharedTypeKept DEF metrics
  <1>5. OneThread(t) /\ analysis' = analysis
    BY <1>1, <1>3 DEF OneThread
  <1>6. ThreadOK(t)'
    <2>1. Holds(t)
      BY <1>1 DEF SoundInv, ThreadsOK, ThreadOK, Holding
    <2>2. Holds(t)'
      BY <1>1, <2>1, SameInput DEF Holds, WcsAt, SameContents
    <2>3. NotBeforeSeed(t)'
      BY <1>1, <2>1 DEF NotBeforeSeed, Holds, SeedRange
    <2> QED
      BY <1>1, <2>2, <2>3 DEF ThreadOK
  <1> QED
    BY <1>4, <1>5, <1>6, ThreadStepSound

\* analysis_ only ever gets an offset that a thread holds.
LEMMA StoreAnalysisSound ==
  ASSUME SoundInv, stage = "analysis", NEW t \in Threads, StoreAnalysis(t)
  PROVE  SoundInv'
  <1> DEFINE w == WcsAt(t)
  <1>1. /\ UNCHANGED <<input, stage, set, index, seed_offsets>>
        /\ UNCHANGED <<weak_matches, false_positives, progress, pos, warmup, word>>
        /\ pc[t] = "storeAnalysis" /\ pc' = [pc EXCEPT ![t] = "storeOffset"]
        /\ strong_matches' \in Nat
        /\ analysis' = [analysis EXCEPT ![w] = pos[t]]
    BY LocalType DEF StoreAnalysis
  <1>2. /\ Indices' = Indices /\ SeedRange' = SeedRange /\ Threads' = Threads
        /\ UNCHANGED <<blocks, windows, block_size>>
    BY <1>1, SameInput
  <1>3. Holds(t)
    BY <1>1 DEF SoundInv, ThreadsOK, ThreadOK, Holding
  <1>4. pos[t] \in SeedOffsets /\ pos[t] # kInvalidOffset /\ w \in DOMAIN index
    BY <1>3 DEF Holds, SeedOffsets, SeedRange, kInvalidOffset
  <1>5. analysis \in [DOMAIN index -> SeedOffsets]
    BY DEF SoundInv, TypeOK
  <1> HIDE DEF w
  <1>6. analysis' \in [DOMAIN index -> SeedOffsets] /\ analysis'[w] = pos[t]
    BY <1>1, <1>4, <1>5
  <1>7. TypeOK'
    <2>1. SeedOffsets' = SeedOffsets
      BY <1>2 DEF SeedOffsets
    <2>2. pc' \in [Threads -> ThreadStates]
      BY <1>1, LocalType DEF ThreadStates
    <2> QED
      BY <1>1, <1>2, <1>6, <2>1, <2>2 DEF SoundInv, TypeOK
  <1>8. AnalysisSound'
    <2> SUFFICES ASSUME NEW v \in DOMAIN index, analysis'[v] # kInvalidOffset
                 PROVE  windows[analysis'[v]] = blocks[index[v]]
      BY <1>1, <1>2 DEF AnalysisSound
    <2>1. CASE v = w
      BY <1>3, <1>6, <2>1 DEF Holds, SameContents, w
    <2>2. CASE v # w
      BY <1>1, <1>5, <2>2 DEF SoundInv, AnalysisSound
    <2> QED
      BY <2>1, <2>2
  <1>9. SeedOffsetsSound'
    BY <1>1, <1>2 DEF SoundInv, SeedOffsetsSound
  <1>10. OneThread(t)
    BY <1>1, LocalType DEF OneThread
  <1>11. \A v \in DOMAIN index :
           analysis[v] # kInvalidOffset => analysis'[v] # kInvalidOffset
    BY <1>1, <1>4, <1>5
  <1>12. ThreadOK(t)'
    <2>1. WcsAt(t)' = w
      BY <1>1, <1>2 DEF WcsAt, w
    <2>2. Holds(t)'
      BY <1>1, <1>2, <1>3, <2>1 DEF Holds, SameContents, w
    <2>3. NotBeforeSeed(t)'
      BY <1>1, <1>3 DEF NotBeforeSeed, Holds, SeedRange
    <2> QED
      BY <1>4, <1>6, <2>1, <2>2, <2>3 DEF ThreadOK, kInvalidOffset
  <1> QED
    BY <1>7, <1>8, <1>9, <1>10, <1>11, <1>12, ThreadStepSound

\* Both values that sync_command.cc:284 may store are offsets of the block.
LEMMA OffsetToStoreSound ==
  ASSUME SoundInv, stage = "analysis", NEW t \in Threads, pc[t] = "storeOffset",
         NEW o \in OffsetsToStore(t)
  PROVE  /\ index[WcsAt(t)] \in Indices
         /\ o \in SeedRange
         /\ windows[o] = blocks[index[WcsAt(t)]]
  <1>1. Holds(t) /\ analysis[WcsAt(t)] # kInvalidOffset
    BY DEF SoundInv, ThreadsOK, ThreadOK, Holding
  <1>2. index[WcsAt(t)] \in Indices /\ analysis[WcsAt(t)] \in SeedOffsets
    BY <1>1 DEF Holds, SoundInv, TypeOK
  <1>3. CASE o = pos[t]
    BY <1>1, <1>2, <1>3 DEF Holds, SameContents
  <1>4. CASE o = analysis[WcsAt(t)]
    BY <1>1, <1>2, <1>4 DEF Holds, SoundInv, AnalysisSound, SeedOffsets
  <1> QED
    BY <1>3, <1>4 DEF OffsetsToStore

\* Whichever of the two offsets is stored, it is good for the block.
LEMMA StoreOffsetSound ==
  ASSUME SoundInv, stage = "analysis", NEW t \in Threads, StoreOffset(t)
  PROVE  SoundInv'
  <1> DEFINE i == index[WcsAt(t)]
  <1>1. /\ UNCHANGED <<input, stage, set, index, analysis>>
        /\ UNCHANGED <<weak_matches, strong_matches, false_positives, warmup, word>>
        /\ pc[t] = "storeOffset" /\ pc' = [pc EXCEPT ![t] = "scan"]
        /\ pos' = [pos EXCEPT ![t] = @ + 1]
        /\ progress' \in Nat
    BY LocalType DEF StoreOffset, Slide
  <1>2. /\ Indices' = Indices /\ SeedRange' = SeedRange /\ Threads' = Threads
        /\ UNCHANGED <<blocks, windows, block_size>>
    BY <1>1, SameInput
  <1>3. PICK o \in OffsetsToStore(t) : seed_offsets' = [seed_offsets EXCEPT ![i] = o]
    BY DEF StoreOffset
  <1>4. i \in Indices /\ o \in SeedRange /\ windows[o] = blocks[i]
    BY <1>1, <1>3, OffsetToStoreSound
  <1>5. seed_offsets \in [Indices -> SeedOffsets] /\ o \in SeedOffsets
    BY <1>4 DEF SoundInv, TypeOK, SeedOffsets
  <1> HIDE DEF i
  <1>6. TypeOK'
    <2>1. SeedOffsets' = SeedOffsets
      BY <1>2 DEF SeedOffsets
    <2>2. pc' \in [Threads -> ThreadStates] /\ pos' \in [Threads -> Int]
      BY <1>1, LocalType DEF ThreadStates
    <2>3. seed_offsets' \in [Indices -> SeedOffsets]
      BY <1>3, <1>5
    <2> QED
      BY <1>1, <1>2, <2>1, <2>2, <2>3 DEF SoundInv, TypeOK
  <1>7. AnalysisSound'
    BY <1>1, <1>2 DEF SoundInv, AnalysisSound
  <1>8. SeedOffsetsSound'
    <2> SUFFICES ASSUME NEW j \in Indices, seed_offsets'[j] # kInvalidOffset
                 PROVE  windows[seed_offsets'[j]] = blocks[j]
      BY <1>2 DEF SeedOffsetsSound
    <2>1. CASE j = i
      BY <1>3, <1>4, <1>5, <2>1
    <2>2. CASE j # i
      BY <1>3, <1>5, <2>2 DEF SoundInv, SeedOffsetsSound
    <2> QED
      BY <2>1, <2>2
  <1>9. OneThread(t)
    BY <1>1, LocalType DEF OneThread
  <1>10. ThreadOK(t)'
    <2>1. pos'[t] >= 0
      BY <1>1, LocalType DEF SoundInv, ThreadsOK, ThreadOK, Holding, Holds, SeedRange
    <2> QED
      BY <1>1, <2>1, LocalType DEF ThreadOK, NotBeforeSeed, Holding
  <1> QED
    BY <1>1, <1>6, <1>7, <1>8, <1>9, <1>10, ThreadStepSound

\* A task that is over, or has thrown before its first read, holds nothing.
LEMMA OverSound ==
  ASSUME SoundInv, stage = "analysis", NEW t \in Threads, FinishChunk(t) \/ CannotOpenSeed(t)
  PROVE  SoundInv'
  <1>1. /\ UNCHANGED <<input, stage, shared, metrics, pos, warmup, word>>
        /\ pc' \in [Threads -> ThreadStates] /\ pc'[t] \in {"done", "threw"}
        /\ \A u \in Threads \ {t} : pc'[u] = pc[u]
    BY LocalType DEF FinishChunk, CannotOpenSeed, ThreadStates
  <1>2. TypeOK' /\ AnalysisSound' /\ SeedOffsetsSound'
    BY <1>1, LocalType, SharedTypeKept DEF shared, metrics
  <1>3. OneThread(t) /\ analysis' = analysis
    BY <1>1 DEF OneThread, shared
  <1>4. ThreadOK(t)'
    BY <1>1 DEF SoundInv, ThreadsOK, ThreadOK, NotBeforeSeed, Holding
  <1> QED
    BY <1>2, <1>3, <1>4, ThreadStepSound

-----------------------------------------------------------------------------
(* Every step. *)

\* Once the threads are joined none of them takes a step.
LEMMA NoStepAfterJoin ==
  ASSUME SoundInv, stage # "metadata", NEW t \in Threads, Step(t) \/ CannotOpenSeed(t)
  PROVE  stage = "analysis"
  <1>1. pc[t] \notin {"done", "threw"}
    BY DEF Step, Pass, FalsePositive, Match, LoadWord, StoreWord, StoreAnalysis,
           StoreOffset, FinishChunk, CannotOpenSeed, InLoop
  <1> QED
    BY <1>1 DEF SoundInv, OverWhenJoined, TypeOK

\* Every step keeps the soundness invariant.
LEMMA StepSound == SoundInv /\ [Next]_vars => SoundInv'
  <1> SUFFICES ASSUME SoundInv, [Next]_vars PROVE SoundInv'
    OBVIOUS
  <1>1. CASE ReadMetadata
    BY <1>1, ReadMetadataSound
  <1>2. ASSUME NEW t \in Threads, stage # "metadata", Step(t) \/ CannotOpenSeed(t)
        PROVE  SoundInv'
    <2>1. stage = "analysis"
      BY <1>2, NoStepAfterJoin
    <2> QED
      BY <1>2, <2>1, PassSound, FalsePositiveSound, MatchSound, BitsetSound,
         StoreAnalysisSound, StoreOffsetSound, OverSound DEF Step
  <1>3. CASE Join
    <2>1. UNCHANGED <<input, shared, metrics, local>> /\ stage # "metadata"
          /\ stage' = "joined" /\ AllThreadsOver
      BY <1>3 DEF Join
    <2>2. /\ Indices' = Indices /\ SeedRange' = SeedRange /\ Threads' = Threads
          /\ UNCHANGED <<blocks, windows, block_size>> /\ InputOK'
      BY <2>1, SameInput DEF SoundInv
    <2>3. UNCHANGED <<set, index, analysis, seed_offsets, pc, pos, warmup, word>>
      BY <2>1 DEF shared, local
    <2>4. TypeOK'
      <3>1. SeedOffsets' = SeedOffsets
        BY <2>2 DEF SeedOffsets
      <3> QED
        BY <2>1, <2>2, <2>3, <3>1 DEF SoundInv, TypeOK, metrics
    <2>5. ThreadsOK' /\ OverWhenJoined'
      BY <2>1, <2>2, <2>3 DEF SoundInv, AllThreadsOver, OverWhenJoined, ThreadsOK,
         ThreadOK, NotBeforeSeed, Holding, Holds, WcsAt, SameContents
    <2>6. AnalysisSound' /\ SeedOffsetsSound' /\ NothingYet'
      BY <2>1, <2>2, <2>3 DEF SoundInv, AnalysisSound, SeedOffsetsSound, NothingYet
    <2> QED
      BY <2>2, <2>4, <2>5, <2>6 DEF SoundInv
  <1>4. CASE UNCHANGED vars
    <2>1. /\ UNCHANGED <<input, stage, set, index, analysis, seed_offsets>>
          /\ UNCHANGED <<metrics, pc, pos, warmup, word>>
      BY <1>4 DEF vars, shared, local
    <2>2. /\ Indices' = Indices /\ SeedRange' = SeedRange /\ Threads' = Threads
          /\ UNCHANGED <<blocks, windows, block_size>> /\ InputOK'
      BY <2>1, SameInput DEF SoundInv
    <2>3. TypeOK'
      <3>1. SeedOffsets' = SeedOffsets
        BY <2>2 DEF SeedOffsets
      <3> QED
        BY <2>1, <2>2, <3>1 DEF SoundInv, TypeOK, metrics
    <2>4. ThreadsOK' /\ OverWhenJoined'
      BY <2>1, <2>2 DEF SoundInv, OverWhenJoined, ThreadsOK,
         ThreadOK, NotBeforeSeed, Holding, Holds, WcsAt, SameContents
    <2>5. AnalysisSound' /\ SeedOffsetsSound' /\ NothingYet'
      BY <2>1, <2>2 DEF SoundInv, AnalysisSound, SeedOffsetsSound, NothingYet
    <2> QED
      BY <2>2, <2>3, <2>4, <2>5 DEF SoundInv
  <1> QED
    BY <1>1, <1>2, <1>3, <1>4 DEF Next, ThreadsRunning

\* The soundness invariant of the analysis.
LEMMA SoundInvariant == Spec => []SoundInv
  BY InitSound, StepSound, PTL DEF Spec

\* Every variable keeps its type; in particular a seed offset is an offset of
\* the seed or kInvalidOffset, and no index leaves the table of the blocks.
THEOREM TypeCorrect == Spec => []TypeOK
  <1>1. SoundInv => TypeOK
    BY DEF SoundInv
  <1> QED
    BY SoundInvariant, <1>1, PTL

\* A block is only ever reused from an offset where the seed holds its contents,
\* for any interleaving of the unlocked stores of sync_command.cc:280-284.
THEOREM OffsetsAreSound == Spec => []SeedOffsetsSound
  <1>1. SoundInv => SeedOffsetsSound
    BY DEF SoundInv
  <1> QED
    BY SoundInvariant, <1>1, PTL

-----------------------------------------------------------------------------
(* The analysis implements SeedReuse. *)

\* Storing an offset is a Reuse step of the abstract specification.
LEMMA SeedOffsetStored ==
  ASSUME SoundInv, stage = "analysis", NEW t \in Threads, StoreOffset(t)
  PROVE  \E i \in Indices : Reuse!Reuse(i)
  <1> DEFINE i == index[WcsAt(t)]
  <1>1. PICK o \in OffsetsToStore(t) : seed_offsets' = [seed_offsets EXCEPT ![i] = o]
    BY DEF StoreOffset
  <1>2. pc[t] = "storeOffset" /\ UNCHANGED <<input, stage>>
    BY DEF StoreOffset
  <1>3. i \in Indices /\ o \in SeedRange /\ windows[o] = blocks[i]
    BY <1>1, <1>2, OffsetToStoreSound
  <1>4. o \in Reuse!Candidates(i)
    BY <1>3 DEF SoundInv, InputOK, Reuse!Candidates
  <1>5. UNCHANGED <<blocks, windows, stage>>
    BY <1>2, SameInput
  <1> QED
    BY <1>1, <1>3, <1>4, <1>5 DEF Reuse!Reuse

\* Every step of the analysis is one of SeedReuse, or a stutter.
LEMMA StepRefines == SoundInv /\ [Next]_vars => [Reuse!Next]_(Reuse!vars)
  <1> SUFFICES ASSUME SoundInv, [Next]_vars PROVE Reuse!Next \/ UNCHANGED Reuse!vars
    OBVIOUS
  <1>1. DOMAIN blocks = Indices
    BY DEF SoundInv, InputOK
  <1>2. ASSUME UNCHANGED <<input, seed_offsets>>, (stage' = "joined") <=> (stage = "joined")
        PROVE  UNCHANGED Reuse!vars
    BY <1>2, SameInput DEF Reuse!vars
  <1>3. CASE ReadMetadata
    BY <1>2, <1>3 DEF ReadMetadata
  <1>4. ASSUME NEW t \in Threads, stage # "metadata", Step(t) \/ CannotOpenSeed(t)
        PROVE  Reuse!Next \/ UNCHANGED Reuse!vars
    <2>1. stage = "analysis"
      BY <1>4, NoStepAfterJoin
    <2>2. CASE StoreOffset(t)
      BY <1>1, <2>1, <2>2, SeedOffsetStored DEF Reuse!Next
    <2>3. CASE ~StoreOffset(t)
      BY <1>2, <1>4, <2>3
      DEF Step, Pass, FalsePositive, Match, LoadWord, StoreWord, StoreAnalysis,
          FinishChunk, CannotOpenSeed, shared
    <2> QED
      BY <2>2, <2>3
  <1>5. CASE Join
    <2>1. UNCHANGED <<blocks, windows, seed_offsets>>
      BY <1>5, SameInput DEF Join, shared
    <2>2. stage = "analysis" /\ stage' = "joined"
      BY <1>5 DEF Join
    <2> QED
      BY <2>1, <2>2 DEF Reuse!Next, Reuse!Finish
  <1>6. CASE UNCHANGED vars
    BY <1>2, <1>6 DEF vars, shared
  <1> QED
    BY <1>3, <1>4, <1>5, <1>6 DEF Next, ThreadsRunning

\* The analysis with its threads, its bitset and its three unlocked tables does
\* no more than SeedReuse: it assigns good offsets to blocks one by one, takes
\* none back, and stops assigning with the join.
THEOREM Refinement == Spec => ImplementsSeedReuse
  <1>1. Init => Reuse!Init
    <2> SUFFICES ASSUME Init PROVE Reuse!Init
      OBVIOUS
    <2>1. SoundInv
      BY InitSound
    <2>2. DOMAIN blocks = Indices
      BY <2>1 DEF SoundInv, InputOK
    <2> QED
      BY <2>2 DEF Init, Reuse!Init, kInvalidOffset, Reuse!kInvalidOffset
  <1> QED
    BY <1>1, SoundInvariant, StepRefines, PTL DEF Spec, ImplementsSeedReuse, Reuse!Spec

-----------------------------------------------------------------------------
(* The bitset, and the agreement of analysis_ and seed_offsets_. *)

\* A match of w is recorded, or a thread is about to record one.
Accounted(w) == analysis[w] # kInvalidOffset \/ Matching(w) # {}

\* A bit is clear, or about to be cleared by a thread that has loaded its word
\* without it, only for a checksum that is accounted for.
BitsInv ==
  stage # "metadata" =>
    /\ \A w \in DOMAIN index \ set : Accounted(w)
    /\ \A t \in Threads, v \in DOMAIN index :
         pc[t] = "storeWord" /\ v \in WordBits(WcsAt(t)) /\ v \notin word[t] => Accounted(v)

\* The offset of w is stored in seed_offsets_, or a thread is about to store it.
Stored(w) ==
  \/ seed_offsets[index[w]] # kInvalidOffset
  \/ \E t \in Threads : pc[t] = "storeOffset" /\ WcsAt(t) = w

AgreeInv ==
  stage # "metadata" =>
    \A w \in DOMAIN index :
      /\ seed_offsets[index[w]] # kInvalidOffset => analysis[w] # kInvalidOffset
      /\ analysis[w] # kInvalidOffset => Stored(w)

RaceInv == SoundInv /\ BitsInv /\ AgreeInv

\* Reading the metadata establishes what the bitset and the two tables obey.
LEMMA ReadMetadataRace == ASSUME RaceInv, ReadMetadata PROVE BitsInv' /\ AgreeInv'
  <1>1. /\ set' = DOMAIN index'
        /\ analysis' = [w \in DOMAIN index' |-> kInvalidOffset]
        /\ pc' = [t \in Threads |-> "scan"]
        /\ seed_offsets' = [j \in Indices |-> kInvalidOffset]
    BY DEF ReadMetadata, RaceInv, SoundInv, NothingYet
  <1>2. SoundInv' /\ stage' = "analysis" /\ Threads' = Threads /\ Indices' = Indices
    BY ReadMetadataSound, SameInput DEF RaceInv, ReadMetadata
  <1>3. \A w \in DOMAIN index' : index'[w] \in Indices
    BY <1>2 DEF SoundInv, TypeOK
  <1>4. BitsInv'
    BY <1>1, <1>2 DEF BitsInv
  <1>5. AgreeInv'
    BY <1>1, <1>3 DEF AgreeInv
  <1> QED
    BY <1>4, <1>5

\* A step that moves no thread out of the middle of its stores, and stores nothing.
LEMMA QuietRace ==
  ASSUME RaceInv, stage # "metadata", UNCHANGED <<input, shared>>, stage' # "metadata",
         \A u \in Threads : pc[u] \in Holding =>
           pc'[u] = pc[u] /\ pos'[u] = pos[u] /\ word'[u] = word[u],
         \A u \in Threads : pc[u] \notin Holding => pc'[u] \notin Holding \ {"clear"}
  PROVE  BitsInv' /\ AgreeInv'
  <1>1. /\ UNCHANGED <<set, index, analysis, seed_offsets, blocks, windows>>
        /\ Threads' = Threads
    BY SameInput DEF shared
  <1>2. \A u \in Threads : pc[u] \in Holding => WcsAt(u)' = WcsAt(u)
    BY <1>1 DEF WcsAt
  <1>3. \A w \in DOMAIN index : Accounted(w) => Accounted(w)'
    BY <1>1, <1>2 DEF Accounted, Matching, Holding
  <1>4. BitsInv'
    <2>1. \A u \in Threads : pc'[u] = "storeWord" =>
            pc[u] = "storeWord" /\ WcsAt(u)' = WcsAt(u) /\ word'[u] = word[u]
      BY <1>2 DEF Holding
    <2> QED
      BY <1>1, <1>3, <2>1 DEF RaceInv, BitsInv, WordBits
  <1>5. AgreeInv'
    BY <1>1, <1>2 DEF RaceInv, AgreeInv, Stored, Holding
  <1> QED
    BY <1>4, <1>5

\* Steps that touch neither the bitset nor the tables keep it.
LEMMA QuietStepRace ==
  ASSUME RaceInv, stage = "analysis", NEW t \in Threads,
         Pass(t) \/ FalsePositive(t) \/ Match(t) \/ FinishChunk(t) \/ CannotOpenSeed(t)
  PROVE  BitsInv' /\ AgreeInv'
  <1>1. UNCHANGED <<input, shared, stage, word>> /\ pc[t] = "scan"
    BY DEF Pass, FalsePositive, Match, FinishChunk, CannotOpenSeed, InLoop, shared
  <1>2. SoundInv
    BY DEF RaceInv
  <1>3. pc'[t] \in {"scan", "clear", "done", "threw"}
    BY <1>1, <1>2, LocalType
    DEF Pass, FalsePositive, Match, FinishChunk, CannotOpenSeed
  <1>4. \A u \in Threads \ {t} : pc'[u] = pc[u] /\ pos'[u] = pos[u]
    BY <1>2, LocalType
    DEF Pass, FalsePositive, Match, FinishChunk, CannotOpenSeed, Slide
  <1> QED
    BY <1>1, <1>3, <1>4, QuietRace DEF Holding

\* The word that is written back lacks only bits that are accounted for: those
\* it lacked when it was loaded, and the one of the thread's own match.
LEMMA BitsetRace ==
  ASSUME RaceInv, stage = "analysis", NEW t \in Threads, LoadWord(t) \/ StoreWord(t)
  PROVE  BitsInv' /\ AgreeInv'
  <1>1. SoundInv
    BY DEF RaceInv
  <1>2. /\ UNCHANGED <<input, stage, index, analysis, seed_offsets, pos>>
        /\ pc[t] \in {"clear", "storeWord"}
        /\ pc'[t] \in {"storeWord", "storeAnalysis"}
        /\ \A u \in Threads \ {t} : pc'[u] = pc[u] /\ word'[u] = word[u]
    BY <1>1, LocalType DEF LoadWord, StoreWord, shared
  <1>3. Threads' = Threads /\ UNCHANGED <<blocks, windows>>
    BY <1>2, SameInput
  <1>4. \A u \in Threads : WcsAt(u)' = WcsAt(u)
    BY <1>2, <1>3 DEF WcsAt
  <1>5. \A w \in DOMAIN index : Accounted(w) => Accounted(w)'
    BY <1>2, <1>3, <1>4 DEF Accounted, Matching
  <1>6. AgreeInv'
    BY <1>2, <1>3, <1>4 DEF RaceInv, AgreeInv, Stored
  <1>7. CASE LoadWord(t)
    <2>1. set' = set /\ word'[t] = set \intersect WordBits(WcsAt(t))
      BY <1>1, <1>7, LocalType DEF LoadWord, shared
    <2>2. ASSUME NEW u \in Threads, NEW v \in DOMAIN index, pc'[u] = "storeWord",
                 v \in WordBits(WcsAt(u)), v \notin word'[u]
          PROVE  Accounted(v)
      <3>1. CASE u = t
        BY <2>1, <2>2, <3>1 DEF RaceInv, BitsInv
      <3>2. CASE u # t
        BY <1>2, <2>2, <3>2 DEF RaceInv, BitsInv
      <3> QED
        BY <3>1, <3>2
    <2>3. BitsInv'
      BY <1>2, <1>3, <1>4, <1>5, <2>1, <2>2 DEF RaceInv, BitsInv, WordBits
    <2> QED
      BY <1>6, <2>3
  <1>8. CASE StoreWord(t)
    <2> DEFINE w == WcsAt(t)
    <2>1. /\ set' = (set \ WordBits(w)) \union (word[t] \ {w})
          /\ pc[t] = "storeWord" /\ pc'[t] = "storeAnalysis"
          /\ word' = word
      BY <1>1, <1>8, LocalType DEF StoreWord, WordWithoutBit
    <2>2. Accounted(w)
      BY <2>1 DEF Accounted, Matching
    <2>3. ASSUME NEW v \in DOMAIN index \ set' PROVE Accounted(v)
      <3>1. CASE v \notin WordBits(w)
        BY <2>1, <2>3, <3>1 DEF RaceInv, BitsInv
      <3>2. CASE v \in WordBits(w) /\ v \notin word[t]
        BY <2>1, <3>2 DEF RaceInv, BitsInv
      <3>3. CASE v = w
        BY <2>2, <3>3
      <3> QED
        BY <2>1, <2>3, <3>1, <3>2, <3>3
    <2>4. ASSUME NEW u \in Threads, NEW v \in DOMAIN index, pc'[u] = "storeWord",
                 v \in WordBits(WcsAt(u)), v \notin word'[u]
          PROVE  Accounted(v)
      BY <1>2, <2>1, <2>4 DEF RaceInv, BitsInv
    <2>5. BitsInv'
      BY <1>2, <1>3, <1>4, <1>5, <2>3, <2>4 DEF BitsInv, WordBits
    <2> QED
      BY <1>6, <2>5
  <1> QED
    BY <1>7, <1>8

\* The checksum of the match stays accounted for when its offset is recorded.
LEMMA StoreAnalysisRace ==
  ASSUME RaceInv, stage = "analysis", NEW t \in Threads, StoreAnalysis(t)
  PROVE  BitsInv' /\ AgreeInv'
  <1> DEFINE w == WcsAt(t)
  <1>1. SoundInv
    BY DEF RaceInv
  <1>2. /\ UNCHANGED <<input, stage, set, index, seed_offsets, pos, word>>
        /\ pc[t] = "storeAnalysis" /\ pc'[t] = "storeOffset"
        /\ \A u \in Threads \ {t} : pc'[u] = pc[u]
    BY <1>1, LocalType DEF StoreAnalysis
  <1>3. Threads' = Threads /\ UNCHANGED <<blocks, windows>>
    BY <1>2, SameInput
  <1>4. \A u \in Threads : WcsAt(u)' = WcsAt(u)
    BY <1>2, <1>3 DEF WcsAt
  <1>5. Holds(t) /\ analysis \in [DOMAIN index -> SeedOffsets]
    BY <1>1, <1>2 DEF SoundInv, ThreadsOK, ThreadOK, Holding, TypeOK
  <1>6. analysis'[w] # kInvalidOffset
    BY <1>5 DEF StoreAnalysis, Holds, SeedRange, kInvalidOffset
  <1>7. \A v \in DOMAIN index : v # w => analysis'[v] = analysis[v]
    BY <1>5 DEF StoreAnalysis
  <1> HIDE DEF w
  <1>8. ASSUME NEW v \in DOMAIN index, Accounted(v) PROVE Accounted(v)'
    <2>1. CASE v = w
      BY <1>6, <2>1 DEF Accounted
    <2>2. CASE v # w
      <3>1. \A u \in Matching(v) : u \in Matching(v)'
        BY <1>2, <1>3, <1>4, <2>2 DEF Matching, w
      <3> QED
        BY <1>7, <1>8, <2>2, <3>1 DEF Accounted
    <2> QED
      BY <2>1, <2>2
  <1>9. BitsInv'
    <2>1. \A u \in Threads : pc'[u] = "storeWord" => pc[u] = "storeWord"
      BY <1>2
    <2> QED
      BY <1>2, <1>3, <1>4, <1>8, <2>1 DEF RaceInv, BitsInv, WordBits
  <1>10. ASSUME NEW v \in DOMAIN index
         PROVE  /\ seed_offsets[index[v]] # kInvalidOffset => analysis'[v] # kInvalidOffset
                /\ analysis'[v] # kInvalidOffset => Stored(v)'
    <2>1. CASE v = w
      BY <1>2, <1>3, <1>4, <1>6, <2>1 DEF Stored, w
    <2>2. CASE v # w
      BY <1>2, <1>3, <1>4, <1>7, <2>2 DEF RaceInv, AgreeInv, Stored
    <2> QED
      BY <2>1, <2>2
  <1>11. AgreeInv'
    BY <1>2, <1>10 DEF AgreeInv
  <1> QED
    BY <1>9, <1>11

\* Two checksums never share a block, so storing one's offset is no other's business.
LEMMA StoreOffsetRace ==
  ASSUME RaceInv, stage = "analysis", NEW t \in Threads, StoreOffset(t)
  PROVE  BitsInv' /\ AgreeInv'
  <1> DEFINE w == WcsAt(t)
             i == index[WcsAt(t)]
  <1>1. SoundInv
    BY DEF RaceInv
  <1>2. /\ UNCHANGED <<input, stage, set, index, analysis, word>>
        /\ pc[t] = "storeOffset" /\ pc'[t] = "scan"
        /\ \A u \in Threads \ {t} : pc'[u] = pc[u] /\ pos'[u] = pos[u]
    BY <1>1, LocalType DEF StoreOffset, Slide
  <1>3. Threads' = Threads /\ UNCHANGED <<blocks, windows>>
    BY <1>2, SameInput
  <1>4. \A u \in Threads \ {t} : WcsAt(u)' = WcsAt(u)
    BY <1>2, <1>3 DEF WcsAt
  <1>5. PICK o \in OffsetsToStore(t) : seed_offsets' = [seed_offsets EXCEPT ![i] = o]
    BY DEF StoreOffset
  <1>6. i \in Indices /\ o \in SeedRange /\ o # kInvalidOffset
    BY <1>1, <1>2, <1>5, OffsetToStoreSound DEF SeedRange, kInvalidOffset
  <1>7. /\ seed_offsets \in [Indices -> SeedOffsets]
        /\ w \in DOMAIN index
        /\ analysis[w] # kInvalidOffset
        /\ \A v \in DOMAIN index : index[v] \in Indices /\ Weak[blocks[index[v]]] = v
    BY <1>1, <1>2 DEF SoundInv, TypeOK, ThreadsOK, ThreadOK, Holding, Holds
  <1>8. \A v \in DOMAIN index : v # w => index[v] # i
    BY <1>7
  <1>9. seed_offsets'[i] # kInvalidOffset
    BY <1>5, <1>6, <1>7
  <1>10. \A v \in DOMAIN index : v # w => seed_offsets'[index[v]] = seed_offsets[index[v]]
    BY <1>5, <1>7, <1>8
  <1>11. \A v \in DOMAIN index : Accounted(v) => Accounted(v)'
    BY <1>2, <1>3, <1>4 DEF Accounted, Matching
  <1>12. BitsInv'
    BY <1>2, <1>3, <1>4, <1>11 DEF RaceInv, BitsInv, WordBits
  <1>13. ASSUME NEW v \in DOMAIN index
         PROVE  /\ seed_offsets'[index[v]] # kInvalidOffset => analysis[v] # kInvalidOffset
                /\ analysis[v] # kInvalidOffset => Stored(v)'
    <2>1. CASE v = w
      BY <1>2, <1>7, <1>9, <2>1 DEF Stored
    <2>2. CASE v # w
      BY <1>2, <1>3, <1>4, <1>10, <2>2 DEF RaceInv, AgreeInv, Stored
    <2> QED
      BY <2>1, <2>2
  <1>14. AgreeInv'
    BY <1>2, <1>13 DEF AgreeInv
  <1> QED
    BY <1>12, <1>14

\* Every step keeps it.
LEMMA RaceStep == RaceInv /\ [Next]_vars => RaceInv'
  <1> SUFFICES ASSUME RaceInv, [Next]_vars PROVE RaceInv'
    OBVIOUS
  <1>1. SoundInv /\ SoundInv'
    BY StepSound DEF RaceInv
  <1>2. CASE ReadMetadata
    BY <1>1, <1>2, ReadMetadataRace DEF RaceInv
  <1>3. ASSUME NEW t \in Threads, stage # "metadata", Step(t) \/ CannotOpenSeed(t)
        PROVE  RaceInv'
    <2>1. stage = "analysis"
      BY <1>1, <1>3, NoStepAfterJoin
    <2> QED
      BY <1>1, <1>3, <2>1, QuietStepRace, BitsetRace, StoreAnalysisRace, StoreOffsetRace
      DEF Step, RaceInv
  <1>4. CASE Join
    <2>1. UNCHANGED <<input, shared, local>> /\ stage # "metadata" /\ stage' # "metadata"
          /\ AllThreadsOver
      BY <1>4 DEF Join
    <2>2. UNCHANGED <<pc, pos, word>>
      BY <2>1 DEF local
    <2>3. BitsInv' /\ AgreeInv'
      BY <2>1, <2>2, QuietRace
    <2> QED
      BY <1>1, <2>3 DEF RaceInv
  <1>5. CASE UNCHANGED vars
    <2>1. UNCHANGED <<input, shared, local, stage>>
      BY <1>5 DEF vars
    <2>2. UNCHANGED <<pc, pos, word>>
      BY <2>1 DEF local
    <2>3. CASE stage = "metadata"
      BY <1>1, <2>1, <2>3 DEF RaceInv, BitsInv, AgreeInv
    <2>4. CASE stage # "metadata"
      BY <1>1, <2>1, <2>2, <2>4, QuietRace DEF RaceInv
    <2> QED
      BY <2>3, <2>4
  <1> QED
    BY <1>2, <1>3, <1>4, <1>5 DEF Next, ThreadsRunning

\* What the bitset and the two tables obey throughout.
LEMMA RaceInvariant == Spec => []RaceInv
  <1>1. Init => RaceInv
    BY InitSound DEF Init, RaceInv, BitsInv, AgreeInv
  <1> QED
    BY <1>1, RaceStep, PTL DEF Spec

\* The unlocked load and store of a word of the bitset (sync_command.cc:280) may
\* bring cleared bits back but never loses a bit that is still looked for.
THEOREM NoBitIsLost == Spec => []ClearedBitsAccounted
  <1>1. RaceInv => ClearedBitsAccounted
    BY DEF RaceInv, BitsInv, ClearedBitsAccounted, Accounted
  <1> QED
    BY RaceInvariant, <1>1, PTL

\* After the join analysis_ and seed_offsets_ agree on which blocks were found.
THEOREM TablesAgree == Spec => []AnalysesAgree
  <1>1. RaceInv => AnalysesAgree
    <2> SUFFICES ASSUME RaceInv, stage = "joined", NEW w \in DOMAIN index
                 PROVE  /\ analysis[w] = kInvalidOffset <=>
                             seed_offsets[index[w]] = kInvalidOffset
                        /\ analysis[w] # kInvalidOffset =>
                             windows[analysis[w]] = blocks[index[w]]
      BY DEF AnalysesAgree
    <2>1. \A t \in Threads : pc[t] # "storeOffset"
      BY DEF RaceInv, SoundInv, OverWhenJoined
    <2>2. /\ seed_offsets[index[w]] # kInvalidOffset => analysis[w] # kInvalidOffset
          /\ analysis[w] # kInvalidOffset => seed_offsets[index[w]] # kInvalidOffset
      BY <2>1 DEF RaceInv, AgreeInv, Stored
    <2> QED
      BY <2>2 DEF RaceInv, SoundInv, AnalysisSound
  <1> QED
    BY RaceInvariant, <1>1, PTL
-----------------------------------------------------------------------------
(* No window is passed over without a reason. *)

\* A match of thread t keeps it from looking at the window at o.
Hidden(t, o) == \E m \in matches : m.thread = t /\ Hides(m, o)

\* The warmup is over when the windows neither begin before the chunk nor overlap
\* the last match.
CountsDown(t) ==
  \/ pos[t] + warmup[t] <= ChunkBeg(t)
  \/ \E m \in matches : /\ m.thread = t /\ m.offset < pos[t]
                        /\ pos[t] + warmup[t] <= m.offset + block_size

\* A window that is behind thread t and holds a block.
Passed(t, o, w) == o \in Examined(t) /\ o < pos[t] /\ windows[o] = blocks[index[w]]

LookOK(t) ==
  /\ pc[t] = "scan" /\ warmup[t] >= 1 => CountsDown(t)
  /\ pc[t] \in Holding => \E m \in matches : m.thread = t /\ m.offset = pos[t]
  /\ pc[t] = "done" => PastChunk(t)
  /\ \A w \in DOMAIN index : \A o \in SeedRange :
       Passed(t, o, w) => Accounted(w) \/ Hidden(t, o)

\* What was matched, and when.
MatchesOK ==
  /\ \A m \in matches : m.offset \in SeedRange
  /\ stage = "metadata" => matches = {}

LookInv == MatchesOK /\ (stage # "metadata" => \A t \in Threads : LookOK(t))

\* A thread that takes a step leaves the others where they are, and takes back
\* no match.
LEMMA StepOfOne ==
  ASSUME SoundInv, stage = "analysis", NEW t \in Threads, Step(t) \/ CannotOpenSeed(t)
  PROVE  OneThread(t) /\ matches \subseteq matches'
  <1>1. \A u \in Threads \ {t} : pc'[u] = pc[u] /\ pos'[u] = pos[u] /\ warmup'[u] = warmup[u]
    BY LocalType
    DEF Step, Pass, FalsePositive, Match, LoadWord, StoreWord, StoreAnalysis,
        StoreOffset, FinishChunk, CannotOpenSeed, Slide
  <1>2. UNCHANGED <<input, stage, index>> /\ matches \subseteq matches'
    BY DEF Step, Pass, FalsePositive, Match, LoadWord, StoreWord, StoreAnalysis,
           StoreOffset, FinishChunk, CannotOpenSeed, shared
  <1> QED
    BY <1>1, <1>2 DEF OneThread

\* The match that a thread is recording becomes an offset in analysis_, which stays.
LEMMA AccountedStays ==
  ASSUME SoundInv, stage = "analysis", NEW t \in Threads, Step(t) \/ CannotOpenSeed(t),
         NEW w \in DOMAIN index, Accounted(w)
  PROVE  Accounted(w)'
  <1>1. /\ OneThread(t) /\ UNCHANGED <<windows, blocks>> /\ Threads' = Threads
    BY StepOfOne, SameInput DEF OneThread
  <1>2. \A u \in Threads \ {t} : pc'[u] = pc[u] /\ WcsAt(u)' = WcsAt(u)
    BY <1>1 DEF OneThread, WcsAt
  <1>3. CASE StoreAnalysis(t)
    <2>1. /\ analysis \in [DOMAIN index -> SeedOffsets]
          /\ pos[t] \in SeedRange /\ WcsAt(t) \in DOMAIN index
      BY <1>3 DEF SoundInv, TypeOK, ThreadsOK, ThreadOK, Holding, Holds, StoreAnalysis
    <2>2. analysis' = [analysis EXCEPT ![WcsAt(t)] = pos[t]]
      BY <1>3 DEF StoreAnalysis
    <2>3. pos[t] # kInvalidOffset
      BY <2>1 DEF SeedRange, kInvalidOffset
    <2>4. CASE w = WcsAt(t)
      BY <2>1, <2>2, <2>3, <2>4 DEF Accounted
    <2>5. CASE w # WcsAt(t)
      <3>1. analysis'[w] = analysis[w]
        BY <2>1, <2>2, <2>5
      <3>2. \A u \in Matching(w) : u \in Matching(w)'
        BY <1>1, <1>2, <2>5 DEF Matching
      <3> QED
        BY <3>1, <3>2 DEF Accounted
    <2> QED
      BY <2>4, <2>5
  <1>4. CASE ~StoreAnalysis(t)
    <2>1. analysis' = analysis
      BY <1>4
      DEF Step, Pass, FalsePositive, Match, LoadWord, StoreWord, StoreOffset,
          FinishChunk, CannotOpenSeed, shared
    <2>2. ASSUME t \in Matching(w) PROVE t \in Matching(w)'
      <3>1. LoadWord(t) \/ StoreWord(t)
        BY <1>4, <2>2
        DEF Matching, Step, Pass, FalsePositive, Match, StoreAnalysis, StoreOffset,
            FinishChunk, CannotOpenSeed, InLoop
      <3>2. pos' = pos /\ pc'[t] \in {"storeWord", "storeAnalysis"}
        BY <3>1, LocalType DEF LoadWord, StoreWord
      <3> QED
        BY <1>1, <2>2, <3>2 DEF Matching, WcsAt
    <2>3. \A u \in Matching(w) : u \in Matching(w)'
      BY <1>1, <1>2, <2>2 DEF Matching
    <2> QED
      BY <2>1, <2>3 DEF Accounted
  <1> QED
    BY <1>3, <1>4

\* Where the input stays, so do the chunks and what is looked at in them.
LEMMA SameChunks ==
  ASSUME UNCHANGED input
  PROVE  \A u : /\ ChunkBeg(u)' = ChunkBeg(u) /\ ChunkEnd(u)' = ChunkEnd(u)
                /\ Examined(u)' = Examined(u)
                /\ \A o : ReadOf(u, o)' = ReadOf(u, o)
  <1>1. Call' = Call /\ block_size' = block_size /\ SeedRange' = SeedRange
    BY SameInput
  <1>2. \A u : ChunkBeg(u)' = ChunkBeg(u) /\ ChunkEnd(u)' = ChunkEnd(u)
    BY <1>1 DEF ChunkBeg, ChunkEnd
  <1>3. \A u, o : ReadOf(u, o)' = ReadOf(u, o)
    BY <1>1, <1>2 DEF ReadOf
  <1> QED
    BY <1>1, <1>2, <1>3 DEF Examined

\* What thread u has passed stays accounted for, whoever takes a step.
LEMMA PassedStays ==
  ASSUME SoundInv, stage = "analysis", NEW t \in Threads, Step(t) \/ CannotOpenSeed(t),
         NEW u \in Threads, LookOK(u), pos'[u] = pos[u]
  PROVE  \A w \in DOMAIN index' : \A o \in SeedRange' :
           Passed(u, o, w)' => Accounted(w)' \/ Hidden(u, o)'
  <1>1. /\ OneThread(t) /\ matches \subseteq matches' /\ UNCHANGED <<windows, blocks, block_size>>
        /\ SeedRange' = SeedRange /\ index' = index /\ UNCHANGED input
    BY StepOfOne, SameInput DEF OneThread
  <1>2. Examined(u)' = Examined(u)
    BY <1>1, SameChunks
  <1>3. \A o : Hidden(u, o) => Hidden(u, o)'
    BY <1>1 DEF Hidden, Hides
  <1>4. \A w, o : Passed(u, o, w)' <=> Passed(u, o, w)
    BY <1>1, <1>2 DEF Passed
  <1> QED
    BY <1>1, <1>3, <1>4, AccountedStays DEF LookOK

\* The other threads.
LEMMA OthersLook ==
  ASSUME SoundInv, stage = "analysis", NEW t \in Threads, Step(t) \/ CannotOpenSeed(t),
         NEW u \in Threads, u # t, LookOK(u)
  PROVE  LookOK(u)'
  <1>1. /\ OneThread(t) /\ matches \subseteq matches' /\ UNCHANGED <<input, block_size>>
        /\ pc'[u] = pc[u] /\ pos'[u] = pos[u] /\ warmup'[u] = warmup[u]
    BY StepOfOne, SameInput DEF OneThread
  <1>2. /\ ChunkBeg(u)' = ChunkBeg(u) /\ ChunkEnd(u)' = ChunkEnd(u)
        /\ \A o : ReadOf(u, o)' = ReadOf(u, o)
    BY <1>1, SameChunks
  <1>3. CountsDown(u) => CountsDown(u)'
    BY <1>1, <1>2 DEF CountsDown
  <1>4. PastChunk(u)' <=> PastChunk(u)
    BY <1>1, <1>2 DEF PastChunk, ReadOf
  <1>5. \A w \in DOMAIN index' : \A o \in SeedRange' :
          Passed(u, o, w)' => Accounted(w)' \/ Hidden(u, o)'
    BY <1>1, PassedStays
  <1> QED
    BY <1>1, <1>3, <1>4, <1>5 DEF LookOK

\* When a thread moves on, the window it leaves needs a reason.
LEMMA WindowLeft ==
  ASSUME SoundInv, stage = "analysis", NEW t \in Threads, Step(t), LookOK(t),
         pos'[t] = pos[t] + 1,
         \A w \in DOMAIN index :
           pos[t] \in Examined(t) /\ windows[pos[t]] = blocks[index[w]]
             => Accounted(w) \/ Hidden(t, pos[t])
  PROVE  \A w \in DOMAIN index' : \A o \in SeedRange' :
           Passed(t, o, w)' => Accounted(w)' \/ Hidden(t, o)'
  <1>1. /\ OneThread(t) /\ matches \subseteq matches' /\ UNCHANGED <<windows, blocks, block_size>>
        /\ SeedRange' = SeedRange /\ index' = index /\ UNCHANGED input
    BY StepOfOne, SameInput DEF OneThread
  <1>2. Examined(t)' = Examined(t)
    BY <1>1, SameChunks
  <1>3. \A o : Hidden(t, o) => Hidden(t, o)'
    BY <1>1 DEF Hidden, Hides
  <1>4. pos[t] \in Int /\ \A o \in SeedRange : o \in Int
    BY LocalType DEF SeedRange
  <1>5. ASSUME NEW w \in DOMAIN index, NEW o \in SeedRange, Passed(t, o, w)'
        PROVE  Accounted(w) \/ Hidden(t, o)
    <2>1. o \in Examined(t) /\ o < pos[t] + 1 /\ windows[o] = blocks[index[w]]
      BY <1>1, <1>2, <1>5 DEF Passed
    <2>2. o < pos[t] \/ o = pos[t]
      BY <1>4, <2>1
    <2> QED
      BY <2>1, <2>2 DEF LookOK, Passed
  <1> QED
    BY <1>1, <1>3, <1>5, AccountedStays

\* The checksum of a window that holds a block is the one under which the block is
\* looked for.
LEMMA ChecksumOfWindow ==
  ASSUME SoundInv, stage = "analysis", NEW t \in Threads, NEW w \in DOMAIN index,
         windows[pos[t]] = blocks[index[w]]
  PROVE  WcsAt(t) = w
  BY DEF SoundInv, TypeOK, WcsAt

\* A thread that passes over a window has a reason: it is still warming up, or
\* nobody looks for the block any more (sync_command.cc:269).
LEMMA PassLook ==
  ASSUME RaceInv, LookInv, stage = "analysis", NEW t \in Threads, Pass(t)
  PROVE  LookOK(t)'
  <1>1. SoundInv /\ LookOK(t) /\ Step(t) /\ MatchesOK
    BY DEF RaceInv, LookInv, Step
  <1>2. /\ OneThread(t) /\ matches' = matches /\ UNCHANGED <<input, block_size>>
        /\ pc[t] = "scan" /\ pc'[t] = "scan"
        /\ pos'[t] = pos[t] + 1 /\ warmup'[t] = Decremented(warmup[t])
    BY <1>1, LocalType, StepOfOne, SameInput DEF Pass, InLoop, Slide
  <1>3. /\ ChunkBeg(t)' = ChunkBeg(t) /\ ChunkBeg(t) \in Int /\ block_size \in Int
        /\ pos[t] \in Int /\ warmup[t] \in Int
        /\ \A m \in matches : m.offset \in Int
    BY <1>1, <1>2, SameChunks, ChunkStarts, LocalType DEF SoundInv, MatchesOK, SeedRange
  <1>4. ASSUME warmup'[t] >= 1 PROVE CountsDown(t)'
    <2>1. warmup[t] >= 1 /\ warmup'[t] = warmup[t] - 1
      BY <1>2, <1>3, <1>4 DEF Decremented
    <2>2. pos'[t] + warmup'[t] = pos[t] + warmup[t]
      BY <1>2, <1>3, <2>1
    <2>3. CountsDown(t)
      BY <1>1, <1>2, <2>1 DEF LookOK
    <2>4. CASE pos[t] + warmup[t] <= ChunkBeg(t)
      BY <1>3, <2>2, <2>4 DEF CountsDown
    <2>5. CASE \E m \in matches : /\ m.thread = t /\ m.offset < pos[t]
                                  /\ pos[t] + warmup[t] <= m.offset + block_size
      <3>1. PICK m \in matches : /\ m.thread = t /\ m.offset < pos[t]
                                 /\ pos[t] + warmup[t] <= m.offset + block_size
        BY <2>5
      <3>2. m.offset < pos'[t] /\ pos'[t] + warmup'[t] <= m.offset + block_size
        BY <1>2, <1>3, <2>2, <3>1
      <3> QED
        BY <1>2, <3>1, <3>2 DEF CountsDown
    <2> QED
      BY <2>3, <2>4, <2>5 DEF CountsDown
  <1>5. ASSUME NEW w \in DOMAIN index, pos[t] \in Examined(t),
               windows[pos[t]] = blocks[index[w]]
        PROVE  Accounted(w) \/ Hidden(t, pos[t])
    <2>1. WcsAt(t) = w /\ pos[t] < seed_size /\ pos[t] >= ChunkBeg(t)
      BY <1>1, <1>5, ChecksumOfWindow, LocalType DEF Examined, SeedRange
    <2>2. CASE Decremented(warmup[t]) < 0
      <3>1. w \notin set
        BY <2>1, <2>2 DEF Pass, Candidate
      <3> QED
        BY <3>1 DEF RaceInv, BitsInv
    <2>3. CASE ~(Decremented(warmup[t]) < 0)
      <3>1. warmup[t] >= 1
        BY <1>3, <2>3 DEF Decremented
      <3>2. CountsDown(t) /\ ~(pos[t] + warmup[t] <= ChunkBeg(t))
        BY <1>1, <1>2, <1>3, <2>1, <3>1 DEF LookOK
      <3>3. PICK m \in matches : /\ m.thread = t /\ m.offset < pos[t]
                                 /\ pos[t] + warmup[t] <= m.offset + block_size
        BY <3>2 DEF CountsDown
      <3>4. pos[t] < m.offset + block_size
        BY <1>3, <3>1, <3>3
      <3> QED
        BY <3>3, <3>4 DEF Hidden, Hides
    <2> QED
      BY <2>2, <2>3
  <1>6. \A w \in DOMAIN index' : \A o \in SeedRange' :
          Passed(t, o, w)' => Accounted(w)' \/ Hidden(t, o)'
    BY <1>1, <1>2, <1>5, WindowLeft
  <1> QED
    BY <1>2, <1>4, <1>6 DEF LookOK, Holding

\* A false positive holds no block (sync_command.cc:273-279).
LEMMA FalsePositiveLook ==
  ASSUME RaceInv, LookInv, stage = "analysis", NEW t \in Threads, FalsePositive(t)
  PROVE  LookOK(t)'
  <1>1. SoundInv /\ LookOK(t) /\ Step(t)
    BY DEF RaceInv, LookInv, Step
  <1>2. /\ pc'[t] = "scan" /\ pos'[t] = pos[t] + 1 /\ warmup'[t] = Decremented(warmup[t])
    BY <1>1, LocalType DEF FalsePositive, InLoop, Slide
  <1>3. ~(warmup'[t] >= 1)
    BY <1>1, <1>2, LocalType DEF FalsePositive, Candidate, Decremented
  <1>4. \A w \in DOMAIN index : windows[pos[t]] # blocks[index[w]]
    BY <1>1, ChecksumOfWindow DEF FalsePositive, SameContents
  <1>5. \A w \in DOMAIN index' : \A o \in SeedRange' :
          Passed(t, o, w)' => Accounted(w)' \/ Hidden(t, o)'
    BY <1>1, <1>2, <1>4, WindowLeft
  <1> QED
    BY <1>2, <1>3, <1>5 DEF LookOK, Holding

\* The window of a match is left when the match is in analysis_, and the warmup
\* starts again (sync_command.cc:281-284).
LEMMA StoreOffsetLook ==
  ASSUME RaceInv, LookInv, stage = "analysis", NEW t \in Threads, StoreOffset(t)
  PROVE  LookOK(t)'
  <1>1. SoundInv /\ LookOK(t) /\ Step(t) /\ MatchesOK /\ ThreadOK(t)
    BY DEF RaceInv, LookInv, Step, SoundInv, ThreadsOK
  <1>2. /\ pc[t] = "storeOffset" /\ pc'[t] = "scan" /\ pos'[t] = pos[t] + 1
        /\ warmup' = warmup /\ matches' = matches /\ UNCHANGED block_size
    BY <1>1, LocalType, SameInput DEF StoreOffset, Slide
  <1>3. \A w \in DOMAIN index : windows[pos[t]] = blocks[index[w]] => Accounted(w)
    BY <1>1, <1>2, ChecksumOfWindow DEF ThreadOK, Accounted
  <1>4. \A w \in DOMAIN index' : \A o \in SeedRange' :
          Passed(t, o, w)' => Accounted(w)' \/ Hidden(t, o)'
    BY <1>1, <1>2, <1>3, WindowLeft
  <1>5. CountsDown(t)'
    <2>1. PICK m \in matches : m.thread = t /\ m.offset = pos[t]
      BY <1>1, <1>2 DEF LookOK, Holding
    <2>2. pos[t] \in Int /\ warmup[t] \in -1 .. block_size - 1 /\ block_size \in Int
      BY <1>1, LocalType
    <2>3. m.offset < pos'[t] /\ pos'[t] + warmup'[t] <= m.offset + block_size
      BY <1>2, <2>1, <2>2
    <2> QED
      BY <1>2, <2>1, <2>3 DEF CountsDown
  <1> QED
    BY <1>2, <1>4, <1>5 DEF LookOK, Holding

\* Steps on the spot.
LEMMA SpotLook ==
  ASSUME RaceInv, LookInv, stage = "analysis", NEW t \in Threads,
         \/ Match(t) \/ LoadWord(t) \/ StoreWord(t) \/ StoreAnalysis(t)
         \/ FinishChunk(t) \/ CannotOpenSeed(t)
  PROVE  LookOK(t)'
  <1>1. SoundInv /\ LookOK(t) /\ (Step(t) \/ CannotOpenSeed(t))
    BY DEF RaceInv, LookInv, Step
  <1>2. /\ OneThread(t) /\ matches \subseteq matches' /\ UNCHANGED input /\ pos' = pos
    BY <1>1, StepOfOne
    DEF OneThread, Match, LoadWord, StoreWord, StoreAnalysis, FinishChunk, CannotOpenSeed
  <1>3. pc'[t] # "scan"
    BY <1>1, LocalType
    DEF Match, LoadWord, StoreWord, StoreAnalysis, FinishChunk, CannotOpenSeed
  <1>4. pc'[t] = "done" => PastChunk(t)'
    <2>1. ChunkBeg(t)' = ChunkBeg(t) /\ ChunkEnd(t)' = ChunkEnd(t) /\ UNCHANGED block_size
      BY <1>2, SameChunks, SameInput
    <2>2. pc'[t] = "done" => PastChunk(t)
      BY <1>1, LocalType
      DEF Match, LoadWord, StoreWord, StoreAnalysis, FinishChunk, CannotOpenSeed
    <2> QED
      BY <1>2, <2>1, <2>2 DEF PastChunk, ReadOf
  <1>5. pc'[t] \in Holding => \E m \in matches' : m.thread = t /\ m.offset = pos'[t]
    <2>1. CASE Match(t)
      <3>1. [thread |-> t, offset |-> pos[t], wcs |-> WcsAt(t)] \in matches'
        BY <2>1 DEF Match
      <3> QED
        BY <1>2, <3>1
    <2>2. CASE LoadWord(t) \/ StoreWord(t) \/ StoreAnalysis(t)
      BY <1>1, <1>2, <2>2 DEF LookOK, Holding, LoadWord, StoreWord, StoreAnalysis
    <2>3. CASE FinishChunk(t) \/ CannotOpenSeed(t)
      BY <1>1, <2>3, LocalType DEF Holding, FinishChunk, CannotOpenSeed
    <2> QED
      BY <2>1, <2>2, <2>3
  <1>6. \A w \in DOMAIN index' : \A o \in SeedRange' :
          Passed(t, o, w)' => Accounted(w)' \/ Hidden(t, o)'
    BY <1>1, <1>2, PassedStays
  <1> QED
    BY <1>3, <1>4, <1>5, <1>6 DEF LookOK

\* Every step keeps the reasons.
LEMMA LookStep == RaceInv /\ LookInv /\ [Next]_vars => LookInv'
  <1> SUFFICES ASSUME RaceInv, LookInv, [Next]_vars PROVE LookInv'
    OBVIOUS
  <1>1. SoundInv /\ MatchesOK
    BY DEF RaceInv, LookInv
  <1>2. CASE ReadMetadata
    <2>1. /\ UNCHANGED <<input, matches>> /\ stage' = "analysis" /\ matches = {}
          /\ pc' = [t \in Threads |-> "scan"]
          /\ pos' = [t \in Threads |-> ChunkBeg(t) - (block_size - 1)]
          /\ warmup' = [t \in Threads |-> block_size - 1]
      BY <1>1, <1>2 DEF ReadMetadata, MatchesOK, FullWarmup
    <2>2. Threads' = Threads /\ SeedRange' = SeedRange /\ UNCHANGED block_size
      BY <2>1, SameInput
    <2>3. ASSUME NEW t \in Threads PROVE LookOK(t)'
      <3>1. /\ ChunkBeg(t)' = ChunkBeg(t) /\ Examined(t)' = Examined(t)
            /\ ChunkBeg(t) \in Int /\ block_size \in Nat \ {0}
        BY <1>1, <2>1, SameChunks, ChunkStarts DEF SoundInv, InputOK
      <3>2. pc'[t] = "scan" /\ pos'[t] = ChunkBeg(t) - (block_size - 1)
            /\ warmup'[t] = block_size - 1
        BY <2>1
      <3>3. pos'[t] + warmup'[t] <= ChunkBeg(t)'
        BY <3>1, <3>2
      <3>4. \A o \in SeedRange : o \in Examined(t) => ~(o < pos'[t])
        BY <3>1, <3>2 DEF Examined, SeedRange
      <3>5. \A w \in DOMAIN index' : \A o \in SeedRange' : ~Passed(t, o, w)'
        BY <2>2, <3>1, <3>4 DEF Passed
      <3> QED
        BY <3>2, <3>3, <3>5 DEF LookOK, CountsDown, Holding
    <2>4. MatchesOK'
      BY <2>1 DEF MatchesOK
    <2> QED
      BY <2>2, <2>3, <2>4 DEF LookInv
  <1>3. ASSUME NEW t \in Threads, stage # "metadata", Step(t) \/ CannotOpenSeed(t)
        PROVE  LookInv'
    <2>1. stage = "analysis"
      BY <1>1, <1>3, NoStepAfterJoin
    <2>2. OneThread(t) /\ Threads' = Threads /\ SeedRange' = SeedRange /\ stage' = stage
      BY <1>1, <1>3, <2>1, StepOfOne, SameInput DEF OneThread
    <2>3. LookOK(t)'
      BY <1>3, <2>1, PassLook, FalsePositiveLook, StoreOffsetLook, SpotLook DEF Step
    <2>4. \A u \in Threads : LookOK(u)'
      BY <1>1, <1>3, <2>1, <2>3, OthersLook DEF LookInv
    <2>5. MatchesOK'
      <3>1. CASE Match(t)
        <4>1. Holds(t)' /\ pos' = pos
          <5>1. SoundInv'
            BY <1>1, <2>1, <3>1, MatchSound
          <5>2. pc'[t] = "clear" /\ pos' = pos
            BY <1>1, <2>1, <3>1, LocalType DEF Match
          <5> QED
            BY <2>1, <2>2, <5>1, <5>2 DEF SoundInv, ThreadsOK, ThreadOK, Holding
        <4>2. pos[t] \in SeedRange
          BY <2>2, <4>1 DEF Holds
        <4> QED
          BY <1>1, <2>1, <2>2, <3>1, <4>2 DEF MatchesOK, Match
      <3>2. CASE ~Match(t)
        <4>1. matches' = matches
          BY <1>3, <3>2
          DEF Step, Pass, FalsePositive, LoadWord, StoreWord, StoreAnalysis, StoreOffset,
              FinishChunk, CannotOpenSeed
        <4> QED
          BY <1>1, <2>1, <2>2, <4>1 DEF MatchesOK
      <3> QED
        BY <3>1, <3>2
    <2> QED
      BY <2>2, <2>4, <2>5 DEF LookInv
  <1>4. ASSUME UNCHANGED <<input, shared, local, matches>>,
               (stage = "metadata") <=> (stage' = "metadata")
        PROVE  LookInv'
    <2>1. /\ Threads' = Threads /\ SeedRange' = SeedRange
          /\ UNCHANGED <<blocks, windows, block_size, index, analysis, pc, pos, warmup>>
      BY <1>4, SameInput DEF shared, local
    <2>2. MatchesOK'
      BY <1>1, <1>4, <2>1 DEF MatchesOK
    <2>3. ASSUME NEW t \in Threads, LookOK(t) PROVE LookOK(t)'
      <3>1. /\ ChunkBeg(t)' = ChunkBeg(t) /\ ChunkEnd(t)' = ChunkEnd(t)
            /\ Examined(t)' = Examined(t)
        BY <1>4, SameChunks
      <3>2. CountsDown(t)' <=> CountsDown(t)
        BY <1>4, <2>1, <3>1 DEF CountsDown
      <3>3. PastChunk(t)' <=> PastChunk(t)
        BY <2>1, <3>1 DEF PastChunk, ReadOf
      <3>4. \A w : Accounted(w)' <=> Accounted(w)
        BY <2>1 DEF Accounted, Matching, WcsAt
      <3>5. \A w, o : (Passed(t, o, w)' <=> Passed(t, o, w)) /\ (Hidden(t, o)' <=> Hidden(t, o))
        BY <1>4, <2>1, <3>1 DEF Passed, Hidden, Hides
      <3> QED
        BY <1>4, <2>1, <2>3, <3>2, <3>3, <3>4, <3>5 DEF LookOK
    <2> QED
      BY <1>4, <2>1, <2>2, <2>3 DEF LookInv
  <1>5. CASE Join
    <2>1. UNCHANGED <<input, shared, local, matches>> /\ stage # "metadata" /\ stage' # "metadata"
      BY <1>5 DEF Join
    <2> QED
      BY <1>4, <2>1
  <1>6. CASE UNCHANGED vars
    <2>1. UNCHANGED <<input, shared, local, matches>> /\ stage' = stage
      BY <1>6 DEF vars
    <2> QED
      BY <1>4, <2>1
  <1> QED
    BY <1>2, <1>3, <1>5, <1>6 DEF Next, ThreadsRunning

\* Dividing with rounding up keeps an order, below zero too.
LEMMA CeilDivMonotone ==
  ASSUME NEW a \in Int, NEW c \in Int, a <= c, NEW b \in Nat \ {0}
  PROVE  CeilDiv(a, b) \in Int /\ CeilDiv(c, b) \in Int /\ CeilDiv(a, b) <= CeilDiv(c, b)
  <1> DEFINE x == a + b - 1
             y == c + b - 1
             p == x \div b
             q == y \div b
  <1>1. /\ x \in Int /\ y \in Int /\ x <= y
        /\ p \in Int /\ q \in Int
        /\ p * b <= x /\ y < q * b + b
    OBVIOUS
  <1> HIDE DEF x, y, p, q
  <1>2. (q + 1) * b = q * b + b /\ p * b \in Int /\ q * b \in Int
    BY <1>1
  <1>3. p * b < (q + 1) * b
    BY <1>1, <1>2
  <1>4. p < q + 1
    BY <1>1, <1>3, TimesCancels
  <1>5. p <= q
    BY <1>1, <1>4
  <1> QED
    BY <1>1, <1>5 DEF CeilDiv, x, y, p, q

\* A thread that has reached the end of its chunk has passed all of it.
LEMMA ChunkPassed ==
  ASSUME SoundInv, stage # "metadata", NEW t \in Threads, PastChunk(t), NEW o \in Examined(t)
  PROVE  o < pos[t]
  <1>1. pos[t] \in Int /\ o \in Int /\ block_size \in Nat \ {0} /\ ChunkBeg(t) \in Int
    BY ChunkStarts DEF SoundInv, TypeOK, InputOK, Examined, SeedRange
  <1>2. ChunkEnd(t) \in Int
    BY CallIsCall, ChunkStarts, RangeFacts DEF SoundInv, ChunkEnd
  <1> SUFFICES ASSUME pos[t] <= o PROVE FALSE
    BY <1>1
  <1> DEFINE p == CeilDiv(pos[t] - ChunkBeg(t), block_size)
             q == CeilDiv(o - ChunkBeg(t), block_size)
  <1>3. p \in Int /\ q \in Int /\ p <= q
    BY <1>1, CeilDivMonotone
  <1>4. ChunkBeg(t) + p * block_size >= ChunkEnd(t) /\ ChunkBeg(t) + q * block_size < ChunkEnd(t)
    BY DEF PastChunk, Examined, ReadOf
  <1> HIDE DEF p, q
  <1>5. p * block_size <= q * block_size /\ p * block_size \in Int /\ q * block_size \in Int
    BY <1>1, <1>3, TimesMonotone
  <1> QED
    BY <1>1, <1>2, <1>4, <1>5

\* Every window up to the last block of the seed is examined by a thread: the overlap
\* of one block is as much as the windows across the end of a chunk need.
LEMMA WindowHasOwner ==
  ASSUME InputOK, NEW o \in Examinable
  PROVE  \E t \in Threads : o \in Examined(t)
  <1> DEFINE n == BlockCount(seed_size, block_size)
             k == CeilDiv(o, block_size)
             j == IF k = 0 THEN 0 ELSE k - 1
             b == block_size
  <1>1. /\ b \in Nat \ {0} /\ seed_size \in Nat /\ o \in Nat /\ o < seed_size
        /\ o <= (n - 1) * b
    BY DEF InputOK, Examinable, SeedRange, BlockCount
  <1>2. n \in Nat /\ seed_size <= n * b /\ k \in Nat /\ o <= k * b /\ k * b < o + b
    BY <1>1, CeilDivBounds DEF BlockCount
  <1>3. /\ IsCall(Call) /\ Call.block = b /\ Call.size = seed_size /\ Call.overlap = b
    BY CallIsCall DEF Call
  <1> HIDE DEF n, k, b
  <1>4. k < n
    <2>1. k * b < (n - 1) * b + b /\ n * b = (n - 1) * b + b
      BY <1>1, <1>2
    <2>2. k * b < n * b
      BY <2>1
    <2> QED
      BY <1>1, <1>2, <2>2, TimesCancels
  <1>5. /\ j \in 0 .. n - 1 /\ j \in Nat /\ j * b <= o /\ k * b <= j * b + b
    <2>1. CASE k = 0
      BY <1>1, <1>2, <1>4, <2>1
    <2>2. CASE k # 0
      <3>1. j = k - 1 /\ j \in Nat /\ j \in 0 .. n - 1
        BY <1>2, <1>4, <2>2
      <3>2. k * b = j * b + b
        <4>1. k = j + 1
          BY <1>2, <3>1
        <4> QED
          BY <1>1, <3>1, <4>1, NextMultiple
      <3>3. j * b \in Int
        BY <1>1, <3>1
      <3> HIDE DEF j
      <3> QED
        BY <1>1, <1>2, <3>1, <3>2, <3>3
    <2> QED
      BY <2>1, <2>2
  <1> HIDE DEF j
  <1>6. PICK t \in ThreadIds(Call) :
          /\ Beg(Call, t) <= j * b
          /\ j * b + b <= (t + 1) * Chunk(Call) * b
    BY <1>3, <1>5, BlockHasOwner DEF n, b
  <1>7. t \in Threads /\ t \in Nat
    <2>1. ThreadCount(Call) \in Nat
      BY <1>3, ChunkFacts
    <2> QED
      BY <2>1 DEF Threads, ThreadIds
  <1>8. PICK m \in Nat : ChunkBeg(t) = m * b
    BY <1>3, <1>7, BegIsAligned DEF ChunkBeg
  <1>9. m * b \in Nat /\ m * b <= o /\ j * b \in Nat /\ k * b \in Nat
    BY <1>1, <1>2, <1>5, <1>6, <1>8 DEF ChunkBeg
  <1>10. k * b < ChunkEnd(t)
    <2>1. (t + 1) * Chunk(Call) \in Nat
      BY <1>3, <1>7, ChunkFacts
    <2>2. (t + 1) * Chunk(Call) * b \in Nat
      BY <1>1, <2>1
    <2>3. k * b < seed_size
      <3>1. k \in 0 .. BlockCount(Call.size, Call.block) - 1
        BY <1>2, <1>3, <1>4 DEF n, b
      <3> QED
        BY <1>3, <3>1, BlockStartIsInside
    <2> QED
      BY <1>1, <1>3, <1>5, <1>6, <1>9, <2>2, <2>3 DEF ChunkEnd, End, Min2
  <1>11. o - m * b \in Nat
    BY <1>1, <1>9
  <1>12. ReadOf(t, o) <= k * b
    <2> DEFINE q == CeilDiv(o - m * b, b)
    <2>1. q \in Nat /\ q * b < o - m * b + b
      BY <1>1, <1>11, CeilDivBounds
    <2>2. ReadOf(t, o) = m * b + q * b
      BY <1>8 DEF ReadOf, b
    <2> HIDE DEF q
    <2>3. (q + m) * b = q * b + m * b /\ (k + 1) * b = k * b + b /\ q * b \in Int
      BY <1>1, <1>2, <1>8, <2>1
    <2>4. (q + m) * b < (k + 1) * b
      BY <1>1, <1>2, <1>9, <2>1, <2>3
    <2>5. q + m < k + 1 /\ q + m \in Int /\ k + 1 \in Int
      BY <1>1, <1>2, <1>8, <2>1, <2>4, TimesCancels
    <2>6. (q + m) * b <= k * b
      BY <1>1, <1>2, <2>1, <2>5, TimesMonotone
    <2> QED
      BY <1>9, <2>2, <2>3, <2>6
  <1>13. ReadOf(t, o) < ChunkEnd(t) /\ o >= ChunkBeg(t) /\ o \in SeedRange
    <2>1. ReadOf(t, o) \in Int /\ ChunkEnd(t) \in Int
      <3>1. CeilDiv(o - m * b, b) \in Nat
        BY <1>1, <1>11, CeilDivBounds
      <3> QED
        BY <1>1, <1>3, <1>7, <1>8, <1>9, <3>1, RangeFacts DEF ReadOf, ChunkEnd, b
    <2> QED
      BY <1>1, <1>8, <1>9, <1>10, <1>12, <2>1 DEF SeedRange
  <1> QED
    BY <1>7, <1>13 DEF Examined

\* Why every window that was passed over was passed over.
LEMMA LookInvariant == Spec => [](RaceInv /\ LookInv)
  <1>1. Init => LookInv
    BY DEF Init, LookInv, MatchesOK
  <1> QED
    BY <1>1, RaceInvariant, LookStep, PTL DEF Spec

\* No reuse is lost at the borders of chunks, to the warmup or to a race of the
\* threads: only a match that overlaps a window keeps a thread from finding its block.
THEOREM NoReuseIsMissed == Spec => []NoMissedReuse
  <1>1. RaceInv /\ LookInv => NoMissedReuse
    <2> SUFFICES ASSUME RaceInv, LookInv, stage = "joined", \A t \in Threads : pc[t] # "threw",
                        NEW w \in DOMAIN index, analysis[w] = kInvalidOffset,
                        NEW o \in Examinable, windows[o] = blocks[index[w]]
                 PROVE  /\ {t \in Threads : o \in Examined(t)} # {}
                        /\ \A t \in Threads : o \in Examined(t) =>
                             \E m \in matches : m.thread = t /\ Hides(m, o)
      BY DEF NoMissedReuse
    <2>1. SoundInv /\ \A t \in Threads : pc[t] = "done"
      BY DEF RaceInv, SoundInv, OverWhenJoined
    <2>2. \E t \in Threads : o \in Examined(t)
      BY <2>1, WindowHasOwner DEF SoundInv
    <2>3. ~Accounted(w)
      BY <2>1 DEF Accounted, Matching
    <2>4. ASSUME NEW t \in Threads, o \in Examined(t) PROVE Hidden(t, o)
      <3>1. LookOK(t) /\ PastChunk(t)
        BY <2>1 DEF LookInv, LookOK
      <3>2. o < pos[t] /\ o \in SeedRange
        BY <2>1, <2>4, <3>1, ChunkPassed DEF Examined
      <3> QED
        BY <2>3, <2>4, <3>1, <3>2 DEF LookOK, Passed
    <2> QED
      BY <2>2, <2>4 DEF Hidden
  <1> QED
    BY LookInvariant, <1>1, PTL

-----------------------------------------------------------------------------
(* One thread alone. *)

\* A thread that has nobody beside it clears the bit of what it matched for good.
OnceOK(t) ==
  /\ \A m \in matches : m.wcs \in set => pc[t] \in {"clear", "storeWord"} /\ m.wcs = WcsAt(t)
  /\ pc[t] = "storeWord" => word[t] \subseteq set
  /\ \A m, n \in matches : m.wcs = n.wcs => m = n

OnceInv ==
  /\ stage = "metadata" => matches = {}
  /\ stage # "metadata" => \A t \in Threads : Threads = {t} => OnceOK(t)

\* The bit of a checksum is in its own word.
LEMMA OwnWord ==
  ASSUME SoundInv, stage = "analysis", NEW w \in DOMAIN index
  PROVE  w \in WordBits(w)
  <1>1. PICK i \in Indices : w = Weak[blocks[i]]
    BY DEF SoundInv, TypeOK
  <1>2. blocks[i] \in DOMAIN Weak
    BY DEF SoundInv, InputOK
  <1> QED
    BY <1>1, <1>2, WordAssumption DEF WordBits

\* The only thread takes a step.
LEMMA OnlyThreadOnce ==
  ASSUME SoundInv, stage = "analysis", NEW t \in Threads, Step(t) \/ CannotOpenSeed(t), OnceOK(t)
  PROVE  OnceOK(t)'
  <1>1. UNCHANGED <<blocks, windows>> /\ OneThread(t)
    BY StepOfOne, SameInput DEF OneThread
  <1>2. CASE Match(t)
    <2> DEFINE new == [thread |-> t, offset |-> pos[t], wcs |-> WcsAt(t)]
    <2>1. /\ matches' = matches \union {new} /\ set' = set /\ pos' = pos
          /\ pc[t] = "scan" /\ pc'[t] = "clear" /\ WcsAt(t) \in set
      BY <1>2, LocalType DEF Match, InLoop, Candidate, shared
    <2>2. \A m \in matches : m.wcs \notin set
      BY <2>1 DEF OnceOK
    <2>3. new.wcs = WcsAt(t)
      OBVIOUS
    <2> HIDE DEF new
    <2>4. WcsAt(t)' = WcsAt(t)
      BY <1>1, <2>1 DEF WcsAt
    <2> QED
      BY <2>1, <2>2, <2>3, <2>4 DEF OnceOK
  <1>3. CASE LoadWord(t)
    <2>1. /\ matches' = matches /\ set' = set /\ pos' = pos
          /\ pc[t] = "clear" /\ pc'[t] = "storeWord" /\ word'[t] \subseteq set
      BY <1>3, LocalType DEF LoadWord, shared
    <2>2. WcsAt(t)' = WcsAt(t)
      BY <1>1, <2>1 DEF WcsAt
    <2> QED
      BY <2>1, <2>2 DEF OnceOK
  <1>4. CASE StoreWord(t)
    <2> DEFINE w == WcsAt(t)
    <2>1. /\ matches' = matches /\ set' = (set \ WordBits(w)) \union (word[t] \ {w})
          /\ pc[t] = "storeWord" /\ pc'[t] = "storeAnalysis"
      BY <1>4, LocalType DEF StoreWord, WordWithoutBit
    <2>2. w \in WordBits(w)
      BY <2>1, OwnWord DEF SoundInv, ThreadsOK, ThreadOK, Holding, Holds
    <2>3. set' \subseteq set /\ w \notin set'
      BY <2>1, <2>2 DEF OnceOK
    <2>4. \A m \in matches : m.wcs \in set => m.wcs = w
      BY DEF OnceOK
    <2> HIDE DEF w
    <2> QED
      BY <2>1, <2>3, <2>4 DEF OnceOK
  <1>5. CASE StoreAnalysis(t) \/ StoreOffset(t) \/ Pass(t) \/ FalsePositive(t) \/ FinishChunk(t)
             \/ CannotOpenSeed(t)
    <2>1. /\ matches' = matches /\ set' = set
          /\ pc[t] \notin {"clear", "storeWord"} /\ pc'[t] # "storeWord"
      BY <1>5, LocalType
      DEF StoreAnalysis, StoreOffset, Pass, FalsePositive, FinishChunk, CannotOpenSeed,
          InLoop, shared
    <2> QED
      BY <2>1 DEF OnceOK
  <1> QED
    BY <1>2, <1>3, <1>4, <1>5 DEF Step

\* Every step keeps what one thread guarantees.
LEMMA OnceStep == SoundInv /\ OnceInv /\ [Next]_vars => OnceInv'
  <1> SUFFICES ASSUME SoundInv, OnceInv, [Next]_vars PROVE OnceInv'
    OBVIOUS
  <1>1. CASE ReadMetadata
    <2>1. matches' = {} /\ stage' # "metadata" /\ pc' = [t \in Threads |-> "scan"] /\ UNCHANGED input
      BY <1>1 DEF ReadMetadata, OnceInv
    <2>2. Threads' = Threads
      BY <2>1, SameInput
    <2> QED
      BY <2>1, <2>2 DEF OnceInv, OnceOK
  <1>2. ASSUME NEW t \in Threads, stage # "metadata", Step(t) \/ CannotOpenSeed(t)
        PROVE  OnceInv'
    <2>1. stage = "analysis"
      BY <1>2, NoStepAfterJoin
    <2>2. Threads' = Threads /\ stage' = stage
      BY <1>2, <2>1, StepOfOne, SameInput DEF OneThread
    <2>3. ASSUME NEW u \in Threads, Threads = {u} PROVE OnceOK(u)'
      <3>1. u = t /\ OnceOK(u)
        BY <1>2, <2>3 DEF OnceInv
      <3> QED
        BY <1>2, <2>1, <3>1, OnlyThreadOnce
    <2> QED
      BY <2>1, <2>2, <2>3 DEF OnceInv
  <1>3. ASSUME UNCHANGED <<input, shared, local, matches>>,
               (stage = "metadata") <=> (stage' = "metadata")
        PROVE  OnceInv'
    <2>1. /\ Threads' = Threads /\ UNCHANGED <<windows, set, pc, pos, word>>
      BY <1>3, SameInput DEF shared, local
    <2> QED
      BY <1>3, <2>1 DEF OnceInv, OnceOK, WcsAt
  <1>4. CASE Join
    <2>1. UNCHANGED <<input, shared, local, matches>> /\ stage # "metadata" /\ stage' # "metadata"
      BY <1>4 DEF Join
    <2> QED
      BY <1>3, <2>1
  <1>5. CASE UNCHANGED vars
    <2>1. UNCHANGED <<input, shared, local, matches>> /\ stage' = stage
      BY <1>5 DEF vars
    <2> QED
      BY <1>3, <2>1
  <1> QED
    BY <1>1, <1>2, <1>4, <1>5 DEF Next, ThreadsRunning

\* With one thread no checksum is matched twice: a cleared bit (sync_command.cc:280)
\* comes back only when another thread writes its word.
THEOREM MatchesOnce == Spec => []OneThreadMatchesOnce
  <1>1. Init => OnceInv
    BY DEF Init, OnceInv
  <1>2. SoundInv /\ OnceInv => OneThreadMatchesOnce
    <2> SUFFICES ASSUME SoundInv, OnceInv, Cardinality(Threads) = 1, NEW m \in matches,
                        NEW n \in matches, m.wcs = n.wcs
                 PROVE  m = n
      BY DEF OneThreadMatchesOnce
    <2>1. ThreadCount(Call) \in Nat \ {0}
      BY CallIsCall, ChunkFacts DEF SoundInv
    <2>2. ThreadCount(Call) = 1
      <3>1. Threads = 0 .. ThreadCount(Call) - 1
        BY DEF Threads, ThreadIds
      <3>2. Cardinality(Threads) = ThreadCount(Call) - 1 - 0 + 1
        BY <2>1, <3>1, FS_Interval
      <3> QED
        BY <2>1, <3>2
    <2>3. Threads = {0}
      BY <2>2 DEF Threads, ThreadIds
    <2>4. stage # "metadata"
      BY DEF OnceInv
    <2>5. OnceOK(0)
      BY <2>3, <2>4 DEF OnceInv
    <2> QED
      BY <2>5 DEF OnceOK
  <1> QED
    BY <1>1, SoundInvariant, OnceStep, <1>2, PTL DEF Spec
=============================================================================
