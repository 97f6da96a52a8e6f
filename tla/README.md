# TLA+ models of kysync

kysync brings a file up to date from an older copy (the *seed*) and from a
compressed, block-wise copy of the new version (the *data* file, usually behind
HTTP). `prepare` makes the data file and a metadata file; `sync` reads the
metadata, looks for the blocks of the new version in the seed, and rebuilds the
new version from seed and data. Both commands cut their files into ranges and
work on them with several threads, mostly without locks, while an observer
thread polls their progress.

The modules here are translated from the C++ sources. Line numbers refer to
`src/src/...` and `src/kylibs/...`; `PROJECT.json` maps every definition to the
lines it stands for.

## 1. Inventory

| Component | State | Operations | Interacts with |
|---|---|---|---|
| **Parallelize** (`kylibs/parallelize`) | the ranges, one future per task | launch a task per range, wait for every future | called by all three phases; runs their loops |
| **Observable / Observer** (`kylibs/observability`) | four atomics (`is_ready_for_next_phase_`, `phase_`, `progress_`, `total_`), `phases_` of the observer | `StartNextPhase`, `AdvanceProgress` / `Update`, `AdvancePhase`, `SnapshotPhases` | the command's thread and the observer's share the atomics |
| **Sync: metadata and seed analysis** (`sync_command.cc:157-323`) | bitset `set_`, map `analysis_`, vector `seed_offsets_`, metrics, a warmup per thread | `ReadMetadata`, `AnalyzeSeedChunk`, `AnalyzeSeed` | Parallelize with an overlap; result read by the reconstruction |
| **Sync: reconstruction** (`sync_command.cc:325-530`) | output file, batch and stream position per thread, metrics | copy from seed, enqueue, flush, verify | Parallelize, readers, FileStreamProvider |
| **Prepare** (`prepare_command.cc`) | data file, metadata file, tables of checksums and sizes, a stream per thread | prepare chunk, compact in place, write metadata | Parallelize, FileStreamProvider |
| **Readers: base, file, memory** | none that is kept between calls | `Read`, batched `Read`, `Create` | used by analysis, reconstruction, prepare |
| **Reader: HTTP** (`readers/http_reader.cc`) | a client; while parsing, the range of the part | plain and batched range requests, parsing of multipart answers | used for metadata and data; calls the callback of the reconstruction |
| **Checksums** | window sums | direct and rolling weak checksum, strong checksum | analysis, prepare, verification |
| **FileStreamProvider** | a path | `CreateFileStream` (never truncates), `Resize` | prepare, reconstruction |
| **Metadata encoding** (`pb/header_adapter.cc`, `streams`) | the metadata file: header, three tables | write and read the header, write the tables | prepare writes it, sync reads it, possibly at the same time |
| **main, commands** | the options | start prepare or sync; any exception ends the process | Observer |
| **Metrics, timer, temp paths** | counters | - | - |

What is hard, component by component, and what makes it correct:

* *Parallelize.* Two roundings and a correction for small files decide the
  ranges: no block may be lost, shared or invented, at any size. Tasks may run
  at any time or be deferred, and may throw unnoticed; the callers depend on
  the call being a barrier.
* *Observability.* No lock joins the flag and the phase number; the two threads
  see each other's stores one at a time. Every `StartNextPhase` must be answered
  once, records must not get mixed up, and the wait must end.
* *Seed analysis.* All threads read and write one bitset, one map and one vector
  without a lock. Whatever is lost or doubled by it, a block must only be reused
  from where the seed holds it; and no reuse may be lost at chunk boundaries.
* *Reconstruction.* The stream of a thread is written sequentially for blocks of
  the seed and moved back and forth for batched blocks; nothing checks its
  position. Data may be of another version; everything is caught at the end by
  the hash, or earlier by a `CHECK`, or not at all if a task could not start.
* *Prepare.* Frames are compacted within one file by a reading and a buffered
  writing stream. Nothing is truncated at the start, so crashes and reruns leave
  remains. The metadata file is complete before the data file is closed.
* *HTTP reader.* The server decides how it answers: with the whole file, with
  ranges joined, reordered, cut or left out. Two comparisons in the callback are
  all there is to notice; bytes are written to the output before the rest of the
  answer is seen.
* *Checksums.* The rolling checksum is carried over blocks and wraps all the
  time; if it ever differs from the direct one, nothing fails, but no block of
  the seed is found any more.
* *Publisher and sync.* The two published files are written and read piece by
  piece without any coordination. A sync may see the header of one version, a
  table of another and frames of a third, or a file that is cut off. It must not
  deliver a mixture, and nothing that it may read must keep it from its end;
  undisturbed, it must not fail.

`PROJECT.json` lists the single hazards with their lines and the properties
that cover them.

## 2. Modules

```
ChunkRanges ----+-- Parallelize ---- Parallelize_proofs        Files
  (operators)   +-- SeedAnalysis --- SeedAnalysis_proofs         |
                |      | refines                              Metadata
                |   SeedReuse                                    |
                +-- Reconstruct  (starts from what SeedReuse     |
                |    |            allows; uses Files)            |
                |    +-- Reconstruct_proofs                      |
                +-- Prepare -------------------------------------+
                     |
                   KySync -- KySync_proofs  (about Prepare too)
                     | refines
                   FileSync

PhaseHandshake ---- PhaseHandshake_proofs
WeakChecksum ------ WeakChecksum_proofs
HttpRead ---------- HttpRead_proofs

RangesAndFiles_proofs: lemmas about ChunkRanges, Files and concatenations, for all
proofs about them
```

* **ChunkRanges**: the arithmetic of `parallelize.cc:8-36`, as operators on the
  record of arguments. All modules of the phases use it, so that they run on the
  very ranges the code computes. `RangesAndFiles_proofs` has the facts about them:
  ranges begin on block starts, they tile the file, every block has an owner,
  and with an overlap neighbours share one; and what reads, writes and `Resize`
  of Files do to each cell.
* **Parallelize**: one call. `caller`, `next`: the calling thread; `worker`: what
  became of each task; `at`: the loop variable of the loop that all three callers
  write (`for (offset = beg; offset < end; offset += block_size)`); `handled`:
  the blocks done. `std::async` has no policy argument, so `Launch` chooses
  between a thread and a deferred task; a deferred one starts in the caller's
  `wait()`. `Throw` is any exception in a task: `wait()` does not rethrow.
* **PhaseHandshake**: one action per load or store of an atomic. `cmd` and `obs`
  are the program counters of the two threads. Without an observer
  (`monitored = FALSE`) the command advances the phase itself, as in the unit
  tests. Times, messages and the 100 ms are abstracted: a timeout can always
  happen while the command has not returned.
* **SeedReuse**: the abstract specification of the analysis: offsets are given to
  blocks one by one, only where the seed holds the block, never withdrawn, and
  not any more after the end.
* **SeedAnalysis**: the callback of `sync_command.cc:265-289` in its steps. The
  contents of a block or window is one value, `Weak` any function of it, and
  `Word` the layout of the bitset: clearing a bit is a load and a store of a word
  that other checksums share. `pos` is `seed_offset + offset`, the window looked
  at. `warmup` stops at -1, as only its sign is tested. `matches` is a history
  variable that only `NoMissedReuse` and `OneThreadMatchesOnce` read. An access
  of a `std::vector` element or of the offset in a map entry is one step; the
  map's nodes exist before the threads do, so its structure never changes.
* **Files**: files as sequences of cells: short reads, writes behind the end,
  `Resize`.
* **Reconstruct**: one block of a thread's loop or one member of a batch is a
  step (threads share nothing but the output file, whose cells they write, and
  metrics, which are atomic). The buffer of a batched read is modelled with what
  earlier members leave in it (`reader.cc:27-41`). A cell of the data file knows
  which frame it is part of; decompression succeeds on a whole frame. A failed
  `CHECK` ends the process (`status = "aborted"`, with its `cause`). A
  `StartNextPhase` that never returns (finding 1) is the step `WaitForever`, which
  may be taken at each of the calls and leads to `status = "stuck"`.
* **Prepare**: threads write frames to slots through buffered streams (the last
  write reaches the file with the next seek or the close); the compacting stream
  is written out whenever the library likes (`WriteOut`). The reading stream seeks
  before every read, which discards what it had read ahead. `Rerun` may happen at
  any moment: it stands for a crash followed by a second run, and for a later
  run on another input. The metadata file is truncated when it is opened, and
  written through a stream whose buffer reaches the file in pieces of any length
  (`FlushMetadata`, `CloseMetadata`), before the data file gets its last bytes
  (`CloseOutput`). At each of the four calls of `StartNextPhase` the command may
  get stuck (`WaitForever`), with its streams open; it may be killed then, as always.
* **Metadata**: what `WriteHeader` and `StreamWrite` put into the metadata file
  and what `ReadHeader` and `ReadIntoContainer` make of it, for whole and for
  cut-off files. A field of the header and an entry of a table are one cell each:
  a field that is zero is left out, a missing one is read as zero or as the empty
  hash, and the verdict of the parser is ignored as in `header_adapter.cc:36`.
* **KySync**: a publisher (all of `Prepare`, with its crashes and reruns) and a
  sync that may begin at any moment. Each read of the sync is a step of its own
  and sees the files as they are then. The analysis is any assignment of offsets
  that `SeedReuse` allows, which `SeedAnalysis` is proved to implement; blocks are
  rebuilt one after the other, since threads and batches are the subject of
  `Reconstruct`. A failed `CHECK` is the state `failed`, with whatever the output
  holds by then. Bytes of other things that are read as a compressed size are any
  of `GarbageSizes`; a block whose size is read as 0 is passed over (`SkipBlock`),
  since the loop of `sync_command.cc:386` does not run for it. Either command may
  get stuck in a `StartNextPhase` (`WaitForever`, `SyncWaitForever`).
* **FileSync**: the abstract specification of that: versions are offered and
  withdrawn at will; a sync chooses the one on offer at some moment, and delivers
  it whole, or fails. In the refinement the version on offer is the hash of the
  complete header in the metadata file, and the chosen one that of the header the
  sync has read: what is delivered has exactly that hash, although tables and
  frames may have come from other runs.
* **HttpRead**: one read. A body is the sequence of its delimiters, lines and
  bytes; the byte at offset `o` of the file is `o`, so a byte tells where it
  came from. `Answers` is the server: 206 with the ranges that begin in the file,
  joined, reordered, as one body or in parts, with or without the total length;
  or 200 with the whole file, the only choice when a range is not valid. The
  states of the parser are those of `http_reader.cc:73-78`, and a chunk is handed
  on as the callback does it: `CopyChunk` for a plain read, `HandMember` and its
  two failing comparisons for a batch.
* **WeakChecksum**: one turn of the loop of `weak_checksum.cc:31-35` is a step,
  with the buffer of two blocks that the analysis moves over the seed.

`MC*.tla` and `*.cfg` are the instances. Operators preceded by "Plausible slip"
are not used by the models: they are the mutants of `PROJECT.json`, each of which
replaces the definition after it and must break a property.

## 3. Runs

The configurations of calls, commands and processes that end have
`CHECK_DEADLOCK FALSE`, also because a command may really be stuck (finding 1);
`HttpRead`, which says where it ends (`Terminated`), and
`WeakChecksum`, which goes on, are checked for deadlock. Liveness is checked
under `FairSpec` or `FairSystem`. The type invariants of Parallelize,
PhaseHandshake and SeedAnalysis are theorems (section 4) and part of no run.

| Run | Instance | What it shows |
|---|---|---|
| `parallelize` | sizes 0-7, blocks of 1-3 bytes, 1-3 threads, overlap 0 or one block | blocks are neither lost nor shared nor invented; windows across chunks are seen; the call is a barrier and returns, with deferred and throwing tasks |
| `phase_handshake` | 5 phases (as many as `sync` starts) of different lengths, with and without observer | calls and phases stay in step, a record per phase, what a record may show, and the wait ends if `phase_` was read in time |
| `phase_handshake_hang` | the same | **violation**: the wait need not end (finding 1) |
| `seed_analysis` | 2-byte blocks, sources with repeated, colliding and partial blocks; all seeds of 5 and 6 bytes over two values and some short ones; 1-2 threads; two checksums in one word | offsets are sound, tables agree, bits are not lost, no reuse is missed, refinement of SeedReuse; the threads, once launched, end |
| `reconstruct` | up to 4 blocks, batches of 0-3, compressed or not, every sound assignment of seed offsets, genuine data or data of another version, three old outputs, 1-2 threads | stream positions, bounds of the file and of batches, only bytes of the source, no failure with good data, accounting; no block or batch keeps a run from its end, though a `StartNextPhase` may |
| `reconstruct_zeros` | sources and seeds with zero bytes | **violation**: a size check fails (finding 2) |
| `prepare` | up to 4 blocks with frames smaller and larger than a block, 1-2 threads, one rerun at any point, no old file or a longer one | slots survive the compaction, data and metadata are right in the end, order of the two files, progress; the last run ends or is stuck in a `StartNextPhase` |
| `kysync` | four versions of a file (of 0, 2, 3 and 5 bytes, in blocks of 2, one ending in a zero), a seed with some of the blocks, a longer old output, one publisher thread, one rerun of it at any point, a sync that begins at any point, sizes of 0 or 3 read from other bytes | what is delivered is one version whole (refinement of FileSync); an undisturbed sync does not fail, zero bytes apart; whatever a sync reads it ends, or is stuck in a `StartNextPhase` |
| `http_read` | a file of 6 bytes; batches of 1-3 ascending members of 1-2 bytes, adjacent, apart or behind the end; plain reads of 0-8 bytes anywhere; every answer | members get their own bytes or the read fails; no foreign byte is written before it fails; ordered answers are accepted |
| `http_read_whole` | the same | **violation**: a whole file is taken for the range (finding 3) |
| `weak_checksum` | blocks of 1-3 bytes, four byte values of both signs, sums modulo 8, seeds of any length | the rolling checksum is the direct one of the window, always |
| `weak_checksum_reach` | blocks of 2-3 bytes | **violation**: a byte before the documented range is read (finding 4) |

Why the bounds are enough:

* the ranges depend on the size only through the number of blocks and through
  whether the last one is partial. Up to 7 blocks on 3 threads include the
  widened single range, ranges that are shorter than the others, empty ranges
  and ranges that begin behind the end;
* the races of the analysis are between two threads in a few statements; three
  threads add no new pair. Two blocks per thread are what it takes for the code
  to use two threads at all, and with the overlap of one block both threads see
  the same windows in the middle;
* a batch of 0 or 1 flushes at once, one of 2 in the middle of the loop, one of
  3 only at its end;
* a slot of three cells with frames of one, two and three cells lets the
  compacting stream lag behind, catch up and never overtake; the old file is
  longer than all slots together. One rerun is enough because a run starts from
  nothing but the two files;
* one sync and one rerun of the publisher give the sync files of up to two runs,
  each in every state of being written, and that is all that one read and the
  next can tell apart; the threads of the publisher are checked in `prepare`;
* three members have a first, a middle and a last one, so joins at either end, of
  all, and reorderings that keep one of them in place; a file of six bytes leaves
  room for gaps and for ranges that are cut;
* modulo 8, sums of three bytes wrap at nearly every step; the state after a call
  depends on the seed only through the last block and the two sums, so seeds of
  any length are covered.

Fairness. Every thread of the program is scheduled by the operating system, and
tasks, observer and command never block except on each other: weak fairness for
the steps of each thread. The 100 ms wait of the observer always ends. Nothing
is assumed of exceptions (`Throw`, `CannotOpen`, `CannotOpenSeed`), early writes
of stream buffers and reruns: they may happen, or not. `FairSystem` asks for the
steps of a sync that was started, and for nothing of the publisher: what a sync
does ends also if the publisher stops for good in the middle of a file.

By finding 1 this fairness does not make `StartNextPhase` return, so no property
says that it does. In Reconstruct, Prepare and KySync the steps that follow one of
the calls are fair, and beside them stands the step to the stuck state, which is part
of `Next` and of no fairness condition: at each call the command goes on, or stays
for ever. `RunEnds`, `PrepareEnds` and `SyncEnds` name the stuck state as one of the
ends; what they show is that nothing else, neither blocks, batches and threads nor
what is read from the files, keeps a command from its end. `AnalysisEnds` is about
the threads of the analysis once they are launched, and takes the two calls before
that (`sync_command.cc:227` and `312`) to have returned. Parallelize has no such
call.

Conditions that are part of a property: `AllBlocksHandled`, `NeighboursSeenTogether`,
`NoMissedReuse` and `BytesAccounted` speak of calls whose tasks did not throw,
because a task that does is ignored by the code; `NoSpuriousFailure` and
`OnlySourceBytes` speak of data made from the source (`genuine`), the former of
files without zero bytes, because of finding 2; `TimelyWaitEnds` of a wait whose
answer is still to come, and `RunEnds`, `PrepareEnds` and `SyncEnds` of commands
that end or are stuck, because of finding 1. `OutputKeepsSize` and the other
properties of Reconstruct are about sound seed offsets (`SeedAssumption`) and any
data file; `BatchBounded` about an option that is not negative: in the comparison of
`sync_command.cc:399` a negative one would be larger than any batch. `NoMissedReuse` speaks of windows
that begin at or before the last block of the seed: the loop over the seed ends
there, so a window that begins inside the last block is never looked at. Such a
window is padded with zeros, so all that can be missed is a block that ends in
them: a partial last block of the source that lies elsewhere in the seed's last
block, which is then downloaded. `OkMeansExact`, `NoForeignBytes` and
`OrderedAnswersAccepted` speak of 206 answers, because of finding 3.
`NoForeignBytes` leaves out answers whose parts are reordered and do not say the
total length of the file: the parser does not understand their headers, keeps the
range of the part before, and the callback may write foreign bytes before the
read fails; `OkMeansExact` shows that it does fail. That no member is left out
holds while the file has all of them: a server drops ranges behind its end, the
read then returns less without an error, and in a sync it is the final hash that
notices. `OrderedAnswersAccepted` excepts answers with bytes nobody asked for.
`BytesAccounted` counts the downloads of an uncompressed file exactly only for
genuine data: a short read may leave bytes in the buffer that happen to be right
(reader.cc:27-41), and the block is then kept although fewer bytes were read.
`QuietSyncSucceeds` is about a sync that begins after a publication is finished
and sees no other begin. What it delivers is right in any case. It may get stuck
(finding 1), and that it does not fail needs input and seed to be free of zero bytes
(`ZeroFree`), because of finding 2: one of the versions of the `kysync` run ends in a zero, and without
the condition TLC finds the failing sync.

## 4. Theorems

The `*_proofs` modules are checked by TLAPS, for every value of the constants
that satisfies the named assumptions. TLC evaluates the assumptions in the runs.

| Assumption | What it asks for |
|---|---|
| `CallsAssumption` (Parallelize) | a positive block size and thread count, a file size in Nat |
| `CallsAssumption` (PhaseHandshake) | at least one phase, each with an amount of work in Nat |
| `InputsAssumption` (SeedAnalysis, Reconstruct) | files and sizes of the right kind, tables that fit the number of blocks, a positive block size and thread count; no compressed size is 0 (Reconstruct), as no frame is empty |
| `WordAssumption` (SeedAnalysis) | the bitset has a bit for every checksum: `set_` has 2^32 of them (`sync_command.cc:64`) |
| `SeedAssumption` (Reconstruct) | offsets point at places where the padded seed holds the block: what SeedAnalysis is proved to deliver |
| `GenuineAssumption` (Reconstruct) | inputs that are marked `genuine` have a data file with the frames of the source, each of its announced size |
| `RunsAssumption` (Prepare) | a positive block size and thread count, and that the slot is at least as long as any frame, as `ZSTD_compressBound` promises, and no frame is empty |
| `GarbageAssumption`, `SeedsAssumption` (KySync) | a size that is read from other bytes is a natural number; seeds are sequences of bytes |
| `HttpReadAssumption` (HttpRead) | a file that is not empty; a request is a plain read of one range, or a batch of at least one that are in ascending order and do not overlap, as the reconstruction queues them (`sync_command.cc:480-489`) |
| `WeakChecksumAssumption` (WeakChecksum) | a positive modulus and block size; bytes are integers |

* **Parallelize_proofs** (`TypeCorrect`, `NoBlockIsShared`, `NoPhantomBlocks`,
  `NoBlockIsLost`, `NoWindowFallsBetween`, `ReturnIsFinal`). The properties are
  not inductive: `handled` alone does not say what a task has still to do. `IInv`
  adds that a loop variable is a multiple of the block size within or just
  behind its range, that `handled` is every block start of the range below it,
  and that the tasks the caller has waited for are over. The rest is arithmetic
  about the ranges (`RangesAndFiles_proofs`): a range begins where the one before
  ends, so two ranges without overlap share no block, and each block has an
  owner, which by the invariant has handled it.
* **PhaseHandshake_proofs** (`TypeCorrect`, `NoCallAnsweredTwice`,
  `RecordsFollowPhases`, `RecordsAreShortOrStale`), for any number of phases and
  any work. `Inv` says that a call is either *pending* (the flag is up, or the
  observer holds it between its two stores) or *settled* (advanced, flag down,
  nobody can advance again), what `progress_` holds at each statement of the
  command, and what the observer may have read. `AnnounceReady` is the only way
  from settled to pending, and `AdvancePhase` the only way back.
* **SeedAnalysis_proofs** (`TypeCorrect`, `OffsetsAreSound`, `Refinement`,
  `NoBitIsLost`, `TablesAgree`, `NoReuseIsMissed`, `MatchesOnce`), for any contents,
  checksum function, bitset layout and number of threads. `SoundInv`: a thread between its comparison and
  its last store holds a window equal to the block, and both tables only hold
  such offsets; it does not depend on any order between threads, which is why
  the missing locks do no harm here. `Refinement` (`Spec => ImplementsSeedReuse`)
  maps each `StoreOffset` to a `Reuse` and `Join` to `Finish`. `BitsInv`: a bit
  that is clear, or is missing in a word that a thread has loaded, is accounted
  for by a recorded match or by a thread about to record one. `AgreeInv`: an
  offset in one table is in the other, or on its way. That the last block with a
  weak checksum exists (`ReadMetadata` chooses it) is proved by well-founded
  induction (`LargestExists`).
  `NoReuseIsMissed` needs to know why a thread has left the windows behind it.
  `LookInv` says: `warmup` counts down to the begin of the chunk or to the end of the
  thread's last match, and each window before the thread's position that
  holds a block is covered by a match of the thread, or its bit was clear, and by
  `BitsInv` the block then has a match or is about to get one. That each examinable
  window lies in the chunk of some thread is the point of the overlap of one block
  (`WindowHasOwner`). `MatchesOnce` needs that with one thread a bit is clear as
  soon as the match is recorded, and is not brought back (`OnceInv`).

* **Reconstruct_proofs** (`TypesHold`, `StreamStandsAtBlock`, `OutputNeverGrows`,
  `BatchesAreBounded`, `WritesOnlySourceBytes`, `FailuresAreReal`,
  `EveryByteIsCounted`), for any files, batch size and thread count. `LayoutInv` holds whatever the data file contains.
  Neither `PositionTracksOffset` nor `OutputKeepsSize` is inductive: where a stream
  stands between two blocks depends on where the flush of a batch has left it, and
  a write stays in the file only if what is queued lies in it. So the invariant says
  that a loop variable is a block's first byte, that every queued member is what the
  loop queues for some block of the source (`Infos`), that a flush before the end of
  the chunk comes right after the block was queued that ends at the loop variable,
  and that otherwise a batch in the loop has room for one more. `ContentInv`, for
  genuine data, says what the output still lacks: every block of its chunk that a
  loop has passed is right already or waits in the batch (`Covered`), the
  verification begins when all tasks are over, and a process that was aborted has
  an output with another hash, or met zero bytes (`CauseOK`). `WritesOnlySourceBytes`
  is an action property: by `LayoutInv` and `GenuineAssumption` every write is that
  of one block of the source at its place. For `EveryByteIsCounted`, `AccountInv`
  says which blocks are written (`Handled`: a thread has passed them and they do not
  wait in its batch) and that the counters are the sums of their sizes. Each step
  adds at most one block to them, and never one that was there before, since a block
  waits once (`QueueOK`) and has one owner; what all blocks, and those in the seed,
  add up to is arithmetic (`SizeOfAll`, `SizeOfSet`).
* **KySync_proofs**, the publisher (`PrepareInvariant`, `TypesHold`, `NoFrameIsOverwritten`,
  `DataFileIsRight`, `MetadataAreRight`, `MetadataAreLast`, `ProgressEnds`), for
  any input, thread count, old file and number of crashes and reruns. `PrepareInv`
  has a part for each stage. `WritesOwn`: what a stream has buffered is a frame of
  its own chunk. `PreparedOK`: a block that a thread has passed is in the tables
  and, once the thread's next seek or close has written it, in its slot; no flush
  of another thread touches the slot, since slots are as long as a frame can be and
  chunks are disjoint. `CopiedOK`: file and stream together hold the frames so far,
  back to back, and that is at most as long as the slots that were read; so
  however early or late the stream writes, it stays in front of the next slot. This
  is what `SlotsSurvive` needs and does not say. `MetadataOK`: the metadata file is
  what the stream has given it of the right metadata. `ProgressOK` adds up the
  frames of all threads' finished blocks, for `ProgressEnds`.
* **KySync_proofs**, the whole (`SystemInvariant`, `OneVersionAndNoMixture`,
  `UndisturbedSyncsSucceed`), for any inputs, frames, seeds and publisher threads,
  and any interleaving of the sync's reads with crashes and reruns. `PublishedOK`:
  the metadata file is at any moment a beginning of what *some* run writes, so a
  header whose hash could be read is the header of an input, and a header that was
  cut off has no hash that any file could match. That is all the refinement
  `OneVersionAndNoMixture` (`System => ImplementsFileSync`) needs: whatever tables
  and frames the sync reads, the final hash is that of an offered version.
  `UndisturbedSyncsSucceed` needs `QuietOK`: as long as no publication begins, each
  thing the sync has read is that of the run that is finished (`ReadsInOrder`,
  `TablesOK`), so tables are read where `WriteHeader` and `StreamWrite` have put
  them, offsets fit frames, and each rebuilt block is the block of the input
  (`RebuildOK`). It rests on `DataFileIsRight` and `MetadataAreRight` of the
  publisher.
* **HttpRead_proofs** (`ReadInvariant`, `OkIsExact`, `NoBytesAreForeign`,
  `ExpectedAnswersAreAccepted`), for a file and members of any size, any number of
  them, and every answer. `PartialFacts` says what an answer promises, however the
  ranges were joined, cut and reordered: a member that begins within the file begins
  in some part (`Found`), and ends in it when the file holds it (`Unsplit`). `Layout`
  says at which offsets of the body the tokens of each part lie, from what a
  concatenation of sequences has at each place. `ReadInv` has a part for each kind of
  read. `ToldInv`, for parts that say where they lie: the parser stands at a token of
  some part `k`, from the range line on it holds the range of that part, the members
  so far have exactly their own bytes (`Exact`), every byte of the parts that are
  done and of the chunk up to `size_read` belongs to one of these members
  (`Passed`, `Tiled`), and no member so far reaches behind it when the parts are in
  order (`Behind`). A comparison that fails then points at a byte nobody asked for
  (`Unasked`), and at the end no member is left out, because the part it begins in
  has been passed. `UntoldInv`, for parts whose range line the parser does not
  understand: each looks like the first byte of the file, so at most the member that
  begins at 0 is given anything, and the read returns only if it was one byte and
  nothing else was sent. The properties themselves say nothing of the position in the
  body, without which no step can be shown to keep them.
* **WeakChecksum_proofs** (`RolledIsComputed`), for any bytes, block size and
  modulus. `RollInv`: `a` and `b` are the wrapped sums of the window the loop
  stands at, and between calls the returned word holds both. A turn of the loop
  moves the window by one; `SumsFollow` says what that does to the sums before
  they are wrapped, and `RemainderOfSum` that wrapping in between changes nothing.

Sums, concatenations of all frames and `compressed_file_offsets` are recursive
functions. What they compute is proved nevertheless: that such a function exists
and obeys its equation comes from `RecursionExists`, and an induction over an
index is made over the *set* of the indices for which the claim holds
(`SetInduction`), which needs no operator as a parameter.

Only model-checked is liveness (`CallReturns`, `TimelyWaitEnds`, `AnalysisEnds`,
`RunEnds`, `PrepareEnds`, `SyncEnds`): it rests on fairness and ENABLED, which the
provers do not handle. Every invariant and every safety property over steps that a
passing run checks is a theorem.

## 5. Findings

1. `phase_handshake_hang`: `StartNextPhase` raises the flag
   (`observable.cc:37`) before it reads `phase_` (line 40). If the observer
   answers in between, the command waits for the phase after the one it was
   given, with the flag down: forever, although the monitor has advanced.
   `PhaseCountsCalls` shows that nothing else goes wrong, `TimelyWaitEnds` that
   this is the only way to hang. Every call of `StartNextPhase` in either command
   is exposed to it, since `main.cc` always runs them under the observer: these are
   the stuck states of Reconstruct, Prepare and KySync.
2. `reconstruct_zeros`: the analysis pads the end of the seed with zeros
   (`sync_command.cc:293`) and may match a block that ends in zero bytes with a
   window that reaches behind the seed; the copy from the seed is not padded, and
   the size check of line 328 or 330 ends the process.
3. `http_read_whole`: a status of 200 is accepted (`http_reader.cc:193`) and the
   body, the whole file, is handed on as the bytes from the first offset asked
   for. A batch that begins at offset 0 may thereby pass its first members and
   fail later; a plain read copies the whole file into the caller's buffer. It
   takes a server that ignores a `Range` header; any server has to ignore the one
   of an empty read, `bytes=o-(o-1)`.
4. `weak_checksum_reach`: the comment of the rolling checksum
   (`weak_checksum.h:42`) gives `buffer[-size + 1]` as the first byte accessed; it
   is `buffer[-size]`. The caller has a whole block there, so only the comment is
   wrong.

## 6. Not modelled

* HTTP: the splitting of the URL, `GetSize`, the client library and the
  connection. Bytes of a file that look like a delimiter of the body matter only
  when a chunk's size is wrong, and are not modelled. Behind the last member the
  callback reads past the vector (`sync_command.cc:387`); the model takes what is
  there for an offset that does not fit. `KySync` reads files, not HTTP.
* Checksums: the weak checksum is any function of the contents in SeedAnalysis.
  The strong checksum identifies the contents: 128-bit collisions are ignored.
* zstd is a function from contents to a frame; only whole frames decompress.
* The bytes of protobuf and of the tables: entries of the metadata file are read
  whole, or as something else, never as halves of two. A header longer than the
  1024 bytes that are read.
* Option parsing, metrics visitors, timers, temporary paths, printing: no
  behaviour the properties are about.
* A sync whose seed is its output: the output is truncated first
  (`main.cc:68`), so the seed is empty.
* An input that changes while it is prepared, full disks, a failing `Resize`.
* Zero as block size or thread count: the code divides by them and checks neither.
  A negative number of blocks per batch.
* A compressed size of 0 in a batch of several members, which only metadata that
  no `prepare` has written can contain: before other members it makes the
  decompression fail, as the last one it is passed over. `KySync`, whose batches
  have one member, has the latter.
* `std::async` of the observer deferring the whole command.

## 7. What could follow

1. **HTTP in the whole**: `KySync` reads files. With `OkIsExact`, a read of the
   data file over HTTP could take their place there, as a step that delivers the
   bytes of the members or fails.
2. **Recovery in Prepare**: that a rerun needs nothing of what the killed run has
   left is part of `PrepareInv`; it could be stated as a refinement of a run that
   is never killed.
