------------------------------- MODULE KySync -------------------------------
(***************************************************************************)
(* The system as a whole: a publisher that prepares a file, dies, and      *)
(* prepares it again (module Prepare), and a sync that reads the two       *)
(* published files while the publisher may be writing them                 *)
(* (src/main.cc:67-96, src/commands/sync_command.cc).                      *)
(*                                                                         *)
(* The sync reads the header and then each table by a read of its own, so  *)
(* the tables may stem from different runs of the publisher or not be      *)
(* there yet.  What the threads of the analysis and of the reconstruction  *)
(* do is shown by SeedAnalysis and Reconstruct; here the analysis is any   *)
(* assignment SeedReuse allows, and the blocks are rebuilt one by one.     *)
(* A failed CHECK ends the process and leaves the output as it is.         *)
(***************************************************************************)
EXTENDS Prepare

CONSTANTS
  Seeds,          \* what the seed file may hold
  OldOutput,      \* what the output file held before
  GarbageSizes    \* what the bytes of something else may say as a compressed size

ASSUME GarbageAssumption == GarbageSizes \subseteq Nat /\ GarbageSizes # {}
ASSUME SeedsAssumption == \A s \in Seeds : s \in Seq(Int)

VARIABLES
  sync,       \* "idle", "opened", then the next thing to do: "weak", "strong",
              \* "sizes", "analyze", "rebuild"; "ok" or "failed"; "stuck" while
              \* StartNextPhase waits for a phase that never comes
  seed, output,
  header,     \* what ReadHeader returned
  metadata_at,          \* `offset` of ReadMetadata
  strong_checksums,     \* the entries of the table as they were read
  sizes,                \* compressed_sizes_
  seed_offsets,
  block,      \* the block to be rebuilt next
  quiet       \* the files were finished when the sync began and still are

syncVars == <<sync, seed, output, header, metadata_at, strong_checksums, sizes,
              seed_offsets, block, quiet>>
allVars == <<vars, syncVars>>

kInvalidOffset == -1
NoHeader == ReadHeader(<<>>)

InitSync ==
  /\ sync = "idle"
  /\ seed \in Seeds
  /\ output = OldOutput
  /\ header = NoHeader /\ metadata_at = 0
  /\ strong_checksums = <<>> /\ sizes = <<>> /\ seed_offsets = <<>>
  /\ block = 0
  /\ quiet = FALSE

\* block_count_ and the indices, sync_command.cc:194.
BlockCountRead == BlockCount(header.size, header.block_size)
IndicesRead == 0 .. BlockCountRead - 1

\* A CHECK fails (sync_command.cc:193, 207, 328, 330, 341-353 and 526): glog ends the
\* process.  A division by zero does the same.
Fail ==
  /\ sync' = "failed"
  /\ UNCHANGED <<vars, seed, output, header, metadata_at, strong_checksums, sizes,
                 seed_offsets, block, quiet>>

\* main.cc:67-95: the output is truncated before anything is read.
StartSync ==
  /\ sync = "idle"
  /\ sync' = "opened"
  /\ output' = <<>>
  /\ quiet' = (stage = "done")
  /\ UNCHANGED <<vars, seed, header, metadata_at, strong_checksums, sizes, seed_offsets,
                 block>>

\* sync_command.cc:193-194: a block size that is not there divides by zero.
Usable(h) == h.version = Version /\ h.block_size # 0

ParseHeader ==
  /\ sync = "opened"
  /\ Usable(ReadHeader(ksync))
  /\ header' = ReadHeader(ksync)
  /\ metadata_at' = header'.header_size
  /\ sync' = "weak"
  /\ UNCHANGED <<vars, seed, output, strong_checksums, sizes, seed_offsets, block, quiet>>

CannotParseHeader ==
  /\ sync = "opened"
  /\ ~Usable(ReadHeader(ksync))
  /\ Fail

\* ReadIntoContainer, sync_command.cc:197-210.
Entries == ReadAt(ksync, metadata_at, BlockCountRead)
ReadsTable == sync \in {"weak", "strong", "sizes"}

EntriesComplete == Len(Entries) = BlockCountRead

\* sync_command.cc:233-235.
ReadWeakChecksums ==
  /\ sync = "weak" /\ EntriesComplete
  /\ metadata_at' = metadata_at + Len(Entries)
  /\ sync' = "strong"
  /\ UNCHANGED <<vars, seed, output, header, strong_checksums, sizes, seed_offsets, block,
                 quiet>>

ReadStrongChecksums ==
  /\ sync = "strong" /\ EntriesComplete
  /\ strong_checksums' = [i \in IndicesRead |-> Entries[i + 1]]
  /\ metadata_at' = metadata_at + Len(Entries)
  /\ sync' = "sizes"
  /\ UNCHANGED <<vars, seed, output, header, sizes, seed_offsets, block, quiet>>

\* And Run, sync_command.cc:552-553: the output gets its size.
ReadSizes ==
  /\ sync = "sizes" /\ EntriesComplete
  /\ \E garbage \in GarbageSizes :
       sizes' = [i \in IndicesRead |->
                   IF Entries[i + 1][1] = "size" THEN Entries[i + 1][2][1] ELSE garbage]
  /\ output' = Resized(output, header.size, 0)
  /\ sync' = "analyze"
  /\ UNCHANGED <<vars, seed, header, metadata_at, strong_checksums, seed_offsets, block,
                 quiet>>

CannotReadTable ==
  /\ ReadsTable /\ ~EntriesComplete
  /\ Fail

\* Where the seed, padded with zeros, holds the block of an entry.
FoundAt(entry) ==
  {o \in 0 .. Len(seed) - 1 :
     LET v == ReadAt(seed, o, header.block_size)
         padded == [j \in 1 .. header.block_size |-> IF j <= Len(v) THEN v[j] ELSE 0]
     IN entry = <<"strong", padded>>}

\* What SeedReuse allows, with sync_command.cc:315-323.
AnalyzeSeed ==
  /\ sync = "analyze"
  /\ seed_offsets' \in
       {f \in [IndicesRead -> {kInvalidOffset} \cup (0 .. Len(seed))] :
          \A i \in IndicesRead : f[i] \in {kInvalidOffset} \cup FoundAt(strong_checksums[i])}
  /\ sync' = "rebuild"
  /\ UNCHANGED <<vars, seed, output, header, metadata_at, strong_checksums, sizes, block,
                 quiet>>

\* Plausible slip: the offsets are one block late.
OffsetsShifted ==
  LET f[i \in IndicesRead] == IF i = 0 THEN 0 ELSE f[i - 1] + sizes[i] IN f

\* sync_command.cc:212-222.
compressed_file_offsets ==
  LET f[i \in IndicesRead] == IF i = 0 THEN 0 ELSE f[i - 1] + sizes[i - 1] IN f

\* What is read of the data file for a block.
Download(i) == ReadAt(data, compressed_file_offsets[i], sizes[i])

\* sync_command.cc:325-332.
ExpectedSize(i) ==
  IF i < BlockCountRead - 1 \/ header.size % header.block_size = 0
  THEN header.block_size ELSE header.size % header.block_size

\* The contents a block gets: none when it has to be downloaded and is no frame
\* (sync_command.cc:334-356).
Contents(i) ==
  IF seed_offsets[i] # kInvalidOffset
  THEN {ReadAt(seed, seed_offsets[i], header.block_size)}
  ELSE {v \in DOMAIN FrameSize : Download(i) = Frame(v)}

Rebuilt(i) == {v \in Contents(i) : Len(v) = ExpectedSize(i)}

\* Plausible slip: the loop goes on behind the last block.
OneBlockMore == block = BlockCountRead + 1

\* sync_command.cc:480.
AllRebuilt == block = BlockCountRead

\* sync_command.cc:465-493, for one block.
RebuildBlock ==
  /\ sync = "rebuild" /\ block < BlockCountRead
  /\ \E v \in Rebuilt(block) :
       output' = WriteAt(output, block * header.block_size, v, 0)
  /\ block' = block + 1
  /\ UNCHANGED <<vars, sync, seed, header, metadata_at, strong_checksums, sizes,
                 seed_offsets, quiet>>

\* A frame that is announced as empty: the loop of sync_command.cc:386 does not run for
\* it, and nothing is decompressed, checked or written.  (So it is when the block is the
\* last one of its batch; here every batch has one.)
PassedOver(i) == seed_offsets[i] = kInvalidOffset /\ sizes[i] = 0

\* The stream was moved behind the block before (sync_command.cc:440-441).
SkipBlock ==
  /\ sync = "rebuild" /\ block < BlockCountRead
  /\ PassedOver(block)
  /\ block' = block + 1
  /\ UNCHANGED <<vars, sync, seed, output, header, metadata_at, strong_checksums, sizes,
                 seed_offsets, quiet>>

CannotRebuildBlock ==
  /\ sync = "rebuild" /\ block < BlockCountRead
  /\ Rebuilt(block) = {} /\ ~PassedOver(block)
  /\ Fail

\* Plausible slip: the hash is not compared.
AnyHash == TRUE

\* sync_command.cc:514-527.
HashMatches == header.hash = Digest(output)

Verify ==
  /\ sync = "rebuild" /\ AllRebuilt
  /\ HashMatches
  /\ sync' = "ok"
  /\ UNCHANGED <<vars, seed, output, header, metadata_at, strong_checksums, sizes,
                 seed_offsets, block, quiet>>

CannotVerify ==
  /\ sync = "rebuild" /\ AllRebuilt
  /\ ~HashMatches
  /\ Fail

-----------------------------------------------------------------------------

\* The calls of StartNextPhase: sync_command.cc:227, 312, 499, 511 and 529.
SyncAtPhaseStart ==
  \/ sync \in {"opened", "analyze"}
  \/ sync = "rebuild" /\ block = 0
  \/ sync = "rebuild" /\ AllRebuilt

\* As WaitForever of the publisher: the observer's answer to the call was missed.
SyncWaitForever ==
  /\ SyncAtPhaseStart
  /\ sync' = "stuck"
  /\ UNCHANGED <<vars, seed, output, header, metadata_at, strong_checksums, sizes,
                 seed_offsets, block, quiet>>

SyncStep ==
  \/ ParseHeader \/ CannotParseHeader
  \/ ReadWeakChecksums \/ ReadStrongChecksums \/ ReadSizes \/ CannotReadTable
  \/ AnalyzeSeed
  \/ RebuildBlock \/ SkipBlock \/ CannotRebuildBlock
  \/ Verify \/ CannotVerify

\* A step of the publisher; the sync only sees the files.
PublisherStep ==
  \/ Work /\ UNCHANGED syncVars
  \/ /\ Rerun
     /\ quiet' = FALSE
     /\ UNCHANGED <<sync, seed, output, header, metadata_at, strong_checksums, sizes,
                    seed_offsets, block>>

SystemInit == Init /\ InitSync

SystemNext == PublisherStep \/ StartSync \/ SyncStep \/ SyncWaitForever

System == SystemInit /\ [][SystemNext]_allVars

\* A sync that was started is scheduled, and goes on unless it is stuck; nothing
\* obliges it to miss the observer's answer.  The publisher need not be scheduled.
FairSystem == System /\ WF_allVars(SyncStep)

-----------------------------------------------------------------------------
(* Properties. *)

ZeroFree ==
  /\ \A j \in DOMAIN run.input : run.input[j] # 0
  /\ \A j \in DOMAIN seed : seed[j] # 0

\* A sync that began when a publication was finished, whatever runs and crashes
\* came before, and that nobody disturbed, delivers the file, and does not fail
\* unless zero bytes mislead it at the end of the seed (module Reconstruct:
\* SizeChecksHold): header, tables, frames and offsets of the two commands fit
\* together (prepare_command.cc:234-267, sync_command.cc:185-244).
QuietSyncSucceeds ==
  quiet => /\ ZeroFree => sync # "failed"
           /\ sync = "ok" => output = run.input

\* Whatever the files hold while the publisher works, dies and starts over, the sync
\* gets to its end (sync_command.cc:551-557): each header, table and frame it may meet is
\* used, passed over or refused, unless a call of StartNextPhase never returns
\* (observable.cc:42).
SyncEnds == sync = "opened" ~> sync \in {"ok", "failed", "stuck"}

\* Whatever the publisher does at the same time, a sync delivers one version and
\* no mixture, the one whose header was in place when it read the header.
None == <<>>
OnlyHash(headers) == IF headers = {} THEN None ELSE (CHOOSE h \in headers : TRUE).hash
Abstract == INSTANCE FileSync WITH
  Versions <- {Digest(r.input) : r \in Runs},
  None <- None,
  offered <- OnlyHash(CompleteHeaders(ksync)),
  chosen <- OnlyHash({h \in {header} : h.hash # <<>>}),
  delivered <- IF sync = "ok" THEN Digest(output) ELSE None,
  failed <- sync = "failed"
ImplementsFileSync == Abstract!Spec
=============================================================================
