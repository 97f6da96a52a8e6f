----------------------------- MODULE SeedReuse -----------------------------
(***************************************************************************)
(* What analysing the seed promises, without threads, checksums or chunks: *)
(* seed offsets are assigned to blocks one at a time, each at a place      *)
(* where the seed holds what the block holds, and none is taken back; once *)
(* the analysis is over the assignment is final.                           *)
(*                                                                         *)
(* Reconstruct starts from what this module allows.                        *)
(***************************************************************************)
EXTENDS Integers

VARIABLES
  blocks,     \* blocks[i]: the contents of block i of the source, zero-padded
  windows,    \* windows[o]: the block_size bytes of the seed from offset o on
  found,      \* found[i]: an offset of the seed, or kInvalidOffset
  finished

vars == <<blocks, windows, found, finished>>

\* sync_command.cc:56.
kInvalidOffset == -1

\* The offsets of the seed that may be assigned to block i.
Candidates(i) == {o \in DOMAIN windows : windows[o] = blocks[i]}

Init ==
  /\ found = [i \in DOMAIN blocks |-> kInvalidOffset]
  /\ finished = FALSE

Reuse(i) ==
  /\ ~finished
  /\ \E o \in Candidates(i) : found' = [found EXCEPT ![i] = o]
  /\ UNCHANGED <<blocks, windows, finished>>

Finish ==
  /\ ~finished
  /\ finished' = TRUE
  /\ UNCHANGED <<blocks, windows, found>>

Next == Finish \/ \E i \in DOMAIN blocks : Reuse(i)

Spec == Init /\ [][Next]_vars

\* The state predicate a reader of the result may rely on.
Sound ==
  \A i \in DOMAIN blocks : found[i] # kInvalidOffset => found[i] \in Candidates(i)
=============================================================================
