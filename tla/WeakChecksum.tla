---------------------------- MODULE WeakChecksum ----------------------------
(***************************************************************************)
(* The weak checksum: computed at once for the blocks of the source, and   *)
(* rolled over the seed byte by byte (src/checksums/weak_checksum.cc),     *)
(* with the buffer of two blocks that AnalyzeSeedChunk slides over the     *)
(* seed (src/commands/sync_command.cc:250-304).                            *)
(*                                                                         *)
(* a and b are 16 bits wide; every sum wraps (% Modulus).  Bytes are       *)
(* signed.                                                                 *)
(***************************************************************************)
EXTENDS Integers

CONSTANTS
  Modulus,     \* 2^16 in the code
  ByteValues,  \* the values of a char
  Sizes        \* the block sizes there may be

ASSUME WeakChecksumAssumption ==
  /\ Modulus \in Nat \ {0}
  /\ ByteValues \subseteq Int /\ 0 \in ByteValues
  /\ Sizes \subseteq Nat \ {0}

VARIABLES
  size,            \* block_size_
  buffer,          \* the block before and the current one: buffer[-size .. size - 1]
  i,               \* the loop of WeakChecksum; size between two calls
  a, b,
  running_wcs

vars == <<size, buffer, i, a, b, running_wcs>>

Block == 0 .. size - 1
Wrapped(n) == n % Modulus

\* b << 16 | a, and the way back (weak_checksum.cc:18 and 28-29).
Packed(x, y) == y * Modulus + x
Low(checksum) == checksum % Modulus
High(checksum) == checksum \div Modulus

\* weak_checksum.cc:7-19, for a block w[0 .. size - 1].
Direct(w) ==
  LET sums[k \in 0 .. size] ==
        IF k = 0 THEN <<0, 0>>
        ELSE <<Wrapped(sums[k - 1][1] + w[k - 1]),
               Wrapped(sums[k - 1][2] + (size - (k - 1)) * w[k - 1])>>
  IN Packed(sums[size][1], sums[size][2])

-----------------------------------------------------------------------------

\* sync_command.cc:250-257: a sentinel block of zeros comes first.
Init ==
  /\ size \in Sizes
  /\ buffer = [j \in -size .. size - 1 |-> 0]
  /\ i = size
  /\ a = 0 /\ b = 0
  /\ running_wcs = 0

\* Plausible slip: the block before is forgotten.
BeforeForgotten == [j \in -size .. -1 |-> 0]

\* sync_command.cc:291.
BlockBefore == [j \in -size .. -1 |-> buffer[j + size]]

\* sync_command.cc:291-293 and weak_checksum.cc:26-29: the next block of the seed
\* moves in, a short one filled up with zeros, and a call begins with what the one
\* before returned.
NextBlock ==
  /\ i = size
  /\ \E read \in [Block -> ByteValues] :
       buffer' = [j \in -size .. size - 1 |-> IF j < 0 THEN BlockBefore[j] ELSE read[j]]
  /\ i' = 0
  /\ a' = Low(running_wcs)
  /\ b' = High(running_wcs)
  /\ UNCHANGED <<size, running_wcs>>

\* Plausible slip: the sum of before the byte is added.
RolledEarly == Wrapped(b + a - size * buffer[i - size])

\* weak_checksum.cc:33, with a as line 32 has left it.
RolledB == Wrapped(b + a' - size * buffer[i - size])

\* One turn of the loop and its callback, weak_checksum.cc:31-34.  The call returns
\* after the last one.
RollByte ==
  /\ i < size
  /\ a' = Wrapped(a + buffer[i] - buffer[i - size])
  /\ b' = RolledB
  /\ i' = i + 1
  /\ running_wcs' = IF i' = size THEN Packed(a', b') ELSE running_wcs
  /\ UNCHANGED <<size, buffer>>

Next == NextBlock \/ RollByte

Spec == Init /\ [][Next]_vars

-----------------------------------------------------------------------------
(* Properties. *)

\* The last size bytes the loop has seen, those the callback's offset points at
\* (weak_checksum.cc:34, sync_command.cc:274-275).
Window == [j \in Block |-> buffer[j + i - size]]

\* Every checksum a callback gets is the one WeakChecksum computes at once for the
\* bytes in the window, across blocks and calls and however often the sums wrap:
\* a block of the source that the seed holds at any offset is found by its checksum.
RollingIsDirect == Packed(a, b) = Direct(Window)

\* The comment in checksums/include/weak_checksum.h:42, "the function accesses
\* buffer[-size + 1]..buffer[size - 1]".
AccessesAsDocumented ==
  i < size => {i, i - size} \subseteq -size + 1 .. size - 1
=============================================================================
