------------------------------- MODULE Files -------------------------------
(***************************************************************************)
(* Files as the commands use them through std::fstream and                 *)
(* FileStreamProvider: a file is the sequence of its cells, and the cell   *)
(* at offset o has index o + 1.                                            *)
(***************************************************************************)
EXTENDS Integers, Sequences

\* The cells [from, from + n) of a file, as far as they exist.
ReadAt(f, from, n) ==
  SubSeq(f, from + 1, IF from + n <= Len(f) THEN from + n ELSE Len(f))

\* f after the given cells were written at an offset; a gap is filled.
WriteAt(f, at, cells, fill) ==
  [j \in 1 .. (IF at + Len(cells) > Len(f) THEN at + Len(cells) ELSE Len(f)) |->
     IF j \in at + 1 .. at + Len(cells) THEN cells[j - at]
     ELSE IF j <= Len(f) THEN f[j] ELSE fill]

\* FileStreamProvider::Resize (file_stream_provider.cc:28-32).
Resized(f, size, fill) == [j \in 1 .. size |-> IF j <= Len(f) THEN f[j] ELSE fill]
=============================================================================
