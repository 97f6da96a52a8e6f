------------------------------ MODULE MCKySync ------------------------------
(* One publisher thread and blocks of two bytes.  The inputs are the versions *)
(* of one file: of different lengths, with a common first block, and empty;   *)
(* one ends in a zero, for which a sync may take the end of the seed.         *)
(* Equal bytes compress to one cell, other blocks to three or two.            *)
EXTENDS KySync

BlockSize == 2
SlotSize == 3
Bytes == {0, 1, 2}

MCFrameSize ==
  [v \in UNION {[1 .. n -> Bytes] : n \in 1 .. BlockSize} |->
     IF Len(v) = 2 /\ v[1] = v[2] THEN 1 ELSE IF Len(v) = 2 THEN SlotSize ELSE 2]

Inputs == { <<>>, <<2, 0>>, <<1, 1, 2>>, <<1, 1, 1, 2, 2>> }

MCRuns ==
  { [input |-> s, block_size |-> BlockSize, slot_size |-> SlotSize, threads |-> 1] :
      s \in Inputs }

MCOldFiles == { <<>> }

\* Every input has blocks in this seed, the last one only when it is padded; the
\* analysis may still miss any of them.
MCSeeds == { <<2, 1, 1, 2>> }
MCOldOutput == <<2, 2, 2, 2, 2, 2, 2>>

\* Nothing, or a frame of the longest kind.
MCGarbageSizes == {0, 3}
=============================================================================
