--------------------------- MODULE MCParallelize ---------------------------
(* Small instance of Parallelize: every size up to 7 bytes, blocks of 1 to 3 *)
(* bytes, up to 3 threads, no overlap or an overlap of one block.            *)
EXTENDS Parallelize

MCCalls ==
  UNION { { [size |-> s, block |-> b, overlap |-> o, threads |-> t] :
              s \in 0 .. 7, o \in {0, b}, t \in 1 .. 3 } : b \in 1 .. 3 }
=============================================================================
