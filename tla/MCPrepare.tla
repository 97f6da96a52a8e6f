----------------------------- MODULE MCPrepare -----------------------------
(* Blocks of two bytes, up to four of them on one or two threads.  A block of *)
(* equal bytes has a frame of one cell; any other one is incompressible and   *)
(* its frame is larger than the block, as large as a slot.                    *)
EXTENDS Prepare

BlockSize == 2
SlotSize == 3
Bytes == {1, 2}

MCFrameSize ==
  [v \in UNION {[1 .. n -> Bytes] : n \in 1 .. BlockSize} |->
     IF Len(v) = 2 /\ v[1] = v[2] THEN 1 ELSE IF Len(v) = 2 THEN SlotSize ELSE 2]

Inputs == { <<>>, <<1>>, <<1, 2>>, <<1, 1, 1, 2, 2>>, <<2, 1, 1, 1, 1, 2, 2>>, <<1, 1, 2, 2, 1, 2, 1, 1>> }

MCRuns ==
  { [input |-> s, block_size |-> BlockSize, slot_size |-> SlotSize, threads |-> t] :
      s \in Inputs, t \in 1 .. 2 }

\* No file, and a file with the remains of something longer.
Remains == [j \in 1 .. 14 |-> <<<<3>>, 1, 1>>]
MCOldFiles == { <<>>, Remains }
=============================================================================
