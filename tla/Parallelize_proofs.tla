------------------------- MODULE Parallelize_proofs -------------------------
(***************************************************************************)
(* What Parallelize guarantees for every size, block size and thread count.*)
(*                                                                         *)
(* The inductive invariant says of each task that its loop variable is a   *)
(* multiple of the block size, that it has handled every block start of    *)
(* its range below the loop variable, and nothing outside of its range;    *)
(* and of the caller that the tasks it has waited for are over.            *)
(***************************************************************************)
EXTENDS Parallelize, RangesAndFiles_proofs

\* What the assumption says of the arguments of this call.
LEMMA CallIsCall ==
  ASSUME TypeOK
  PROVE  IsCall(call) /\ call.threads <= MaxThreads /\ MaxThreads \in Nat \ {0}
  BY CallsAssumption DEF TypeOK

\* The ids of the workers are natural numbers.
LEMMA WorkersAreNumbers ==
  /\ Workers \subseteq Nat
  /\ MaxThreads \in Nat \ {0}
  BY CallsAssumption DEF Workers

\* Every variable keeps its type.
THEOREM TypeCorrect == Spec => []TypeOK
  <1>1. Init => TypeOK
    BY WorkersAreNumbers DEF Init, TypeOK, WorkerStates
  <1>2. TypeOK /\ [Next]_vars => TypeOK'
    <2> SUFFICES ASSUME TypeOK, [Next]_vars PROVE TypeOK'
      OBVIOUS
    <2>1. ThreadCount(call) \in Nat /\ ThreadCount(call) <= MaxThreads
      BY CallIsCall, ChunkFacts DEF IsCall
    <2> USE WorkersAreNumbers
    <2>2. CASE Launch
      <3>1. next' \in 0 .. MaxThreads
        BY <2>1, <2>2 DEF Launch, MoreToLaunch, TypeOK
      <3>2. PICK policy \in WorkerStates : worker' = [worker EXCEPT ![next] = policy]
        BY <2>2 DEF Launch, WorkerStates
      <3>3. worker' \in [Workers -> WorkerStates]
        BY <3>2 DEF TypeOK
      <3> QED
        BY <2>2, <3>1, <3>3 DEF Launch, TypeOK
    <2>3. CASE StartJoin
      BY <2>3 DEF StartJoin, TypeOK
    <2>4. CASE Join
      BY <2>1, <2>4 DEF Join, TypeOK
    <2>5. CASE Return
      BY <2>5 DEF Return, TypeOK
    <2>6. ASSUME NEW id \in Workers, Start(id) PROVE TypeOK'
      <3>1. Beg(call, id) \in Nat
        BY CallIsCall, RangeFacts
      <3> QED
        BY <2>6, <3>1 DEF Start, TypeOK, WorkerStates
    <2>7. ASSUME NEW id \in Workers, HandleBlock(id) PROVE TypeOK'
      <3>1. call.block \in Nat
        BY CallIsCall DEF IsCall
      <3>2. at[id] \in Nat /\ at[id] + call.block \in Nat
        BY <3>1 DEF TypeOK
      <3> QED
        BY <2>7, <3>2 DEF HandleBlock, TypeOK
    <2>8. ASSUME NEW id \in Workers, Finish(id) PROVE TypeOK'
      BY <2>8 DEF Finish, TypeOK, WorkerStates
    <2>9. ASSUME NEW id \in Workers, Throw(id) PROVE TypeOK'
      BY <2>9 DEF Throw, TypeOK, WorkerStates
    <2>10. CASE UNCHANGED vars
      BY <2>10 DEF vars, TypeOK
    <2> QED
      BY <2>2, <2>3, <2>4, <2>5, <2>6, <2>7, <2>8, <2>9, <2>10
      DEF Next, CallerStep, Task
  <1> QED
    BY <1>1, <1>2, PTL DEF Spec

-----------------------------------------------------------------------------

\* The task's loop stands at the first byte of a block, or just behind one.
Aligned(id) == \E m \in Nat : at[id] = m * call.block

\* Nothing outside of the task's range was handled ...
WithinRange(id) ==
  \A o \in handled[id] : /\ Beg(call, id) <= o
                         /\ o < End(call, id)
                         /\ o \in BlockStarts(call.size, call.block)

\* ... and every block start of the range up to the loop variable was.
HandledSoFar(id) ==
  \A o \in BlockStarts(call.size, call.block) :
    Beg(call, id) <= o /\ o < End(call, id) /\ o < at[id] => o \in handled[id]

TaskInv(id) ==
  /\ WithinRange(id)
  /\ worker[id] \in {"running", "done"} =>
       Aligned(id) /\ Beg(call, id) <= at[id] /\ HandledSoFar(id)
  /\ worker[id] = "done" => at[id] >= End(call, id)

Over(id) == worker[id] \in {"done", "threw"}

CallerInv ==
  /\ caller = "joining" =>
       next <= ThreadCount(call) /\ \A id \in Workers : id < next => Over(id)
  /\ caller = "returned" => \A id \in ThreadIds(call) : Over(id)
  /\ \A id \in Workers : id >= ThreadCount(call) => worker[id] = "none"

IInv == TypeOK /\ CallerInv /\ \A id \in Workers : TaskInv(id)

\* Every id that is launched is one of a worker.
LEMMA ThreadIdsAreWorkers ==
  ASSUME TypeOK
  PROVE  /\ ThreadIds(call) \subseteq Workers
         /\ ThreadCount(call) \in Nat
         /\ \A id \in Workers : id \in ThreadIds(call) <=> id < ThreadCount(call)
  <1>1. ThreadCount(call) \in Nat \ {0} /\ ThreadCount(call) <= MaxThreads
    BY CallIsCall, ChunkFacts DEF IsCall
  <1> QED
    BY <1>1, WorkersAreNumbers DEF ThreadIds, Workers

\* A task that nothing happens to keeps its part of the invariant.
LEMMA TaskUntouched ==
  ASSUME NEW id \in Workers, TaskInv(id), UNCHANGED call,
         worker'[id] = worker[id], at'[id] = at[id], handled'[id] = handled[id]
  PROVE  TaskInv(id)'
  BY DEF TaskInv, WithinRange, HandledSoFar, Aligned

\* A task that is not in its loop needs only WithinRange.
LEMMA TaskOutside ==
  ASSUME NEW id \in Workers, TaskInv(id), UNCHANGED call,
         worker'[id] \notin {"running", "done"}, handled'[id] = handled[id]
  PROVE  TaskInv(id)'
  BY DEF TaskInv, WithinRange

\* The offset the loop stands at is a block start while it is in the range.
LEMMA AtIsBlockStart ==
  ASSUME TypeOK, NEW id \in Workers, Aligned(id), at[id] < End(call, id)
  PROVE  at[id] \in BlockStarts(call.size, call.block)
  <1>1. PICK m \in Nat : at[id] = m * call.block
    BY DEF Aligned
  <1>2. End(call, id) <= call.size /\ End(call, id) \in Nat /\ call.size \in Nat
    BY CallIsCall, RangeFacts, WorkersAreNumbers DEF IsCall
  <1>3. at[id] < call.size
    BY <1>2 DEF TypeOK
  <1> QED
    BY <1>1, <1>3, CallIsCall, AlignedIsBlockStart

\* One turn of the loop: the only block start it passes is the one it handles.
LEMMA LoopStep ==
  ASSUME TypeOK, NEW id \in Workers, TaskInv(id), HandleBlock(id)
  PROVE  TaskInv(id)'
  <1>1. /\ worker[id] = "running" /\ at[id] < End(call, id)
        /\ handled'[id] = handled[id] \union {at[id]}
        /\ at'[id] = at[id] + call.block
        /\ UNCHANGED <<call, worker>>
    BY DEF HandleBlock, InRange, TypeOK
  <1>2. Aligned(id) /\ Beg(call, id) <= at[id] /\ HandledSoFar(id) /\ WithinRange(id)
    BY <1>1 DEF TaskInv
  <1>3. call.block \in Nat \ {0} /\ at[id] \in Nat /\ Beg(call, id) \in Nat
    BY CallIsCall, RangeFacts, WorkersAreNumbers DEF IsCall, TypeOK
  <1>4. at[id] \in BlockStarts(call.size, call.block)
    BY <1>1, <1>2, AtIsBlockStart
  <1>5. WithinRange(id)'
    BY <1>1, <1>2, <1>4 DEF WithinRange
  <1>6. Aligned(id)'
    <2>1. PICK m \in Nat : at[id] = m * call.block
      BY <1>2 DEF Aligned
    <2>2. at'[id] = (m + 1) * call.block
      BY <1>1, <1>3, <2>1, NextMultiple
    <2> QED
      BY <1>1, <2>2 DEF Aligned
  <1>7. HandledSoFar(id)'
    <2> SUFFICES ASSUME NEW o \in BlockStarts(call.size, call.block),
                        Beg(call, id) <= o, o < End(call, id), o < at[id] + call.block
                 PROVE  o \in handled[id] \union {at[id]}
      BY <1>1 DEF HandledSoFar
    <2>1. CASE o < at[id]
      BY <1>2, <2>1 DEF HandledSoFar
    <2>2. CASE ~(o < at[id])
      <3>1. PICK k \in 0 .. BlockCount(call.size, call.block) - 1 : o = k * call.block
        BY DEF BlockStarts
      <3>2. PICK m \in Nat : at[id] = m * call.block
        BY <1>2 DEF Aligned
      <3>3. k \in Nat
        BY <3>1, CallIsCall, ChunkFacts
      <3>4. o \in Nat
        BY <1>3, <3>1, <3>3
      <3>5. m * call.block <= k * call.block /\ k * call.block < m * call.block + call.block
        BY <1>3, <2>2, <3>1, <3>2, <3>4
      <3>6. k = m
        BY <1>3, <3>3, <3>5, SameMultiple
      <3> QED
        BY <3>1, <3>2, <3>6
    <2> QED
      BY <2>1, <2>2
  <1>8. Beg(call, id) <= at[id] + call.block
    BY <1>2, <1>3
  <1> QED
    BY <1>1, <1>5, <1>6, <1>7, <1>8 DEF TaskInv

\* A task begins at the aligned beginning of its range, below which there is
\* nothing of the range.
LEMMA LoopStart ==
  ASSUME TypeOK, NEW id \in Workers, TaskInv(id), Start(id)
  PROVE  TaskInv(id)'
  <1>1. /\ worker'[id] = "running"
        /\ at'[id] = Beg(call, id)
        /\ UNCHANGED <<call, handled>>
    BY DEF Start, TypeOK
  <1>2. Beg(call, id) \in Nat /\ call.block \in Nat
    BY CallIsCall, RangeFacts, WorkersAreNumbers DEF IsCall
  <1>3. Aligned(id)'
    BY <1>1, CallIsCall, BegIsAligned, WorkersAreNumbers DEF Aligned
  <1>4. HandledSoFar(id)'
    <2> SUFFICES ASSUME NEW o \in BlockStarts(call.size, call.block),
                        Beg(call, id) <= o, o < Beg(call, id)
                 PROVE  FALSE
      BY <1>1 DEF HandledSoFar
    <2>1. PICK k \in 0 .. BlockCount(call.size, call.block) - 1 : o = k * call.block
      BY DEF BlockStarts
    <2>2. k \in Nat
      BY CallIsCall, ChunkFacts
    <2>3. o \in Nat
      BY <1>2, <2>1, <2>2
    <2> QED
      BY <1>2, <2>3
  <1>5. WithinRange(id)'
    BY <1>1 DEF TaskInv, WithinRange
  <1> QED
    BY <1>1, <1>2, <1>3, <1>4, <1>5 DEF TaskInv

\* The inductive invariant holds at first.
LEMMA Initially == Init => IInv
  <1> SUFFICES ASSUME Init PROVE IInv
    OBVIOUS
  <1>1. TypeOK
    BY WorkersAreNumbers DEF Init, TypeOK, WorkerStates
  <1>2. CallerInv
    BY DEF Init, CallerInv
  <1>3. \A id \in Workers : TaskInv(id)
    BY DEF Init, TaskInv, WithinRange
  <1> QED
    BY <1>1, <1>2, <1>3 DEF IInv

\* A step of a task keeps the inductive invariant.
LEMMA TaskStep ==
  ASSUME IInv, TypeOK', NEW id \in Workers, Task(id) \/ Throw(id)
  PROVE  IInv'
  <1>1. TypeOK /\ CallerInv /\ \A w \in Workers : TaskInv(w)
    BY DEF IInv
  <1>2. /\ UNCHANGED <<call, caller, next>>
        /\ \A w \in Workers \ {id} : /\ worker'[w] = worker[w]
                                     /\ at'[w] = at[w]
                                     /\ handled'[w] = handled[w]
    BY <1>1 DEF Task, Start, HandleBlock, Finish, Throw, TypeOK
  <1>3. ~Over(id) /\ worker[id] # "none"
    BY DEF Task, Start, HandleBlock, Finish, Throw, Over
  <1>4. TaskInv(id)'
    <2>1. CASE Start(id)
      BY <1>1, <2>1, LoopStart
    <2>2. CASE HandleBlock(id)
      BY <1>1, <2>2, LoopStep
    <2>3. CASE Finish(id)
      BY <1>1, <2>3
      DEF Finish, PastEnd, TaskInv, WithinRange, HandledSoFar, Aligned, TypeOK
    <2>4. CASE Throw(id)
      <3>1. worker'[id] = "threw" /\ handled'[id] = handled[id] /\ call' = call
        BY <1>1, <2>4 DEF Throw, TypeOK
      <3> QED
        BY <1>1, <3>1, TaskOutside
    <2> QED
      BY <2>1, <2>2, <2>3, <2>4 DEF Task
  <1>5. \A w \in Workers : TaskInv(w)'
    BY <1>1, <1>2, <1>4, TaskUntouched
  <1>6. CallerInv'
    BY <1>1, <1>2, <1>3, ThreadIdsAreWorkers, WorkersAreNumbers
    DEF CallerInv, Over
  <1> QED
    BY <1>5, <1>6 DEF IInv

\* A step of the calling thread keeps the inductive invariant.
LEMMA CallerStepKeeps ==
  ASSUME IInv, TypeOK', CallerStep
  PROVE  IInv'
  <1>1. TypeOK /\ CallerInv /\ \A w \in Workers : TaskInv(w)
    BY DEF IInv
  <1>2. ThreadCount(call) \in Nat /\ next \in Nat /\ call' = call
    BY <1>1, ThreadIdsAreWorkers, WorkersAreNumbers
    DEF CallerStep, Launch, StartJoin, Join, Return, TypeOK
  <1>3. CASE Launch
    <2>1. PICK policy \in {"ready", "deferred"} : worker' = [worker EXCEPT ![next] = policy]
      BY <1>3 DEF Launch
    <2>2. /\ next < ThreadCount(call) /\ caller = "launching" /\ caller' = caller
          /\ UNCHANGED <<at, handled>>
      BY <1>3 DEF Launch, MoreToLaunch
    <2>3. ASSUME NEW w \in Workers PROVE TaskInv(w)'
      <3>1. CASE w = next
        <4>1. worker'[w] = policy
          BY <1>1, <2>1, <3>1 DEF TypeOK
        <4> QED
          BY <1>1, <1>2, <2>2, <4>1, TaskOutside
      <3>2. CASE w # next
        BY <1>1, <1>2, <2>1, <2>2, <3>2, TaskUntouched DEF TypeOK
      <3> QED
        BY <3>1, <3>2
    <2>4. CallerInv'
      BY <1>1, <1>2, <2>1, <2>2, WorkersAreNumbers DEF CallerInv, TypeOK
    <2> QED
      BY <2>3, <2>4 DEF IInv
  <1>4. CASE StartJoin \/ Join \/ Return
    <2>1. UNCHANGED <<worker, at, handled>>
      BY <1>4 DEF StartJoin, Join, Return
    <2>2. \A w \in Workers : TaskInv(w)'
      BY <1>1, <1>2, <2>1, TaskUntouched
    <2>3. CallerInv'
      <3>1. CASE StartJoin
        BY <1>1, <1>2, <2>1, <3>1, WorkersAreNumbers DEF StartJoin, CallerInv
      <3>2. CASE Join
        BY <1>1, <1>2, <2>1, <3>2, WorkersAreNumbers
        DEF Join, FutureReady, CallerInv, Over
      <3>3. CASE Return
        BY <1>1, <1>2, <2>1, <3>3, ThreadIdsAreWorkers, WorkersAreNumbers
        DEF Return, CallerInv, Over
      <3> QED
        BY <1>4, <3>1, <3>2, <3>3
    <2> QED
      BY <2>2, <2>3 DEF IInv
  <1> QED
    BY <1>3, <1>4 DEF CallerStep

\* The inductive invariant of a call of Parallelize: loop variables stay on the
\* blocks of their range, handled is a prefix of the range, and the tasks waited for
\* are over (parallelize.cc:30-54).
THEOREM Invariance == Spec => []IInv
  <1>1. IInv /\ TypeOK' /\ [Next]_vars => IInv'
    <2> SUFFICES ASSUME IInv, TypeOK', [Next]_vars PROVE IInv'
      OBVIOUS
    <2>1. CASE UNCHANGED vars
      BY <2>1 DEF vars, IInv, TypeOK, CallerInv, Over, TaskInv, WithinRange,
                  HandledSoFar, Aligned
    <2> QED
      BY <2>1, TaskStep, CallerStepKeeps DEF Next
  <1> QED
    BY <1>1, Initially, TypeCorrect, PTL DEF Spec

-----------------------------------------------------------------------------

\* Without overlap no block is handled by two tasks, whatever the arguments.
THEOREM NoBlockIsShared == Spec => []NoBlockShared
  <1>1. IInv => NoBlockShared
    <2> SUFFICES ASSUME IInv, call.overlap = 0,
                        NEW i \in Workers, NEW j \in Workers, i # j,
                        NEW o, o \in handled[i], o \in handled[j]
                 PROVE  FALSE
      BY DEF NoBlockShared
    <2>1. IsCall(call) /\ i \in Nat /\ j \in Nat
      BY CallIsCall, WorkersAreNumbers DEF IInv
    <2>2. /\ Beg(call, i) <= o /\ o < End(call, i)
          /\ Beg(call, j) <= o /\ o < End(call, j)
          /\ o \in Nat
      BY DEF IInv, TaskInv, WithinRange, TypeOK
    <2>3. /\ Beg(call, i) \in Nat /\ End(call, i) \in Nat
          /\ Beg(call, j) \in Nat /\ End(call, j) \in Nat
      BY <2>1, RangeFacts
    <2>4. CASE i < j
      BY <2>1, <2>2, <2>3, <2>4, RangesDisjoint
    <2>5. CASE j < i
      BY <2>1, <2>2, <2>3, <2>5, RangesDisjoint
    <2> QED
      BY <2>1, <2>4, <2>5
  <1> QED
    BY <1>1, Invariance, PTL

\* No task is given a block that the data does not have.
THEOREM NoPhantomBlocks == Spec => []OnlyRealBlocks
  <1>1. IInv => OnlyRealBlocks
    BY DEF IInv, TaskInv, WithinRange, OnlyRealBlocks
  <1> QED
    BY <1>1, Invariance, PTL

\* A task that did not throw has handled, once the call has returned, every
\* block start of its range.
LEMMA OwnerHandled ==
  ASSUME IInv, caller = "returned",
         NEW id \in ThreadIds(call), worker[id] # "threw",
         NEW o \in BlockStarts(call.size, call.block),
         Beg(call, id) <= o, o < End(call, id)
  PROVE  o \in handled[id]
  <1>1. id \in Workers /\ id \in Nat
    BY ThreadIdsAreWorkers, WorkersAreNumbers DEF IInv
  <1>2. worker[id] = "done"
    BY <1>1 DEF IInv, CallerInv, Over
  <1>3. HandledSoFar(id) /\ at[id] >= End(call, id) /\ at[id] \in Nat
    BY <1>1, <1>2 DEF IInv, TaskInv, TypeOK
  <1>4. End(call, id) \in Nat
    BY <1>1, CallIsCall, RangeFacts DEF IInv
  <1>5. o \in Nat
    <2>1. PICK k \in 0 .. BlockCount(call.size, call.block) - 1 : o = k * call.block
      BY DEF BlockStarts
    <2> QED
      BY <2>1, CallIsCall, BlockStartIsInside DEF IInv
  <1> QED
    BY <1>3, <1>4, <1>5 DEF HandledSoFar

\* If no task threw, the call returns with every block handled.
THEOREM NoBlockIsLost == Spec => []AllBlocksHandled
  <1>1. IInv => AllBlocksHandled
    <2> SUFFICES ASSUME IInv, caller = "returned",
                        \A id \in Workers : worker[id] # "threw",
                        NEW o \in BlockStarts(call.size, call.block)
                 PROVE  \E id \in Workers : o \in handled[id]
      BY DEF AllBlocksHandled
    <2>1. PICK k \in 0 .. BlockCount(call.size, call.block) - 1 : o = k * call.block
      BY DEF BlockStarts
    <2>2. PICK id \in ThreadIds(call) : Beg(call, id) <= o /\ o < End(call, id)
      BY <2>1, CallIsCall, BlockHasOwner DEF IInv
    <2>3. id \in Workers
      BY ThreadIdsAreWorkers DEF IInv
    <2> QED
      BY <2>2, <2>3, OwnerHandled
  <1> QED
    BY <1>1, Invariance, PTL

\* With an overlap of one block two neighbouring blocks are always handled by
\* one task, so no window of the seed falls between two chunks.
THEOREM NoWindowFallsBetween == Spec => []NeighboursSeenTogether
  <1>1. IInv => NeighboursSeenTogether
    <2> SUFFICES ASSUME IInv, caller = "returned", call.overlap = call.block,
                        \A id \in Workers : worker[id] # "threw",
                        NEW o \in BlockStarts(call.size, call.block),
                        o + call.block < call.size
                 PROVE  \E id \in Workers : {o, o + call.block} \subseteq handled[id]
      BY DEF NeighboursSeenTogether
    <2>1. IsCall(call) /\ call.block \in Nat \ {0} /\ call.size \in Nat
      BY CallIsCall DEF IInv, IsCall
    <2>2. PICK k \in 0 .. BlockCount(call.size, call.block) - 1 : o = k * call.block
      BY DEF BlockStarts
    <2>3. k \in Nat /\ o \in Nat
      BY <2>1, <2>2, ChunkFacts, BlockStartIsInside
    <2>4. PICK id \in ThreadIds(call) :
            /\ Beg(call, id) <= o
            /\ o < End(call, id)
            /\ o + call.block <= (id + 1) * Chunk(call) * call.block
      BY <2>1, <2>2, BlockHasOwner
    <2>5. id \in Workers /\ id \in Nat
      BY ThreadIdsAreWorkers, WorkersAreNumbers DEF IInv
    <2>6. o + call.block \in BlockStarts(call.size, call.block)
      <3>1. o + call.block = (k + 1) * call.block
        BY <2>1, <2>2, <2>3, NextMultiple
      <3> QED
        BY <2>1, <2>3, <3>1, AlignedIsBlockStart
    <2>7. Beg(call, id) <= o + call.block
      BY <2>1, <2>3, <2>4, <2>5, RangeFacts
    <2>8. o + call.block < End(call, id)
      <3>1. (id + 1) * Chunk(call) \in Nat
        BY <2>1, <2>5, ChunkFacts
      <3>2. (id + 1) * Chunk(call) * call.block \in Nat
        BY <2>1, <3>1
      <3> QED
        BY <2>1, <2>3, <2>4, <3>2 DEF End, Min2
    <2>9. o \in handled[id] /\ o + call.block \in handled[id]
      BY <2>4, <2>5, <2>6, <2>7, <2>8, OwnerHandled
    <2> QED
      BY <2>5, <2>9
  <1> QED
    BY <1>1, Invariance, PTL

\* After the call has returned no task does anything any more.
THEOREM ReturnIsFinal == Spec => JoinIsABarrier
  <1>1. IInv /\ [Next]_vars => [caller = "returned" => UNCHANGED <<worker, at, handled>>]_vars
    <2> SUFFICES ASSUME IInv, Next, caller = "returned"
                 PROVE  UNCHANGED <<worker, at, handled>>
      BY DEF vars
    <2>1. ASSUME NEW id \in Workers, Task(id) \/ Throw(id) PROVE FALSE
      <3>1. worker[id] \in {"ready", "running"}
        BY <2>1 DEF Task, Start, HandleBlock, Finish, Throw
      <3> QED
        BY <3>1, ThreadIdsAreWorkers, WorkersAreNumbers DEF IInv, CallerInv, Over
    <2>2. ~CallerStep
      BY DEF CallerStep, Launch, StartJoin, Join, Return
    <2> QED
      BY <2>1, <2>2 DEF Next
  <1> QED
    BY <1>1, Invariance, PTL DEF Spec, JoinIsABarrier
=============================================================================
