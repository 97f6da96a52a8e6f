---------------------------- MODULE Parallelize ----------------------------
(***************************************************************************)
(* One call of ky::parallelize::Parallelize                                *)
(* (kylibs/parallelize/parallelize.cc:8-55): the caller launches a task    *)
(* per range with std::async, then waits for every future in order.        *)
(*                                                                         *)
(* Every task runs the loop that the three callers pass as f: from beg to  *)
(* end in steps of one block (sync_command.cc:261-263 and 480,             *)
(* prepare_command.cc:121).  What a caller does with a block is left to    *)
(* the modules of the phases; here a block is only handled.                *)
(*                                                                         *)
(* std::async is called without a launch policy, so a task may run on its  *)
(* own thread or be deferred until the caller waits for it.  A task that   *)
(* ends with an exception is as ready as one that returned: the caller     *)
(* uses wait() and never get(), so it cannot tell the two apart.           *)
(***************************************************************************)
EXTENDS ChunkRanges

CONSTANTS
  Calls,       \* the argument records a call may be made with
  MaxThreads   \* the largest thread count among them

ASSUME CallsAssumption ==
  /\ MaxThreads \in Nat \ {0}
  /\ \A c \in Calls : IsCall(c) /\ c.threads <= MaxThreads

Workers == 0 .. MaxThreads - 1

VARIABLES
  call,     \* the arguments of this call
  caller,   \* where the calling thread is: "launching", "joining" or "returned"
  next,     \* the id the caller launches or waits for next
  worker,   \* what became of each task
  at,       \* the loop variable of each task: the offset of its next block
  handled   \* the block offsets each task has handled so far

vars == <<call, caller, next, worker, at, handled>>

WorkerStates == {"none", "ready", "deferred", "running", "done", "threw"}

Init ==
  /\ call \in Calls
  /\ caller = "launching"
  /\ next = 0
  /\ worker = [id \in Workers |-> "none"]
  /\ at = [id \in Workers |-> 0]
  /\ handled = [id \in Workers |-> {}]

-----------------------------------------------------------------------------
(* The calling thread. *)

\* parallelize.cc:30.
MoreToLaunch == next < ThreadCount(call)

\* Plausible slip: the waiting loop, which the FIXME of parallelize.cc:39 thinks
\* of removing, is gone and nothing else waits.
NotAwaited == TRUE

\* parallelize.cc:53: wait() returns once the future is ready, whichever way
\* its task ended.
FutureReady == worker[next] \in {"done", "threw"}

\* parallelize.cc:30-37; the library picks the launch policy.
Launch ==
  /\ caller = "launching"
  /\ MoreToLaunch
  /\ \E policy \in {"ready", "deferred"} :
       worker' = [worker EXCEPT ![next] = policy]
  /\ next' = next + 1
  /\ UNCHANGED <<call, caller, at, handled>>

\* The launching loop ends and the waiting loop of parallelize.cc:51 begins.
StartJoin ==
  /\ caller = "launching"
  /\ next = ThreadCount(call)
  /\ caller' = "joining"
  /\ next' = 0
  /\ UNCHANGED <<call, worker, at, handled>>

Join ==
  /\ caller = "joining"
  /\ next < ThreadCount(call)
  /\ FutureReady
  /\ next' = next + 1
  /\ UNCHANGED <<call, caller, worker, at, handled>>

Return ==
  /\ caller = "joining"
  /\ next = ThreadCount(call)
  /\ caller' = "returned"
  /\ UNCHANGED <<call, next, worker, at, handled>>

-----------------------------------------------------------------------------
(* The tasks. *)

\* Plausible slip: end is taken for the last offset of the range.
InRangeInclusive(id) == at[id] <= End(call, id)

InRange(id) == at[id] < End(call, id)

\* Plausible slip: the loop only stops at the exact end of the range.
AtEnd(id) == at[id] = End(call, id)

PastEnd(id) == at[id] >= End(call, id)

\* A deferred task is run by the wait() of the calling thread.
Start(id) ==
  /\ \/ worker[id] = "ready"
     \/ worker[id] = "deferred" /\ caller = "joining" /\ next = id
  /\ worker' = [worker EXCEPT ![id] = "running"]
  /\ at' = [at EXCEPT ![id] = Beg(call, id)]
  /\ UNCHANGED <<call, caller, next, handled>>

HandleBlock(id) ==
  /\ worker[id] = "running"
  /\ InRange(id)
  /\ handled' = [handled EXCEPT ![id] = @ \union {at[id]}]
  /\ at' = [at EXCEPT ![id] = @ + call.block]
  /\ UNCHANGED <<call, caller, next, worker>>

Finish(id) ==
  /\ worker[id] = "running"
  /\ PastEnd(id)
  /\ worker' = [worker EXCEPT ![id] = "done"]
  /\ UNCHANGED <<call, caller, next, at, handled>>

\* Reader::Create throws std::invalid_argument (reader.cc:62,86,93,100) and
\* std::stoll of the readers may throw; the future keeps the exception.
Throw(id) ==
  /\ worker[id] = "running"
  /\ worker' = [worker EXCEPT ![id] = "threw"]
  /\ UNCHANGED <<call, caller, next, at, handled>>

Task(id) == Start(id) \/ HandleBlock(id) \/ Finish(id)

CallerStep == Launch \/ StartJoin \/ Join \/ Return

Next == CallerStep \/ \E id \in Workers : Task(id) \/ Throw(id)

Spec == Init /\ [][Next]_vars

\* The operating system schedules the calling thread and every task;
\* nothing obliges a task to throw.
Fairness ==
  /\ WF_vars(CallerStep)
  /\ \A id \in Workers : WF_vars(Task(id))

FairSpec == Spec /\ Fairness

-----------------------------------------------------------------------------
(* Properties. *)

\* The caller's counter stays within the threads, and every task in a known state.
TypeOK ==
  /\ call \in Calls
  /\ caller \in {"launching", "joining", "returned"}
  /\ next \in 0 .. MaxThreads
  /\ worker \in [Workers -> WorkerStates]
  /\ at \in [Workers -> Nat]
  /\ handled \in [Workers -> SUBSET Nat]

\* Without overlap no block is handled by two tasks: preparing writes each
\* checksum and each compressed block, and reconstructing writes each block of
\* the output, from one thread only (prepare_command.cc:130-161,
\* sync_command.cc:449), and none of those writes is locked.
NoBlockShared ==
  call.overlap = 0 =>
    \A i, j \in Workers : i # j => handled[i] \intersect handled[j] = {}

\* No task gets a block that is not one of the data: the tables indexed with
\* offset / block_size have exactly that many entries
\* (prepare_command.cc:119-161, sync_command.cc:481-482).
OnlyRealBlocks ==
  \A id \in Workers : handled[id] \subseteq BlockStarts(call.size, call.block)

\* When the call returns and no task threw, every block was handled, whatever
\* the size, block size and thread count.
AllBlocksHandled ==
  caller = "returned" /\ (\A id \in Workers : worker[id] # "threw") =>
    BlockStarts(call.size, call.block) \subseteq
      UNION {handled[id] : id \in Workers}

\* With an overlap of one block (sync_command.cc:315-318) the windows that lie
\* across two neighbouring blocks are seen too: some one task read both blocks.
NeighboursSeenTogether ==
  /\ caller = "returned"
  /\ call.overlap = call.block
  /\ \A id \in Workers : worker[id] # "threw"
  => \A b \in BlockStarts(call.size, call.block) :
       b + call.block < call.size =>
         \E id \in Workers : {b, b + call.block} \subseteq handled[id]

\* The phase after the call may use what the tasks wrote: once the call has
\* returned no task does anything any more.
JoinIsABarrier ==
  [][caller = "returned" => UNCHANGED <<worker, at, handled>>]_vars

\* The call returns, also when some of its tasks were deferred or threw.
CallReturns == <>(caller = "returned")
=============================================================================
