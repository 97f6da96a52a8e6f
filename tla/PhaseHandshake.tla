--------------------------- MODULE PhaseHandshake ---------------------------
(***************************************************************************)
(* The handshake between a running command and the observer that prints    *)
(* its progress: Observable (kylibs/observability/observable.cc) is the    *)
(* shared state, the thread of the command calls StartNextPhase and        *)
(* AdvanceProgress, and the thread of Observer::Run                        *)
(* (kylibs/observability/observer.cc) polls it.                            *)
(*                                                                         *)
(* is_ready_for_next_phase_, phase_, progress_ and total_ are atomics with *)
(* no lock around them, so each read and each write is a step of its own.  *)
(* The times and the text an update prints are left out.                   *)
(***************************************************************************)
EXTENDS Integers, Sequences

CONSTANTS
  Calls,   \* how many times the command calls StartNextPhase
  Work     \* Work[i]: the bytes it reports between call i and call i + 1

ASSUME CallsAssumption ==
  /\ Calls \in Nat \ {0}
  /\ Work \in [1 .. Calls -> Nat]

VARIABLES
  monitored,   \* is_monitored_: set before the command's thread exists
  ready,       \* is_ready_for_next_phase_
  phase,       \* phase_
  progress,    \* progress_
  total,       \* total_
  cmd,         \* where the command's thread is
  started,     \* the StartNextPhase calls it has begun
  todo,        \* the bytes it has still to report in this phase
  nextPhase,   \* the local next_phase of StartNextPhase
  obs,         \* where the observer's thread is
  seen,        \* the local processed_bytes of Observer::Update
  phases       \* phases_: the bytes recorded for each finished phase

cmdVars == <<cmd, started, todo, nextPhase>>
obsVars == <<obs, seen, phases>>
vars == <<monitored, ready, phase, progress, total, cmdVars, obsVars>>

CmdStates ==
  {"working", "loadPhase", "spin", "resetProgress", "setTotal", "finished"}

ObsStates == {"absent", "waiting", "update", "check", "clear", "advance", "exited"}

\* The command's constructor, and Observer::Run up to std::async.  Without an
\* Observer (the tests call Run() directly) nobody polls.
Init ==
  /\ monitored \in BOOLEAN
  /\ ready = FALSE
  /\ phase = 0
  /\ progress = 0
  /\ total = 1
  /\ cmd = "working"
  /\ started = 0
  /\ todo = 0
  /\ nextPhase = 0
  /\ obs = IF monitored THEN "waiting" ELSE "absent"
  /\ seen = 0
  /\ phases = <<>>

\* The bytes of the phase after the k-th call; nothing is done before the first.
WorkOf(k) == IF k \in 1 .. Calls THEN Work[k] ELSE 0

CommandMoves(from, to) == cmd = from /\ cmd' = to
ObserverMoves(from, to) == obs = from /\ obs' = to

-----------------------------------------------------------------------------
(* The thread of the command. *)

PhasesToStart == started < Calls

\* Plausible slip: the loop ends one phase early.
AlmostAnswered == phase + 1 >= nextPhase

\* observable.cc:42.
Answered == phase = nextPhase

\* Plausible slip: progress_ goes on counting.
ProgressKept == progress

\* observable.cc:48.
ProgressOfNewPhase == 0

AdvanceProgress ==
  /\ cmd = "working"
  /\ todo > 0
  /\ todo' = todo - 1
  /\ progress' = progress + 1
  /\ UNCHANGED <<monitored, ready, phase, total, cmd, started, nextPhase, obsVars>>

\* observable.cc:37-39.
AnnounceReady ==
  /\ CommandMoves("working", "loadPhase")
  /\ todo = 0
  /\ PhasesToStart
  /\ ready' = TRUE
  /\ started' = started + 1
  /\ UNCHANGED <<monitored, phase, progress, total, todo, nextPhase, obsVars>>

\* observable.cc:40; the observer may have advanced since line 37.
LoadPhase ==
  /\ CommandMoves("loadPhase", "spin")
  /\ monitored
  /\ nextPhase' = phase + 1
  /\ UNCHANGED <<monitored, ready, phase, progress, total, started, todo, obsVars>>

LeaveSpin ==
  /\ CommandMoves("spin", "resetProgress")
  /\ Answered
  /\ UNCHANGED <<monitored, ready, phase, progress, total, started, todo, nextPhase, obsVars>>

\* observable.cc:45, with nobody to race with.
AdvanceUnmonitored ==
  /\ CommandMoves("loadPhase", "resetProgress")
  /\ ~monitored
  /\ ready' = FALSE
  /\ phase' = phase + 1
  /\ UNCHANGED <<monitored, progress, total, started, todo, nextPhase, obsVars>>

ResetProgress ==
  /\ CommandMoves("resetProgress", "setTotal")
  /\ progress' = ProgressOfNewPhase
  /\ UNCHANGED <<monitored, ready, phase, total, started, todo, nextPhase, obsVars>>

\* observable.cc:49.
SetTotal ==
  /\ CommandMoves("setTotal", "working")
  /\ total' = WorkOf(started)
  /\ todo' = WorkOf(started)
  /\ UNCHANGED <<monitored, ready, phase, progress, started, nextPhase, obsVars>>

\* The command's Run returns after its last StartNextPhase(0).
FinishCommand ==
  /\ CommandMoves("working", "finished")
  /\ todo = 0
  /\ started = Calls
  /\ UNCHANGED <<monitored, ready, phase, progress, total, started, todo, nextPhase, obsVars>>

Command ==
  \/ AdvanceProgress \/ AnnounceReady \/ LoadPhase \/ LeaveSpin
  \/ AdvanceUnmonitored \/ ResetProgress \/ SetTotal \/ FinishCommand

-----------------------------------------------------------------------------
(* The thread of the observer. *)

\* Plausible slip: an update that has nothing to show returns early.
NothingShown == ~ready \/ seen = 0

\* observer.cc:39: no phase has ended.
NothingEnded == ~ready

\* Plausible slip: the phase is the number of the last record, from 0.
LastRecord == Len(phases) - 1

\* observable.cc:19.
PhaseAfter == phase + 1

\* observer.cc:61: the result is not ready after 100 ms, an update is due.
WaitTimesOut ==
  /\ ObserverMoves("waiting", "update")
  /\ cmd # "finished"
  /\ UNCHANGED <<monitored, ready, phase, progress, total, cmdVars, seen, phases>>

\* observer.cc:18.
ReadProgress ==
  /\ ObserverMoves("update", "check")
  /\ seen' = progress
  /\ UNCHANGED <<monitored, ready, phase, progress, total, cmdVars, phases>>

\* The update is over.
SeeBusy ==
  /\ ObserverMoves("check", "waiting")
  /\ NothingEnded
  /\ UNCHANGED <<monitored, ready, phase, progress, total, cmdVars, seen, phases>>

\* observer.cc:39-44.
RecordPhase ==
  /\ ObserverMoves("check", "clear")
  /\ ready
  /\ phases' = Append(phases, seen)
  /\ UNCHANGED <<monitored, ready, phase, progress, total, cmdVars, seen>>

\* observable.cc:18, called from observer.cc:46.
ClearReady ==
  /\ ObserverMoves("clear", "advance")
  /\ ready' = FALSE
  /\ UNCHANGED <<monitored, phase, progress, total, cmdVars, seen, phases>>

\* observable.cc:19, called from observer.cc:46.
AdvancePhase ==
  /\ ObserverMoves("advance", "waiting")
  /\ phase' = PhaseAfter
  /\ UNCHANGED <<monitored, ready, progress, total, cmdVars, seen, phases>>

\* observer.cc:61-68: the result is ready.
ObserverReturns ==
  /\ ObserverMoves("waiting", "exited")
  /\ cmd = "finished"
  /\ UNCHANGED <<monitored, ready, phase, progress, total, cmdVars, seen, phases>>

Observer ==
  \/ WaitTimesOut \/ ReadProgress \/ SeeBusy \/ RecordPhase
  \/ ClearReady \/ AdvancePhase \/ ObserverReturns

-----------------------------------------------------------------------------

Next == Command \/ Observer

Spec == Init /\ [][Next]_vars

\* Both threads are scheduled; the 100 ms of an update always pass.
FairSpec == Spec /\ WF_vars(Command) /\ WF_vars(Observer)

-----------------------------------------------------------------------------
(* Properties. *)

\* Counters never become negative, and both threads are at a known statement.
TypeOK ==
  /\ monitored \in BOOLEAN
  /\ ready \in BOOLEAN
  /\ phase \in Nat
  /\ progress \in Nat
  /\ total \in Nat
  /\ cmd \in CmdStates
  /\ started \in 0 .. Calls
  /\ todo \in Nat
  /\ nextPhase \in Nat
  /\ obs \in ObsStates
  /\ seen \in Nat
  /\ phases \in Seq(Nat)

\* However the two threads interleave, the command works in phase k exactly
\* when it has begun k StartNextPhase calls: a call is never answered twice and
\* the command never leaves the loop of observable.cc:42 unanswered.
PhaseCountsCalls ==
  /\ phase <= started
  /\ cmd \in {"working", "resetProgress", "setTotal", "finished"} => phase = started

\* Observer::SnapshotPhases (observer.cc:71-82) numbers the records of phases_
\* from 0: there is one for each phase the command has left, none twice.
OneRecordPerPhase ==
  monitored => Len(phases) = phase + (IF obs \in {"clear", "advance"} THEN 1 ELSE 0)

\* What is recorded for a phase was read before the ready flag was (observer.cc
\* lines 18 and 39), so it may be short, or be the final count of the phase
\* before, but it is never another phase's and never more than was done.
RecordIsShortOrStale ==
  \A k \in 1 .. Len(phases) :
    \/ phases[k] <= WorkOf(k - 1)
    \/ phases[k] = WorkOf(k - 2)

\* What the loop waits for is still to come: the flag is up, or the observer
\* has seen it and has not yet advanced the phase.
AdvancePending ==
  nextPhase = phase + 1 /\ (ready \/ obs \in {"clear", "advance"})

\* A command that read phase_ (observable.cc:40) before the observer advanced it
\* leaves its loop.
TimelyWaitEnds == (cmd = "spin" /\ AdvancePending) ~> (cmd # "spin")

\* "wait for monitor to advance to next phase" (observable.cc:41): the wait ends
\* once the monitor does so.
WaitEnds == (cmd = "spin") ~> (cmd # "spin")
=============================================================================
