----------------------- MODULE PhaseHandshake_proofs -----------------------
(***************************************************************************)
(* The safety of the phase handshake for any number of phases and any      *)
(* amount of work.                                                         *)
(*                                                                         *)
(* The counts alone are not inductive.  What makes them so is that a call  *)
(* of StartNextPhase is in one of two states: pending, when the flag is up *)
(* or the observer holds it, and settled, when the observer has advanced   *)
(* the phase and cannot advance it again.                                  *)
(***************************************************************************)
EXTENDS PhaseHandshake, TLAPS

\* The observer has still to advance the phase for the last call.
Pending ==
  /\ phase + 1 = started
  /\ IF obs = "advance" THEN ~ready ELSE ready

\* The last call is answered and nothing is left that could answer it again.
Settled ==
  /\ phase = started
  /\ ~ready
  /\ obs \notin {"clear", "advance"}

HandshakeInv ==
  /\ monitored <=> obs # "absent"
  /\ cmd \in {"loadPhase", "spin"} => Pending \/ Settled
  /\ cmd \notin {"loadPhase", "spin"} => Settled
  /\ cmd = "loadPhase" /\ ~monitored => Pending
  /\ cmd = "spin" => /\ monitored
                     /\ Pending => nextPhase = started

\* What progress_ holds, by the place of the command's thread.
ProgressInv ==
  /\ cmd = "working" => progress + todo = WorkOf(started)
  /\ cmd \in {"loadPhase", "spin", "resetProgress"} => progress = WorkOf(started - 1)
  /\ cmd = "setTotal" => progress = 0
  /\ cmd = "finished" => progress = WorkOf(started)

\* A count that a record of the phase numbered p may show.
MayShow(n, p) == n <= WorkOf(p) \/ n = WorkOf(p - 1)

RecordInv ==
  /\ OneRecordPerPhase
  /\ obs = "check" => MayShow(seen, phase)
  /\ \A k \in 1 .. Len(phases) : MayShow(phases[k], k - 1)

Inv == TypeOK /\ HandshakeInv /\ ProgressInv /\ RecordInv

-----------------------------------------------------------------------------

\* The work of a phase is a number of bytes, also outside 1 .. Calls.
LEMMA WorkIsNatural == \A k \in Int : WorkOf(k) \in Nat
  BY CallsAssumption DEF WorkOf

\* The facts about numbers that the steps below rest on.
LEMMA TypeFacts ==
  ASSUME TypeOK
  PROVE  /\ progress \in Nat /\ todo \in Nat /\ phase \in Nat /\ started \in Nat
         /\ WorkOf(started) \in Nat
         /\ WorkOf(started - 1) \in Nat
         /\ WorkOf(phase) \in Nat
  <1>1. progress \in Nat /\ todo \in Nat /\ phase \in Nat /\ started \in Nat
    BY CallsAssumption DEF TypeOK
  <1>2. started \in Int /\ started - 1 \in Int /\ phase \in Int
    BY <1>1
  <1> QED
    BY <1>1, <1>2, WorkIsNatural

\* The inductive invariant holds at first.
LEMMA InitInv == Init => Inv
  <1> SUFFICES ASSUME Init PROVE Inv
    OBVIOUS
  <1> USE CallsAssumption DEF Init
  <1>1. TypeOK
    <2>1. obs \in {"absent", "waiting"}
      OBVIOUS
    <2>2. phases \in Seq(Nat) /\ started \in 0 .. Calls
      OBVIOUS
    <2>3. monitored \in BOOLEAN /\ ready \in BOOLEAN
      OBVIOUS
    <2> QED
      BY <2>1, <2>2, <2>3 DEF TypeOK, CmdStates, ObsStates
  <1>2. HandshakeInv
    BY DEF HandshakeInv, Settled
  <1>3. ProgressInv
    BY DEF ProgressInv, WorkOf
  <1>4. RecordInv
    BY DEF RecordInv, OneRecordPerPhase
  <1> QED
    BY <1>1, <1>2, <1>3, <1>4 DEF Inv

\* Every step keeps the type.
LEMMA TypeStep == TypeOK /\ [Next]_vars => TypeOK'
  <1> SUFFICES ASSUME TypeOK, [Next]_vars PROVE TypeOK'
    OBVIOUS
  <1> USE CallsAssumption DEF TypeOK, CmdStates, ObsStates
  <1>1. CASE AdvanceProgress
    BY <1>1 DEF AdvanceProgress, obsVars
  <1>2. CASE AnnounceReady
    BY <1>2 DEF AnnounceReady, CommandMoves, PhasesToStart, obsVars
  <1>3. CASE LoadPhase
    BY <1>3 DEF LoadPhase, CommandMoves, obsVars
  <1>4. CASE LeaveSpin
    BY <1>4 DEF LeaveSpin, CommandMoves, obsVars
  <1>5. CASE AdvanceUnmonitored
    <2>1. phase' \in Nat
      BY <1>5 DEF AdvanceUnmonitored
    <2>2. ready' \in BOOLEAN /\ monitored' \in BOOLEAN
      BY <1>5, Zenon DEF AdvanceUnmonitored
    <2>3. /\ UNCHANGED <<progress, total, started, todo, nextPhase, obs, seen, phases>>
          /\ cmd' = "resetProgress"
      BY <1>5 DEF AdvanceUnmonitored, CommandMoves, obsVars
    <2> QED
      BY <2>1, <2>2, <2>3
  <1>6. CASE ResetProgress
    BY <1>6 DEF ResetProgress, CommandMoves, ProgressOfNewPhase, obsVars
  <1>7. CASE SetTotal
    BY <1>7, WorkIsNatural DEF SetTotal, CommandMoves, obsVars
  <1>8. CASE FinishCommand
    BY <1>8 DEF FinishCommand, CommandMoves, obsVars
  <1>9. CASE WaitTimesOut
    BY <1>9 DEF WaitTimesOut, ObserverMoves, cmdVars
  <1>10. CASE ReadProgress
    BY <1>10 DEF ReadProgress, ObserverMoves, cmdVars
  <1>11. CASE SeeBusy
    BY <1>11 DEF SeeBusy, ObserverMoves, cmdVars
  <1>12. CASE RecordPhase
    BY <1>12 DEF RecordPhase, ObserverMoves, cmdVars
  <1>13. CASE ClearReady
    BY <1>13 DEF ClearReady, ObserverMoves, cmdVars
  <1>14. CASE AdvancePhase
    BY <1>14 DEF AdvancePhase, ObserverMoves, PhaseAfter, cmdVars
  <1>15. CASE ObserverReturns
    BY <1>15 DEF ObserverReturns, ObserverMoves, cmdVars
  <1>16. CASE UNCHANGED vars
    BY <1>16 DEF vars, cmdVars, obsVars
  <1> QED
    BY <1>1, <1>2, <1>3, <1>4, <1>5, <1>6, <1>7, <1>8, <1>9, <1>10, <1>11,
       <1>12, <1>13, <1>14, <1>15, <1>16 DEF Next, Command, Observer

\* A step of the observer only moves a pending call towards its answer, and a
\* step of the command only leaves the loop when the call is settled.
LEMMA HandshakeStep == TypeOK /\ HandshakeInv /\ [Next]_vars => HandshakeInv'
  <1> SUFFICES ASSUME TypeOK, HandshakeInv, [Next]_vars PROVE HandshakeInv'
    OBVIOUS
  <1> USE DEF HandshakeInv, Pending, Settled
  <1>0. phase \in Nat /\ started \in Nat /\ nextPhase \in Nat /\ ready \in BOOLEAN
    BY CallsAssumption DEF TypeOK
  <1>1. CASE AdvanceProgress
    BY <1>1 DEF AdvanceProgress, obsVars
  <1>2. CASE AnnounceReady
    BY <1>0, <1>2 DEF AnnounceReady, CommandMoves, obsVars
  <1>3. CASE LoadPhase
    BY <1>0, <1>3 DEF LoadPhase, CommandMoves, obsVars
  <1>4. CASE LeaveSpin
    BY <1>0, <1>4 DEF LeaveSpin, CommandMoves, Answered, obsVars
  <1>5. CASE AdvanceUnmonitored
    BY <1>0, <1>5 DEF AdvanceUnmonitored, CommandMoves, obsVars
  <1>6. CASE ResetProgress
    BY <1>6 DEF ResetProgress, CommandMoves, obsVars
  <1>7. CASE SetTotal
    BY <1>7 DEF SetTotal, CommandMoves, obsVars
  <1>8. CASE FinishCommand
    BY <1>8 DEF FinishCommand, CommandMoves, obsVars
  <1>9. CASE WaitTimesOut
    BY <1>9 DEF WaitTimesOut, ObserverMoves, cmdVars
  <1>10. CASE ReadProgress
    BY <1>10 DEF ReadProgress, ObserverMoves, cmdVars
  <1>11. CASE SeeBusy
    BY <1>11 DEF SeeBusy, ObserverMoves, cmdVars
  <1>12. CASE RecordPhase
    BY <1>12 DEF RecordPhase, ObserverMoves, cmdVars
  <1>13. CASE ClearReady
    BY <1>13 DEF ClearReady, ObserverMoves, cmdVars
  <1>14. CASE AdvancePhase
    BY <1>0, <1>14 DEF AdvancePhase, ObserverMoves, PhaseAfter, cmdVars
  <1>15. CASE ObserverReturns
    BY <1>15 DEF ObserverReturns, ObserverMoves, cmdVars
  <1>16. CASE UNCHANGED vars
    BY <1>16 DEF vars, cmdVars, obsVars
  <1> QED
    BY <1>1, <1>2, <1>3, <1>4, <1>5, <1>6, <1>7, <1>8, <1>9, <1>10, <1>11,
       <1>12, <1>13, <1>14, <1>15, <1>16 DEF Next, Command, Observer

\* Only the command's thread changes progress_.
LEMMA ProgressStep == TypeOK /\ ProgressInv /\ [Next]_vars => ProgressInv'
  <1> SUFFICES ASSUME TypeOK, ProgressInv, [Next]_vars PROVE ProgressInv'
    OBVIOUS
  <1>0. /\ progress \in Nat /\ todo \in Nat /\ started \in Nat
        /\ WorkOf(started) \in Nat /\ WorkOf(started - 1) \in Nat
    BY TypeFacts
  <1> USE DEF ProgressInv
  <1>1. CASE AdvanceProgress
    BY <1>0, <1>1 DEF AdvanceProgress, WorkOf
  <1>2. CASE AnnounceReady
    <2>1. started' - 1 = started /\ progress' = progress /\ cmd' = "loadPhase"
      BY <1>0, <1>2 DEF AnnounceReady, CommandMoves
    <2>2. progress = WorkOf(started)
      BY <1>0, <1>2 DEF AnnounceReady, CommandMoves
    <2> QED
      BY <2>1, <2>2 DEF WorkOf
  <1>3. CASE LoadPhase
    BY <1>3 DEF LoadPhase, CommandMoves, WorkOf
  <1>4. CASE LeaveSpin
    BY <1>4 DEF LeaveSpin, CommandMoves, WorkOf
  <1>5. CASE AdvanceUnmonitored
    BY <1>5 DEF AdvanceUnmonitored, CommandMoves, WorkOf
  <1>6. CASE ResetProgress
    <2>1. cmd' = "setTotal" /\ progress' = 0 /\ started' = started
      BY <1>6 DEF ResetProgress, CommandMoves, ProgressOfNewPhase
    <2> QED
      BY <1>0, <2>1 DEF WorkOf
  <1>7. CASE SetTotal
    BY <1>0, <1>7 DEF SetTotal, CommandMoves, WorkOf
  <1>8. CASE FinishCommand
    BY <1>0, <1>8 DEF FinishCommand, CommandMoves, WorkOf
  <1>9. CASE Observer
    <2>1. UNCHANGED <<progress, cmdVars>>
      BY <1>9 DEF Observer, WaitTimesOut, ReadProgress, SeeBusy, RecordPhase,
                  ClearReady, AdvancePhase, ObserverReturns
    <2> QED
      BY <2>1 DEF cmdVars, WorkOf
  <1>10. CASE UNCHANGED vars
    BY <1>10 DEF vars, cmdVars, WorkOf
  <1> QED
    BY <1>1, <1>2, <1>3, <1>4, <1>5, <1>6, <1>7, <1>8, <1>9, <1>10 DEF Next, Command

\* What can be read of progress_ now is what a record of this phase may show.
LEMMA ProgressMayShow ==
  ASSUME TypeOK, HandshakeInv, ProgressInv
  PROVE  MayShow(progress, phase)
  <1>0. /\ progress \in Nat /\ todo \in Nat /\ phase \in Nat /\ started \in Nat
        /\ WorkOf(started) \in Nat /\ WorkOf(phase) \in Nat
    BY TypeFacts
  <1>1. CASE Pending
    <2>1. cmd \in {"loadPhase", "spin"}
      BY <1>0, <1>1 DEF HandshakeInv, Pending, Settled
    <2>2. started - 1 = phase
      BY <1>0, <1>1 DEF Pending
    <2> QED
      BY <1>0, <2>1, <2>2 DEF ProgressInv, MayShow
  <1>2. CASE Settled
    <2>1. phase = started
      BY <1>2 DEF Settled
    <2>2. CASE cmd \in {"working", "setTotal", "finished"}
      BY <1>0, <2>1, <2>2 DEF ProgressInv, MayShow
    <2>3. CASE cmd \in {"loadPhase", "spin", "resetProgress"}
      BY <1>0, <2>1, <2>3 DEF ProgressInv, MayShow
    <2> QED
      BY <2>2, <2>3 DEF TypeOK, CmdStates
  <1> QED
    BY <1>1, <1>2 DEF HandshakeInv

\* A record is made of the count last read, and the phase does not change
\* between the reading and the recording.
LEMMA RecordStep == Inv /\ [Next]_vars => RecordInv'
  <1> SUFFICES ASSUME Inv, [Next]_vars PROVE RecordInv'
    OBVIOUS
  <1>0. TypeOK /\ HandshakeInv /\ ProgressInv /\ RecordInv
    BY DEF Inv
  <1>1. phases \in Seq(Nat) /\ phase \in Nat /\ monitored \in BOOLEAN
    BY <1>0 DEF TypeOK
  <1>2. CASE Command
    <2>1. obsVars' = obsVars /\ monitored' = monitored
      BY <1>2 DEF Command, AdvanceProgress, AnnounceReady, LoadPhase, LeaveSpin,
                  AdvanceUnmonitored, ResetProgress, SetTotal, FinishCommand
    <2>2. monitored => phase' = phase
      BY <1>2 DEF Command, AdvanceProgress, AnnounceReady, LoadPhase, LeaveSpin,
                  AdvanceUnmonitored, ResetProgress, SetTotal, FinishCommand
    <2>3. obs = "check" => monitored
      BY <1>0 DEF HandshakeInv
    <2> QED
      BY <1>0, <2>1, <2>2, <2>3 DEF RecordInv, OneRecordPerPhase, MayShow, WorkOf, obsVars
  <1>3. CASE WaitTimesOut
    BY <1>0, <1>3 DEF WaitTimesOut, ObserverMoves, cmdVars, RecordInv,
                      OneRecordPerPhase, MayShow, WorkOf
  <1>4. CASE ReadProgress
    <2>1. MayShow(progress, phase)
      BY <1>0, ProgressMayShow
    <2> QED
      BY <1>0, <1>4, <2>1 DEF ReadProgress, ObserverMoves, cmdVars, RecordInv,
                              OneRecordPerPhase, MayShow, WorkOf
  <1>5. CASE SeeBusy
    BY <1>0, <1>5 DEF SeeBusy, ObserverMoves, cmdVars, RecordInv,
                      OneRecordPerPhase, MayShow, WorkOf
  <1>6. CASE RecordPhase
    <2>1. /\ obs = "check" /\ obs' = "clear"
          /\ phases' = Append(phases, seen)
          /\ UNCHANGED <<monitored, phase>>
      BY <1>6 DEF RecordPhase, ObserverMoves
    <2>2. monitored
      BY <1>0, <2>1 DEF HandshakeInv
    <2>3. Len(phases) = phase
      BY <1>0, <1>1, <2>1, <2>2 DEF RecordInv, OneRecordPerPhase
    <2>4. seen \in Nat
      BY <1>0 DEF TypeOK
    <2>5. /\ Len(phases') = phase + 1
          /\ \A k \in 1 .. Len(phases) : phases'[k] = phases[k]
          /\ phases'[phase + 1] = seen
      BY <1>1, <2>1, <2>3, <2>4
    <2>6. OneRecordPerPhase'
      BY <1>1, <2>1, <2>5 DEF OneRecordPerPhase
    <2>7. ASSUME NEW k \in 1 .. Len(phases') PROVE MayShow(phases'[k], k - 1)
      <3>1. CASE k \in 1 .. Len(phases)
        BY <1>0, <2>5, <3>1 DEF RecordInv
      <3>2. CASE k = phase + 1
        <4>1. k - 1 = phase
          BY <1>1, <3>2
        <4> QED
          BY <1>0, <2>1, <2>5, <3>2, <4>1 DEF RecordInv
      <3> QED
        BY <1>1, <2>3, <2>5, <3>1, <3>2
    <2> QED
      BY <2>1, <2>6, <2>7 DEF RecordInv, MayShow, WorkOf
  <1>7. CASE ClearReady
    BY <1>0, <1>7 DEF ClearReady, ObserverMoves, cmdVars, RecordInv,
                      OneRecordPerPhase, MayShow, WorkOf
  <1>8. CASE AdvancePhase
    BY <1>0, <1>1, <1>8 DEF AdvancePhase, ObserverMoves, PhaseAfter, cmdVars, RecordInv,
                      OneRecordPerPhase, MayShow, WorkOf
  <1>9. CASE ObserverReturns
    BY <1>0, <1>9 DEF ObserverReturns, ObserverMoves, cmdVars, RecordInv,
                      OneRecordPerPhase, MayShow, WorkOf
  <1>10. CASE UNCHANGED vars
    BY <1>0, <1>10 DEF vars, obsVars, RecordInv, OneRecordPerPhase, MayShow, WorkOf
  <1> QED
    BY <1>2, <1>3, <1>4, <1>5, <1>6, <1>7, <1>8, <1>9, <1>10 DEF Next, Observer

-----------------------------------------------------------------------------

\* The inductive invariant of the handshake (observable.cc:17-50, observer.cc:16-68).
LEMMA Invariance == Spec => []Inv
  <1>1. Inv /\ [Next]_vars => Inv'
    BY TypeStep, HandshakeStep, ProgressStep, RecordStep DEF Inv
  <1> QED
    BY InitInv, <1>1, PTL DEF Spec

\* Every variable keeps its type.
THEOREM TypeCorrect == Spec => []TypeOK
  <1>1. Inv => TypeOK
    BY DEF Inv
  <1> QED
    BY Invariance, <1>1, PTL

\* However the loads and stores of observable.cc and observer.cc interleave, the
\* command works in phase k exactly when it has begun k StartNextPhase calls.
THEOREM NoCallAnsweredTwice == Spec => []PhaseCountsCalls
  <1>1. Inv => PhaseCountsCalls
    BY CallsAssumption
    DEF Inv, TypeOK, CmdStates, HandshakeInv, Pending, Settled, PhaseCountsCalls
  <1> QED
    BY Invariance, <1>1, PTL

\* SnapshotPhases (observer.cc:71-82) finds one record for each finished phase.
THEOREM RecordsFollowPhases == Spec => []OneRecordPerPhase
  <1>1. Inv => OneRecordPerPhase
    BY DEF Inv, RecordInv
  <1> QED
    BY Invariance, <1>1, PTL

\* A record shows at most the bytes of its own phase, or the final count of the
\* phase before: the two loads of observer.cc:18 and 39 cannot mix more than that.
THEOREM RecordsAreShortOrStale == Spec => []RecordIsShortOrStale
  <1>1. ASSUME Inv, NEW k \in 1 .. Len(phases)
        PROVE  phases[k] <= WorkOf(k - 1) \/ phases[k] = WorkOf(k - 2)
    <2>1. MayShow(phases[k], k - 1)
      BY <1>1 DEF Inv, RecordInv
    <2>2. (k - 1) - 1 = k - 2
      OBVIOUS
    <2> QED
      BY <2>1, <2>2 DEF MayShow
  <1>2. Inv => RecordIsShortOrStale
    BY <1>1 DEF RecordIsShortOrStale
  <1> QED
    BY Invariance, <1>2, PTL
=============================================================================
