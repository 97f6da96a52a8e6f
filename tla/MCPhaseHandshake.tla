-------------------------- MODULE MCPhaseHandshake --------------------------
(* Five StartNextPhase calls, as many as the sync command makes, with phases  *)
(* of different length so that a stale count can be told from a short one.    *)
EXTENDS PhaseHandshake

MCWork == <<2, 1, 3, 2, 0>>
=============================================================================
