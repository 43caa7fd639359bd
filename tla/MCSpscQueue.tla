---------------------------- MODULE MCSpscQueue ----------------------------
(* SpscQueue with counters a few laps wide, so that both wrap around many  *)
(* times in a run.                                                         *)
EXTENDS SpscQueue

CONSTANTS v1, v2

MCValues == {v1, v2}

=============================================================================
