---------------------------- MODULE MCTimerQueue ----------------------------
(* TimerQueue for TLC: the events are model values given by the             *)
(* configuration.  No symmetry, which is not sound for the liveness         *)
(* property.                                                                *)
EXTENDS TimerQueue
=============================================================================
