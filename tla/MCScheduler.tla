---------------------------- MODULE MCScheduler ----------------------------
(* Instances of Scheduler for TLC.                                         *)
EXTENDS Scheduler

CONSTANTS k, p1, p2, p3

FourProcs == {k, p1, p2, p3}
ThreeProcs == {k, p1, p2}
=============================================================================
