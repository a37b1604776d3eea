-------------------------- MODULE MCScheduleWorker --------------------------
(* Instances of ScheduleWorker for TLC.                                     *)
EXTENDS ScheduleWorker, TLC

CONSTANTS t1, w1, w2, r1, r2, r3
=============================================================================
