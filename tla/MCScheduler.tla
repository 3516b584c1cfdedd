----------------------------- MODULE MCScheduler -----------------------------
(* Scheduler on small instances.                                             *)
EXTENDS Scheduler

CONSTANTS j1, j2, j3, gpu, npu, p1, p2

\* The last job is the only one of profile p2.
MCProfileOf == [j \in Jobs |-> IF j = j3 THEN p2 ELSE p1]
=============================================================================
