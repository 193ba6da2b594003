---------------------------- MODULE MCSchedulerLock ----------------------------
(***************************************************************************)
(* Two replicas, each with its ticker; the admin jobs are started in the   *)
(* first one.                                                              *)
(***************************************************************************)
EXTENDS SchedulerLock, TLC

CONSTANTS t1, t2, x1, x2

MCHome == [r \in Runner |-> IF r = t2 THEN x2 ELSE x1]

=============================================================================
