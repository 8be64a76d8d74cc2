----------------------------- MODULE MCJobQueue -----------------------------
(***************************************************************************)
(* The properties of the job queue and the instances TLC checks them on.   *)
(***************************************************************************)
EXTENDS JobQueueProps, TLC

CONSTANTS w1, w2, s1, s2, j1, j2, j3

OneJobType  == [j \in JobIds |-> "work"]
\* Every job is the scheduler's.
SweepsOnly  == [j \in JobIds |-> "sweep"]

Alike == Permutations(Procs) \cup Permutations(Slots) \cup Permutations(JobIds)
=============================================================================
