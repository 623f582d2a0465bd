--------------------------- MODULE MCSchedulerJob ---------------------------
(***************************************************************************)
(* Model values for SchedulerJob.  The ticks of a job are interchangeable, *)
(* and so are the jobs.                                                    *)
(***************************************************************************)
EXTENDS SchedulerJob, TLC

Symmetry == Permutations(Slot) \cup Permutations(Job)
=============================================================================
