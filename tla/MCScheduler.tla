----------------------------- MODULE MCScheduler -----------------------------
(* Model-checking definitions for Scheduler: the tasks are interchangeable.  *)
EXTENDS Scheduler, TLC

Symmetry == Permutations(Task)
=============================================================================
