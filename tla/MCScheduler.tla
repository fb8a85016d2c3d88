---------------------------- MODULE MCScheduler ----------------------------
(* Small instances of Scheduler for TLC. *)
EXTENDS SchedulerRefinement, SchedulerInvariant, TLC

CONSTANTS t1, t2, root, c1, c2, c3, f1, f2, f3, none, any

(* Fibers, callbacks and pool threads are interchangeable in the safety      *)
(* runs: the specification names none of them.                               *)
Symmetry ==
    Permutations(Fibers) \cup Permutations(Callbacks) \cup Permutations(Pool)
=============================================================================
