------------------------------ MODULE MCFiber ------------------------------
(* A small instance of Fiber for TLC: a thread of the pool and the caller. *)
EXTENDS Fiber, TLC

CONSTANTS t1, main, root, f1, f2, f3, f4, none

(* The specification names no fiber but the root. *)
Symmetry == Permutations(Fibers)
=============================================================================
