---------------------------- MODULE MCIOManager ----------------------------
(* Small instances of IOManager for TLC. *)
EXTENDS IOManagerInvariant, TLC

CONSTANTS t1, t2, root, a, b, c1, c2, c3, none

(* One descriptor is read and written, another is written and hangs up; or   *)
(* one is read, and may hang up or not.                                      *)
BothAndOne == (a :> Event) @@ (b :> {"WRITE"})
BothAndHup == (a :> {"IN", "OUT"}) @@ (b :> {"HUP"})
ReadOnly   == a :> {"READ"}
InOnly     == a :> {"IN"}
InAndHup   == a :> {"IN", "HUP"}

Symmetry == Permutations(Pool) \cup Permutations(Tasks)
=============================================================================
