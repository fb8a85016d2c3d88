------------------------------ MODULE MCConfig ------------------------------
(* Small instances of Config for TLC. *)
EXTENDS ConfigInvariant, TLC

CONSTANTS t1, t2, n1, n2, bad_name, int, str, list, v1, v2, x, y, bad, l1, l2, l3, l4, none

(* Two names of one type, and one of them looked up with another type too. *)
SomeShared == (n1 :> {int, list}) @@ (n2 :> {int}) @@ (bad_name :> {int})
SameType == (n1 :> {int}) @@ (n2 :> {int})

(* A document with text that does not convert before the text that does. *)
Documents == {<< <<n1, bad>>, <<n2, y>>, <<n1, y>> >>}
=============================================================================
