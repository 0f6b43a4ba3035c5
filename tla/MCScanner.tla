------------------------------ MODULE MCScanner ------------------------------
(* Instances of Scanner for TLC: one subscription, or three to two repositories. *)
EXTENDS Scanner, TLC

CONSTANTS r1, r2

ThreeSubs == {1, 2, 3}
OneSub == {1}
SameRepo == [s \in Subs |-> r1]
LastOwnRepo == [s \in Subs |-> IF s = 3 THEN r2 ELSE r1]

Symmetry == Permutations(Instances) \cup Permutations(Workers)
=============================================================================
