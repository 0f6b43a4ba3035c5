--------------------------- MODULE MCSubscriptions ---------------------------
(* Instances of Subscriptions for TLC: three calls, two of them for the same pair. *)
EXTENDS Subscriptions, TLC

CONSTANTS q1, q2, q3, p1, p2

TwoPairs == [q \in Requests |-> IF q = q2 THEN p2 ELSE p1]
OnePair == [q \in Requests |-> p1]

Symmetry == Permutations(Handlers) \cup Permutations(Workers)
=============================================================================
