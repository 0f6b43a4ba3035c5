----------------------------- MODULE MCNotifier -----------------------------
(* Instances of Notifier for TLC: one call, or two for one address and repository. *)
EXTENDS Notifier, TLC

CONSTANTS r1, p1

OneSub == {1}
TwoSubs == {1, 2}
SameRepo == [s \in Subs |-> r1]
SamePair == [s \in Subs |-> p1]

\* Sound where there are no faults: no process ends, and Server is like any other instance.
Symmetry == Permutations(Instances) \cup Permutations(Handlers)
=============================================================================
