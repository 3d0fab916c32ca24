--------------------------- MODULE MCTargetCache ---------------------------
(* A small instance of TargetCache for TLC. *)
EXTENDS TargetCache, TLC

CONSTANTS r1, r2, l1, l2, l3

TwoRequests == {r1, r2}

\* Settings are changed twice: to new values each time, or there and back.
ThreeLooks == {l1, l2, l3}

Symmetry == Permutations(TwoRequests) \cup Permutations(ThreeLooks)
=============================================================================
