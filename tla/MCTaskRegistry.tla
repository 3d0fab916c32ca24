--------------------------- MODULE MCTaskRegistry ---------------------------
(* Small instances of TaskRegistry for TLC. *)
EXTENDS TaskRegistry, TLC

CONSTANTS r1, r2, s1, k1, k2

TwoRequests == {r1, r2}
OneSchedule == {s1}
TwoKeys == {k1, k2}

Symmetry == Permutations(TwoRequests) \cup Permutations(TwoKeys)
=============================================================================
