--------------------------- MODULE MCSyncDispatch ---------------------------
(* Small instances of SyncDispatch for TLC. *)
EXTENDS SyncDispatch, TLC

CONSTANTS r1, r2, t1, t2

OneRun == {r1}
TwoRuns == {r1, r2}
TwoTargets == {t1, t2}

Symmetry == Permutations(TwoRuns) \cup Permutations(TwoTargets)
=============================================================================
