----------------------------- MODULE MCSyncRuns -----------------------------
(* Small instances of SyncRuns and SyncViews for TLC. *)
EXTENDS SyncViews, TLC

CONSTANTS t1, t2, x, y, a, b

TwoTasks == {t1, t2}
TwoExecs == {x, y}
TwoItems == {a, b}

\* An empty source, another track at the same position, and a track twice.
SomeSources == {<<>>, <<b>>, <<a, a>>}

Symmetry == Permutations(TwoTasks) \cup Permutations(TwoExecs)
=============================================================================
