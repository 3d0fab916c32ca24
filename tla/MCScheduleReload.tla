-------------------------- MODULE MCScheduleReload --------------------------
(* A small instance of ScheduleReload for TLC. *)
EXTENDS ScheduleReload, TLC

CONSTANTS s1, s2, h1, h2, h3

TwoSchedules == {s1, s2}
ThreeHandlers == {h1, h2, h3}

Symmetry == Permutations(TwoSchedules) \cup Permutations(ThreeHandlers)
=============================================================================
