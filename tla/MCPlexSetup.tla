---------------------------- MODULE MCPlexSetup -----------------------------
(* A small instance of PlexSetup, with Login under it, for TLC. *)
EXTENDS PlexSetup, TLC

CONSTANTS b1, b2, u1, u2, v1, v2

TwoBrowsers == {b1, b2}
TwoUsers == {u1, u2}
TwoServers == {v1, v2}

Symmetry == Permutations(TwoBrowsers) \cup Permutations(TwoUsers) \cup Permutations(TwoServers)
=============================================================================
