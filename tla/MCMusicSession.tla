--------------------------- MODULE MCMusicSession ---------------------------
(* A small instance of MusicSession for TLC. *)
EXTENDS MusicSession

CONSTANTS r1, r2

TwoRequests == {r1, r2}
=============================================================================
