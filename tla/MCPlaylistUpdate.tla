-------------------------- MODULE MCPlaylistUpdate --------------------------
(* Small instances of PlaylistUpdate for TLC. *)
EXTENDS PlaylistUpdate

CONSTANTS a, b, c

ThreeItems == {a, b, c}
Both == {"plex", "jellyfin"}

\* Every list without duplicates, and one with.
SomeWanted ==
    {s \in UNION {[1..n -> ThreeItems] : n \in 1..3} : NoDuplicates(s)} \cup {<<a, a>>}
=============================================================================
