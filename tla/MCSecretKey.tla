---------------------------- MODULE MCSecretKey -----------------------------
(* A small instance of SecretKey for TLC. *)
EXTENDS SecretKey, TLC

CONSTANTS s1, s2, p1, p2, k1, k2

TwoSecrets == {s1, s2}
TwoValues == {p1, p2}
\* One secret at a time or both
ThreeBodies == {s1 :> p1, s1 :> p2, s1 :> p1 @@ s2 :> p1}
TwoKeys == {k1, k2}
=============================================================================
