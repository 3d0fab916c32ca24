---------------------------- MODULE MCRuleGraph -----------------------------
(* A small instance of RuleGraph for TLC: every graph over three nodes. *)
EXTENDS RuleGraph

CONSTANTS n1, n2, n3

ThreeNodes == {n1, n2, n3}
=============================================================================
