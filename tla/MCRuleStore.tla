----------------------------- MODULE MCRuleStore ----------------------------
(* A small instance of RuleStore for TLC. *)
EXTENDS RuleStore, TLC

CONSTANTS r1, r2, a, b

TwoRequests == {r1, r2}
OneName == {a}

\* An upgrade adds a rule in front, under a name that users may have taken,
\* and changes the text of another.
TwoReleases == <<
    << [name |-> b, text |-> "b1"] >>,
    << [name |-> a, text |-> "a1"], [name |-> b, text |-> "b2"] >> >>

Symmetry == Permutations(TwoRequests)
=============================================================================
