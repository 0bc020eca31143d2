---- MODULE MCRulesSync ----
EXTENDS RulesSync, TLC

\* Command slots of one kind are interchangeable.
Symmetry == Permutations(Writers) \cup Permutations(Gateways)
====
