----------------------------- MODULE MCConnLife -----------------------------
EXTENDS ConnLife, TLC

Symmetry == Permutations(Callers) \cup Permutations(Conns)
=============================================================================
