----------------------------- MODULE MCPermits -----------------------------
EXTENDS Permits, TLC

Symmetry == Permutations(Holders)
MCParkers == Holders \cup {Drainer}
=============================================================================
