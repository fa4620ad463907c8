------------------------------- MODULE MCCore -------------------------------
EXTENDS Core, TLC

MCParkers == Callers \cup {Maintainer, Closer}
Symmetry == Permutations(Callers) \cup Permutations(Conns)
            \cup Permutations(Resizers)
=============================================================================
