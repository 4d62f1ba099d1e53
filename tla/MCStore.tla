------------------------------ MODULE MCStore ------------------------------
EXTENDS Store, TLC
Symmetry == Permutations(Procs) \cup Permutations(Keys)
=============================================================================
