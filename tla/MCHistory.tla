------------------------------ MODULE MCHistory -------------------------------
EXTENDS History, TLC

Symmetry == Permutations(Path) \cup Permutations(Content)
=============================================================================
