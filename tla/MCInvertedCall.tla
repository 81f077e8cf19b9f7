--------------------------- MODULE MCInvertedCall ---------------------------
EXTENDS InvertedCall, TLC

Symmetry == Permutations(Events) \cup Permutations(Irps) \cup Permutations(Files)
=============================================================================
