------------------------- MODULE MCStreamTreeContract -------------------------
EXTENDS StreamTreeContract, TLC

Symmetry == Permutations(Episodes) \cup Permutations(CardIds)
===============================================================================
