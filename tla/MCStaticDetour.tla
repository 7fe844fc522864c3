--------------------------- MODULE MCStaticDetour ---------------------------
EXTENDS StaticInv, TLC

Symmetry == Permutations(Threads) \cup Permutations(Closures) \cup Permutations(Boxes)
=============================================================================
