--------------------------- MODULE MCClientChannel ---------------------------
EXTENDS ClientChannel, TLC
CONSTANTS c1, c2, k1, k2
OneEach == c1 :> k1 @@ c2 :> k2
BothFirst == c1 :> k1 @@ c2 :> k1
Symmetry == Permutations(Tasks)
=============================================================================
