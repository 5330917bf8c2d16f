------------------------- MODULE MCDrawCollections -------------------------
EXTENDS DrawCollections, TLC

CONSTANTS d1, d2, k1, k2, i1, i2, i3

MCComparator == (i1 :> k1) @@ (i2 :> k1) @@ (i3 :> k2)
=============================================================================
