--------------------------- MODULE MCMemoryTypes ---------------------------
(* Up to three types with every choice of two properties.                  *)
EXTENDS MemoryTypes

MCTypeLists == UNION {[1 .. n -> 0 .. 3] : n \in 1 .. 3}
MCMasks == 0 .. 7
MCWanted == 0 .. 3
=============================================================================
