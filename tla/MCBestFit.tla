----------------------------- MODULE MCBestFit -----------------------------
(* The native allocator on a space of nine bytes in units of two: the last *)
(* block is no multiple of the alignment, and every request of 1, 3 or 4   *)
(* bytes is rounded up.  Blocks are never smaller than a unit, so the list *)
(* has at most five of them and the five pointers never run out.           *)
EXTENDS BestFitHeap, TLC

MCAddresses == -1 .. Total

PtrSymmetry == Permutations(Ptr)
=============================================================================
