----------------------------- MODULE MCFirstFit -----------------------------
(* The same small space as for the native allocator.                       *)
EXTENDS FirstFit

MCAddresses == -1 .. Total

(* What FirstFitProofs takes from the mask.                                *)
ASSUME MCMaskRounds == MaskRounds
=============================================================================
