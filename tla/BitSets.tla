------------------------------- MODULE BitSets -------------------------------
(* Java's non-negative ints as the sets of their one bits.                  *)
LOCAL INSTANCE Integers
LOCAL INSTANCE FiniteSetsExt

(* Bits 0 .. 30: the sign bit is never set here.                            *)
Width == 31

Bits(n) == {k \in 0 .. Width - 1 : (n \div 2^k) % 2 = 1}

FromBits(S) == SumSet({2^k : k \in S})

(* n & ~mask                                                                *)
ClearBits(n, mask) == FromBits(Bits(n) \ Bits(mask))

(* (n & m) != 0                                                             *)
ShareBits(n, m) == Bits(n) \cap Bits(m) # {}
=============================================================================
