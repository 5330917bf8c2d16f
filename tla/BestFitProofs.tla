--------------------------- MODULE BestFitProofs ---------------------------
(***************************************************************************)
(* The native memory manager, for a space, an alignment and a heap of any  *)
(* size: its list, its refinement of AddressSpace, and in the last part the*)
(* heap its blocks live on.                                                *)
(***************************************************************************)
EXTENDS BestFitHeap, TLAPS, SequenceTheorems, WellFoundedInduction

IsAligned(n) == \E k \in Nat : n = k * Align

(* RoundUp returns a multiple of Align that is at least its argument.      *)
LEMMA RoundUpIsAligned ==
  ASSUME NEW n \in Nat
  PROVE  /\ RoundUp(n) \in Nat
         /\ RoundUp(n) >= n
         /\ IsAligned(RoundUp(n))
<1>1. Align \in Nat \ {0}
  BY BestFitAssumption
<1> DEFINE q == (n + Align - 1) \div Align
<1>2. q \in Nat /\ (n + Align - 1) = Align * q + ((n + Align - 1) % Align) /\ (n + Align - 1) % Align \in 0 .. Align - 1
  BY <1>1, Z3
<1>3. q * Align = Align * q /\ q * Align \in Nat
  BY <1>1, <1>2
<1>4. QED
  BY <1>1, <1>2, <1>3 DEF RoundUp, IsAligned

(* An aligned address is its own rounding.                                 *)
LEMMA RoundUpOfAligned ==
  ASSUME NEW n \in Nat, IsAligned(n)
  PROVE  RoundUp(n) = n
<1>1. Align \in Nat \ {0}
  BY BestFitAssumption
<1>2. PICK k \in Nat : n = k * Align
  BY DEF IsAligned
<1>3. (k * Align + (Align - 1)) \div Align = k
  BY <1>1, Z3
<1>4. QED
  BY <1>1, <1>2, <1>3 DEF RoundUp

(* Aligned numbers are closed under addition.                              *)
LEMMA AlignedSum ==
  ASSUME NEW m \in Nat, NEW n \in Nat, IsAligned(m), IsAligned(n)
  PROVE  IsAligned(m + n)
<1>1. Align \in Nat \ {0}
  BY BestFitAssumption
<1>2. PICK k \in Nat, l \in Nat : m = k * Align /\ n = l * Align
  BY DEF IsAligned
<1>3. (k + l) * Align = k * Align + l * Align
  BY <1>1
<1>4. QED
  BY <1>2, <1>3 DEF IsAligned

(* A multiple of Align leaves no remainder.                                *)
LEMMA AlignedMod ==
  ASSUME NEW n \in Nat, IsAligned(n)
  PROVE  n % Align = 0
<1>1. Align \in Nat \ {0}
  BY BestFitAssumption
<1>2. PICK k \in Nat : n = k * Align
  BY DEF IsAligned
<1>3. (k * Align) % Align = 0
  BY <1>1, Z3
<1>4. QED
  BY <1>2, <1>3

(* A number without remainder is a multiple of Align.                      *)
LEMMA ModIsAligned ==
  ASSUME NEW n \in Nat, n % Align = 0
  PROVE  IsAligned(n)
<1>1. Align \in Nat \ {0}
  BY BestFitAssumption
<1> DEFINE q == n \div Align
<1>2. q \in Nat /\ n = Align * q + (n % Align)
  BY <1>1, Z3
<1>3. q * Align = Align * q /\ q * Align \in Nat
  BY <1>1, <1>2
<1> HIDE DEF q
<1>4. n = q * Align
  BY <1>1, <1>2, <1>3
<1>5. QED
  BY <1>2, <1>4 DEF IsAligned

-----------------------------------------------------------------------------
(* Sequences *)

LEMMA InsertAfterProperties ==
  ASSUME NEW S, NEW s \in Seq(S), NEW i \in 1 .. Len(s), NEW e \in S
  PROVE  LET t == InsertAfter(s, i, e) IN
         /\ t \in Seq(S)
         /\ Len(t) = Len(s) + 1
         /\ \A k \in 1 .. Len(s) + 1 :
              t[k] = IF k <= i THEN s[k] ELSE IF k = i + 1 THEN e ELSE s[k - 1]
<1> DEFINE a == SubSeq(s, 1, i)
           c == SubSeq(s, i + 1, Len(s))
<1>1. Len(s) \in Nat /\ \A k \in 1 .. Len(s) : s[k] \in S
  BY LenProperties, ElementOfSeq
<1>2. /\ a \in Seq(S) /\ Len(a) = i
      /\ \A k \in 1 .. i : a[k] = s[k]
  BY <1>1, SubSeqProperties
<1>3. /\ c \in Seq(S) /\ Len(c) = Len(s) - i
      /\ \A k \in 1 .. Len(s) - i : c[k] = s[i + k]
  BY <1>1, SubSeqProperties
<1>4. <<e>> \in Seq(S) /\ Len(<<e>>) = 1 /\ <<e>>[1] = e
  OBVIOUS
<1> HIDE DEF a, c
<1>5. /\ a \o <<e>> \in Seq(S) /\ Len(a \o <<e>>) = i + 1
      /\ \A k \in 1 .. i + 1 : (a \o <<e>>)[k] = IF k <= i THEN s[k] ELSE e
  BY <1>2, <1>4, ConcatProperties
<1> DEFINE b == a \o <<e>>
<1> HIDE DEF b
<1>6. /\ b \in Seq(S) /\ Len(b) = i + 1
      /\ \A k \in 1 .. i + 1 : b[k] = IF k <= i THEN s[k] ELSE e
  BY <1>5 DEF b
<1>7. /\ b \o c \in Seq(S) /\ Len(b \o c) = Len(b) + Len(c)
      /\ \A k \in 1 .. Len(b) + Len(c) :
           (b \o c)[k] = IF k <= Len(b) THEN b[k] ELSE c[k - Len(b)]
  BY <1>3, <1>6, ConcatProperties
<1>8. Len(b) + Len(c) = Len(s) + 1
  BY <1>1, <1>3, <1>6
<1>9. ASSUME NEW k \in 1 .. Len(s) + 1
      PROVE  (b \o c)[k] = IF k <= i THEN s[k] ELSE IF k = i + 1 THEN e ELSE s[k - 1]
  <2>1. CASE k <= i + 1
    BY <2>1, <1>1, <1>6, <1>7, <1>8
  <2>2. CASE k > i + 1
    <3>1. k - (i + 1) \in 1 .. Len(s) - i /\ i + (k - (i + 1)) = k - 1
      BY <2>2, <1>1
    <3>2. (b \o c)[k] = c[k - (i + 1)]
      BY <2>2, <1>1, <1>6, <1>7, <1>8
    <3>3. c[k - (i + 1)] = s[i + (k - (i + 1))]
      BY <3>1, <1>3
    <3>4. ~(k <= i) /\ k # i + 1
      BY <2>2
    <3>5. QED
      BY <3>1, <3>2, <3>3, <3>4
  <2>3. k <= i + 1 \/ k > i + 1
    BY <1>1
  <2>4. QED
    BY <2>1, <2>2, <2>3, Zenon
<1>10. QED
  BY <1>7, <1>8, <1>9 DEF InsertAfter, a, b, c

(* The length and the elements of a list with a segment collapsed.         *)
LEMMA CollapseProperties ==
  ASSUME NEW S, NEW s \in Seq(S), NEW i \in 1 .. Len(s), NEW j \in i .. Len(s), NEW e \in S
  PROVE  LET t == Collapse(s, i, j, e) IN
         /\ t \in Seq(S)
         /\ Len(t) = Len(s) - (j - i)
         /\ \A k \in 1 .. Len(t) :
              t[k] = IF k < i THEN s[k] ELSE IF k = i THEN e ELSE s[k + (j - i)]
<1> DEFINE a == SubSeq(s, 1, i - 1)
           c == SubSeq(s, j + 1, Len(s))
<1>1. Len(s) \in Nat /\ \A k \in 1 .. Len(s) : s[k] \in S
  BY LenProperties, ElementOfSeq
<1>2. /\ a \in Seq(S) /\ Len(a) = i - 1
      /\ \A k \in 1 .. i - 1 : a[k] = s[k]
  BY <1>1, SubSeqProperties
<1>3. /\ c \in Seq(S) /\ Len(c) = Len(s) - j
      /\ \A k \in 1 .. Len(s) - j : c[k] = s[j + k]
  BY <1>1, SubSeqProperties
<1>4. <<e>> \in Seq(S) /\ Len(<<e>>) = 1 /\ <<e>>[1] = e
  OBVIOUS
<1> HIDE DEF a, c
<1>5. /\ a \o <<e>> \in Seq(S) /\ Len(a \o <<e>>) = i
      /\ \A k \in 1 .. i : (a \o <<e>>)[k] = IF k < i THEN s[k] ELSE e
  BY <1>2, <1>4, ConcatProperties
<1> DEFINE b == a \o <<e>>
<1> HIDE DEF b
<1>6. /\ b \in Seq(S) /\ Len(b) = i
      /\ \A k \in 1 .. i : b[k] = IF k < i THEN s[k] ELSE e
  BY <1>5 DEF b
<1>7. /\ b \o c \in Seq(S) /\ Len(b \o c) = Len(b) + Len(c)
      /\ \A k \in 1 .. Len(b) + Len(c) :
           (b \o c)[k] = IF k <= Len(b) THEN b[k] ELSE c[k - Len(b)]
  BY <1>3, <1>6, ConcatProperties
<1>8. Len(b) + Len(c) = Len(s) - (j - i)
  BY <1>1, <1>3, <1>6
<1>9. ASSUME NEW k \in 1 .. Len(s) - (j - i)
      PROVE  (b \o c)[k] = IF k < i THEN s[k] ELSE IF k = i THEN e ELSE s[k + (j - i)]
  <2>1. CASE k <= i
    BY <2>1, <1>1, <1>6, <1>7, <1>8
  <2>2. CASE k > i
    <3>1. k - i \in 1 .. Len(s) - j /\ j + (k - i) = k + (j - i)
      BY <2>2, <1>1
    <3>2. (b \o c)[k] = c[k - i]
      BY <2>2, <1>1, <1>6, <1>7, <1>8
    <3>3. c[k - i] = s[j + (k - i)]
      BY <3>1, <1>3
    <3>4. ~(k < i) /\ k # i
      BY <2>2
    <3>5. QED
      BY <3>1, <3>2, <3>3, <3>4
  <2>3. k <= i \/ k > i
    BY <1>1
  <2>4. QED
    BY <2>1, <2>2, <2>3, Zenon
<1>10. QED
  BY <1>7, <1>8, <1>9 DEF Collapse, a, b, c

-----------------------------------------------------------------------------
(* The merge loop *)

(* Every non-empty set of naturals has a least element.                    *)
LEMMA LeastNat ==
  ASSUME NEW T \in SUBSET Nat, T # {}
  PROVE  \E x \in T : \A y \in T : x <= y
<1>1. PICK x \in T : \A y \in T : ~(<<y, x>> \in OpToRel(<, Nat))
  BY NatLessThanWellFounded, WFMin
<1>2. \A y \in T : ~(y < x)
  BY <1>1 DEF OpToRel
<1>3. QED
  BY <1>2


(* The types of a block's fields, from TypeOK.                             *)
LEMMA BlockTypes ==
  ASSUME TypeOK, NEW i \in 1 .. Len(blocks)
  PROVE  /\ Len(blocks) \in Nat
         /\ DOMAIN blocks = 1 .. Len(blocks)
         /\ blocks[i] \in MemoryBlock
         /\ blocks[i].ptr \in Ptr
         /\ blocks[i].start_address \in Nat
         /\ blocks[i].size \in Nat
         /\ blocks[i].is_allocated \in BOOLEAN
<1>1. blocks[i] \in MemoryBlock
  BY ElementOfSeq DEF TypeOK
<1>2. Len(blocks) \in Nat /\ DOMAIN blocks = 1 .. Len(blocks)
  BY LenProperties DEF TypeOK
<1>3. QED
  BY <1>1, <1>2 DEF MemoryBlock

(* The merge loop stops: LastMerged(i) exists, is maximal and bounded.     *)
LEMMA LastMergedProperties ==
  ASSUME TypeOK, NEW i \in 1 .. Len(blocks)
  PROVE  /\ LastMerged(i) \in i .. Len(blocks)
         /\ \A k \in i + 1 .. LastMerged(i) : ~blocks[k].is_allocated
         /\ LastMerged(i) < Len(blocks) => blocks[LastMerged(i) + 1].is_allocated
<1>1. Len(blocks) \in Nat /\ i \in Nat
  BY BlockTypes
<1> DEFINE stops(j) == j < Len(blocks) => blocks[j + 1].is_allocated
           T == {d \in Nat : i + d <= Len(blocks) /\ stops(i + d)}
<1>2. Len(blocks) - i \in T
  BY <1>1
<1>3. PICK d \in T : \A y \in T : d <= y
  BY <1>2, LeastNat
<1>4. d \in Nat /\ i + d \in i .. Len(blocks) /\ stops(i + d)
  BY <1>1, <1>3
<1>5. ASSUME NEW k \in i + 1 .. i + d
      PROVE  ~blocks[k].is_allocated
  <2>1. k - 1 - i \in Nat /\ k - 1 - i < d /\ i + (k - 1 - i) = k - 1 /\ (k - 1) + 1 = k
    BY <1>1, <1>4
  <2>2. k - 1 - i \notin T
    <3>1. SUFFICES ASSUME k - 1 - i \in T PROVE FALSE
      OBVIOUS
    <3> HIDE DEF T
    <3>2. d <= k - 1 - i
      BY <3>1, <1>3
    <3>3. QED
      BY <2>1, <3>2, <1>4
  <2>3. ~stops(k - 1)
    BY <2>1, <2>2, <1>1, <1>4
  <2>4. QED
    BY <2>1, <2>3
<1> DEFINE P(j) == /\ \A k \in i + 1 .. j : ~blocks[k].is_allocated
                   /\ j < Len(blocks) => blocks[j + 1].is_allocated
<1>6. \E j \in i .. Len(blocks) : P(j)
  BY <1>4, <1>5
<1>7. LastMerged(i) = CHOOSE j \in i .. Len(blocks) : P(j)
  BY DEF LastMerged
<1>8. LastMerged(i) \in i .. Len(blocks) /\ P(LastMerged(i))
  <2> HIDE DEF P
  <2>1. QED
    BY <1>6, <1>7
<1>9. QED
  BY <1>8

(* The loop adds sizes; on a tiling that is the distance to the end.       *)
LEMMA MergedSizeIsDistance ==
  ASSUME TypeOK, BlocksTile, NEW i \in 1 .. Len(blocks), NEW j \in i .. Len(blocks)
  PROVE  MergedSize(i, j) = End(blocks[j]) - blocks[i].start_address
<1>1. Len(blocks) \in Nat /\ i \in Nat /\ j \in Nat
  BY BlockTypes
<1>2. ASSUME NEW k \in i .. j
      PROVE  /\ k \in 1 .. Len(blocks)
             /\ blocks[k].start_address \in Nat
             /\ blocks[k].size \in Nat
  BY <1>1, BlockTypes
<1> DEFINE step(f) == [k \in i .. j |->
                         IF k = i THEN blocks[k].size ELSE f[k - 1] + blocks[k].size]
           dist == [k \in i .. j |-> End(blocks[k]) - blocks[i].start_address]
           size == CHOOSE f : f = step(f)
<1>3. dist = step(dist)
  <2>1. ASSUME NEW k \in i .. j, k # i
        PROVE  dist[k] = dist[k - 1] + blocks[k].size
    <3>1. k - 1 \in i .. j /\ k - 1 \in 1 .. Len(blocks) - 1 /\ (k - 1) + 1 = k
      BY <2>1, <1>1
    <3>2. blocks[k].start_address = End(blocks[k - 1])
      BY <3>1 DEF BlocksTile
    <3>3. dist[k - 1] = blocks[k].start_address - blocks[i].start_address
      BY <3>1, <3>2
    <3>4. i \in i .. j
      BY <1>1
    <3>5. QED
      BY <3>3, <3>4, <1>2 DEF End
  <2>2. dist[i] = blocks[i].size
    <3>1. i \in i .. j
      BY <1>1
    <3>2. QED
      BY <3>1, <1>2 DEF End
  <2>3. QED
    BY <2>1, <2>2
<1>4. size = step(size)
  <2> HIDE DEF step, dist
  <2>1. QED
    BY <1>3
<1> HIDE DEF size
<1>5. ASSUME NEW k \in i .. j
      PROVE  size[k] = dist[k]
  <2> DEFINE T == {d \in Nat : i + d <= j /\ size[i + d] # dist[i + d]}
  <2>1. SUFFICES T = {}
    <3>1. k - i \in Nat /\ i + (k - i) = k /\ k <= j
      BY <1>1
    <3>2. QED
      BY <2>1, <3>1
  <2>2. SUFFICES ASSUME T # {} PROVE FALSE
    OBVIOUS
  <2>3. PICK d \in T : \A y \in T : d <= y
    BY <2>2, LeastNat
  <2>4. d \in Nat /\ i + d <= j /\ size[i + d] # dist[i + d]
    BY <2>3
  <2> HIDE DEF dist
  <2>5. CASE d = 0
    <3>1. i \in i .. j /\ i + d = i
      BY <2>5, <1>1
    <3>2. size[i] = blocks[i].size
      BY <3>1, <1>4
    <3>3. dist[i] = blocks[i].size
      BY <3>1, <1>3
    <3>4. QED
      BY <3>1, <3>2, <3>3, <2>4
  <2>6. CASE d # 0
    <3>1. /\ i + d \in i .. j /\ i + d # i
          /\ d - 1 \in Nat /\ i + (d - 1) = i + d - 1 /\ i + (d - 1) <= j
      BY <2>4, <2>6, <1>1
    <3>2. size[i + d] = size[i + d - 1] + blocks[i + d].size
      BY <3>1, <1>4
    <3>3. dist[i + d] = dist[i + d - 1] + blocks[i + d].size
      BY <3>1, <1>3
    <3>4. size[i + d - 1] = dist[i + d - 1]
      BY <3>1, <2>3, <2>4
    <3>5. QED
      BY <3>2, <3>3, <3>4, <2>4
  <2>7. QED
    BY <2>5, <2>6
<1>6. MergedSize(i, j) = size[j]
  BY DEF MergedSize, size
<1>7. j \in i .. j
  BY <1>1
<1>8. QED
  BY <1>5, <1>6, <1>7


-----------------------------------------------------------------------------
(* Every call preserves the inductive invariant *)

(* IInv without the type of reply: what splitting and merging may disturb. *)
Shape ==
  /\ blocks \in Seq(MemoryBlock)
  /\ free_blocks \subseteq Ptr
  /\ BlocksTile
  /\ FreeListExact
  /\ StartsAligned
  /\ BlocksOrdered

(* The invariant splits into the list and free list, and the reply.        *)
LEMMA IInvIsShape == IInv <=> Shape /\ reply \in Reply
BY DEF IInv, Shape, TypeOK

(* FreeListExact member by member, before and after a step.               *)
Unreserved(q) == \E k \in 1 .. Len(blocks) : ~blocks[k].is_allocated /\ blocks[k].ptr = q

DistinctPtrs == \A k, l \in 1 .. Len(blocks) : blocks[k].ptr = blocks[l].ptr => k = l

(* FreeListExact said element by element.                                  *)
LEMMA FreeListByMembers ==
  /\ FreeListExact <=> DistinctPtrs /\ \A q : q \in free_blocks <=> Unreserved(q)
  /\ FreeListExact' <=> (DistinctPtrs /\ \A q : q \in free_blocks <=> Unreserved(q))'
BY DEF FreeListExact, DistinctPtrs, Unreserved

(* The constructor's single free block satisfies the invariant.            *)
LEMMA InitIInv == Init => IInv
<1> SUFFICES ASSUME Init PROVE IInv
  OBVIOUS
<1>1. PICK p \in Ptr :
        /\ blocks = <<[ptr |-> p, start_address |-> 0, size |-> Total, is_allocated |-> FALSE]>>
        /\ free_blocks = {p}
        /\ reply = [op |-> "none", arg |-> 0, value |-> 0]
  BY DEF Init
<1>2. /\ Len(blocks) = 1
      /\ blocks[1] = [ptr |-> p, start_address |-> 0, size |-> Total, is_allocated |-> FALSE]
  BY <1>1
<1>3. TypeOK
  BY <1>1, BestFitAssumption DEF TypeOK, MemoryBlock, Reply
<1>4. BlocksTile
  BY <1>2, BestFitAssumption DEF BlocksTile, End
<1>5. FreeListExact
  BY <1>1, <1>2 DEF FreeListExact
<1>6. StartsAligned
  <2>1. 0 % Align = 0
    BY BestFitAssumption, Z3
  <2>2. QED
    BY <2>1, <1>2 DEF StartsAligned
<1>7. BlocksOrdered
  BY <1>2 DEF BlocksOrdered
<1>8. QED
  BY <1>3, <1>4, <1>5, <1>6, <1>7 DEF IInv

(* What findBlock returns and the request it is given.                     *)
LEMMA FindBlockProperties ==
  ASSUME IInv, NEW n \in Sizes, NEW i \in findBlock(RoundUp(n))
  PROVE  /\ RoundUp(n) \in Nat /\ RoundUp(n) >= n /\ RoundUp(n) > 0
         /\ IsAligned(RoundUp(n))
         /\ i \in 1 .. Len(blocks)
         /\ ~blocks[i].is_allocated
         /\ blocks[i].size >= RoundUp(n)
         /\ IsAligned(blocks[i].start_address)
         /\ RoundUp(blocks[i].start_address) = blocks[i].start_address
<1>1. n \in Nat /\ n > 0
  BY BestFitAssumption
<1>2. RoundUp(n) \in Nat /\ RoundUp(n) >= n /\ IsAligned(RoundUp(n))
  BY <1>1, RoundUpIsAligned
<1>3. i \in DOMAIN blocks /\ ~blocks[i].is_allocated /\ blocks[i].size >= RoundUp(n)
  BY DEF findBlock, Fitting
<1>4. i \in 1 .. Len(blocks)
  BY <1>3, LenProperties DEF IInv, TypeOK
<1>5. blocks[i].start_address \in Nat /\ blocks[i].start_address % Align = 0
  BY <1>4, BlockTypes DEF IInv, StartsAligned
<1>6. IsAligned(blocks[i].start_address)
  BY <1>5, ModIsAligned
<1>7. RoundUp(blocks[i].start_address) = blocks[i].start_address
  BY <1>5, <1>6, RoundUpOfAligned
<1>8. QED
  BY <1>1, <1>2, <1>3, <1>4, <1>6, <1>7

(* prepBlock without a split.                                              *)
LEMMA TakeKeepsShape ==
  ASSUME IInv, NEW i \in 1 .. Len(blocks), ~blocks[i].is_allocated,
         blocks' = Taken(i, blocks[i].size),
         free_blocks' = free_blocks \ {blocks[i].ptr}
  PROVE  /\ Shape'
         /\ InUse' = InUse \cup {[blocks[i] EXCEPT !.is_allocated = TRUE]}
<1>1. \A k \in 1 .. Len(blocks) :
        /\ Len(blocks) \in Nat
        /\ blocks[k] \in MemoryBlock
        /\ blocks[k].start_address \in Nat
        /\ blocks[k].size \in Nat
  BY BlockTypes DEF IInv
<1> DEFINE b == [blocks[i] EXCEPT !.size = blocks[i].size, !.is_allocated = TRUE]
<1>2. /\ b \in MemoryBlock /\ b.ptr = blocks[i].ptr /\ b.is_allocated
      /\ b.start_address = blocks[i].start_address /\ b.size = blocks[i].size
  BY <1>1 DEF MemoryBlock
<1>3. blocks' = [blocks EXCEPT ![i] = b]
  BY DEF Taken
<1> HIDE DEF b
<1>4. /\ blocks' \in Seq(MemoryBlock)
      /\ Len(blocks') = Len(blocks)
      /\ \A k \in 1 .. Len(blocks) : blocks'[k] = IF k = i THEN b ELSE blocks[k]
  BY <1>2, <1>3, ExceptSeq DEF IInv, TypeOK
<1>5. \A k \in 1 .. Len(blocks) :
        /\ blocks'[k].ptr = blocks[k].ptr
        /\ blocks'[k].start_address = blocks[k].start_address
        /\ blocks'[k].size = blocks[k].size
        /\ blocks'[k].is_allocated = (k = i \/ blocks[k].is_allocated)
  BY <1>2, <1>4, BlockTypes DEF IInv
<1>6. free_blocks' \subseteq Ptr
  BY DEF IInv, TypeOK
<1>7. BlocksTile'
  BY <1>1, <1>4, <1>5 DEF IInv, BlocksTile, End
<1>8. FreeListExact'
  <2>1. DistinctPtrs /\ \A q : q \in free_blocks <=> Unreserved(q)
    BY FreeListByMembers DEF IInv
  <2>2. DistinctPtrs'
    BY <1>4, <1>5, <2>1 DEF DistinctPtrs
  <2>3. ASSUME NEW q
        PROVE  q \in free_blocks' <=> Unreserved(q)'
    <3>1. Unreserved(q)' <=> \E k \in 1 .. Len(blocks) :
                               ~blocks[k].is_allocated /\ k # i /\ blocks[k].ptr = q
      BY <1>4, <1>5 DEF Unreserved
    <3>2. QED
      BY <3>1, <2>1 DEF Unreserved, DistinctPtrs
  <2>4. QED
    BY <2>2, <2>3, FreeListByMembers
<1>9. StartsAligned' /\ BlocksOrdered'
  BY <1>4, <1>5 DEF IInv, StartsAligned, BlocksOrdered, End
<1>10. InUse' = InUse \cup {b}
  <2>1. InUse' = {blocks'[k] : k \in {l \in 1 .. Len(blocks) : l = i \/ blocks[l].is_allocated}}
    BY <1>4, <1>5 DEF InUse
  <2>2. \A c \in InUse' : c = b \/ c \in InUse
    BY <2>1, <1>4 DEF InUse
  <2>3. \A c \in InUse : c \in InUse'
    BY <2>1, <1>4 DEF InUse
  <2>4. b \in InUse'
    BY <2>1, <1>4
  <2>5. QED
    BY <2>2, <2>3, <2>4
<1>11. b = [blocks[i] EXCEPT !.is_allocated = TRUE]
  BY <1>1 DEF b, MemoryBlock
<1>12. QED
  BY <1>4, <1>6, <1>7, <1>8, <1>9, <1>10, <1>11 DEF Shape


(* prepBlock with a split: block i keeps req bytes, the rest follows it.   *)
LEMMA SplitKeepsShape ==
  ASSUME IInv, NEW i \in 1 .. Len(blocks), ~blocks[i].is_allocated,
         NEW req \in Nat, req > 0, IsAligned(req), blocks[i].size > req,
         NEW p \in Fresh,
         blocks' = InsertAfter(Taken(i, req), i, Remaining(i, req, p)),
         free_blocks' = (free_blocks \cup {p}) \ {blocks[i].ptr}
  PROVE  /\ Shape'
         /\ InUse' = InUse \cup {[blocks[i] EXCEPT !.size = req, !.is_allocated = TRUE]}
<1> DEFINE n == Len(blocks)
           b == [blocks[i] EXCEPT !.size = req, !.is_allocated = TRUE]
           r == Remaining(i, req, p)
<1>1. \A k \in 1 .. n : /\ n \in Nat
                         /\ blocks[k] \in MemoryBlock
                         /\ blocks[k].start_address \in Nat
                         /\ blocks[k].size \in Nat
                         /\ blocks[k].is_allocated \in BOOLEAN
  BY BlockTypes DEF IInv
<1>2. /\ b \in MemoryBlock /\ b.ptr = blocks[i].ptr /\ b.is_allocated
      /\ b.start_address = blocks[i].start_address /\ b.size = req
  BY <1>1 DEF MemoryBlock
<1>3. IsAligned(blocks[i].start_address)
  BY <1>1, ModIsAligned DEF IInv, StartsAligned
<1>4. /\ r \in MemoryBlock /\ r.ptr = p /\ ~r.is_allocated
      /\ r.start_address = blocks[i].start_address + req
      /\ r.size = blocks[i].size - req
  BY <1>1, <1>3, RoundUpOfAligned DEF Remaining, MemoryBlock, Fresh
<1>5. r.start_address % Align = 0
  <2>1. blocks[i].start_address \in Nat
    BY <1>1
  <2>2. IsAligned(blocks[i].start_address + req)
    BY <2>1, <1>3, AlignedSum
  <2>3. (blocks[i].start_address + req) % Align = 0
    BY <2>1, <2>2, AlignedMod
  <2>4. QED
    BY <2>3, <1>4
<1>6. /\ Taken(i, req) \in Seq(MemoryBlock)
      /\ Len(Taken(i, req)) = n
      /\ \A k \in 1 .. n : Taken(i, req)[k] = IF k = i THEN b ELSE blocks[k]
  <2>1. Taken(i, req) = [blocks EXCEPT ![i] = b]
    BY DEF Taken
  <2> HIDE DEF b
  <2>2. QED
    BY <2>1, <1>2, ExceptSeq DEF IInv, TypeOK
<1> HIDE DEF b, r
<1>7. /\ blocks' \in Seq(MemoryBlock)
      /\ Len(blocks') = n + 1
      /\ \A k \in 1 .. n + 1 :
           blocks'[k] = IF k <= i THEN Taken(i, req)[k]
                        ELSE IF k = i + 1 THEN r ELSE Taken(i, req)[k - 1]
  <2> DEFINE s == Taken(i, req)
  <2>1. blocks' = InsertAfter(s, i, r) /\ i \in 1 .. Len(s) /\ r \in MemoryBlock /\ s \in Seq(MemoryBlock)
    BY <1>4, <1>6 DEF r
  <2> HIDE DEF s
  <2>2. /\ blocks' \in Seq(MemoryBlock)
        /\ Len(blocks') = Len(s) + 1
        /\ \A k \in 1 .. Len(s) + 1 :
             blocks'[k] = IF k <= i THEN s[k] ELSE IF k = i + 1 THEN r ELSE s[k - 1]
    BY <2>1, InsertAfterProperties
  <2>3. QED
    BY <2>2, <1>6 DEF s
<1>8. /\ n \in Nat /\ i \in Nat /\ i <= n
      /\ \A k \in 1 .. i - 1 : blocks'[k] = blocks[k]
      /\ blocks'[i] = b
      /\ blocks'[i + 1] = r
      /\ \A k \in i + 2 .. n + 1 : k - 1 \in 1 .. n /\ blocks'[k] = blocks[k - 1]
  <2>1. n \in Nat /\ i \in Nat /\ 1 <= i /\ i <= n
    BY <1>1
  <2>2. \A k \in 1 .. i - 1 : blocks'[k] = blocks[k]
    BY <2>1, <1>6, <1>7
  <2>3. blocks'[i] = b
    BY <2>1, <1>6, <1>7
  <2>4. blocks'[i + 1] = r
    BY <2>1, <1>7
  <2>5. ASSUME NEW k \in i + 2 .. n + 1
        PROVE  k - 1 \in 1 .. n /\ blocks'[k] = blocks[k - 1]
    <3>1. k \in 1 .. n + 1 /\ k - 1 \in 1 .. n /\ ~(k <= i) /\ k # i + 1 /\ k - 1 # i
      BY <2>1
    <3>2. blocks'[k] = Taken(i, req)[k - 1]
      BY <3>1, <1>7
    <3>3. QED
      BY <3>1, <3>2, <1>6
  <2>6. QED
    BY <2>1, <2>2, <2>3, <2>4, <2>5
<1>9. free_blocks' \subseteq Ptr
  BY DEF IInv, TypeOK, Fresh
<1>15. /\ End(b) = r.start_address /\ End(r) = End(blocks[i])
       /\ b.start_address = blocks[i].start_address
       /\ blocks[i].start_address <= r.start_address
       /\ r.start_address <= End(blocks[i])
       /\ r.start_address \in Nat /\ End(blocks[i]) \in Nat
  <2>1. blocks[i].start_address \in Nat /\ blocks[i].size \in Nat
    BY <1>1
  <2>2. QED
    BY <2>1, <1>2, <1>4 DEF End
<1>10. BlocksTile'
  <2>1. blocks'[1].start_address = 0
    BY <1>2, <1>8 DEF IInv, BlocksTile
  <2>2. \A k \in 1 .. n + 1 : blocks'[k].size > 0
    <3>1. \A k \in 1 .. n : blocks[k].size > 0
      BY DEF IInv, BlocksTile
    <3>2. b.size > 0 /\ r.size > 0
      BY <1>1, <1>2, <1>4
    <3>3. QED
      BY <3>1, <3>2, <1>8
  <2>3. ASSUME NEW k \in 1 .. n
        PROVE  blocks'[k + 1].start_address = End(blocks'[k])
    <3>1. \A l \in 1 .. n - 1 : blocks[l + 1].start_address = End(blocks[l])
      BY DEF IInv, BlocksTile
    <3>2. CASE k < i - 1
      BY <3>1, <3>2, <1>8
    <3>3. CASE k = i - 1
      BY <3>1, <3>3, <1>2, <1>8
    <3>4. CASE k = i
      BY <3>4, <1>1, <1>2, <1>4, <1>8 DEF End
    <3>5. CASE k = i + 1
      <4>1. i \in 1 .. n - 1 /\ k + 1 \in i + 2 .. n + 1 /\ (k + 1) - 1 = i + 1
        BY <3>5, <1>8
      <4>2. blocks'[k + 1] = blocks[i + 1] /\ blocks'[k] = r
        BY <3>5, <4>1, <1>8
      <4>3. blocks[i + 1].start_address = End(blocks[i])
        BY <4>1, <3>1
      <4>4. QED
        BY <3>5, <4>2, <4>3, <1>15
    <3>6. CASE k > i + 1
      <4>1. /\ k \in i + 2 .. n + 1 /\ k + 1 \in i + 2 .. n + 1
            /\ (k + 1) - 1 = (k - 1) + 1 /\ k - 1 \in 1 .. n - 1
        BY <3>6, <1>8
      <4>2. blocks'[k + 1] = blocks[(k - 1) + 1] /\ blocks'[k] = blocks[k - 1]
        BY <4>1, <1>8
      <4>3. QED
        BY <4>1, <4>2, <3>1
    <3>7. QED
      BY <3>2, <3>3, <3>4, <3>5, <3>6, <1>8
  <2>4. End(blocks'[n + 1]) = Total
    <3>1. End(blocks[n]) = Total
      BY DEF IInv, BlocksTile
    <3>2. CASE i = n
      BY <3>1, <3>2, <1>8, <1>15
    <3>3. CASE i < n
      <4>1. n + 1 \in i + 2 .. n + 1 /\ (n + 1) - 1 = n
        BY <3>3, <1>8
      <4>2. QED
        BY <4>1, <3>1, <1>8
    <3>4. QED
      BY <3>2, <3>3, <1>8
  <2>5. Len(blocks') = n + 1 /\ Len(blocks') > 0 /\ Len(blocks') - 1 = n
    BY <1>7, <1>8
  <2> HIDE DEF n
  <2>6. QED
    BY <2>1, <2>2, <2>3, <2>4, <2>5 DEF BlocksTile
<1>11. FreeListExact'
  <2>1. DistinctPtrs /\ \A q : q \in free_blocks <=> Unreserved(q)
    BY FreeListByMembers DEF IInv
  <2>2. \A k \in 1 .. n : blocks[k].ptr # p
    BY LenProperties DEF Fresh, IInv, TypeOK
  <2>3. DistinctPtrs'
    <3> SUFFICES ASSUME NEW k \in 1 .. n + 1, NEW l \in 1 .. n + 1,
                        blocks'[k].ptr = blocks'[l].ptr
                 PROVE  k = l
      BY <1>7 DEF DistinctPtrs
    <3> DEFINE old(m) == IF m <= i THEN m ELSE m - 1
    <3>1. ASSUME NEW m \in 1 .. n + 1
          PROVE  IF m = i + 1 THEN blocks'[m].ptr = p
                 ELSE old(m) \in 1 .. n /\ blocks'[m].ptr = blocks[old(m)].ptr
      <4>1. CASE m < i
        BY <4>1, <1>8
      <4>2. CASE m = i
        BY <4>2, <1>2, <1>8
      <4>3. CASE m = i + 1
        BY <4>3, <1>4, <1>8
      <4>4. CASE m > i + 1
        <5>1. m \in i + 2 .. n + 1 /\ m # i + 1 /\ ~(m <= i)
          BY <4>4, <1>8
        <5>2. QED
          BY <5>1, <1>8
      <4>5. QED
        BY <4>1, <4>2, <4>3, <4>4, <1>8
    <3>2. CASE k = i + 1 \/ l = i + 1
      BY <3>1, <3>2, <2>2
    <3>3. CASE k # i + 1 /\ l # i + 1
      <4>1. /\ old(k) \in 1 .. n /\ blocks'[k].ptr = blocks[old(k)].ptr
            /\ old(l) \in 1 .. n /\ blocks'[l].ptr = blocks[old(l)].ptr
        <5> HIDE DEF old
        <5>1. QED
          BY <3>1, <3>3
      <4>3. old(k) = old(l)
        <5> HIDE DEF old
        <5>1. QED
          BY <4>1, <2>1 DEF DistinctPtrs
      <4>2. QED
        BY <4>3, <3>3, <1>8
    <3>4. QED
      BY <3>2, <3>3
  <2>4. ASSUME NEW q
        PROVE  q \in free_blocks' <=> Unreserved(q)'
    <3>1. Unreserved(q)' => q = p \/ \E k \in 1 .. n : k # i /\ ~blocks[k].is_allocated /\ blocks[k].ptr = q
      <4> SUFFICES ASSUME NEW k \in 1 .. n + 1, ~blocks'[k].is_allocated, blocks'[k].ptr = q
                   PROVE  q = p \/ \E l \in 1 .. n : l # i /\ ~blocks[l].is_allocated /\ blocks[l].ptr = q
        BY <1>7 DEF Unreserved
      <4>1. CASE k < i
        <5>1. k \in 1 .. n /\ k # i /\ blocks'[k] = blocks[k]
          BY <4>1, <1>8
        <5>2. QED
          BY <5>1
      <4>2. CASE k = i
        BY <4>2, <1>2, <1>8
      <4>3. CASE k = i + 1
        BY <4>3, <1>4, <1>8
      <4>4. CASE k > i + 1
        <5>1. k - 1 \in 1 .. n /\ k - 1 # i /\ blocks'[k] = blocks[k - 1]
          BY <4>4, <1>8
        <5>2. QED
          BY <5>1
      <4>5. QED
        BY <4>1, <4>2, <4>3, <4>4, <1>8
    <3>2. Unreserved(p)'
      BY <1>4, <1>7, <1>8 DEF Unreserved
    <3>3. ASSUME NEW k \in 1 .. n, k # i, ~blocks[k].is_allocated, blocks[k].ptr = q
          PROVE  Unreserved(q)'
      <4>1. CASE k < i
        BY <4>1, <3>3, <1>7, <1>8 DEF Unreserved
      <4>2. CASE k > i
        <5>1. k + 1 \in i + 2 .. n + 1 /\ (k + 1) - 1 = k /\ k + 1 \in 1 .. n + 1
          BY <4>2, <1>8
        <5>2. blocks'[k + 1] = blocks[k]
          BY <5>1, <1>8
        <5>3. \E l \in 1 .. n + 1 : ~blocks'[l].is_allocated /\ blocks'[l].ptr = q
          <6>1. ~blocks'[k + 1].is_allocated /\ blocks'[k + 1].ptr = q
            BY <5>2, <3>3
          <6>2. QED
            BY <5>1, <6>1
        <5>4. QED
          BY <5>3, <1>7 DEF Unreserved
      <4>3. QED
        BY <4>1, <4>2, <3>3, <1>8
    <3>4. q \in free_blocks' => Unreserved(q)'
      <4>1. SUFFICES ASSUME q \in free_blocks, q # blocks[i].ptr PROVE Unreserved(q)'
        BY <3>2
      <4>2. PICK k \in 1 .. n : ~blocks[k].is_allocated /\ blocks[k].ptr = q
        BY <4>1, <2>1 DEF Unreserved
      <4>3. k # i
        BY <4>1, <4>2
      <4>4. QED
        BY <4>2, <4>3, <3>3
    <3>5. q = p => q \in free_blocks'
      BY <2>2
    <3>6. ASSUME NEW k \in 1 .. n, k # i, ~blocks[k].is_allocated, blocks[k].ptr = q
          PROVE  q \in free_blocks'
      <4>1. q \in free_blocks
        BY <3>6, <2>1 DEF Unreserved
      <4>2. q # blocks[i].ptr
        BY <3>6, <2>1 DEF DistinctPtrs
      <4>3. QED
        BY <4>1, <4>2
    <3>7. QED
      BY <3>1, <3>4, <3>5, <3>6
  <2>5. QED
    BY <2>3, <2>4, FreeListByMembers
<1>12. StartsAligned'
  <2>1. \A k \in 1 .. n : blocks[k].start_address % Align = 0
    BY DEF IInv, StartsAligned
  <2>2. b.start_address % Align = 0
    BY <2>1, <1>2
  <2>3. ASSUME NEW k \in 1 .. n + 1
        PROVE  blocks'[k].start_address % Align = 0
    <3>1. k \in 1 .. i - 1 \/ k = i \/ k = i + 1 \/ k \in i + 2 .. n + 1
      BY <1>8
    <3>2. k \in 1 .. i - 1 => k \in 1 .. n
      BY <1>8
    <3>3. QED
      BY <3>1, <3>2, <2>1, <2>2, <1>5, <1>8
  <2>4. QED
    BY <2>3, <1>7 DEF StartsAligned
<1>13. BlocksOrdered'
  <2> SUFFICES ASSUME NEW k \in 1 .. n + 1, NEW l \in 1 .. n + 1, k < l
               PROVE  End(blocks'[k]) <= blocks'[l].start_address
    BY <1>7 DEF BlocksOrdered
  <2>1. \A s, t \in 1 .. n : s < t => End(blocks[s]) <= blocks[t].start_address
    BY DEF IInv, BlocksOrdered
  <2>2. /\ End(b) = r.start_address /\ End(r) = End(blocks[i])
        /\ b.start_address = blocks[i].start_address
        /\ blocks[i].start_address <= r.start_address
        /\ r.start_address <= End(blocks[i])
        /\ r.start_address \in Nat /\ End(blocks[i]) \in Nat
    BY <1>15
  <2>3. CASE k < i
    <3>1. k \in 1 .. i - 1 /\ k \in 1 .. n /\ blocks'[k] = blocks[k] /\ End(blocks[k]) \in Nat
      BY <2>3, <1>1, <1>8 DEF End
    <3>2. l \in 1 .. i - 1 \/ l = i \/ l = i + 1 \/ l \in i + 2 .. n + 1
      BY <1>8
    <3>3. l \in i + 2 .. n + 1 => k < l - 1
      BY <2>3, <1>8
    <3>4. l \in 1 .. i - 1 => l \in 1 .. n
      BY <1>8
    <3>5. End(blocks[k]) <= blocks[i].start_address
      BY <3>1, <2>1, <2>3
    <3>6. l = i + 1 => End(blocks[k]) <= r.start_address
      BY <3>1, <3>5, <2>2, <1>1
    <3>7. QED
      BY <3>1, <3>2, <3>3, <3>4, <3>5, <3>6, <2>1, <2>2, <1>8
  <2>4. CASE k = i
    <3>1. l = i + 1 \/ l \in i + 2 .. n + 1
      BY <2>4, <1>8
    <3>2. CASE l \in i + 2 .. n + 1
      <4>1. l - 1 \in 1 .. n /\ i < l - 1 /\ blocks'[l] = blocks[l - 1]
        BY <3>2, <1>8
      <4>2. End(blocks[i]) <= blocks[l - 1].start_address
        BY <4>1, <2>1
      <4>3. QED
        BY <4>1, <4>2, <2>2, <2>4, <1>1, <1>8
    <3>3. QED
      BY <3>1, <3>2, <2>2, <2>4, <1>8
  <2>5. CASE k = i + 1
    <3>1. l \in i + 2 .. n + 1 /\ l - 1 \in 1 .. n /\ i < l - 1 /\ blocks'[l] = blocks[l - 1]
      BY <2>5, <1>8
    <3>2. QED
      BY <3>1, <2>1, <2>2, <2>5, <1>8
  <2>6. CASE k > i + 1
    <3>1. /\ k - 1 \in 1 .. n /\ l - 1 \in 1 .. n /\ k - 1 < l - 1
          /\ blocks'[k] = blocks[k - 1] /\ blocks'[l] = blocks[l - 1]
      BY <2>6, <1>8
    <3>2. QED
      BY <3>1, <2>1
  <2>7. QED
    BY <2>3, <2>4, <2>5, <2>6, <1>8
<1>14. InUse' = InUse \cup {b}
  <2>1. InUse' = {blocks'[k] : k \in {l \in 1 .. n + 1 : blocks'[l].is_allocated}}
    BY <1>7 DEF InUse
  <2>2. ASSUME NEW k \in 1 .. n + 1, blocks'[k].is_allocated
        PROVE  blocks'[k] = b \/ blocks'[k] \in InUse
    <3>1. k \in 1 .. i - 1 \/ k = i \/ k = i + 1 \/ k \in i + 2 .. n + 1
      BY <1>8
    <3>2. \A l \in 1 .. i - 1 : l \in 1 .. n
      BY <1>8
    <3>3. CASE k \in 1 .. i - 1
      BY <3>2, <3>3, <2>2, <1>8 DEF InUse
    <3>4. CASE k \in i + 2 .. n + 1
      BY <3>4, <2>2, <1>8 DEF InUse
    <3>5. QED
      BY <3>1, <3>3, <3>4, <2>2, <1>4, <1>8
  <2>3. ASSUME NEW k \in 1 .. n, blocks[k].is_allocated
        PROVE  blocks[k] \in InUse'
    <3>1. k < i \/ k > i
      BY <2>3, <1>8
    <3>2. CASE k < i
      <4>1. k \in 1 .. n + 1 /\ blocks'[k] = blocks[k]
        BY <3>2, <1>8
      <4>2. QED
        BY <4>1, <2>1, <2>3
    <3>3. CASE k > i
      <4>1. k + 1 \in 1 .. n + 1 /\ k + 1 \in i + 2 .. n + 1 /\ (k + 1) - 1 = k
        BY <3>3, <1>8
      <4>2. blocks'[k + 1] = blocks[k]
        BY <4>1, <1>8
      <4>3. QED
        BY <4>1, <4>2, <2>1, <2>3
    <3>4. QED
      BY <3>1, <3>2, <3>3
  <2>4. b \in InUse'
    <3>1. i \in 1 .. n + 1
      BY <1>8
    <3>2. QED
      BY <3>1, <2>1, <1>2, <1>8
  <2>5. \A c \in InUse' : c = b \/ c \in InUse
    BY <2>1, <2>2
  <2>6. \A c \in InUse : c \in InUse'
    BY <2>3 DEF InUse
  <2>7. QED
    BY <2>4, <2>5, <2>6
<1>16. QED
  BY <1>7, <1>9, <1>10, <1>11, <1>12, <1>13, <1>14 DEF Shape, b


(* The merge loop of deallocate.  Block k of the new list starts where     *)
(* block lo(k) of the old one did and ends where block hi(k) did.          *)
LEMMA MergeKeepsShape ==
  ASSUME IInv, NEW i \in 1 .. Len(blocks), blocks[i].is_allocated,
         blocks' = Merged(i, LastMerged(i)),
         free_blocks' = (free_blocks \cup {blocks[i].ptr})
                          \ {blocks[k].ptr : k \in i + 1 .. LastMerged(i)}
  PROVE  /\ Shape'
         /\ InUse' = InUse \ {blocks[i]}
         /\ i \in 1 .. Len(blocks')
         /\ blocks'[i].start_address = blocks[i].start_address
         /\ ~blocks'[i].is_allocated
         /\ i < Len(blocks') => blocks'[i + 1].is_allocated
<1> DEFINE n == Len(blocks)
           j == LastMerged(i)
           m == [blocks[i] EXCEPT !.size = MergedSize(i, j), !.is_allocated = FALSE]
           lo(k) == IF k <= i THEN k ELSE k + (j - i)
           hi(k) == IF k < i THEN k ELSE k + (j - i)
           N == n - (j - i)
<1>1. ASSUME NEW k \in 1 .. n
      PROVE  /\ n \in Nat
             /\ blocks[k] \in MemoryBlock
             /\ blocks[k].start_address \in Nat
             /\ blocks[k].size \in Nat
             /\ blocks[k].is_allocated \in BOOLEAN
             /\ End(blocks[k]) \in Nat
  BY <1>1, BlockTypes DEF IInv, End
<1>2. j \in i .. n /\ \A k \in i + 1 .. j : ~blocks[k].is_allocated
  BY LastMergedProperties DEF IInv
<1>3. n \in Nat /\ i \in 1 .. n /\ j \in 1 .. n /\ i <= j
  BY <1>1, <1>2
<1>4. MergedSize(i, j) = End(blocks[j]) - blocks[i].start_address
  BY <1>2, MergedSizeIsDistance DEF IInv
<1> HIDE DEF j
<1>5. blocks[i].start_address < End(blocks[j])
  <2>1. blocks[j].size > 0 /\ blocks[i].size > 0
    BY <1>3 DEF IInv, BlocksTile
  <2>2. i < j => End(blocks[i]) <= blocks[j].start_address
    BY <1>3 DEF IInv, BlocksOrdered
  <2>3. blocks[i].start_address \in Nat /\ blocks[i].size \in Nat
        /\ blocks[j].start_address \in Nat /\ blocks[j].size \in Nat
    BY <1>1, <1>3
  <2>4. i < j \/ i = j
    BY <1>3
  <2>5. QED
    BY <2>1, <2>2, <2>3, <2>4 DEF End
<1>6. /\ m \in MemoryBlock /\ m.ptr = blocks[i].ptr /\ ~m.is_allocated
      /\ m.start_address = blocks[i].start_address
      /\ m.size = End(blocks[j]) - blocks[i].start_address
      /\ m.size > 0
      /\ End(m) = End(blocks[j])
  <2>1. End(blocks[j]) \in Nat /\ blocks[i].start_address \in Nat /\ blocks[i] \in MemoryBlock
    BY <1>1, <1>3
  <2>2. MergedSize(i, j) \in Nat
    BY <2>1, <1>4, <1>5
  <2>3. /\ m \in MemoryBlock /\ m.ptr = blocks[i].ptr /\ ~m.is_allocated
        /\ m.start_address = blocks[i].start_address
        /\ m.size = MergedSize(i, j)
    BY <2>1, <2>2 DEF MemoryBlock
  <2> HIDE DEF m
  <2>4. m.size = End(blocks[j]) - blocks[i].start_address /\ m.size > 0
    BY <2>1, <2>3, <1>4, <1>5
  <2>5. QED
    BY <2>1, <2>3, <2>4 DEF End
<1>7. blocks' = Collapse(blocks, i, j, m)
  BY DEF Merged, j
<1> HIDE DEF m
<1>8. /\ blocks' \in Seq(MemoryBlock)
      /\ Len(blocks') = N
      /\ \A k \in 1 .. N :
           blocks'[k] = IF k < i THEN blocks[k] ELSE IF k = i THEN m ELSE blocks[k + (j - i)]
  <2> DEFINE s == blocks
  <2>1. s \in Seq(MemoryBlock) /\ i \in 1 .. Len(s) /\ j \in i .. Len(s) /\ m \in MemoryBlock
    BY <1>2, <1>6 DEF IInv, TypeOK
  <2>2. LET t == Collapse(s, i, j, m) IN
        /\ t \in Seq(MemoryBlock)
        /\ Len(t) = Len(s) - (j - i)
        /\ \A k \in 1 .. Len(t) :
             t[k] = IF k < i THEN s[k] ELSE IF k = i THEN m ELSE s[k + (j - i)]
    <3> HIDE DEF s
    <3>1. QED
      BY <2>1, CollapseProperties
  <2>3. QED
    BY <2>2, <1>7
<1>9. N \in Nat /\ i \in 1 .. N /\ blocks'[i] = m
  BY <1>3, <1>8
<1>10. ASSUME NEW k \in 1 .. N
       PROVE  /\ lo(k) \in 1 .. n /\ hi(k) \in 1 .. n
              /\ blocks'[k].start_address = blocks[lo(k)].start_address
              /\ End(blocks'[k]) = End(blocks[hi(k)])
              /\ blocks'[k].ptr = blocks[lo(k)].ptr
              /\ k # i => blocks'[k] = blocks[lo(k)]
              /\ k # i => lo(k) \notin i .. j
              /\ \A l \in 1 .. N : k < l => hi(k) < lo(l) /\ lo(k) # lo(l)
              /\ k < N => hi(k) + 1 = lo(k + 1)
  <2>1. lo(k) \in 1 .. n /\ hi(k) \in 1 .. n
    BY <1>3
  <2>2. CASE k < i
    BY <2>1, <2>2, <1>3, <1>8
  <2>3. CASE k = i
    <3>1. lo(k) = i /\ hi(k) = j /\ blocks'[k] = m
      BY <2>3, <1>3, <1>9
    <3>2. \A l \in 1 .. N : k < l => hi(k) < lo(l) /\ lo(k) # lo(l)
      BY <2>3, <1>3
    <3>3. k < N => hi(k) + 1 = lo(k + 1)
      BY <2>3, <1>3
    <3>4. QED
      BY <2>1, <2>3, <3>1, <3>2, <3>3, <1>6
  <2>4. CASE k > i
    <3>1. lo(k) = k + (j - i) /\ hi(k) = k + (j - i) /\ blocks'[k] = blocks[k + (j - i)]
      BY <2>4, <1>3, <1>8
    <3>2. \A l \in 1 .. N : k < l => hi(k) < lo(l) /\ lo(k) # lo(l)
      BY <2>4, <1>3
    <3>3. k < N => hi(k) + 1 = lo(k + 1)
      BY <2>4, <1>3
    <3>4. lo(k) \notin i .. j
      BY <2>4, <3>1, <1>3
    <3>5. QED
      BY <2>1, <2>4, <3>1, <3>2, <3>3, <3>4
  <2>5. QED
    BY <2>2, <2>3, <2>4, <1>3
<1>11. ASSUME NEW k \in 1 .. n, k \notin i + 1 .. j
       PROVE  \E l \in 1 .. N : lo(l) = k
  <2>1. CASE k <= i
    BY <2>1, <1>3, <1>9
  <2>2. CASE k > i
    <3>1. k > j
      BY <2>2, <1>3, <1>11
    <3>2. k - (j - i) \in 1 .. N /\ ~(k - (j - i) <= i) /\ (k - (j - i)) + (j - i) = k
      BY <3>1, <1>3
    <3>3. lo(k - (j - i)) = k
      BY <3>2
    <3>4. QED
      BY <3>2, <3>3
  <2>3. QED
    BY <2>1, <2>2, <1>3
<1>12. lo(1) = 1 /\ hi(N) = n
  BY <1>3, <1>9
<1> HIDE DEF lo, hi
<1>13. BlocksTile'
  <2>1. 1 \in 1 .. N /\ N \in 1 .. N
    BY <1>9
  <2>2. blocks'[1].start_address = 0 /\ End(blocks'[N]) = Total
    BY <2>1, <1>10, <1>12 DEF IInv, BlocksTile
  <2>3. ASSUME NEW k \in 1 .. N
        PROVE  blocks'[k].size > 0
    <3>1. \A l \in 1 .. n : blocks[l].size > 0
      BY DEF IInv, BlocksTile
    <3>2. CASE k = i
      BY <3>2, <1>6, <1>9
    <3>3. CASE k # i
      <4>1. lo(k) \in 1 .. n /\ blocks'[k] = blocks[lo(k)]
        BY <3>3, <1>10
      <4>2. QED
        BY <3>1, <4>1
    <3>4. QED
      BY <3>2, <3>3
  <2>4. ASSUME NEW k \in 1 .. N - 1
        PROVE  blocks'[k + 1].start_address = End(blocks'[k])
    <3>1. k \in 1 .. N /\ k + 1 \in 1 .. N /\ k < N
      BY <1>9
    <3>2. /\ End(blocks'[k]) = End(blocks[hi(k)])
          /\ blocks'[k + 1].start_address = blocks[lo(k + 1)].start_address
          /\ hi(k) + 1 = lo(k + 1) /\ hi(k) \in 1 .. n /\ lo(k + 1) \in 1 .. n
      BY <3>1, <1>10
    <3>3. hi(k) \in 1 .. n - 1
      BY <3>2, <1>3
    <3>4. blocks[hi(k) + 1].start_address = End(blocks[hi(k)])
      BY <3>3 DEF IInv, BlocksTile
    <3>5. QED
      BY <3>2, <3>4
  <2>5. QED
    BY <2>1, <2>2, <2>3, <2>4, <1>8 DEF BlocksTile
<1>14. FreeListExact'
  <2>1. DistinctPtrs /\ \A q : q \in free_blocks <=> Unreserved(q)
    BY FreeListByMembers DEF IInv
  <2>2. DistinctPtrs'
    <3> SUFFICES ASSUME NEW k \in 1 .. N, NEW l \in 1 .. N, blocks'[k].ptr = blocks'[l].ptr
                 PROVE  k = l
      BY <1>8 DEF DistinctPtrs
    <3>1. lo(k) = lo(l)
      BY <1>10, <2>1 DEF DistinctPtrs
    <3>2. ~(k < l) /\ ~(l < k)
      BY <3>1, <1>10
    <3>3. QED
      BY <3>2, <1>9
  <2>3. ASSUME NEW q
        PROVE  q \in free_blocks' <=> Unreserved(q)'
    <3>1. ASSUME NEW k \in 1 .. N, ~blocks'[k].is_allocated, blocks'[k].ptr = q
          PROVE  q \in free_blocks'
      <4>1. /\ lo(k) \in 1 .. n /\ blocks[lo(k)].ptr = q
            /\ k # i => blocks'[k] = blocks[lo(k)] /\ lo(k) \notin i .. j
        BY <3>1, <1>10
      <4>2. CASE k = i
        <5>1. q = blocks[i].ptr
          BY <4>2, <3>1, <1>6, <1>9
        <5>2. \A l \in i + 1 .. j : l \in 1 .. n /\ l # i
          BY <1>3
        <5>3. \A l \in i + 1 .. j : blocks[l].ptr # q
          BY <5>1, <5>2, <2>1 DEF DistinctPtrs
        <5>4. QED
          BY <5>1, <5>3 DEF j
      <4>3. CASE k # i
        <5>1. ~blocks[lo(k)].is_allocated
          BY <4>1, <4>3, <3>1
        <5>2. q \in free_blocks
          BY <4>1, <5>1, <2>1 DEF Unreserved
        <5>3. \A l \in i + 1 .. j : l \in 1 .. n /\ l # lo(k)
          BY <4>1, <4>3, <1>3
        <5>4. \A l \in i + 1 .. j : blocks[l].ptr # q
          BY <4>1, <5>3, <2>1 DEF DistinctPtrs
        <5>5. QED
          BY <5>2, <5>4 DEF j
      <4>4. QED
        BY <4>2, <4>3
    <3>2. ASSUME q \in free_blocks'
          PROVE  \E k \in 1 .. N : ~blocks'[k].is_allocated /\ blocks'[k].ptr = q
      <4>1. CASE q = blocks[i].ptr
        BY <4>1, <1>6, <1>9
      <4>2. CASE q # blocks[i].ptr
        <5>1. q \in free_blocks /\ \A k \in i + 1 .. j : blocks[k].ptr # q
          BY <3>2, <4>2 DEF j
        <5>2. PICK k \in 1 .. n : ~blocks[k].is_allocated /\ blocks[k].ptr = q
          BY <5>1, <2>1 DEF Unreserved
        <5>3. k \notin i + 1 .. j /\ k # i
          BY <5>1, <5>2, <4>2
        <5>4. PICK l \in 1 .. N : lo(l) = k
          BY <5>3, <1>11
        <5>5. CASE l = i
          <6>1. blocks'[l].ptr = q
            BY <5>2, <5>4, <1>10
          <6>2. QED
            BY <6>1, <5>5, <1>6, <1>9
        <5>6. CASE l # i
          <6>1. blocks'[l] = blocks[k]
            BY <5>4, <5>6, <1>10
          <6>2. QED
            BY <6>1, <5>2
        <5>7. QED
          BY <5>5, <5>6
      <4>3. QED
        BY <4>1, <4>2
    <3>3. QED
      BY <3>1, <3>2, <1>8 DEF Unreserved
  <2>4. QED
    BY <2>2, <2>3, FreeListByMembers
<1>15. StartsAligned'
  <2>1. \A k \in 1 .. n : blocks[k].start_address % Align = 0
    BY DEF IInv, StartsAligned
  <2>2. ASSUME NEW k \in 1 .. N
        PROVE  blocks'[k].start_address % Align = 0
    <3>1. lo(k) \in 1 .. n /\ blocks'[k].start_address = blocks[lo(k)].start_address
      BY <1>10
    <3>2. QED
      BY <2>1, <3>1
  <2>3. QED
    BY <2>2, <1>8 DEF StartsAligned
<1>16. BlocksOrdered'
  <2>1. \A k, l \in 1 .. n : k < l => End(blocks[k]) <= blocks[l].start_address
    BY DEF IInv, BlocksOrdered
  <2>2. ASSUME NEW k \in 1 .. N, NEW l \in 1 .. N, k < l
        PROVE  End(blocks'[k]) <= blocks'[l].start_address
    <3>1. /\ hi(k) \in 1 .. n /\ lo(l) \in 1 .. n /\ hi(k) < lo(l)
          /\ End(blocks'[k]) = End(blocks[hi(k)])
          /\ blocks'[l].start_address = blocks[lo(l)].start_address
      BY <2>2, <1>10
    <3>2. QED
      BY <2>1, <3>1
  <2>3. QED
    BY <2>2, <1>8 DEF BlocksOrdered
<1>17. free_blocks' \subseteq Ptr
  BY BlockTypes DEF IInv, TypeOK
<1>18. InUse' = InUse \ {blocks[i]}
  <2>1. InUse' = {blocks'[k] : k \in {l \in 1 .. N : blocks'[l].is_allocated}}
    BY <1>8 DEF InUse
  <2>2. ASSUME NEW k \in 1 .. N, blocks'[k].is_allocated
        PROVE  blocks'[k] \in InUse /\ blocks'[k] # blocks[i]
    <3>1. k # i
      BY <2>2, <1>6, <1>9
    <3>2. lo(k) \in 1 .. n /\ blocks'[k] = blocks[lo(k)] /\ lo(k) \notin i .. j
      BY <3>1, <1>10
    <3>3. lo(k) # i
      BY <3>2, <1>3
    <3>4. blocks[lo(k)].ptr # blocks[i].ptr
      BY <3>2, <3>3 DEF IInv, FreeListExact
    <3>5. QED
      BY <3>2, <3>4, <2>2 DEF InUse
  <2>3. ASSUME NEW k \in 1 .. n, blocks[k].is_allocated, blocks[k] # blocks[i]
        PROVE  blocks[k] \in InUse'
    <3>1. k \notin i + 1 .. j /\ k # i
      BY <2>3, <1>2
    <3>2. PICK l \in 1 .. N : lo(l) = k
      BY <3>1, <1>11
    <3>3. l # i
      <4>1. l = i => lo(l) = i
        BY <1>3 DEF lo
      <4>2. QED
        BY <4>1, <3>1, <3>2
    <3>4. blocks'[l] = blocks[k]
      BY <3>2, <3>3, <1>10
    <3>5. QED
      BY <3>4, <2>1, <2>3
  <2>4. \A c \in InUse' : c \in InUse /\ c # blocks[i]
    BY <2>1, <2>2
  <2>5. \A c \in InUse : c # blocks[i] => c \in InUse'
    BY <2>3 DEF InUse
  <2>6. QED
    BY <2>4, <2>5
<1>19. i < N => blocks'[i + 1].is_allocated
  <2>1. SUFFICES ASSUME i < N PROVE blocks'[i + 1].is_allocated
    OBVIOUS
  <2>2. i + 1 \in 1 .. N /\ ~(i + 1 < i) /\ i + 1 # i /\ (i + 1) + (j - i) = j + 1 /\ j < n
    BY <2>1, <1>3, <1>9
  <2>3. blocks'[i + 1] = blocks[j + 1]
    BY <2>2, <1>8
  <2>4. blocks[j + 1].is_allocated
    BY <2>2, LastMergedProperties DEF IInv, j
  <2>5. QED
    BY <2>3, <2>4
<1>20. QED
  BY <1>6, <1>8, <1>9, <1>13, <1>14, <1>15, <1>16, <1>17, <1>18, <1>19 DEF Shape


-----------------------------------------------------------------------------
(* The calls, each as what it does to the list                             *)

(* A granting call takes a free block that is long enough, cut to size.    *)
GrantsFrom(n, i) ==
  /\ RoundUp(n) \in Nat /\ RoundUp(n) >= n
  /\ i \in 1 .. Len(blocks)
  /\ ~blocks[i].is_allocated
  /\ blocks[i].size >= RoundUp(n)
  /\ InUse' = InUse \cup {[blocks[i] EXCEPT !.size = RoundUp(n), !.is_allocated = TRUE]}
  /\ reply' = [op |-> "allocate", arg |-> n, value |-> blocks[i].start_address]

(* allocate either refuses or adds one block to those in use.              *)
LEMMA AllocateStep ==
  ASSUME IInv, NEW n \in Sizes, allocate(n)
  PROVE  /\ IInv'
         /\ \/ /\ UNCHANGED blocks
               /\ reply' = [op |-> "allocate", arg |-> n, value |-> -1]
            \/ \E i \in 1 .. Len(blocks) : GrantsFrom(n, i)
<1>1. n \in Nat /\ n \in Int
  BY BestFitAssumption
<1> DEFINE req == RoundUp(n)
<1>2. CASE /\ findBlock(req) = {}
           /\ reply' = [op |-> "allocate", arg |-> n, value |-> -1]
           /\ UNCHANGED <<blocks, free_blocks>>
  <2>1. reply' \in Reply
    BY <1>1, <1>2 DEF Reply
  <2>2. Shape'
    BY <1>2, IInvIsShape DEF Shape, BlocksTile, FreeListExact, StartsAligned, BlocksOrdered
  <2>3. QED
    BY <2>1, <2>2, <1>2 DEF IInv, Shape, TypeOK
<1>3. ASSUME NEW i \in findBlock(req), prepBlock(i, req),
             reply' = [op |-> "allocate", arg |-> n, value |-> RoundUp(blocks[i].start_address)]
      PROVE  IInv' /\ i \in 1 .. Len(blocks) /\ GrantsFrom(n, i)
  <2>1. /\ req \in Nat /\ req >= n /\ req > 0 /\ IsAligned(req)
        /\ i \in 1 .. Len(blocks) /\ ~blocks[i].is_allocated /\ blocks[i].size >= req
        /\ RoundUp(blocks[i].start_address) = blocks[i].start_address
    BY FindBlockProperties
  <2>2. reply' \in Reply
    <3>1. blocks[i].start_address \in Nat
      BY <2>1, BlockTypes DEF IInv
    <3>2. QED
      BY <3>1, <2>1, <1>1, <1>3 DEF Reply
  <2> HIDE DEF req
  <2>3. /\ Shape'
        /\ InUse' = InUse \cup {[blocks[i] EXCEPT !.size = req, !.is_allocated = TRUE]}
    <3>1. CASE /\ blocks[i].size > req
               /\ \E p \in Fresh :
                    /\ blocks' = InsertAfter(Taken(i, req), i, Remaining(i, req, p))
                    /\ free_blocks' = (free_blocks \cup {p}) \ {blocks[i].ptr}
      BY <3>1, <2>1, SplitKeepsShape
    <3>2. CASE /\ blocks[i].size = req
               /\ blocks' = Taken(i, req)
               /\ free_blocks' = free_blocks \ {blocks[i].ptr}
      <4>1. /\ Shape'
            /\ InUse' = InUse \cup {[blocks[i] EXCEPT !.is_allocated = TRUE]}
        BY <3>2, <2>1, TakeKeepsShape
      <4>2. [blocks[i] EXCEPT !.is_allocated = TRUE]
              = [blocks[i] EXCEPT !.size = req, !.is_allocated = TRUE]
        <5>1. blocks[i] \in MemoryBlock
          BY <2>1, BlockTypes DEF IInv
        <5>2. QED
          BY <5>1, <3>2 DEF MemoryBlock
      <4>3. QED
        BY <4>1, <4>2
    <3>3. QED
      BY <3>1, <3>2, <1>3 DEF prepBlock
  <2>4. QED
    BY <2>1, <2>2, <2>3, <1>3 DEF GrantsFrom, req, IInv, Shape, TypeOK
<1>4. QED
  BY <1>2, <1>3 DEF allocate

(* A releasing call frees the block in use at the address, if there is one.*)
ReleasesAt(a, i) ==
  /\ i \in 1 .. Len(blocks)
  /\ blocks[i].is_allocated
  /\ blocks[i].start_address = a
  /\ InUse' = InUse \ {blocks[i]}
  /\ i \in 1 .. Len(blocks')
  /\ blocks'[i].start_address = a
  /\ ~blocks'[i].is_allocated
  /\ i < Len(blocks') => blocks'[i + 1].is_allocated
  /\ reply' = [op |-> "release", arg |-> a, value |-> 1]

(* Blocks are not empty, so no two of them start at the same address.      *)
LEMMA StartsDistinct ==
  ASSUME IInv, NEW i \in 1 .. Len(blocks), NEW j \in 1 .. Len(blocks),
         blocks[i].start_address = blocks[j].start_address
  PROVE  i = j
<1>1. /\ blocks[i].start_address \in Nat /\ blocks[i].size \in Nat
      /\ blocks[j].start_address \in Nat /\ blocks[j].size \in Nat
      /\ Len(blocks) \in Nat
  BY BlockTypes DEF IInv
<1>2. blocks[i].size > 0 /\ blocks[j].size > 0
  BY DEF IInv, BlocksTile
<1>3. /\ i < j => End(blocks[i]) <= blocks[j].start_address
      /\ j < i => End(blocks[j]) <= blocks[i].start_address
  BY DEF IInv, BlocksOrdered
<1>4. QED
  BY <1>1, <1>2, <1>3 DEF End

(* deallocate either rejects or takes one block out of those in use.       *)
LEMMA DeallocateStep ==
  ASSUME IInv, NEW a \in Addresses, deallocate(a)
  PROVE  /\ IInv'
         /\ \/ /\ UNCHANGED blocks
               /\ \A b \in InUse : b.start_address # a
               /\ reply' = [op |-> "release", arg |-> a, value |-> 0]
            \/ \E i \in 1 .. Len(blocks) : ReleasesAt(a, i)
<1>1. a \in Int
  BY BestFitAssumption
<1>2. DOMAIN blocks = 1 .. Len(blocks)
  BY LenProperties DEF IInv, TypeOK
<1>3. CASE /\ \A i \in Found(a) : ~blocks[i].is_allocated
           /\ reply' = [op |-> "release", arg |-> a, value |-> 0]
           /\ UNCHANGED <<blocks, free_blocks>>
  <2>1. reply' \in Reply
    BY <1>1, <1>3 DEF Reply
  <2>2. Shape'
    BY <1>3, IInvIsShape DEF Shape, BlocksTile, FreeListExact, StartsAligned, BlocksOrdered
  <2>3. ASSUME NEW i \in 1 .. Len(blocks), blocks[i].is_allocated, blocks[i].start_address = a
        PROVE  FALSE
    <3>1. \A j \in 1 .. Len(blocks) : blocks[j].start_address = a => i = j
      BY <2>3, StartsDistinct
    <3>2. i <= i
      BY BlockTypes DEF IInv
    <3>3. i \in Found(a)
      BY <2>3, <3>1, <3>2, <1>2 DEF Found
    <3>4. QED
      BY <3>3, <2>3, <1>3
  <2>4. \A b \in InUse : b.start_address # a
    BY <2>3 DEF InUse
  <2>5. QED
    BY <2>1, <2>2, <2>4, <1>3 DEF IInv, Shape, TypeOK
<1>4. ASSUME NEW i \in Found(a), blocks[i].is_allocated,
             blocks' = Merged(i, LastMerged(i)),
             free_blocks' = (free_blocks \cup {blocks[i].ptr})
                              \ {blocks[k].ptr : k \in i + 1 .. LastMerged(i)},
             reply' = [op |-> "release", arg |-> a, value |-> 1]
      PROVE  IInv' /\ i \in 1 .. Len(blocks) /\ ReleasesAt(a, i)
  <2>1. i \in 1 .. Len(blocks) /\ blocks[i].start_address = a
    BY <1>2 DEF Found
  <2>2. reply' \in Reply
    BY <1>1, <1>4 DEF Reply
  <2>3. /\ Shape'
        /\ InUse' = InUse \ {blocks[i]}
        /\ i \in 1 .. Len(blocks')
        /\ blocks'[i].start_address = blocks[i].start_address
        /\ ~blocks'[i].is_allocated
        /\ i < Len(blocks') => blocks'[i + 1].is_allocated
    BY <2>1, <1>4, MergeKeepsShape
  <2>4. QED
    BY <2>1, <2>2, <2>3, <1>4 DEF ReleasesAt, IInv, Shape, TypeOK
<1>5. QED
  BY <1>3, <1>4 DEF deallocate

(* A call that changes nothing keeps the invariant.                        *)
LEMMA StutterKeepsIInv == IInv /\ UNCHANGED vars => IInv'
BY DEF IInv, TypeOK, BlocksTile, FreeListExact, StartsAligned, BlocksOrdered, vars

(* Every call of the allocator keeps the invariant.                        *)
LEMMA NextKeepsIInv == IInv /\ [Next]_vars => IInv'
<1> SUFFICES ASSUME IInv, [Next]_vars PROVE IInv'
  OBVIOUS
<1>1. ASSUME NEW n \in Sizes, allocate(n) PROVE IInv'
  BY <1>1, AllocateStep
<1>2. ASSUME NEW a \in Addresses, deallocate(a) PROVE IInv'
  BY <1>2, DeallocateStep
<1>3. CASE UNCHANGED vars
  BY <1>3, StutterKeepsIInv
<1>4. QED
  BY <1>1, <1>2, <1>3 DEF Next

-----------------------------------------------------------------------------
(* Theorems *)

(* The inductive invariant holds in every reachable state, for every space *)
(* size, alignment, set of request sizes and heap.                         *)
THEOREM Invariance == Spec => []IInv
<1>1. Init => IInv
  BY InitIInv
<1>2. IInv /\ [Next]_vars => IInv'
  BY NextKeepsIInv
<1>3. QED
  BY <1>1, <1>2, PTL DEF Spec

(* Every variable keeps its type.                                          *)
THEOREM TypeCorrect == Spec => []TypeOK
<1>1. IInv => TypeOK
  BY DEF IInv
<1>2. QED
  BY <1>1, Invariance, PTL

(* The blocks always cut the space up without gap or overlap.              *)
THEOREM AlwaysTiled == Spec => []BlocksTile
<1>1. IInv => BlocksTile
  BY DEF IInv
<1>2. QED
  BY <1>1, Invariance, PTL

(* The free list is always exactly the unreserved blocks of the list.      *)
THEOREM FreeListAlwaysExact == Spec => []FreeListExact
<1>1. IInv => FreeListExact
  BY DEF IInv
<1>2. QED
  BY <1>1, Invariance, PTL

(* No call moves, resizes or frees a block in use other than the one whose *)
(* address is released.                                                    *)
THEOREM InUseStay == Spec => BlocksInUseStay
<1> DEFINE Kept == \A b \in InUse :
                     \/ b \in InUse'
                     \/ reply' = [op |-> "release", arg |-> b.start_address, value |-> 1]
<1>1. IInv /\ [Next]_vars => [Kept]_vars
  <2> SUFFICES ASSUME IInv, Next PROVE Kept
    OBVIOUS
  <2>1. ASSUME NEW n \in Sizes, allocate(n) PROVE Kept
    <3>1. UNCHANGED blocks => InUse' = InUse
      BY DEF InUse
    <3>2. QED
      BY <3>1, <2>1, AllocateStep DEF GrantsFrom
  <2>2. ASSUME NEW a \in Addresses, deallocate(a) PROVE Kept
    <3>1. UNCHANGED blocks => InUse' = InUse
      BY DEF InUse
    <3>2. QED
      BY <3>1, <2>2, DeallocateStep DEF ReleasesAt
  <2>3. QED
    BY <2>1, <2>2 DEF Next
<1>2. QED
  BY <1>1, Invariance, PTL DEF Spec, BlocksInUseStay

(* A successful release leaves no free block to the right of its address.  *)
THEOREM ReleaseMerges == Spec => ReleaseMergesRight
<1> DEFINE Right ==
      \A a \in Addresses :
        reply' = [op |-> "release", arg |-> a, value |-> 1] =>
          \E i \in 1 .. Len(blocks') :
            /\ blocks'[i].start_address = a
            /\ ~blocks'[i].is_allocated
            /\ i < Len(blocks') => blocks'[i + 1].is_allocated
<1>1. IInv /\ [Next]_vars => [Right]_vars
  <2> SUFFICES ASSUME IInv, Next PROVE Right
    OBVIOUS
  <2>1. ASSUME NEW n \in Sizes, allocate(n) PROVE Right
    <3>1. reply'.op = "allocate"
      <4>1. \/ reply' = [op |-> "allocate", arg |-> n, value |-> -1]
            \/ \E i \in 1 .. Len(blocks) :
                 reply' = [op |-> "allocate", arg |-> n, value |-> blocks[i].start_address]
        BY <2>1, AllocateStep DEF GrantsFrom
      <4>2. QED
        BY <4>1
    <3>2. QED
      BY <3>1
  <2>2. ASSUME NEW a \in Addresses, deallocate(a) PROVE Right
    <3>1. reply'.arg = a /\ (reply'.value = 1 => \E i \in 1 .. Len(blocks) : ReleasesAt(a, i))
      BY <2>2, DeallocateStep DEF ReleasesAt
    <3>2. ASSUME NEW c \in Addresses, reply' = [op |-> "release", arg |-> c, value |-> 1]
          PROVE  \E i \in 1 .. Len(blocks') :
                   /\ blocks'[i].start_address = c
                   /\ ~blocks'[i].is_allocated
                   /\ i < Len(blocks') => blocks'[i + 1].is_allocated
      <4>1. c = a /\ \E i \in 1 .. Len(blocks) : ReleasesAt(a, i)
        BY <3>1, <3>2
      <4>2. QED
        BY <4>1 DEF ReleasesAt
    <3>3. QED
      BY <3>2
  <2>3. QED
    BY <2>1, <2>2 DEF Next
<1>2. QED
  BY <1>1, Invariance, PTL DEF Spec, ReleaseMergesRight

-----------------------------------------------------------------------------
(* Refinement *)

(* grants is well defined: one length for each address in use.             *)
LEMMA GrantsMeaning ==
  ASSUME IInv
  PROVE  /\ DOMAIN grants = {b.start_address : b \in InUse}
         /\ \A b \in InUse : grants[b.start_address] = b.size
<1>1. \A b, c \in InUse : b.start_address = c.start_address => b = c
  BY StartsDistinct DEF InUse
<1>2. ASSUME NEW b \in InUse
      PROVE  grants[b.start_address] = b.size
  <2>1. \E c \in InUse : c.start_address = b.start_address
    OBVIOUS
  <2>2. (CHOOSE c \in InUse : c.start_address = b.start_address) = b
    BY <2>1, <1>1
  <2>3. QED
    BY <2>2 DEF grants
<1>3. QED
  BY <1>2 DEF grants

(* The same of the next state.                                             *)
LEMMA GrantsMeaningNext ==
  ASSUME IInv'
  PROVE  /\ DOMAIN grants' = {b.start_address : b \in InUse'}
         /\ \A b \in InUse' : grants'[b.start_address] = b.size
<1>1. (IInv => /\ DOMAIN grants = {b.start_address : b \in InUse}
               /\ \A b \in InUse : grants[b.start_address] = b.size)'
  BY GrantsMeaning, PTL
<1>2. QED
  BY <1>1


(* Blocks in use lie inside the space and do not overlap.                  *)
LEMMA BlocksInside ==
  ASSUME IInv, NEW i \in 1 .. Len(blocks)
  PROVE  /\ blocks[i].start_address \in Nat
         /\ blocks[i].size \in Nat \ {0}
         /\ End(blocks[i]) <= Total
<1> DEFINE n == Len(blocks)
<1>1. n \in 1 .. Len(blocks)
  BY BlockTypes DEF IInv
<1>2. /\ blocks[i].start_address \in Nat /\ blocks[i].size \in Nat \ {0}
      /\ blocks[n].start_address \in Nat /\ blocks[n].size \in Nat \ {0}
  BY <1>1, BlockTypes DEF IInv, BlocksTile
<1>3. End(blocks[n]) = Total
  BY DEF IInv, BlocksTile
<1>4. i < n => End(blocks[i]) <= blocks[n].start_address
  BY <1>1 DEF IInv, BlocksOrdered
<1>5. i < n \/ i = n
  BY <1>1
<1> HIDE DEF n
<1>6. QED
  BY <1>2, <1>3, <1>4, <1>5 DEF End

(* An allocate is a Grant or a Refuse of the address space.                *)
LEMMA AllocateRefines ==
  ASSUME IInv, NEW n \in Sizes, NEW i \in 1 .. Len(blocks), GrantsFrom(n, i), IInv'
  PROVE  /\ blocks[i].start_address \in 0 .. Total - 1
         /\ RoundUp(n) \in n .. Total
         /\ Space!Grant(n, blocks[i].start_address, RoundUp(n))
<1> DEFINE a == blocks[i].start_address
           len == RoundUp(n)
           b == [blocks[i] EXCEPT !.size = len, !.is_allocated = TRUE]
<1>1. n \in Nat /\ n > 0 /\ len \in Nat /\ len >= n /\ Total \in Nat
  BY BestFitAssumption DEF GrantsFrom
<1>2. /\ a \in Nat /\ blocks[i].size \in Nat /\ blocks[i] \in MemoryBlock
      /\ len <= blocks[i].size /\ a + blocks[i].size <= Total
  BY <1>1, BlocksInside, BlockTypes DEF GrantsFrom, End, IInv
<1>3. b.start_address = a /\ b.size = len
  BY <1>2 DEF MemoryBlock
<1>4. InUse' = InUse \cup {b}
  BY DEF GrantsFrom
<1> HIDE DEF b
<1>5. a % Align = 0
  BY DEF IInv, StartsAligned
<1>6. ASSUME NEW c \in InUse
      PROVE  /\ c.start_address \in Nat /\ c.size \in Nat /\ c.start_address # a
             /\ \/ a + len <= c.start_address
                \/ c.start_address + c.size <= a
  <2>1. PICK k \in 1 .. Len(blocks) : blocks[k].is_allocated /\ c = blocks[k]
    BY DEF InUse
  <2>2. k # i
    BY <2>1 DEF GrantsFrom
  <2>3. /\ k < i => End(blocks[k]) <= a
        /\ i < k => End(blocks[i]) <= blocks[k].start_address
    BY DEF IInv, BlocksOrdered
  <2>4. blocks[k].start_address \in Nat /\ blocks[k].size \in Nat \ {0}
    BY BlocksInside
  <2>5. blocks[k].start_address # a
    BY <2>2, StartsDistinct
  <2>6. k < i \/ i < k
    BY <2>2, BlockTypes DEF IInv
  <2> HIDE DEF a, len
  <2>7. QED
    BY <2>1, <2>3, <2>4, <2>5, <2>6, <1>1, <1>2 DEF End, a
<1>7. DOMAIN grants = {c.start_address : c \in InUse} /\ \A c \in InUse : grants[c.start_address] = c.size
  BY GrantsMeaning
<1>8. DOMAIN grants' = {c.start_address : c \in InUse'} /\ \A c \in InUse' : grants'[c.start_address] = c.size
  BY GrantsMeaningNext
<1>9. grants' = [c \in DOMAIN grants \cup {a} |-> IF c = a THEN len ELSE grants[c]]
  <2>1. DOMAIN grants' = DOMAIN grants \cup {a}
    BY <1>3, <1>4, <1>7, <1>8
  <2>2. grants'[a] = len
    BY <1>3, <1>4, <1>8
  <2>3. \A c \in DOMAIN grants : c # a /\ grants'[c] = grants[c]
    BY <1>4, <1>6, <1>7, <1>8
  <2>4. grants' = [c \in DOMAIN grants' |-> grants'[c]]
    BY DEF grants
  <2> HIDE DEF a, len
  <2>5. QED
    BY <2>1, <2>2, <2>3, <2>4
<1> HIDE DEF a, len
<1>10. \A c \in DOMAIN grants : Space!Region(a, len) \cap Space!Region(c, grants[c]) = {}
  <2>1. ASSUME NEW c \in InUse
        PROVE  Space!Region(a, len) \cap Space!Region(c.start_address, c.size) = {}
    BY <1>1, <1>2, <1>6 DEF Space!Region
  <2>2. QED
    BY <2>1, <1>7
<1>11. Space!Region(a, len) \subseteq 0 .. Total - 1
  BY <1>1, <1>2 DEF Space!Region
<1>12. reply' = [op |-> "allocate", arg |-> n, value |-> a]
  BY DEF GrantsFrom, a
<1>13. a \in 0 .. Total - 1 /\ len \in n .. Total
  BY <1>1, <1>2
<1>14. QED
  BY <1>1, <1>5, <1>9, <1>10, <1>11, <1>12, <1>13 DEF Space!Grant, a, len

(* A deallocate is a Return or a Reject of the address space.              *)
LEMMA DeallocateRefines ==
  ASSUME IInv, NEW a \in Addresses, NEW i \in 1 .. Len(blocks), ReleasesAt(a, i), IInv'
  PROVE  Space!Return(a)
<1>1. blocks[i] \in InUse /\ blocks[i].start_address = a /\ InUse' = InUse \ {blocks[i]}
  BY DEF ReleasesAt, InUse
<1>2. DOMAIN grants = {c.start_address : c \in InUse} /\ \A c \in InUse : grants[c.start_address] = c.size
  BY GrantsMeaning
<1>3. DOMAIN grants' = {c.start_address : c \in InUse'} /\ \A c \in InUse' : grants'[c.start_address] = c.size
  BY GrantsMeaningNext
<1>4. \A c \in InUse : c.start_address = a => c = blocks[i]
  BY <1>1, StartsDistinct DEF InUse
<1>5. DOMAIN grants' = DOMAIN grants \ {a}
  BY <1>1, <1>2, <1>3, <1>4
<1>6. \A c \in DOMAIN grants' : grants'[c] = grants[c]
  BY <1>1, <1>2, <1>3
<1>7. grants' = [c \in DOMAIN grants' |-> grants'[c]]
  BY DEF grants
<1>8. grants' = [c \in DOMAIN grants \ {a} |-> grants[c]]
  BY <1>5, <1>6, <1>7
<1>9. a \in DOMAIN grants
  BY <1>1, <1>2
<1>10. QED
  BY <1>8, <1>9 DEF Space!Return, ReleasesAt

(* The allocator keeps what AddressSpace promises: every grant is aligned, *)
(* long enough, inside the space and clear of all others, and a release    *)
(* succeeds exactly for the addresses in use.                              *)
THEOREM Refinement == Spec => Implements
<1>1. Init => Space!Init
  <2> SUFFICES ASSUME Init PROVE Space!Init
    OBVIOUS
  <2>1. InUse = {}
    BY DEF Init, InUse
  <2>2. grants = [a \in {} |-> 0]
    BY <2>1 DEF grants
  <2>3. QED
    BY <2>2 DEF Init, Space!Init, Space!NoReply
<1>2. IInv /\ IInv' /\ [Next]_vars => [Space!Next]_<<grants, reply>>
  <2> SUFFICES ASSUME IInv, IInv', [Next]_vars PROVE [Space!Next]_<<grants, reply>>
    OBVIOUS
  <2>1. UNCHANGED blocks => UNCHANGED grants
    BY DEF grants, InUse
  <2>2. ASSUME NEW n \in Sizes, allocate(n) PROVE Space!Next
    <3>1. CASE UNCHANGED blocks /\ reply' = [op |-> "allocate", arg |-> n, value |-> -1]
      <4>1. Space!Refuse(n)
        BY <3>1, <2>1 DEF Space!Refuse
      <4>2. QED
        BY <4>1 DEF Space!Next
    <3>2. CASE \E i \in 1 .. Len(blocks) : GrantsFrom(n, i)
      <4>1. PICK i \in 1 .. Len(blocks) : GrantsFrom(n, i)
        BY <3>2
      <4>2. /\ blocks[i].start_address \in 0 .. Total - 1
            /\ RoundUp(n) \in n .. Total
            /\ Space!Grant(n, blocks[i].start_address, RoundUp(n))
        BY <4>1, AllocateRefines
      <4>3. QED
        BY <4>2 DEF Space!Next
    <3>3. QED
      BY <2>2, <3>1, <3>2, AllocateStep
  <2>3. ASSUME NEW a \in Addresses, deallocate(a) PROVE Space!Next
    <3>1. CASE /\ UNCHANGED blocks
               /\ \A b \in InUse : b.start_address # a
               /\ reply' = [op |-> "release", arg |-> a, value |-> 0]
      <4>1. a \notin DOMAIN grants
        BY <3>1 DEF grants
      <4>2. Space!Reject(a)
        BY <3>1, <4>1, <2>1 DEF Space!Reject
      <4>3. QED
        BY <4>2 DEF Space!Next
    <3>2. CASE \E i \in 1 .. Len(blocks) : ReleasesAt(a, i)
      <4>1. Space!Return(a)
        BY <3>2, DeallocateRefines
      <4>2. QED
        BY <4>1 DEF Space!Next
    <3>3. QED
      BY <2>3, <3>1, <3>2, DeallocateStep
  <2>4. CASE UNCHANGED vars
    BY <2>4, <2>1 DEF vars
  <2>5. QED
    BY <2>2, <2>3, <2>4 DEF Next
<1>3. QED
  BY <1>1, <1>2, Invariance, PTL DEF Spec, Implements, Space!Spec

(* Regions handed out never overlap and never leave the space.             *)
THEOREM GrantsAlwaysDisjoint == Spec => []GrantsDisjoint
<1>1. IInv => GrantsDisjoint
  <2> SUFFICES ASSUME IInv PROVE GrantsDisjoint
    OBVIOUS
  <2>1. DOMAIN grants = {b.start_address : b \in InUse} /\ \A b \in InUse : grants[b.start_address] = b.size
    BY GrantsMeaning
  <2>2. ASSUME NEW b \in InUse
        PROVE  Space!Region(b.start_address, b.size) \subseteq 0 .. Total - 1
    <3>1. PICK i \in 1 .. Len(blocks) : b = blocks[i]
      BY DEF InUse
    <3>2. b.start_address \in Nat /\ b.size \in Nat /\ b.start_address + b.size <= Total
      BY <3>1, BlocksInside DEF End
    <3>3. QED
      BY <3>2, BestFitAssumption DEF Space!Region
  <2>3. ASSUME NEW b \in InUse, NEW c \in InUse, b.start_address # c.start_address
        PROVE  Space!Region(b.start_address, b.size) \cap Space!Region(c.start_address, c.size) = {}
    <3>1. PICK i \in 1 .. Len(blocks), j \in 1 .. Len(blocks) : b = blocks[i] /\ c = blocks[j]
      BY DEF InUse
    <3>2. /\ b.start_address \in Nat /\ b.size \in Nat
          /\ c.start_address \in Nat /\ c.size \in Nat
      BY <3>1, BlocksInside
    <3>3. i < j \/ j < i
      BY <3>1, <2>3, BlockTypes DEF IInv
    <3>4. b.start_address + b.size <= c.start_address \/ c.start_address + c.size <= b.start_address
      BY <3>1, <3>3 DEF IInv, BlocksOrdered, End
    <3>5. QED
      BY <3>2, <3>4 DEF Space!Region
  <2>4. QED
    BY <2>1, <2>2, <2>3 DEF GrantsDisjoint, Space!GrantsDisjoint
<1>2. QED
  BY <1>1, Invariance, PTL

-----------------------------------------------------------------------------
(* The manager on its heap *)

(* What the calls do to the heap leaves what they do to the list as it is. *)
LEMMA HeapStepIsStep == [HeapNext]_heapVars => [Next]_vars
BY DEF HeapNext, heapVars, heapAllocate, heapDeallocate, free, Next, vars

(* The list of a manager that lives and dies on a heap is BestFit's, and   *)
(* all that is proved of that list holds here.                             *)
THEOREM HeapListIsBestFit == HeapSpec => Spec
<1>1. generate => Init
  BY DEF generate
<1>2. QED
  BY <1>1, HeapStepIsStep, PTL DEF HeapSpec, Spec

(* The pointers of the list, place by place.                               *)
LEMMA PointersByPlace ==
  ASSUME NEW S, NEW s \in Seq(S)
  PROVE  Pointers(s) = {s[i].ptr : i \in 1 .. Len(s)}
BY DEF Pointers

(* A split leaves every block where new has put it.                        *)
LEMMA SplitKeepsPointers ==
  ASSUME TypeOK, NEW i \in 1 .. Len(blocks), NEW req \in Nat, NEW p \in Fresh,
         Remaining(i, req, p) \in MemoryBlock,
         blocks' = InsertAfter(Taken(i, req), i, Remaining(i, req, p))
  PROVE  Pointers(blocks) \subseteq Pointers(blocks')
<1> DEFINE t == Taken(i, req)
           b == [blocks[i] EXCEPT !.size = req, !.is_allocated = TRUE]
           r == Remaining(i, req, p)
<1>1. blocks \in Seq(MemoryBlock) /\ Len(blocks) \in Nat /\ blocks[i] \in MemoryBlock
  BY BlockTypes DEF TypeOK
<1>2. /\ t \in Seq(MemoryBlock) /\ Len(t) = Len(blocks)
      /\ \A k \in 1 .. Len(blocks) : t[k].ptr = blocks[k].ptr
  <2>1. b \in MemoryBlock /\ b.ptr = blocks[i].ptr
    BY <1>1 DEF MemoryBlock
  <2>2. t = [blocks EXCEPT ![i] = b]
    BY DEF Taken
  <2> HIDE DEF b, t
  <2>3. /\ t \in Seq(MemoryBlock) /\ Len(t) = Len(blocks)
        /\ \A k \in 1 .. Len(blocks) : t[k] = IF k = i THEN b ELSE blocks[k]
    BY <1>1, <2>1, <2>2, ExceptSeq
  <2>4. QED
    BY <2>1, <2>3
<1>s. r \in MemoryBlock
  OBVIOUS
<1> HIDE DEF t, r
<1>3. /\ blocks' \in Seq(MemoryBlock) /\ Len(blocks') = Len(blocks) + 1
      /\ \A k \in 1 .. Len(blocks) + 1 :
           blocks'[k] = IF k <= i THEN t[k]
                        ELSE IF k = i + 1 THEN r ELSE t[k - 1]
  <2>1. blocks' = InsertAfter(t, i, r)
    BY DEF t, r
  <2>2. i \in 1 .. Len(t) /\ t \in Seq(MemoryBlock) /\ r \in MemoryBlock
    BY <1>2, <1>s
  <2>3. /\ blocks' \in Seq(MemoryBlock)
        /\ Len(blocks') = Len(t) + 1
        /\ \A k \in 1 .. Len(t) + 1 :
             blocks'[k] = IF k <= i THEN t[k] ELSE IF k = i + 1 THEN r ELSE t[k - 1]
    BY <2>1, <2>2, InsertAfterProperties
  <2>4. QED
    BY <1>2, <2>3
<1>p. /\ Pointers(blocks) = {blocks[k].ptr : k \in 1 .. Len(blocks)}
      /\ Pointers(blocks') = {blocks'[k].ptr : k \in 1 .. Len(blocks')}
  BY <1>1, <1>3, PointersByPlace
<1>4. SUFFICES ASSUME NEW k \in 1 .. Len(blocks)
               PROVE  \E l \in 1 .. Len(blocks') : blocks'[l].ptr = blocks[k].ptr
  BY <1>p
<1>5. CASE k <= i
  <2>1. k \in 1 .. Len(blocks) + 1 /\ k \in 1 .. Len(blocks')
    BY <1>1, <1>3
  <2>2. blocks'[k] = t[k]
    BY <1>3, <1>5, <2>1
  <2>3. QED
    BY <1>2, <2>1, <2>2
<1>6. CASE k > i
  <2>1. k + 1 \in 1 .. Len(blocks) + 1 /\ ~(k + 1 <= i) /\ k + 1 # i + 1 /\ (k + 1) - 1 = k
    BY <1>1, <1>6
  <2>2. blocks'[k + 1] = t[k]
    BY <1>3, <2>1
  <2>3. QED
    BY <1>2, <1>3, <2>1, <2>2
<1>7. QED
  BY <1>1, <1>5, <1>6

(* No call of allocate takes a block off the list.                         *)
LEMMA AllocateKeepsPointers ==
  ASSUME IInv, NEW n \in Sizes, allocate(n)
  PROVE  Pointers(blocks) \subseteq Pointers(blocks')
<1>1. CASE UNCHANGED blocks
  BY <1>1
<1>2. CASE \E i \in findBlock(RoundUp(n)) : prepBlock(i, RoundUp(n))
  <2> DEFINE req == RoundUp(n)
  <2>1. PICK i \in findBlock(req) : prepBlock(i, req)
    BY <1>2
  <2>2. /\ req \in Nat /\ req > 0 /\ i \in 1 .. Len(blocks) /\ blocks[i].size >= req
        /\ IsAligned(blocks[i].start_address)
        /\ RoundUp(blocks[i].start_address) = blocks[i].start_address
    BY FindBlockProperties
  <2>3. /\ Len(blocks) \in Nat /\ DOMAIN blocks = 1 .. Len(blocks)
        /\ blocks[i] \in MemoryBlock
        /\ blocks[i].start_address \in Nat /\ blocks[i].size \in Nat
    BY <2>2, BlockTypes DEF IInv
  <2> HIDE DEF req
  <2>4. CASE blocks[i].size > req
    <3>1. PICK p \in Fresh : blocks' = InsertAfter(Taken(i, req), i, Remaining(i, req, p))
      BY <2>1, <2>4, <2>2, <2>3 DEF prepBlock
    <3>2. Remaining(i, req, p) \in MemoryBlock
      BY <2>2, <2>3, <2>4 DEF Remaining, MemoryBlock, Fresh
    <3>3. QED
      BY <2>2, <3>1, <3>2, SplitKeepsPointers DEF IInv
  <2>5. CASE ~(blocks[i].size > req)
    <3>1. blocks' = Taken(i, req)
      BY <2>1, <2>5 DEF prepBlock
    <3>2. DOMAIN blocks' = DOMAIN blocks /\ \A k \in DOMAIN blocks : blocks'[k].ptr = blocks[k].ptr
      BY <2>3, <3>1, <2>2 DEF Taken, MemoryBlock, IInv, TypeOK
    <3>3. QED
      BY <3>2 DEF Pointers
  <2>6. QED
    BY <2>4, <2>5
<1>3. QED
  BY <1>1, <1>2 DEF allocate

(* The list after a merge, place by place.                                 *)
LEMMA MergedByPlace ==
  ASSUME TypeOK, NEW i \in 1 .. Len(blocks), NEW j \in i .. Len(blocks),
         NEW m \in MemoryBlock, blocks' = Collapse(blocks, i, j, m)
  PROVE  /\ blocks' \in Seq(MemoryBlock)
         /\ Len(blocks') = Len(blocks) - (j - i)
         /\ \A k \in 1 .. Len(blocks') :
              blocks'[k] = IF k < i THEN blocks[k] ELSE IF k = i THEN m ELSE blocks[k + (j - i)]
<1> DEFINE s == blocks
<1>1. s \in Seq(MemoryBlock) /\ i \in 1 .. Len(s) /\ j \in i .. Len(s) /\ m \in MemoryBlock
  BY DEF TypeOK
<1>2. LET t == Collapse(s, i, j, m) IN
      /\ t \in Seq(MemoryBlock)
      /\ Len(t) = Len(s) - (j - i)
      /\ \A k \in 1 .. Len(t) :
           t[k] = IF k < i THEN s[k] ELSE IF k = i THEN m ELSE s[k + (j - i)]
  <2> HIDE DEF s
  <2>1. QED
    BY <1>1, CollapseProperties
<1>3. QED
  BY <1>2

(* The merge takes those blocks off the list that follow the released one  *)
(* and no other.                                                           *)
LEMMA MergeDropsPointers ==
  ASSUME IInv, NEW i \in 1 .. Len(blocks), blocks[i].is_allocated,
         blocks' = Merged(i, LastMerged(i)), IInv'
  PROVE  Pointers(blocks') =
           Pointers(blocks) \ {blocks[k].ptr : k \in i + 1 .. LastMerged(i)}
<1> DEFINE n == Len(blocks)
           j == LastMerged(i)
           merged == [blocks[i] EXCEPT !.size = MergedSize(i, j), !.is_allocated = FALSE]
<1>1. /\ n \in Nat /\ DOMAIN blocks = 1 .. n /\ blocks \in Seq(MemoryBlock)
      /\ blocks[i] \in MemoryBlock
  BY BlockTypes DEF IInv, TypeOK
<1>2. j \in i .. n
  BY LastMergedProperties DEF IInv
<1>3. \A k, l \in 1 .. n : blocks[k].ptr = blocks[l].ptr => k = l
  BY DEF IInv, FreeListExact
<1>4. merged \in MemoryBlock /\ merged.ptr = blocks[i].ptr
  <2>1. /\ blocks[i].start_address \in Nat /\ blocks[i].size \in Nat
        /\ blocks[j].start_address \in Nat /\ blocks[j].size \in Nat
        /\ MergedSize(i, j) = End(blocks[j]) - blocks[i].start_address
    BY <1>1, <1>2, BlockTypes, MergedSizeIsDistance DEF IInv
  <2>2. blocks[i].start_address <= End(blocks[j])
    <3>1. i < j => End(blocks[i]) <= blocks[j].start_address
      BY <1>1, <1>2 DEF IInv, BlocksOrdered
    <3>2. i < j \/ i = j
      BY <1>1, <1>2
    <3>3. QED
      BY <2>1, <3>1, <3>2 DEF End
  <2>3. MergedSize(i, j) \in Nat
    BY <2>1, <2>2 DEF End
  <2>4. QED
    BY <1>1, <2>3 DEF MemoryBlock
<1>5. blocks' = Collapse(blocks, i, j, merged)
  BY DEF Merged
<1> HIDE DEF j, merged
<1>6. /\ Len(blocks') = n - (j - i) /\ blocks' \in Seq(MemoryBlock)
      /\ \A k \in 1 .. Len(blocks') :
           blocks'[k] = IF k < i THEN blocks[k] ELSE IF k = i THEN merged ELSE blocks[k + (j - i)]
  BY <1>1, <1>2, <1>4, <1>5, MergedByPlace DEF IInv
<1>7. Pointers(blocks) = {blocks[k].ptr : k \in 1 .. n}
  BY <1>1, PointersByPlace
<1>8. Pointers(blocks') = {blocks'[k].ptr : k \in 1 .. Len(blocks')}
  BY <1>6, PointersByPlace
<1>9. ASSUME NEW k \in 1 .. Len(blocks')
      PROVE  \E l \in (1 .. n) \ (i + 1 .. j) : blocks'[k].ptr = blocks[l].ptr
  <2>1. CASE k < i
    <3>1. k \in 1 .. n /\ k \notin i + 1 .. j
      BY <1>1, <1>2, <1>6, <2>1
    <3>2. blocks'[k] = blocks[k]
      BY <1>6, <2>1
    <3>3. QED
      BY <3>1, <3>2
  <2>2. CASE k = i
    <3>1. i \in (1 .. n) \ (i + 1 .. j)
      BY <1>1, <1>2
    <3>2. blocks'[k].ptr = blocks[i].ptr
      BY <1>4, <1>6, <2>2
    <3>3. QED
      BY <3>1, <3>2
  <2>3. CASE k > i
    <3>1. k + (j - i) \in 1 .. n /\ k + (j - i) \notin i + 1 .. j
      BY <1>1, <1>2, <1>6, <2>3
    <3>2. blocks'[k] = blocks[k + (j - i)]
      BY <1>1, <1>2, <1>6, <2>3
    <3>3. QED
      BY <3>1, <3>2
  <2>4. QED
    BY <1>1, <1>2, <2>1, <2>2, <2>3
<1>10. ASSUME NEW l \in (1 .. n) \ (i + 1 .. j)
       PROVE  \E k \in 1 .. Len(blocks') : blocks'[k].ptr = blocks[l].ptr
  <2>1. CASE l < i
    BY <1>1, <1>2, <1>6, <2>1
  <2>2. CASE l = i
    BY <1>1, <1>2, <1>4, <1>6, <2>2
  <2>3. CASE l > i
    <3>1. l > j
      BY <1>1, <1>2, <2>3
    <3>2. /\ l - (j - i) \in 1 .. Len(blocks') /\ ~(l - (j - i) < i) /\ l - (j - i) # i
          /\ (l - (j - i)) + (j - i) = l
      BY <1>1, <1>2, <1>6, <3>1
    <3>3. blocks'[l - (j - i)] = blocks[l]
      BY <1>6, <3>2
    <3>4. QED
      BY <3>2, <3>3
  <2>4. QED
    BY <1>1, <1>2, <2>1, <2>2, <2>3
<1>11. i + 1 .. j \subseteq 1 .. n
  BY <1>1, <1>2
<1>12. Pointers(blocks') = Pointers(blocks) \ {blocks[k].ptr : k \in i + 1 .. j}
  <2> DEFINE D == {blocks[m].ptr : m \in i + 1 .. j}
  <2>1. ASSUME NEW x \in Pointers(blocks') PROVE x \in Pointers(blocks) \ D
    <3>1. PICK k \in 1 .. Len(blocks') : x = blocks'[k].ptr
      BY <1>8
    <3>2. PICK l \in (1 .. n) \ (i + 1 .. j) : blocks'[k].ptr = blocks[l].ptr
      BY <1>9
    <3>3. blocks[l].ptr \notin D
      BY <1>3, <1>11
    <3>4. QED
      BY <1>7, <3>1, <3>2, <3>3
  <2>2. ASSUME NEW x \in Pointers(blocks) \ D PROVE x \in Pointers(blocks')
    <3>1. PICK l \in 1 .. n : x = blocks[l].ptr
      BY <1>7
    <3>2. l \in (1 .. n) \ (i + 1 .. j)
      BY <3>1
    <3>3. QED
      BY <1>8, <1>10, <3>1, <3>2
  <2> HIDE DEF D
  <2>3. Pointers(blocks') = Pointers(blocks) \ D
    BY <2>1, <2>2
  <2>4. QED
    BY <2>3 DEF D
<1>13. QED
  BY <1>12 DEF j

(* What deallocate frees is what it takes off the list.                    *)
LEMMA DeallocateFreesDropped ==
  ASSUME IInv, NEW a \in Addresses, deallocate(a), IInv'
  PROVE  Pointers(blocks') = Pointers(blocks) \ MergedAway(a)
<1>1. CASE \A i \in Found(a) : ~blocks[i].is_allocated
  <2>1. MergedAway(a) = {}
    BY <1>1 DEF MergedAway
  <2>2. UNCHANGED blocks
    BY <1>1 DEF deallocate
  <2>3. QED
    BY <2>1, <2>2
<1>2. CASE \E i \in Found(a) : blocks[i].is_allocated /\ blocks' = Merged(i, LastMerged(i))
  <2>1. PICK i \in Found(a) : blocks[i].is_allocated /\ blocks' = Merged(i, LastMerged(i))
    BY <1>2
  <2>2. DOMAIN blocks = 1 .. Len(blocks)
    BY DEF IInv, TypeOK
  <2>3. \A l \in Found(a) : l = i
    BY <2>2, StartsDistinct DEF Found
  <2>4. MergedAway(a) = {blocks[k].ptr : k \in i + 1 .. LastMerged(i)}
    <3>1. {f \in Found(a) : blocks[f].is_allocated} = {i}
      BY <2>1, <2>3
    <3>2. QED
      BY <3>1 DEF MergedAway
  <2>5. i \in 1 .. Len(blocks)
    BY <2>2 DEF Found
  <2>6. QED
    BY <2>1, <2>4, <2>5, MergeDropsPointers
<1>3. QED
  BY <1>1, <1>2 DEF deallocate

HInv == IInv /\ alive \in BOOLEAN /\ HeapExact

(* Pointers of the list are heap addresses.                                *)
LEMMA PointersInHeap == IInv => Pointers(blocks) \subseteq Ptr
BY BlockTypes DEF IInv, Pointers

(* The constructor owns the block it has made.                             *)
LEMMA GenerateHInv == generate => HInv
BY InitIInv DEF generate, HInv, HeapExact

(* Every call of a manager keeps the heap exact, the last one too.         *)
LEMMA HeapNextKeepsHInv == HInv /\ [HeapNext]_heapVars => HInv'
<1> SUFFICES ASSUME HInv, [HeapNext]_heapVars PROVE HInv'
  OBVIOUS
<1>1. IInv'
  BY HeapStepIsStep, NextKeepsIInv DEF HInv
<1>2. ASSUME NEW n \in Sizes, heapAllocate(n) PROVE HInv'
  <2>1. Pointers(blocks) \subseteq Pointers(blocks')
    BY <1>2, AllocateKeepsPointers DEF HInv, heapAllocate
  <2>2. \A p \in Ptr : owned'[p] = IF p \in Pointers(blocks') THEN 1 ELSE 0
    BY <1>2, <2>1 DEF HInv, HeapExact, heapAllocate, newOnSplit
  <2>3. QED
    BY <1>1, <1>2, <2>2 DEF HInv, HeapExact, heapAllocate
<1>3. ASSUME NEW a \in Addresses, heapDeallocate(a) PROVE HInv'
  <2>1. Pointers(blocks') = Pointers(blocks) \ MergedAway(a)
    BY <1>1, <1>3, DeallocateFreesDropped DEF HInv, heapDeallocate
  <2>2. MergedAway(a) \subseteq Pointers(blocks)
    <3>1. \A i \in Found(a) : i \in 1 .. Len(blocks) /\ LastMerged(i) \in i .. Len(blocks)
      BY LastMergedProperties, BlockTypes DEF HInv, IInv, TypeOK, Found
    <3>2. DOMAIN blocks = 1 .. Len(blocks) /\ Len(blocks) \in Nat
      BY DEF HInv, IInv, TypeOK
    <3>3. QED
      BY <3>1, <3>2 DEF MergedAway, Pointers
  <2>3. \A p \in Ptr : owned'[p] = IF p \in Pointers(blocks') THEN 1 ELSE 0
    BY <1>3, <2>1, <2>2 DEF HInv, HeapExact, heapDeallocate, Freed
  <2>4. QED
    BY <1>1, <1>3, <2>3 DEF HInv, HeapExact, heapDeallocate
<1>4. CASE free
  <2>1. alive /\ alive' = FALSE /\ owned' = Freed(Pointers(blocks))
    BY <1>4 DEF free
  <2>2. \A p \in Ptr : owned'[p] = 0
    BY <2>1 DEF HInv, HeapExact, Freed
  <2>3. HeapExact'
    BY <2>1, <2>2 DEF HeapExact
  <2>4. QED
    BY <1>1, <2>1, <2>3 DEF HInv
<1>5. CASE UNCHANGED heapVars
  BY <1>1, <1>5 DEF HInv, HeapExact, heapVars
<1>6. QED
  BY <1>2, <1>3, <1>4, <1>5 DEF HeapNext

(* A manager never loses a block nor frees one twice, and its end leaves   *)
(* nothing on the heap, whatever it was asked before.                      *)
THEOREM HeapAlwaysExact == HeapSpec => []HeapExact
<1>1. HInv => HeapExact
  BY DEF HInv
<1>2. QED
  BY <1>1, GenerateHInv, HeapNextKeepsHInv, PTL DEF HeapSpec
=============================================================================
