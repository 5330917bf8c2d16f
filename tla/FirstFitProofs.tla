--------------------------- MODULE FirstFitProofs ---------------------------
(***************************************************************************)
(* The Java allocator, for a space of any size, any requests and releases, *)
(* and any mask that rounds.                                               *)
(*                                                                         *)
(* That no free block lies before firstFree is kept because release pulls  *)
(* firstFree back when the released address is the smaller one: the order  *)
(* of addresses has to be the order of the list, and that rests on tiling  *)
(* and on starts that rounding leaves alone.                               *)
(***************************************************************************)
EXTENDS FirstFit, SequenceTheorems, WellFoundedInduction, TLAPS

IsAligned(n) == \E k \in Nat : n = k * Align

(* Each number up to that of the blocks is the id of one of them.          *)
IdsOK ==
  /\ \A i \in 1 .. Len(blocks) : blocks[i].id \in 1 .. Len(blocks)
  /\ \A i, j \in 1 .. Len(blocks) : blocks[i].id = blocks[j].id => i = j
  /\ \A n \in 1 .. Len(blocks) : \E i \in 1 .. Len(blocks) : blocks[i].id = n
  /\ firstFree \in 1 .. Len(blocks)

(* Blocks are in the order of their addresses, and inside the space.       *)
Ordered ==
  /\ \A i \in 1 .. Len(blocks) : End(blocks[i]) <= Total
  /\ \A i, j \in 1 .. Len(blocks) : i < j => End(blocks[i]) <= blocks[j].startAddress

StartsAligned == \A i \in 1 .. Len(blocks) : IsAligned(blocks[i].startAddress)

ListOK == blocks \in Seq(MemoryBlock) /\ Len(blocks) > 0

IInv ==
  /\ ListOK /\ IdsOK /\ BlocksTile /\ Ordered /\ StartsAligned /\ reply \in Reply
  /\ NoneBeforeFirst /\ RefusesOnlyWhenFull

-----------------------------------------------------------------------------
(* Rounding *)

LEMMA Least ==
  ASSUME NEW T, T \subseteq Nat, T # {}
  PROVE  \E n \in T : \A m \in T : n <= m
<1>1. PICK n \in T : \A m \in T : ~(<<m, n>> \in OpToRel(<, Nat))
  BY NatLessThanWellFounded, WFMin, Zenon
<1>2. \A m \in T : ~(m < n)
  BY <1>1 DEF OpToRel
<1> QED
  BY <1>2

LEMMA AlignIsNumber == Align \in Nat \ {0} /\ Mask = Align - 1
BY FirstFitAssumption DEF Align

LEMMA AlignedSum ==
  ASSUME NEW m \in Nat, NEW n \in Nat, IsAligned(m), IsAligned(n)
  PROVE  IsAligned(m + n)
<1>1. Align \in Nat \ {0}
  BY AlignIsNumber
<1>2. PICK k \in Nat, l \in Nat : m = k * Align /\ n = l * Align
  BY DEF IsAligned
<1>3. (k + l) * Align = k * Align + l * Align
  BY <1>1
<1> QED
  BY <1>2, <1>3 DEF IsAligned

(* What is asked for is at least one unit.                                 *)
LEMMA SizesRounded ==
  ASSUME MaskRounds, NEW n \in Sizes
  PROVE  RoundUp(n) \in Nat \ {0} /\ IsAligned(RoundUp(n))
<1>1. Align \in Nat \ {0} /\ Mask = Align - 1 /\ n \in Nat \ {0}
  BY AlignIsNumber, FirstFitAssumption
<1> DEFINE q == (n + Mask) \div Align
<1>2. RoundUp(n) = q * Align
  BY DEF MaskRounds
<1>3. q \in Nat \ {0}
  <2>1. n + Mask \in Nat /\ n + Mask >= Align
    BY <1>1
  <2> QED
    BY <1>1, <2>1, Z3
<1> HIDE DEF q
<1>4. q * Align \in Nat \ {0}
  BY <1>1, <1>3, Z3
<1> QED
  BY <1>2, <1>3, <1>4 DEF IsAligned

(* The start of a block is its own rounding.                               *)
LEMMA StartsRounded ==
  ASSUME MaskRounds, NEW n \in 0 .. Total, IsAligned(n)
  PROVE  RoundUp(n) = n
<1>1. Align \in Nat \ {0} /\ Mask = Align - 1
  BY AlignIsNumber
<1>2. PICK k \in Nat : n = k * Align
  BY DEF IsAligned
<1>3. (k * Align + (Align - 1)) \div Align = k
  BY <1>1, Z3
<1>4. RoundUp(n) = ((n + Mask) \div Align) * Align
  BY DEF MaskRounds
<1> QED
  BY <1>1, <1>2, <1>3, <1>4

-----------------------------------------------------------------------------
(* The list *)

LEMMA InsertAtProperties ==
  ASSUME NEW S, NEW s \in Seq(S), NEW i \in 1 .. Len(s), NEW e \in S
  PROVE  LET t == InsertAt(s, i + 1, e) IN
         /\ t \in Seq(S)
         /\ Len(t) = Len(s) + 1
         /\ \A k \in 1 .. Len(s) + 1 :
              t[k] = IF k <= i THEN s[k] ELSE IF k = i + 1 THEN e ELSE s[k - 1]
<1> DEFINE a == SubSeq(s, 1, (i + 1) - 1)
           c == SubSeq(s, i + 1, Len(s))
<1>1. Len(s) \in Nat /\ \A k \in 1 .. Len(s) : s[k] \in S
  BY LenProperties, ElementOfSeq
<1>2. (i + 1) - 1 = i
  BY <1>1
<1>3. /\ a \in Seq(S) /\ Len(a) = i
      /\ \A k \in 1 .. i : a[k] = s[k]
  BY <1>1, <1>2, SubSeqProperties
<1>4. /\ c \in Seq(S) /\ Len(c) = Len(s) - i
      /\ \A k \in 1 .. Len(s) - i : c[k] = s[i + k]
  BY <1>1, SubSeqProperties
<1>5. <<e>> \in Seq(S) /\ Len(<<e>>) = 1 /\ <<e>>[1] = e
  OBVIOUS
<1> DEFINE b == a \o <<e>>
<1> HIDE DEF a, c
<1>6. /\ b \in Seq(S) /\ Len(b) = i + 1
      /\ \A k \in 1 .. i + 1 : b[k] = IF k <= i THEN s[k] ELSE e
  BY <1>3, <1>5, ConcatProperties
<1> HIDE DEF b
<1>7. /\ b \o c \in Seq(S) /\ Len(b \o c) = Len(b) + Len(c)
      /\ \A k \in 1 .. Len(b) + Len(c) :
           (b \o c)[k] = IF k <= Len(b) THEN b[k] ELSE c[k - Len(b)]
  BY <1>4, <1>6, ConcatProperties
<1>8. Len(b) + Len(c) = Len(s) + 1
  BY <1>1, <1>4, <1>6
<1>9. ASSUME NEW k \in 1 .. Len(s) + 1
      PROVE  (b \o c)[k] = IF k <= i THEN s[k] ELSE IF k = i + 1 THEN e ELSE s[k - 1]
  <2>1. CASE k <= i + 1
    BY <2>1, <1>1, <1>6, <1>7, <1>8
  <2>2. CASE k > i + 1
    <3>1. k - (i + 1) \in 1 .. Len(s) - i /\ i + (k - (i + 1)) = k - 1
      BY <2>2, <1>1
    <3>2. (b \o c)[k] = c[k - (i + 1)]
      BY <2>2, <1>1, <1>6, <1>7, <1>8
    <3>3. c[k - (i + 1)] = s[i + (k - (i + 1))]
      BY <3>1, <1>4
    <3>4. ~(k <= i) /\ k # i + 1
      BY <2>2
    <3> QED
      BY <3>1, <3>2, <3>3, <3>4
  <2>3. k <= i + 1 \/ k > i + 1
    BY <1>1
  <2> QED
    BY <2>1, <2>2, <2>3, Zenon
<1>10. InsertAt(s, i + 1, e) = b \o c
  BY DEF InsertAt, a, b, c
<1> QED
  BY <1>7, <1>8, <1>9, <1>10

(* The place of firstFree.                                                 *)
LEMMA PlaceOfId ==
  ASSUME ListOK, IdsOK, NEW i \in 1 .. Len(blocks)
  PROVE  Place(blocks[i].id) = i
<1>1. DOMAIN blocks = 1 .. Len(blocks)
  BY DEF ListOK
<1>2. \A j \in 1 .. Len(blocks) : blocks[j].id = blocks[i].id => j = i
  BY DEF IdsOK
<1> QED
  BY <1>1, <1>2 DEF Place

LEMMA FirstFreePlace ==
  ASSUME ListOK, IdsOK
  PROVE  /\ Place(firstFree) \in 1 .. Len(blocks)
         /\ blocks[Place(firstFree)].id = firstFree
<1>1. PICK i \in 1 .. Len(blocks) : blocks[i].id = firstFree
  BY DEF IdsOK
<1>2. Place(blocks[i].id) = i
  BY PlaceOfId
<1> QED
  BY <1>1, <1>2

LEMMA TypeOfBlocks ==
  ASSUME NEW s \in Seq(MemoryBlock), NEW i \in 1 .. Len(s)
  PROVE  /\ s[i].id \in Nat \ {0} /\ s[i].startAddress \in Nat
         /\ s[i].size \in Nat /\ s[i].isAllocated \in BOOLEAN
         /\ End(s[i]) \in Nat
<1>1. s[i] \in MemoryBlock
  BY ElementOfSeq
<1> QED
  BY <1>1 DEF MemoryBlock, End

LEMMA BlockType ==
  ASSUME ListOK, NEW i \in 1 .. Len(blocks)
  PROVE  /\ blocks[i] \in MemoryBlock
         /\ blocks[i].id \in Nat \ {0} /\ blocks[i].startAddress \in Nat
         /\ blocks[i].size \in Nat /\ blocks[i].isAllocated \in BOOLEAN
         /\ End(blocks[i]) = blocks[i].startAddress + blocks[i].size
         /\ End(blocks[i]) \in Nat
<1>1. blocks[i] \in MemoryBlock
  BY DEF ListOK
<1> QED
  BY <1>1 DEF MemoryBlock, End

-----------------------------------------------------------------------------
(* allocate *)

(* The list a split makes, place by place.                                 *)
LEMMA SplitList ==
  ASSUME MaskRounds, ListOK, IdsOK, Ordered, StartsAligned,
         NEW req \in Nat \ {0}, NEW i \in 1 .. Len(blocks), Split(i, req)
  PROVE  /\ ListOK' /\ Len(blocks') = Len(blocks) + 1
         /\ \A k \in 1 .. i - 1 : blocks'[k] = blocks[k]
         /\ blocks'[i].id = blocks[i].id /\ blocks'[i].startAddress = blocks[i].startAddress
         /\ blocks'[i].size = req /\ blocks'[i].isAllocated
         /\ blocks'[i + 1].id = Len(blocks) + 1
         /\ blocks'[i + 1].startAddress = blocks[i].startAddress + req
         /\ blocks'[i + 1].size = blocks[i].size - req /\ ~blocks'[i + 1].isAllocated
         /\ \A k \in i + 2 .. Len(blocks) + 1 : blocks'[k] = blocks[k - 1]
<1> DEFINE N == Len(blocks)
           b == [blocks[i] EXCEPT !.size = req, !.isAllocated = TRUE]
           s == [blocks EXCEPT ![i] = b]
           r == Remaining(i, req)
<1>1. N \in Nat /\ i \in 1 .. N /\ blocks \in Seq(MemoryBlock)
  BY DEF ListOK
<1>2. /\ blocks[i] \in MemoryBlock /\ blocks[i].size > req
      /\ blocks[i].size \in Nat /\ blocks[i].startAddress \in Nat
  BY BlockType DEF Split
<1>3. /\ b \in MemoryBlock /\ b.id = blocks[i].id /\ b.startAddress = blocks[i].startAddress
      /\ b.size = req /\ b.isAllocated
  BY <1>2 DEF MemoryBlock
<1>4. RoundUp(blocks[i].startAddress) = blocks[i].startAddress
  <2>1. End(blocks[i]) <= Total /\ End(blocks[i]) = blocks[i].startAddress + blocks[i].size
    BY BlockType DEF Ordered
  <2>2. blocks[i].startAddress \in 0 .. Total /\ IsAligned(blocks[i].startAddress)
    BY <1>2, <2>1, FirstFitAssumption DEF StartsAligned
  <2> QED
    BY <2>2, StartsRounded
<1>5. r = [id |-> N + 1, startAddress |-> blocks[i].startAddress + req,
           size |-> blocks[i].size - req, isAllocated |-> FALSE]
  BY <1>4 DEF Remaining
<1>6. r \in MemoryBlock
  BY <1>1, <1>2, <1>5 DEF MemoryBlock
<1>7. blocks' = InsertAt(s, i + 1, r)
  <2>1. blocks' = InsertAt([blocks EXCEPT ![i].size = req, ![i].isAllocated = TRUE], i + 1, r)
    BY DEF Split
  <2>2. [blocks EXCEPT ![i].size = req, ![i].isAllocated = TRUE] = s
    BY <1>1, <1>2 DEF MemoryBlock
  <2> QED
    BY <2>1, <2>2
<1>8. /\ r.id = N + 1 /\ r.startAddress = blocks[i].startAddress + req
      /\ r.size = blocks[i].size - req /\ ~r.isAllocated
  BY <1>5
<1> HIDE DEF b, r
<1>9. s \in Seq(MemoryBlock) /\ Len(s) = N
      /\ \A k \in 1 .. N : s[k] = IF k = i THEN b ELSE blocks[k]
  BY <1>1, <1>3
<1> HIDE DEF s
<1>10. /\ blocks' \in Seq(MemoryBlock) /\ Len(blocks') = N + 1
       /\ \A k \in 1 .. N + 1 :
            blocks'[k] = IF k <= i THEN s[k] ELSE IF k = i + 1 THEN r ELSE s[k - 1]
  <2>1. i \in 1 .. Len(s)
    BY <1>1, <1>9
  <2>2. LET t == InsertAt(s, i + 1, r) IN
        /\ t \in Seq(MemoryBlock) /\ Len(t) = Len(s) + 1
        /\ \A k \in 1 .. Len(s) + 1 :
             t[k] = IF k <= i THEN s[k] ELSE IF k = i + 1 THEN r ELSE s[k - 1]
    BY <1>6, <1>9, <2>1, InsertAtProperties
  <2> QED
    BY <1>7, <1>9, <2>2
<1> HIDE DEF N
<1>11. ListOK'
  BY <1>1, <1>10 DEF ListOK
<1>12. \A k \in 1 .. i - 1 : blocks'[k] = blocks[k]
  BY <1>1, <1>9, <1>10
<1>13. blocks'[i] = b /\ blocks'[i + 1] = r
  BY <1>1, <1>9, <1>10
<1>14. \A k \in i + 2 .. N + 1 : blocks'[k] = blocks[k - 1]
  BY <1>1, <1>9, <1>10
<1> QED
  BY <1>3, <1>8, <1>10, <1>11, <1>12, <1>13, <1>14 DEF N

(* A split: the rest takes a new number, and is firstFree after its block. *)
LEMMA SplitKeeps ==
  ASSUME MaskRounds, IInv, NEW req \in Nat \ {0}, IsAligned(req),
         NEW i \in 1 .. Len(blocks), i >= Place(firstFree), Split(i, req)
  PROVE  /\ ListOK' /\ IdsOK' /\ BlocksTile' /\ Ordered' /\ StartsAligned'
         /\ NoneBeforeFirst'
<1> DEFINE N == Len(blocks)
           b(k) == blocks[k]
           c(k) == blocks'[k]
<1>1. ListOK /\ IdsOK /\ BlocksTile /\ Ordered /\ StartsAligned /\ NoneBeforeFirst
  BY DEF IInv
<1>2. /\ ListOK' /\ Len(blocks') = N + 1
      /\ \A k \in 1 .. i - 1 : c(k) = b(k)
      /\ c(i).id = b(i).id /\ c(i).startAddress = b(i).startAddress
      /\ c(i).size = req /\ c(i).isAllocated
      /\ c(i + 1).id = N + 1 /\ c(i + 1).startAddress = b(i).startAddress + req
      /\ c(i + 1).size = b(i).size - req /\ ~c(i + 1).isAllocated
      /\ \A k \in i + 2 .. N + 1 : c(k) = b(k - 1)
  BY <1>1, SplitList
<1>3. N \in Nat /\ i \in 1 .. N /\ N + 1 \in Nat
  BY <1>1 DEF ListOK
<1>4. \A k \in 1 .. N :
        /\ b(k).id \in Nat \ {0} /\ b(k).startAddress \in Nat /\ b(k).size \in Nat
        /\ End(b(k)) = b(k).startAddress + b(k).size
  BY <1>1, BlockType
<1>5. b(i).size > req
  BY DEF Split
<1> HIDE DEF b, c, N
<1>6. /\ \A k \in 1 .. i - 1 : End(c(k)) = End(b(k))
      /\ End(c(i)) = b(i).startAddress + req
      /\ End(c(i + 1)) = End(b(i))
      /\ \A k \in i + 2 .. N + 1 : End(c(k)) = End(b(k - 1))
  <2>1. \A k \in 1 .. i - 1 : End(c(k)) = End(b(k))
    BY <1>2
  <2>2. End(c(i)) = b(i).startAddress + req
    BY <1>2 DEF End
  <2>3. End(c(i + 1)) = (b(i).startAddress + req) + (b(i).size - req)
    BY <1>2 DEF End
  <2>4. End(c(i + 1)) = End(b(i))
    BY <1>3, <1>4, <2>3
  <2>5. \A k \in i + 2 .. N + 1 : End(c(k)) = End(b(k - 1))
    BY <1>2
  <2> QED
    BY <2>1, <2>2, <2>4, <2>5
<1>7. BlocksTile'
  <2>1. /\ b(1).startAddress = 0 /\ End(b(N)) = Total
        /\ \A k \in 1 .. N : b(k).size > 0
        /\ \A k \in 1 .. N - 1 : b(k + 1).startAddress = End(b(k))
    BY <1>1 DEF BlocksTile, b, N
  <2>2. c(1).startAddress = 0
    BY <1>2, <1>3, <2>1
  <2>3. End(c(N + 1)) = Total
    <3>1. CASE i = N
      BY <1>6, <2>1, <3>1
    <3>2. CASE i < N
      <4>1. N + 1 \in i + 2 .. N + 1 /\ (N + 1) - 1 = N
        BY <1>3, <3>2
      <4> QED
        BY <1>6, <2>1, <4>1
    <3> QED
      BY <1>3, <3>1, <3>2
  <2>4. ASSUME NEW k \in 1 .. N + 1 PROVE c(k).size > 0
    <3>1. k \in 1 .. i - 1 \/ k = i \/ k = i + 1 \/ k \in i + 2 .. N + 1
      BY <1>3
    <3>2. CASE k \in 1 .. i - 1
      BY <1>2, <1>3, <2>1, <3>2
    <3>3. CASE k = i \/ k = i + 1
      BY <1>2, <1>3, <1>4, <1>5, <3>3
    <3>4. CASE k \in i + 2 .. N + 1
      <4>1. k - 1 \in 1 .. N
        BY <1>3, <3>4
      <4> QED
        BY <1>2, <2>1, <3>4, <4>1
    <3> QED
      BY <3>1, <3>2, <3>3, <3>4
  <2>5. ASSUME NEW k \in 1 .. N PROVE c(k + 1).startAddress = End(c(k))
    <3>1. k + 1 \in 1 .. i - 1 \/ k + 1 = i \/ k = i \/ k = i + 1 \/ k \in i + 2 .. N
      BY <1>3
    <3>2. CASE k + 1 \in 1 .. i - 1
      <4>1. k \in 1 .. i - 1 /\ k \in 1 .. N - 1
        BY <1>3, <3>2
      <4> QED
        BY <1>2, <1>6, <2>1, <3>2, <4>1
    <3>3. CASE k + 1 = i
      <4>1. k \in 1 .. i - 1 /\ k \in 1 .. N - 1
        BY <1>3, <3>3
      <4> QED
        BY <1>2, <1>6, <2>1, <3>3, <4>1
    <3>4. CASE k = i
      BY <1>2, <1>6, <3>4
    <3>5. CASE k = i + 1
      <4>1. k + 1 \in i + 2 .. N + 1 /\ (k + 1) - 1 = i + 1 /\ i \in 1 .. N - 1
        BY <1>3, <3>5
      <4> QED
        BY <1>2, <1>6, <2>1, <3>5, <4>1
    <3>6. CASE k \in i + 2 .. N
      <4>1. k + 1 \in i + 2 .. N + 1 /\ (k + 1) - 1 = (k - 1) + 1 /\ k - 1 \in 1 .. N - 1
            /\ k \in i + 2 .. N + 1
        BY <1>3, <3>6
      <4>2. c(k + 1) = b((k - 1) + 1) /\ End(c(k)) = End(b(k - 1))
        BY <1>2, <1>6, <4>1
      <4> QED
        BY <2>1, <4>1, <4>2
    <3> QED
      BY <3>1, <3>2, <3>3, <3>4, <3>5, <3>6
  <2>6. (N + 1) - 1 = N
    BY <1>3
  <2> QED
    BY <1>2, <1>3, <2>2, <2>3, <2>4, <2>5, <2>6 DEF BlocksTile, c
<1> DEFINE old(k) == IF k <= i THEN k ELSE k - 1
<1>8. \A k \in 1 .. N + 1 :
        /\ old(k) \in 1 .. N
        /\ k # i + 1 => c(k).id = b(old(k)).id /\ c(k).startAddress = b(old(k)).startAddress
        /\ b(old(k)).startAddress <= c(k).startAddress
        /\ End(c(k)) <= End(b(old(k)))
  <2> SUFFICES ASSUME NEW k \in 1 .. N + 1
               PROVE  /\ old(k) \in 1 .. N
                      /\ k # i + 1 => c(k).id = b(old(k)).id
                                      /\ c(k).startAddress = b(old(k)).startAddress
                      /\ b(old(k)).startAddress <= c(k).startAddress
                      /\ End(c(k)) <= End(b(old(k)))
    OBVIOUS
  <2>1. k \in 1 .. i - 1 \/ k = i \/ k = i + 1 \/ k \in i + 2 .. N + 1
    BY <1>3
  <2>2. CASE k \in 1 .. i - 1
    <3>1. old(k) = k /\ k \in 1 .. N /\ c(k) = b(k) /\ End(c(k)) = End(b(k))
      BY <1>2, <1>3, <1>6, <2>2
    <3>2. End(b(k)) \in Nat /\ b(k).startAddress \in Nat
      BY <1>4, <3>1
    <3> QED
      BY <3>1, <3>2
  <2>3. CASE k = i
    BY <1>2, <1>3, <1>4, <1>5, <1>6, <2>3
  <2>4. CASE k = i + 1
    BY <1>2, <1>3, <1>4, <1>5, <1>6, <2>4
  <2>5. CASE k \in i + 2 .. N + 1
    <3>1. old(k) = k - 1 /\ k - 1 \in 1 .. N /\ c(k) = b(k - 1) /\ End(c(k)) = End(b(k - 1))
      BY <1>2, <1>3, <1>6, <2>5
    <3>2. End(b(k - 1)) \in Nat /\ b(k - 1).startAddress \in Nat
      BY <1>4, <3>1
    <3> QED
      BY <3>1, <3>2
  <2> QED
    BY <2>1, <2>2, <2>3, <2>4, <2>5
<1>9. Ordered'
  <2>1. /\ \A k \in 1 .. N : End(b(k)) <= Total
        /\ \A k, l \in 1 .. N : k < l => End(b(k)) <= b(l).startAddress
    BY <1>1 DEF Ordered, b, N
  <2>2. \A k \in 1 .. N : End(b(k)) \in Nat /\ b(k).startAddress \in Nat
    BY <1>4
  <2>3. \A k \in 1 .. N + 1 : End(c(k)) \in Nat /\ c(k).startAddress \in Nat
    BY <1>2, TypeOfBlocks DEF ListOK, c
  <2>4. ASSUME NEW k \in 1 .. N + 1, NEW l \in 1 .. N + 1, k < l
        PROVE  End(c(k)) <= c(l).startAddress
    <3>1. CASE k = i /\ l = i + 1
      BY <1>2, <1>6, <3>1, <2>3
    <3>2. CASE ~(k = i /\ l = i + 1)
      <4>1. old(k) < old(l)
        BY <1>3, <2>4, <3>2
      <4>2. old(k) \in 1 .. N /\ old(l) \in 1 .. N
        BY <1>8
      <4>3. End(b(old(k))) <= b(old(l)).startAddress
        BY <2>1, <4>1, <4>2
      <4>4. End(c(k)) <= End(b(old(k))) /\ b(old(l)).startAddress <= c(l).startAddress
        BY <1>8
      <4> HIDE DEF old
      <4> QED
        BY <2>2, <2>3, <4>2, <4>3, <4>4
    <3> QED
      BY <3>1, <3>2
  <2>5. ASSUME NEW k \in 1 .. N + 1 PROVE End(c(k)) <= Total
    <3>1. old(k) \in 1 .. N /\ End(c(k)) <= End(b(old(k)))
      BY <1>8
    <3> HIDE DEF old
    <3> QED
      BY <2>1, <2>2, <2>3, <3>1, FirstFitAssumption
  <2> QED
    BY <1>2, <2>4, <2>5 DEF Ordered, c
<1>10. StartsAligned'
  <2>1. \A k \in 1 .. N : IsAligned(b(k).startAddress)
    BY <1>1 DEF StartsAligned, b, N
  <2>2. IsAligned(c(i + 1).startAddress)
    BY <1>2, <1>3, <1>4, <2>1, AlignedSum
  <2>3. \A k \in 1 .. N + 1 : IsAligned(c(k).startAddress)
    BY <1>8, <2>1, <2>2
  <2> QED
    BY <1>2, <2>3 DEF StartsAligned, c
<1>11. firstFree' = IF b(i).id = firstFree THEN N + 1 ELSE firstFree
  BY DEF Split, b, N
<1>12. IdsOK'
  <2>1. /\ \A k \in 1 .. N : b(k).id \in 1 .. N
        /\ \A k, l \in 1 .. N : b(k).id = b(l).id => k = l
        /\ \A n \in 1 .. N : \E k \in 1 .. N : b(k).id = n
        /\ firstFree \in 1 .. N
    BY <1>1 DEF IdsOK, b, N
  <2>2. \A k \in 1 .. N + 1 : k # i + 1 => c(k).id \in 1 .. N
    BY <1>8, <2>1
  <2>3. \A k \in 1 .. N + 1 : c(k).id \in 1 .. N + 1
    BY <1>2, <1>3, <2>2
  <2>4. ASSUME NEW k \in 1 .. N + 1, NEW l \in 1 .. N + 1, c(k).id = c(l).id
        PROVE  k = l
    <3>1. CASE k = i + 1 \/ l = i + 1
      BY <1>2, <1>3, <2>2, <2>4, <3>1
    <3>2. CASE k # i + 1 /\ l # i + 1
      <4>1. old(k) = old(l)
        <5>1. old(k) \in 1 .. N /\ old(l) \in 1 .. N /\ b(old(k)).id = b(old(l)).id
          BY <1>8, <2>4, <3>2
        <5> HIDE DEF old
        <5> QED
          BY <2>1, <5>1
      <4> QED
        BY <1>3, <3>2, <4>1
    <3> QED
      BY <3>1, <3>2
  <2>5. ASSUME NEW n \in 1 .. N + 1 PROVE \E k \in 1 .. N + 1 : c(k).id = n
    <3>1. CASE n = N + 1
      <4>1. i + 1 \in 1 .. N + 1
        BY <1>3
      <4> QED
        BY <1>2, <3>1, <4>1
    <3>2. CASE n \in 1 .. N
      <4>1. PICK k \in 1 .. N : b(k).id = n
        BY <2>1, <3>2
      <4>2. CASE k <= i
        <5>1. k \in 1 .. N + 1 /\ k # i + 1 /\ old(k) = k
          BY <1>3, <4>2
        <5> QED
          BY <1>8, <4>1, <5>1
      <4>3. CASE k > i
        <5>1. k + 1 \in 1 .. N + 1 /\ k + 1 # i + 1 /\ old(k + 1) = k
          BY <1>3, <4>3
        <5> QED
          BY <1>8, <4>1, <5>1
      <4> QED
        BY <1>3, <4>2, <4>3
    <3> QED
      BY <1>3, <3>1, <3>2
  <2>6. firstFree' \in 1 .. N + 1
    BY <1>3, <1>11, <2>1
  <2> QED
    BY <1>2, <2>3, <2>4, <2>5, <2>6 DEF IdsOK, c
<1>13. NoneBeforeFirst'
  <2> DEFINE p == Place(firstFree)
             q == Place(firstFree)'
  <2>1. p \in 1 .. N /\ b(p).id = firstFree /\ p <= i
    BY <1>1, <1>3, FirstFreePlace DEF b, N
  <2>2. q \in 1 .. N + 1 /\ c(q).id = firstFree'
    <3>1. ListOK' /\ IdsOK' => Place(firstFree)' \in 1 .. Len(blocks')
                               /\ blocks'[Place(firstFree)'].id = firstFree'
      <4>1. ASSUME ListOK', IdsOK'
            PROVE  \A k \in 1 .. Len(blocks') :
                     blocks'[k].id = firstFree' => Place(firstFree)' = k
        <5>1. DOMAIN blocks' = 1 .. Len(blocks')
          BY <4>1 DEF ListOK
        <5> QED
          BY <4>1, <5>1 DEF Place, IdsOK
      <4>2. IdsOK' => \E k \in 1 .. Len(blocks') : blocks'[k].id = firstFree'
        BY DEF IdsOK
      <4> QED
        BY <4>1, <4>2
    <3> QED
      BY <1>2, <1>12, <3>1 DEF c
  <2> HIDE DEF p, q
  <2>3. \A k \in 1 .. N : k < p => b(k).isAllocated
    BY <1>1 DEF NoneBeforeFirst, b, N, p
  <2>4. \A k, l \in 1 .. N + 1 : c(k).id = c(l).id => k = l
    BY <1>2, <1>12 DEF IdsOK, c
  <2>5. CASE b(i).id = firstFree
    <3>1. p = i
      BY <1>1, <1>3, <2>1, <2>5 DEF IdsOK, b, N
    <3>2. q = i + 1
      <4>1. c(q).id = c(i + 1).id /\ i + 1 \in 1 .. N + 1
        BY <1>2, <1>3, <1>11, <2>2, <2>5
      <4> QED
        BY <2>2, <2>4, <4>1
    <3>3. \A k \in 1 .. N + 1 : k < q => c(k).isAllocated
      BY <1>2, <1>3, <2>3, <3>1, <3>2
    <3> QED
      BY <1>2, <3>3 DEF NoneBeforeFirst, c, q
  <2>6. CASE b(i).id # firstFree
    <3>1. p < i
      BY <1>3, <2>1, <2>6
    <3>2. q = p
      <4>1. c(p) = b(p) /\ p \in 1 .. N + 1
        BY <1>2, <1>3, <2>1, <3>1
      <4> QED
        BY <1>11, <2>1, <2>2, <2>4, <2>6, <4>1
    <3>3. \A k \in 1 .. N + 1 : k < q => c(k).isAllocated
      BY <1>2, <1>3, <2>1, <2>3, <3>1, <3>2
    <3> QED
      BY <1>2, <3>3 DEF NoneBeforeFirst, c, q
  <2> QED
    BY <2>5, <2>6
<1> QED
  BY <1>2, <1>7, <1>9, <1>10, <1>12, <1>13

-----------------------------------------------------------------------------
(* Blocks taken whole, and release *)

(* Reserving or releasing a block moves none.                              *)
LEMMA FlagChanged ==
  ASSUME IInv, NEW i \in 1 .. Len(blocks), NEW f \in BOOLEAN,
         blocks' = [blocks EXCEPT ![i].isAllocated = f],
         firstFree' \in 1 .. Len(blocks)
  PROVE  /\ ListOK' /\ Len(blocks') = Len(blocks)
         /\ \A k \in 1 .. Len(blocks) :
              /\ blocks'[k].id = blocks[k].id
              /\ blocks'[k].startAddress = blocks[k].startAddress
              /\ blocks'[k].size = blocks[k].size
              /\ blocks'[k].isAllocated = IF k = i THEN f ELSE blocks[k].isAllocated
         /\ IdsOK' /\ BlocksTile' /\ Ordered' /\ StartsAligned'
<1> DEFINE N == Len(blocks)
           b == [blocks[i] EXCEPT !.isAllocated = f]
<1>1. /\ ListOK /\ IdsOK /\ BlocksTile /\ Ordered /\ StartsAligned
      /\ N \in Nat /\ N > 0 /\ blocks \in Seq(MemoryBlock)
  BY DEF IInv, ListOK
<1>2. b \in MemoryBlock /\ b.id = blocks[i].id /\ b.startAddress = blocks[i].startAddress
      /\ b.size = blocks[i].size /\ b.isAllocated = f
  <2>1. blocks[i] \in MemoryBlock
    BY <1>1, BlockType
  <2> QED
    BY <2>1 DEF MemoryBlock
<1>3. blocks' = [blocks EXCEPT ![i] = b]
  <2>1. blocks[i] \in MemoryBlock
    BY <1>1, BlockType
  <2> QED
    BY <1>1, <2>1 DEF MemoryBlock
<1> HIDE DEF b
<1>4. blocks' \in Seq(MemoryBlock) /\ Len(blocks') = N
      /\ \A k \in 1 .. N : blocks'[k] = IF k = i THEN b ELSE blocks[k]
  BY <1>1, <1>2, <1>3
<1>5. \A k \in 1 .. N :
        /\ blocks'[k].id = blocks[k].id
        /\ blocks'[k].startAddress = blocks[k].startAddress
        /\ blocks'[k].size = blocks[k].size
        /\ blocks'[k].isAllocated = IF k = i THEN f ELSE blocks[k].isAllocated
  BY <1>2, <1>4
<1> HIDE DEF N
<1>6. \A k \in 1 .. N : End(blocks'[k]) = End(blocks[k])
  BY <1>5 DEF End
<1>7. ListOK'
  BY <1>1, <1>4 DEF ListOK
<1>8. IdsOK'
  <2>1. /\ \A k \in 1 .. N : blocks[k].id \in 1 .. N
        /\ \A k, l \in 1 .. N : blocks[k].id = blocks[l].id => k = l
        /\ \A n \in 1 .. N : \E k \in 1 .. N : blocks[k].id = n
    BY <1>1 DEF IdsOK, N
  <2>2. /\ \A k \in 1 .. N : blocks'[k].id \in 1 .. N
        /\ \A k, l \in 1 .. N : blocks'[k].id = blocks'[l].id => k = l
        /\ \A n \in 1 .. N : \E k \in 1 .. N : blocks'[k].id = n
        /\ firstFree' \in 1 .. N
    BY <1>5, <2>1 DEF N
  <2> QED
    BY <1>4, <2>2 DEF IdsOK
<1>9. BlocksTile'
  <2>1. /\ blocks[1].startAddress = 0 /\ End(blocks[N]) = Total
        /\ \A k \in 1 .. N : blocks[k].size > 0
        /\ \A k \in 1 .. N - 1 : blocks[k + 1].startAddress = End(blocks[k])
    BY <1>1 DEF BlocksTile, N
  <2>2. /\ blocks'[1].startAddress = 0 /\ End(blocks'[N]) = Total
        /\ \A k \in 1 .. N : blocks'[k].size > 0
    BY <1>1, <1>5, <1>6, <2>1
  <2>3. \A k \in 1 .. N - 1 : k \in 1 .. N /\ k + 1 \in 1 .. N
    BY <1>1
  <2>4. \A k \in 1 .. N - 1 : blocks'[k + 1].startAddress = End(blocks'[k])
    BY <1>5, <1>6, <2>1, <2>3
  <2> QED
    BY <1>4, <2>2, <2>4 DEF BlocksTile
<1>10. Ordered'
  <2>1. /\ \A k \in 1 .. N : End(blocks[k]) <= Total
        /\ \A k, l \in 1 .. N : k < l => End(blocks[k]) <= blocks[l].startAddress
    BY <1>1 DEF Ordered, N
  <2>2. /\ \A k \in 1 .. N : End(blocks'[k]) <= Total
        /\ \A k, l \in 1 .. N : k < l => End(blocks'[k]) <= blocks'[l].startAddress
    BY <1>5, <1>6, <2>1
  <2> QED
    BY <1>4, <2>2 DEF Ordered
<1>11. StartsAligned'
  <2>1. \A k \in 1 .. N : IsAligned(blocks[k].startAddress)
    BY <1>1 DEF StartsAligned, N
  <2>2. \A k \in 1 .. N : IsAligned(blocks'[k].startAddress)
    BY <1>5, <2>1
  <2> QED
    BY <1>4, <2>2 DEF StartsAligned
<1> QED
  BY <1>4, <1>5, <1>7, <1>8, <1>9, <1>10, <1>11 DEF N

(* The place of firstFree after a step that moves no block.                *)
LEMMA PlaceAfter ==
  ASSUME ListOK', IdsOK', NEW i \in 1 .. Len(blocks'), blocks'[i].id = firstFree'
  PROVE  Place(firstFree)' = i
<1>1. DOMAIN blocks' = 1 .. Len(blocks')
  BY DEF ListOK
<1>2. \A j \in 1 .. Len(blocks') : blocks'[j].id = firstFree' => j = i
  BY DEF IdsOK
<1> QED
  BY <1>1, <1>2 DEF Place

(* A block before firstFree is reserved already; firstFree passes only what*)
(* is.                                                                     *)
LEMMA TakeKeeps ==
  ASSUME IInv, NEW i \in 1 .. Len(blocks), i >= Place(firstFree), Take(i), ~NoNext(i)
  PROVE  /\ ListOK' /\ IdsOK' /\ BlocksTile' /\ Ordered' /\ StartsAligned'
         /\ NoneBeforeFirst'
<1> DEFINE N == Len(blocks)
           p == Place(firstFree)
<1>1. ListOK /\ IdsOK /\ NoneBeforeFirst /\ N \in Nat
  BY DEF IInv, ListOK
<1>2. p \in 1 .. N /\ blocks[p].id = firstFree
  BY <1>1, FirstFreePlace
<1>3. /\ blocks' = [blocks EXCEPT ![i].isAllocated = TRUE]
      /\ \/ firstFree' = firstFree
         \/ /\ blocks[i].id = firstFree /\ i \in 1 .. N - 1
            /\ blocks[i + 1].isAllocated /\ firstFree' = blocks[i + 1].id
  BY <1>1 DEF Take, NoNext
<1>4. firstFree' \in 1 .. N
  <2>1. \A k \in 1 .. N : blocks[k].id \in 1 .. N
    BY <1>1 DEF IdsOK
  <2> QED
    BY <1>1, <1>2, <1>3, <2>1
<1>5. /\ ListOK' /\ IdsOK' /\ BlocksTile' /\ Ordered' /\ StartsAligned' /\ Len(blocks') = N
      /\ \A k \in 1 .. N :
           /\ blocks'[k].id = blocks[k].id
           /\ blocks'[k].isAllocated = IF k = i THEN TRUE ELSE blocks[k].isAllocated
  BY <1>3, <1>4, FlagChanged
<1>6. \A k \in 1 .. N : k < p => blocks[k].isAllocated
  BY <1>1 DEF NoneBeforeFirst
<1>7. CASE firstFree' = firstFree
  <2>1. Place(firstFree)' = p
    BY <1>2, <1>5, <1>7, PlaceAfter
  <2> QED
    BY <1>5, <1>6, <2>1 DEF NoneBeforeFirst
<1>8. CASE /\ blocks[i].id = firstFree /\ i \in 1 .. N - 1
           /\ blocks[i + 1].isAllocated /\ firstFree' = blocks[i + 1].id
  <2>1. i + 1 \in 1 .. N
    BY <1>1, <1>8
  <2>2. Place(firstFree)' = i + 1
    BY <1>5, <1>8, <2>1, PlaceAfter
  <2>3. p = i
    BY <1>1, <1>2, <1>8 DEF IdsOK
  <2>4. \A k \in 1 .. N : k < i + 1 => k = i \/ k < p
    BY <2>1, <2>3
  <2>5. \A k \in 1 .. N : k < i + 1 => blocks'[k].isAllocated
    BY <1>5, <1>6, <2>4
  <2> QED
    BY <1>5, <2>2, <2>5 DEF NoneBeforeFirst
<1> QED
  BY <1>3, <1>5, <1>7, <1>8

(* A block released before firstFree becomes it: of two blocks the one with*)
(* the smaller address is the earlier one in the list.                     *)
LEMMA ReleaseKeeps ==
  ASSUME IInv, NEW i \in 1 .. Len(blocks),
         blocks' = [blocks EXCEPT ![i].isAllocated = FALSE], firstFree' = Earlier(i)
  PROVE  /\ ListOK' /\ IdsOK' /\ BlocksTile' /\ Ordered' /\ StartsAligned'
         /\ NoneBeforeFirst'
<1> DEFINE N == Len(blocks)
           p == Place(firstFree)
<1>1. ListOK /\ IdsOK /\ NoneBeforeFirst /\ Ordered /\ BlocksTile /\ N \in Nat
  BY DEF IInv, ListOK
<1>2. p \in 1 .. N /\ blocks[p].id = firstFree
  BY <1>1, FirstFreePlace
<1>3. firstFree' = IF blocks[i].startAddress < blocks[p].startAddress
                     THEN blocks[i].id ELSE firstFree
  BY DEF Earlier
<1>4. firstFree' \in 1 .. N
  <2>1. \A k \in 1 .. N : blocks[k].id \in 1 .. N
    BY <1>1 DEF IdsOK
  <2> QED
    BY <1>2, <1>3, <2>1
<1>5. /\ ListOK' /\ IdsOK' /\ BlocksTile' /\ Ordered' /\ StartsAligned' /\ Len(blocks') = N
      /\ \A k \in 1 .. N :
           /\ blocks'[k].id = blocks[k].id
           /\ blocks'[k].isAllocated = IF k = i THEN FALSE ELSE blocks[k].isAllocated
  BY <1>4, FlagChanged
<1>6. \A k \in 1 .. N : k < p => blocks[k].isAllocated
  BY <1>1 DEF NoneBeforeFirst
<1>7. i < p <=> blocks[i].startAddress < blocks[p].startAddress
  <2>1. \A k, l \in 1 .. N : k < l => blocks[k].startAddress < blocks[l].startAddress
    <3> SUFFICES ASSUME NEW k \in 1 .. N, NEW l \in 1 .. N, k < l
                 PROVE  blocks[k].startAddress < blocks[l].startAddress
      OBVIOUS
    <3>1. End(blocks[k]) <= blocks[l].startAddress
      BY <1>1 DEF Ordered
    <3>2. blocks[k].size > 0
      BY <1>1 DEF BlocksTile
    <3>3. /\ blocks[k].startAddress \in Nat /\ blocks[k].size \in Nat
          /\ End(blocks[k]) = blocks[k].startAddress + blocks[k].size
          /\ blocks[l].startAddress \in Nat
      BY <1>1, BlockType
    <3> QED
      BY <3>1, <3>2, <3>3
  <2>2. blocks[i].startAddress \in Nat /\ blocks[p].startAddress \in Nat
    BY <1>1, <1>2, BlockType
  <2>3. i < p \/ i = p \/ p < i
    BY <1>2
  <2> HIDE DEF p
  <2>4. CASE i < p
    BY <1>2, <2>1, <2>4
  <2>5. CASE i = p
    BY <2>2, <2>5
  <2>6. CASE p < i
    <3>1. blocks[p].startAddress < blocks[i].startAddress
      BY <1>2, <2>1, <2>6
    <3> QED
      BY <1>2, <2>2, <2>6, <3>1
  <2> QED
    BY <2>3, <2>4, <2>5, <2>6
<1>8. CASE i < p
  <2>1. firstFree' = blocks[i].id
    BY <1>3, <1>7, <1>8
  <2>2. Place(firstFree)' = i
    BY <1>5, <2>1, PlaceAfter
  <2>3. \A k \in 1 .. N : k < i => k < p /\ k # i
    BY <1>2, <1>8
  <2>4. \A k \in 1 .. N : k < i => blocks'[k].isAllocated
    BY <1>5, <1>6, <2>3
  <2> QED
    BY <1>5, <2>2, <2>4 DEF NoneBeforeFirst
<1>9. CASE ~(i < p)
  <2>1. firstFree' = firstFree
    BY <1>3, <1>7, <1>9
  <2>2. Place(firstFree)' = p
    BY <1>2, <1>5, <2>1, PlaceAfter
  <2>3. \A k \in 1 .. N : k < p => k # i
    BY <1>9
  <2>4. \A k \in 1 .. N : k < p => blocks'[k].isAllocated
    BY <1>5, <1>6, <2>3
  <2> QED
    BY <1>5, <2>2, <2>4 DEF NoneBeforeFirst
<1> QED
  BY <1>5, <1>8, <1>9

-----------------------------------------------------------------------------
(* The theorems *)

LEMMA InitInv == Init => IInv
<1> SUFFICES ASSUME Init PROVE IInv
  OBVIOUS
<1> DEFINE b == [id |-> 1, startAddress |-> 0, size |-> Total, isAllocated |-> FALSE]
<1>1. blocks = <<b>> /\ firstFree = 1 /\ reply = Answer("none", 0, 0)
  BY DEF Init
<1>2. /\ b \in MemoryBlock /\ b.id = 1 /\ b.startAddress = 0 /\ b.size = Total
      /\ End(b) = Total /\ Total \in Nat \ {0}
  BY FirstFitAssumption DEF MemoryBlock, End
<1> HIDE DEF b
<1>3. Len(blocks) = 1 /\ blocks[1] = b /\ blocks \in Seq(MemoryBlock)
  BY <1>1, <1>2
<1>4. \A k \in 1 .. Len(blocks) : k = 1
  BY <1>3
<1>5. ListOK /\ IdsOK
  BY <1>1, <1>2, <1>3, <1>4 DEF ListOK, IdsOK
<1>6. BlocksTile /\ Ordered
  BY <1>2, <1>3, <1>4 DEF BlocksTile, Ordered
<1>7. StartsAligned
  <2>1. IsAligned(0)
    BY AlignIsNumber DEF IsAligned
  <2> QED
    BY <1>2, <1>3, <1>4, <2>1 DEF StartsAligned
<1>8. NoneBeforeFirst
  <2>1. Place(firstFree) = 1
    BY <1>1, <1>2, <1>3, <1>5, PlaceOfId
  <2> QED
    BY <1>4, <2>1 DEF NoneBeforeFirst
<1>9. RefusesOnlyWhenFull /\ reply \in Reply
  BY <1>1 DEF RefusesOnlyWhenFull, Reply, Answer
<1> QED
  BY <1>5, <1>6, <1>7, <1>8, <1>9 DEF IInv

(* What firstFree skips is reserved, so that a search from there finds what*)
(* a search of the whole list would.                                       *)
LEMMA AllocateKeeps ==
  ASSUME MaskRounds, IInv, NEW n \in Sizes, allocate(n)
  PROVE  IInv'
<1> DEFINE req == RoundUp(n)
<1>1. req \in Nat \ {0} /\ IsAligned(req) /\ n \in Nat \ {0}
  BY SizesRounded, FirstFitAssumption
<1>2. /\ ListOK /\ IdsOK /\ BlocksTile /\ Ordered /\ StartsAligned /\ NoneBeforeFirst
      /\ DOMAIN blocks = 1 .. Len(blocks) /\ Len(blocks) \in Nat
  BY DEF IInv, ListOK
<1> HIDE DEF req
<1>3. CASE /\ findBlock(req) = {} /\ reply' = Answer("allocate", n, -1)
           /\ UNCHANGED <<blocks, firstFree>>
  <2>1. Fitting(req) = {}
    <3> SUFFICES ASSUME NEW m \in Fitting(req) PROVE FALSE
      OBVIOUS
    <3>1. Fitting(req) \subseteq 1 .. Len(blocks)
      BY <1>2 DEF Fitting
    <3>2. PICK k \in Fitting(req) : \A l \in Fitting(req) : k <= l
      <4> DEFINE T == Fitting(req)
      <4>1. T \subseteq Nat /\ T # {}
        BY <1>2, <3>1
      <4> HIDE DEF T
      <4>2. \E k \in T : \A l \in T : k <= l
        BY <4>1, Least
      <4> QED
        BY <4>2 DEF T
    <3>3. k \in findBlock(req)
      BY <3>2 DEF findBlock
    <3> QED
      BY <1>3, <3>3
  <2>2. \A k \in 1 .. Len(blocks) : blocks[k].isAllocated \/ blocks[k].size < req
    <3> SUFFICES ASSUME NEW k \in 1 .. Len(blocks), ~blocks[k].isAllocated,
                        ~(blocks[k].size < req)
                 PROVE  FALSE
      OBVIOUS
    <3>1. Place(firstFree) \in 1 .. Len(blocks) /\ ~(k < Place(firstFree))
      BY <1>2, FirstFreePlace DEF NoneBeforeFirst
    <3>2. k >= Place(firstFree) /\ blocks[k].size >= req
      BY <1>1, <1>2, <3>1, BlockType
    <3>3. k \in Fitting(req)
      BY <1>2, <3>2 DEF Fitting
    <3> QED
      BY <2>1, <3>3
  <2>3. RefusesOnlyWhenFull'
    <3>1. reply'.arg = n /\ blocks' = blocks
      BY <1>3 DEF Answer
    <3>2. RoundUp(reply'.arg) = req
      BY <3>1 DEF req
    <3> QED
      BY <2>2, <3>1, <3>2 DEF RefusesOnlyWhenFull
  <2>4. reply' \in Reply
    BY <1>1, <1>3 DEF Reply, Answer
  <2>5. blocks' = blocks /\ firstFree' = firstFree
    BY <1>3
  <2>6. ListOK' /\ IdsOK' /\ BlocksTile' /\ Ordered' /\ StartsAligned' /\ NoneBeforeFirst'
    BY <1>2, <2>5 DEF ListOK, IdsOK, BlocksTile, Ordered, StartsAligned, NoneBeforeFirst, Place
  <2> QED
    BY <2>3, <2>4, <2>6 DEF IInv
<1>4. ASSUME NEW i \in findBlock(req),
             \/ Split(i, req) /\ reply' = Answer("allocate", n, RoundUp(blocks[i].startAddress))
             \/ /\ blocks[i].size = req /\ ~NoNext(i) /\ Take(i)
                /\ reply' = Answer("allocate", n, RoundUp(blocks[i].startAddress))
      PROVE  IInv'
  <2>1. i \in 1 .. Len(blocks) /\ i >= Place(firstFree)
    BY <1>2 DEF findBlock, Fitting
  <2>2. /\ ListOK' /\ IdsOK' /\ BlocksTile' /\ Ordered' /\ StartsAligned'
        /\ NoneBeforeFirst'
    BY <1>1, <1>4, <2>1, SplitKeeps, TakeKeeps
  <2>3. RoundUp(blocks[i].startAddress) \in Nat
    <3>1. /\ End(blocks[i]) <= Total /\ End(blocks[i]) = blocks[i].startAddress + blocks[i].size
          /\ blocks[i].startAddress \in Nat /\ blocks[i].size \in Nat
      BY <1>2, <2>1, BlockType DEF Ordered
    <3>2. blocks[i].startAddress \in 0 .. Total /\ IsAligned(blocks[i].startAddress)
      BY <1>2, <2>1, <3>1, FirstFitAssumption DEF StartsAligned
    <3> QED
      BY <3>1, <3>2, StartsRounded
  <2>4. reply' \in Reply /\ RefusesOnlyWhenFull'
    <3> DEFINE a == RoundUp(blocks[i].startAddress)
    <3>1. reply' = Answer("allocate", n, a) /\ a \in Nat /\ n \in Int
      BY <1>1, <1>4, <2>3
    <3> HIDE DEF a
    <3>2. reply' \in Reply /\ reply'.value # -1
      BY <3>1 DEF Answer, Reply
    <3> QED
      BY <3>2 DEF RefusesOnlyWhenFull
  <2> QED
    BY <2>2, <2>4 DEF IInv
<1>5. CASE /\ reply' = [op |-> "allocate", arg |-> n, value |-> 0, threw |-> TRUE]
           /\ UNCHANGED <<blocks, firstFree>>
  <2>1. blocks' = blocks /\ firstFree' = firstFree
    BY <1>5
  <2>2. ListOK' /\ IdsOK' /\ BlocksTile' /\ Ordered' /\ StartsAligned' /\ NoneBeforeFirst'
    BY <1>2, <2>1 DEF ListOK, IdsOK, BlocksTile, Ordered, StartsAligned, NoneBeforeFirst, Place
  <2>3. RefusesOnlyWhenFull' /\ reply' \in Reply
    BY <1>1, <1>5 DEF RefusesOnlyWhenFull, Reply
  <2> QED
    BY <2>2, <2>3 DEF IInv
<1>6. \/ /\ findBlock(req) = {} /\ reply' = Answer("allocate", n, -1)
         /\ UNCHANGED <<blocks, firstFree>>
      \/ \E i \in findBlock(req) :
           \/ Split(i, req) /\ reply' = Answer("allocate", n, RoundUp(blocks[i].startAddress))
           \/ /\ blocks[i].size = req /\ ~NoNext(i) /\ Take(i)
              /\ reply' = Answer("allocate", n, RoundUp(blocks[i].startAddress))
           \/ /\ reply' = [op |-> "allocate", arg |-> n, value |-> 0, threw |-> TRUE]
              /\ UNCHANGED <<blocks, firstFree>>
  BY DEF allocate, req
<1> QED
  BY <1>3, <1>4, <1>5, <1>6

LEMMA ReleaseStepKeeps ==
  ASSUME IInv, NEW a \in Addresses, release(a)
  PROVE  IInv'
<1>1. /\ ListOK /\ IdsOK /\ BlocksTile /\ Ordered /\ StartsAligned /\ NoneBeforeFirst
      /\ DOMAIN blocks = 1 .. Len(blocks) /\ a \in Int
  BY FirstFitAssumption DEF IInv, ListOK
<1>2. reply' = Answer("release", a, 0) \/ reply' = Answer("release", a, 1)
  BY DEF release
<1>3. reply' \in Reply /\ RefusesOnlyWhenFull'
  <2>1. ASSUME NEW v \in {0, 1}, reply' = Answer("release", a, v)
        PROVE  reply' \in Reply /\ reply'.op = "release"
    <3>1. a \in Int /\ v \in Int
      BY <1>1
    <3> QED
      BY <2>1, <3>1 DEF Reply, Answer
  <2>2. reply' \in Reply /\ reply'.op = "release"
    BY <1>2, <2>1
  <2> QED
    BY <2>2 DEF RefusesOnlyWhenFull
<1>4. CASE UNCHANGED <<blocks, firstFree>>
  <2>1. ListOK' /\ IdsOK' /\ BlocksTile' /\ Ordered' /\ StartsAligned' /\ NoneBeforeFirst'
    BY <1>1, <1>4 DEF ListOK, IdsOK, BlocksTile, Ordered, StartsAligned, NoneBeforeFirst, Place
  <2> QED
    BY <1>3, <2>1 DEF IInv
<1>5. ASSUME NEW i \in Found(a), blocks' = [blocks EXCEPT ![i].isAllocated = FALSE],
             firstFree' = Earlier(i)
      PROVE  IInv'
  <2>1. i \in 1 .. Len(blocks)
    BY <1>1 DEF Found
  <2> QED
    BY <1>3, <1>5, <2>1, ReleaseKeeps DEF IInv
<1> QED
  BY <1>4, <1>5 DEF release

(* The invariant of the list and of its shortcut, for every mask that      *)
(* rounds.                                                                 *)
THEOREM Invariance ==
  ASSUME MaskRounds
  PROVE  Spec => []IInv
<1>1. IInv /\ [Next]_vars => IInv'
  <2> SUFFICES ASSUME IInv, [Next]_vars PROVE IInv'
    OBVIOUS
  <2>1. ASSUME NEW n \in Sizes, allocate(n) PROVE IInv'
    BY <2>1, AllocateKeeps
  <2>2. ASSUME NEW a \in Addresses, release(a) PROVE IInv'
    BY <2>2, ReleaseStepKeeps
  <2>3. CASE UNCHANGED vars
    <3>1. blocks' = blocks /\ firstFree' = firstFree /\ reply' = reply
      BY <2>3 DEF vars
    <3> QED
      BY <3>1 DEF IInv, ListOK, IdsOK, BlocksTile, Ordered, StartsAligned, NoneBeforeFirst,
                  RefusesOnlyWhenFull, Place
  <2> QED
    BY <2>1, <2>2, <2>3 DEF Next
<1> QED
  BY <1>1, InitInv, PTL DEF Spec

(* allocate and release always leave a list that cuts the whole space into *)
(* blocks without gap or overlap (BlocksTile), when the mask rounds.       *)
THEOREM AlwaysTiled ==
  ASSUME MaskRounds
  PROVE  Spec => []BlocksTile
<1>1. IInv => BlocksTile
  BY DEF IInv
<1> QED
  BY <1>1, Invariance, PTL

(* firstFree never passes a free block (NoneBeforeFirst), however blocks   *)
(* are taken and released: prepBlock and release.                          *)
THEOREM NeverPassesFree ==
  ASSUME MaskRounds
  PROVE  Spec => []NoneBeforeFirst
<1>1. IInv => NoneBeforeFirst
  BY DEF IInv
<1> QED
  BY <1>1, Invariance, PTL

(* A search from firstFree refuses only what the whole list has no block   *)
(* for (RefusesOnlyWhenFull): findBlock.                                   *)
THEOREM RefusesRightly ==
  ASSUME MaskRounds
  PROVE  Spec => []RefusesOnlyWhenFull
<1>1. IInv => RefusesOnlyWhenFull
  BY DEF IInv
<1> QED
  BY <1>1, Invariance, PTL
(* What the variables may hold: the list and its references are what the   *)
(* code makes them (prepBlock, release).                                   *)
THEOREM TypeCorrect ==
  ASSUME MaskRounds
  PROVE  Spec => []TypeOK
<1>1. IInv => TypeOK
  <2> SUFFICES ASSUME IInv PROVE TypeOK
    OBVIOUS
  <2>1. ListOK /\ IdsOK /\ reply \in Reply /\ DOMAIN blocks = 1 .. Len(blocks)
    BY DEF IInv, ListOK
  <2> DEFINE ids == [i \in DOMAIN blocks |-> blocks[i].id]
  <2>2. ToSet(ids) = {blocks[i].id : i \in 1 .. Len(blocks)}
    BY <2>1 DEF ToSet
  <2>3. {blocks[i].id : i \in 1 .. Len(blocks)} = 1 .. Len(blocks)
    <3>1. /\ \A i \in 1 .. Len(blocks) : blocks[i].id \in 1 .. Len(blocks)
          /\ \A n \in 1 .. Len(blocks) : \E i \in 1 .. Len(blocks) : blocks[i].id = n
      BY <2>1, Zenon DEF IdsOK
    <3> QED
      BY <3>1, Zenon
  <2> QED
    BY <2>1, <2>2, <2>3 DEF TypeOK, ListOK, IdsOK
<1> QED
  BY <1>1, Invariance, PTL

(* Regions in use never overlap nor leave the space, whatever is asked for *)
(* and released: what allocate answers is the start of a block, and the    *)
(* blocks are apart.                                                       *)
THEOREM GrantsAlwaysDisjoint ==
  ASSUME MaskRounds
  PROVE  Spec => []GrantsDisjoint
<1>1. IInv => GrantsDisjoint
  <2> SUFFICES ASSUME IInv PROVE GrantsDisjoint
    OBVIOUS
  <2>1. /\ ListOK /\ BlocksTile /\ Ordered /\ StartsAligned /\ DOMAIN blocks = 1 .. Len(blocks)
        /\ Total \in Nat
    BY FirstFitAssumption DEF IInv, ListOK
  <2>2. \A i \in 1 .. Len(blocks) :
          /\ blocks[i].startAddress \in Nat /\ blocks[i].size \in Nat \ {0}
          /\ blocks[i].startAddress + blocks[i].size <= Total
    <3>1. \A i \in 1 .. Len(blocks) : blocks[i] \in MemoryBlock
      BY <2>1 DEF ListOK
    <3> QED
      BY <2>1, <3>1 DEF MemoryBlock, BlocksTile, Ordered, End
  <2>3. ASSUME NEW i \in 1 .. Len(blocks)
        PROVE  RoundUp(blocks[i].startAddress) = blocks[i].startAddress
    <3>1. blocks[i].startAddress \in 0 .. Total /\ IsAligned(blocks[i].startAddress)
      BY <2>1, <2>2 DEF StartsAligned
    <3> QED
      BY <3>1, StartsRounded
  <2> DEFINE used == {k \in DOMAIN blocks : blocks[k].isAllocated}
             inUse == {blocks[i] : i \in used}
             starts == {RoundUp(b.startAddress) : b \in inUse}
  <2>4. ASSUME NEW a \in DOMAIN grants
        PROVE  \E i \in 1 .. Len(blocks) : a = blocks[i].startAddress /\ grants[a] = blocks[i].size
    <3>1. a \in starts /\ grants[a] = (CHOOSE b \in inUse : RoundUp(b.startAddress) = a).size
      BY <2>4 DEF grants
    <3> DEFINE c == CHOOSE b \in inUse : RoundUp(b.startAddress) = a
    <3>2. c \in inUse /\ RoundUp(c.startAddress) = a
      BY <3>1
    <3>3. grants[a] = c.size
      BY <3>1
    <3> HIDE DEF c
    <3>4. PICK i \in 1 .. Len(blocks) : c = blocks[i]
      BY <2>1, <3>2
    <3> QED
      BY <2>3, <3>2, <3>3, <3>4
  <2>5. ASSUME NEW a \in DOMAIN grants
        PROVE  Space!Region(a, grants[a]) \subseteq 0 .. Total - 1
    <3>1. PICK i \in 1 .. Len(blocks) : a = blocks[i].startAddress /\ grants[a] = blocks[i].size
      BY <2>4
    <3>2. /\ a \in Nat /\ grants[a] \in Nat \ {0} /\ a + grants[a] <= Total
      BY <2>2, <3>1
    <3> QED
      BY <2>1, <3>2 DEF Space!Region
  <2>6. ASSUME NEW a \in DOMAIN grants, NEW b \in DOMAIN grants, a # b
        PROVE  Space!Region(a, grants[a]) \cap Space!Region(b, grants[b]) = {}
    <3>1. PICK i \in 1 .. Len(blocks) : a = blocks[i].startAddress /\ grants[a] = blocks[i].size
      BY <2>4
    <3>2. PICK j \in 1 .. Len(blocks) : b = blocks[j].startAddress /\ grants[b] = blocks[j].size
      BY <2>4
    <3>3. i < j \/ j < i
      BY <2>6, <3>1, <3>2
    <3>4. a + grants[a] <= b \/ b + grants[b] <= a
      BY <2>1, <3>1, <3>2, <3>3 DEF Ordered, End
    <3>5. a \in Nat /\ b \in Nat /\ grants[a] \in Nat /\ grants[b] \in Nat
      BY <2>2, <3>1, <3>2
    <3> QED
      BY <3>4, <3>5 DEF Space!Region
  <2> QED
    BY <2>5, <2>6 DEF GrantsDisjoint, Space!GrantsDisjoint
<1> QED
  BY <1>1, Invariance, PTL
=============================================================================
