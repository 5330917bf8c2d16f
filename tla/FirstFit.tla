------------------------------ MODULE FirstFit ------------------------------
(***************************************************************************)
(* The memory manager written in Java, util/accel/memory/java/             *)
(* BestFitAllocator.java.  Despite its name it grants the first block that *)
(* fits, starting from firstFree, and never merges blocks.                 *)
(*                                                                         *)
(* blocks is the list from root along next.  A reference to a MemoryBlock  *)
(* is its id, the number of blocks there were when it was made: no block is*)
(* ever removed.  firstFree is never null, since every assignment to it has*)
(* used the reference before, so that the search of findBlock from         *)
(* prevFirst (lines 51-60) is not reached and prevFirst is left out.       *)
(***************************************************************************)
EXTENDS Integers, Sequences, SequencesExt, BitSets

CONSTANTS
  Total,      (* totalMemorySize                                         *)
  Mask,       (* the field alignment                                     *)
  Sizes,      (* the sizes callers ask for                               *)
  Addresses   (* the addresses callers release                           *)

ASSUME FirstFitAssumption ==
  /\ Total \in Nat \ {0}
  /\ Mask \in Nat
  /\ Sizes \subseteq Nat \ {0}
  /\ Addresses \subseteq Int

VARIABLES
  blocks,     (* root and what follows it along next                     *)
  firstFree,  (* where findBlock starts                                  *)
  reply       (* the answer of the last call, or that it threw           *)

vars == <<blocks, firstFree, reply>>

MemoryBlock ==
  [id : Nat \ {0}, startAddress : Nat, size : Nat, isAllocated : BOOLEAN]

Reply == [op : {"none", "allocate", "release"}, arg : Int, value : Int, threw : BOOLEAN]

Answer(op, arg, value) == [op |-> op, arg |-> arg, value |-> value, threw |-> FALSE]

End(b) == b.startAddress + b.size

(* (n + alignment) & ~alignment                                            *)
RoundUp(n) == ClearBits(n + Mask, Mask)

Init ==
  /\ blocks = <<[id |-> 1, startAddress |-> 0, size |-> Total, isAllocated |-> FALSE]>>
  /\ firstFree = 1
  /\ reply = Answer("none", 0, 0)

(* The place of a block in the list.                                       *)
Place(id) == CHOOSE i \in DOMAIN blocks : blocks[i].id = id

-----------------------------------------------------------------------------
(* allocate *)

(* The free blocks from firstFree on that are large enough.                *)
Fitting(req) ==
  {i \in DOMAIN blocks : /\ i >= Place(firstFree)
                         /\ ~blocks[i].isAllocated
                         /\ blocks[i].size >= req}

(* The loop stops at the first of them.                                    *)
findBlock(req) == {i \in Fitting(req) : \A j \in Fitting(req) : i <= j}

(* Mutant: the rest keeps the size of the whole block.                     *)
RemainingUnshrunk(i, req) ==
  [id           |-> Len(blocks) + 1,
   startAddress |-> RoundUp(blocks[i].startAddress) + req,
   size         |-> blocks[i].size,
   isAllocated  |-> FALSE]

Remaining(i, req) ==
  [id           |-> Len(blocks) + 1,
   startAddress |-> RoundUp(blocks[i].startAddress) + req,
   size         |-> blocks[i].size - req,
   isAllocated  |-> FALSE]

(* prepBlock on a larger block: cut it.                                    *)
Split(i, req) ==
  /\ blocks[i].size > req
  /\ blocks' = InsertAt([blocks EXCEPT ![i].size = req, ![i].isAllocated = TRUE],
                        i + 1, Remaining(i, req))
  /\ firstFree' = IF blocks[i].id = firstFree THEN Len(blocks) + 1 ELSE firstFree

(* Mutant: firstFree moves on when any block is taken whole.               *)
TakeAdvancing(i) ==
  /\ blocks' = [blocks EXCEPT ![i].isAllocated = TRUE]
  /\ firstFree' = IF i < Len(blocks) THEN blocks[i + 1].id ELSE firstFree

(* prepBlock on a block of the very size: firstFree moves to the next block*)
(* if that is reserved, and stays on this one if it is free.               *)
Take(i) ==
  /\ blocks' = [blocks EXCEPT ![i].isAllocated = TRUE]
  /\ firstFree' = IF blocks[i].id = firstFree /\ blocks[i + 1].isAllocated
                    THEN blocks[i + 1].id ELSE firstFree

(* prepBlock reads bestFitBlock.next.isAllocated.                          *)
NoNext(i) == blocks[i].id = firstFree /\ i = Len(blocks)

allocate(n) ==
  LET req == RoundUp(n) IN
  \/ /\ findBlock(req) = {}
     /\ reply' = Answer("allocate", n, -1)
     /\ UNCHANGED <<blocks, firstFree>>
  \/ \E i \in findBlock(req) :
       \/ /\ Split(i, req)
          /\ reply' = Answer("allocate", n, RoundUp(blocks[i].startAddress))
       \/ /\ blocks[i].size = req /\ ~NoNext(i)
          /\ Take(i)
          /\ reply' = Answer("allocate", n, RoundUp(blocks[i].startAddress))
       \/ /\ blocks[i].size = req /\ NoNext(i)
          /\ reply' = [op |-> "allocate", arg |-> n, value |-> 0, threw |-> TRUE]
          /\ UNCHANGED <<blocks, firstFree>>

-----------------------------------------------------------------------------
(* release *)

(* The block the walk from root stops at.                                  *)
Found(a) ==
  {i \in DOMAIN blocks :
     /\ blocks[i].startAddress = a
     /\ \A j \in DOMAIN blocks : blocks[j].startAddress = a => i <= j}

(* Mutant: the comparison with firstFree the wrong way round.              *)
EarlierSwapped(i) ==
  IF blocks[i].startAddress > blocks[Place(firstFree)].startAddress
    THEN blocks[i].id ELSE firstFree

(* The block released becomes firstFree when it lies before it.            *)
Earlier(i) ==
  IF blocks[i].startAddress < blocks[Place(firstFree)].startAddress
    THEN blocks[i].id ELSE firstFree

(* A block that is free already is released again just the same.           *)
release(a) ==
  \/ /\ Found(a) = {}
     /\ reply' = Answer("release", a, 0)
     /\ UNCHANGED <<blocks, firstFree>>
  \/ \E i \in Found(a) :
       /\ blocks' = [blocks EXCEPT ![i].isAllocated = FALSE]
       /\ firstFree' = Earlier(i)
       /\ reply' = Answer("release", a, 1)

Next ==
  \/ \E n \in Sizes : allocate(n)
  \/ \E a \in Addresses : release(a)

Spec == Init /\ [][Next]_vars

-----------------------------------------------------------------------------
(* Properties *)

TypeOK ==
  /\ blocks \in Seq(MemoryBlock)
  /\ ToSet([i \in DOMAIN blocks |-> blocks[i].id]) = 1 .. Len(blocks)
  /\ firstFree \in 1 .. Len(blocks)
  /\ reply \in Reply

(* The list cuts the whole space into non-empty blocks without gap or      *)
(* overlap.                                                                *)
BlocksTile ==
  /\ blocks[1].startAddress = 0
  /\ End(blocks[Len(blocks)]) = Total
  /\ \A i \in 1 .. Len(blocks) : blocks[i].size > 0
  /\ \A i \in 1 .. Len(blocks) - 1 : blocks[i + 1].startAddress = End(blocks[i])

(* No free block lies before firstFree, which is all a search looks at:    *)
(* firstFree may itself be reserved, moves only when it is taken, and is   *)
(* pulled back by release.                                                 *)
NoneBeforeFirst ==
  \A i \in 1 .. Len(blocks) : i < Place(firstFree) => blocks[i].isAllocated

(* A request is refused only when no free block of the whole list fits.    *)
RefusesOnlyWhenFull ==
  reply.op = "allocate" /\ reply.value = -1 =>
    \A i \in 1 .. Len(blocks) : blocks[i].isAllocated \/ blocks[i].size < RoundUp(reply.arg)

Align == Mask + 1

(* Rounding with the mask yields the next multiple of Align, which it does *)
(* when the mask is one less than a power of two.                          *)
MaskRounds ==
  \A n \in (0 .. Total) \cup Sizes : RoundUp(n) = ((n + Mask) \div Align) * Align

(* The regions callers hold, under the addresses they were told.           *)
grants ==
  LET InUse == {blocks[i] : i \in {k \in DOMAIN blocks : blocks[k].isAllocated}}
  IN [a \in {RoundUp(b.startAddress) : b \in InUse} |->
        (CHOOSE b \in InUse : RoundUp(b.startAddress) = a).size]

Space == INSTANCE AddressSpace

(* Regions in use never overlap and stay inside the space.                 *)
GrantsDisjoint == Space!GrantsDisjoint

(* "Find the smallest available block that fits the requested size"        *)
(* (allocate).                                                             *)
GrantsSmallest ==
  [][\A i \in 1 .. Len(blocks) :
       /\ reply'.op = "allocate" /\ reply'.value >= 0 /\ ~reply'.threw
       /\ ~blocks[i].isAllocated /\ blocks[i].size >= RoundUp(reply'.arg)
       => \E j \in 1 .. Len(blocks) :
            /\ RoundUp(blocks[j].startAddress) = reply'.value
            /\ blocks[j].size <= blocks[i].size
    ]_vars

(* "Allocation failed" (allocate): a request that fails is answered -1.    *)
FailuresAnswered == ~reply.threw

(* "alignment bytes" (MemoryManager): every region granted is aligned and  *)
(* inside the space when the alignment is given as a number of bytes.      *)
GrantsInside ==
  reply.op = "allocate" /\ reply.value >= 0 /\ ~reply.threw =>
    reply.value % Mask = 0 /\ reply.value + reply.arg <= Total
=============================================================================
