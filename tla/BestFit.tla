------------------------------ MODULE BestFit ------------------------------
(***************************************************************************)
(* The native memory manager, natives/src/main/cpp/reni/                   *)
(* best_fit_allocator.cpp, reached from Java through BestFitManager.       *)
(*                                                                         *)
(* blocks is the list from root along MemoryBlock.next, in list order, and *)
(* free_blocks the std::list of blocks that are not reserved, as a set of  *)
(* pointers.  A pointer stands for the heap object: new returns any that   *)
(* no block of the list owns, so a pointer that stays behind in            *)
(* free_blocks after free() is dangling and may come back as another       *)
(* block.                                                                  *)
(***************************************************************************)
EXTENDS Integers, Sequences

CONSTANTS
  Total,      (* total_memory_size                                       *)
  Align,      (* the field alignment holds Align - 1, a mask             *)
  Sizes,      (* the sizes callers ask for                               *)
  Addresses,  (* the addresses callers release                           *)
  Ptr         (* heap addresses new may return                           *)

(* A caller asks for at least one byte; alignment is a power of two in the *)
(* code, but only its being positive is used here.                         *)
ASSUME BestFitAssumption ==
  /\ Total \in Nat \ {0}
  /\ Align \in Nat \ {0}
  /\ Sizes \subseteq Nat \ {0}
  /\ Addresses \subseteq Int

VARIABLES
  blocks,       (* root and what follows it along next                   *)
  free_blocks,  (* pointers to the blocks that are not reserved          *)
  reply         (* the answer of the last JNI call                       *)

vars == <<blocks, free_blocks, reply>>

MemoryBlock ==
  [ptr : Ptr, start_address : Nat, size : Nat, is_allocated : BOOLEAN]

Reply == [op : {"none", "allocate", "release"}, arg : Int, value : Int]

(* The bytes after the block's last one.                                   *)
End(b) == b.start_address + b.size

(* Mutant: the mask alone, without first adding it.                        *)
RoundDown(n) == (n \div Align) * Align

(* (n + alignment) & ~alignment                                            *)
RoundUp(n) == ((n + Align - 1) \div Align) * Align

Init ==
  \E p \in Ptr :
    /\ blocks = <<[ptr |-> p, start_address |-> 0, size |-> Total, is_allocated |-> FALSE]>>
    /\ free_blocks = {p}
    /\ reply = [op |-> "none", arg |-> 0, value |-> 0]

-----------------------------------------------------------------------------
(* allocate *)

Fitting(req) ==
  {i \in DOMAIN blocks : /\ blocks[i].ptr \in free_blocks
                         /\ ~blocks[i].is_allocated
                         /\ blocks[i].size >= req}

(* The smallest free block that fits.  Among several of that size the code *)
(* takes the first of the std::list; here any of them.                     *)
findBlock(req) ==
  {i \in Fitting(req) : \A j \in Fitting(req) : blocks[i].size <= blocks[j].size}

(* s with element e put right after position i.                            *)
InsertAfter(s, i, e) == SubSeq(s, 1, i) \o <<e>> \o SubSeq(s, i + 1, Len(s))

(* s with the elements at i .. j replaced by the single element e.         *)
Collapse(s, i, j, e) == SubSeq(s, 1, i - 1) \o <<e>> \o SubSeq(s, j + 1, Len(s))

Fresh == Ptr \ {blocks[i].ptr : i \in DOMAIN blocks}

Taken(i, req) == [blocks EXCEPT ![i].size = req, ![i].is_allocated = TRUE]

(* What is left of block i once req bytes are cut off at its aligned start.*)
Remaining(i, req, p) ==
  [ptr           |-> p,
   start_address |-> RoundUp(blocks[i].start_address) + req,
   size          |-> blocks[i].size - req,
   is_allocated  |-> FALSE]

(* Mutant: an exact fit is marked but stays in the free list.              *)
prepBlockListed(i, req) ==
  \/ /\ blocks[i].size > req
     /\ \E p \in Fresh :
          /\ blocks' = InsertAfter(Taken(i, req), i, Remaining(i, req, p))
          /\ free_blocks' = (free_blocks \cup {p}) \ {blocks[i].ptr}
  \/ /\ blocks[i].size = req
     /\ blocks' = Taken(i, req)
     /\ UNCHANGED free_blocks

(* prepBlock: split when larger than needed, mark, leave the free list.    *)
prepBlock(i, req) ==
  \/ /\ blocks[i].size > req
     /\ \E p \in Fresh :
          /\ blocks' = InsertAfter(Taken(i, req), i, Remaining(i, req, p))
          /\ free_blocks' = (free_blocks \cup {p}) \ {blocks[i].ptr}
  \/ /\ blocks[i].size = req
     /\ blocks' = Taken(i, req)
     /\ free_blocks' = free_blocks \ {blocks[i].ptr}

allocate(n) ==
  LET req == RoundUp(n) IN
  \/ /\ findBlock(req) = {}
     /\ reply' = [op |-> "allocate", arg |-> n, value |-> -1]
     /\ UNCHANGED <<blocks, free_blocks>>
  \/ \E i \in findBlock(req) :
       /\ prepBlock(i, req)
       /\ reply' = [op |-> "allocate", arg |-> n,
                    value |-> RoundUp(blocks[i].start_address)]

-----------------------------------------------------------------------------
(* deallocate *)

(* The block the walk from root stops at: the first one with this address. *)
Found(a) ==
  {i \in DOMAIN blocks :
     /\ blocks[i].start_address = a
     /\ \A j \in DOMAIN blocks : blocks[j].start_address = a => i <= j}

(* Mutant: the merge loop does not look at nextBlock->is_allocated.        *)
LastMergedGreedy(i) == Len(blocks)

(* Mutant: an if where the merge loop is, one neighbour is absorbed.       *)
LastMergedOnce(i) ==
  IF i < Len(blocks) /\ ~blocks[i + 1].is_allocated THEN i + 1 ELSE i

(* The last block the merge loop absorbs into block i: it follows next as  *)
(* long as the next block is free.  The walk also keeps earliestFree, meant*)
(* to start the merge further left, but on reaching the released block,    *)
(* which is allocated, its else branch has just reset it to nullptr.       *)
LastMerged(i) ==
  CHOOSE j \in i .. Len(blocks) :
    /\ \A k \in i + 1 .. j : ~blocks[k].is_allocated
    /\ j < Len(blocks) => blocks[j + 1].is_allocated

(* Mutant: the size of the last block absorbed, not the sum of all.        *)
MergedSizeLast(i, j) == blocks[i].size + (IF j > i THEN blocks[j].size ELSE 0)

(* block->size after the loop has absorbed blocks i + 1 .. j.              *)
MergedSize(i, j) ==
  LET size[k \in i .. j] ==
        IF k = i THEN blocks[k].size ELSE size[k - 1] + blocks[k].size
  IN size[j]

Merged(i, j) ==
  Collapse(blocks, i, j,
           [blocks[i] EXCEPT !.size = MergedSize(i, j), !.is_allocated = FALSE])

deallocate(a) ==
  \/ /\ \A i \in Found(a) : ~blocks[i].is_allocated
     /\ reply' = [op |-> "release", arg |-> a, value |-> 0]
     /\ UNCHANGED <<blocks, free_blocks>>
  \/ \E i \in Found(a) :
       LET j == LastMerged(i) IN
       /\ blocks[i].is_allocated
       /\ blocks' = Merged(i, j)
       /\ free_blocks' = (free_blocks \cup {blocks[i].ptr})
                           \ {blocks[k].ptr : k \in i + 1 .. j}
       /\ reply' = [op |-> "release", arg |-> a, value |-> 1]

Next ==
  \/ \E n \in Sizes : allocate(n)
  \/ \E a \in Addresses : deallocate(a)

Spec == Init /\ [][Next]_vars

-----------------------------------------------------------------------------
(* Properties *)

TypeOK ==
  /\ blocks \in Seq(MemoryBlock)
  /\ free_blocks \subseteq Ptr
  /\ reply \in Reply

(* The list from root cuts the whole space into non-empty blocks without   *)
(* gap or overlap: prepBlock computes the cut from the aligned start but   *)
(* the size of the rest from the unaligned one, and the merge adds sizes   *)
(* without looking at addresses.                                           *)
BlocksTile ==
  /\ Len(blocks) > 0
  /\ blocks[1].start_address = 0
  /\ End(blocks[Len(blocks)]) = Total
  /\ \A i \in 1 .. Len(blocks) : blocks[i].size > 0
  /\ \A i \in 1 .. Len(blocks) - 1 : blocks[i + 1].start_address = End(blocks[i])

(* free_blocks holds the unreserved blocks of the list and nothing else: no*)
(* reserved block, none that merging has freed, and no block is missing    *)
(* from it (it could never be granted again).                              *)
FreeListExact ==
  /\ free_blocks = {blocks[i].ptr : i \in {k \in 1 .. Len(blocks) : ~blocks[k].is_allocated}}
  /\ \A i, j \in 1 .. Len(blocks) : blocks[i].ptr = blocks[j].ptr => i = j

(* Why cutting at the aligned start loses nothing: it is the start.        *)
StartsAligned == \A i \in 1 .. Len(blocks) : blocks[i].start_address % Align = 0

(* Blocks lie in list order, not only next to their neighbours.            *)
BlocksOrdered ==
  \A i, j \in 1 .. Len(blocks) : i < j => End(blocks[i]) <= blocks[j].start_address

(* The inductive invariant: what every call of the allocator preserves.    *)
IInv == TypeOK /\ BlocksTile /\ FreeListExact /\ StartsAligned /\ BlocksOrdered

(* The blocks callers hold.                                                *)
InUse == {blocks[i] : i \in {k \in 1 .. Len(blocks) : blocks[k].is_allocated}}

(* A block in use keeps its address and size whatever splitting and merging*)
(* happen around it, until its own address is released.                    *)
BlocksInUseStay ==
  [][\A b \in InUse :
       \/ b \in InUse'
       \/ reply' = [op |-> "release", arg |-> b.start_address, value |-> 1]
    ]_vars

(* After a successful release the block that holds the address is free and *)
(* what follows it is in use: the space to its right has been merged.      *)
ReleaseMergesRight ==
  [][\A a \in Addresses :
       reply' = [op |-> "release", arg |-> a, value |-> 1] =>
         \E i \in 1 .. Len(blocks') :
           /\ blocks'[i].start_address = a
           /\ ~blocks'[i].is_allocated
           /\ i < Len(blocks') => blocks'[i + 1].is_allocated
    ]_vars

(* "this allows for blocks to be merged together" (best_fit_allocator.cpp, *)
(* the comment on earliestFree): a released block is merged with the free  *)
(* block before it too, so that no two free blocks are neighbours.         *)
FreeBlocksMerged ==
  \A i \in 1 .. Len(blocks) - 1 : blocks[i].is_allocated \/ blocks[i + 1].is_allocated

(* The allocator implements the address space, a region in use being an    *)
(* allocated block.                                                        *)
grants ==
  [a \in {b.start_address : b \in InUse} |->
     (CHOOSE b \in InUse : b.start_address = a).size]

Space == INSTANCE AddressSpace

Implements == Space!Spec

(* Regions handed out never overlap.                                       *)
GrantsDisjoint == Space!GrantsDisjoint
=============================================================================
