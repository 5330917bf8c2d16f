---------------------------- MODULE BestFitHeap ----------------------------
(***************************************************************************)
(* The life of a native memory manager: BestFitManager creates it with     *)
(* generate, calls it through a handle and gives it up with free.          *)
(*                                                                         *)
(* BestFit says which blocks the list holds.  This module adds what the    *)
(* calls do to the heap the blocks live on: owned counts, for each address,*)
(* how often new has returned a block there less how often free was called *)
(* on it.  A block that is lost has a count of 1 with no place in the list,*)
(* and one that is freed twice a count of -1.  What std::list allocates for*)
(* free_blocks is not counted.                                             *)
(***************************************************************************)
EXTENDS BestFit

VARIABLES
  owned,   (* blocks created at an address and not freed                  *)
  alive    (* the handle has not been freed                               *)

heapVars == <<blocks, free_blocks, reply, owned, alive>>

Pointers(list) == {list[i].ptr : i \in DOMAIN list}

(* What free(block), called for each of these pointers, does to the heap.  *)
Freed(pointers) == [p \in Ptr |-> IF p \in pointers THEN owned[p] - 1 ELSE owned[p]]

(* The constructor of the manager creates the first block.                 *)
generate ==
  /\ Init
  /\ owned = [p \in Ptr |-> IF p \in Pointers(blocks) THEN 1 ELSE 0]
  /\ alive = TRUE

(* new MemoryBlock, for the rest of a block that was split.                *)
newOnSplit ==
  owned' = [p \in Ptr |->
              IF p \in Pointers(blocks') \ Pointers(blocks)
                THEN owned[p] + 1 ELSE owned[p]]

heapAllocate(n) ==
  /\ alive
  /\ allocate(n)
  /\ newOnSplit
  /\ UNCHANGED alive

(* Mutant: the merge takes a block out of the list and does not free it.   *)
MergedAwayKept(a) == {}

(* The blocks the merge loop frees when the block at a is released.        *)
MergedAway(a) ==
  UNION {{blocks[k].ptr : k \in i + 1 .. LastMerged(i)} :
           i \in {f \in Found(a) : blocks[f].is_allocated}}

heapDeallocate(a) ==
  /\ alive
  /\ deallocate(a)
  /\ owned' = Freed(MergedAway(a))
  /\ UNCHANGED alive

(* free walks the list and frees every block, then the manager.  The       *)
(* manager is freed without its destructor, so that the nodes of its       *)
(* std::list leak.  That no call comes after free, a second free among     *)
(* them, is up to the caller: BestFitManager hands the same handle on.     *)
free ==
  /\ alive
  /\ alive' = FALSE
  /\ owned' = Freed(Pointers(blocks))
  /\ UNCHANGED vars

HeapNext ==
  \/ \E n \in Sizes : heapAllocate(n)
  \/ \E a \in Addresses : heapDeallocate(a)
  \/ free

HeapSpec == generate /\ [][HeapNext]_heapVars

-----------------------------------------------------------------------------

(* No block is lost and none is freed twice, whatever was split and merged:*)
(* the heap holds the blocks of the list as long as the manager lives, so  *)
(* that the walk of free, which follows the list, leaves none behind.      *)
HeapExact ==
  \A p \in Ptr : owned[p] = IF alive /\ p \in Pointers(blocks) THEN 1 ELSE 0
=============================================================================
