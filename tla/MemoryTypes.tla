---------------------------- MODULE MemoryTypes ----------------------------
(***************************************************************************)
(* ReniLogicalDevice.findMemoryType: the memory type in which a buffer or  *)
(* an image is allocated.  Vulkan numbers the types from 0; bit i of the   *)
(* mask a resource comes with says that it may live in type i.             *)
(***************************************************************************)
EXTENDS Integers, Sequences, BitSets

CONSTANTS
  TypeLists,  (* the property flags of the types, as devices report them *)
  Masks,      (* memoryTypeBits of the resources                         *)
  Wanted      (* the property flags callers ask for                      *)

VARIABLES
  memoryTypes,  (* of the device                                         *)
  call,         (* the arguments of the last call                        *)
  found         (* what it returned, or Threw                            *)

vars == <<memoryTypes, call, found>>

Threw == -1
NoCall == [type |-> 0, properties |-> 0]

Indices == 0 .. Len(memoryTypes) - 1

HasProperties(i, properties) == Bits(properties) \subseteq Bits(memoryTypes[i + 1])

(* The condition of the loop: type shares a bit with the number i.         *)
Accepted(type, i) == ShareBits(type, i)

Init ==
  /\ memoryTypes \in TypeLists
  /\ call = NoCall
  /\ found = Threw

findMemoryType(type, properties) ==
  LET fitting == {i \in Indices : Accepted(type, i) /\ HasProperties(i, properties)}
  IN  /\ call' = [type |-> type, properties |-> properties]
      /\ found' = IF fitting = {} THEN Threw
                  ELSE CHOOSE i \in fitting : \A j \in fitting : i <= j
      /\ UNCHANGED memoryTypes

Next == \E type \in Masks, properties \in Wanted : findMemoryType(type, properties)

Spec == Init /\ [][Next]_vars

(***************************************************************************)
(* Property                                                                *)
(***************************************************************************)
(* A type is returned if and only if the device has one the resource may   *)
(* live in (bit i of its mask is set) with all the properties asked for,   *)
(* and it is such a type: the exception says that none is suitable.        *)
FindsSuitable ==
  LET suitable == {i \in Indices : i \in Bits(call.type) /\ HasProperties(i, call.properties)}
  IN  call # NoCall =>
        IF suitable = {} THEN found = Threw ELSE found \in suitable
=============================================================================
