-------------------------- MODULE DrawCollections --------------------------
(***************************************************************************)
(* Draw collections, frontend/reni/draw: a BatchCollection with an         *)
(* InstanceCollection among its drawables.                                 *)
(*                                                                         *)
(* A collection is built by add and setupState, which starts a group of its*)
(* own state, and is then drawn any number of times, while what is visible *)
(* changes from one draw to the next.  draw runs step by step: the state   *)
(* callback of a group, each drawable its iterator returns, and inside the *)
(* instance collection each key with its slices of at most maxInstances.   *)
(* HashMaps are iterated in any order.                                     *)
(***************************************************************************)
EXTENDS Integers, Sequences, FiniteSets, SequencesExt

CONSTANTS
  Drawables,     (* drawables that are not instanceable                   *)
  Nested,        (* the instance collection, as a drawable                *)
  Instanceables, (* instanceable ones                                     *)
  comparator,    (* the InstanceKey of each                               *)
  maxInstances,
  Nothing,       (* null                                                  *)
  MaxAdded,      (* bound on the calls of add                             *)
  MaxGroups      (* bound on the groups of both collections together      *)

ASSUME DrawAssumption ==
  /\ Nested \notin Drawables
  /\ Nothing \notin Drawables \cup {Nested}
  /\ maxInstances \in Nat \ {0}
  /\ MaxAdded \in Nat
  /\ MaxGroups \in Nat

InstanceKeys == {comparator[e] : e \in Instanceables}
Items == Drawables \cup {Nested}

VARIABLES
  batches,    (* BatchCollection: stateSetup and toDraw, group by group   *)
  instances,  (* InstanceCollection: the same                             *)
  visible,    (* what visible() answers for                               *)
  pc,         (* where draw is; build when nothing is drawn               *)
  g, last, list, entries, current, qnty,  (* the batch, and its iterator  *)
  h, keys, key, actualI, i, v,            (* the instance collection      *)
  state, bound,  (* what the command buffer has been set to               *)
  drawn,   (* draws of the group, with what was bound and set then        *)
  slots,   (* the instance buffer                                         *)
  shown    (* instances that calls for the key have drawn                 *)

collections == <<batches, instances, visible>>
batchLoop == <<g, last, list, entries, current, qnty>>
instanceLoop == <<h, keys, key, actualI, i, v>>
buffer == <<state, bound, drawn, slots, shown>>
vars == <<collections, pc, batchLoop, instanceLoop, buffer>>

(* A BatchList is an ArrayList when its group needs a sort, and a          *)
(* QuantizedHashSet otherwise; added is the sequence of calls for both.    *)
(* The state callback of group n sets a state of its own, n.               *)
BatchList(needsSort) ==
  [needsSort |-> needsSort, added |-> <<>>, counts |-> [d \in Items |-> 0]]

(* The callback of a group of instances sets a state, -n; or add has made  *)
(* it, for a drawable that is not instanceable: it binds and draws this    *)
(* drawable, visible or not, in the buffer add was given.                  *)
InstanceList(d) ==
  [draws |-> d, instances |-> [k \in InstanceKeys |-> <<>>]]

Groups == Len(batches) + Len(instances)
Added ==
  FoldSeq(LAMBDA b, n : n + Len(b.added), 0, batches)
    + FoldSeq(LAMBDA b, n : n + FoldSet(LAMBDA k, m : m + Len(b.instances[k]), 0, InstanceKeys),
              0, instances)

Init ==
  /\ \E needsSort \in BOOLEAN : batches = <<BatchList(needsSort)>>
  /\ instances = <<InstanceList(Nothing)>>
  /\ visible = {}
  /\ pc = "build"
  /\ g = 0 /\ last = Nothing /\ list = <<>> /\ entries = {} /\ current = Nothing /\ qnty = 0
  /\ h = 0 /\ keys = {} /\ key = Nothing /\ actualI = 0 /\ i = 0 /\ v = 0
  /\ state = 0 /\ bound = Nothing
  /\ drawn = <<>> /\ slots = <<>> /\ shown = <<>>

-----------------------------------------------------------------------------
(* Building *)

(* QuantizedHashSet.add, or ArrayList.add                                  *)
WithItem(b, d) ==
  [needsSort |-> b.needsSort,
   added     |-> Append(b.added, d),
   counts    |-> IF b.needsSort THEN b.counts ELSE [b.counts EXCEPT ![d] = @ + 1]]

batchAdd(d) ==
  /\ Added < MaxAdded
  /\ batches' = [batches EXCEPT ![Len(batches)] = WithItem(batches[Len(batches)], d)]
  /\ UNCHANGED instances

batchSetupState(needsSort) ==
  /\ Groups < MaxGroups
  /\ batches' = Append(batches, BatchList(needsSort))
  /\ UNCHANGED instances

batchReset(needsSort) ==
  /\ batches' = <<BatchList(needsSort)>>
  /\ UNCHANGED instances

(* setupState, by the program with a callback or by add of d.              *)
instanceSetupState(d) ==
  /\ Groups < MaxGroups
  /\ instances' = Append(instances, InstanceList(d))
  /\ UNCHANGED batches

instanceAdd(e) ==
  /\ Added < MaxAdded
  /\ instances' = [instances EXCEPT ![Len(instances)].instances[comparator[e]] = Append(@, e)]
  /\ UNCHANGED batches

instanceReset ==
  /\ instances' = <<InstanceList(Nothing)>>
  /\ UNCHANGED batches

Build ==
  /\ pc = "build"
  /\ \/ \E d \in Items : batchAdd(d)
     \/ \E needsSort \in BOOLEAN : batchSetupState(needsSort) \/ batchReset(needsSort)
     \/ \E e \in Instanceables : instanceAdd(e)
     \/ \E d \in Drawables \cup {Nothing} : instanceSetupState(d)
     \/ instanceReset
  /\ UNCHANGED <<visible, pc, batchLoop, instanceLoop, buffer>>

-----------------------------------------------------------------------------
(* BatchCollection.draw *)

Objects ==
  UNION ({ToSet(b.added) : b \in ToSet(batches)}
           \cup UNION {{ToSet(b.instances[k]) : k \in InstanceKeys} : b \in ToSet(instances)})

(* Between draws objects come into sight and leave it; a collection does   *)
(* not say whether it is visible, so that it always is.                    *)
StartDraw ==
  /\ pc = "build"
  /\ pc' = "state" /\ g' = 1
  /\ \E seen \in SUBSET (Objects \ {Nested}) : visible' = seen \cup {Nested}
  /\ UNCHANGED <<batches, instances, last, list, entries, current, qnty, instanceLoop, buffer>>

(* The state callback of the group, which may as well bind something no    *)
(* drawable of these collections binds, Nothing.                           *)
RunState ==
  /\ pc = "state" /\ g <= Len(batches)
  /\ state' = g /\ bound' \in {bound, Nothing}
  /\ list' = IF batches[g].needsSort THEN batches[g].added ELSE <<>>
  /\ entries' = {d \in Items : batches[g].counts[d] > 0}
  /\ pc' = "items"
  /\ UNCHANGED <<collections, g, last, current, qnty, instanceLoop, drawn, slots, shown>>

(* Mutant: like a HashSet, the iterator returns each element once.         *)
LeftOnce(n) == 0

(* qnty once the first of the n has been returned.                         *)
LeftOf(n) == n - 1

(* The iterator returns d.                                                 *)
NextItem(d) ==
  \/ /\ list # <<>> /\ d = Head(list)
     /\ list' = Tail(list)
     /\ UNCHANGED <<entries, current, qnty>>
  \/ /\ qnty > 0 /\ d = current
     /\ qnty' = qnty - 1
     /\ UNCHANGED <<list, entries, current>>
  \/ /\ qnty = 0 /\ d \in entries
     /\ entries' = entries \ {d}
     /\ current' = d /\ qnty' = LeftOf(batches[g].counts[d])
     /\ UNCHANGED list

(* The bind is skipped when the drawable is the last one bound; that of a  *)
(* collection does nothing.                                                *)
Bind(d) ==
  /\ last' = d
  /\ bound' = IF last = d \/ d = Nested THEN bound ELSE d

Item(d) ==
  /\ pc = "items"
  /\ NextItem(d)
  /\ IF d \in visible
       THEN /\ Bind(d)
            /\ drawn' = Append(drawn, [what |-> d, bound |-> bound', state |-> state])
       ELSE UNCHANGED <<last, bound, drawn>>
  /\ IF d = Nested THEN pc' = "instance state" /\ h' = 1 ELSE UNCHANGED <<pc, h>>
  /\ UNCHANGED <<collections, g, keys, key, actualI, i, v, state, slots, shown>>

ItemsDone == pc = "items" /\ list = <<>> /\ entries = {} /\ qnty = 0

NextGroup ==
  /\ ItemsDone
  /\ pc' = "state" /\ g' = g + 1
  /\ drawn' = <<>> /\ current' = Nothing
  /\ UNCHANGED <<collections, last, list, entries, qnty, instanceLoop, state, bound, slots, shown>>

(* Mutant: last is a field, it stays from one draw to the next.            *)
LastAfter(d) == d

(* last is a local variable, null at the start of the next draw.           *)
LastAtStart(d) == Nothing

Drawn ==
  /\ pc = "state" /\ g > Len(batches)
  /\ pc' = "build"
  /\ g' = 0 /\ state' = 0 /\ bound' = Nothing /\ last' = LastAtStart(last)
  /\ visible' = {}
  /\ UNCHANGED <<batches, instances, list, entries, current, qnty, instanceLoop,
                 drawn, slots, shown>>

-----------------------------------------------------------------------------
(* InstanceCollection.draw, as the draw of Nested *)

(* The buffer add was given may be another than the one drawn into; what is*)
(* bound there is not in bound then.                                       *)
RunInstanceState ==
  /\ pc = "instance state" /\ h <= Len(instances)
  /\ IF instances[h].draws = Nothing
       THEN state' = -h /\ bound' \in {bound, Nothing}
       ELSE bound' \in {bound, instances[h].draws} /\ UNCHANGED state
  /\ keys' = {k \in InstanceKeys : instances[h].instances[k] # <<>>}
  /\ pc' = "keys"
  /\ UNCHANGED <<collections, batchLoop, h, key, actualI, i, v, drawn, slots, shown>>

InstancesDrawn ==
  /\ pc = "instance state" /\ h > Len(instances)
  /\ pc' = "items" /\ h' = 0
  /\ UNCHANGED <<collections, batchLoop, keys, key, actualI, i, v, buffer>>

NextKey ==
  /\ pc = "keys"
  /\ \/ /\ \E k \in keys : /\ key' = k /\ keys' = keys \ {k} /\ bound' = k
        /\ actualI' = 0 /\ shown' = <<>> /\ pc' = "slice"
        /\ UNCHANGED h
     \/ /\ keys = {} /\ h' = h + 1 /\ pc' = "instance state"
        /\ key' = Nothing /\ actualI' = 0 /\ shown' = <<>>
        /\ UNCHANGED <<keys, bound>>
  /\ slots' = <<>>
  /\ UNCHANGED <<collections, batchLoop, i, v, state, drawn>>

instanceables == instances[h].instances[key]

(* while (instanceables.size() - actualI != 0): the slice is measured with *)
(* the instances that are not visible.                                     *)
NextSlice ==
  /\ pc = "slice"
  /\ IF actualI = Len(instanceables)
       THEN /\ i' = 0 /\ v' = 0 /\ pc' = "keys"
       ELSE /\ i' = 0 /\ v' = Min({Len(instanceables) - actualI, maxInstances})
            /\ pc' = "fill"
  /\ UNCHANGED <<collections, batchLoop, h, keys, key, actualI, state, bound, drawn, slots, shown>>

(* Mutant: an instance that is not visible is looked at again.             *)
PassedOver(n) == n

(* actualI++ of an instance that is not visible; i, put back by one, is    *)
(* where it was when the loop goes on.                                     *)
Passed(n) == n + 1

(* Mutant: the slot is the place in the whole list.                        *)
SlotOfList(n) == actualI + 1

(* The slot given to setup, numbered from 1.                               *)
SlotOf(n) == n + 1

(* setup of the next instance; slots[n] is what slot n of the buffer holds.*)
Fill ==
  /\ pc = "fill" /\ i < v /\ actualI < Len(instanceables)
  /\ LET e == instanceables[actualI + 1] IN
     IF e \in visible
       THEN /\ slots' = [n \in DOMAIN slots \cup {SlotOf(i)} |->
                           IF n = SlotOf(i) THEN e ELSE slots[n]]
            /\ i' = i + 1 /\ actualI' = actualI + 1
       ELSE actualI' = Passed(actualI) /\ UNCHANGED <<slots, i>>
  /\ UNCHANGED <<collections, pc, batchLoop, h, keys, key, v, state, bound, drawn, shown>>

(* get(actualI) past the end: an IndexOutOfBoundsException leaves draw.    *)
FillThrows ==
  /\ pc = "fill" /\ i < v /\ actualI = Len(instanceables)
  /\ pc' = "threw"
  /\ UNCHANGED <<collections, batchLoop, instanceLoop, buffer>>

(* prepareCall and draw of the slots 0 .. i - 1                            *)
DrawSlice ==
  /\ pc = "fill" /\ i = v
  /\ shown' = shown \o [n \in 1 .. i |-> IF n \in DOMAIN slots THEN slots[n] ELSE Nothing]
  /\ pc' = "slice"
  /\ UNCHANGED <<collections, batchLoop, instanceLoop, state, bound, drawn, slots>>

Draw ==
  \/ RunState \/ (\E d \in Items : Item(d)) \/ NextGroup \/ Drawn
  \/ RunInstanceState \/ InstancesDrawn \/ NextKey \/ NextSlice
  \/ Fill \/ FillThrows \/ DrawSlice

Next == Build \/ StartDraw \/ Draw

Spec == Init /\ [][Next]_vars /\ WF_vars(Draw)

-----------------------------------------------------------------------------
(* Properties *)

(* What of a sequence is visible.                                          *)
Keep(seq, e) == IF e \in visible THEN Append(seq, e) ELSE seq
Seen(seq) == FoldLeft(Keep, <<>>, seq)

Times(d, seq) == Cardinality({n \in DOMAIN seq : seq[n] = d})
DrawnItems == [n \in DOMAIN drawn |-> drawn[n].what]

(* Each group draws what was added to it and is visible, as often as it    *)
(* was added, in the order it was added when the group needs a sort: the   *)
(* set that counts duplicates hands each of them out again.                *)
GroupShown ==
  ItemsDone =>
    /\ \A d \in Items : Times(d, DrawnItems) = Times(d, Seen(batches[g].added))
    /\ batches[g].needsSort => DrawnItems = Seen(batches[g].added)

(* A drawable is drawn while it is what is bound, although binds are       *)
(* skipped across drawables, groups and collections, unless the callback of*)
(* a group after the first has bound something and only the drawable bound *)
(* last before it has been drawn in its group since; and it is drawn in the*)
(* state of its group, unless a collection drawn before it in the group has*)
(* set its own.                                                            *)
DrawnAsBound ==
  \A n \in DOMAIN drawn :
    /\ drawn[n].what # Nested =>
         \/ drawn[n].bound = drawn[n].what
         \/ /\ drawn[n].bound = Nothing /\ g > 1
            /\ \A m \in 1 .. n : drawn[m].what = drawn[n].what
    /\ \/ drawn[n].state = g
       \/ \E m \in 1 .. n - 1 : drawn[m].what = Nested

(* The calls for a key draw each of its visible instances once, in order:  *)
(* no slot of a call is left over from another.  When a call cannot be     *)
(* made, an instance of its key is out of sight.                           *)
InstancesShown ==
  /\ pc = "slice" /\ actualI = Len(instanceables) => shown = Seen(instanceables)
  /\ pc = "threw" => \E n \in DOMAIN instanceables : instanceables[n] \notin visible

(* Drawing ends, whatever is out of sight, with the collections drawn or   *)
(* with an exception: the loop over a slice goes back one for each instance*)
(* it passes over and comes to its end all the same.                       *)
DrawEnds == pc # "build" ~> pc \in {"build", "threw"}
=============================================================================
