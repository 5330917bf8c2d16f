------------------------ MODULE DrawCollectionsProofs ------------------------
(***************************************************************************)
(* What a draw shows, for any drawables, groups, instances and bounds.     *)
(*                                                                         *)
(* The invariant says of every place in draw how far it has come: the slots*)
(* filled so far continue what the calls have shown (SliceInv), and what is*)
(* drawn of a group is what its iterator has returned of it (GroupInv).    *)
(***************************************************************************)
EXTENDS DrawCollections, SequenceTheorems, FiniteSetTheorems, TLAPS

F == INSTANCE FoldFacts WITH Op <- Keep

InInstances == {"instance state", "keys", "slice", "fill", "threw"}
InGroup == {"items"} \cup InInstances

BatchLists == [needsSort : BOOLEAN, added : Seq(Items), counts : [Items -> Nat]]
InstanceLists ==
  [draws : Drawables \cup {Nothing}, instances : [InstanceKeys -> Seq(Instanceables)]]
Bindables == Items \cup InstanceKeys \cup {Nothing}
Draws == [what : Items, bound : Bindables, state : Int]

TypeOK ==
  /\ pc \in {"build", "state"} \cup InGroup
  /\ last \in Items \cup {Nothing} /\ bound \in Bindables
  /\ drawn \in Seq(Draws) /\ state \in Int
  /\ keys \subseteq InstanceKeys /\ shown \in Seq(Instanceables)

(* The groups of each collection; the set of a group without sort counts   *)
(* what was added to it.                                                   *)
BatchesOK ==
  /\ batches \in Seq(BatchLists) /\ Len(batches) > 0
  /\ \A n \in 1 .. Len(batches) : \A d \in Items :
       batches[n].counts[d] = IF batches[n].needsSort THEN 0 ELSE Times(d, batches[n].added)

InstancesOK == instances \in Seq(InstanceLists) /\ Len(instances) > 0

BuildInv == BatchesOK /\ InstancesOK

(* Where draw is in them.                                                  *)
PlaceInv ==
  /\ pc = "state" => g \in 1 .. Len(batches) + 1
  /\ pc \in InGroup => g \in 1 .. Len(batches)
  /\ pc = "instance state" => h \in 1 .. Len(instances) + 1
  /\ pc \in {"keys", "slice", "fill", "threw"} => h \in 1 .. Len(instances)
  /\ pc \in {"slice", "fill", "threw"} => key \in InstanceKeys
  /\ pc # "build" => Nested \in visible

NestedDrawn == \E m \in 1 .. Len(drawn) : drawn[m].what = Nested

(* The callback of a group has bound something else, and only d, which is  *)
(* taken for what is bound, has been drawn since.                          *)
CarriedOver(d) ==
  bound = Nothing /\ g > 1 /\ \A m \in 1 .. Len(drawn) : drawn[m].what = d

(* What was bound last is bound, unless it is a collection, which binds    *)
(* what it likes, or carried over.                                         *)
BindInv ==
  /\ last \in Drawables => bound = last \/ CarriedOver(last)
  /\ pc = "build" \/ (pc = "state" /\ g = 1) => last = Nothing
  /\ pc \in InInstances => last = Nested /\ NestedDrawn
  /\ pc = "items" => state = g \/ NestedDrawn
  /\ pc \in {"build", "state"} => drawn = <<>>

FirstOf(n) == SubSeq(instanceables, 1, n)
Filled == [n \in 1 .. i |-> slots[n]]
Hidden(n) == \E m \in 1 .. n : instanceables[m] \notin visible

(* What is shown, with the slots filled, is what could be seen so far; a   *)
(* slice that is too long has met with an instance out of sight.           *)
SliceInv ==
  /\ pc \in {"slice", "fill"} => actualI \in 0 .. Len(instanceables)
  /\ pc = "slice" => shown = Seen(FirstOf(actualI))
  /\ pc = "fill" =>
       /\ v \in Nat /\ i \in 0 .. v /\ 1 .. i \subseteq DOMAIN slots
       /\ shown \o Filled = Seen(FirstOf(actualI))
       /\ v - i <= Len(instanceables) - actualI \/ Hidden(actualI)
  /\ pc = "threw" => Hidden(Len(instanceables))

(* How often the iterator has still to return d.                           *)
Rest(d) ==
  (IF d \in entries THEN batches[g].counts[d] ELSE 0) + (IF d = current THEN qnty ELSE 0)

GroupInv ==
  /\ pc \notin InGroup => qnty = 0
  /\ pc \in InGroup /\ batches[g].needsSort =>
       /\ entries = {} /\ qnty = 0
       /\ \E n \in 0 .. Len(batches[g].added) :
            /\ list = SubSeq(batches[g].added, n + 1, Len(batches[g].added))
            /\ DrawnItems = Seen(SubSeq(batches[g].added, 1, n))
  /\ pc \in InGroup /\ ~batches[g].needsSort =>
       /\ list = <<>>
       /\ entries \subseteq {d \in Items : batches[g].counts[d] > 0}
       /\ qnty \in Nat /\ (qnty > 0 => current \in Items \ entries)
       /\ \A d \in Items :
            Times(d, DrawnItems) = IF d \in visible THEN batches[g].counts[d] - Rest(d) ELSE 0

IInv == BuildInv /\ TypeOK /\ PlaceInv /\ BindInv /\ DrawnAsBound /\ SliceInv /\ GroupInv

-----------------------------------------------------------------------------
(* What can be seen of a sequence, and how often a thing occurs in one *)

LEMMA SeenIsFold == \A s : Seen(s) = F!Fold(<<>>, s)
BY DEF Seen, F!Fold, F!FoldLeft, FoldLeft, F!MapThenFoldSet, MapThenFoldSet, F!Max, Max

LEMMA SeenOfFirst ==
  ASSUME NEW S, NEW s \in Seq(S)
  PROVE  /\ Seen(SubSeq(s, 1, 0)) = <<>>
         /\ \A n \in 0 .. Len(s) - 1 :
              Seen(SubSeq(s, 1, n + 1)) = Keep(Seen(SubSeq(s, 1, n)), s[n + 1])
         /\ Seen(SubSeq(s, 1, Len(s))) = Seen(s)
<1>1. \A n : Seen(SubSeq(s, 1, n)) = F!Partial(<<>>, s, n)
  BY SeenIsFold, Zenon DEF F!Partial
<1>2. Seen(s) = F!Fold(<<>>, s)
  BY SeenIsFold, Zenon
<1> QED
  BY <1>1, <1>2, F!FoldByElements

(* As long as the same things are visible, the same can be seen.           *)
LEMMA SeenStays ==
  ASSUME visible' = visible
  PROVE  \A s : Seen(s)' = Seen(s)
BY DEF Seen, Keep, FoldLeft, MapThenFoldSet

LEMMA SeenIsSequence ==
  ASSUME NEW S, NEW s \in Seq(S)
  PROVE  Seen(s) \in Seq(S)
<1> DEFINE N == Len(s)
           P(n) == Seen(SubSeq(s, 1, n))
           T == {n \in 0 .. N : P(n) \in Seq(S)}
<1>0. N \in Nat
  OBVIOUS
<1>1. 0 \in T
  <2>1. P(0) = <<>> /\ 0 \in 0 .. N
    BY <1>0, SeenOfFirst
  <2>2. <<>> \in Seq(S)
    OBVIOUS
  <2> HIDE DEF P, N
  <2>3. P(0) \in Seq(S)
    BY <2>1, <2>2, Zenon
  <2> QED
    BY <2>1, <2>3, Zenon
<1>2. ASSUME NEW n \in 0 .. N - 1, n \in T PROVE n + 1 \in T
  <2>1. n + 1 \in 0 .. N /\ n + 1 \in 1 .. N
    BY <1>0
  <2>2. s[n + 1] \in S
    BY <2>1
  <2>3. P(n) \in Seq(S)
    BY <1>2
  <2>4. Keep(P(n), s[n + 1]) \in Seq(S)
    BY <2>2, <2>3 DEF Keep
  <2>5. P(n + 1) \in Seq(S)
    BY <2>4, SeenOfFirst
  <2> QED
    BY <2>1, <2>5
<1>3. 0 .. N \subseteq T
  <2> HIDE DEF T, N
  <2> QED
    BY <1>0, <1>1, <1>2, F!UpTo
<1> QED
  BY <1>0, <1>3, SeenOfFirst

LEMMA PlacesFinite ==
  ASSUME NEW n \in Nat, NEW A \in SUBSET (1 .. n)
  PROVE  IsFiniteSet(A) /\ Cardinality(A) \in Nat
<1>1. IsFiniteSet(1 .. n)
  BY FS_Interval
<1>2. IsFiniteSet(A)
  BY <1>1, FS_Subset
<1> QED
  BY <1>2, FS_CardinalityType

LEMMA TimesIsNumber ==
  ASSUME NEW S, NEW s \in Seq(S), NEW d
  PROVE  Times(d, s) \in Nat
<1> DEFINE A == {n \in DOMAIN s : s[n] = d}
<1>1. A \in SUBSET (1 .. Len(s)) /\ Len(s) \in Nat
  OBVIOUS
<1>2. Times(d, s) = Cardinality(A)
  BY DEF Times
<1> HIDE DEF A
<1> QED
  BY <1>1, <1>2, PlacesFinite

LEMMA TimesOfEmpty == \A d : Times(d, <<>>) = 0
BY FS_EmptySet DEF Times

LEMMA TimesOfAppend ==
  ASSUME NEW S, NEW s \in Seq(S), NEW e \in S, NEW d
  PROVE  Times(d, Append(s, e)) = Times(d, s) + (IF e = d THEN 1 ELSE 0)
<1> DEFINE At(q) == {n \in DOMAIN q : q[n] = d}
           t == Append(s, e)
<1>1. /\ Len(s) \in Nat /\ DOMAIN s = 1 .. Len(s) /\ DOMAIN t = 1 .. Len(s) + 1
      /\ t[Len(s) + 1] = e /\ \A n \in 1 .. Len(s) : t[n] = s[n]
  OBVIOUS
<1>2. IsFiniteSet(At(s))
  <2>1. At(s) \in SUBSET (1 .. Len(s))
    BY <1>1
  <2> HIDE DEF At
  <2> QED
    BY <1>1, <2>1, PlacesFinite
<1>3. At(t) = IF e = d THEN At(s) \cup {Len(s) + 1} ELSE At(s)
  <2> HIDE DEF t
  <2> QED
    BY <1>1
<1>4. Len(s) + 1 \notin At(s)
  BY <1>1
<1>5. Cardinality(At(s)) \in Nat
  BY <1>2, FS_CardinalityType
<1> HIDE DEF At
<1>6. e = d => Cardinality(At(t)) = Cardinality(At(s)) + 1
  BY <1>2, <1>3, <1>4, FS_AddElement
<1>7. Times(d, t) = Cardinality(At(t)) /\ Times(d, s) = Cardinality(At(s))
  BY DEF Times, At
<1> QED
  BY <1>3, <1>5, <1>6, <1>7

(* What is visible can be seen as often as it occurs.                      *)
LEMMA TimesOfSeen ==
  ASSUME NEW S, NEW s \in Seq(S), NEW d
  PROVE  Times(d, Seen(s)) = IF d \in visible THEN Times(d, s) ELSE 0
<1> DEFINE N == Len(s)
           First(n) == SubSeq(s, 1, n)
           T == {n \in 0 .. N :
                   Times(d, Seen(First(n))) = IF d \in visible THEN Times(d, First(n)) ELSE 0}
<1>0. N \in Nat /\ First(N) = s /\ First(0) = <<>>
  BY SubSeqFull
<1>1. 0 \in T
  <2>1. Seen(First(0)) = <<>> /\ First(0) = <<>>
    BY <1>0, SeenOfFirst
  <2> HIDE DEF First
  <2> QED
    BY <1>0, <2>1, TimesOfEmpty
<1>2. ASSUME NEW n \in 0 .. N - 1, n \in T PROVE n + 1 \in T
  <2>1. n + 1 \in 0 .. N /\ n + 1 \in 1 .. N
    BY <1>0
  <2>2. s[n + 1] \in S /\ First(n) \in Seq(S)
    BY <2>1
  <2>3. Seen(First(n + 1)) = Keep(Seen(First(n)), s[n + 1])
    BY SeenOfFirst
  <2>4. First(n + 1) = Append(First(n), s[n + 1])
    BY <2>1, SubSeqRecursiveSecond
  <2>5. Times(d, Seen(First(n))) = IF d \in visible THEN Times(d, First(n)) ELSE 0
    BY <1>2
  <2> HIDE DEF First
  <2>6. Times(d, First(n + 1)) = Times(d, First(n)) + (IF s[n + 1] = d THEN 1 ELSE 0)
    <3>1. Times(d, Append(First(n), s[n + 1])) = Times(d, First(n)) + (IF s[n + 1] = d THEN 1 ELSE 0)
      BY <2>2, TimesOfAppend
    <3> QED
      BY <2>4, <3>1, Zenon
  <2>7. Seen(First(n)) \in Seq(S)
    BY <2>2, SeenIsSequence
  <2>8. Times(d, Append(Seen(First(n)), s[n + 1]))
          = Times(d, Seen(First(n))) + (IF s[n + 1] = d THEN 1 ELSE 0)
    BY <2>2, <2>7, TimesOfAppend
  <2>9. Times(d, First(n)) \in Nat
    BY <2>2, TimesIsNumber
  <2>10. Times(d, Seen(First(n + 1))) = IF d \in visible THEN Times(d, First(n + 1)) ELSE 0
    BY <2>3, <2>5, <2>6, <2>8, <2>9 DEF Keep
  <2> QED
    BY <2>1, <2>10
<1>3. 0 .. N \subseteq T
  <2> HIDE DEF T, N
  <2> QED
    BY <1>0, <1>1, <1>2, F!UpTo
<1>4. N \in T
  BY <1>0, <1>3
<1> QED
  BY <1>0, <1>4

-----------------------------------------------------------------------------
(* Building keeps the types, and what sets count *)

(* QuantizedHashSet.add counts the element once more.                      *)
LEMMA BatchAdded ==
  ASSUME BuildInv, NEW d \in Items, batchAdd(d)
  PROVE  BatchesOK'
<1> DEFINE N == Len(batches)
           b == batches[N]
           c == WithItem(b, d)
<1>1. /\ N \in Nat \ {0} /\ b \in BatchLists /\ batches \in Seq(BatchLists)
      /\ \A n \in 1 .. N : batches[n] \in BatchLists
  BY DEF BuildInv, BatchesOK, InstancesOK
<1>2. /\ c.needsSort = b.needsSort /\ c.added = Append(b.added, d)
      /\ c.counts = IF b.needsSort THEN b.counts ELSE [b.counts EXCEPT ![d] = @ + 1]
      /\ c \in BatchLists
  <2>1. b.added \in Seq(Items) /\ b.counts \in [Items -> Nat] /\ b.needsSort \in BOOLEAN
    BY <1>1 DEF BatchLists
  <2> HIDE DEF b
  <2>2. c = [needsSort |-> b.needsSort, added |-> Append(b.added, d),
             counts |-> IF b.needsSort THEN b.counts ELSE [b.counts EXCEPT ![d] = @ + 1]]
    BY DEF WithItem
  <2>3. Append(b.added, d) \in Seq(Items)
    BY <2>1
  <2>4. (IF b.needsSort THEN b.counts ELSE [b.counts EXCEPT ![d] = @ + 1]) \in [Items -> Nat]
    BY <2>1
  <2> QED
    BY <2>1, <2>2, <2>3, <2>4 DEF BatchLists
<1>3. batches' = [batches EXCEPT ![N] = c]
  BY DEF batchAdd
<1> HIDE DEF b, c
<1>4. batches' \in Seq(BatchLists) /\ Len(batches') = N
  BY <1>1, <1>2, <1>3
<1>5. ASSUME NEW n \in 1 .. N, NEW e \in Items
      PROVE  batches'[n].counts[e]
               = IF batches'[n].needsSort THEN 0 ELSE Times(e, batches'[n].added)
  <2>1. CASE n # N
    BY <1>1, <1>3, <2>1 DEF BuildInv, BatchesOK, InstancesOK
  <2>2. CASE n = N
    <3>1. batches'[n] = c
      BY <1>1, <1>3, <2>2
    <3>2. b.counts[e] = IF b.needsSort THEN 0 ELSE Times(e, b.added)
      BY <1>1 DEF BuildInv, BatchesOK, InstancesOK, b
    <3>3. b.counts \in [Items -> Nat] /\ b.added \in Seq(Items)
      BY <1>1 DEF BatchLists
    <3>4. Times(e, c.added) = Times(e, b.added) + (IF d = e THEN 1 ELSE 0)
      BY <1>2, <3>3, TimesOfAppend
    <3>5. Times(e, b.added) \in Nat
      BY <3>3, TimesIsNumber
    <3>6. c.counts[e] = IF b.needsSort \/ d # e THEN b.counts[e] ELSE b.counts[e] + 1
      BY <1>2, <3>3
    <3>7. c.counts[e] = IF c.needsSort THEN 0 ELSE Times(e, c.added)
      <4>1. CASE b.needsSort
        BY <1>2, <3>2, <3>6, <4>1
      <4>2. CASE ~b.needsSort
        BY <1>2, <3>2, <3>4, <3>5, <3>6, <4>2
      <4> QED
        BY <4>1, <4>2
    <3> QED
      BY <3>1, <3>7
  <2> QED
    BY <2>1, <2>2
<1> QED
  BY <1>1, <1>4, <1>5 DEF BatchesOK

(* A new group has nothing to count.                                       *)
LEMMA BatchStarted ==
  ASSUME BuildInv, NEW needsSort \in BOOLEAN,
         batchSetupState(needsSort) \/ batchReset(needsSort)
  PROVE  BatchesOK'
<1> DEFINE b == BatchList(needsSort)
<1>1. /\ b \in BatchLists /\ \A d \in Items : b.counts[d] = 0 /\ b.added = <<>>
  BY DEF BatchList, BatchLists
<1>2. \A d : Times(d, <<>>) = 0
  BY TimesOfEmpty
<1>3. batches' = <<b>> \/ batches' = Append(batches, b)
  BY DEF batchSetupState, batchReset
<1>4. batches \in Seq(BatchLists) /\ Len(batches) \in Nat
  BY DEF BuildInv, BatchesOK, InstancesOK
<1> HIDE DEF b
<1>5. batches' \in Seq(BatchLists) /\ Len(batches') > 0
  <2>1. CASE batches' = <<b>>
    BY <1>1, <2>1
  <2>2. CASE batches' = Append(batches, b)
    BY <1>1, <1>4, <2>2
  <2> QED
    BY <1>3, <2>1, <2>2
<1>6. ASSUME NEW n \in 1 .. Len(batches') PROVE batches'[n] = b \/ (n \in 1 .. Len(batches) /\ batches'[n] = batches[n])
  <2>1. CASE batches' = <<b>>
    <3>1. Len(<<b>>) = 1 /\ <<b>>[1] = b
      OBVIOUS
    <3>2. n = 1
      BY <2>1, <3>1
    <3> QED
      BY <2>1, <3>1, <3>2
  <2>2. CASE batches' = Append(batches, b)
    <3>1. /\ Len(batches') = Len(batches) + 1 /\ batches'[Len(batches) + 1] = b
          /\ \A m \in 1 .. Len(batches) : batches'[m] = batches[m]
      BY <1>1, <1>4, <2>2, AppendProperties
    <3>2. n \in 1 .. Len(batches) \/ n = Len(batches) + 1
      BY <1>4, <3>1
    <3> QED
      BY <3>1, <3>2
  <2> QED
    BY <1>3, <2>1, <2>2
<1>7. ASSUME NEW n \in 1 .. Len(batches'), NEW d \in Items
      PROVE  batches'[n].counts[d]
               = IF batches'[n].needsSort THEN 0 ELSE Times(d, batches'[n].added)
  <2>1. CASE batches'[n] = b
    <3>1. b.counts[d] = 0 /\ Times(d, b.added) = 0
      BY <1>1, <1>2
    <3> QED
      BY <2>1, <3>1
  <2>2. CASE n \in 1 .. Len(batches) /\ batches'[n] = batches[n]
    BY <2>2 DEF BuildInv, BatchesOK, InstancesOK
  <2> QED
    BY <1>6, <2>1, <2>2
<1> QED
  BY <1>5, <1>7 DEF BatchesOK

LEMMA InstancesBuilt ==
  ASSUME BuildInv,
         \/ \E e \in Instanceables : instanceAdd(e)
         \/ \E d \in Drawables \cup {Nothing} : instanceSetupState(d)
         \/ instanceReset
  PROVE  InstancesOK'
<1>1. /\ instances \in Seq(InstanceLists) /\ Len(instances) \in Nat \ {0}
  BY DEF BuildInv, BatchesOK, InstancesOK
<1>2. \A d \in Drawables \cup {Nothing} : InstanceList(d) \in InstanceLists
  BY DEF InstanceList, InstanceLists
<1>3. CASE \E d \in Drawables \cup {Nothing} : instanceSetupState(d)
  BY <1>1, <1>2, <1>3 DEF instanceSetupState, InstancesOK
<1>4. CASE instanceReset
  <2>1. instances' = <<InstanceList(Nothing)>> /\ InstanceList(Nothing) \in InstanceLists
    BY <1>2, <1>4 DEF instanceReset
  <2> QED
    BY <2>1 DEF InstancesOK
<1>5. ASSUME NEW e \in Instanceables, instanceAdd(e)
      PROVE  InstancesOK'
  <2> DEFINE l == instances[Len(instances)]
             m == [l EXCEPT !.instances[comparator[e]] = Append(@, e)]
  <2>1. l \in InstanceLists /\ comparator[e] \in InstanceKeys
    BY <1>1 DEF InstanceKeys
  <2>2. instances' = [instances EXCEPT ![Len(instances)] = m]
    BY <1>5 DEF instanceAdd
  <2> HIDE DEF l
  <2>3. m \in InstanceLists
    <3>1. l.draws \in Drawables \cup {Nothing} /\ l.instances \in [InstanceKeys -> Seq(Instanceables)]
      BY <2>1 DEF InstanceLists
    <3>2. m.draws = l.draws /\ m.instances = [l.instances EXCEPT ![comparator[e]] = Append(@, e)]
      BY <2>1 DEF InstanceLists
    <3>3. m.instances \in [InstanceKeys -> Seq(Instanceables)]
      BY <2>1, <3>1, <3>2
    <3> QED
      BY <2>1, <3>1, <3>2, <3>3 DEF InstanceLists
  <2> HIDE DEF m
  <2> QED
    BY <1>1, <2>2, <2>3 DEF InstancesOK
<1> QED
  BY <1>3, <1>4, <1>5

-----------------------------------------------------------------------------
(* Draw, step by step *)

LEMMA InitInv == DrawAssumption /\ Init => IInv
<1> SUFFICES ASSUME DrawAssumption, Init PROVE IInv
  OBVIOUS
<1>1. BuildInv
  <2>1. ASSUME NEW needsSort \in BOOLEAN
        PROVE  /\ BatchList(needsSort) \in BatchLists
               /\ \A d \in Items : BatchList(needsSort).counts[d] = 0
               /\ BatchList(needsSort).added = <<>>
    BY DEF BatchList, BatchLists
  <2>2. InstanceList(Nothing) \in InstanceLists
    BY DEF InstanceList, InstanceLists
  <2>3. InstancesOK
    BY <2>2 DEF Init, InstancesOK
  <2>4. PICK needsSort \in BOOLEAN : batches = <<BatchList(needsSort)>>
    BY DEF Init
  <2>5. BatchesOK
    BY <2>1, <2>4, TimesOfEmpty DEF BatchesOK
  <2> QED
    BY <2>3, <2>5 DEF BuildInv
<1>2. TypeOK /\ PlaceInv /\ SliceInv
  BY DEF Init, TypeOK, PlaceInv, SliceInv, InGroup, InInstances, Bindables
<1>3. BindInv /\ GroupInv /\ DrawnAsBound
  BY DEF Init, BindInv, GroupInv, DrawnAsBound, InGroup, InInstances, DrawAssumption
<1> QED
  BY <1>1, <1>2, <1>3 DEF IInv

(* Between draws only what the collections hold changes.                   *)
LEMMA BuildKeeps == IInv /\ Build => IInv'
<1> SUFFICES ASSUME IInv, Build PROVE IInv'
  OBVIOUS
<1>1. /\ pc = "build" /\ pc' = "build" /\ visible' = visible
      /\ UNCHANGED <<batchLoop, instanceLoop, buffer>>
      /\ BuildInv /\ TypeOK /\ PlaceInv /\ BindInv /\ DrawnAsBound /\ SliceInv /\ GroupInv
  BY DEF Build, IInv
<1>2. BuildInv'
  <2>1. CASE UNCHANGED instances /\ BatchesOK'
    BY <1>1, <2>1 DEF BuildInv, InstancesOK
  <2>2. CASE UNCHANGED batches /\ InstancesOK'
    BY <1>1, <2>2 DEF BuildInv, BatchesOK, Times
  <2>3. ASSUME NEW d \in Items, batchAdd(d) PROVE BuildInv'
    BY <1>1, <2>1, <2>3, BatchAdded DEF batchAdd
  <2>4. ASSUME NEW s \in BOOLEAN, batchSetupState(s) \/ batchReset(s) PROVE BuildInv'
    BY <1>1, <2>1, <2>4, BatchStarted DEF batchSetupState, batchReset
  <2>5. ASSUME \/ \E e \in Instanceables : instanceAdd(e)
               \/ \E d \in Drawables \cup {Nothing} : instanceSetupState(d)
               \/ instanceReset
        PROVE  BuildInv'
    BY <1>1, <2>2, <2>5, InstancesBuilt DEF instanceAdd, instanceSetupState, instanceReset
  <2> QED
    BY <2>3, <2>4, <2>5 DEF Build
<1>3. TypeOK'
  BY <1>1 DEF TypeOK, batchLoop, instanceLoop, buffer
<1>4. PlaceInv' /\ SliceInv'
  BY <1>1 DEF PlaceInv, SliceInv, InGroup, InInstances
<1>5. BindInv' /\ DrawnAsBound' /\ GroupInv'
  BY <1>1 DEF BindInv, CarriedOver, DrawnAsBound, NestedDrawn, GroupInv, batchLoop, instanceLoop, buffer, InGroup, InInstances
<1> QED
  BY <1>2, <1>3, <1>4, <1>5 DEF IInv

(* A draw changes no collection.                                           *)
LEMMA BuildStays == BuildInv /\ UNCHANGED <<batches, instances>> => BuildInv'
<1> SUFFICES ASSUME BuildInv, batches' = batches, instances' = instances PROVE BuildInv'
  OBVIOUS
<1>1. InstancesOK'
  BY DEF BuildInv, InstancesOK
<1>2. BatchesOK'
  BY DEF BuildInv, BatchesOK, Times
<1> QED
  BY <1>1, <1>2 DEF BuildInv

(* A draw starts with no group drawn.                                      *)
LEMMA StartDrawKeeps == IInv /\ StartDraw => IInv'
<1> SUFFICES ASSUME IInv, StartDraw PROVE IInv'
  OBVIOUS
<1>1. /\ pc = "build" /\ pc' = "state" /\ g' = 1 /\ Nested \in visible'
      /\ UNCHANGED <<batches, instances, last, list, entries, current, qnty, instanceLoop, buffer>>
      /\ BuildInv /\ TypeOK /\ PlaceInv /\ BindInv /\ DrawnAsBound /\ SliceInv /\ GroupInv
  BY DEF StartDraw, IInv
<1>2. BuildInv'
  BY <1>1, BuildStays
<1>3. TypeOK'
  BY <1>1 DEF TypeOK, instanceLoop, buffer
<1>4. PlaceInv' /\ SliceInv'
  <2>1. Len(batches) \in Nat /\ Len(batches) > 0
    BY <1>1 DEF BuildInv, BatchesOK
  <2> QED
    BY <1>1, <2>1 DEF PlaceInv, SliceInv, InGroup, InInstances
<1>5. BindInv' /\ DrawnAsBound' /\ GroupInv'
  BY <1>1 DEF BindInv, CarriedOver, DrawnAsBound, NestedDrawn, GroupInv, buffer, InGroup, InInstances
<1> QED
  BY <1>2, <1>3, <1>4, <1>5 DEF IInv

(* The state callback of a group, and its iterator.                        *)
LEMMA RunStateKeeps == DrawAssumption /\ IInv /\ RunState => IInv'
<1> SUFFICES ASSUME DrawAssumption, IInv, RunState PROVE IInv'
  OBVIOUS
<1>1. /\ pc = "state" /\ g <= Len(batches) /\ pc' = "items" /\ state' = g
      /\ bound' \in {bound, Nothing}
      /\ list' = IF batches[g].needsSort THEN batches[g].added ELSE <<>>
      /\ entries' = {d \in Items : batches[g].counts[d] > 0}
      /\ UNCHANGED <<collections, g, last, current, qnty, instanceLoop, drawn, slots, shown>>
      /\ BuildInv /\ TypeOK /\ PlaceInv /\ BindInv /\ DrawnAsBound /\ SliceInv /\ GroupInv
  BY DEF RunState, IInv
<1>2. BuildInv'
  BY <1>1, BuildStays DEF collections
<1>3. g \in 1 .. Len(batches) /\ drawn = <<>> /\ qnty = 0
  <2>1. Len(batches) \in Nat
    BY <1>1 DEF BuildInv, BatchesOK
  <2> QED
    BY <1>1, <2>1 DEF PlaceInv, BindInv, GroupInv, InGroup, InInstances
<1>4. TypeOK'
  BY <1>1, <1>3 DEF TypeOK, instanceLoop, InGroup, Bindables
<1>5. PlaceInv' /\ SliceInv'
  BY <1>1, <1>3 DEF PlaceInv, SliceInv, InGroup, InInstances, collections
<1>6. BindInv' /\ DrawnAsBound'
  <2>1. g = 1 => last \notin Drawables
    BY <1>1 DEF BindInv, DrawAssumption
  <2>2. last' = last /\ drawn' = <<>> /\ g' = g /\ DOMAIN <<>> = {} /\ (g = 1 \/ g > 1)
    BY <1>1, <1>3
  <2>3. CarriedOver(last) => bound = Nothing
    BY DEF CarriedOver
  <2>4. bound' = Nothing /\ g > 1 => CarriedOver(last)'
    BY <2>2 DEF CarriedOver
  <2>5. last' \in Drawables => bound' = last' \/ CarriedOver(last)'
    BY <1>1, <2>1, <2>2, <2>3, <2>4 DEF BindInv
  <2> QED
    BY <1>1, <2>2, <2>5 DEF BindInv, DrawnAsBound, NestedDrawn, InGroup, InInstances
<1>7. GroupInv'
  <2> DEFINE b == batches[g]
             N == Len(b.added)
  <2>1. b \in BatchLists /\ \A d \in Items : b.counts[d] = IF b.needsSort THEN 0 ELSE Times(d, b.added)
    BY <1>1, <1>3 DEF BuildInv, BatchesOK
  <2>2. b.added \in Seq(Items) /\ b.counts \in [Items -> Nat]
    BY <2>1 DEF BatchLists
  <2>3. drawn' = <<>> /\ DrawnItems' = <<>> /\ b' = b /\ visible' = visible
    BY <1>1, <1>3 DEF DrawnItems, collections
  <2>4. ASSUME b.needsSort
        PROVE  /\ entries' = {}
               /\ \E n \in 0 .. N : /\ list' = SubSeq(b.added, n + 1, N)
                                    /\ DrawnItems' = Seen(SubSeq(b.added, 1, n))'
    <3>1. entries' = {}
      BY <1>1, <2>1, <2>4
    <3>2. SubSeq(b.added, 0 + 1, N) = b.added /\ 0 \in 0 .. N
      BY <2>2, SubSeqFull
    <3>3. Seen(SubSeq(b.added, 1, 0)) = <<>>
      BY <2>2, SeenOfFirst
    <3>4. \A s : Seen(s)' = Seen(s)
      BY <2>3, SeenStays
    <3>5. Seen(SubSeq(b.added, 1, 0))' = <<>>
      BY <2>3, <3>3, <3>4
    <3> QED
      BY <1>1, <2>3, <2>4, <3>1, <3>2, <3>5
  <2>5. ASSUME ~b.needsSort
        PROVE  /\ list' = <<>>
               /\ \A d \in Items : Times(d, DrawnItems)' = 0 /\ b.counts[d] = Rest(d)'
    <3>1. \A d : Times(d, DrawnItems)' = 0
      <4>1. \A d : Times(d, <<>>) = 0
        BY TimesOfEmpty
      <4> QED
        BY <2>3, <4>1 DEF Times
    <3>2. ASSUME NEW d \in Items PROVE b.counts[d] = Rest(d)'
      <4>1. b.counts[d] \in Nat /\ qnty' = 0
        BY <1>1, <1>3, <2>2
      <4>2. Rest(d)' = (IF d \in entries' THEN b.counts[d] ELSE 0) + (IF d = current' THEN 0 ELSE 0)
        BY <1>1, <2>3, <4>1 DEF Rest
      <4> QED
        BY <1>1, <4>1, <4>2
    <3> QED
      BY <1>1, <2>5, <3>1, <3>2
  <2> QED
    BY <1>1, <1>3, <2>2, <2>3, <2>4, <2>5 DEF GroupInv, InGroup
<1> QED
  BY <1>2, <1>4, <1>5, <1>6, <1>7 DEF IInv

(* What an item drawn adds to what was drawn before.                       *)
LEMMA ItemDrawn ==
  ASSUME IInv, NEW d \in Items, Item(d)
  PROVE  /\ drawn' \in Seq(Draws) /\ bound' \in Bindables
         /\ d \notin visible =>
              drawn' = drawn /\ last' = last /\ bound' = bound
         /\ d \in visible =>
              LET e == [what |-> d, bound |-> bound', state |-> state]
              IN  /\ Len(drawn') = Len(drawn) + 1 /\ drawn'[Len(drawn) + 1] = e
                  /\ \A n \in 1 .. Len(drawn) : drawn'[n] = drawn[n]
                  /\ last' = d /\ bound' = IF last = d \/ d = Nested THEN bound ELSE d
         /\ DrawnItems \in Seq(Items) /\ DrawnItems' = Keep(DrawnItems, d)
<1> DEFINE e == [what |-> d, bound |-> bound', state |-> state]
<1>1. /\ drawn \in Seq(Draws) /\ Len(drawn) \in Nat /\ DOMAIN drawn = 1 .. Len(drawn)
      /\ bound \in Bindables /\ state \in Int
      /\ \A n \in 1 .. Len(drawn) : drawn[n].what \in Items
  <2>1. drawn \in Seq(Draws) /\ bound \in Bindables /\ state \in Int
    BY DEF IInv, TypeOK
  <2>2. \A n \in 1 .. Len(drawn) : drawn[n] \in Draws
    BY <2>1
  <2>3. \A n \in 1 .. Len(drawn) : drawn[n].what \in Items
    BY <2>2 DEF Draws
  <2> QED
    BY <2>1, <2>3
<1>2. d \notin visible => drawn' = drawn /\ last' = last /\ bound' = bound
  BY DEF Item
<1>3. d \in visible => drawn' = Append(drawn, e) /\ last' = d
                       /\ bound' = IF last = d \/ d = Nested THEN bound ELSE d
  BY DEF Item, Bind
<1>4. bound' \in Bindables
  BY <1>1, <1>2, <1>3 DEF Bindables
<1>5. e \in Draws /\ e.what = d
  BY <1>1, <1>4 DEF Draws
<1>6. DrawnItems \in Seq(Items)
  BY <1>1 DEF DrawnItems
<1> HIDE DEF e
<1>7. drawn' \in Seq(Draws)
  BY <1>1, <1>2, <1>3, <1>5
<1>8. d \in visible =>
        /\ Len(drawn') = Len(drawn) + 1 /\ drawn'[Len(drawn) + 1] = e
        /\ \A n \in 1 .. Len(drawn) : drawn'[n] = drawn[n]
  BY <1>1, <1>3, <1>5
<1>9. DrawnItems' = Keep(DrawnItems, d)
  <2>1. CASE d \notin visible
    BY <1>2, <2>1 DEF DrawnItems, Keep
  <2>2. CASE d \in visible
    <3>1. DrawnItems' = [n \in DOMAIN drawn' |-> drawn'[n].what]
      BY DEF DrawnItems
    <3>2. DOMAIN drawn' = 1 .. Len(drawn) + 1
      BY <1>1, <1>7, <1>8, <2>2
    <3>3. \A n \in 1 .. Len(drawn) + 1 :
             drawn'[n].what = IF n = Len(drawn) + 1 THEN d ELSE DrawnItems[n]
      BY <1>1, <1>5, <1>8, <2>2 DEF DrawnItems
    <3>4. Len(DrawnItems) = Len(drawn)
      BY <1>1 DEF DrawnItems
    <3> DEFINE s == DrawnItems
               a == Append(s, d)
    <3>5. s \in Seq(Items) /\ Len(s) = Len(drawn)
      BY <1>6, <3>4
    <3> HIDE DEF s
    <3>6. /\ a = [n \in 1 .. Len(drawn) + 1 |-> a[n]]
          /\ \A n \in 1 .. Len(drawn) + 1 :
               a[n] = IF n = Len(drawn) + 1 THEN d ELSE s[n]
      <4>1. /\ a \in Seq(Items) /\ Len(a) = Len(s) + 1
            /\ \A n \in 1 .. Len(s) : a[n] = s[n]
            /\ a[Len(s) + 1] = d
        BY <3>5, AppendProperties
      <4> HIDE DEF a
      <4> QED
        BY <1>1, <3>5, <4>1
    <3> HIDE DEF a
    <3>7. DrawnItems' = a
      BY <3>1, <3>2, <3>3, <3>6 DEF s
    <3> QED
      BY <2>2, <3>7 DEF Keep, a, s
  <2> QED
    BY <2>1, <2>2
<1> QED
  BY <1>2, <1>3, <1>4, <1>6, <1>7, <1>8, <1>9 DEF e

(* The iterator of a sorted group goes through the list, that of another   *)
(* returns each element of the set once more.                              *)
LEMMA ItemKeepsGroup ==
  ASSUME IInv, NEW d \in Items, Item(d)
  PROVE  GroupInv'
<1> DEFINE b == batches[g]
           N == Len(b.added)
<1>1. /\ pc = "items" /\ pc' \in InGroup /\ UNCHANGED <<batches, visible, g>>
      /\ NextItem(d) /\ GroupInv
  BY DEF Item, IInv, InGroup, InInstances, collections
<1>2. /\ b \in BatchLists /\ b.added \in Seq(Items) /\ b.counts \in [Items -> Nat]
      /\ b.needsSort \in BOOLEAN /\ b' = b
  <2>1. b \in BatchLists
    BY <1>1 DEF IInv, BuildInv, BatchesOK, PlaceInv, InGroup
  <2> QED
    BY <1>1, <2>1 DEF BatchLists
<1>3. DrawnItems \in Seq(Items) /\ DrawnItems' = Keep(DrawnItems, d)
  BY ItemDrawn
<1>4. \A s : Seen(s)' = Seen(s)
  BY <1>1, SeenStays
<1>5. CASE b.needsSort
  <2>1. entries = {} /\ qnty = 0
    BY <1>1, <1>5 DEF GroupInv, InGroup
  <2>2. PICK n \in 0 .. N : /\ list = SubSeq(b.added, n + 1, N)
                            /\ DrawnItems = Seen(SubSeq(b.added, 1, n))
    BY <1>1, <1>5 DEF GroupInv, InGroup
  <2>3. list # <<>> /\ d = Head(list) /\ list' = Tail(list) /\ UNCHANGED <<entries, qnty>>
    BY <1>1, <2>1 DEF NextItem
  <2>4. N \in Nat /\ n \in 0 .. N - 1 /\ n + 1 \in 0 .. N
    BY <1>2, <2>2, <2>3
  <2>5. d = b.added[n + 1] /\ Tail(list) = SubSeq(b.added, (n + 1) + 1, N)
    <3> DEFINE s == b.added
    <3>1. s \in Seq(Items)
      BY <1>2
    <3> HIDE DEF s, b
    <3>2. list = SubSeq(s, n + 1, N) /\ n + 1 \in 1 .. N /\ N = Len(s)
      BY <2>2, <2>4 DEF s
    <3>3. Head(list) = s[n + 1] /\ Tail(list) = SubSeq(s, n + 2, N)
      BY <2>4, <3>1, <3>2
    <3>4. n + 2 = (n + 1) + 1
      BY <2>4
    <3> QED
      BY <2>3, <3>3, <3>4 DEF s
  <2>6. DrawnItems' = Seen(SubSeq(b.added, 1, n + 1))
    BY <1>2, <1>3, <2>2, <2>4, <2>5, SeenOfFirst
  <2>7. DrawnItems' = Seen(SubSeq(b.added, 1, n + 1))'
    BY <1>2, <1>4, <2>6
  <2>8. list' = SubSeq(b.added, (n + 1) + 1, N)
    BY <2>3, <2>5
  <2> QED
    BY <1>1, <1>2, <1>5, <2>1, <2>3, <2>4, <2>7, <2>8 DEF GroupInv
<1>6. CASE ~b.needsSort
  <2>1. /\ list = <<>>
        /\ entries \subseteq {e \in Items : b.counts[e] > 0}
        /\ qnty \in Nat /\ (qnty > 0 => current \in Items \ entries)
        /\ \A e \in Items :
             Times(e, DrawnItems) = IF e \in visible THEN b.counts[e] - Rest(e) ELSE 0
    BY <1>1, <1>6 DEF GroupInv, InGroup
  <2>2. list' = <<>>
    BY <1>1, <2>1 DEF NextItem
  <2>3. \/ qnty > 0 /\ d = current /\ qnty' = qnty - 1 /\ UNCHANGED <<entries, current>>
        \/ /\ qnty = 0 /\ d \in entries /\ entries' = entries \ {d}
           /\ current' = d /\ qnty' = b.counts[d] - 1
    BY <1>1, <2>1 DEF NextItem, LeftOf
  <2>4. \A e \in Items : b.counts[e] \in Nat
    BY <1>2
  <2> HIDE DEF b
  <2>5. /\ entries' \subseteq {e \in Items : b.counts[e] > 0}
        /\ qnty' \in Nat /\ (qnty' > 0 => current' \in Items \ entries')
    BY <2>1, <2>3, <2>4
  <2>6. /\ Rest(d) \in Nat /\ Rest(d)' = Rest(d) - 1
        /\ \A e \in Items : e # d => Rest(e)' = Rest(e)
    <3>1. \A e \in Items : /\ Rest(e) = (IF e \in entries THEN b.counts[e] ELSE 0)
                                          + (IF e = current THEN qnty ELSE 0)
                           /\ Rest(e)' = (IF e \in entries' THEN b.counts[e] ELSE 0)
                                           + (IF e = current' THEN qnty' ELSE 0)
      BY <1>1, <1>2 DEF Rest, b
    <3> QED
      BY <2>1, <2>3, <2>4, <3>1
  <2>7. ASSUME NEW e \in Items
        PROVE  Times(e, DrawnItems)' = IF e \in visible' THEN b.counts[e] - Rest(e)' ELSE 0
    <3>1. Times(e, DrawnItems) = IF e \in visible THEN b.counts[e] - Rest(e) ELSE 0
      BY <2>1
    <3>2. Times(e, DrawnItems)' = Times(e, Keep(DrawnItems, d))
      BY <1>3 DEF Times
    <3>3. Times(e, Append(DrawnItems, d)) = Times(e, DrawnItems) + (IF d = e THEN 1 ELSE 0)
      BY <1>3, TimesOfAppend
    <3>4. Rest(e) \in Nat /\ b.counts[e] \in Nat
      BY <1>1, <1>2, <2>1, <2>4 DEF Rest, b
    <3>5. CASE d \in visible /\ e = d
      BY <1>1, <2>6, <3>1, <3>2, <3>3, <3>4, <3>5 DEF Keep
    <3>6. CASE d \in visible /\ e # d
      BY <1>1, <2>6, <3>1, <3>2, <3>3, <3>4, <3>6 DEF Keep
    <3>7. CASE d \notin visible
      BY <1>1, <2>6, <3>1, <3>2, <3>7 DEF Keep
    <3> QED
      BY <3>5, <3>6, <3>7
  <2> USE DEF b
  <2> QED
    BY <1>1, <1>2, <1>6, <2>2, <2>5, <2>7 DEF GroupInv
<1> QED
  BY <1>2, <1>5, <1>6

(* Of the items only a collection leaves what was bound before.            *)
LEMMA ItemKeeps == DrawAssumption /\ IInv /\ (\E d \in Items : Item(d)) => IInv'
<1> SUFFICES ASSUME DrawAssumption, IInv, NEW d \in Items, Item(d) PROVE IInv'
  OBVIOUS
<1>1. /\ pc = "items"
      /\ d = Nested => pc' = "instance state" /\ h' = 1
      /\ d # Nested => pc' = "items"
      /\ UNCHANGED <<batches, instances, visible, g, keys, key, actualI, i, v, state, slots, shown>>
  BY DEF Item, collections
<1>0. BuildInv /\ TypeOK /\ PlaceInv /\ BindInv /\ DrawnAsBound /\ SliceInv /\ GroupInv
  BY DEF IInv
<1>2. /\ drawn \in Seq(Draws) /\ Len(drawn) \in Nat /\ DOMAIN drawn = 1 .. Len(drawn)
      /\ drawn' \in Seq(Draws) /\ DOMAIN drawn' = 1 .. Len(drawn')
  <2>1. drawn \in Seq(Draws)
    BY <1>0 DEF TypeOK
  <2>2. drawn' \in Seq(Draws)
    BY ItemDrawn
  <2> QED
    BY <2>1, <2>2
<1>3. BuildInv'
  BY <1>0, <1>1, BuildStays
<1>4. TypeOK'
  BY <1>0, <1>1, ItemDrawn DEF TypeOK, InGroup, InInstances
<1>5. PlaceInv' /\ SliceInv'
  <2>1. Len(instances) \in Nat /\ Len(instances) > 0
    BY <1>0 DEF BuildInv, InstancesOK
  <2>2. pc' \in {"items", "instance state"}
    BY <1>1
  <2>3. PlaceInv'
    <3>1. g \in 1 .. Len(batches) /\ Nested \in visible
      BY <1>0, <1>1 DEF PlaceInv, InGroup
    <3>2. CASE pc' = "items"
      BY <1>1, <3>1, <3>2 DEF PlaceInv
    <3>3. CASE pc' = "instance state" /\ h' = 1
      <4>1. /\ g' = g /\ Nested \in visible' /\ batches' = batches
            /\ instances' = instances
        BY <1>1, <3>1
      <4>2. h' \in 1 .. Len(instances) + 1
        <5>1. 1 \in 1 .. Len(instances) + 1
          BY <2>1
        <5> QED
          BY <3>3, <5>1, Zenon
      <4>3. h' \in 1 .. Len(instances') + 1
        BY <4>1, <4>2
      <4> QED
        BY <3>1, <3>3, <4>1, <4>3 DEF PlaceInv
    <3> QED
      BY <1>1, <3>2, <3>3
  <2>4. SliceInv'
    BY <2>2 DEF SliceInv
  <2> QED
    BY <2>3, <2>4
<1>6. Nested \in visible
  BY <1>0, <1>1 DEF PlaceInv
<1>7. state = g \/ NestedDrawn
  BY <1>0, <1>1 DEF BindInv
<1>8. CASE d \notin visible
  <2>1. /\ drawn' = drawn /\ last' = last /\ bound' = bound /\ pc' = pc
    BY <1>1, <1>6, <1>8, ItemDrawn, Zenon
  <2> QED
    BY <1>0, <1>1, <1>3, <1>4, <1>5, <2>1, ItemKeepsGroup
       DEF IInv, BindInv, CarriedOver, DrawnAsBound, NestedDrawn
<1>9. CASE d \in visible
  <2> DEFINE N == Len(drawn)
             e == [what |-> d, bound |-> bound', state |-> state]
  <2>1. /\ Len(drawn') = N + 1 /\ \A n \in 1 .. N : drawn'[n] = drawn[n]
        /\ drawn'[N + 1].what = d /\ drawn'[N + 1].bound = bound' /\ drawn'[N + 1].state = state
        /\ last' = d /\ bound' = IF last = d \/ d = Nested THEN bound ELSE d
    <3>1. /\ Len(drawn') = N + 1 /\ \A n \in 1 .. N : drawn'[n] = drawn[n]
          /\ drawn'[N + 1] = e
          /\ last' = d /\ bound' = IF last = d \/ d = Nested THEN bound ELSE d
      BY <1>9, ItemDrawn
    <3>2. e.what = d /\ e.bound = bound' /\ e.state = state
      OBVIOUS
    <3> HIDE DEF e
    <3> QED
      BY <3>1, <3>2
  <2>2. d \in Drawables => bound' = d \/ CarriedOver(d)'
    <3>1. ASSUME d \in Drawables, bound' # d PROVE CarriedOver(d)'
      <4>1. last = d /\ bound' = bound /\ CarriedOver(d)
        BY <1>0, <2>1, <3>1 DEF BindInv, DrawAssumption
      <4>2. bound' = Nothing /\ g' > 1 /\ \A m \in 1 .. N : drawn[m].what = d
        BY <1>1, <4>1 DEF CarriedOver
      <4>3. \A m \in 1 .. N + 1 : drawn'[m].what = d
        BY <1>2, <2>1, <4>2
      <4> QED
        BY <2>1, <4>2, <4>3 DEF CarriedOver
    <3> QED
      BY <3>1
  <2>3. NestedDrawn => NestedDrawn'
    BY <1>2, <2>1 DEF NestedDrawn
  <2>4. d = Nested => NestedDrawn'
    BY <1>2, <2>1 DEF NestedDrawn
  <2>5. BindInv'
    BY <1>0, <1>1, <1>7, <2>1, <2>2, <2>3, <2>4 DEF BindInv, InInstances
  <2>6. ASSUME NEW n \in 1 .. N + 1
        PROVE  /\ drawn'[n].what # Nested =>
                    \/ drawn'[n].bound = drawn'[n].what
                    \/ /\ drawn'[n].bound = Nothing /\ g > 1
                       /\ \A m \in 1 .. n : drawn'[m].what = drawn'[n].what
               /\ \/ drawn'[n].state = g
                  \/ \E m \in 1 .. n - 1 : drawn'[m].what = Nested
    <3>1. CASE n \in 1 .. N
      <4>1. /\ drawn[n].what # Nested =>
                 \/ drawn[n].bound = drawn[n].what
                 \/ /\ drawn[n].bound = Nothing /\ g > 1
                    /\ \A m \in 1 .. n : drawn[m].what = drawn[n].what
            /\ drawn[n].state = g \/ \E m \in 1 .. n - 1 : drawn[m].what = Nested
        BY <1>0, <1>2, <3>1 DEF DrawnAsBound
      <4>2. drawn'[n] = drawn[n] /\ \A m \in 1 .. n : drawn'[m] = drawn[m]
        BY <1>2, <2>1, <3>1
      <4>3. \A m \in 1 .. n - 1 : drawn'[m] = drawn[m]
        BY <1>2, <2>1, <3>1
      <4> QED
        BY <4>1, <4>2, <4>3
    <3>2. CASE n = N + 1
      <4>1. state = g \/ \E m \in 1 .. N : drawn'[m].what = Nested
        BY <1>7, <2>1 DEF NestedDrawn
      <4>2. d # Nested =>
              \/ bound' = d
              \/ bound' = Nothing /\ g > 1 /\ \A m \in 1 .. N + 1 : drawn'[m].what = d
        <5>1. CarriedOver(d)' => bound' = Nothing /\ g > 1 /\ \A m \in 1 .. N + 1 : drawn'[m].what = d
          BY <1>1, <2>1 DEF CarriedOver
        <5> QED
          BY <2>2, <5>1 DEF Items
      <4> QED
        BY <1>2, <2>1, <3>2, <4>1, <4>2
    <3> QED
      BY <1>2, <3>1, <3>2
  <2>7. DrawnAsBound'
    BY <1>0, <1>1, <1>2, <2>1, <2>6 DEF DrawnAsBound
  <2> QED
    BY <1>3, <1>4, <1>5, <2>5, <2>7, ItemKeepsGroup DEF IInv
<1> QED
  BY <1>8, <1>9

(* The next group starts with nothing drawn, and what is bound stays.      *)
LEMMA NextGroupKeeps == IInv /\ NextGroup => IInv'
<1> SUFFICES ASSUME IInv, NextGroup PROVE IInv'
  OBVIOUS
<1>1. /\ pc = "items" /\ pc' = "state" /\ g' = g + 1 /\ drawn' = <<>> /\ qnty = 0
      /\ UNCHANGED <<batches, instances, visible, last, qnty, keys, state, bound, shown>>
  BY DEF NextGroup, ItemsDone, collections, instanceLoop
<1>2. BuildInv /\ TypeOK /\ PlaceInv /\ BindInv /\ DrawnAsBound /\ SliceInv /\ GroupInv
  BY DEF IInv
<1>3. BuildInv'
  BY <1>1, <1>2, BuildStays
<1>4. TypeOK'
  BY <1>1, <1>2 DEF TypeOK
<1>5. PlaceInv'
  <2>1. g \in 1 .. Len(batches) /\ Nested \in visible
    BY <1>1, <1>2 DEF PlaceInv, InGroup
  <2>2. Len(batches) \in Nat
    BY <1>2 DEF BuildInv, BatchesOK
  <2>3. g + 1 \in 1 .. Len(batches) + 1
    BY <2>1, <2>2
  <2>4. g' \in 1 .. Len(batches') + 1
    BY <1>1, <2>3
  <2> QED
    BY <1>1, <2>1, <2>4 DEF PlaceInv, InGroup, InInstances
<1>6. BindInv'
  <2>1. g' > 1 /\ g' # 1 /\ last' = last /\ bound' = bound
    <3>1. g \in 1 .. Len(batches) /\ Len(batches) \in Nat
      BY <1>1, <1>2 DEF PlaceInv, InGroup, BuildInv, BatchesOK
    <3> QED
      BY <1>1, <3>1
  <2>2. \A m \in 1 .. Len(drawn') : drawn'[m].what = last
    <3>1. Len(<<>>) = 0 /\ 1 .. 0 = {}
      OBVIOUS
    <3> QED
      BY <1>1, <3>1, Zenon
  <2>3. last \in Drawables => bound' = last \/ CarriedOver(last)'
    BY <1>2, <2>1, <2>2 DEF BindInv, CarriedOver
  <2> QED
    BY <1>1, <2>1, <2>3 DEF BindInv, InInstances
<1>7. SliceInv' /\ DrawnAsBound' /\ GroupInv'
  BY <1>1, <1>2 DEF SliceInv, DrawnAsBound, GroupInv, InGroup, InInstances
<1> QED
  BY <1>3, <1>4, <1>5, <1>6, <1>7 DEF IInv

(* The end of a draw, which forgets what was bound.                        *)
LEMMA DrawnKeeps == IInv /\ DrawAssumption /\ Drawn => IInv'
<1> SUFFICES ASSUME IInv, DrawAssumption, Drawn PROVE IInv'
  OBVIOUS
<1>1. /\ pc = "state" /\ pc' = "build" /\ state' = 0 /\ bound' = Nothing /\ last' = Nothing
      /\ UNCHANGED <<batches, instances, qnty, keys, drawn, shown>>
  BY DEF Drawn, LastAtStart, instanceLoop
<1>2. BuildInv /\ TypeOK /\ PlaceInv /\ BindInv /\ DrawnAsBound /\ SliceInv /\ GroupInv
  BY DEF IInv
<1>3. BuildInv'
  BY <1>1, <1>2, BuildStays
<1>4. TypeOK'
  BY <1>1, <1>2 DEF TypeOK, Bindables
<1>5. PlaceInv' /\ SliceInv'
  BY <1>1 DEF PlaceInv, SliceInv, InGroup, InInstances
<1>6. BindInv' /\ DrawnAsBound' /\ GroupInv'
  BY <1>1, <1>2 DEF BindInv, CarriedOver, DrawnAsBound, GroupInv, NestedDrawn, InGroup, InInstances, DrawAssumption
<1> QED
  BY <1>3, <1>4, <1>5, <1>6 DEF IInv

(* The steps of the instance collection leave the batch alone; what they   *)
(* bind is taken for no drawable, since the collection was drawn last.     *)
LEMMA InnerStays ==
  ASSUME DrawAssumption, IInv, pc \in InInstances, pc' \in InGroup,
         UNCHANGED <<batches, instances, visible, batchLoop, drawn>>
  PROVE  BuildInv' /\ BindInv' /\ DrawnAsBound' /\ GroupInv'
<1>1. BuildInv /\ BindInv /\ DrawnAsBound /\ GroupInv
  BY DEF IInv
<1>2. BuildInv'
  BY <1>1, BuildStays
<1>3. g' = g /\ last' = last /\ list' = list /\ entries' = entries /\ current' = current /\ qnty' = qnty
  BY DEF batchLoop
<1>4. last = Nested /\ NestedDrawn
  BY <1>1 DEF BindInv
<1>5. BindInv'
  BY <1>3, <1>4 DEF BindInv, NestedDrawn, InGroup, InInstances, DrawAssumption
<1>6. DrawnAsBound'
  BY <1>1, <1>3 DEF DrawnAsBound
<1>7. GroupInv'
  <2>1. pc \in InGroup
    BY DEF InGroup
  <2>2. \A s : Seen(s)' = Seen(s)
    BY SeenStays
  <2>3. DrawnItems' = DrawnItems
    BY DEF DrawnItems
  <2>4. \A d \in Items : Rest(d)' = Rest(d) /\ Times(d, DrawnItems)' = Times(d, DrawnItems)
    BY <1>3, <2>3 DEF Rest, Times
  <2>5. CASE batches[g].needsSort
    <3>1. entries = {} /\ qnty = 0
      BY <1>1, <2>1, <2>5 DEF GroupInv
    <3>2. PICK n \in 0 .. Len(batches[g].added) :
             /\ list = SubSeq(batches[g].added, n + 1, Len(batches[g].added))
             /\ DrawnItems = Seen(SubSeq(batches[g].added, 1, n))
      BY <1>1, <2>1, <2>5 DEF GroupInv
    <3>3. DrawnItems' = Seen(SubSeq(batches[g].added, 1, n))'
      BY <1>3, <2>2, <2>3, <3>2
    <3> QED
      BY <1>3, <2>5, <3>1, <3>2, <3>3 DEF GroupInv
  <2>6. CASE ~batches[g].needsSort
    BY <1>1, <1>3, <2>1, <2>4, <2>6 DEF GroupInv
  <2> QED
    BY <2>5, <2>6
<1> QED
  BY <1>2, <1>5, <1>6, <1>7

LEMMA RunInstanceStateKeeps == DrawAssumption /\ IInv /\ RunInstanceState => IInv'
<1> SUFFICES ASSUME DrawAssumption, IInv, RunInstanceState PROVE IInv'
  OBVIOUS
<1>1. /\ pc = "instance state" /\ pc' = "keys" /\ h <= Len(instances)
      /\ IF instances[h].draws = Nothing
           THEN state' = -h /\ bound' \in {bound, Nothing}
           ELSE bound' \in {bound, instances[h].draws} /\ UNCHANGED state
      /\ keys' \subseteq InstanceKeys
      /\ UNCHANGED <<batches, instances, visible, batchLoop, h, drawn, shown>>
  BY DEF RunInstanceState, collections
<1>2. TypeOK /\ PlaceInv /\ BuildInv
  BY DEF IInv
<1>3. h \in 1 .. Len(instances)
  <2>1. h \in 1 .. Len(instances) + 1
    BY <1>1, <1>2 DEF PlaceInv
  <2>2. Len(instances) \in Nat
    BY <1>2 DEF BuildInv, InstancesOK
  <2>3. h <= Len(instances)
    BY <1>1
  <2> DEFINE N == Len(instances)
  <2> HIDE DEF N
  <2>4. h \in 1 .. N
    BY <2>1, <2>2, <2>3 DEF N
  <2> QED
    BY <2>4 DEF N
<1>4. BuildInv' /\ BindInv' /\ DrawnAsBound' /\ GroupInv'
  BY <1>1, InnerStays DEF InInstances, InGroup
<1>5. TypeOK'
  <2>1. instances[h] \in InstanceLists
    BY <1>2, <1>3 DEF BuildInv, InstancesOK
  <2>2. instances[h].draws \in Drawables \cup {Nothing}
    BY <2>1 DEF InstanceLists
  <2>3. bound \in Bindables /\ state \in Int /\ -h \in Int
    BY <1>2, <1>3 DEF TypeOK
  <2>4. instances[h].draws # Nothing => instances[h].draws \in Bindables
    BY <2>2 DEF Bindables, Items
  <2>5. bound' \in Bindables /\ state' \in Int
    <3>1. Nothing \in Bindables
      BY DEF Bindables
    <3> QED
      BY <1>1, <2>3, <2>4, <3>1, Zenon
  <2> QED
    BY <1>1, <1>2, <2>5 DEF TypeOK, batchLoop, InGroup, InInstances
<1>6. PlaceInv' /\ SliceInv'
  BY <1>1, <1>2, <1>3 DEF PlaceInv, SliceInv, batchLoop, InGroup, InInstances
<1> QED
  BY <1>4, <1>5, <1>6 DEF IInv

LEMMA InstancesDrawnKeeps == DrawAssumption /\ IInv /\ InstancesDrawn => IInv'
<1> SUFFICES ASSUME DrawAssumption, IInv, InstancesDrawn PROVE IInv'
  OBVIOUS
<1>1. /\ pc = "instance state" /\ pc' = "items"
      /\ UNCHANGED <<batches, instances, visible, batchLoop, keys, state, bound, drawn, shown>>
  BY DEF InstancesDrawn, collections, buffer
<1>2. TypeOK /\ PlaceInv
  BY DEF IInv
<1>3. BuildInv' /\ BindInv' /\ DrawnAsBound' /\ GroupInv'
  BY <1>1, InnerStays DEF InInstances, InGroup
<1>4. TypeOK'
  BY <1>1, <1>2 DEF TypeOK, batchLoop, InGroup, InInstances
<1>5. PlaceInv' /\ SliceInv'
  BY <1>1, <1>2 DEF PlaceInv, SliceInv, batchLoop, InGroup, InInstances
<1> QED
  BY <1>3, <1>4, <1>5 DEF IInv

(* The instances of the key that is drawn.                                 *)
LEMMA InstanceablesType ==
  ASSUME IInv, pc \in {"slice", "fill", "threw"}
  PROVE  instanceables \in Seq(Instanceables) /\ Len(instanceables) \in Nat
<1>1. h \in 1 .. Len(instances) /\ key \in InstanceKeys /\ instances \in Seq(InstanceLists)
  BY DEF IInv, PlaceInv, BuildInv, InstancesOK
<1>2. instances[h] \in InstanceLists
  BY <1>1
<1>3. instanceables \in Seq(Instanceables)
  BY <1>1, <1>2 DEF InstanceLists, instanceables
<1> QED
  BY <1>3

(* A key starts with nothing shown; the last leads to the next group.      *)
LEMMA NextKeyKeeps == DrawAssumption /\ IInv /\ NextKey => IInv'
<1> SUFFICES ASSUME DrawAssumption, IInv, NextKey PROVE IInv'
  OBVIOUS
<1>1. /\ pc = "keys" /\ pc' \in {"slice", "instance state"}
      /\ UNCHANGED <<batches, instances, visible, batchLoop, state, drawn>>
      /\ actualI' = 0 /\ shown' = <<>>
  BY DEF NextKey, collections
<1>2. TypeOK /\ PlaceInv /\ BuildInv
  BY DEF IInv
<1>3. /\ h \in 1 .. Len(instances) /\ Len(instances) \in Nat
      /\ g \in 1 .. Len(batches) /\ Nested \in visible
  <2>1. h \in 1 .. Len(instances) /\ g \in 1 .. Len(batches) /\ Nested \in visible
    BY <1>1, <1>2 DEF PlaceInv, InGroup, InInstances
  <2>2. Len(instances) \in Nat
    BY <1>2 DEF BuildInv, InstancesOK
  <2> QED
    BY <2>1, <2>2
<1>4. BuildInv' /\ BindInv' /\ DrawnAsBound' /\ GroupInv'
  BY <1>1, InnerStays DEF InInstances, InGroup
<1>5. \/ /\ pc' = "slice" /\ h' = h /\ key' \in InstanceKeys
         /\ keys' \subseteq InstanceKeys /\ bound' \in InstanceKeys
      \/ pc' = "instance state" /\ h' = h + 1 /\ keys' = keys /\ bound' = bound
  <2>1. keys \subseteq InstanceKeys
    BY <1>2 DEF TypeOK
  <2> QED
    BY <2>1 DEF NextKey
<1>6. TypeOK'
  <2>1. keys' \subseteq InstanceKeys /\ bound' \in Bindables
    BY <1>2, <1>5 DEF TypeOK, Bindables
  <2>2. shown' \in Seq(Instanceables)
    <3>1. <<>> \in Seq(Instanceables)
      OBVIOUS
    <3> QED
      BY <1>1, <3>1, Zenon
  <2> QED
    BY <1>1, <1>2, <2>1, <2>2 DEF TypeOK, batchLoop, InGroup, InInstances
<1>7. PlaceInv'
  <2>1. h \in 1 .. Len(instances) + 1 /\ h + 1 \in 1 .. Len(instances) + 1
    BY <1>3
  <2>2. h' \in 1 .. Len(instances) + 1 /\ (pc' = "slice" => h' \in 1 .. Len(instances))
    BY <1>3, <1>5, <2>1, Zenon
  <2> QED
    BY <1>1, <1>3, <1>5, <2>2 DEF PlaceInv, batchLoop, InGroup, InInstances
<1>8. SliceInv'
  <2>1. CASE pc' = "slice"
    <3> DEFINE s == instances[h].instances[key']
    <3>1. s \in Seq(Instanceables)
      <4>1. instances[h] \in InstanceLists /\ key' \in InstanceKeys
        BY <1>2, <1>3, <1>5, <2>1 DEF BuildInv, InstancesOK
      <4> QED
        BY <4>1 DEF InstanceLists
    <3>2. instanceables' = s
      BY <1>1, <1>5, <2>1 DEF instanceables
    <3> HIDE DEF s
    <3>3. Seen(SubSeq(s, 1, 0)) = <<>>
      BY <3>1, SeenOfFirst
    <3>4. Seen(FirstOf(actualI))' = <<>>
      <4>1. FirstOf(actualI)' = SubSeq(s, 1, 0)
        BY <1>1, <3>2 DEF FirstOf
      <4>2. Seen(FirstOf(actualI))' = Seen(FirstOf(actualI)')
        BY <1>1 DEF Seen, Keep, FoldLeft, MapThenFoldSet
      <4> QED
        BY <3>3, <4>1, <4>2
    <3>5. 0 \in 0 .. Len(s)
      BY <3>1
    <3> QED
      BY <1>1, <2>1, <3>2, <3>4, <3>5 DEF SliceInv
  <2>2. CASE pc' = "instance state"
    BY <2>2 DEF SliceInv
  <2> QED
    BY <1>1, <2>1, <2>2
<1> QED
  BY <1>4, <1>6, <1>7, <1>8 DEF IInv

LEMMA MinOfTwo ==
  ASSUME NEW a \in Nat, NEW b \in Nat
  PROVE  Min({a, b}) \in Nat /\ Min({a, b}) <= a /\ Min({a, b}) <= b
<1>1. \E x \in {a, b} : \A y \in {a, b} : x <= y
  <2>1. CASE a <= b
    BY <2>1
  <2>2. CASE b <= a
    BY <2>2
  <2> QED
    BY <2>1, <2>2
<1> QED
  BY <1>1 DEF Min

(* A step within a slice leaves the key, and what can be seen of it.       *)
LEMMA SliceStays ==
  ASSUME UNCHANGED <<instances, visible, h, key>>
  PROVE  /\ instanceables' = instanceables
         /\ \A n : Seen(FirstOf(n))' = Seen(FirstOf(n)) /\ Hidden(n)' = Hidden(n)
<1>1. instanceables' = instanceables
  BY DEF instanceables
<1>2. \A n : FirstOf(n)' = FirstOf(n) /\ Hidden(n)' = Hidden(n)
  BY <1>1 DEF FirstOf, Hidden
<1>3. \A s : Seen(s)' = Seen(s)
  BY SeenStays
<1>4. \A n : Seen(FirstOf(n))' = Seen(FirstOf(n))
  BY <1>1, <1>3 DEF FirstOf
<1> QED
  BY <1>1, <1>2, <1>4

(* Slots are filled from none, and there is at least as much to fill them. *)
LEMMA NextSliceKeeps == DrawAssumption /\ IInv /\ NextSlice => IInv'
<1> SUFFICES ASSUME DrawAssumption, IInv, NextSlice PROVE IInv'
  OBVIOUS
<1>1. /\ pc = "slice" /\ pc' \in {"keys", "fill"} /\ i' = 0
      /\ pc' = "fill" => /\ actualI # Len(instanceables)
                         /\ v' = Min({Len(instanceables) - actualI, maxInstances})
      /\ UNCHANGED <<batches, instances, visible, batchLoop, h, keys, key, actualI,
                     state, bound, drawn, slots, shown>>
  BY DEF NextSlice, collections
<1>2. TypeOK /\ PlaceInv /\ SliceInv
  BY DEF IInv
<1>3. BuildInv' /\ BindInv' /\ DrawnAsBound' /\ GroupInv'
  BY <1>1, InnerStays DEF InInstances, InGroup
<1>4. TypeOK'
  BY <1>1, <1>2 DEF TypeOK, batchLoop, InGroup, InInstances
<1>5. PlaceInv'
  BY <1>1, <1>2 DEF PlaceInv, batchLoop, InGroup, InInstances
<1>6. ASSUME pc' = "fill" PROVE SliceInv'
  <2> DEFINE N == Len(instanceables)
  <2>1. N \in Nat /\ actualI \in 0 .. N
    BY <1>1, <1>2, InstanceablesType DEF SliceInv
  <2>2. instanceables' = instanceables /\ Seen(FirstOf(actualI))' = Seen(FirstOf(actualI))
    <3>1. \A n : Seen(FirstOf(n))' = Seen(FirstOf(n)')
      BY <1>1 DEF Seen, Keep, FoldLeft, MapThenFoldSet
    <3> QED
      BY <1>1, SliceStays DEF FirstOf
  <2>3. v' \in Nat /\ v' <= N - actualI
    <3>1. N - actualI \in Nat /\ maxInstances \in Nat
      BY <2>1 DEF DrawAssumption
    <3>2. v' = Min({N - actualI, maxInstances})
      BY <1>1, <1>6
    <3> HIDE DEF N
    <3> QED
      BY <3>1, <3>2, MinOfTwo
  <2>4. shown' \o Filled' = shown
    <3>1. Filled' = <<>>
      BY <1>1 DEF Filled
    <3>2. shown \in Seq(Instanceables)
      BY <1>2 DEF TypeOK
    <3> QED
      BY <1>1, <3>1, <3>2, ConcatEmptySeq
  <2>5. shown = Seen(FirstOf(actualI))
    BY <1>1, <1>2 DEF SliceInv
  <2>6. v' - i' <= N - actualI /\ i' \in 0 .. v' /\ 1 .. i' \subseteq DOMAIN slots'
    BY <1>1, <2>1, <2>3
  <2> QED
    BY <1>1, <1>6, <2>1, <2>2, <2>3, <2>4, <2>5, <2>6 DEF SliceInv
<1>7. ASSUME pc' = "keys" PROVE SliceInv'
  BY <1>7 DEF SliceInv
<1> QED
  BY <1>1, <1>3, <1>4, <1>5, <1>6, <1>7 DEF IInv

(* An instance that is visible is what its slot adds to what is shown; one *)
(* that is not makes the slice longer than what is left.                   *)
LEMMA FillKeeps == DrawAssumption /\ IInv /\ Fill => IInv'
<1> SUFFICES ASSUME DrawAssumption, IInv, Fill PROVE IInv'
  OBVIOUS
<1> DEFINE N == Len(instanceables)
           e == instanceables[actualI + 1]
<1>1. /\ pc = "fill" /\ pc' = "fill" /\ i < v /\ actualI < N
      /\ UNCHANGED <<batches, instances, visible, batchLoop, h, keys, key, v,
                     state, bound, drawn, shown>>
      /\ e \in visible =>
           /\ slots' = [n \in DOMAIN slots \cup {i + 1} |-> IF n = i + 1 THEN e ELSE slots[n]]
           /\ i' = i + 1 /\ actualI' = actualI + 1
      /\ e \notin visible => actualI' = actualI + 1 /\ slots' = slots /\ i' = i
  BY DEF Fill, collections, SlotOf, Passed
<1>2. TypeOK /\ PlaceInv /\ SliceInv
  BY DEF IInv
<1>3. BuildInv' /\ BindInv' /\ DrawnAsBound' /\ GroupInv'
  BY <1>1, InnerStays DEF InInstances, InGroup
<1>4. TypeOK'
  BY <1>1, <1>2 DEF TypeOK, batchLoop, InGroup, InInstances
<1>5. PlaceInv'
  BY <1>1, <1>2 DEF PlaceInv, batchLoop, InGroup, InInstances
<1>6. /\ instanceables \in Seq(Instanceables) /\ N \in Nat /\ actualI \in 0 .. N - 1
      /\ v \in Nat /\ i \in 0 .. v - 1 /\ 1 .. i \subseteq DOMAIN slots
  <2>1. instanceables \in Seq(Instanceables) /\ N \in Nat
    BY <1>1, InstanceablesType
  <2>2. actualI \in 0 .. N /\ v \in Nat /\ i \in 0 .. v /\ 1 .. i \subseteq DOMAIN slots
    BY <1>1, <1>2 DEF SliceInv
  <2> HIDE DEF N
  <2> QED
    BY <1>1, <2>1, <2>2
<1>7. /\ shown \o Filled = Seen(FirstOf(actualI))
      /\ v - i <= N - actualI \/ Hidden(actualI)
      /\ shown \in Seq(Instanceables)
  BY <1>1, <1>2 DEF SliceInv, TypeOK
<1>8. /\ instanceables' = instanceables
      /\ \A n : Seen(FirstOf(n))' = Seen(FirstOf(n)') /\ FirstOf(n)' = FirstOf(n)
      /\ \A n : Hidden(n)' = Hidden(n)
  <2>1. instanceables' = instanceables /\ \A n : Hidden(n)' = Hidden(n)
    BY <1>1, SliceStays
  <2>2. \A n : FirstOf(n)' = FirstOf(n)
    BY <2>1 DEF FirstOf
  <2>3. \A n : Seen(FirstOf(n))' = Seen(FirstOf(n)')
    BY <1>1 DEF Seen, Keep, FoldLeft, MapThenFoldSet
  <2> QED
    BY <2>1, <2>2, <2>3
<1>9. Seen(FirstOf(actualI + 1)) = Keep(Seen(FirstOf(actualI)), e)
  BY <1>6, SeenOfFirst DEF FirstOf
<1>10. actualI' = actualI + 1 /\ actualI' \in 0 .. N /\ e \in Instanceables
  BY <1>1, <1>6
<1>11. Seen(FirstOf(actualI))' = Seen(FirstOf(actualI + 1))
  <2>1. Seen(FirstOf(actualI))' = Seen(FirstOf(actualI)')
    BY <1>1 DEF Seen, Keep, FoldLeft, MapThenFoldSet
  <2>2. FirstOf(actualI)' = FirstOf(actualI + 1)
    BY <1>8, <1>10 DEF FirstOf
  <2> QED
    BY <2>1, <2>2
<1>12. ASSUME e \in visible PROVE SliceInv'
  <2> DEFINE S == {slots[n] : n \in 1 .. i} \cup Instanceables
             f == Filled
  <2>1. i' = i + 1 /\ 1 .. i' \subseteq DOMAIN slots' /\ i' \in 0 .. v
    BY <1>1, <1>6, <1>12
  <2>2. \A n \in 1 .. i : slots'[n] = slots[n]
    BY <1>1, <1>6, <1>12
  <2>3. slots'[i + 1] = e
    BY <1>1, <1>6, <1>12
  <2>4. Filled' = [n \in 1 .. i + 1 |-> slots'[n]]
    BY <2>1 DEF Filled
  <2>5. f \in Seq(S) /\ Len(f) = i /\ \A n \in 1 .. i : f[n] = slots[n]
    BY <1>6 DEF Filled
  <2>6. e \in S
    BY <1>10
  <2> HIDE DEF f
  <2>7. Filled' = Append(f, e)
    <3> DEFINE a == Append(f, e)
    <3>1. /\ a \in Seq(S) /\ Len(a) = i + 1 /\ \A n \in 1 .. i : a[n] = f[n]
          /\ a[i + 1] = e
      BY <2>5, <2>6, AppendProperties
    <3> HIDE DEF a
    <3>2. a = [n \in 1 .. i + 1 |-> a[n]]
      BY <1>6, <3>1
    <3>3. \A n \in 1 .. i + 1 : a[n] = slots'[n]
      BY <1>6, <2>2, <2>3, <2>5, <3>1
    <3> QED
      BY <2>4, <3>2, <3>3 DEF a
  <2>8. shown \o Append(f, e) = Append(shown \o f, e)
    <3>1. shown \in Seq(S)
      BY <1>7
    <3> HIDE DEF S
    <3>2. <<e>> \in Seq(S) /\ shown \o f \in Seq(S)
      BY <2>5, <2>6, <3>1
    <3>3. Append(f, e) = f \o <<e>>
      BY <2>5, <2>6, AppendIsConcat
    <3>4. Append(shown \o f, e) = (shown \o f) \o <<e>>
      BY <2>6, <3>2, AppendIsConcat
    <3>5. (shown \o f) \o <<e>> = shown \o (f \o <<e>>)
      BY <2>5, <3>1, <3>2, ConcatAssociative
    <3> QED
      BY <3>3, <3>4, <3>5
  <2>9. shown' \o Filled' = Seen(FirstOf(actualI))'
    <3>1. Append(shown \o f, e) = Seen(FirstOf(actualI + 1))
      BY <1>7, <1>9, <1>12 DEF f, Keep
    <3> QED
      BY <1>1, <1>11, <2>7, <2>8, <3>1
  <2>10. v' - i' <= N - actualI' \/ Hidden(actualI)'
    <3>1. Hidden(actualI) => Hidden(actualI)'
      BY <1>6, <1>8, <1>10, <1>1 DEF Hidden
    <3>2. v - i <= N - actualI => v' - i' <= N - actualI'
      <4> HIDE DEF N
      <4> QED
        BY <1>1, <1>6, <1>10, <2>1
    <3> QED
      BY <1>7, <3>1, <3>2
  <2> QED
    BY <1>1, <1>6, <1>8, <1>10, <2>1, <2>9, <2>10 DEF SliceInv
<1>13. ASSUME e \notin visible PROVE SliceInv'
  <2>1. i' = i /\ slots' = slots /\ Filled' = Filled
    BY <1>1, <1>13 DEF Filled
  <2>2. shown' \o Filled' = Seen(FirstOf(actualI))'
    BY <1>1, <1>7, <1>9, <1>11, <1>13, <2>1 DEF Keep
  <2>3. Hidden(actualI)'
    <3>1. actualI' \in 1 .. actualI' /\ instanceables[actualI'] \notin visible
      BY <1>6, <1>10, <1>13
    <3>2. instanceables' = instanceables /\ visible' = visible
      BY <1>1, <1>8
    <3> QED
      BY <3>1, <3>2 DEF Hidden
  <2>4. i' \in 0 .. v' /\ v' \in Nat /\ 1 .. i' \subseteq DOMAIN slots'
    BY <1>1, <1>6, <2>1
  <2>5. pc' = "fill" /\ actualI' \in 0 .. Len(instanceables')
    BY <1>1, <1>8, <1>10
  <2> HIDE DEF N, e
  <2> QED
    BY <2>2, <2>3, <2>4, <2>5 DEF SliceInv
<1> QED
  BY <1>3, <1>4, <1>5, <1>12, <1>13 DEF IInv

(* Past the end, an instance was out of sight.                             *)
LEMMA FillThrowsKeeps == DrawAssumption /\ IInv /\ FillThrows => IInv'
<1> SUFFICES ASSUME DrawAssumption, IInv, FillThrows PROVE IInv'
  OBVIOUS
<1>1. /\ pc = "fill" /\ pc' = "threw" /\ i < v /\ actualI = Len(instanceables)
      /\ UNCHANGED <<batches, instances, visible, batchLoop, h, keys, key, state, bound, drawn, shown>>
  BY DEF FillThrows, collections, instanceLoop, buffer
<1>2. TypeOK /\ PlaceInv /\ SliceInv
  BY DEF IInv
<1>3. BuildInv' /\ BindInv' /\ DrawnAsBound' /\ GroupInv'
  BY <1>1, InnerStays DEF InInstances, InGroup
<1>4. TypeOK'
  BY <1>1, <1>2 DEF TypeOK, batchLoop, InGroup, InInstances
<1>5. PlaceInv'
  BY <1>1, <1>2 DEF PlaceInv, batchLoop, InGroup, InInstances
<1>6. SliceInv'
  <2> DEFINE N == Len(instanceables)
  <2>1. N \in Nat
    BY <1>1, InstanceablesType
  <2>2. v \in Nat /\ i \in 0 .. v /\ (v - i <= N - actualI \/ Hidden(actualI))
    BY <1>1, <1>2 DEF SliceInv
  <2>3. Hidden(N)
    <3> HIDE DEF N
    <3>1. actualI = N
      BY <1>1 DEF N
    <3> QED
      BY <1>1, <2>1, <2>2, <3>1
  <2>4. Hidden(Len(instanceables))'
    BY <1>1, <2>3 DEF Hidden, instanceables
  <2> QED
    BY <1>1, <2>4 DEF SliceInv
<1> QED
  BY <1>3, <1>4, <1>5, <1>6 DEF IInv

(* A call draws the slots that were filled for it.                         *)
LEMMA DrawSliceKeeps == DrawAssumption /\ IInv /\ DrawSlice => IInv'
<1> SUFFICES ASSUME DrawAssumption, IInv, DrawSlice PROVE IInv'
  OBVIOUS
<1>1. /\ pc = "fill" /\ pc' = "slice" /\ i = v
      /\ shown' = shown \o [n \in 1 .. i |-> IF n \in DOMAIN slots THEN slots[n] ELSE Nothing]
      /\ UNCHANGED <<batches, instances, visible, batchLoop, h, keys, key, actualI,
                     state, bound, drawn>>
  BY DEF DrawSlice, collections, instanceLoop
<1>2. TypeOK /\ PlaceInv /\ SliceInv
  BY DEF IInv
<1>3. BuildInv' /\ BindInv' /\ DrawnAsBound' /\ GroupInv'
  BY <1>1, InnerStays DEF InInstances, InGroup
<1>4. /\ 1 .. i \subseteq DOMAIN slots /\ shown \o Filled = Seen(FirstOf(actualI))
      /\ actualI \in 0 .. Len(instanceables)
  BY <1>1, <1>2 DEF SliceInv
<1>5. shown' = Seen(FirstOf(actualI))
  <2>1. Filled = [n \in 1 .. i |-> IF n \in DOMAIN slots THEN slots[n] ELSE Nothing]
    BY <1>4 DEF Filled
  <2> QED
    BY <1>1, <1>4, <2>1
<1>6. TypeOK'
  <2>1. FirstOf(actualI) \in Seq(Instanceables)
    <3>1. instanceables \in Seq(Instanceables)
      BY <1>1, InstanceablesType
    <3> HIDE DEF instanceables
    <3> QED
      BY <1>4, <3>1 DEF FirstOf
  <2>2. shown' \in Seq(Instanceables)
    BY <1>5, <2>1, SeenIsSequence
  <2> QED
    BY <1>1, <1>2, <2>2 DEF TypeOK, batchLoop, InGroup, InInstances
<1>7. PlaceInv'
  BY <1>1, <1>2 DEF PlaceInv, batchLoop, InGroup, InInstances
<1>8. SliceInv'
  <2>1. instanceables' = instanceables /\ Seen(FirstOf(actualI))' = Seen(FirstOf(actualI))
    <3>1. Seen(FirstOf(actualI))' = Seen(FirstOf(actualI)')
      BY <1>1 DEF Seen, Keep, FoldLeft, MapThenFoldSet
    <3>2. instanceables' = instanceables
      BY <1>1, SliceStays
    <3>3. FirstOf(actualI)' = FirstOf(actualI)
      BY <1>1, <3>2 DEF FirstOf
    <3> QED
      BY <3>1, <3>2, <3>3
  <2> QED
    BY <1>1, <1>4, <1>5, <2>1 DEF SliceInv
<1> QED
  BY <1>3, <1>6, <1>7, <1>8 DEF IInv

LEMMA Stutters == IInv /\ UNCHANGED vars => IInv'
<1> SUFFICES ASSUME IInv, UNCHANGED vars PROVE IInv'
  OBVIOUS
<1>1. /\ UNCHANGED <<batches, instances, visible, pc, batchLoop, instanceLoop, buffer>>
      /\ UNCHANGED <<g, last, list, entries, current, qnty, h, keys, key, actualI, i, v>>
      /\ UNCHANGED <<state, bound, drawn, slots, shown>>
  BY DEF vars, collections, batchLoop, instanceLoop, buffer
<1>2. BuildInv /\ TypeOK /\ PlaceInv /\ BindInv /\ DrawnAsBound /\ SliceInv /\ GroupInv
  BY DEF IInv
<1>3. BuildInv' /\ TypeOK' /\ PlaceInv'
  BY <1>1, <1>2, BuildStays DEF TypeOK, PlaceInv
<1>4. BindInv' /\ DrawnAsBound'
  BY <1>1, <1>2 DEF BindInv, CarriedOver, DrawnAsBound, NestedDrawn
<1>5. SliceInv' /\ GroupInv'
  <2>1. \A s : Seen(s)' = Seen(s)
    BY <1>1, SeenStays
  <2>2. instanceables' = instanceables /\ Filled' = Filled /\ DrawnItems' = DrawnItems
    BY <1>1 DEF instanceables, Filled, DrawnItems
  <2>3. SliceInv'
    BY <1>1, <1>2, <2>1, <2>2 DEF SliceInv, FirstOf, Hidden
  <2>4. GroupInv'
    BY <1>1, <1>2, <2>1, <2>2 DEF GroupInv, Rest, Times
  <2> QED
    BY <2>3, <2>4
<1> QED
  BY <1>3, <1>4, <1>5 DEF IInv

THEOREM Invariance == Spec => []IInv
<1>1. Init => IInv
  BY InitInv, DrawAssumption
<1>2. IInv /\ [Next]_vars => IInv'
  <2> SUFFICES ASSUME IInv, [Next]_vars PROVE IInv'
    OBVIOUS
  <2>1. CASE Build
    BY <2>1, BuildKeeps
  <2>2. CASE StartDraw
    BY <2>2, StartDrawKeeps
  <2>3. CASE RunState \/ (\E d \in Items : Item(d)) \/ NextGroup \/ Drawn
    BY <2>3, DrawAssumption, RunStateKeeps, ItemKeeps, NextGroupKeeps, DrawnKeeps
  <2>4. CASE RunInstanceState \/ InstancesDrawn \/ NextKey \/ NextSlice
    BY <2>4, DrawAssumption, RunInstanceStateKeeps, InstancesDrawnKeeps, NextKeyKeeps,
       NextSliceKeeps
  <2>5. CASE Fill \/ FillThrows \/ DrawSlice
    BY <2>5, DrawAssumption, FillKeeps, FillThrowsKeeps, DrawSliceKeeps
  <2>6. CASE UNCHANGED vars
    BY <2>6, Stutters
  <2> QED
    BY <2>1, <2>2, <2>3, <2>4, <2>5, <2>6 DEF Next, Draw
<1> QED
  BY <1>1, <1>2, PTL DEF Spec

-----------------------------------------------------------------------------
(* A drawable is drawn while it is what is bound and in the state of its   *)
(* group, whichever binds are skipped (DrawnAsBound), for any collections: *)
(* BatchCollection.draw.                                                   *)
THEOREM AlwaysDrawnAsBound == Spec => []DrawnAsBound
<1>1. IInv => DrawnAsBound
  BY DEF IInv
<1> QED
  BY <1>1, Invariance, PTL

(* Each group draws what was added to it and can be seen, as often as it   *)
(* was added, and in order when it is sorted (GroupShown), for groups of   *)
(* any size: the iterators of ArrayList and QuantizedHashSet.              *)
THEOREM GroupsShown == Spec => []GroupShown
<1>1. IInv => GroupShown
  <2> SUFFICES ASSUME IInv, ItemsDone
               PROVE  /\ \A d \in Items : Times(d, DrawnItems) = Times(d, Seen(batches[g].added))
                      /\ batches[g].needsSort => DrawnItems = Seen(batches[g].added)
    BY DEF GroupShown
  <2> DEFINE b == batches[g]
             N == Len(b.added)
  <2>1. pc \in InGroup /\ pc = "items" /\ list = <<>> /\ entries = {} /\ qnty = 0
    BY DEF ItemsDone, InGroup
  <2>2. g \in 1 .. Len(batches) /\ BatchesOK /\ GroupInv
    BY <2>1 DEF IInv, BuildInv, PlaceInv
  <2>3. b \in BatchLists /\ \A d \in Items : b.counts[d] = IF b.needsSort THEN 0 ELSE Times(d, b.added)
    BY <2>2 DEF BatchesOK
  <2>4. b.added \in Seq(Items) /\ N \in Nat /\ b.counts \in [Items -> Nat]
    BY <2>3 DEF BatchLists
  <2>5. ASSUME b.needsSort PROVE DrawnItems = Seen(b.added)
    <3>1. PICK n \in 0 .. N : /\ list = SubSeq(b.added, n + 1, N)
                              /\ DrawnItems = Seen(SubSeq(b.added, 1, n))
      BY <2>1, <2>2, <2>5 DEF GroupInv
    <3>2. n = N
      <4> DEFINE s == b.added
      <4>1. s \in Seq(Items)
        BY <2>4
      <4> HIDE DEF s
      <4>2. <<>> = SubSeq(s, n + 1, N) /\ N = Len(s) /\ N \in Nat
        BY <2>1, <2>4, <3>1 DEF s
      <4>3. Len(SubSeq(s, n + 1, N)) = IF n + 1 <= N THEN N - (n + 1) + 1 ELSE 0
        BY <3>1, <4>1, <4>2, SubSeqProperties
      <4>4. Len(SubSeq(s, n + 1, N)) = 0
        <5>1. Len(<<>>) = 0
          OBVIOUS
        <5> QED
          BY <4>2, <5>1, Zenon
      <4> HIDE DEF N
      <4> QED
        BY <3>1, <4>2, <4>3, <4>4
    <3> QED
      BY <2>4, <3>1, <3>2, SeenOfFirst
  <2>6. ASSUME ~b.needsSort, NEW d \in Items
        PROVE  Times(d, DrawnItems) = Times(d, Seen(b.added))
    <3>1. Times(d, DrawnItems) = IF d \in visible THEN b.counts[d] - Rest(d) ELSE 0
      BY <2>1, <2>2, <2>6 DEF GroupInv
    <3>2. Rest(d) = 0
      BY <2>1 DEF Rest
    <3>3. b.counts[d] \in Nat /\ b.counts[d] = Times(d, b.added)
      BY <2>3, <2>4, <2>6
    <3>4. Times(d, Seen(b.added)) = IF d \in visible THEN Times(d, b.added) ELSE 0
      BY <2>4, TimesOfSeen
    <3> HIDE DEF b
    <3> QED
      BY <3>1, <3>2, <3>3, <3>4
  <2> QED
    BY <2>5, <2>6
<1> QED
  BY <1>1, Invariance, PTL

(* The calls for a key show each instance of it that can be seen once and  *)
(* in order, and only an instance out of sight keeps a call from being made*)
(* (InstancesShown), for any number of instances and any maxInstances:     *)
(* InstanceCollection.draw.                                                *)
THEOREM AllInstancesShown == Spec => []InstancesShown
<1>1. IInv => InstancesShown
  <2> SUFFICES ASSUME IInv PROVE InstancesShown
    OBVIOUS
  <2>1. ASSUME pc = "slice", actualI = Len(instanceables)
        PROVE  shown = Seen(instanceables)
    <3>1. shown = Seen(FirstOf(actualI))
      BY <2>1 DEF IInv, SliceInv
    <3>2. instanceables \in Seq(Instanceables)
      BY <2>1, InstanceablesType
    <3> QED
      BY <2>1, <3>1, <3>2, SeenOfFirst DEF FirstOf
  <2>2. ASSUME pc = "threw"
        PROVE  \E n \in DOMAIN instanceables : instanceables[n] \notin visible
    <3>1. Hidden(Len(instanceables))
      BY <2>2 DEF IInv, SliceInv
    <3>2. DOMAIN instanceables = 1 .. Len(instanceables)
      BY <2>2, InstanceablesType
    <3> QED
      BY <3>1, <3>2 DEF Hidden
  <2> QED
    BY <2>1, <2>2 DEF InstancesShown
<1> QED
  BY <1>1, Invariance, PTL
=============================================================================
