------------------------------ MODULE FoldFacts ------------------------------
(***************************************************************************)
(* What folding a sequence from the left computes, for whatever operator:  *)
(* a module that folds with an operator of its own instantiates this one   *)
(* with it.                                                                *)
(*                                                                         *)
(* Induction is written with least elements of sets of numbers, since the  *)
(* induction theorems of the library take the formula as a parameter.      *)
(***************************************************************************)
EXTENDS Integers, Sequences, SequencesExt, SequenceTheorems,
        WellFoundedInduction, TLAPS

CONSTANT Op(_, _)

Fold(base, s) == FoldLeft(Op, base, s)

(* A set of numbers that is not empty has a least element.                 *)
LEMMA Least ==
  ASSUME NEW T, T \subseteq Nat, T # {}
  PROVE  \E n \in T : \A m \in T : n <= m
<1>1. PICK n \in T : \A m \in T : ~(<<m, n>> \in OpToRel(<, Nat))
  BY NatLessThanWellFounded, WFMin, Zenon
<1>2. \A m \in T : ~(m < n)
  BY <1>1 DEF OpToRel
<1> QED
  BY <1>2

(* Induction up to a bound: what holds of 0, and of n + 1 if of n, is all  *)
(* of 0 .. N.                                                              *)
LEMMA UpTo ==
  ASSUME NEW N \in Nat, NEW T,
         0 \in T,
         \A n \in 0 .. N - 1 : n \in T => n + 1 \in T
  PROVE  0 .. N \subseteq T
<1> SUFFICES ASSUME (0 .. N) \ T # {} PROVE FALSE
  OBVIOUS
<1>1. PICK n \in (0 .. N) \ T : \A m \in (0 .. N) \ T : n <= m
  <2>1. (0 .. N) \ T \subseteq Nat
    OBVIOUS
  <2> QED
    BY <2>1, Least, Zenon
<1>2. n # 0
  OBVIOUS
<1>3. n - 1 \in 0 .. N - 1 /\ n - 1 \in T
  BY <1>1, <1>2
<1>4. (n - 1) + 1 \in T
  BY <1>3
<1> QED
  BY <1>4

(* The greatest element of a set of numbers below a bound.                 *)
LEMMA Greatest ==
  ASSUME NEW N \in Nat, NEW S \in SUBSET (1 .. N), S # {}
  PROVE  /\ Max(S) \in S
         /\ \A m \in S : m <= Max(S)
<1> DEFINE Above == {n \in Nat : \A m \in S : m <= n}
<1>1. N \in Above
  OBVIOUS
<1>2. PICK n \in Above : \A m \in Above : n <= m
  <2>1. Above \subseteq Nat /\ Above # {}
    BY <1>1
  <2> HIDE DEF Above
  <2> QED
    BY <2>1, Least, Zenon
<1>3. n \in S
  <2> SUFFICES ASSUME n \notin S PROVE FALSE
    OBVIOUS
  <2>1. \A m \in S : m <= n - 1
    OBVIOUS
  <2>2. n - 1 \in Nat
    <3>1. PICK m \in S : m \in 1 .. N
      OBVIOUS
    <3> QED
      BY <2>1, <3>1
  <2>3. n - 1 \in Above
    BY <2>1, <2>2
  <2> QED
    BY <1>2, <2>3
<1>4. \E x \in S : \A y \in S : x >= y
  BY <1>3
<1> QED
  BY <1>4 DEF Max

LEMMA GreatestOfInterval ==
  ASSUME NEW n \in Nat \ {0}
  PROVE  Max(1 .. n) = n
<1>1. n \in 1 .. n /\ 1 .. n \in SUBSET (1 .. n) /\ 1 .. n # {}
  OBVIOUS
<1>2. Max(1 .. n) \in 1 .. n /\ \A m \in 1 .. n : m <= Max(1 .. n)
  BY <1>1, Greatest
<1> QED
  BY <1>1, <1>2

-----------------------------------------------------------------------------
(* The function that a fold computes set by set. *)

Iterates(g, base, s, k) ==
  g = [S \in SUBSET (1 .. k) |->
         IF S = {} THEN base ELSE Op(g[S \ {Max(S)}], s[Max(S)])]

(* There is one, up to every index.                                        *)
LEMMA IterExists ==
  ASSUME NEW base, NEW s, NEW N \in Nat
  PROVE  \E g : Iterates(g, base, s, N)
<1> DEFINE T == {k \in 0 .. N : \E g : Iterates(g, base, s, k)}
<1>1. 0 \in T
  <2> DEFINE g == [S \in SUBSET (1 .. 0) |-> base]
  <2>1. \A S \in SUBSET (1 .. 0) : S = {}
    OBVIOUS
  <2>2. Iterates(g, base, s, 0)
    BY <2>1 DEF Iterates
  <2> QED
    BY <2>2
<1>2. ASSUME NEW k \in 0 .. N - 1, k \in T
      PROVE  k + 1 \in T
  <2>1. PICK f : Iterates(f, base, s, k)
    BY <1>2
  <2> DEFINE g == [S \in SUBSET (1 .. k + 1) |->
                     IF S = {} THEN base ELSE Op(f[S \ {Max(S)}], s[Max(S)])]
  <2>2. ASSUME NEW S \in SUBSET (1 .. k) PROVE g[S] = f[S]
    <3>1. S \in SUBSET (1 .. k + 1)
      OBVIOUS
    <3>2. f[S] = IF S = {} THEN base ELSE Op(f[S \ {Max(S)}], s[Max(S)])
      BY <2>1 DEF Iterates
    <3> QED
      BY <3>1, <3>2
  <2>3. ASSUME NEW S \in SUBSET (1 .. k + 1), S # {}
        PROVE  g[S \ {Max(S)}] = f[S \ {Max(S)}]
    <3>1. Max(S) \in S /\ \A m \in S : m <= Max(S)
      BY <2>3, Greatest
    <3>2. ASSUME NEW m \in S \ {Max(S)} PROVE m \in 1 .. k
      <4>1. m \in 1 .. k + 1 /\ Max(S) \in 1 .. k + 1 /\ m <= Max(S) /\ m # Max(S)
        BY <3>1
      <4> QED
        BY <4>1
    <3> QED
      BY <2>2, <3>2
  <2>4. \A S \in SUBSET (1 .. k + 1) :
           g[S] = IF S = {} THEN base ELSE Op(g[S \ {Max(S)}], s[Max(S)])
    <3> SUFFICES ASSUME NEW S \in SUBSET (1 .. k + 1)
                 PROVE  g[S] = IF S = {} THEN base ELSE Op(g[S \ {Max(S)}], s[Max(S)])
      OBVIOUS
    <3>1. CASE S = {}
      BY <3>1
    <3>2. CASE S # {}
      <4>1. g[S] = Op(f[S \ {Max(S)}], s[Max(S)])
        BY <3>2
      <4> HIDE DEF g
      <4> QED
        BY <4>1, <2>3, <3>2
    <3> QED
      BY <3>1, <3>2
  <2>5. g = [S \in SUBSET (1 .. k + 1) |-> g[S]]
    OBVIOUS
  <2>6. Iterates(g, base, s, k + 1)
    <3> HIDE DEF g
    <3> QED
      BY <2>4, <2>5, Zenon DEF Iterates
  <2> QED
    BY <2>6
<1>3. 0 .. N \subseteq T
  <2> HIDE DEF T
  <2> QED
    BY <1>1, <1>2, UpTo
<1> QED
  BY <1>3

(* Two sequences that agree up to an index are folded alike up to there.   *)
LEMMA IterAgree ==
  ASSUME NEW base, NEW s, NEW t, NEW M \in Nat, NEW N \in Nat, NEW f, NEW g,
         Iterates(f, base, s, M), Iterates(g, base, t, N),
         NEW n \in 0 .. M, n <= N,
         \A i \in 1 .. n : s[i] = t[i]
  PROVE  f[1 .. n] = g[1 .. n]
<1> DEFINE T == {k \in 0 .. n : f[1 .. k] = g[1 .. k]}
<1>1. ASSUME NEW k \in 1 .. n
      PROVE  /\ f[1 .. k] = Op(f[1 .. k - 1], s[k])
             /\ g[1 .. k] = Op(g[1 .. k - 1], t[k])
  <2>1. 1 .. k # {} /\ 1 .. k \in SUBSET (1 .. M) /\ 1 .. k \in SUBSET (1 .. N)
    OBVIOUS
  <2>2. Max(1 .. k) = k
    BY GreatestOfInterval
  <2>3. (1 .. k) \ {k} = 1 .. k - 1
    OBVIOUS
  <2> QED
    BY <2>1, <2>2, <2>3 DEF Iterates
<1>2. 0 \in T
  <2>1. 1 .. 0 = {} /\ {} \in SUBSET (1 .. M) /\ {} \in SUBSET (1 .. N)
    OBVIOUS
  <2>2. f[{}] = base /\ g[{}] = base
    BY <2>1 DEF Iterates
  <2> QED
    BY <2>1, <2>2
<1>3. ASSUME NEW k \in 0 .. n - 1, k \in T PROVE k + 1 \in T
  <2>1. k + 1 \in 1 .. n /\ (k + 1) - 1 = k
    OBVIOUS
  <2>2. f[1 .. k + 1] = Op(f[1 .. k], s[k + 1])
    BY <1>1, <2>1
  <2>3. g[1 .. k + 1] = Op(g[1 .. k], t[k + 1])
    BY <1>1, <2>1
  <2>4. s[k + 1] = t[k + 1]
    BY <2>1
  <2> QED
    BY <1>3, <2>1, <2>2, <2>3, <2>4
<1>4. 0 .. n \subseteq T
  <2> HIDE DEF T
  <2> QED
    BY <1>2, <1>3, UpTo
<1> QED
  BY <1>4

(* What Fold is of a sequence of that length.                              *)
LEMMA FoldIterates ==
  ASSUME NEW base, NEW s, NEW n \in Nat, DOMAIN s = 1 .. n
  PROVE  \E g : Iterates(g, base, s, n) /\ Fold(base, s) = g[1 .. n]
<1> DEFINE g == CHOOSE g : Iterates(g, base, s, n)
<1>1. Iterates(g, base, s, n)
  BY IterExists, Zenon
<1>2. Fold(base, s) = g[1 .. n]
  BY Zenon DEF Fold, FoldLeft, MapThenFoldSet, Iterates
<1> QED
  BY <1>1, <1>2, Zenon

(* Nothing folded is the base.                                             *)
THEOREM FoldOfEmpty ==
  ASSUME NEW base
  PROVE  Fold(base, <<>>) = base
<1>1. DOMAIN <<>> = 1 .. 0 /\ 1 .. 0 = {}
  OBVIOUS
<1>2. PICK g : Iterates(g, base, <<>>, 0) /\ Fold(base, <<>>) = g[1 .. 0]
  BY <1>1, FoldIterates
<1> QED
  BY <1>1, <1>2 DEF Iterates

(* A fold goes on from what it made of the elements before.                *)
THEOREM FoldOfAppend ==
  ASSUME NEW base, NEW S, NEW s \in Seq(S), NEW e \in S
  PROVE  Fold(base, Append(s, e)) = Op(Fold(base, s), e)
<1> DEFINE n == Len(s)
           t == Append(s, e)
<1>1. /\ n \in Nat /\ DOMAIN s = 1 .. n /\ DOMAIN t = 1 .. n + 1
      /\ t[n + 1] = e /\ \A i \in 1 .. n : t[i] = s[i]
  OBVIOUS
<1> HIDE DEF n, t
<1>2. PICK f : Iterates(f, base, s, n) /\ Fold(base, s) = f[1 .. n]
  BY <1>1, FoldIterates
<1>3. PICK g : Iterates(g, base, t, n + 1) /\ Fold(base, t) = g[1 .. n + 1]
  <2>1. n + 1 \in Nat
    BY <1>1
  <2> QED
    BY <1>1, <2>1, FoldIterates
<1>4. f[1 .. n] = g[1 .. n]
  BY <1>1, <1>2, <1>3, IterAgree
<1>5. g[1 .. n + 1] = Op(g[1 .. n], t[n + 1])
  <2>1. n + 1 \in 1 .. n + 1 /\ (1 .. n + 1) \ {n + 1} = 1 .. n
    <3>1. n \in Nat
      BY <1>1
    <3> QED
      BY <3>1
  <2>2. Max(1 .. n + 1) = n + 1
    BY <1>1, GreatestOfInterval
  <2> QED
    BY <1>3, <2>1, <2>2 DEF Iterates
<1> QED
  BY <1>1, <1>2, <1>3, <1>4, <1>5 DEF t

(* A fold, element by element: what it made of the first n.                *)
Partial(base, s, n) == Fold(base, SubSeq(s, 1, n))

(* A fold works off its sequence one element after the other.              *)
THEOREM FoldByElements ==
  ASSUME NEW base, NEW S, NEW s \in Seq(S)
  PROVE  /\ Partial(base, s, 0) = base
         /\ \A n \in 0 .. Len(s) - 1 :
              Partial(base, s, n + 1) = Op(Partial(base, s, n), s[n + 1])
         /\ Partial(base, s, Len(s)) = Fold(base, s)
<1>1. SubSeq(s, 1, 0) = <<>>
  OBVIOUS
<1>2. ASSUME NEW n \in 0 .. Len(s) - 1
      PROVE  Partial(base, s, n + 1) = Op(Partial(base, s, n), s[n + 1])
  <2>1. SubSeq(s, 1, n) \in Seq(S) /\ s[n + 1] \in S
    OBVIOUS
  <2>2. SubSeq(s, 1, n + 1) = Append(SubSeq(s, 1, n), s[n + 1])
    BY SubSeqRecursiveSecond
  <2>3. Fold(base, Append(SubSeq(s, 1, n), s[n + 1])) = Op(Fold(base, SubSeq(s, 1, n)), s[n + 1])
    BY <2>1, FoldOfAppend, Zenon
  <2> QED
    BY <2>2, <2>3, Zenon DEF Partial
<1>3. SubSeq(s, 1, Len(s)) = s
  BY SubSeqFull
<1> QED
  BY <1>1, <1>2, <1>3, FoldOfEmpty DEF Partial
=============================================================================
