-------------------------- MODULE DeviceSetupProofs --------------------------
(***************************************************************************)
(* How a device is got, for any devices, queries and requests: what a query*)
(* selects, what a request chooses, and what a program has that does both. *)
(*                                                                         *)
(* The query.  Filters and requests are folded: LeftAfter(n) is what the   *)
(* first n filters leave.  The answer speaks of the query as it is now,    *)
(* because every call that changes the query forgets it (AnswerCurrent).   *)
(*                                                                         *)
(* The requests.  Prepared, Reached, Serving and SplitFrees are defined by *)
(* recursion over the members of a request; RecursionOverMembers shows that*)
(* there is such a function and FromMembers is the induction that goes with*)
(* it, both from the assumption that requests are made of requests there   *)
(* are already.  The invariant of the builder (QueuesInv) says that what it*)
(* holds is what the request makes of its device alone, whatever the       *)
(* request object kept from other devices.                                 *)
(*                                                                         *)
(* Set-up.  SetupInv says how far the program is; its steps are steps of   *)
(* the query and of the builder (SetupSteps), whose invariants it keeps.   *)
(***************************************************************************)
EXTENDS DeviceSetup, SequenceTheorems, FiniteSetTheorems, TLAPS

F == INSTANCE FoldFacts WITH Op <- Applied
R == INSTANCE FoldFacts WITH Op <- Scored

LeftAfter(n) == F!Partial(DOMAIN devices, AllFilters, n)

Places == DOMAIN devices

(* What select would answer now.                                           *)
Selection == IF Left = {} THEN 0 ELSE Best

AnswerCurrent == answer \in {NotAsked, Selection}

-----------------------------------------------------------------------------
(* Filtering *)

(* The filters that are applied are filters.                               *)
LEMMA AllAreFilters ==
  ASSUME QueryTypeOK
  PROVE  /\ AllFilters \in Seq(Filter)
         /\ Len(AllFilters) = Len(filters) + 2
         /\ \A i \in 1 .. Len(filters) : AllFilters[i] = filters[i]
         /\ AllFilters[Len(filters) + 1] = Soft(priority)
         /\ AllFilters[Len(filters) + 2] = Soft(priorityB)
BY DEF QueryTypeOK, AllFilters, Filter, Soft

(* Applying them one after the other.                                      *)
LEMMA FilterByFilter ==
  ASSUME QueryTypeOK
  PROVE  /\ LeftAfter(0) = Places
         /\ \A n \in 0 .. Len(AllFilters) - 1 :
              LeftAfter(n + 1) = Applied(LeftAfter(n), AllFilters[n + 1])
         /\ Left = LeftAfter(Len(AllFilters))
<1>1. Left = F!Fold(Places, AllFilters)
  BY DEF Places, Left, F!Fold, F!FoldLeft, FoldLeft, F!MapThenFoldSet, MapThenFoldSet, F!Max, Max
<1>2. AllFilters \in Seq(Filter)
  BY AllAreFilters
<1>3. /\ F!Partial(Places, AllFilters, 0) = Places
      /\ \A n \in 0 .. Len(AllFilters) - 1 :
           F!Partial(Places, AllFilters, n + 1)
             = Applied(F!Partial(Places, AllFilters, n), AllFilters[n + 1])
      /\ F!Partial(Places, AllFilters, Len(AllFilters)) = F!Fold(Places, AllFilters)
  BY <1>2, F!FoldByElements
<1> QED
  BY <1>1, <1>3 DEF LeftAfter, Places

(* No filter brings a device back.                                         *)
LEMMA FiltersOnlyRemove ==
  ASSUME QueryTypeOK, NEW n \in 0 .. Len(AllFilters)
  PROVE  Left \subseteq LeftAfter(n) /\ LeftAfter(n) \subseteq Places
<1> DEFINE N == Len(AllFilters)
           T == {k \in 0 .. N : /\ \A m \in 0 .. k : LeftAfter(k) \subseteq LeftAfter(m)
                                /\ LeftAfter(k) \subseteq Places}
<1>0. N \in Nat
  BY AllAreFilters
<1>1. 0 \in T
  BY <1>0, FilterByFilter
<1>2. ASSUME NEW k \in 0 .. N - 1, k \in T PROVE k + 1 \in T
  <2>1. LeftAfter(k + 1) \subseteq LeftAfter(k)
    BY FilterByFilter DEF Applied
  <2>2. \A m \in 0 .. k : LeftAfter(k) \subseteq LeftAfter(m)
    BY <1>2
  <2>3. ASSUME NEW m \in 0 .. k + 1 PROVE LeftAfter(k + 1) \subseteq LeftAfter(m)
    <3>1. m = k + 1 \/ m \in 0 .. k
      OBVIOUS
    <3> QED
      BY <2>1, <2>2, <3>1
  <2>4. LeftAfter(k + 1) \subseteq Places
    BY <1>2, <2>1
  <2> HIDE DEF N
  <2> QED
    BY <1>0, <2>3, <2>4
<1>3. 0 .. N \subseteq T
  <2> HIDE DEF T, N
  <2> QED
    BY <1>0, <1>1, <1>2, F!UpTo
<1>4. N \in T /\ n \in 0 .. N
  BY <1>0, <1>3
<1> QED
  BY <1>3, <1>4, FilterByFilter

(* Which of two devices left is kept by a filter.                          *)
LEMMA FilterStep ==
  ASSUME QueryTypeOK, NEW n \in 0 .. Len(AllFilters) - 1,
         NEW a \in LeftAfter(n + 1), NEW d \in LeftAfter(n),
         LET f == AllFilters[n + 1]
         IN  IF f.soft THEN Holds(a, f.capability) => Holds(d, f.capability)
                       ELSE Holds(d, f.capability)
  PROVE  d \in LeftAfter(n + 1)
BY FilterByFilter DEF Applied

(* Hard filters are the ones the query requires, soft ones its wishes.     *)
LEMMA FilterKinds ==
  ASSUME QueryTypeOK, NEW n \in 1 .. Len(AllFilters)
  PROVE  /\ ~AllFilters[n].soft => n \in 1 .. Len(filters) /\ AllFilters[n] \in ToSet(filters)
         /\ AllFilters[n].soft => AllFilters[n].capability \in Wishes
<1>1. n \in 1 .. Len(filters) \/ n = Len(filters) + 1 \/ n = Len(filters) + 2
  BY AllAreFilters DEF QueryTypeOK
<1>2. CASE n \in 1 .. Len(filters)
  <2>1. AllFilters[n] = filters[n] /\ n \in DOMAIN filters
    BY <1>2, AllAreFilters DEF QueryTypeOK
  <2>2. AllFilters[n] \in ToSet(filters)
    BY <2>1 DEF ToSet
  <2> QED
    BY <1>2, <2>2 DEF Wishes
<1>3. CASE n = Len(filters) + 1
  BY <1>3, AllAreFilters DEF Soft, Wishes
<1>4. CASE n = Len(filters) + 2
  BY <1>4, AllAreFilters DEF Soft, Wishes
<1> QED
  BY <1>1, <1>2, <1>3, <1>4

(* Every wish is one of the filters.                                       *)
LEMMA WishesAreFilters ==
  ASSUME QueryTypeOK, NEW c \in Wishes
  PROVE  \E n \in 1 .. Len(AllFilters) : AllFilters[n].soft /\ AllFilters[n].capability = c
<1>0. Len(filters) \in Nat /\ Len(AllFilters) = Len(filters) + 2
  BY AllAreFilters DEF QueryTypeOK
<1>1. CASE c \in {priority, priorityB}
  BY <1>0, <1>1, AllAreFilters DEF Soft
<1>2. CASE c \in {f.capability : f \in {f \in ToSet(filters) : f.soft}}
  <2>1. PICK f \in ToSet(filters) : f.soft /\ f.capability = c
    BY <1>2
  <2>2. PICK i \in 1 .. Len(filters) : filters[i] = f
    BY <2>1 DEF ToSet, QueryTypeOK
  <2> QED
    BY <1>0, <2>1, <2>2, AllAreFilters
<1> QED
  BY <1>1, <1>2 DEF Wishes

(* A device that meets what is required and fulfils every wish that one of *)
(* those left fulfils is left as well.                                     *)
LEMMA AsGoodIsLeft ==
  ASSUME QueryTypeOK, NEW a \in Left, NEW d \in Places,
         MeetsRequired(d), Fulfilled(a) \subseteq Fulfilled(d)
  PROVE  d \in Left
<1> DEFINE N == Len(AllFilters)
           T == {n \in 0 .. N : d \in LeftAfter(n)}
<1>0. N \in Nat
  BY AllAreFilters
<1>1. 0 \in T
  BY <1>0, FilterByFilter
<1>2. ASSUME NEW n \in 0 .. N - 1, n \in T PROVE n + 1 \in T
  <2> DEFINE f == AllFilters[n + 1]
  <2>0. n + 1 \in 0 .. N /\ n + 1 \in 1 .. N /\ n \in 0 .. N
    BY <1>0
  <2>1. a \in LeftAfter(n + 1)
    BY <2>0, FiltersOnlyRemove
  <2>2. CASE f.soft
    <3>1. f.capability \in Wishes
      BY <2>0, <2>2, FilterKinds
    <3>2. Holds(a, f.capability) => Holds(d, f.capability)
      BY <3>1 DEF Fulfilled
    <3> QED
      BY <1>0, <1>2, <2>0, <2>1, <2>2, <3>2, FilterStep
  <2>3. CASE ~f.soft
    <3>1. Holds(d, f.capability)
      BY <2>0, <2>3, FilterKinds DEF MeetsRequired
    <3> QED
      BY <1>0, <1>2, <2>0, <2>1, <2>3, <3>1, FilterStep
  <2> QED
    BY <2>2, <2>3
<1>3. 0 .. N \subseteq T
  <2> HIDE DEF T, N
  <2> QED
    BY <1>0, <1>1, <1>2, F!UpTo
<1> QED
  BY <1>0, <1>3, FilterByFilter

(* Those left meet what is required.                                       *)
LEMMA LeftMeetRequired ==
  ASSUME QueryTypeOK, NEW a \in Left
  PROVE  MeetsRequired(a)
<1> SUFFICES ASSUME NEW f \in ToSet(filters), ~f.soft PROVE Holds(a, f.capability)
  BY DEF MeetsRequired
<1>1. PICK i \in 1 .. Len(filters) : filters[i] = f
  BY DEF ToSet, QueryTypeOK
<1>2. /\ i - 1 \in 0 .. Len(AllFilters) - 1 /\ i \in 0 .. Len(AllFilters)
      /\ (i - 1) + 1 = i /\ AllFilters[i] = f
  BY <1>1, AllAreFilters
<1>3. LeftAfter(i) = Applied(LeftAfter(i - 1), f)
  BY <1>2, FilterByFilter
<1>4. a \in LeftAfter(i)
  BY <1>2, FiltersOnlyRemove
<1> QED
  BY <1>3, <1>4 DEF Applied

(* Those left fulfil the same wishes.                                      *)
LEMMA LeftFulfilAlike ==
  ASSUME QueryTypeOK, NEW a \in Left, NEW d \in Left
  PROVE  Fulfilled(d) \subseteq Fulfilled(a)
<1> SUFFICES ASSUME NEW c \in Wishes, Holds(d, c) PROVE Holds(a, c)
  BY DEF Fulfilled
<1>1. PICK n \in 1 .. Len(AllFilters) : AllFilters[n].soft /\ AllFilters[n].capability = c
  BY WishesAreFilters
<1>2. /\ n - 1 \in 0 .. Len(AllFilters) - 1 /\ n - 1 \in 0 .. Len(AllFilters)
      /\ (n - 1) + 1 = n /\ n \in 0 .. Len(AllFilters)
  BY AllAreFilters
<1>3. LeftAfter(n) = Applied(LeftAfter(n - 1), AllFilters[n])
  BY <1>2, FilterByFilter
<1>4. a \in LeftAfter(n) /\ d \in LeftAfter(n - 1)
  BY <1>2, FiltersOnlyRemove
<1> QED
  BY <1>1, <1>3, <1>4 DEF Applied

-----------------------------------------------------------------------------
(* Scoring *)

(* A device has a score, a number.                                         *)
LEMMA ScoresAreNumbers ==
  ASSUME QueryTypeOK
  PROVE  \A d \in Places : Score(d) \in Int
<1> DEFINE zero == [e \in Places |-> 0]
           N == Len(requests)
           S(n) == R!Partial(zero, requests, n)
           T == {n \in 0 .. N : S(n) \in [Places -> Int]}
<1>0. requests \in Seq(Request) /\ N \in Nat
  BY DEF QueryTypeOK
<1>1. /\ S(0) = zero
      /\ \A n \in 0 .. N - 1 : S(n + 1) = Scored(S(n), requests[n + 1])
      /\ S(N) = R!Fold(zero, requests)
  <2> HIDE DEF zero
  <2> QED
    BY <1>0, R!FoldByElements
<1>2. R!Fold(zero, requests) = FoldLeft(Scored, zero, requests)
  BY DEF R!Fold, R!FoldLeft, FoldLeft, R!MapThenFoldSet, MapThenFoldSet, R!Max, Max
<1>3. 0 \in T
  BY <1>0, <1>1
<1>4. ASSUME NEW n \in 0 .. N - 1, n \in T PROVE n + 1 \in T
  <2> DEFINE r == requests[n + 1]
  <2>1. n + 1 \in 0 .. N /\ n + 1 \in 1 .. N
    BY <1>0
  <2>2. r.weight \in Int
    <3>1. r \in Request
      BY <1>0, <2>1
    <3> HIDE DEF r
    <3> QED
      BY <3>1 DEF Request
  <2>3. S(n) \in [Places -> Int]
    BY <1>4
  <2>4. S(n + 1) = Scored(S(n), r)
    BY <1>1
  <2> HIDE DEF S, r, N
  <2>5. S(n + 1) \in [Places -> Int]
    BY <2>2, <2>3, <2>4 DEF Scored, Places
  <2> QED
    BY <2>1, <2>5
<1>5. 0 .. N \subseteq T
  <2> HIDE DEF T, N
  <2> QED
    BY <1>0, <1>3, <1>4, F!UpTo
<1>6. S(N) \in [Places -> Int]
  BY <1>0, <1>5
<1>7. ASSUME NEW d \in Places PROVE Score(d) = S(N)[d]
  BY <1>1, <1>2, Zenon DEF Score, Places
<1> QED
  BY <1>6, <1>7

(* Among numbered things with scores one is best: none scores higher, and  *)
(* none of the same score comes before it.                                 *)
LEMMA BestOf ==
  ASSUME NEW N \in Nat, NEW score \in [1 .. N -> Int], NEW S \in SUBSET (1 .. N), S # {}
  PROVE  \E d \in S : \A e \in S :
           score[e] < score[d] \/ (score[e] = score[d] /\ d <= e)
<1> DEFINE Top(Q, d) == \A e \in Q : score[e] < score[d] \/ (score[e] = score[d] /\ d <= e)
           T == {n \in 0 .. N : \A Q \in SUBSET (1 .. n) : Q # {} => \E d \in Q : Top(Q, d)}
<1>1. 0 \in T
  <2>1. 0 \in 0 .. N /\ \A Q \in SUBSET (1 .. 0) : Q = {}
    OBVIOUS
  <2> HIDE DEF Top
  <2> QED
    BY <2>1
<1>2. ASSUME NEW n \in 0 .. N - 1, n \in T PROVE n + 1 \in T
  <2> SUFFICES ASSUME NEW Q \in SUBSET (1 .. n + 1), Q # {}
               PROVE  \E d \in Q : Top(Q, d)
    OBVIOUS
  <2> DEFINE P == Q \ {n + 1}
  <2>0. ASSUME NEW m \in P PROVE m \in 1 .. n
    <3>1. m \in 1 .. n + 1 /\ m # n + 1
      OBVIOUS
    <3> QED
      BY <3>1
  <2>1. CASE P = {}
    <3>1. n + 1 \in Q /\ \A e \in Q : e = n + 1
      BY <2>1
    <3>2. score[n + 1] \in Int
      OBVIOUS
    <3> QED
      BY <3>1, <3>2
  <2>2. CASE P # {}
    <3>1. PICK d \in P : Top(P, d)
      BY <1>2, <2>0, <2>2
    <3>2. d \in 1 .. n /\ score[d] \in Int /\ score[n + 1] \in Int
      BY <2>0
    <3>3. \A e \in P : score[e] \in Int
      BY <2>0
    <3>4. CASE n + 1 \in Q /\ score[n + 1] > score[d]
      <4>1. ASSUME NEW e \in Q, e # n + 1 PROVE score[e] < score[n + 1]
        <5>1. e \in P
          BY <4>1
        <5> QED
          BY <3>1, <3>2, <3>3, <3>4, <5>1
      <4>2. Top(Q, n + 1)
        BY <4>1
      <4> QED
        BY <3>4, <4>2
    <3>5. CASE ~(n + 1 \in Q /\ score[n + 1] > score[d])
      <4>1. ASSUME NEW e \in Q
            PROVE  score[e] < score[d] \/ (score[e] = score[d] /\ d <= e)
        <5>1. CASE e = n + 1
          BY <3>2, <3>5, <5>1
        <5>2. CASE e \in P
          BY <3>1, <5>2
        <5> QED
          BY <5>1, <5>2
      <4>2. d \in Q /\ Top(Q, d)
        BY <4>1
      <4> QED
        BY <4>2
    <3> QED
      BY <3>4, <3>5
  <2> QED
    BY <2>1, <2>2
<1>3. 0 .. N \subseteq T
  <2> HIDE DEF T
  <2> QED
    BY <1>1, <1>2, F!UpTo
<1>4. N \in T
  <2>1. N \in 0 .. N
    OBVIOUS
  <2> HIDE DEF T
  <2> QED
    BY <1>3, <2>1
<1> QED
  BY <1>4

(* Of the devices left, if any, one is best.                               *)
LEMMA BestIsBest ==
  ASSUME QueryTypeOK, QueryAssumption, Left # {}
  PROVE  /\ Best \in Left
         /\ \A e \in Left : Score(e) < Score(Best) \/ (Score(e) = Score(Best) /\ Best <= e)
<1> DEFINE score == [d \in Places |-> Score(d)]
<1>1. Len(devices) \in Nat /\ Places = 1 .. Len(devices)
  BY DEF QueryTypeOK, QueryAssumption, Places
<1>2. score \in [1 .. Len(devices) -> Int]
  BY <1>1, ScoresAreNumbers
<1>3. Left \in SUBSET (1 .. Len(devices))
  <2>1. 0 \in 0 .. Len(AllFilters)
    BY AllAreFilters DEF QueryTypeOK
  <2> QED
    BY <1>1, <2>1, FiltersOnlyRemove
<1>4. \E d \in Left : \A e \in Left :
        score[e] < score[d] \/ (score[e] = score[d] /\ d <= e)
  <2> HIDE DEF score
  <2> QED
    BY <1>1, <1>2, <1>3, BestOf
<1>5. \A d \in Left : score[d] = Score(d)
  BY <1>1, <1>3
<1>6. \E d \in Left : \A e \in Left :
        Score(e) < Score(d) \/ (Score(e) = Score(d) /\ d <= e)
  <2> HIDE DEF score
  <2> QED
    BY <1>4, <1>5
<1> QED
  BY <1>6 DEF Best

-----------------------------------------------------------------------------
(* The answer *)

LEMMA InitInv == QueryAssumption /\ QueryInit => QueryTypeOK /\ AnswerCurrent
BY DEF QueryAssumption, QueryInit, QueryTypeOK, AnswerCurrent, Filter, Request

(* Calls keep the types of what they change.                               *)
LEMMA NextTypeOK == QueryAssumption /\ QueryTypeOK /\ [QueryNext]_queryVars => QueryTypeOK'
<1> SUFFICES ASSUME QueryAssumption, QueryTypeOK, [QueryNext]_queryVars PROVE QueryTypeOK'
  OBVIOUS
<1>0. \A fs \in Seq(Filter) : AddFilters(fs) =>
        /\ UNCHANGED <<devices, requests, priorityB>> /\ answer' = NotAsked
        /\ filters' \in Seq(Filter) /\ Len(filters') <= MaxFilters
  BY DEF AddFilters, QueryTypeOK, QueryAssumption
<1>1. CASE UNCHANGED queryVars
  BY <1>1 DEF queryVars, QueryTypeOK
<1>2. ASSUME NEW c \in Capabilities, require(c) \/ requireIfPossible(c)
      PROVE  QueryTypeOK'
  <2>1. <<Hard(c)>> \in Seq(Filter) /\ <<Soft(c)>> \in Seq(Filter)
    BY DEF Hard, Soft, Filter
  <2> QED
    BY <1>0, <1>2, <2>1 DEF require, requireIfPossible, QueryTypeOK
<1>3. CASE reniRecommended
  <2> DEFINE added == <<Hard(Swapchain)>>
                        \o [i \in DOMAIN RecommendedSoft |-> Soft(RecommendedSoft[i])]
  <2>1. added \in Seq(Filter)
    <3> DEFINE softs == [i \in 1 .. Len(RecommendedSoft) |-> Soft(RecommendedSoft[i])]
    <3>1. \A i \in 1 .. Len(RecommendedSoft) : Soft(RecommendedSoft[i]) \in Filter
      BY DEF Soft, Filter, QueryAssumption
    <3>2. Len(RecommendedSoft) \in Nat /\ DOMAIN RecommendedSoft = 1 .. Len(RecommendedSoft)
      BY DEF QueryAssumption
    <3>3. softs \in Seq(Filter)
      BY <3>1, <3>2
    <3>4. <<Hard(Swapchain)>> \in Seq(Filter)
      BY DEF Hard, Filter, QueryAssumption
    <3>5. added = <<Hard(Swapchain)>> \o softs
      BY <3>2
    <3> HIDE DEF softs, added
    <3> QED
      BY <3>3, <3>4, <3>5
  <2>2. AddFilters(added) /\ priority' = Dedicated
    BY <1>3 DEF reniRecommended
  <2> HIDE DEF added
  <2> QED
    BY <1>0, <2>1, <2>2 DEF QueryTypeOK, QueryAssumption
<1>4. ASSUME NEW c \in Capabilities, NEW w \in Weights, request(w, c)
      PROVE  QueryTypeOK'
  <2>1. [capability |-> c, weight |-> w] \in Request
    BY DEF Request, QueryAssumption
  <2> QED
    BY <1>4, <2>1 DEF request, QueryTypeOK, QueryAssumption
<1>5. ASSUME NEW c \in Capabilities \cup {NoModel}, priorityModel(c) \/ favorBrands(c)
      PROVE  QueryTypeOK'
  BY <1>5 DEF priorityModel, favorBrands, QueryTypeOK
<1>6. CASE select
  <2>1. Left \subseteq Places
    <3>1. 0 \in 0 .. Len(AllFilters)
      BY AllAreFilters DEF QueryTypeOK
    <3> QED
      BY <3>1, FiltersOnlyRemove
  <2>2. answer' \in Places \cup {0}
    BY <1>6, <2>1, BestIsBest DEF select
  <2> QED
    BY <1>6, <2>2 DEF select, QueryTypeOK, Places
<1> QED
  BY <1>1, <1>2, <1>3, <1>4, <1>5, <1>6 DEF QueryNext

(* The answer is forgotten by every call that changes the query.           *)
LEMMA NextAnswerCurrent == AnswerCurrent /\ [QueryNext]_queryVars => AnswerCurrent'
<1> SUFFICES ASSUME AnswerCurrent, [QueryNext]_queryVars PROVE AnswerCurrent'
  OBVIOUS
<1>1. CASE answer' = NotAsked
  BY <1>1 DEF AnswerCurrent
<1>2. ASSUME UNCHANGED <<devices, filters, requests, priority, priorityB>>
      PROVE  Selection' = Selection
  <2>1. AllFilters' = AllFilters
    BY <1>2 DEF AllFilters, Soft
  <2> QED
    BY <1>2, <2>1 DEF Selection, Left, Best, Score, FoldLeft, MapThenFoldSet, Applied, Holds, Scored
<1>3. CASE UNCHANGED queryVars
  BY <1>2, <1>3 DEF AnswerCurrent, queryVars
<1>4. CASE select
  BY <1>2, <1>4 DEF AnswerCurrent, select, Selection
<1>5. CASE ~select /\ QueryNext
  <2>1. answer' = NotAsked
    BY <1>5 DEF QueryNext, require, requireIfPossible, reniRecommended, AddFilters, favorBrands,
                request, priorityModel
  <2> QED
    BY <1>1, <2>1
<1> QED
  BY <1>3, <1>4, <1>5

LEMMA Invariance == QuerySpec => [](QueryTypeOK /\ AnswerCurrent)
<1>1. QueryTypeOK /\ AnswerCurrent /\ [QueryNext]_queryVars => (QueryTypeOK /\ AnswerCurrent)'
  BY QueryAssumption, NextTypeOK, NextAnswerCurrent
<1>2. QueryInit => QueryTypeOK /\ AnswerCurrent
  BY QueryAssumption, InitInv
<1> QED
  BY <1>1, <1>2, PTL DEF QuerySpec

(* The variables of a query keep their types; what it answers is a device  *)
(* of the list, or that there is none.                                     *)
THEOREM TypeCorrect == QuerySpec => []QueryTypeOK
BY Invariance, PTL

(* An answer is what select would answer now.                              *)
THEOREM AnswersNeverStale == QuerySpec => []AnswerCurrent
BY Invariance, PTL

(* An answer other than that there is none is the best of those left.      *)
LEMMA SelectedIsBest ==
  ASSUME QueryTypeOK, AnswerCurrent, Selected
  PROVE  /\ answer \in Left /\ answer \in Places
         /\ \A e \in Left :
              Score(e) < Score(answer) \/ (Score(e) = Score(answer) /\ answer <= e)
<1>1. Left # {} /\ answer = Best
  BY DEF AnswerCurrent, Selected, Selection
<1>2. answer \in Places
  BY DEF QueryTypeOK, Selected, Places
<1> QED
  BY <1>1, <1>2, BestIsBest, QueryAssumption

(* The device selected meets every requirement, and no other that does     *)
(* fulfils all of its wishes and one more.                                 *)
THEOREM AlwaysUndominated == QuerySpec => []SelectedUndominated
<1>1. QueryTypeOK /\ AnswerCurrent => SelectedUndominated
  <2> SUFFICES ASSUME QueryTypeOK, AnswerCurrent, Selected
               PROVE  /\ MeetsRequired(answer)
                      /\ \A d \in Places :
                           MeetsRequired(d) /\ Fulfilled(answer) \subseteq Fulfilled(d)
                             => Fulfilled(d) = Fulfilled(answer)
    BY DEF SelectedUndominated, Places
  <2>1. answer \in Left
    BY SelectedIsBest
  <2>2. MeetsRequired(answer)
    BY <2>1, LeftMeetRequired
  <2>3. ASSUME NEW d \in Places, MeetsRequired(d), Fulfilled(answer) \subseteq Fulfilled(d)
        PROVE  Fulfilled(d) = Fulfilled(answer)
    <3>1. d \in Left
      BY <2>1, <2>3, AsGoodIsLeft
    <3> QED
      BY <2>1, <2>3, <3>1, LeftFulfilAlike
  <2> QED
    BY <2>2, <2>3
<1> QED
  BY <1>1, Invariance, PTL

(* Of the devices that meet the requirements and fulfil the same wishes the*)
(* one selected has the highest score, and is the first that has.          *)
THEOREM AlwaysScoresHighest == QuerySpec => []SelectedScoresHighest
<1>1. QueryTypeOK /\ AnswerCurrent => SelectedScoresHighest
  <2> SUFFICES ASSUME QueryTypeOK, AnswerCurrent, Selected, NEW d \in Places,
                      MeetsRequired(d), Fulfilled(d) = Fulfilled(answer)
               PROVE  Score(d) < Score(answer) \/ (Score(d) = Score(answer) /\ d >= answer)
    BY DEF SelectedScoresHighest, Places
  <2>1. answer \in Left
    BY SelectedIsBest
  <2>2. d \in Left
    BY <2>1, AsGoodIsLeft
  <2>3. d \in Nat /\ answer \in Nat
    BY SelectedIsBest, QueryAssumption DEF QueryTypeOK, QueryAssumption, Places
  <2> QED
    BY <2>2, <2>3, SelectedIsBest
<1> QED
  BY <1>1, Invariance, PTL

(* Requirements made first leave every device that meets them, and wishes  *)
(* made afterwards never remove all.                                       *)
LEMMA RequiredFirstLeaves ==
  ASSUME QueryTypeOK, RequiredFirst, NEW d \in Places, MeetsRequired(d)
  PROVE  Left # {}
<1> DEFINE N == Len(AllFilters)
           Hards(n) == \A j \in 1 .. n : ~AllFilters[j].soft
           T == {n \in 0 .. N : LeftAfter(n) # {} /\ (Hards(n) => d \in LeftAfter(n))}
<1>0. N \in Nat
  BY AllAreFilters
<1>1. 0 \in T
  BY <1>0, FilterByFilter
<1>2. ASSUME NEW n \in 0 .. N - 1, n \in T PROVE n + 1 \in T
  <2> DEFINE f == AllFilters[n + 1]
             before == LeftAfter(n)
             after == LeftAfter(n + 1)
  <2>0. n + 1 \in 0 .. N /\ n + 1 \in 1 .. N
    BY <1>0
  <2>1. after = Applied(before, f)
    BY FilterByFilter
  <2>2. before # {} /\ (Hards(n) => d \in before)
    BY <1>2
  <2>3. Hards(n + 1) => Hards(n) /\ ~f.soft
    BY <2>0
  <2>4. CASE f.soft
    <3>1. after # {}
      BY <2>1, <2>2, <2>4 DEF Applied
    <3> QED
      BY <2>0, <2>3, <2>4, <3>1
  <2>5. CASE ~f.soft
    <3>1. n + 1 \in 1 .. Len(filters) /\ f \in ToSet(filters)
      BY <2>0, <2>5, FilterKinds
    <3>2. Hards(n)
      <4> SUFFICES ASSUME NEW j \in 1 .. n, AllFilters[j].soft PROVE FALSE
        OBVIOUS
      <4>1. j \in DOMAIN filters /\ n + 1 \in DOMAIN filters
        BY <3>1 DEF QueryTypeOK
      <4>2. filters[j].soft /\ ~filters[n + 1].soft
        BY <2>5, <3>1, <4>1, AllAreFilters DEF QueryTypeOK
      <4>3. n + 1 < j
        BY <4>1, <4>2 DEF RequiredFirst
      <4> QED
        BY <4>3
    <3>3. Holds(d, f.capability)
      BY <2>5, <3>1 DEF MeetsRequired
    <3>4. d \in after
      BY <2>1, <2>2, <2>5, <3>2, <3>3 DEF Applied
    <3> QED
      BY <2>0, <3>4
  <2> QED
    BY <2>4, <2>5
<1>3. 0 .. N \subseteq T
  <2> HIDE DEF T, N
  <2> QED
    BY <1>0, <1>1, <1>2, F!UpTo
<1> QED
  BY <1>0, <1>3, FilterByFilter

(* A query whose requirements come first throws only if no device meets    *)
(* them.                                                                   *)
THEOREM AlwaysThrowsForNone == QuerySpec => []ThrowsOnlyIfNoneMeets
<1>1. QueryTypeOK /\ AnswerCurrent => ThrowsOnlyIfNoneMeets
  <2> SUFFICES ASSUME QueryTypeOK, AnswerCurrent, answer = 0, RequiredFirst,
                      NEW d \in Places, MeetsRequired(d)
               PROVE  FALSE
    BY DEF ThrowsOnlyIfNoneMeets, Places
  <2>1. Left # {}
    BY RequiredFirstLeaves
  <2>2. Best \in Left /\ Left \subseteq Places
    <3>1. 0 \in 0 .. Len(AllFilters)
      BY AllAreFilters DEF QueryTypeOK
    <3> QED
      BY <2>1, <3>1, BestIsBest, FiltersOnlyRemove, QueryAssumption
  <2>3. 0 \notin Places
    BY QueryAssumption DEF QueryTypeOK, QueryAssumption, Places
  <2> QED
    BY <2>1, <2>2, <2>3 DEF AnswerCurrent, Selection, NotAsked
<1> QED
  BY <1>1, Invariance, PTL

-----------------------------------------------------------------------------
(* Requests are made of requests *)

Members(r) == IF r.kind = "shared" THEN {} ELSE {r.of[i] : i \in DOMAIN r.of}

LEMMA KindsOfRequests ==
  ASSUME NEW r \in Requests
  PROVE  /\ r.kind \in {"shared", "either", "split"}
         /\ r.kind = "shared" => r.types \in Seq(Types) /\ r.count \in Nat \ {0}
         /\ r.kind # "shared" => r.of \in Seq(Requests)
         /\ Members(r) \subseteq Requests
<1>1. (CASE r.kind = "shared" -> r.types \in Seq(Types) /\ r.count \in Nat \ {0}
         [] OTHER -> r.kind \in {"either", "split"} /\ r.of \in Seq(Requests))
  BY QueueAssumption
<1>2. CASE r.kind = "shared"
  BY <1>1, <1>2 DEF Members
<1>3. CASE r.kind # "shared"
  <2>1. r.kind \in {"either", "split"} /\ r.of \in Seq(Requests)
    BY <1>1, <1>3
  <2>2. \A i \in DOMAIN r.of : r.of[i] \in Requests
    BY <2>1
  <2> QED
    BY <1>3, <2>1, <2>2 DEF Members
<1> QED
  BY <1>2, <1>3

(* What holds of a request if of its members holds of all requests.        *)
LEMMA FromMembers ==
  ASSUME NEW S, \A r \in Requests : Members(r) \subseteq S => r \in S
  PROVE  Requests \subseteq S
<1> SUFFICES ASSUME Requests \ S # {} PROVE FALSE
  OBVIOUS
<1>1. PICK r \in Requests \ S :
        r.kind = "shared" \/ \A i \in DOMAIN r.of : r.of[i] \notin Requests \ S
  <2>1. Requests \ S \in SUBSET Requests
    OBVIOUS
  <2> QED
    BY <2>1, Constructed
<1>2. Members(r) \subseteq Requests
  BY KindsOfRequests
<1>3. Members(r) \subseteq S
  BY <1>1, <1>2 DEF Members
<1> QED
  BY <1>1, <1>3

(* A definition by recursion over members defines a function.              *)
LEMMA RecursionOverMembers ==
  ASSUME NEW V, NEW v \in V, NEW B \in [[Requests -> V] -> [Requests -> V]],
         \A f, g \in [Requests -> V] : \A r \in Requests :
           (\A q \in Members(r) : f[q] = g[q]) => B[f][r] = B[g][r]
  PROVE  \E f : f = B[f] /\ f \in [Requests -> V]
<1> DEFINE Closed(D) == D \in SUBSET Requests /\ \A r \in D : Members(r) \subseteq D
           Solves(f, D) == f \in [Requests -> V] /\ Closed(D) /\ \A r \in D : f[r] = B[f][r]
           U == {r \in Requests : \E f, D : Solves(f, D) /\ r \in D}
           Solver(r) == CHOOSE f : \E D : Solves(f, D) /\ r \in D
           all == [r \in Requests |-> IF r \in U THEN Solver(r)[r] ELSE v]
<1>1. ASSUME NEW f, NEW D, NEW g, NEW E, Solves(f, D), Solves(g, E)
      PROVE  \A r \in D \cap E : f[r] = g[r]
  <2> DEFINE S == {r \in Requests : r \in D \cap E => f[r] = g[r]}
  <2>1. ASSUME NEW r \in Requests, Members(r) \subseteq S PROVE r \in S
    <3> SUFFICES ASSUME r \in D, r \in E PROVE f[r] = g[r]
      OBVIOUS
    <3>1. \A q \in Members(r) : f[q] = g[q]
      BY <1>1, <2>1
    <3>2. B[f][r] = B[g][r]
      BY <1>1, <3>1
    <3> QED
      BY <1>1, <3>2
  <2>2. Requests \subseteq S
    <3> HIDE DEF S
    <3> QED
      BY <2>1, FromMembers
  <2> QED
    BY <1>1, <2>2
<1> HIDE DEF Solves
<1>2. ASSUME NEW f, NEW D, Solves(f, D), NEW r \in D PROVE r \in U /\ all[r] = f[r]
  <2>1. r \in Requests
    BY <1>2 DEF Solves
  <2>2. r \in U
    BY <1>2, <2>1
  <2>3. PICK E : Solves(Solver(r), E) /\ r \in E
    BY <1>2, Zenon
  <2>4. Solver(r)[r] = f[r]
    BY <1>1, <1>2, <2>3
  <2> QED
    BY <2>1, <2>2, <2>4
<1>3. ASSUME NEW r \in U PROVE all[r] \in V
  <2>1. PICK f, D : Solves(f, D) /\ r \in D
    OBVIOUS
  <2> HIDE DEF all, U
  <2>2. all[r] = f[r]
    BY <1>2, <2>1
  <2> QED
    BY <2>1, <2>2 DEF Solves
<1>4. all \in [Requests -> V]
  <2>1. \A r \in Requests : all[r] \in V
    BY <1>3
  <2>2. DOMAIN all = Requests /\ all = [r \in Requests |-> all[r]]
    OBVIOUS
  <2> HIDE DEF all
  <2> QED
    BY <2>1, <2>2
<1>5. Solves(all, U)
  <2>1. ASSUME NEW r \in U PROVE Members(r) \subseteq U /\ all[r] = B[all][r]
    <3>1. PICK f, D : Solves(f, D) /\ r \in D
      OBVIOUS
    <3>2. Members(r) \subseteq D /\ f \in [Requests -> V] /\ f[r] = B[f][r]
      BY <3>1 DEF Solves
    <3>3. \A q \in D : q \in U /\ all[q] = f[q]
      BY <1>2, <3>1
    <3> HIDE DEF all, U
    <3>4. r \in Requests
      BY <3>1 DEF Solves
    <3>5. B[all][r] = B[f][r]
      BY <1>4, <3>2, <3>3, <3>4
    <3> QED
      BY <3>1, <3>2, <3>3, <3>5
  <2>2. U \in SUBSET Requests
    OBVIOUS
  <2> HIDE DEF all, U
  <2> QED
    BY <1>4, <2>1, <2>2 DEF Solves
<1>6. ASSUME NEW r \in Requests, Members(r) \subseteq U, r \notin U PROVE FALSE
  <2> DEFINE next == [all EXCEPT ![r] = B[all][r]]
             D == U \cup {r}
  <2> HIDE DEF all, U
  <2>1. /\ next \in [Requests -> V] /\ next[r] = B[all][r]
        /\ \A q \in Requests : q # r => next[q] = all[q]
    <3>1. B[all] \in [Requests -> V]
      BY <1>4
    <3>2. B[all][r] \in V
      BY <3>1
    <3> QED
      BY <1>4, <3>2
  <2>2. U \subseteq Requests /\ \A q \in U : Members(q) \subseteq U /\ all[q] = B[all][q]
    BY <1>5 DEF Solves
  <2>3. \A q \in U : next[q] = all[q]
    BY <1>6, <2>1, <2>2
  <2> HIDE DEF next
  <2>4. ASSUME NEW q \in D PROVE Members(q) \subseteq U /\ B[next][q] = B[all][q]
    <3>1. Members(q) \subseteq U /\ q \in Requests
      BY <1>6, <2>2
    <3> QED
      BY <1>4, <2>1, <2>3, <3>1
  <2>5. \A q \in D : next[q] = B[next][q]
    BY <2>1, <2>2, <2>3, <2>4
  <2>6. Solves(next, D)
    BY <1>6, <2>1, <2>2, <2>4, <2>5 DEF Solves
  <2>7. r \in D
    OBVIOUS
  <2>8. r \in U
    BY <1>2, <2>6, <2>7
  <2> QED
    BY <1>6, <2>8
<1>7. Requests \subseteq U
  <2> HIDE DEF U
  <2> QED
    BY <1>6, FromMembers
<1>8. \A r \in Requests : all[r] = B[all][r]
  BY <1>5, <1>7 DEF Solves
<1>9. B[all] \in [Requests -> V]
  BY <1>4
<1>10. all = B[all]
  <2> HIDE DEF all
  <2> QED
    BY <1>4, <1>8, <1>9
<1> QED
  BY <1>4, <1>10

-----------------------------------------------------------------------------
(* The families of one request *)

(* A family has the types and the queues that are asked of it.             *)
Fits(h, a) ==
  /\ a.index \in DOMAIN h
  /\ ToSet(a.types) \subseteq h[a.index].types
  /\ a.count \in 1 .. h[a.index].count

Fitting(h) == {a \in QueueInfo : Fits(h, a)}

Option(h) == {o \in Seq(Fitting(h)) : o # <<>>}

Answers(h) == [threw : BOOLEAN, options : Seq(Option(h))]

LEMMA FamiliesOf ==
  ASSUME NEW h \in Hardware
  PROVE  /\ Len(h) \in Nat /\ DOMAIN h = 1 .. Len(h) /\ IsFiniteSet(DOMAIN h)
         /\ \A i \in DOMAIN h : h[i].count \in Nat \ {0} /\ h[i].types \in SUBSET Types
<1>1. h \in Seq([types : SUBSET Types, count : Nat \ {0}])
  BY QueueAssumption
<1>2. Len(h) \in Nat /\ DOMAIN h = 1 .. Len(h)
  BY <1>1
<1>3. IsFiniteSet(1 .. Len(h))
  BY <1>2, FS_Interval
<1>4. ASSUME NEW i \in DOMAIN h PROVE h[i] \in [types : SUBSET Types, count : Nat \ {0}]
  <2>1. PICK T : T = [types : SUBSET Types, count : Nat \ {0}]
    OBVIOUS
  <2>2. h \in Seq(T) /\ i \in 1 .. Len(h)
    BY <1>1, <1>2, <2>1
  <2>3. h[i] \in T
    BY <2>2
  <2> QED
    BY <2>1, <2>3
<1> QED
  BY <1>2, <1>3, <1>4

LEMMA InfosFit ==
  ASSUME NEW h \in Hardware, NEW r \in Requests, r.kind = "shared"
  PROVE  /\ Infos(h, r) \subseteq Fitting(h)
         /\ IsFiniteSet(Infos(h, r))
         /\ \A a, b \in Infos(h, r) : a.index = b.index => a = b
         /\ \A a \in Infos(h, r) : ToSet(r.types) \subseteq h[a.index].types /\ a.types = r.types
         /\ \A i \in DOMAIN h : ToSet(r.types) \subseteq h[i].types =>
              \E a \in Infos(h, r) : a.index = i
<1> DEFINE capable == {i \in DOMAIN h : ToSet(r.types) \subseteq h[i].types}
           info(i) == [types |-> r.types, count |-> Min2(r.count, h[i].count), index |-> i]
<1>1. Infos(h, r) = {info(i) : i \in capable}
  BY DEF Infos
<1>2. r.types \in Seq(Types) /\ r.count \in Nat \ {0}
  BY KindsOfRequests
<1>3. ASSUME NEW i \in capable
      PROVE  /\ info(i) \in QueueInfo /\ Fits(h, info(i))
             /\ info(i).index = i /\ info(i).types = r.types
  <2>1. i \in Nat \ {0} /\ h[i].count \in Nat \ {0}
    BY FamiliesOf
  <2>2. Min2(r.count, h[i].count) \in 1 .. h[i].count
    BY <1>2, <2>1 DEF Min2
  <2>3. info(i) \in QueueInfo
    BY <1>2, <2>1, <2>2 DEF QueueInfo
  <2> QED
    BY <2>2, <2>3 DEF Fits
<1>4. capable \in SUBSET (DOMAIN h) /\ IsFiniteSet(capable)
  BY FamiliesOf, FS_Subset
<1>5. IsFiniteSet(Infos(h, r))
  <2> DEFINE f == [i \in capable |-> info(i)]
  <2>1. f \in Surjection(capable, Infos(h, r))
    BY <1>1 DEF Surjection
  <2> HIDE DEF f, capable
  <2> QED
    BY <1>4, <2>1, FS_Surjection
<1> HIDE DEF info
<1> QED
  BY <1>1, <1>3, <1>5 DEF Fitting

(* The sort has one family at each place.                                  *)
LEMMA Sorted ==
  ASSUME NEW h \in Hardware, NEW r \in Requests, r.kind = "shared"
  PROVE  /\ SharedOptions(h, r) \in Seq({<<a>> : a \in Infos(h, r)})
         /\ Infos(h, r) # {} => SharedOptions(h, r) # <<>>
<1> DEFINE infos == Infos(h, r)
           prior(a) == {b \in infos : Before(b, a)}
           place(a) == Cardinality(prior(a)) + 1
           N == Cardinality(infos)
           f == [a \in infos |-> place(a)]
<1>1. /\ IsFiniteSet(infos) /\ N \in Nat
      /\ \A a \in infos : a.count \in Int /\ a.index \in Int
      /\ \A a, b \in infos : a.index = b.index => a = b
  <2>1. \A a \in infos : a \in QueueInfo
    BY InfosFit DEF Fitting
  <2>2. \A a \in infos : a.count \in Int /\ a.index \in Int
    BY <2>1 DEF QueueInfo
  <2> QED
    BY <2>2, InfosFit, FS_CardinalityType
<1> HIDE DEF infos
<1>2. ASSUME NEW a \in infos
      PROVE  /\ IsFiniteSet(prior(a)) /\ Cardinality(prior(a)) \in Nat
             /\ place(a) \in 1 .. N
  <2>1. a \notin prior(a)
    BY <1>1 DEF Before
  <2>2. prior(a) \in SUBSET infos /\ prior(a) # infos
    BY <2>1
  <2>3. IsFiniteSet(prior(a)) /\ Cardinality(prior(a)) <= N /\ Cardinality(prior(a)) # N
    <3> HIDE DEF prior
    <3> QED
      BY <1>1, <2>2, FS_Subset
  <2>4. Cardinality(prior(a)) \in Nat
    BY <2>3, FS_CardinalityType
  <2> HIDE DEF prior, N
  <2> QED
    BY <1>1, <2>3, <2>4
<1>3. ASSUME NEW a \in infos, NEW b \in infos, Before(a, b) PROVE place(a) < place(b)
  <2>1. prior(a) \in SUBSET prior(b) /\ a \in prior(b) /\ a \notin prior(a)
    BY <1>1, <1>3 DEF Before
  <2> HIDE DEF prior
  <2>2. Cardinality(prior(a)) <= Cardinality(prior(b)) /\ Cardinality(prior(a)) # Cardinality(prior(b))
    BY <1>2, <2>1, FS_Subset
  <2>3. Cardinality(prior(a)) \in Nat /\ Cardinality(prior(b)) \in Nat
    BY <1>2
  <2> QED
    BY <2>2, <2>3
<1>4. ASSUME NEW a \in infos, NEW b \in infos, a # b PROVE Before(a, b) \/ Before(b, a)
  <2>1. /\ a.count \in Int /\ b.count \in Int /\ a.index \in Int /\ b.index \in Int
        /\ a.index # b.index
    BY <1>1, <1>4
  <2> QED
    BY <2>1 DEF Before
<1>5. ASSUME NEW a \in infos, NEW b \in infos, place(a) = place(b) PROVE a = b
  <2>1. place(a) \in Int /\ place(b) \in Int
    BY <1>2
  <2> HIDE DEF place
  <2> QED
    BY <1>3, <1>4, <1>5, <2>1
<1>6. f \in Injection(infos, 1 .. N)
  <2> HIDE DEF place
  <2>1. f \in [infos -> 1 .. N]
    BY <1>2
  <2>2. \A a, b \in infos : f[a] = f[b] => a = b
    BY <1>5
  <2> QED
    BY <2>1, <2>2 DEF Injection, IsInjective
<1>7. IsFiniteSet(1 .. N) /\ Cardinality(1 .. N) = N
  <2> HIDE DEF N
  <2> QED
    BY <1>1, FS_Interval
<1>8. f \in Surjection(infos, 1 .. N)
  <2> HIDE DEF f
  <2> QED
    BY <1>6, <1>7, FS_Injection
<1>9. ASSUME NEW n \in 1 .. N PROVE \E a \in infos : place(a) = n
  <2> HIDE DEF place, N
  <2> QED
    BY <1>8 DEF Surjection
<1>10. SharedOptions(h, r) = [n \in 1 .. N |-> <<CHOOSE a \in infos : place(a) = n>>]
  BY DEF SharedOptions, infos
<1>11. ASSUME NEW n \in 1 .. N PROVE (CHOOSE a \in infos : place(a) = n) \in infos
  <2> HIDE DEF place, N
  <2> QED
    BY <1>9
<1>12. SharedOptions(h, r) \in Seq({<<a>> : a \in infos}) /\ Len(SharedOptions(h, r)) = N
  <2> DEFINE first(n) == CHOOSE a \in infos : place(a) = n
  <2>1. \A n \in 1 .. N : <<first(n)>> \in {<<a>> : a \in infos}
    BY <1>11
  <2>2. SharedOptions(h, r) = [n \in 1 .. N |-> <<first(n)>>]
    BY <1>10
  <2> HIDE DEF first, N
  <2> QED
    BY <1>1, <2>1, <2>2
<1>13. infos # {} => N > 0
  BY <1>1, FS_EmptySet
<1>14. infos # {} => SharedOptions(h, r) # <<>>
  <2>1. Len(<<>>) = 0
    OBVIOUS
  <2> QED
    BY <1>12, <1>13, <2>1
<1> QED
  BY <1>12, <1>14 DEF infos

-----------------------------------------------------------------------------
(* What prepare answers *)

C == INSTANCE FoldFacts WITH Op <- Concat

(* Lists put together have the elements of each.                           *)
LEMMA Concatenated ==
  ASSUME NEW T, NEW s \in Seq(Seq(T))
  PROVE  /\ FoldLeft(Concat, <<>>, s) \in Seq(T)
         /\ ToSet(FoldLeft(Concat, <<>>, s)) = UNION {ToSet(s[i]) : i \in DOMAIN s}
<1> DEFINE P(n) == C!Partial(<<>>, s, n)
           N == Len(s)
           S == {n \in 0 .. N : P(n) \in Seq(T) /\ ToSet(P(n)) = UNION {ToSet(s[i]) : i \in 1 .. n}}
<1>1. /\ N \in Nat /\ DOMAIN s = 1 .. N
      /\ \A i \in 1 .. N : s[i] \in Seq(T)
  OBVIOUS
<1>2. FoldLeft(Concat, <<>>, s) = C!Fold(<<>>, s)
  BY DEF C!Fold, C!FoldLeft, FoldLeft, C!MapThenFoldSet, MapThenFoldSet, C!Max, Max
<1>3. /\ P(0) = <<>>
      /\ \A n \in 0 .. N - 1 : P(n + 1) = Concat(P(n), s[n + 1])
      /\ P(N) = C!Fold(<<>>, s)
  BY C!FoldByElements
<1> HIDE DEF P, N
<1>4. 0 \in S
  <2>1. <<>> \in Seq(T) /\ 1 .. 0 = {} /\ 0 \in 0 .. N
    BY <1>1
  <2>2. ToSet(<<>>) = {}
    <3>1. DOMAIN <<>> = {}
      OBVIOUS
    <3> QED
      BY <3>1 DEF ToSet
  <2>3. UNION {ToSet(s[i]) : i \in 1 .. 0} = {}
    BY <2>1
  <2>4. P(0) \in Seq(T) /\ ToSet(P(0)) = UNION {ToSet(s[i]) : i \in 1 .. 0}
    BY <1>3, <2>1, <2>2, <2>3
  <2> QED
    BY <2>1, <2>4
<1>5. ASSUME NEW n \in 0 .. N - 1, n \in S PROVE n + 1 \in S
  <2>1. n + 1 \in 1 .. N /\ s[n + 1] \in Seq(T) /\ P(n) \in Seq(T) /\ n \in Nat
    BY <1>1, <1>5
  <2>2. P(n + 1) = P(n) \o s[n + 1]
    BY <1>3 DEF Concat
  <2>3. PICK p \in Seq(T), q \in Seq(T) : p = P(n) /\ q = s[n + 1]
    BY <2>1
  <2>4. p \o q \in Seq(T) /\ ToSet(p \o q) = ToSet(p) \cup ToSet(q)
    <3>1. /\ p \o q \in Seq(T) /\ Len(p \o q) = Len(p) + Len(q)
          /\ \A i \in 1 .. Len(p) + Len(q) :
               (p \o q)[i] = IF i <= Len(p) THEN p[i] ELSE q[i - Len(p)]
      OBVIOUS
    <3>2. /\ Len(p) \in Nat /\ Len(q) \in Nat /\ DOMAIN p = 1 .. Len(p) /\ DOMAIN q = 1 .. Len(q)
          /\ DOMAIN (p \o q) = 1 .. Len(p) + Len(q)
      BY <3>1
    <3>3. ASSUME NEW i \in DOMAIN (p \o q) PROVE (p \o q)[i] \in ToSet(p) \cup ToSet(q)
      <4>1. CASE i <= Len(p)
        BY <3>1, <3>2, <4>1 DEF ToSet
      <4>2. CASE ~(i <= Len(p))
        <5>1. i - Len(p) \in 1 .. Len(q) /\ (p \o q)[i] = q[i - Len(p)]
          BY <3>1, <3>2, <4>2
        <5> QED
          BY <3>2, <5>1 DEF ToSet
      <4> QED
        BY <4>1, <4>2
    <3>4. ASSUME NEW i \in DOMAIN p PROVE p[i] \in ToSet(p \o q)
      <4>1. i \in 1 .. Len(p) + Len(q) /\ (p \o q)[i] = p[i]
        BY <3>1, <3>2
      <4> QED
        BY <3>2, <4>1 DEF ToSet
    <3>5. ASSUME NEW i \in DOMAIN q PROVE q[i] \in ToSet(p \o q)
      <4>1. Len(p) + i \in 1 .. Len(p) + Len(q) /\ ~(Len(p) + i <= Len(p)) /\ (Len(p) + i) - Len(p) = i
        BY <3>2
      <4>2. (p \o q)[Len(p) + i] = q[i]
        BY <3>1, <4>1
      <4> QED
        BY <3>2, <4>1, <4>2 DEF ToSet
    <3>6. ToSet(p \o q) \subseteq ToSet(p) \cup ToSet(q)
      BY <3>3 DEF ToSet
    <3>7. ToSet(p) \subseteq ToSet(p \o q) /\ ToSet(q) \subseteq ToSet(p \o q)
      BY <3>4, <3>5 DEF ToSet
    <3> QED
      BY <3>1, <3>6, <3>7
  <2>5. 1 .. n + 1 = (1 .. n) \cup {n + 1}
    BY <2>1
  <2>6. UNION {ToSet(s[i]) : i \in 1 .. n + 1}
          = (UNION {ToSet(s[i]) : i \in 1 .. n}) \cup ToSet(s[n + 1])
    BY <2>5
  <2>7. ToSet(P(n)) = UNION {ToSet(s[i]) : i \in 1 .. n}
    BY <1>5
  <2>8. n + 1 \in 0 .. N
    BY <1>1, <2>1
  <2>9. P(n + 1) \in Seq(T) /\ ToSet(P(n + 1)) = UNION {ToSet(s[i]) : i \in 1 .. n + 1}
    BY <2>2, <2>3, <2>4, <2>6, <2>7
  <2> QED
    BY <2>8, <2>9
<1>6. 0 .. N \subseteq S
  <2> HIDE DEF S
  <2> QED
    BY <1>1, <1>4, <1>5, C!UpTo
<1>7. N \in S
  BY <1>1, <1>6
<1> QED
  BY <1>1, <1>2, <1>3, <1>7

LEMMA FirstIsOne ==
  ASSUME NEW S \in SUBSET Nat, S # {}
  PROVE  FirstOf(S) \in S /\ \A j \in S : FirstOf(S) <= j
BY C!Least DEF FirstOf

(* The option a member of a split is left with is one of its own.          *)
LEMMA NarrowedIsOption ==
  ASSUME NEW opts, NEW i, NEW j, NEW N \in Nat \ {0}, DOMAIN opts[i] = 1 .. N
  PROVE  \E n \in DOMAIN opts[i] : Narrowed(opts, i, j) = opts[i][n]
<1> DEFINE own == {n \in DOMAIN opts[i] :
                     \A k \in DOMAIN opts[j] : ~SameOption(opts[i][n], opts[j][k])}
           left == IF own = {} THEN DOMAIN opts[i] ELSE own
<1>1. DOMAIN opts[i] # {}
  OBVIOUS
<1>2. left # {} /\ left \subseteq DOMAIN opts[i]
  BY <1>1
<1>3. left \in SUBSET Nat
  <2>1. 1 .. N \subseteq Nat
    OBVIOUS
  <2> HIDE DEF left
  <2> QED
    BY <1>1, <1>2, <2>1
<1>4. FirstOf(left) \in DOMAIN opts[i]
  <2> HIDE DEF left
  <2> QED
    BY <1>2, <1>3, FirstIsOne
<1>5. Narrowed(opts, i, j) = opts[i][FirstOf(left)]
  BY DEF Narrowed
<1> HIDE DEF left
<1> QED
  BY <1>4, <1>5

(* A split answers two families of its two members, or none.               *)
LEMMA SplitAnswers ==
  ASSUME NEW h \in Hardware, NEW opts \in Seq(Seq(Option(h)))
  PROVE  \/ SplitResult(opts) = Threw
         \/ SplitResult(opts) = Found(<<>>)
         \/ /\ Len(opts) = 2
            /\ \E a, b \in Fitting(h) :
                 /\ SplitResult(opts) = Found(<<<<a, b>>>>)
                 /\ a.index # b.index
                 /\ <<a>> \in ToSet(opts[1]) /\ <<b>> \in ToSet(opts[2])
<1> SUFFICES ASSUME SplitResult(opts) # Threw, SplitResult(opts) # Found(<<>>)
             PROVE  /\ Len(opts) = 2
                    /\ \E a, b \in Fitting(h) :
                         /\ SplitResult(opts) = Found(<<<<a, b>>>>)
                         /\ a.index # b.index
                         /\ <<a>> \in ToSet(opts[1]) /\ <<b>> \in ToSet(opts[2])
  OBVIOUS
<1> DEFINE left == Narrowed(opts, 1, 2)
           right == Narrowed(opts, 2, 1)
<1>1. /\ \A i \in DOMAIN opts : opts[i] # <<>>
      /\ \A i \in DOMAIN opts : \A k \in DOMAIN opts[i] : ~(Len(opts[i][k]) > 1)
      /\ ~(Len(opts) > 2) /\ ~(Len(opts) < 2)
      /\ ~SameInfo(left[1], right[1])
      /\ SplitResult(opts) = Found(<<<<left[1], right[1]>>>>)
  BY DEF SplitResult
<1>2. Len(opts) = 2 /\ DOMAIN opts = {1, 2} /\ \A i \in {1, 2} : opts[i] \in Seq(Option(h))
  <2>1. Len(opts) \in Nat /\ DOMAIN opts = 1 .. Len(opts)
    OBVIOUS
  <2>2. Len(opts) = 2
    BY <1>1, <2>1
  <2>3. 1 .. 2 = {1, 2}
    OBVIOUS
  <2>4. \A i \in DOMAIN opts : opts[i] \in Seq(Option(h))
    OBVIOUS
  <2> QED
    BY <2>1, <2>2, <2>3, <2>4
<1>3. /\ \E n \in DOMAIN opts[1] : left = opts[1][n]
      /\ \E n \in DOMAIN opts[2] : right = opts[2][n]
  <2>1. ASSUME NEW i \in {1, 2}
        PROVE  \E N \in Nat \ {0} : DOMAIN opts[i] = 1 .. N
    <3>1. PICK s \in Seq(Option(h)) : s = opts[i] /\ s # <<>>
      BY <1>1, <1>2
    <3>2. Len(s) \in Nat /\ Len(s) # 0 /\ DOMAIN s = 1 .. Len(s)
      BY <3>1, EmptySeq
    <3> QED
      BY <3>1, <3>2
  <2>2. \E n \in DOMAIN opts[1] : left = opts[1][n]
    BY <2>1, NarrowedIsOption
  <2>3. \E n \in DOMAIN opts[2] : right = opts[2][n]
    BY <2>1, NarrowedIsOption
  <2> QED
    BY <2>2, <2>3
<1>4. ASSUME NEW i \in {1, 2}, NEW n \in DOMAIN opts[i]
      PROVE  \E a \in Fitting(h) : opts[i][n] = <<a>>
  <2>1. PICK s \in Seq(Option(h)) : s = opts[i]
    BY <1>2
  <2>2. s[n] \in Option(h)
    BY <2>1
  <2>3. PICK o \in Seq(Fitting(h)) : o = s[n] /\ o # <<>>
    BY <2>2 DEF Option
  <2>4. ~(Len(o) > 1)
    BY <1>1, <1>2, <2>1, <2>3
  <2>5. Len(o) = 1
    <3>1. Len(o) \in Nat /\ Len(o) # 0
      BY <2>3, EmptySeq
    <3>2. \A x \in Nat : x # 0 /\ ~(x > 1) => x = 1
      OBVIOUS
    <3> QED
      BY <2>4, <3>1, <3>2, Zenon
  <2>6. o[1] \in Fitting(h)
    <3>1. 1 \in 1 .. Len(o)
      BY <2>5
    <3>2. PICK T : T = Fitting(h)
      OBVIOUS
    <3>3. o \in Seq(T)
      BY <3>2
    <3>4. o[1] \in T
      BY <3>1, <3>3
    <3> QED
      BY <3>2, <3>4
  <2>7. o = <<o[1]>>
    BY <2>5
  <2> QED
    BY <2>1, <2>3, <2>6, <2>7
<1>5. PICK a \in Fitting(h) : left = <<a>> /\ left \in ToSet(opts[1])
  BY <1>3, <1>4 DEF ToSet
<1>6. PICK b \in Fitting(h) : right = <<b>> /\ right \in ToSet(opts[2])
  BY <1>3, <1>4 DEF ToSet
<1> HIDE DEF left, right
<1>7. left[1] = a /\ right[1] = b
  BY <1>5, <1>6
<1>8. a.index # b.index
  BY <1>1, <1>7 DEF SameInfo
<1> QED
  BY <1>1, <1>2, <1>5, <1>6, <1>7, <1>8

LEMMA WiderSeq ==
  ASSUME NEW S, NEW T, S \subseteq T, NEW s \in Seq(S)
  PROVE  s \in Seq(T)
OBVIOUS

LEMMA AnswersAre ==
  ASSUME NEW h
  PROVE  /\ Threw \in Answers(h)
         /\ Found(<<>>) \in Answers(h)
         /\ \A opts \in Seq(Option(h)) : Found(opts) \in Answers(h)
BY DEF Answers, Threw, Found

LEMMA SingleOption ==
  ASSUME NEW h, NEW a \in Fitting(h)
  PROVE  <<a>> \in Option(h)
<1>1. <<a>> \in Seq(Fitting(h)) /\ Len(<<a>>) = 1 /\ Len(<<>>) = 0
  OBVIOUS
<1> QED
  BY <1>1 DEF Option

LEMMA PairOption ==
  ASSUME NEW h, NEW a \in Fitting(h), NEW b \in Fitting(h)
  PROVE  <<a, b>> \in Option(h) /\ <<<<a, b>>>> \in Seq(Option(h))
<1>1. <<a, b>> \in Seq(Fitting(h)) /\ Len(<<a, b>>) = 2 /\ Len(<<>>) = 0
  OBVIOUS
<1>2. <<a, b>> \in Option(h)
  BY <1>1 DEF Option
<1>3. PICK o \in Option(h) : o = <<a, b>>
  BY <1>2
<1>4. <<o>> \in Seq(Option(h))
  OBVIOUS
<1> QED
  BY <1>2, <1>3, <1>4

(* What prepare makes of a request it makes of the answers to its members. *)
MembersAnswered(h, result, r) == \A q \in Members(r) : result[q] \in Answers(h)

OptionsOf(result, r) == [i \in DOMAIN r.of |-> result[r.of[i]].options]

LEMMA MemberOptions ==
  ASSUME NEW h, NEW result, NEW r \in Requests, r.kind # "shared", MembersAnswered(h, result, r)
  PROVE  /\ OptionsOf(result, r) \in Seq(Seq(Option(h)))
         /\ DOMAIN OptionsOf(result, r) = DOMAIN r.of
         /\ Len(OptionsOf(result, r)) = Len(r.of)
         /\ \A i \in DOMAIN r.of : OptionsOf(result, r)[i] = result[r.of[i]].options
<1>1. r.of \in Seq(Requests)
  BY KindsOfRequests
<1>2. \A i \in DOMAIN r.of : result[r.of[i]].options \in Seq(Option(h))
  BY DEF MembersAnswered, Members, Answers
<1>3. DOMAIN r.of = 1 .. Len(r.of) /\ Len(r.of) \in Nat
  BY <1>1
<1>4. PICK T : T = Seq(Option(h))
  OBVIOUS
<1>5. OptionsOf(result, r) \in [1 .. Len(r.of) -> T]
  BY <1>2, <1>3, <1>4 DEF OptionsOf
<1>6. OptionsOf(result, r) \in Seq(T) /\ Len(OptionsOf(result, r)) = Len(r.of)
  BY <1>3, <1>5
<1> QED
  BY <1>3, <1>4, <1>6 DEF OptionsOf

LEMMA OutcomeCases ==
  ASSUME NEW h, NEW result, NEW r \in Requests
  PROVE  /\ r.kind = "shared" => Outcome(result, h, r) = Found(SharedOptions(h, r))
         /\ r.kind # "shared" /\ (\E i \in DOMAIN r.of : result[r.of[i]].threw) =>
              Outcome(result, h, r) = Threw
         /\ r.kind = "either" /\ (\A i \in DOMAIN r.of : ~result[r.of[i]].threw) =>
              Outcome(result, h, r) = Found(FoldLeft(Concat, <<>>, OptionsOf(result, r)))
         /\ r.kind = "split" /\ (\A i \in DOMAIN r.of : ~result[r.of[i]].threw) =>
              Outcome(result, h, r) = SplitResult(OptionsOf(result, r))
BY Zenon DEF Outcome, OptionsOf

LEMMA OutcomeAnswers ==
  ASSUME NEW h \in Hardware, NEW result, NEW r \in Requests, MembersAnswered(h, result, r)
  PROVE  Outcome(result, h, r) \in Answers(h)
<1>1. CASE r.kind = "shared"
  <2>1. SharedOptions(h, r) \in Seq({<<a>> : a \in Infos(h, r)})
    BY <1>1, Sorted
  <2>2. {<<a>> : a \in Infos(h, r)} \subseteq Option(h)
    BY <1>1, InfosFit, SingleOption
  <2>3. SharedOptions(h, r) \in Seq(Option(h))
    BY <2>1, <2>2, WiderSeq
  <2> QED
    BY <1>1, <2>3, OutcomeCases, AnswersAre
<1>2. CASE r.kind # "shared" /\ \E i \in DOMAIN r.of : result[r.of[i]].threw
  BY <1>2, OutcomeCases, AnswersAre
<1>3. CASE r.kind = "either" /\ \A i \in DOMAIN r.of : ~result[r.of[i]].threw
  <2>1. OptionsOf(result, r) \in Seq(Seq(Option(h)))
    BY <1>3, MemberOptions
  <2>2. FoldLeft(Concat, <<>>, OptionsOf(result, r)) \in Seq(Option(h))
    BY <2>1, Concatenated
  <2> QED
    BY <1>3, <2>2, OutcomeCases, AnswersAre
<1>4. CASE r.kind = "split" /\ \A i \in DOMAIN r.of : ~result[r.of[i]].threw
  <2>1. OptionsOf(result, r) \in Seq(Seq(Option(h)))
    BY <1>4, MemberOptions
  <2>2. \/ SplitResult(OptionsOf(result, r)) = Threw
        \/ SplitResult(OptionsOf(result, r)) = Found(<<>>)
        \/ \E a, b \in Fitting(h) : SplitResult(OptionsOf(result, r)) = Found(<<<<a, b>>>>)
    BY <2>1, SplitAnswers
  <2>3. SplitResult(OptionsOf(result, r)) \in Answers(h)
    BY <2>2, AnswersAre, PairOption
  <2> QED
    BY <1>4, <2>3, OutcomeCases
<1> QED
  BY <1>1, <1>2, <1>3, <1>4, KindsOfRequests

LEMMA OutcomeOfMembers ==
  ASSUME NEW h, NEW f, NEW g, NEW r \in Requests, \A q \in Members(r) : f[q] = g[q]
  PROVE  Outcome(f, h, r) = Outcome(g, h, r)
<1>1. CASE r.kind = "shared"
  BY <1>1, OutcomeCases
<1>2. CASE r.kind # "shared"
  <2>1. \A i \in DOMAIN r.of : f[r.of[i]] = g[r.of[i]]
    BY <1>2 DEF Members
  <2>2. OptionsOf(f, r) = OptionsOf(g, r)
    BY <2>1, Zenon DEF OptionsOf
  <2>3. (\E i \in DOMAIN r.of : f[r.of[i]].threw) <=> (\E i \in DOMAIN r.of : g[r.of[i]].threw)
    BY <2>1, Zenon
  <2>4. r.kind \in {"either", "split"}
    BY <1>2, KindsOfRequests
  <2>5. CASE \E i \in DOMAIN r.of : f[r.of[i]].threw
    BY <1>2, <2>3, <2>5, OutcomeCases, Zenon
  <2>6. CASE \A i \in DOMAIN r.of : ~f[r.of[i]].threw
    <3>1. \A i \in DOMAIN r.of : ~g[r.of[i]].threw
      BY <2>3, <2>6, Zenon
    <3>2. CASE r.kind = "either"
      <4>1. Outcome(f, h, r) = Found(FoldLeft(Concat, <<>>, OptionsOf(f, r)))
        BY <2>6, <3>2, OutcomeCases, Zenon
      <4>2. Outcome(g, h, r) = Found(FoldLeft(Concat, <<>>, OptionsOf(g, r)))
        BY <3>1, <3>2, OutcomeCases, Zenon
      <4> QED
        BY <2>2, <4>1, <4>2, Zenon
    <3>3. CASE r.kind = "split"
      <4>1. Outcome(f, h, r) = SplitResult(OptionsOf(f, r))
        BY <2>6, <3>3, OutcomeCases, Zenon
      <4>2. Outcome(g, h, r) = SplitResult(OptionsOf(g, r))
        BY <3>1, <3>3, OutcomeCases, Zenon
      <4> QED
        BY <2>2, <4>1, <4>2, Zenon
    <3> QED
      BY <2>4, <3>2, <3>3
  <2> QED
    BY <2>5, <2>6, Zenon
<1> QED
  BY <1>1, <1>2

(* Prepared is defined: every request has its answer.                      *)
LEMMA PreparedIs ==
  ASSUME NEW h \in Hardware, NEW r \in Requests
  PROVE  /\ Prepared(h)[r] = Outcome(Prepared(h), h, r)
         /\ Prepared(h)[r] \in Answers(h)
<1> DEFINE Solution(f) == f = [q \in Requests |-> Outcome(f, h, q)]
           V == Answers(h)
           Over(f) == [q \in Requests |-> Outcome(f, h, q)]
           B == [f \in [Requests -> V] |-> Over(f)]
<1>1. B \in [[Requests -> V] -> [Requests -> V]]
  <2>1. ASSUME NEW f \in [Requests -> V] PROVE Over(f) \in [Requests -> V]
    <3>1. \A q \in Requests : MembersAnswered(h, f, q)
      BY KindsOfRequests DEF MembersAnswered
    <3>2. \A q \in Requests : Outcome(f, h, q) \in V
      BY <3>1, OutcomeAnswers
    <3> HIDE DEF V
    <3> QED
      BY <3>2
  <2> HIDE DEF Over, V
  <2> QED
    BY <2>1
<1>2. \A f, g \in [Requests -> V] : \A q \in Requests :
        (\A p \in Members(q) : f[p] = g[p]) => B[f][q] = B[g][q]
  <2> SUFFICES ASSUME NEW f \in [Requests -> V], NEW g \in [Requests -> V], NEW q \in Requests,
                      \A p \in Members(q) : f[p] = g[p]
               PROVE  B[f][q] = B[g][q]
    OBVIOUS
  <2>1. Outcome(f, h, q) = Outcome(g, h, q)
    BY OutcomeOfMembers
  <2>2. Over(f)[q] = Outcome(f, h, q) /\ Over(g)[q] = Outcome(g, h, q)
    BY Zenon
  <2>3. B[f] = Over(f) /\ B[g] = Over(g)
    BY Zenon
  <2> HIDE DEF B, Over
  <2> QED
    BY <2>1, <2>2, <2>3
<1>3. Threw \in V
  BY AnswersAre
<1>4. PICK f \in [Requests -> V] : f = B[f]
  <2> HIDE DEF B, V
  <2> QED
    BY <1>1, <1>2, <1>3, RecursionOverMembers, Zenon
<1>5. Solution(f)
  BY <1>4, Zenon
<1>6. Solution(Prepared(h))
  BY <1>5, Zenon DEF Prepared
<1>7. ASSUME NEW q \in Requests PROVE Prepared(h)[q] = Outcome(Prepared(h), h, q)
  BY <1>6, Zenon
<1> DEFINE S == {q \in Requests : Prepared(h)[q] \in V}
<1>8. ASSUME NEW q \in Requests, Members(q) \subseteq S PROVE q \in S
  <2>1. MembersAnswered(h, Prepared(h), q)
    BY <1>8 DEF MembersAnswered
  <2>2. Outcome(Prepared(h), h, q) \in V
    BY <2>1, OutcomeAnswers
  <2> HIDE DEF V
  <2> QED
    BY <1>7, <2>2
<1>9. Requests \subseteq S
  <2> HIDE DEF S
  <2> QED
    BY <1>8, FromMembers
<1> QED
  BY <1>7, <1>9

(* A call of requestIndices refreshes the request itself unless it throws. *)
LEMMA ReachedIs ==
  ASSUME NEW h \in Hardware, NEW r \in Requests
  PROVE  /\ Reached(h)[r] = Returning(Reached(h), Prepared(h), r)
         /\ Reached(h)[r] \in SUBSET Requests
         /\ ~Prepared(h)[r].threw => r \in Reached(h)[r]
<1> DEFINE result == Prepared(h)
           Over(f) == [q \in Requests |-> Returning(f, result, q)]
           Solution(f) == f = [q \in Requests |-> Returning(f, result, q)]
           V == SUBSET Requests
           B == [f \in [Requests -> V] |-> Over(f)]
           heard(q) == {i \in DOMAIN q.of : \A j \in 1 .. i - 1 : ~result[q.of[j]].threw}
           rest(f, q) == UNION {f[q.of[i]] : i \in heard(q)}
<1>1. ASSUME NEW f, NEW q \in Requests
      PROVE  Returning(f, result, q) =
               (IF result[q].threw THEN {} ELSE {q})
                 \cup (IF q.kind = "shared" THEN {} ELSE rest(f, q))
  BY Zenon DEF Returning
<1> HIDE DEF result
<1>2. ASSUME NEW f, NEW q \in Requests, \A p \in Members(q) : f[p] \in V
      PROVE  Returning(f, result, q) \in V
  <2>1. CASE q.kind = "shared"
    <3>1. Returning(f, result, q) = IF result[q].threw THEN {} ELSE {q}
      BY <1>1, <2>1
    <3> QED
      BY <3>1
  <2>2. CASE q.kind # "shared"
    <3>1. \A i \in heard(q) : f[q.of[i]] \subseteq Requests
      BY <1>2, <2>2 DEF Members
    <3>2. rest(f, q) \subseteq Requests
      BY <3>1
    <3>3. (IF result[q].threw THEN {} ELSE {q}) \subseteq Requests
      OBVIOUS
    <3> HIDE DEF rest
    <3> QED
      BY <1>1, <2>2, <3>2, <3>3
  <2> QED
    BY <2>1, <2>2
<1>3. ASSUME NEW f, NEW g, NEW q \in Requests, \A p \in Members(q) : f[p] = g[p]
      PROVE  Returning(f, result, q) = Returning(g, result, q)
  <2>1. CASE q.kind = "shared"
    BY <1>1, <2>1
  <2>2. CASE q.kind # "shared"
    <3>1. \A i \in heard(q) : f[q.of[i]] = g[q.of[i]]
      BY <1>3, <2>2 DEF Members
    <3>2. rest(f, q) = rest(g, q)
      BY <3>1
    <3> HIDE DEF rest
    <3> QED
      BY <1>1, <2>2, <3>2
  <2> QED
    BY <2>1, <2>2
<1>4. B \in [[Requests -> V] -> [Requests -> V]]
  <2>1. ASSUME NEW f \in [Requests -> V] PROVE Over(f) \in [Requests -> V]
    <3>1. \A q \in Requests : \A p \in Members(q) : f[p] \in V
      BY KindsOfRequests
    <3>2. \A q \in Requests : Returning(f, result, q) \in V
      BY <1>2, <3>1
    <3> HIDE DEF V
    <3> QED
      BY <3>2
  <2> HIDE DEF Over, V
  <2> QED
    BY <2>1
<1>5. \A f, g \in [Requests -> V] : \A q \in Requests :
        (\A p \in Members(q) : f[p] = g[p]) => B[f][q] = B[g][q]
  <2> SUFFICES ASSUME NEW f \in [Requests -> V], NEW g \in [Requests -> V], NEW q \in Requests,
                      \A p \in Members(q) : f[p] = g[p]
               PROVE  B[f][q] = B[g][q]
    OBVIOUS
  <2>1. Returning(f, result, q) = Returning(g, result, q)
    BY <1>3
  <2>2. Over(f)[q] = Returning(f, result, q) /\ Over(g)[q] = Returning(g, result, q)
    BY Zenon
  <2>3. B[f] = Over(f) /\ B[g] = Over(g)
    BY Zenon
  <2> HIDE DEF B, Over
  <2> QED
    BY <2>1, <2>2, <2>3
<1>6. PICK f \in [Requests -> V] : f = B[f]
  <2>1. {} \in V
    OBVIOUS
  <2> HIDE DEF B, V
  <2> QED
    BY <1>4, <1>5, <2>1, RecursionOverMembers, Zenon
<1>7. Solution(f)
  BY <1>6, Zenon
<1>8. Solution(Reached(h))
  BY <1>7, Zenon DEF Reached, result
<1>9. ASSUME NEW q \in Requests PROVE Reached(h)[q] = Returning(Reached(h), result, q)
  BY <1>8, Zenon
<1> DEFINE S == {q \in Requests : Reached(h)[q] \in V}
<1>10. ASSUME NEW q \in Requests, Members(q) \subseteq S PROVE q \in S
  <2>1. \A p \in Members(q) : Reached(h)[p] \in V
    BY <1>10
  <2>2. Returning(Reached(h), result, q) \in V
    BY <1>2, <2>1
  <2> HIDE DEF V
  <2> QED
    BY <1>9, <2>2
<1>11. Requests \subseteq S
  <2> HIDE DEF S
  <2> QED
    BY <1>10, FromMembers
<1>12. ~result[r].threw => r \in Reached(h)[r]
  <2>1. Reached(h)[r] = Returning(Reached(h), result, r)
    BY <1>9
  <2> HIDE DEF rest
  <2> QED
    BY <1>1, <2>1
<1> QED
  BY <1>9, <1>11, <1>12 DEF result

(* Serving is defined: every request has the families that serve it.       *)
LEMMA ServingIs ==
  ASSUME NEW h \in Hardware, NEW r \in Requests
  PROVE  Serving(h)[r] = Serves(Serving(h), h, r)
<1> DEFINE Over(f) == [q \in Requests |-> Serves(f, h, q)]
           Solution(f) == f = [q \in Requests |-> Serves(f, h, q)]
           W == {<<i>> : i \in DOMAIN h} \cup ((DOMAIN h) \X (DOMAIN h))
           V == SUBSET W
           B == [f \in [Requests -> V] |-> Over(f)]
           alone(q) == {<<i>> : i \in {i \in DOMAIN h : ToSet(q.types) \subseteq h[i].types}}
           any(f, q) == UNION {f[q.of[k]] : k \in DOMAIN q.of}
           both(f, q) == {p \in (DOMAIN h) \X (DOMAIN h) :
                 p[1] # p[2] /\ <<p[1]>> \in f[q.of[1]] /\ <<p[2]>> \in f[q.of[2]]}
<1>1. ASSUME NEW f, NEW q \in Requests
      PROVE  /\ q.kind = "shared" => Serves(f, h, q) = alone(q)
             /\ q.kind = "either" => Serves(f, h, q) = any(f, q)
             /\ q.kind = "split" => Serves(f, h, q) = IF Len(q.of) # 2 THEN {} ELSE both(f, q)
  <2>1. CASE q.kind = "shared"
    <3>1. q.kind # "either" /\ q.kind # "split"
      BY <2>1
    <3> HIDE DEF any, both, alone
    <3> QED
      BY <2>1, <3>1 DEF Serves, alone, any, both
  <2>2. CASE q.kind = "either"
    <3>1. q.kind # "shared" /\ q.kind # "split"
      BY <2>2
    <3> HIDE DEF any, both, alone
    <3> QED
      BY <2>2, <3>1 DEF Serves, alone, any, both
  <2>3. CASE q.kind = "split"
    <3>1. q.kind # "either" /\ q.kind # "shared"
      BY <2>3
    <3> HIDE DEF any, both, alone
    <3> QED
      BY <2>3, <3>1 DEF Serves, alone, any, both
  <2> QED
    BY <2>1, <2>2, <2>3, KindsOfRequests
<1>2. ASSUME NEW q \in Requests
      PROVE  /\ \A k \in DOMAIN q.of : q.kind # "shared" => q.of[k] \in Members(q)
             /\ q.kind = "split" /\ Len(q.of) = 2 => 1 \in DOMAIN q.of /\ 2 \in DOMAIN q.of
  <2>1. q.kind = "split" => q.of \in Seq(Requests)
    BY KindsOfRequests
  <2> QED
    BY <2>1 DEF Members
<1>3. ASSUME NEW f \in [Requests -> V], NEW q \in Requests PROVE Serves(f, h, q) \in V
  <2>1. CASE q.kind = "shared"
    BY <1>1, <2>1
  <2>2. CASE q.kind = "either"
    <3>1. \A k \in DOMAIN q.of : f[q.of[k]] \subseteq W
      BY <1>2, <2>2, KindsOfRequests
    <3> HIDE DEF W, both, alone
    <3>2. any(f, q) \subseteq W
      BY <3>1
    <3> QED
      BY <1>1, <2>2, <3>2
  <2>3. CASE q.kind = "split"
    <3>1. both(f, q) \subseteq W
      OBVIOUS
    <3> HIDE DEF W, both
    <3> QED
      BY <1>1, <2>3, <3>1
  <2> QED
    BY <2>1, <2>2, <2>3, KindsOfRequests
<1>4. ASSUME NEW f, NEW g, NEW q \in Requests, \A p \in Members(q) : f[p] = g[p]
      PROVE  Serves(f, h, q) = Serves(g, h, q)
  <2>1. CASE q.kind = "shared"
    BY <1>1, <2>1
  <2>2. CASE q.kind = "either"
    <3>1. \A k \in DOMAIN q.of : f[q.of[k]] = g[q.of[k]]
      BY <1>2, <1>4, <2>2
    <3>2. any(f, q) = any(g, q)
      BY <3>1
    <3> HIDE DEF any, both, alone
    <3> QED
      BY <1>1, <2>2, <3>2
  <2>3. CASE q.kind = "split"
    <3>1. CASE Len(q.of) # 2
      <4> HIDE DEF both
      <4> QED
        BY <1>1, <2>3, <3>1
    <3>2. CASE Len(q.of) = 2
      <4>1. f[q.of[1]] = g[q.of[1]] /\ f[q.of[2]] = g[q.of[2]]
        BY <1>2, <1>4, <2>3, <3>2
      <4>2. both(f, q) = both(g, q)
        BY <4>1
      <4> HIDE DEF both
      <4> QED
        BY <1>1, <2>3, <4>2
    <3> QED
      BY <3>1, <3>2
  <2> QED
    BY <2>1, <2>2, <2>3, KindsOfRequests
<1> HIDE DEF W
<1>5. B \in [[Requests -> V] -> [Requests -> V]]
  <2>1. ASSUME NEW f \in [Requests -> V] PROVE Over(f) \in [Requests -> V]
    <3>1. \A q \in Requests : Serves(f, h, q) \in V
      BY <1>3
    <3> HIDE DEF V
    <3> QED
      BY <3>1
  <2> HIDE DEF Over, V
  <2> QED
    BY <2>1
<1>6. \A f, g \in [Requests -> V] : \A q \in Requests :
        (\A p \in Members(q) : f[p] = g[p]) => B[f][q] = B[g][q]
  <2> SUFFICES ASSUME NEW f \in [Requests -> V], NEW g \in [Requests -> V], NEW q \in Requests,
                      \A p \in Members(q) : f[p] = g[p]
               PROVE  B[f][q] = B[g][q]
    OBVIOUS
  <2>1. Serves(f, h, q) = Serves(g, h, q)
    BY <1>4
  <2>2. Over(f)[q] = Serves(f, h, q) /\ Over(g)[q] = Serves(g, h, q)
    BY Zenon
  <2>3. B[f] = Over(f) /\ B[g] = Over(g)
    BY Zenon
  <2> HIDE DEF B, Over
  <2> QED
    BY <2>1, <2>2, <2>3
<1>7. PICK f \in [Requests -> V] : f = B[f]
  <2>1. {} \in V
    OBVIOUS
  <2> HIDE DEF B, V
  <2> QED
    BY <1>5, <1>6, <2>1, RecursionOverMembers, Zenon
<1>8. Solution(f)
  BY <1>7, Zenon
<1>9. Solution(Serving(h))
  BY <1>8, Zenon DEF Serving
<1> QED
  BY <1>9, Zenon

(* The families that serve a request, by its kind.                         *)
LEMMA ServingOf ==
  ASSUME NEW h \in Hardware, NEW r \in Requests
  PROVE  /\ r.kind = "shared" =>
              Serving(h)[r] = {<<i>> : i \in {i \in DOMAIN h : ToSet(r.types) \subseteq h[i].types}}
         /\ r.kind = "either" => Serving(h)[r] = UNION {Serving(h)[r.of[k]] : k \in DOMAIN r.of}
         /\ r.kind = "split" /\ Len(r.of) = 2 =>
              \A i, j \in DOMAIN h :
                i # j /\ <<i>> \in Serving(h)[r.of[1]] /\ <<j>> \in Serving(h)[r.of[2]]
                  => <<i, j>> \in Serving(h)[r]
<1> DEFINE S == Serving(h)
<1>1. S[r] = Serves(S, h, r)
  BY ServingIs
<1> HIDE DEF S
<1>2. CASE r.kind = "shared"
  <2>1. r.kind # "either" /\ r.kind # "split"
    BY <1>2
  <2> QED
    BY <1>1, <1>2, <2>1 DEF Serves, S
<1>3. CASE r.kind = "either"
  <2>1. r.kind # "shared" /\ r.kind # "split"
    BY <1>3
  <2> QED
    BY <1>1, <1>3, <2>1 DEF Serves, S
<1>4. CASE r.kind = "split"
  <2>1. r.kind # "either" /\ r.kind # "shared"
    BY <1>4
  <2>2. Len(r.of) = 2 =>
          S[r] = {p \in (DOMAIN h) \X (DOMAIN h) :
                   p[1] # p[2] /\ <<p[1]>> \in S[r.of[1]] /\ <<p[2]>> \in S[r.of[2]]}
    BY <1>1, <1>4, <2>1 DEF Serves
  <2> QED
    BY <2>1, <2>2, <1>4 DEF S
<1> QED
  BY <1>2, <1>3, <1>4, KindsOfRequests

(* What it is to be without a split.                                       *)
LEMMA SplitFreeIs ==
  ASSUME NEW r \in Requests
  PROVE  SplitFree(r) <=>
           r.kind = "shared" \/ (r.kind = "either" /\ \A i \in DOMAIN r.of : SplitFree(r.of[i]))
<1> DEFINE Free(f, q) == q.kind = "shared" \/ (q.kind = "either" /\ \A i \in DOMAIN q.of : f[q.of[i]])
           Over(f) == [q \in Requests |-> Free(f, q)]
           Solution(f) == f = [q \in Requests |-> Free(f, q)]
           B == [f \in [Requests -> BOOLEAN] |-> Over(f)]
<1>1. ASSUME NEW f, NEW q \in Requests PROVE Free(f, q) \in BOOLEAN
  OBVIOUS
<1>2. ASSUME NEW f, NEW g, NEW q \in Requests, \A p \in Members(q) : f[p] = g[p]
      PROVE  Free(f, q) = Free(g, q)
  <2>1. CASE q.kind = "shared"
    BY <2>1
  <2>2. CASE q.kind # "shared"
    <3>1. \A i \in DOMAIN q.of : f[q.of[i]] = g[q.of[i]]
      BY <1>2, <2>2 DEF Members
    <3> QED
      BY <3>1, Zenon
  <2> QED
    BY <2>1, <2>2
<1> HIDE DEF Free
<1>3. B \in [[Requests -> BOOLEAN] -> [Requests -> BOOLEAN]]
  <2>1. ASSUME NEW f \in [Requests -> BOOLEAN] PROVE Over(f) \in [Requests -> BOOLEAN]
    BY <1>1, Zenon
  <2> HIDE DEF Over
  <2> QED
    BY <2>1, Zenon
<1>4. \A f, g \in [Requests -> BOOLEAN] : \A q \in Requests :
        (\A p \in Members(q) : f[p] = g[p]) => B[f][q] = B[g][q]
  <2> SUFFICES ASSUME NEW f \in [Requests -> BOOLEAN], NEW g \in [Requests -> BOOLEAN], NEW q \in Requests,
                      \A p \in Members(q) : f[p] = g[p]
               PROVE  B[f][q] = B[g][q]
    BY Zenon
  <2>1. Free(f, q) = Free(g, q)
    BY <1>2
  <2>2. Over(f)[q] = Free(f, q) /\ Over(g)[q] = Free(g, q)
    BY Zenon
  <2>3. B[f] = Over(f) /\ B[g] = Over(g)
    BY Zenon
  <2> HIDE DEF B, Over
  <2> QED
    BY <2>1, <2>2, <2>3, Zenon
<1>5. PICK f \in [Requests -> BOOLEAN] : f = B[f]
  <2> HIDE DEF B
  <2>1. TRUE \in BOOLEAN
    OBVIOUS
  <2> QED
    BY <1>3, <1>4, <2>1, RecursionOverMembers, Zenon
<1>6. Solution(f)
  BY <1>5, Zenon
<1>7. Solution(SplitFrees)
  BY <1>6, Zenon DEF SplitFrees, Free
<1>8. SplitFrees[r] = Free(SplitFrees, r)
  BY <1>7, Zenon
<1> QED
  BY <1>8, Zenon DEF SplitFree, Free

-----------------------------------------------------------------------------
(* What is found serves, and what serves is found *)

Indices(o) == [i \in DOMAIN o |-> o[i].index]

LEMMA IndicesOf ==
  ASSUME NEW a, NEW b
  PROVE  Indices(<<a>>) = <<a.index>> /\ Indices(<<a, b>>) = <<a.index, b.index>>
BY DEF Indices

(* Every option found for a request serves it.                             *)
LEMMA AnswersServe ==
  ASSUME NEW h \in Hardware, NEW r \in Requests
  PROVE  \A o \in ToSet(Prepared(h)[r].options) : Indices(o) \in Serving(h)[r]
<1> DEFINE result == Prepared(h)
           Good(q) == \A o \in ToSet(result[q].options) : Indices(o) \in Serving(h)[q]
           S == {q \in Requests : Good(q)}
<1>1. ASSUME NEW q \in Requests
      PROVE  result[q] = Outcome(result, h, q) /\ MembersAnswered(h, result, q)
  <2>1. \A p \in Members(q) : result[p] \in Answers(h)
    BY KindsOfRequests, PreparedIs
  <2> QED
    BY <2>1, PreparedIs DEF MembersAnswered
<1>2. ToSet(<<>>) = {}
  <2>1. DOMAIN <<>> = {}
    OBVIOUS
  <2> QED
    BY <2>1 DEF ToSet
<1> HIDE DEF result
<1>3. ASSUME NEW q \in Requests, \A p \in Members(q) : Good(p) PROVE Good(q)
  <2>1. CASE q.kind = "shared"
    <3>1. result[q].options = SharedOptions(h, q)
      BY <1>1, <2>1, OutcomeCases DEF Found
    <3>2. ASSUME NEW o \in ToSet(SharedOptions(h, q)) PROVE \E a \in Infos(h, q) : o = <<a>>
      <4>1. PICK T : T = {<<a>> : a \in Infos(h, q)}
        OBVIOUS
      <4>2. SharedOptions(h, q) \in Seq(T)
        BY <2>1, <4>1, Sorted
      <4>3. o \in T
        BY <3>2, <4>2 DEF ToSet
      <4> QED
        BY <4>1, <4>3
    <3>3. ASSUME NEW a \in Infos(h, q) PROVE <<a.index>> \in Serving(h)[q]
      <4>1. a.index \in DOMAIN h /\ ToSet(q.types) \subseteq h[a.index].types
        BY <2>1, InfosFit DEF Fitting, Fits
      <4>2. Serving(h)[q] = {<<i>> : i \in {i \in DOMAIN h : ToSet(q.types) \subseteq h[i].types}}
        BY <2>1, ServingOf
      <4> QED
        BY <4>1, <4>2
    <3>4. ASSUME NEW o \in ToSet(result[q].options) PROVE Indices(o) \in Serving(h)[q]
      <4>1. PICK a \in Infos(h, q) : o = <<a>>
        BY <3>1, <3>2
      <4> QED
        BY <3>3, <4>1, IndicesOf
    <3> QED
      BY <3>4
  <2>2. CASE q.kind # "shared" /\ \E i \in DOMAIN q.of : result[q.of[i]].threw
    <3>1. result[q].options = <<>>
      BY <1>1, <2>2, OutcomeCases DEF Threw
    <3> QED
      BY <1>2, <3>1
  <2>3. CASE q.kind = "either" /\ \A i \in DOMAIN q.of : ~result[q.of[i]].threw
    <3> DEFINE opts == OptionsOf(result, q)
    <3>1. result[q].options = FoldLeft(Concat, <<>>, opts)
      BY <1>1, <2>3, OutcomeCases DEF Found
    <3>2. /\ opts \in Seq(Seq(Option(h)))
          /\ DOMAIN opts = DOMAIN q.of
          /\ \A i \in DOMAIN q.of : opts[i] = result[q.of[i]].options
      BY <1>1, <2>3, MemberOptions
    <3> HIDE DEF opts
    <3>3. ToSet(result[q].options) = UNION {ToSet(opts[i]) : i \in DOMAIN opts}
      BY <3>1, <3>2, Concatenated
    <3>4. Serving(h)[q] = UNION {Serving(h)[q.of[k]] : k \in DOMAIN q.of}
      BY <2>3, ServingOf
    <3>5. ASSUME NEW o \in ToSet(result[q].options) PROVE Indices(o) \in Serving(h)[q]
      <4>1. PICK i \in DOMAIN q.of : o \in ToSet(opts[i])
        BY <3>2, <3>3
      <4>2. q.of[i] \in Members(q)
        BY <2>3 DEF Members
      <4>3. Indices(o) \in Serving(h)[q.of[i]]
        BY <1>3, <3>2, <4>1, <4>2
      <4> QED
        BY <3>4, <4>3
    <3> QED
      BY <3>5
  <2>4. CASE q.kind = "split" /\ \A i \in DOMAIN q.of : ~result[q.of[i]].threw
    <3> DEFINE opts == OptionsOf(result, q)
    <3>1. result[q] = SplitResult(opts)
      BY <1>1, <2>4, OutcomeCases
    <3>2. /\ opts \in Seq(Seq(Option(h)))
          /\ DOMAIN opts = DOMAIN q.of /\ Len(opts) = Len(q.of)
          /\ \A i \in DOMAIN q.of : opts[i] = result[q.of[i]].options
      BY <1>1, <2>4, MemberOptions
    <3> HIDE DEF opts
    <3>3. CASE SplitResult(opts) = Threw \/ SplitResult(opts) = Found(<<>>)
      BY <1>2, <3>1, <3>3 DEF Threw, Found
    <3>4. CASE ~(SplitResult(opts) = Threw \/ SplitResult(opts) = Found(<<>>))
      <4>1. Len(opts) = 2
        BY <3>2, <3>4, SplitAnswers
      <4>2. PICK a \in Fitting(h), b \in Fitting(h) :
              /\ SplitResult(opts) = Found(<<<<a, b>>>>)
              /\ a.index # b.index
              /\ <<a>> \in ToSet(opts[1]) /\ <<b>> \in ToSet(opts[2])
        BY <3>2, <3>4, SplitAnswers
      <4>3. 1 \in DOMAIN q.of /\ 2 \in DOMAIN q.of
        BY <3>2, <4>1
      <4>4. q.of[1] \in Members(q) /\ q.of[2] \in Members(q)
        BY <2>4, <4>3 DEF Members
      <4>5. <<a.index>> \in Serving(h)[q.of[1]] /\ <<b.index>> \in Serving(h)[q.of[2]]
        <5>1. Indices(<<a>>) \in Serving(h)[q.of[1]]
          BY <1>3, <3>2, <4>2, <4>3, <4>4
        <5>2. Indices(<<b>>) \in Serving(h)[q.of[2]]
          BY <1>3, <3>2, <4>2, <4>3, <4>4
        <5> QED
          BY <5>1, <5>2, IndicesOf
      <4>6. a.index \in DOMAIN h /\ b.index \in DOMAIN h
        BY DEF Fitting, Fits
      <4>7. <<a.index, b.index>> \in Serving(h)[q]
        BY <2>4, <3>2, <4>1, <4>2, <4>5, <4>6, ServingOf
      <4>8. ToSet(<<<<a, b>>>>) = {<<a, b>>}
        <5>1. DOMAIN <<<<a, b>>>> = {1} /\ <<<<a, b>>>>[1] = <<a, b>>
          OBVIOUS
        <5> QED
          BY <5>1 DEF ToSet
      <4>9. result[q].options = <<<<a, b>>>>
        BY <3>1, <4>2 DEF Found
      <4> QED
        BY <4>7, <4>8, <4>9, IndicesOf
    <3> QED
      BY <3>3, <3>4
  <2> QED
    BY <2>1, <2>2, <2>3, <2>4, KindsOfRequests
<1>4. ASSUME NEW q \in Requests, Members(q) \subseteq S PROVE q \in S
  <2> HIDE DEF Good
  <2> QED
    BY <1>3, <1>4
<1>5. Requests \subseteq S
  <2> HIDE DEF S
  <2> QED
    BY <1>4, FromMembers
<1> QED
  BY <1>5 DEF result

(* Without a split, prepare never throws and finds whatever serves.        *)
LEMMA FreeFinds ==
  ASSUME NEW h \in Hardware, NEW r \in Requests, SplitFree(r)
  PROVE  /\ ~Prepared(h)[r].threw
         /\ Prepared(h)[r].options = <<>> => Serving(h)[r] = {}
<1> DEFINE result == Prepared(h)
           Good(q) == SplitFree(q) => ~result[q].threw /\ (result[q].options = <<>> => Serving(h)[q] = {})
           S == {q \in Requests : Good(q)}
<1>1. ASSUME NEW q \in Requests
      PROVE  result[q] = Outcome(result, h, q) /\ MembersAnswered(h, result, q)
  <2>1. \A p \in Members(q) : result[p] \in Answers(h)
    BY KindsOfRequests, PreparedIs
  <2> QED
    BY <2>1, PreparedIs DEF MembersAnswered
<1> HIDE DEF result
<1>2. ASSUME NEW q \in Requests, \A p \in Members(q) : Good(p), SplitFree(q)
      PROVE  ~result[q].threw /\ (result[q].options = <<>> => Serving(h)[q] = {})
  <2>1. CASE q.kind = "shared"
    <3>1. result[q] = Found(SharedOptions(h, q))
      BY <1>1, <2>1, OutcomeCases
    <3>2. Serving(h)[q] = {<<i>> : i \in {i \in DOMAIN h : ToSet(q.types) \subseteq h[i].types}}
      BY <2>1, ServingOf
    <3>3. SharedOptions(h, q) = <<>> => Infos(h, q) = {}
      BY <2>1, Sorted
    <3>4. Infos(h, q) = {} => {i \in DOMAIN h : ToSet(q.types) \subseteq h[i].types} = {}
      BY <2>1, InfosFit
    <3> QED
      BY <3>1, <3>2, <3>3, <3>4 DEF Found
  <2>2. CASE q.kind # "shared"
    <3>1. q.kind = "either" /\ \A i \in DOMAIN q.of : SplitFree(q.of[i])
      BY <1>2, <2>2, SplitFreeIs
    <3>2. ASSUME NEW i \in DOMAIN q.of
          PROVE  /\ ~result[q.of[i]].threw
                 /\ result[q.of[i]].options = <<>> => Serving(h)[q.of[i]] = {}
      <4>1. q.of[i] \in Members(q)
        BY <2>2 DEF Members
      <4> QED
        BY <1>2, <3>1, <4>1
    <3> DEFINE opts == OptionsOf(result, q)
    <3>3. result[q] = Found(FoldLeft(Concat, <<>>, opts))
      BY <1>1, <3>1, <3>2, OutcomeCases
    <3>4. /\ opts \in Seq(Seq(Option(h)))
          /\ DOMAIN opts = DOMAIN q.of
          /\ \A i \in DOMAIN q.of : opts[i] = result[q.of[i]].options
      BY <1>1, <3>1, MemberOptions
    <3> HIDE DEF opts
    <3>5. ToSet(FoldLeft(Concat, <<>>, opts)) = UNION {ToSet(opts[i]) : i \in DOMAIN opts}
      BY <3>4, Concatenated
    <3>6. Serving(h)[q] = UNION {Serving(h)[q.of[k]] : k \in DOMAIN q.of}
      BY <3>1, ServingOf
    <3>7. ASSUME FoldLeft(Concat, <<>>, opts) = <<>>, NEW i \in DOMAIN q.of
          PROVE  opts[i] = <<>>
      <4>1. ToSet(<<>>) = {}
        <5>1. DOMAIN <<>> = {}
          OBVIOUS
        <5> QED
          BY <5>1 DEF ToSet
      <4>2. ToSet(opts[i]) = {}
        BY <3>4, <3>5, <3>7, <4>1
      <4>3. PICK s \in Seq(Option(h)) : s = opts[i]
        BY <3>4
      <4>4. DOMAIN s = {}
        BY <4>2, <4>3 DEF ToSet
      <4>5. DOMAIN s = 1 .. Len(s) /\ Len(s) \in Nat
        OBVIOUS
      <4>6. Len(s) = 0
        BY <4>4, <4>5
      <4> QED
        BY <4>3, <4>6, EmptySeq
    <3>8. ASSUME FoldLeft(Concat, <<>>, opts) = <<>> PROVE Serving(h)[q] = {}
      <4>1. \A i \in DOMAIN q.of : Serving(h)[q.of[i]] = {}
        BY <3>2, <3>4, <3>7, <3>8
      <4> QED
        BY <3>6, <4>1
    <3> QED
      BY <3>3, <3>8 DEF Found
  <2> QED
    BY <2>1, <2>2
<1>3. ASSUME NEW q \in Requests, Members(q) \subseteq S PROVE q \in S
  <2>1. Good(q)
    BY <1>2, <1>3
  <2> HIDE DEF Good
  <2> QED
    BY <2>1
<1>4. Requests \subseteq S
  <2> HIDE DEF S
  <2> QED
    BY <1>3, FromMembers
<1> QED
  BY <1>4 DEF result

-----------------------------------------------------------------------------
(* The builder and the logical device *)

LEMMA OptionIs ==
  ASSUME NEW h \in Hardware, NEW o \in Option(h)
  PROVE  /\ o \in Seq(QueueInfo)
         /\ Len(o) \in Nat \ {0} /\ DOMAIN o = 1 .. Len(o)
         /\ \A i \in DOMAIN o : o[i] \in QueueInfo /\ Fits(h, o[i])
<1>1. o \in Seq(Fitting(h)) /\ o # <<>>
  BY DEF Option
<1>2. Fitting(h) \subseteq QueueInfo
  BY DEF Fitting
<1>3. o \in Seq(QueueInfo)
  BY <1>1, <1>2, WiderSeq
<1>4. Len(o) \in Nat /\ Len(o) # 0 /\ DOMAIN o = 1 .. Len(o)
  BY <1>1, EmptySeq
<1>5. \A i \in DOMAIN o : o[i] \in Fitting(h)
  BY <1>1
<1> QED
  BY <1>3, <1>4, <1>5 DEF Fitting

(* UNIQUE keeps one of every group, and the group of every member.         *)
LEMMA UniqueIs ==
  ASSUME NEW h \in Hardware, NEW o \in Option(h)
  PROVE  /\ Unique(o) \subseteq QueueInfo
         /\ \A a \in Unique(o) : Fits(h, a) /\ \E i \in DOMAIN o : a = o[i]
         /\ \A a, b \in Unique(o) : a.index = b.index => a = b
         /\ \A i \in DOMAIN o : \E a \in Unique(o) : a.index = o[i].index
<1> DEFINE first == {i \in DOMAIN o : \A j \in 1 .. i - 1 : ~SameInfo(o[i], o[j])}
<1>1. Unique(o) = {o[i] : i \in first}
  BY DEF Unique
<1>2. /\ DOMAIN o = 1 .. Len(o) /\ Len(o) \in Nat
      /\ \A i \in DOMAIN o : o[i] \in QueueInfo /\ Fits(h, o[i])
  BY OptionIs
<1>3. ASSUME NEW i \in first, NEW j \in first, o[i].index = o[j].index PROVE i = j
  <2>1. i \in Int /\ j \in Int /\ 1 <= i /\ 1 <= j
    BY <1>2
  <2>2. ~(j \in 1 .. i - 1) /\ ~(i \in 1 .. j - 1)
    BY <1>3 DEF SameInfo
  <2> QED
    BY <2>1, <2>2
<1>4. ASSUME NEW i \in DOMAIN o PROVE \E j \in first : o[j].index = o[i].index
  <2> DEFINE S == {j \in DOMAIN o : o[j].index = o[i].index}
  <2>1. S \in SUBSET Nat /\ S # {}
    BY <1>2
  <2>2. PICK j \in S : \A k \in S : j <= k
    <3> HIDE DEF S
    <3> QED
      BY <2>1, C!Least
  <2>3. ASSUME NEW k \in 1 .. j - 1 PROVE o[k].index # o[j].index
    <3>1. k \in DOMAIN o /\ ~(j <= k)
      BY <1>2, <2>2
    <3> QED
      BY <2>2, <3>1
  <2>4. j \in first
    BY <2>2, <2>3 DEF SameInfo
  <2> QED
    BY <2>2, <2>4
<1>5. first \subseteq DOMAIN o
  OBVIOUS
<1> HIDE DEF first
<1> QED
  BY <1>1, <1>2, <1>3, <1>4, <1>5

(* The map of a logical device keeps every list of types there is.         *)
LEMMA KeptIs ==
  ASSUME NEW h \in Hardware, NEW o \in Option(h)
  PROVE  /\ Kept(o) \subseteq QueueInfo /\ IsFiniteSet(Kept(o))
         /\ \A a \in Kept(o) : \E i \in DOMAIN o : a = o[i]
         /\ \A i \in DOMAIN o : \E a \in Kept(o) : a.types = o[i].types
<1> DEFINE last == {i \in DOMAIN o : \A j \in i + 1 .. Len(o) : o[j].types # o[i].types}
<1>1. Kept(o) = {o[i] : i \in last}
  BY DEF Kept
<1>2. /\ DOMAIN o = 1 .. Len(o) /\ Len(o) \in Nat
      /\ \A i \in DOMAIN o : o[i] \in QueueInfo
  BY OptionIs
<1>3. ASSUME NEW i \in DOMAIN o PROVE \E j \in last : o[j].types = o[i].types
  <2> DEFINE S == {j \in DOMAIN o : o[j].types = o[i].types}
             rest == {Len(o) - j : j \in S}
  <2>1. rest \subseteq Nat /\ rest # {}
    BY <1>2
  <2>2. PICK n \in rest : \A k \in rest : n <= k
    <3> HIDE DEF rest
    <3> QED
      BY <2>1, C!Least
  <2>3. PICK j \in S : n = Len(o) - j
    BY <2>2
  <2>4. ASSUME NEW k \in j + 1 .. Len(o) PROVE o[k].types # o[j].types
    <3>1. k \in DOMAIN o /\ j \in Int /\ k \in Int
      BY <1>2, <2>3
    <3>2. ~(Len(o) - j <= Len(o) - k)
      BY <1>2, <3>1
    <3>3. k \notin S
      BY <2>2, <2>3, <3>2
    <3> QED
      BY <2>3, <3>1, <3>3
  <2>5. j \in last
    BY <2>3, <2>4
  <2> QED
    BY <2>3, <2>5
<1>4. last \in SUBSET (1 .. Len(o))
  BY <1>2
<1>5. IsFiniteSet(last)
  <2> HIDE DEF last
  <2>1. IsFiniteSet(1 .. Len(o))
    BY <1>2, FS_Interval
  <2> QED
    BY <1>4, <2>1, FS_Subset
<1>6. IsFiniteSet(Kept(o))
  <2> DEFINE f == [i \in last |-> o[i]]
  <2>1. f \in Surjection(last, Kept(o))
    <3> HIDE DEF last
    <3> QED
      BY <1>1 DEF Surjection
  <2> HIDE DEF f, last
  <2> QED
    BY <1>5, <2>1, FS_Surjection
<1> HIDE DEF last
<1> QED
  BY <1>1, <1>2, <1>3, <1>4, <1>6

(* A list of the elements of a set, each once, has them all.               *)
LEMMA ListOfSet ==
  ASSUME NEW S, IsFiniteSet(S), NEW order \in SetToSeqs(S)
  PROVE  order \in Seq(S) /\ Len(order) \in Nat /\ DOMAIN order = 1 .. Len(order) /\ ToSet(order) = S
<1> DEFINE D == 1 .. Cardinality(S)
<1>1. /\ order \in [D -> S]
      /\ \A i, j \in D : i # j => order[i] # order[j]
  BY DEF SetToSeqs
<1>2. Cardinality(S) \in Nat
  BY FS_CardinalityType
<1>3. IsFiniteSet(D) /\ Cardinality(D) = Cardinality(S)
  BY <1>2, FS_Interval
<1>4. order \in Injection(D, S)
  <2> HIDE DEF D
  <2> QED
    BY <1>1 DEF Injection, IsInjective
<1>5. order \in Surjection(D, S)
  <2> HIDE DEF D
  <2> QED
    BY <1>3, <1>4, FS_Injection
<1>6. ToSet(order) = S
  <2> HIDE DEF D
  <2> QED
    BY <1>1, <1>5 DEF ToSet, Surjection
<1>7. order \in Seq(S) /\ Len(order) = Cardinality(S)
  BY <1>1, <1>2
<1> QED
  BY <1>1, <1>2, <1>6, <1>7

Answered(d, r) == ~Prepared(hardware[d])[r].threw /\ Prepared(hardware[d])[r].options # <<>>

Chosen(d, r) == Prepared(hardware[d])[r].options[1]

(* What is chosen for a request depends on the device alone.               *)
BuilderInv ==
  \/ builder = NoBuilder
  \/ \E d \in Devices : builder = [NoBuilder EXCEPT !.device = d]
  \/ /\ failed = None
     /\ \E d \in Devices, r \in Requests :
          /\ Answered(d, r)
          /\ builder = [device |-> d, request |-> r, chosen |-> Chosen(d, r),
                        creates |-> Unique(Chosen(d, r))]

FailedInv ==
  failed # None =>
    failed \in Requests /\ builder.device \in Devices /\ ~Answered(builder.device, failed)

LogicalInv ==
  \/ logical = NoDevice
  \/ \E d \in Devices, r \in Requests :
       /\ Answered(d, r)
       /\ \E order \in SetToSeqs(Kept(Chosen(d, r))) :
            logical = [device |-> d, request |-> r, families |-> order,
                       created |-> Unique(Chosen(d, r))]

QueuesInv ==
  /\ hardware \in [Devices -> Hardware]
  /\ options \in [Requests -> Seq(Seq(QueueInfo))]
  /\ calls \in 0 .. MaxRequests
  /\ BuilderInv
  /\ FailedInv
  /\ LogicalInv

LEMMA ChosenIsOption ==
  ASSUME QueuesInv, NEW d \in Devices, NEW r \in Requests, Answered(d, r)
  PROVE  /\ hardware[d] \in Hardware
         /\ Chosen(d, r) \in Option(hardware[d])
         /\ Chosen(d, r) \in ToSet(Prepared(hardware[d])[r].options)
<1> DEFINE h == hardware[d]
<1>1. h \in Hardware
  BY DEF QueuesInv
<1> HIDE DEF h
<1>2. Prepared(h)[r] \in Answers(h)
  BY <1>1, PreparedIs
<1>3. PICK T : T = Option(h)
  OBVIOUS
<1>4. PICK s \in Seq(T) : s = Prepared(h)[r].options
  BY <1>2, <1>3 DEF Answers
<1>5. s # <<>>
  BY <1>4 DEF Answered, h
<1>6. Len(s) \in Nat /\ Len(s) # 0 /\ DOMAIN s = 1 .. Len(s)
  BY <1>5, EmptySeq
<1>7. 1 \in DOMAIN s /\ s[1] \in T
  BY <1>6
<1>8. s[1] \in ToSet(s)
  BY <1>7 DEF ToSet
<1> QED
  BY <1>1, <1>3, <1>4, <1>7, <1>8 DEF Chosen, h

LEMMA NoRequest == None \notin Requests /\ NoId \notin Devices
<1>1. None.kind = "none"
  BY DEF None
<1>2. \A r \in Requests : r.kind # "none"
  BY KindsOfRequests
<1> QED
  BY <1>1, <1>2, QueueAssumption

(* The three states of a builder.                                          *)
LEMMA BuilderIs ==
  ASSUME QueuesInv
  PROVE  /\ builder # NoBuilder => builder.device \in Devices
         /\ builder.request = None => builder.chosen = <<>> /\ builder.creates = {}
         /\ builder.request # None =>
              /\ failed = None
              /\ builder.device \in Devices /\ builder.request \in Requests
              /\ Answered(builder.device, builder.request)
              /\ builder.chosen = Chosen(builder.device, builder.request)
              /\ builder.creates = Unique(Chosen(builder.device, builder.request))
         /\ builder = NoBuilder => builder.device = NoId /\ builder.request = None
<1>1. CASE builder = NoBuilder
  BY <1>1 DEF NoBuilder
<1>2. CASE \E d \in Devices : builder = [NoBuilder EXCEPT !.device = d]
  <2>1. PICK d \in Devices : builder = [NoBuilder EXCEPT !.device = d]
    BY <1>2
  <2>2. /\ builder.device = d /\ builder.request = None
        /\ builder.chosen = <<>> /\ builder.creates = {}
    BY <2>1 DEF NoBuilder
  <2>3. builder # NoBuilder
    BY <2>2, NoRequest DEF NoBuilder
  <2> QED
    BY <2>2, <2>3
<1>3. CASE ~(builder = NoBuilder) /\ ~(\E d \in Devices : builder = [NoBuilder EXCEPT !.device = d])
  <2>1. PICK d \in Devices, r \in Requests :
          /\ Answered(d, r)
          /\ builder = [device |-> d, request |-> r, chosen |-> Chosen(d, r),
                        creates |-> Unique(Chosen(d, r))]
    BY <1>3 DEF QueuesInv, BuilderInv
  <2>2. failed = None
    BY <1>3 DEF QueuesInv, BuilderInv
  <2>3. /\ builder.device = d /\ builder.request = r /\ builder.chosen = Chosen(d, r)
        /\ builder.creates = Unique(Chosen(d, r))
    BY <2>1
  <2>4. builder.request # None
    BY <2>3, NoRequest
  <2> QED
    BY <1>3, <2>1, <2>2, <2>3, <2>4
<1> QED
  BY <1>1, <1>2, <1>3

LEMMA InitQueues == Init => QueuesInv
<1> SUFFICES ASSUME Init PROVE QueuesInv
  OBVIOUS
<1>1. options \in [Requests -> Seq(Seq(QueueInfo))]
  BY DEF Init
<1>2. calls \in 0 .. MaxRequests
  BY QueueAssumption DEF Init
<1> QED
  BY <1>1, <1>2 DEF Init, QueuesInv, BuilderInv, FailedInv, LogicalInv

LEMMA AnswersTyped ==
  ASSUME NEW h \in Hardware, NEW r \in Requests
  PROVE  Prepared(h)[r].options \in Seq(Seq(QueueInfo))
<1>1. Prepared(h)[r].options \in Seq(Option(h))
  BY PreparedIs DEF Answers
<1>2. Option(h) \subseteq Seq(QueueInfo)
  BY OptionIs
<1> QED
  BY <1>1, <1>2, WiderSeq

LEMMA NextQueues == QueuesInv /\ [Next]_vars => QueuesInv'
<1> SUFFICES ASSUME QueuesInv, [Next]_vars PROVE QueuesInv'
  OBVIOUS
<1>1. ASSUME hardware' = hardware
      PROVE  \A d \in Devices : \A r \in Requests :
               Answered(d, r)' = Answered(d, r) /\ Chosen(d, r)' = Chosen(d, r)
  BY <1>1 DEF Answered, Chosen
<1>2. CASE UNCHANGED vars
  BY <1>2 DEF vars, QueuesInv, BuilderInv, FailedInv, LogicalInv, Answered, Chosen
<1>3. ASSUME NEW d \in Devices, createLogical(d) PROVE QueuesInv'
  <2>1. BuilderInv'
    BY <1>3 DEF createLogical, BuilderInv
  <2>2. FailedInv' /\ LogicalInv'
    BY <1>3 DEF createLogical, FailedInv, LogicalInv
  <2> QED
    BY <1>3, <2>1, <2>2 DEF createLogical, QueuesInv
<1>4. ASSUME NEW r \in Requests, requestIndices(r) PROVE QueuesInv'
  <2>0. PICK d \in Devices : d = builder.device
    BY <1>4, BuilderIs DEF requestIndices
  <2> DEFINE h == hardware[d]
  <2>1. h \in Hardware /\ hardware' = hardware /\ logical' = logical
    BY <1>4 DEF requestIndices, QueuesInv
  <2>2. LogicalInv'
    BY <2>1 DEF QueuesInv, LogicalInv, Answered, Chosen
  <2>3. calls' \in 0 .. MaxRequests
    BY <1>4, QueueAssumption DEF requestIndices, QueuesInv
  <2>4. CASE builder.request # None
    <3>1. UNCHANGED <<options, builder, failed>>
      BY <1>4, <2>4 DEF requestIndices
    <3>2. BuilderInv' /\ FailedInv'
      BY <2>1, <3>1 DEF QueuesInv, BuilderInv, FailedInv, Answered, Chosen
    <3> QED
      BY <2>1, <2>2, <2>3, <3>1, <3>2 DEF QueuesInv
  <2>5. CASE builder.request = None
    <3>1. /\ options' = Refreshed(h, r)
          /\ IF Prepared(h)[r].threw \/ options'[r] = <<>>
             THEN failed' = r /\ UNCHANGED builder
             ELSE /\ builder' = [builder EXCEPT !.request = r,
                                                !.chosen  = options'[r][1],
                                                !.creates = Unique(options'[r][1])]
                  /\ failed' = None
      BY <1>4, <2>0, <2>5 DEF requestIndices
    <3> HIDE DEF h
    <3>2. options' \in [Requests -> Seq(Seq(QueueInfo))]
      <4>1. \A q \in Requests : Prepared(h)[q].options \in Seq(Seq(QueueInfo))
        BY <2>1, AnswersTyped
      <4>2. \A q \in Requests : options[q] \in Seq(Seq(QueueInfo))
        BY DEF QueuesInv
      <4>3. PICK T : T = Seq(Seq(QueueInfo))
        OBVIOUS
      <4>4. Refreshed(h, r) \in [Requests -> T]
        BY <4>1, <4>2, <4>3 DEF Refreshed
      <4> QED
        BY <3>1, <4>3, <4>4
    <3>3. ~Prepared(h)[r].threw => options'[r] = Prepared(h)[r].options
      BY <2>1, <3>1, ReachedIs DEF Refreshed
    <3>4. CASE Prepared(h)[r].threw \/ options'[r] = <<>>
      <4>1. failed' = r /\ builder' = builder
        BY <3>1, <3>4
      <4>2. ~Answered(d, r)
        BY <3>3, <3>4 DEF Answered, h
      <4>3. FailedInv'
        BY <2>0, <2>1, <4>1, <4>2 DEF FailedInv, Answered
      <4>4. builder = NoBuilder \/ \E e \in Devices : builder = [NoBuilder EXCEPT !.device = e]
        <5>1. CASE ~(builder = NoBuilder \/ \E e \in Devices : builder = [NoBuilder EXCEPT !.device = e])
          <6>1. PICK e \in Devices, q \in Requests :
                  builder = [device |-> e, request |-> q, chosen |-> Chosen(e, q),
                             creates |-> Unique(Chosen(e, q))]
            BY <5>1 DEF QueuesInv, BuilderInv
          <6>2. builder.request = q
            BY <6>1
          <6> QED
            BY <2>5, <6>2, NoRequest
        <5> QED
          BY <5>1
      <4>5. BuilderInv'
        BY <4>1, <4>4 DEF BuilderInv
      <4> QED
        BY <2>1, <2>2, <2>3, <3>2, <4>3, <4>5 DEF QueuesInv
    <3>5. CASE ~(Prepared(h)[r].threw \/ options'[r] = <<>>)
      <4>1. /\ builder' = [builder EXCEPT !.request = r,
                                          !.chosen  = options'[r][1],
                                          !.creates = Unique(options'[r][1])]
            /\ failed' = None
        BY <3>1, <3>5
      <4>2. Answered(d, r) /\ options'[r][1] = Chosen(d, r)
        BY <3>3, <3>5 DEF Answered, Chosen, h
      <4>3. builder = [device |-> d, request |-> builder.request,
                       chosen |-> builder.chosen, creates |-> builder.creates]
        <5>1. \/ builder = NoBuilder
              \/ \E e \in Devices : builder = [NoBuilder EXCEPT !.device = e]
              \/ \E e \in Devices, q \in Requests :
                   builder = [device |-> e, request |-> q, chosen |-> Chosen(e, q),
                              creates |-> Unique(Chosen(e, q))]
          BY DEF QueuesInv, BuilderInv
        <5> QED
          BY <2>0, <5>1 DEF NoBuilder
      <4>4. builder' = [device |-> d, request |-> r, chosen |-> Chosen(d, r),
                        creates |-> Unique(Chosen(d, r))]
        <5>1. PICK o : o = options'[r][1]
          OBVIOUS
        <5>2. builder' = [builder EXCEPT !.request = r, !.chosen = o, !.creates = Unique(o)]
          BY <4>1, <5>1
        <5>3. PICK u : u = Unique(o)
          OBVIOUS
        <5>4. PICK x, y, z : builder = [device |-> d, request |-> x, chosen |-> y, creates |-> z]
          BY <4>3
        <5>5. builder' = [device |-> d, request |-> r, chosen |-> o, creates |-> u]
          BY <5>2, <5>3, <5>4
        <5>6. o = Chosen(d, r)
          BY <4>2, <5>1
        <5> QED
          BY <5>3, <5>5, <5>6, Zenon
      <4>5. Answered(d, r)' /\ Chosen(d, r)' = Chosen(d, r)
        BY <1>1, <2>1, <4>2
      <4>6. BuilderInv'
        BY <4>1, <4>4, <4>5 DEF BuilderInv
      <4>7. FailedInv'
        BY <4>1 DEF FailedInv
      <4> QED
        BY <2>1, <2>2, <2>3, <3>2, <4>6, <4>7 DEF QueuesInv
    <3> QED
      BY <3>4, <3>5
  <2> QED
    BY <2>4, <2>5
<1>5. CASE create
  <2>1. /\ builder.request # None /\ builder' = NoBuilder
        /\ hardware' = hardware /\ options' = options /\ failed' = failed /\ calls' = calls
    BY <1>5 DEF create
  <2>2. PICK order \in SetToSeqs(Kept(builder.chosen)) :
          logical' = [device |-> builder.device, request |-> builder.request,
                      families |-> order, created |-> builder.creates]
    BY <1>5 DEF create
  <2>3. /\ builder.device \in Devices /\ builder.request \in Requests /\ failed = None
        /\ Answered(builder.device, builder.request)
        /\ builder.chosen = Chosen(builder.device, builder.request)
        /\ builder.creates = Unique(Chosen(builder.device, builder.request))
    BY <2>1, BuilderIs
  <2>4. LogicalInv'
    <3>1. PICK d \in Devices, r \in Requests : d = builder.device /\ r = builder.request
      BY <2>3
    <3>2. Answered(d, r)' /\ Chosen(d, r)' = Chosen(d, r)
      BY <2>1, <2>3, <3>1, <1>1
    <3> QED
      BY <2>2, <2>3, <3>1, <3>2 DEF LogicalInv
  <2>5. BuilderInv' /\ FailedInv'
    BY <2>1, <2>3 DEF BuilderInv, FailedInv
  <2> QED
    BY <2>1, <2>4, <2>5 DEF QueuesInv
<1> QED
  BY <1>2, <1>3, <1>4, <1>5 DEF Next

LEMMA QueuesInvariance == Spec => []QueuesInv
BY InitQueues, NextQueues, PTL DEF Spec

(* The lookup of a type in the families of a logical device.               *)
Able(order, t) == {i \in DOMAIN order : t \in ToSet(order[i].types)}

LookedUp(order, t) == order[FirstOf(Able(order, t))]

LEMMA LookupsAre ==
  ASSUME NEW t
  PROVE  /\ Supporting(t) = Able(logical.families, t)
         /\ getQueueFamily(t) = LookedUp(logical.families, t)
         /\ getStandardQueue(t).index = getQueueFamily(t).index
         /\ getStandardQueue(t).queue = 0
<1>1. Supporting(t) = Able(logical.families, t)
  BY Zenon DEF Supporting, Able
<1>2. getQueueFamily(t) = LookedUp(logical.families, t)
  BY <1>1, Zenon DEF getQueueFamily, LookedUp
<1> QED
  BY <1>1, <1>2 DEF getStandardQueue, getQueueFamily

(* Every type that was chosen is found again in the logical device.        *)
LEMMA FamilyFound ==
  ASSUME NEW h \in Hardware, NEW o \in Option(h), NEW order \in SetToSeqs(Kept(o)), NEW t,
         \E i \in DOMAIN o : t \in ToSet(o[i].types)
  PROVE  /\ Able(order, t) # {}
         /\ t \in h[LookedUp(order, t).index].types
         /\ \E d \in Unique(o) : d.index = LookedUp(order, t).index /\ 0 < d.count
<1> DEFINE able == Able(order, t)
           family == LookedUp(order, t)
<1>1. PICK i \in DOMAIN o : t \in ToSet(o[i].types)
  OBVIOUS
<1>2. PICK a \in Kept(o) : a.types = o[i].types
  BY KeptIs
<1>3. Len(order) \in Nat /\ DOMAIN order = 1 .. Len(order) /\ ToSet(order) = Kept(o)
  BY KeptIs, ListOfSet
<1>4. PICK j \in DOMAIN order : order[j] = a
  BY <1>2, <1>3 DEF ToSet
<1>5. j \in able
  BY <1>1, <1>2, <1>4 DEF Able
<1>6. able \in SUBSET DOMAIN order /\ able \in SUBSET Nat
  BY <1>3 DEF Able
<1>7. FirstOf(able) \in able
  <2> HIDE DEF able
  <2> QED
    BY <1>5, <1>6, FirstIsOne
<1>8. t \in ToSet(family.types) /\ family \in Kept(o)
  <2>1. family = order[FirstOf(able)]
    BY DEF LookedUp
  <2>2. FirstOf(able) \in DOMAIN order /\ t \in ToSet(order[FirstOf(able)].types)
    BY <1>7 DEF Able
  <2>3. order[FirstOf(able)] \in ToSet(order)
    BY <2>2 DEF ToSet
  <2> HIDE DEF able, family
  <2> QED
    BY <1>3, <2>1, <2>2, <2>3
<1> HIDE DEF able, family
<1>9. PICK k \in DOMAIN o : family = o[k]
  BY <1>8, KeptIs
<1>10. Fits(h, family)
  BY <1>9, OptionIs
<1>11. t \in h[family.index].types
  BY <1>8, <1>10 DEF Fits
<1>12. PICK d \in Unique(o) : d.index = o[k].index
  BY UniqueIs
<1>13. 0 < d.count
  <2>1. Fits(h, d)
    BY UniqueIs
  <2>2. d.count \in 1 .. h[d.index].count
    BY <2>1 DEF Fits
  <2> QED
    BY <2>2
<1> QED
  BY <1>5, <1>9, <1>11, <1>12, <1>13 DEF able, family

LEMMA LogicalIs ==
  ASSUME QueuesInv, logical # NoDevice
  PROVE  /\ logical.device \in Devices /\ logical.request \in Requests
         /\ Answered(logical.device, logical.request)
         /\ logical.families \in SetToSeqs(Kept(Chosen(logical.device, logical.request)))
         /\ logical.created = Unique(Chosen(logical.device, logical.request))
BY DEF QueuesInv, LogicalInv

LEMMA NoDeviceIs ==
  logical = NoDevice =>
    /\ logical.device = NoId /\ logical.request = None
    /\ logical.families = <<>> /\ logical.created = {}
BY DEF NoDevice

(* The variables of the queue selection keep their types: what a builder   *)
(* holds and what a logical device keeps are families of queues.           *)
THEOREM QueuesTypeCorrect == Spec => []TypeOK
<1>1. QueuesInv => TypeOK
  <2> SUFFICES ASSUME QueuesInv PROVE TypeOK
    OBVIOUS
  <2>1. /\ builder.device \in Devices \cup {NoId}
        /\ builder.request \in Requests \cup {None}
    BY BuilderIs
  <2>2. builder.chosen \in Seq(QueueInfo) /\ builder.creates \subseteq QueueInfo
    <3>1. CASE builder.request = None
      <4>1. builder.chosen = <<>> /\ builder.creates = {}
        BY <3>1, BuilderIs
      <4>2. <<>> \in Seq(QueueInfo)
        OBVIOUS
      <4> QED
        BY <4>1, <4>2
    <3>2. CASE builder.request # None
      BY <3>2, BuilderIs, ChosenIsOption, OptionIs, UniqueIs
    <3> QED
      BY <3>1, <3>2
  <2>3. failed \in Requests \cup {None}
    BY DEF QueuesInv, FailedInv
  <2>4. /\ logical.device \in Devices \cup {NoId}
        /\ logical.families \in Seq(QueueInfo)
        /\ logical.created \subseteq QueueInfo
    <3>1. CASE logical = NoDevice
      <4>1. <<>> \in Seq(QueueInfo)
        OBVIOUS
      <4> QED
        BY <3>1, <4>1, NoDeviceIs
    <3>2. CASE logical # NoDevice
      <4>1. PICK d \in Devices, r \in Requests : d = logical.device /\ r = logical.request
        BY <3>2, LogicalIs
      <4>2. PICK o : o = Chosen(d, r)
        OBVIOUS
      <4>3. hardware[d] \in Hardware /\ o \in Option(hardware[d])
        BY <3>2, <4>1, <4>2, LogicalIs, ChosenIsOption
      <4>4. logical.families \in SetToSeqs(Kept(o)) /\ logical.created = Unique(o)
        BY <3>2, <4>1, <4>2, LogicalIs
      <4>5. Kept(o) \subseteq QueueInfo /\ IsFiniteSet(Kept(o)) /\ Unique(o) \subseteq QueueInfo
        BY <4>3, KeptIs, UniqueIs
      <4>6. logical.families \in Seq(Kept(o))
        BY <4>4, <4>5, ListOfSet
      <4>7. logical.families \in Seq(QueueInfo)
        BY <4>5, <4>6, WiderSeq
      <4> QED
        BY <4>1, <4>4, <4>5, <4>7
    <3> QED
      BY <3>1, <3>2
  <2> QED
    BY <2>1, <2>2, <2>3, <2>4 DEF TypeOK, QueuesInv
<1> QED
  BY <1>1, QueuesInvariance, PTL

(* The families a builder chooses serve its request on its device, however *)
(* requests share members and whatever they found on other devices.        *)
THEOREM ChosenAlwaysServe == Spec => []ChosenServe
<1>1. QueuesInv => ChosenServe
  <2> SUFFICES ASSUME QueuesInv, builder.request # None
               PROVE  Indices(builder.chosen) \in Serving(hardware[builder.device])[builder.request]
    BY DEF ChosenServe, Indices
  <2>1. PICK d \in Devices, r \in Requests :
          d = builder.device /\ r = builder.request /\ Answered(d, r) /\ builder.chosen = Chosen(d, r)
    BY BuilderIs
  <2>2. hardware[d] \in Hardware /\ Chosen(d, r) \in ToSet(Prepared(hardware[d])[r].options)
    BY <2>1, ChosenIsOption
  <2>3. Indices(Chosen(d, r)) \in Serving(hardware[d])[r]
    BY <2>2, AnswersServe
  <2> QED
    BY <2>1, <2>3
<1> QED
  BY <1>1, QueuesInvariance, PTL

(* What vkCreateDevice is given never names a family twice, and never asks *)
(* one for more queues than it has.                                        *)
THEOREM CreatesAlwaysLegal == Spec => []CreatesLegal
<1>1. QueuesInv => CreatesLegal
  <2> SUFFICES ASSUME QueuesInv PROVE CreatesLegal
    OBVIOUS
  <2>1. CASE builder.request = None
    BY <2>1, BuilderIs DEF CreatesLegal
  <2>2. CASE builder.request # None
    <3>1. PICK d \in Devices, r \in Requests :
            /\ d = builder.device /\ r = builder.request /\ Answered(d, r)
            /\ builder.creates = Unique(Chosen(d, r))
      BY <2>2, BuilderIs
    <3>2. hardware[d] \in Hardware /\ Chosen(d, r) \in Option(hardware[d])
      BY <3>1, ChosenIsOption
    <3>3. /\ \A a \in builder.creates : Fits(hardware[d], a)
          /\ \A a, b \in builder.creates : a.index = b.index => a = b
      BY <3>1, <3>2, UniqueIs
    <3> QED
      BY <3>1, <3>3 DEF CreatesLegal, Fits
  <2> QED
    BY <2>1, <2>2
<1> QED
  BY <1>1, QueuesInvariance, PTL

(* requestIndices throws for a request without a split only if no family of*)
(* the device serves it.                                                   *)
THEOREM FailuresAreUnserved == Spec => []FailsOnlyIfUnserved
<1>1. QueuesInv => FailsOnlyIfUnserved
  <2> SUFFICES ASSUME QueuesInv, failed # None, SplitFree(failed)
               PROVE  Serving(hardware[builder.device])[failed] = {}
    BY DEF FailsOnlyIfUnserved
  <2>1. failed \in Requests /\ builder.device \in Devices /\ ~Answered(builder.device, failed)
    BY DEF QueuesInv, FailedInv
  <2>2. hardware[builder.device] \in Hardware
    BY <2>1 DEF QueuesInv
  <2> QED
    BY <2>1, <2>2, FreeFinds DEF Answered
<1> QED
  BY <1>1, QueuesInvariance, PTL

(* Every type a logical device was built for is found again, in a family   *)
(* that supports it and on a queue the device was created with.            *)
THEOREM LookupsAlwaysServe == Spec => []LookupsServe
<1>1. QueuesInv => LookupsServe
  <2> SUFFICES ASSUME QueuesInv, NEW c \in logical.created, NEW t \in ToSet(c.types)
               PROVE  /\ Supporting(t) # {}
                      /\ t \in hardware[logical.device][getQueueFamily(t).index].types
                      /\ getStandardQueue(t).index = getQueueFamily(t).index
                      /\ \E d \in logical.created :
                           d.index = getQueueFamily(t).index /\ getStandardQueue(t).queue < d.count
    BY DEF LookupsServe
  <2>1. logical # NoDevice
    BY NoDeviceIs
  <2>2. PICK d \in Devices, r \in Requests :
          /\ d = logical.device /\ r = logical.request /\ Answered(d, r)
          /\ logical.families \in SetToSeqs(Kept(Chosen(d, r)))
          /\ logical.created = Unique(Chosen(d, r))
    BY <2>1, LogicalIs
  <2>3. PICK o : o = Chosen(d, r)
    OBVIOUS
  <2>4. hardware[d] \in Hardware /\ o \in Option(hardware[d])
    BY <2>2, <2>3, ChosenIsOption
  <2>5. \E i \in DOMAIN o : t \in ToSet(o[i].types)
    BY <2>2, <2>3, <2>4, UniqueIs
  <2>6. /\ Supporting(t) # {}
        /\ t \in hardware[d][getQueueFamily(t).index].types
        /\ \E e \in Unique(o) : e.index = getQueueFamily(t).index /\ 0 < e.count
    BY <2>2, <2>3, <2>4, <2>5, FamilyFound, LookupsAre
  <2>7. getStandardQueue(t).index = getQueueFamily(t).index /\ getStandardQueue(t).queue = 0
    BY LookupsAre
  <2> QED
    BY <2>2, <2>3, <2>6, <2>7
<1> QED
  BY <1>1, QueuesInvariance, PTL

-----------------------------------------------------------------------------
(* Set-up *)

(* The filters of the query once it is complete.                           *)
Recommended ==
  <<Hard(Swapchain)>> \o [i \in DOMAIN RecommendedSoft |-> Soft(RecommendedSoft[i])]

Asked == (<<Hard("necessary")>> \o <<Hard("dynamicRendering")>>) \o Recommended

LEMMA AskedIs ==
  /\ <<Hard("necessary")>> \in Seq(Filter) /\ Asked \in Seq(Filter)
  /\ Len(Asked) >= 3
  /\ Asked[1] = Hard("necessary") /\ Asked[2] = Hard("dynamicRendering") /\ Asked[3] = Hard(Swapchain)
  /\ \A i \in DOMAIN Asked : i > 3 => Asked[i].soft
<1> DEFINE n == Len(RecommendedSoft)
           softs == [i \in 1 .. n |-> Soft(RecommendedSoft[i])]
<1>1. n \in Nat /\ DOMAIN RecommendedSoft = 1 .. n
  BY QueryAssumption
<1>2. ASSUME NEW i \in 1 .. n PROVE Soft(RecommendedSoft[i]) \in Filter /\ Soft(RecommendedSoft[i]).soft
  BY QueryAssumption DEF Soft, Filter
<1>3. /\ softs \in Seq(Filter) /\ Len(softs) = n
      /\ \A i \in 1 .. n : softs[i].soft
  <2> HIDE DEF n
  <2> QED
    BY <1>1, <1>2
<1>4. {Hard("necessary"), Hard("dynamicRendering"), Hard(Swapchain)} \subseteq Filter
  BY QueryAssumption, SetupAssumption DEF Hard, Filter
<1>5. Asked = (<<Hard("necessary")>> \o <<Hard("dynamicRendering")>>) \o (<<Hard(Swapchain)>> \o softs)
  BY <1>1 DEF Asked, Recommended
<1>6. PICK a \in Filter, b \in Filter, c \in Filter :
        a = Hard("necessary") /\ b = Hard("dynamicRendering") /\ c = Hard(Swapchain)
  BY <1>4
<1> HIDE DEF softs, n
<1>7. <<c>> \o softs \in Seq(Filter) /\ Len(<<c>> \o softs) = 1 + n
  BY <1>1, <1>3
<1>8. \A i \in 1 .. 1 + n : (<<c>> \o softs)[i] = IF i = 1 THEN c ELSE softs[i - 1]
  BY <1>1, <1>3
<1>9. PICK rest \in Seq(Filter) : rest = <<c>> \o softs
  BY <1>7
<1>10. PICK both \in Seq(Filter) : both = <<a>> \o <<b>> /\ Len(both) = 2 /\ both[1] = a /\ both[2] = b
  <2>1. PICK one \in Seq(Filter) : one = <<b>> /\ Len(one) = 1 /\ one[1] = b
    <3>1. <<b>> \in Seq(Filter)
      OBVIOUS
    <3>2. Len(<<b>>) = 1 /\ <<b>>[1] = b
      OBVIOUS
    <3> QED
      BY <3>1, <3>2
  <2>2. <<a>> \o one \in Seq(Filter) /\ Len(<<a>> \o one) = 1 + Len(one)
    OBVIOUS
  <2>3. \A i \in 1 .. 1 + Len(one) : (<<a>> \o one)[i] = IF i = 1 THEN a ELSE one[i - 1]
    OBVIOUS
  <2>4. 1 \in 1 .. 1 + Len(one) /\ 2 \in 1 .. 1 + Len(one) /\ 2 - 1 = 1 /\ 1 + Len(one) = 2
    BY <2>1
  <2>5. (<<a>> \o one)[1] = a /\ (<<a>> \o one)[2] = b
    BY <2>1, <2>3, <2>4
  <2> QED
    BY <2>1, <2>2, <2>4, <2>5
<1>11. /\ both \o rest \in Seq(Filter) /\ Len(both \o rest) = 3 + n
       /\ \A i \in 1 .. 3 + n : (both \o rest)[i] = IF i <= 2 THEN both[i] ELSE rest[i - 2]
  <2>1. Len(rest) = 1 + n /\ n \in Nat
    BY <1>1, <1>7, <1>9
  <2>2. both \o rest \in Seq(Filter) /\ Len(both \o rest) = Len(both) + Len(rest)
    OBVIOUS
  <2>3. \A i \in 1 .. Len(both) + Len(rest) :
          (both \o rest)[i] = IF i <= Len(both) THEN both[i] ELSE rest[i - Len(both)]
    OBVIOUS
  <2>4. Len(both) + Len(rest) = 3 + n
    BY <1>10, <2>1
  <2> QED
    BY <1>10, <2>2, <2>3, <2>4
<1>12. Asked = both \o rest
  BY <1>5, <1>6, <1>9, <1>10
<1>13. DOMAIN Asked = 1 .. 3 + n /\ Len(Asked) = 3 + n /\ Asked \in Seq(Filter)
  BY <1>1, <1>11, <1>12
<1>14. ASSUME NEW i \in 1 .. 3 + n, i > 3 PROVE Asked[i].soft
  <2>1. i - 2 \in 1 .. 1 + n /\ i - 2 # 1 /\ ~(i <= 2) /\ (i - 2) - 1 \in 1 .. n
    BY <1>1, <1>14
  <2>2. Asked[i] = rest[i - 2]
    BY <1>11, <1>12, <2>1
  <2>3. rest[i - 2] = softs[(i - 2) - 1]
    BY <1>8, <1>9, <2>1
  <2> QED
    BY <1>3, <2>1, <2>2, <2>3
<1>15. Asked[1] = a /\ Asked[2] = b /\ Asked[3] = c
  <2>1. /\ 1 \in 1 .. 3 + n /\ 2 \in 1 .. 3 + n /\ 3 \in 1 .. 3 + n
        /\ 1 \in 1 .. 1 + n /\ 3 - 2 = 1 /\ ~(3 <= 2) /\ 1 <= 2 /\ 2 <= 2
    BY <1>1
  <2> QED
    BY <1>8, <1>9, <1>10, <1>11, <1>12, <2>1
<1>16. <<a>> \in Seq(Filter)
  OBVIOUS
<1> QED
  BY <1>1, <1>6, <1>13, <1>14, <1>15, <1>16

BeforeBuilder == {"require", "dynamic", "recommend", "request", "avoid", "select", "no device"}
WithDevice == {"create", "indices", "failed", "logical", "context", "swap queue", "ready"}

(* Where the program is in its query.                                      *)
QueryStep ==
  /\ pc \in BeforeBuilder \cup WithDevice
  /\ pc = "require" => filters = <<>>
  /\ pc = "dynamic" => filters = <<Hard("necessary")>>
  /\ pc = "recommend" => filters = <<Hard("necessary")>> \o <<Hard("dynamicRendering")>>
  /\ pc \notin {"require", "dynamic", "recommend"} => filters = Asked
  /\ pc = "no device" => answer = 0
  /\ pc \in WithDevice => answer \in Devices

(* Where it is in building its device.                                     *)
BuilderStep ==
  /\ pc \in BeforeBuilder \cup {"create"} => builder = NoBuilder
  /\ pc = "indices" => builder.device = answer /\ builder.request = None
  /\ pc = "failed" => builder.device = answer /\ failed = wanted
  /\ pc = "logical" => builder.device = answer /\ builder.request = wanted
  /\ pc \in {"context", "swap queue", "ready"} =>
       logical.device = answer /\ logical.request = wanted
  /\ pc = "ready" => swapQueue = [index |-> getQueueFamily("GRAPHICS").index, queue |-> 0]

SetupInv ==
  /\ QueuesInv
  /\ QueryTypeOK /\ AnswerCurrent
  /\ wanted \in Wanted
  /\ Seen
  /\ QueryStep
  /\ BuilderStep

LEMMA InitSetup == SetupInit => SetupInv
<1> SUFFICES ASSUME SetupInit PROVE SetupInv
  OBVIOUS
<1>1. QueuesInv
  BY InitQueues DEF SetupInit
<1>2. QueryTypeOK /\ AnswerCurrent
  BY InitInv, QueryAssumption DEF SetupInit
<1>3. QueryStep /\ BuilderStep
  BY DEF SetupInit, Init, QueryInit, QueryStep, BuilderStep, BeforeBuilder, WithDevice
<1> QED
  BY <1>1, <1>2, <1>3 DEF SetupInit, SetupInv

(* Set-up takes steps of the query and of the selection of queues.         *)
LEMMA SetupSteps ==
  ASSUME SetupInv, [SetupNext]_allVars
  PROVE  [Next]_vars /\ [QueryNext]_queryVars
<1>1. CASE Ask
  <2>1. UNCHANGED vars
    BY <1>1 DEF Ask
  <2>2. require("necessary") \/ require("dynamicRendering") => QueryNext
    BY SetupAssumption DEF QueryNext
  <2>3. request(100, "preferred") \/ request(-2000, "dozen") => QueryNext
    BY SetupAssumption DEF QueryNext
  <2>4. reniRecommended => QueryNext
    BY DEF QueryNext
  <2> QED
    BY <1>1, <2>1, <2>2, <2>3, <2>4 DEF Ask
<1>2. CASE Choose
  <2>1. UNCHANGED vars /\ QueryNext
    BY <1>2 DEF Choose, QueryNext
  <2> QED
    BY <2>1
<1>3. CASE Build
  <2>1. UNCHANGED queryVars
    BY <1>3 DEF Build
  <2>2. CASE Goto("create", "indices") /\ createLogical(answer)
    <3>1. answer \in Devices
      BY <2>2 DEF SetupInv, QueryStep, WithDevice, Goto
    <3> QED
      BY <2>1, <2>2, <3>1 DEF Next
  <2>3. CASE requestIndices(wanted)
    <3>1. wanted \in Requests
      BY SetupAssumption DEF SetupInv
    <3> QED
      BY <2>1, <2>3, <3>1 DEF Next
  <2>4. CASE create
    BY <2>1, <2>4 DEF Next
  <2> QED
    BY <1>3, <2>2, <2>3, <2>4 DEF Build
<1>4. CASE withLogical \/ setSwapQueue \/ SetupOver \/ UNCHANGED allVars
  BY <1>4 DEF withLogical, setSwapQueue, SetupOver, allVars
<1> QED
  BY <1>1, <1>2, <1>3, <1>4 DEF SetupNext

LEMMA DevicesSeen == QueryTypeOK => Places = Devices
BY SetupAssumption DEF QueryTypeOK, Places

LEMMA NextSetup == SetupInv /\ [SetupNext]_allVars => SetupInv'
<1> SUFFICES ASSUME SetupInv, [SetupNext]_allVars PROVE SetupInv'
  OBVIOUS
<1>1. QueuesInv'
  BY SetupSteps, NextQueues DEF SetupInv
<1>2. QueryTypeOK' /\ AnswerCurrent'
  BY SetupSteps, NextTypeOK, NextAnswerCurrent, QueryAssumption DEF SetupInv
<1>3. UNCHANGED <<hardware, devices, wanted>>
  <2>1. hardware' = hardware
    BY SetupSteps DEF Next, createLogical, requestIndices, create, vars
  <2>2. devices' = devices
    BY SetupSteps DEF QueryNext, require, requireIfPossible, reniRecommended, AddFilters, favorBrands,
                      request, priorityModel, select, queryVars
  <2>3. wanted' = wanted
    BY DEF SetupNext, Ask, Choose, Build, withLogical, setSwapQueue, SetupOver, allVars
  <2> QED
    BY <2>1, <2>2, <2>3
<1>4. wanted' \in Wanted /\ Seen'
  BY <1>3 DEF SetupInv, Seen
<1>5. QueryStep' /\ BuilderStep'
  <2>1. CASE UNCHANGED allVars
    BY <2>1 DEF allVars, vars, queryVars, SetupInv, QueryStep, BuilderStep, getQueueFamily, Supporting
  <2>2. CASE Ask
    <3>1. UNCHANGED vars /\ UNCHANGED swapQueue
      BY <2>2 DEF Ask
    <3>2. CASE Goto("require", "dynamic") /\ require("necessary")
      <4>1. pc = "require" /\ pc' = "dynamic"
        BY <3>2 DEF Goto
      <4>2. filters' = <<>> \o <<Hard("necessary")>>
        BY <3>2, <4>1 DEF require, AddFilters, SetupInv, QueryStep
      <4>3. filters' = <<Hard("necessary")>>
        BY <4>2, AskedIs
      <4> QED
        BY <3>1, <4>1, <4>3 DEF vars, SetupInv, QueryStep, BuilderStep, BeforeBuilder, WithDevice
    <3>3. CASE Goto("recommend", "request") /\ reniRecommended
      <4>1. pc = "recommend" /\ pc' = "request"
        BY <3>3 DEF Goto
      <4>2. filters' = Asked
        BY <3>3, <4>1 DEF reniRecommended, AddFilters, SetupInv, QueryStep, Asked, Recommended
      <4> QED
        BY <3>1, <4>1, <4>2 DEF vars, SetupInv, QueryStep, BuilderStep, BeforeBuilder, WithDevice
    <3>4. CASE Goto("request", "avoid") /\ request(100, "preferred")
      <4>1. pc = "request" /\ pc' = "avoid" /\ filters' = filters
        BY <3>4 DEF Goto, request
      <4> QED
        BY <3>1, <4>1 DEF vars, SetupInv, QueryStep, BuilderStep, BeforeBuilder, WithDevice
    <3>5. CASE Goto("dynamic", "recommend") /\ require("dynamicRendering")
      <4>1. pc = "dynamic" /\ pc' = "recommend"
        BY <3>5 DEF Goto
      <4>2. filters' = <<Hard("necessary")>> \o <<Hard("dynamicRendering")>>
        BY <3>5, <4>1 DEF require, AddFilters, SetupInv, QueryStep
      <4> QED
        BY <3>1, <4>1, <4>2 DEF vars, SetupInv, QueryStep, BuilderStep, BeforeBuilder, WithDevice
    <3>6. CASE Goto("avoid", "select") /\ request(-2000, "dozen")
      <4>1. pc = "avoid" /\ pc' = "select" /\ filters' = filters
        BY <3>6 DEF Goto, request
      <4> QED
        BY <3>1, <4>1 DEF vars, SetupInv, QueryStep, BuilderStep, BeforeBuilder, WithDevice
    <3> QED
      BY <2>2, <3>2, <3>3, <3>4, <3>5, <3>6 DEF Ask
  <2>3. CASE Choose
    <3>1. /\ pc = "select" /\ UNCHANGED vars /\ UNCHANGED swapQueue /\ select
          /\ pc' = IF answer' = 0 THEN "no device" ELSE "create"
      BY <2>3 DEF Choose
    <3>2. answer' # 0 => answer' \in Devices
      <4>1. answer' = Selection
        BY <3>1 DEF select, Selection
      <4>2. Left # {} => Best \in Places
        <5>1. Left \subseteq Places
          <6>1. 0 \in 0 .. Len(AllFilters)
            BY AllAreFilters DEF QueryTypeOK, SetupInv
          <6> QED
            BY <6>1, FiltersOnlyRemove DEF SetupInv
        <5> QED
          BY <5>1, BestIsBest, QueryAssumption DEF SetupInv
      <4>3. Places = Devices
        BY DevicesSeen DEF SetupInv
      <4> QED
        BY <4>1, <4>2, <4>3 DEF Selection
    <3>3. filters' = filters
      BY <3>1 DEF select
    <3> QED
      BY <3>1, <3>2, <3>3 DEF vars, SetupInv, QueryStep, BuilderStep, BeforeBuilder, WithDevice
  <2>4. CASE Build
    <3>1. UNCHANGED queryVars /\ UNCHANGED swapQueue
      BY <2>4 DEF Build
    <3>2. CASE Goto("create", "indices") /\ createLogical(answer)
      <4>1. pc = "create" /\ pc' = "indices" /\ builder' = [NoBuilder EXCEPT !.device = answer]
        BY <3>2 DEF Goto, createLogical
      <4>2. builder'.device = answer /\ builder'.request = None
        BY <4>1 DEF NoBuilder
      <4> QED
        BY <3>1, <4>1, <4>2 DEF queryVars, SetupInv, QueryStep, BuilderStep, BeforeBuilder, WithDevice
    <3>3. CASE /\ pc = "indices" /\ requestIndices(wanted)
               /\ pc' = IF failed' = None THEN "logical" ELSE "failed"
      <4>1. /\ builder.request = None /\ builder.device = answer
        BY <3>3 DEF SetupInv, BuilderStep
      <4>2. wanted # None
        BY NoRequest, SetupAssumption DEF SetupInv
      <4>3. CASE failed' = wanted /\ builder' = builder
        BY <1>3, <3>1, <3>3, <4>1, <4>2, <4>3 DEF queryVars, SetupInv, QueryStep, BuilderStep,
              BeforeBuilder, WithDevice
      <4>4. CASE ~(failed' = wanted /\ builder' = builder)
        <5> DEFINE first == options'[wanted][1]
        <5>1. /\ failed' = None
              /\ builder' = [builder EXCEPT !.request = wanted, !.chosen = first, !.creates = Unique(first)]
          BY <3>3, <4>1, <4>4 DEF requestIndices
        <5> HIDE DEF first
        <5>2. builder'.request = wanted /\ builder'.device = answer
          <6>1. builder = NoBuilder \/ \E e \in Devices : builder = [NoBuilder EXCEPT !.device = e]
            <7>1. ASSUME NEW d \in Devices, NEW r \in Requests,
                         builder = [device |-> d, request |-> r, chosen |-> Chosen(d, r),
                                    creates |-> Unique(Chosen(d, r))]
                  PROVE  FALSE
              BY <4>1, <7>1, NoRequest
            <7> QED
              BY <7>1 DEF SetupInv, QueuesInv, BuilderInv
          <6> QED
            BY <4>1, <5>1, <6>1 DEF NoBuilder
        <5>3. pc' = "logical"
          BY <3>3, <5>1
        <5> QED
          BY <1>3, <3>1, <3>3, <5>2, <5>3 DEF queryVars, SetupInv, QueryStep, BuilderStep,
              BeforeBuilder, WithDevice
      <4> QED
        BY <4>3, <4>4
    <3>4. CASE Goto("logical", "context") /\ create
      <4>1. pc = "logical" /\ pc' = "context"
        BY <3>4 DEF Goto
      <4>2. builder.device = answer /\ builder.request = wanted
        BY <4>1 DEF SetupInv, BuilderStep
      <4>3. logical'.device = answer /\ logical'.request = wanted
        <5>1. PICK order : logical' = [device |-> builder.device, request |-> builder.request,
                                       families |-> order, created |-> builder.creates]
          BY <3>4 DEF create
        <5> QED
          BY <4>2, <5>1
      <4> QED
        BY <1>3, <3>1, <4>1, <4>3 DEF queryVars, SetupInv, QueryStep, BuilderStep, BeforeBuilder, WithDevice
    <3> QED
      BY <2>4, <3>2, <3>3, <3>4 DEF Build
  <2>5. CASE withLogical
    <3>1. pc = "context" /\ pc' = "swap queue" /\ UNCHANGED <<vars, wanted, queryVars>>
      BY <2>5 DEF withLogical, Goto
    <3> QED
      BY <3>1 DEF vars, queryVars, SetupInv, QueryStep, BuilderStep, BeforeBuilder, WithDevice
  <2>6. CASE setSwapQueue
    <3>1. /\ pc = "swap queue" /\ pc' = "ready" /\ UNCHANGED <<vars, wanted, queryVars>>
          /\ swapQueue' = [index |-> getQueueFamily("GRAPHICS").index, queue |-> 0]
      BY <2>6 DEF setSwapQueue, Goto
    <3>2. getQueueFamily("GRAPHICS")' = getQueueFamily("GRAPHICS")
      BY <3>1 DEF vars, getQueueFamily, Supporting
    <3> QED
      BY <3>1, <3>2 DEF vars, queryVars, SetupInv, QueryStep, BuilderStep, BeforeBuilder, WithDevice
  <2> QED
    BY <2>1, <2>2, <2>3, <2>4, <2>5, <2>6 DEF SetupNext, SetupOver
<1> QED
  BY <1>1, <1>2, <1>4, <1>5 DEF SetupInv

LEMMA SetupInvariance == SetupSpec => []SetupInv
BY InitSetup, NextSetup, PTL DEF SetupSpec

(* An option with a family for graphics.                                   *)
Draws(o) == \E i \in DOMAIN o : "GRAPHICS" \in ToSet(o[i].types)

LEMMA DrawingFinds ==
  ASSUME NEW h \in Hardware, NEW G, Drawing(G), NEW r \in Requests, r \in G
  PROVE  \A o \in ToSet(Prepared(h)[r].options) : Draws(o)
<1> DEFINE result == Prepared(h)
           Good(q) == q \in G => \A o \in ToSet(result[q].options) : Draws(o)
           S == {q \in Requests : Good(q)}
<1>1. ASSUME NEW q \in Requests
      PROVE  result[q] = Outcome(result, h, q) /\ MembersAnswered(h, result, q)
  <2>1. \A p \in Members(q) : result[p] \in Answers(h)
    BY KindsOfRequests, PreparedIs
  <2> QED
    BY <2>1, PreparedIs DEF MembersAnswered
<1>2. ToSet(<<>>) = {}
  <2>1. DOMAIN <<>> = {}
    OBVIOUS
  <2> QED
    BY <2>1 DEF ToSet
<1>3. \A a : "GRAPHICS" \in ToSet(a.types) => Draws(<<a>>)
  BY DEF Draws
<1>4. \A a, b : "GRAPHICS" \in ToSet(a.types) \/ "GRAPHICS" \in ToSet(b.types) => Draws(<<a, b>>)
  BY DEF Draws
<1>5. \A a : Draws(<<a>>) => "GRAPHICS" \in ToSet(a.types)
  BY DEF Draws
<1> HIDE DEF result
<1>6. ASSUME NEW q \in Requests, \A p \in Members(q) : Good(p), q \in G,
             NEW o \in ToSet(result[q].options)
      PROVE  Draws(o)
  <2>1. CASE q.kind = "shared"
    <3>1. result[q].options = SharedOptions(h, q)
      BY <1>1, <2>1, OutcomeCases DEF Found
    <3>2. PICK T : T = {<<a>> : a \in Infos(h, q)}
      OBVIOUS
    <3>3. SharedOptions(h, q) \in Seq(T)
      BY <2>1, <3>2, Sorted
    <3>4. o \in T
      BY <1>6, <3>1, <3>3 DEF ToSet
    <3>5. PICK a \in Infos(h, q) : o = <<a>>
      BY <3>2, <3>4
    <3>6. a.types = q.types
      BY <2>1, InfosFit
    <3>7. "GRAPHICS" \in ToSet(a.types)
      BY <1>6, <2>1, <3>6 DEF Drawing
    <3> QED
      BY <1>3, <3>5, <3>7
  <2>2. CASE q.kind # "shared" /\ \E i \in DOMAIN q.of : result[q.of[i]].threw
    <3>1. result[q].options = <<>>
      BY <1>1, <2>2, OutcomeCases DEF Threw
    <3> QED
      BY <1>2, <1>6, <3>1
  <2>3. CASE q.kind = "either" /\ \A i \in DOMAIN q.of : ~result[q.of[i]].threw
    <3> DEFINE opts == OptionsOf(result, q)
    <3>1. result[q].options = FoldLeft(Concat, <<>>, opts)
      BY <1>1, <2>3, OutcomeCases DEF Found
    <3>2. /\ opts \in Seq(Seq(Option(h)))
          /\ DOMAIN opts = DOMAIN q.of
          /\ \A i \in DOMAIN q.of : opts[i] = result[q.of[i]].options
      BY <1>1, <2>3, MemberOptions
    <3> HIDE DEF opts
    <3>3. ToSet(result[q].options) = UNION {ToSet(opts[i]) : i \in DOMAIN opts}
      BY <3>1, <3>2, Concatenated
    <3>4. PICK i \in DOMAIN q.of : o \in ToSet(opts[i])
      BY <1>6, <3>2, <3>3
    <3>5. q.of[i] \in Members(q) /\ q.of[i] \in G
      BY <1>6, <2>3 DEF Members, Drawing
    <3> QED
      BY <1>6, <3>2, <3>4, <3>5
  <2>4. CASE q.kind = "split" /\ \A i \in DOMAIN q.of : ~result[q.of[i]].threw
    <3> DEFINE opts == OptionsOf(result, q)
    <3>1. result[q] = SplitResult(opts)
      BY <1>1, <2>4, OutcomeCases
    <3>2. /\ opts \in Seq(Seq(Option(h)))
          /\ DOMAIN opts = DOMAIN q.of /\ Len(opts) = Len(q.of)
          /\ \A i \in DOMAIN q.of : opts[i] = result[q.of[i]].options
      BY <1>1, <2>4, MemberOptions
    <3> HIDE DEF opts
    <3>3. CASE SplitResult(opts) = Threw \/ SplitResult(opts) = Found(<<>>)
      BY <1>2, <1>6, <3>1, <3>3 DEF Threw, Found
    <3>4. CASE ~(SplitResult(opts) = Threw \/ SplitResult(opts) = Found(<<>>))
      <4>1. Len(opts) = 2
        BY <3>2, <3>4, SplitAnswers
      <4>2. PICK a \in Fitting(h), b \in Fitting(h) :
              /\ SplitResult(opts) = Found(<<<<a, b>>>>)
              /\ a.index # b.index
              /\ <<a>> \in ToSet(opts[1]) /\ <<b>> \in ToSet(opts[2])
        BY <3>2, <3>4, SplitAnswers
      <4>3. PICK i \in DOMAIN q.of : q.of[i] \in G
        BY <1>6, <2>4 DEF Drawing
      <4>4. i \in {1, 2}
        <5>1. DOMAIN opts = 1 .. Len(opts)
          BY <3>2
        <5> QED
          BY <3>2, <4>1, <5>1
      <4>5. \A p \in ToSet(opts[i]) : Draws(p)
        <5>1. q.of[i] \in Members(q)
          BY <2>4 DEF Members
        <5> QED
          BY <1>6, <3>2, <4>3, <5>1
      <4>6. Draws(<<a>>) \/ Draws(<<b>>)
        BY <4>2, <4>4, <4>5
      <4>7. Draws(<<a, b>>)
        BY <1>4, <1>5, <4>6
      <4>8. ToSet(<<<<a, b>>>>) = {<<a, b>>}
        <5>1. DOMAIN <<<<a, b>>>> = {1} /\ <<<<a, b>>>>[1] = <<a, b>>
          OBVIOUS
        <5> QED
          BY <5>1 DEF ToSet
      <4>9. result[q].options = <<<<a, b>>>>
        BY <3>1, <4>2 DEF Found
      <4> QED
        BY <1>6, <4>7, <4>8, <4>9
    <3> QED
      BY <3>3, <3>4
  <2> QED
    BY <2>1, <2>2, <2>3, <2>4, KindsOfRequests
<1>7. ASSUME NEW q \in Requests, Members(q) \subseteq S PROVE q \in S
  <2>1. \A p \in Members(q) : Good(p)
    BY <1>7
  <2>2. Good(q)
    <3> SUFFICES ASSUME q \in G, NEW o \in ToSet(result[q].options) PROVE Draws(o)
      OBVIOUS
    <3> HIDE DEF Good
    <3> QED
      BY <1>6, <2>1
  <2> HIDE DEF Good
  <2> QED
    BY <2>2
<1>8. Requests \subseteq S
  <2> HIDE DEF S
  <2> QED
    BY <1>7, FromMembers
<1> QED
  BY <1>8 DEF result

(* Once set-up is over a frame is recorded for a family of graphics queues *)
(* and submitted to a queue of this family the device was created with,    *)
(* whichever of its families the device offers, if every request the       *)
(* program may make brings a family for graphics.                          *)
THEOREM FramesAlwaysDrawn ==
  ASSUME NEW G, Drawing(G), Wanted \subseteq G
  PROVE  SetupSpec => []SwapQueueDrawsFrames
<1>1. SetupInv => SwapQueueDrawsFrames
  <2> SUFFICES ASSUME SetupInv, pc = "ready" PROVE SwapQueueDrawsFrames
    BY DEF SwapQueueDrawsFrames
  <2> DEFINE t == "GRAPHICS"
  <2>1. /\ QueuesInv /\ answer \in Devices /\ wanted \in Wanted /\ wanted \in Requests
        /\ logical.device = answer /\ logical.request = wanted
        /\ swapQueue = [index |-> getQueueFamily(t).index, queue |-> 0]
    BY SetupAssumption DEF SetupInv, QueryStep, BuilderStep, WithDevice
  <2>2. logical # NoDevice
    BY <2>1, NoDeviceIs, NoRequest
  <2>3. PICK d \in Devices, r \in Requests :
          /\ d = answer /\ r = wanted /\ Answered(d, r)
          /\ logical.families \in SetToSeqs(Kept(Chosen(d, r)))
          /\ logical.created = Unique(Chosen(d, r))
    BY <2>1, <2>2, LogicalIs
  <2>4. PICK o : o = Chosen(d, r)
    OBVIOUS
  <2>5. /\ hardware[d] \in Hardware /\ o \in Option(hardware[d])
        /\ o \in ToSet(Prepared(hardware[d])[r].options)
    BY <2>1, <2>3, <2>4, ChosenIsOption
  <2>6. Draws(o)
    BY <2>1, <2>3, <2>5, DrawingFinds
  <2>7. /\ t \in hardware[d][getQueueFamily(t).index].types
        /\ \E e \in Unique(o) : e.index = getQueueFamily(t).index /\ 0 < e.count
    BY <2>3, <2>4, <2>5, <2>6, FamilyFound, LookupsAre DEF Draws
  <2>8. swapQueue.index = getQueueFamily(t).index /\ swapQueue.queue = 0
    BY <2>1
  <2> QED
    BY <2>3, <2>4, <2>7, <2>8 DEF SwapQueueDrawsFrames
<1> QED
  BY <1>1, SetupInvariance, PTL

(* What the complete query requires.                                       *)
LEMMA AskedRequires ==
  ASSUME QueryTypeOK, filters = Asked
  PROVE  /\ RequiredFirst
         /\ \A d : MeetsRequired(d) <=>
              {"necessary", "dynamicRendering", Swapchain} \subseteq devices[d]
<1>1. DOMAIN Asked = 1 .. Len(Asked) /\ Len(Asked) \in Nat /\ Len(Asked) >= 3
  <2>1. PICK s \in Seq(Filter) : s = Asked
    BY AskedIs
  <2> QED
    BY <2>1, AskedIs
<1>2. \A c : Hard(c).capability = c /\ ~Hard(c).soft
  BY DEF Hard
<1>3. {1, 2, 3} \subseteq DOMAIN Asked
  BY <1>1
<1>4. ASSUME NEW i \in DOMAIN Asked PROVE i \in Nat /\ (Asked[i].soft <=> i > 3) /\ (i > 3 \/ i \in {1, 2, 3})
  <2>1. i \in Nat /\ (i > 3 \/ i \in {1, 2, 3}) /\ ~(1 > 3) /\ ~(2 > 3) /\ ~(3 > 3)
    BY <1>1
  <2> QED
    BY <1>2, <2>1, AskedIs
<1>5. RequiredFirst
  <2> SUFFICES ASSUME NEW i \in DOMAIN Asked, NEW j \in DOMAIN Asked, Asked[i].soft, ~Asked[j].soft
               PROVE  j < i
    BY DEF RequiredFirst
  <2>1. i \in Nat /\ j \in Nat /\ i > 3 /\ ~(j > 3)
    BY <1>4
  <2> QED
    BY <2>1
<1>6. ASSUME NEW d
      PROVE  MeetsRequired(d) <=> Holds(d, "necessary") /\ Holds(d, "dynamicRendering") /\ Holds(d, Swapchain)
  <2>1. MeetsRequired(d) <=> \A i \in DOMAIN Asked : ~Asked[i].soft => Holds(d, Asked[i].capability)
    BY DEF MeetsRequired, ToSet
  <2>2. (\A i \in DOMAIN Asked : ~Asked[i].soft => Holds(d, Asked[i].capability))
          => Holds(d, "necessary") /\ Holds(d, "dynamicRendering") /\ Holds(d, Swapchain)
    BY <1>2, <1>3, AskedIs
  <2>3. ASSUME Holds(d, "necessary"), Holds(d, "dynamicRendering"), Holds(d, Swapchain),
               NEW i \in DOMAIN Asked, ~Asked[i].soft
        PROVE  Holds(d, Asked[i].capability)
    <3>1. i \in {1, 2, 3}
      BY <1>4, <2>3
    <3> QED
      BY <1>2, <2>3, <3>1, AskedIs
  <2> QED
    BY <2>1, <2>2, <2>3
<1>7. "necessary" # NoModel /\ "dynamicRendering" # NoModel /\ Swapchain # NoModel
  BY SetupAssumption, QueryAssumption
<1> QED
  BY <1>5, <1>6, <1>7 DEF Holds

(* The devices of the query are numbers from 1.                            *)
LEMMA PlacesAre ==
  ASSUME QueryTypeOK
  PROVE  0 \notin Places /\ NotAsked \notin Places /\ NotAsked # 0 /\ Left \subseteq Places
<1>1. Places = 1 .. Len(devices) /\ Len(devices) \in Nat
  BY QueryAssumption DEF QueryTypeOK, QueryAssumption, Places
<1>2. 0 \in 0 .. Len(AllFilters)
  BY AllAreFilters DEF QueryTypeOK
<1>3. Left \subseteq Places
  BY <1>2, FiltersOnlyRemove
<1> QED
  BY <1>1, <1>3 DEF NotAsked

(* The query throws only if no device has what is required.                *)
LEMMA NoDeviceSuits ==
  ASSUME SetupInv, pc = "no device", NEW d \in Devices
  PROVE  ~Suits(d)
<1> SUFFICES ASSUME Suits(d) PROVE FALSE
  OBVIOUS
<1>1. QueryTypeOK /\ AnswerCurrent /\ Seen /\ filters = Asked /\ answer = 0
  BY DEF SetupInv, QueryStep
<1>2. d \in Places
  BY <1>1, DevicesSeen
<1>3. RequiredFirst /\ MeetsRequired(d)
  BY <1>1, AskedRequires DEF Seen, Suits
<1>4. Left # {}
  BY <1>1, <1>2, <1>3, RequiredFirstLeaves
<1>5. Best \in Places
  BY <1>1, <1>4, BestIsBest, PlacesAre, QueryAssumption
<1>6. Selection = Best
  BY <1>4 DEF Selection
<1>7. Best = 0
  BY <1>1, <1>6, PlacesAre DEF AnswerCurrent
<1> QED
  BY <1>1, <1>5, <1>7, PlacesAre

(* The device it selects has what is required.                             *)
LEMMA SelectedSuits ==
  ASSUME SetupInv, pc = "failed"
  PROVE  answer \in Devices /\ Suits(answer)
<1>1. QueryTypeOK /\ AnswerCurrent /\ Seen /\ filters = Asked /\ answer \in Devices
  BY DEF SetupInv, QueryStep, WithDevice
<1>2. answer \in Places
  BY <1>1, DevicesSeen
<1>3. Selected
  BY <1>1, <1>2, PlacesAre DEF Selected
<1>4. MeetsRequired(answer)
  BY <1>1, <1>3, SelectedIsBest, LeftMeetRequired
<1> QED
  BY <1>1, <1>4, AskedRequires DEF Seen, Suits

(* Set-up ends without a physical device only if none has all the program  *)
(* requires, and without a logical one only for a device that has and, if  *)
(* the request has no split, of which no family serves it.                 *)
THEOREM SetupFailuresUnserved == SetupSpec => []SetupFailsOnlyIfUnserved
<1>1. ASSUME SetupInv, pc = "failed", SplitFree(wanted)
      PROVE  Serving(hardware[answer])[wanted] = {}
  <2>1. /\ QueuesInv /\ wanted \in Wanted /\ wanted \in Requests
        /\ answer \in Devices /\ builder.device = answer /\ failed = wanted
    BY <1>1, SelectedSuits, SetupAssumption DEF SetupInv, BuilderStep
  <2>2. failed # None
    BY <2>1, NoRequest
  <2>3. ~Answered(answer, wanted)
    BY <2>1, <2>2 DEF QueuesInv, FailedInv
  <2>4. hardware[answer] \in Hardware
    BY <2>1 DEF QueuesInv
  <2> QED
    BY <1>1, <2>1, <2>3, <2>4, FreeFinds DEF Answered
<1>2. SetupInv => SetupFailsOnlyIfUnserved
  BY <1>1, NoDeviceSuits, SelectedSuits DEF SetupFailsOnlyIfUnserved
<1> QED
  BY <1>2, SetupInvariance, PTL
=============================================================================
