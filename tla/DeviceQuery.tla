---------------------------- MODULE DeviceQuery ----------------------------
(***************************************************************************)
(* The choice of a physical device: hardware/util/DeviceQuery.java.  A     *)
(* query is filled by a chain of calls and may then select any number of   *)
(* times.  A predicate on devices is abstracted to a capability, a device  *)
(* to the capabilities it has.                                             *)
(***************************************************************************)
EXTENDS Integers, Sequences, FiniteSets, SequencesExt

CONSTANTS
  Capabilities,
  RecommendedSoft,  (* what reniRecommended requires if possible, in order *)
  Swapchain,        (* the capability reniRecommended requires             *)
  Dedicated,        (* being a discrete GPU                                *)
  Weights,          (* the priorities of requests                          *)
  DeviceLists,      (* the lists of devices there may be                   *)
  MaxFilters,       (* bounds the filters of a query                       *)
  MaxScored         (* bounds the requests of a query                      *)

ASSUME QueryAssumption ==
  /\ RecommendedSoft \in Seq(Capabilities)
  /\ Swapchain \in Capabilities
  /\ Dedicated \in Capabilities
  /\ Weights \subseteq Int
  /\ \A l \in DeviceLists : l \in Seq(SUBSET Capabilities)
  /\ MaxFilters \in Nat
  /\ MaxScored \in Nat

VARIABLES
  devices,    (* the list select is given                                *)
  filters,    (* of require and requireIfPossible, in order              *)
  requests,
  priority,   (* the priority model, or NoModel                              *)
  priorityB,  (* the brands favoured, or NoModel                             *)
  answer      (* the index select returned, 0 when it threw; NotAsked    *)
              (* since the query last changed                            *)

queryVars == <<devices, filters, requests, priority, priorityB, answer>>

(* (dev) -> true                                                           *)
NoModel == "no model"

NotAsked == -1

Filter  == [capability : Capabilities \cup {NoModel}, soft : BOOLEAN]
Request == [capability : Capabilities, weight : Int]

QueryInit ==
  /\ devices \in DeviceLists
  /\ filters = <<>>
  /\ requests = <<>>
  /\ priority = NoModel
  /\ priorityB = NoModel
  /\ answer = NotAsked

AddFilters(added) ==
  /\ Len(filters) + Len(added) <= MaxFilters
  /\ filters' = filters \o added
  /\ answer' = NotAsked
  /\ UNCHANGED <<devices, requests, priorityB>>

Hard(c) == [capability |-> c, soft |-> FALSE]
Soft(c) == [capability |-> c, soft |-> TRUE]

require(c)           == AddFilters(<<Hard(c)>>) /\ UNCHANGED priority
requireIfPossible(c) == AddFilters(<<Soft(c)>>) /\ UNCHANGED priority

(* require, requireIfPossible for each, prioritizeDedicated.               *)
reniRecommended ==
  /\ AddFilters(<<Hard(Swapchain)>> \o [i \in DOMAIN RecommendedSoft |-> Soft(RecommendedSoft[i])])
  /\ priority' = Dedicated

request(w, c) ==
  /\ Len(requests) < MaxScored
  /\ requests' = Append(requests, [capability |-> c, weight |-> w])
  /\ answer' = NotAsked
  /\ UNCHANGED <<devices, filters, priority, priorityB>>

(* prioritizeDedicated, prioritizeIntegrated, priorityModel; noPriority is *)
(* the model NoModel.                                                      *)
priorityModel(c) ==
  /\ priority' = c
  /\ answer' = NotAsked
  /\ UNCHANGED <<devices, filters, requests, priorityB>>

favorBrands(c) ==
  /\ priorityB' = c
  /\ answer' = NotAsked
  /\ UNCHANGED <<devices, filters, requests, priority>>

Holds(d, c) == c = NoModel \/ c \in devices[d]

(* Mutant: a soft filter ignored.                                          *)
AppliedNever(left, f) ==
  IF f.soft THEN left ELSE {d \in left : Holds(d, f.capability)}

(* Mutant: a soft filter like any other.                                   *)
AppliedHard(left, f) == {d \in left : Holds(d, f.capability)}

(* DeviceFilter.apply, and SoftRequisite.apply, which keeps all if none    *)
(* would be left.  Filters keep the order of the list, so that a stream is *)
(* the set of the places in it.                                            *)
Applied(left, f) ==
  LET kept == {d \in left : Holds(d, f.capability)}
  IN  IF f.soft /\ kept = {} THEN left ELSE kept

(* The filters and the two priorities, in the order they are applied.      *)
AllFilters == filters \o <<Soft(priority), Soft(priorityB)>>

Left == FoldLeft(Applied, DOMAIN devices, AllFilters)

(* The scores with one more request.                                       *)
Scored(scores, r) ==
  [d \in DOMAIN devices |->
     IF Holds(d, r.capability) THEN scores[d] + r.weight ELSE scores[d]]

Score(d) == FoldLeft(Scored, [e \in DOMAIN devices |-> 0], requests)[d]

(* Mutant: the last of the best, as an unstable sort may leave it.         *)
BestLast ==
  CHOOSE d \in Left : \A e \in Left :
    Score(e) < Score(d) \/ (Score(e) = Score(d) /\ e <= d)

(* The first of the devices left with the greatest score: the sort is      *)
(* stable.                                                                 *)
Best ==
  CHOOSE d \in Left : \A e \in Left :
    Score(e) < Score(d) \/ (Score(e) = Score(d) /\ d <= e)

select ==
  /\ answer' = IF Left = {} THEN 0 ELSE Best
  /\ UNCHANGED <<devices, filters, requests, priority, priorityB>>

QueryNext ==
  \/ \E c \in Capabilities : require(c) \/ requireIfPossible(c) \/ favorBrands(c)
  \/ reniRecommended
  \/ \E c \in Capabilities, w \in Weights : request(w, c)
  \/ \E c \in Capabilities \cup {NoModel} : priorityModel(c)
  \/ select

QuerySpec == QueryInit /\ [][QueryNext]_queryVars

(***************************************************************************)
(* Properties                                                              *)
(***************************************************************************)
QueryTypeOK ==
  /\ devices \in DeviceLists
  /\ filters \in Seq(Filter) /\ Len(filters) <= MaxFilters
  /\ requests \in Seq(Request) /\ Len(requests) <= MaxScored
  /\ {priority, priorityB} \subseteq Capabilities \cup {NoModel}
  /\ answer \in DOMAIN devices \cup {0, NotAsked}

Selected == answer \notin {0, NotAsked}

(* The devices that meet every requirement, whatever is asked for beside.  *)
MeetsRequired(d) == \A f \in ToSet(filters) : ~f.soft => Holds(d, f.capability)

(* The wishes a device fulfils: soft filters and both priorities.          *)
Wishes == {f.capability : f \in {f \in ToSet(filters) : f.soft}} \cup {priority, priorityB}
Fulfilled(d) == {c \in Wishes : Holds(d, c)}

(* The device selected meets every requirement, and no device that also    *)
(* meets them fulfils all of its wishes and another one: the order in which*)
(* wishes are made decides among them, but none is given up for nothing.   *)
SelectedUndominated ==
  Selected =>
    /\ MeetsRequired(answer)
    /\ \A d \in DOMAIN devices :
         MeetsRequired(d) /\ Fulfilled(answer) \subseteq Fulfilled(d)
           => Fulfilled(d) = Fulfilled(answer)

(* "The device that gets the highest score from all request filters will be*)
(* selected": none that meets the requirements and fulfils the same wishes *)
(* has a higher score, and none of those with the same score stands before *)
(* it in the list.                                                         *)
SelectedScoresHighest ==
  Selected =>
    \A d \in DOMAIN devices :
      MeetsRequired(d) /\ Fulfilled(d) = Fulfilled(answer) =>
        Score(d) < Score(answer) \/ (Score(d) = Score(answer) /\ d >= answer)

RequiredFirst ==
  \A i, j \in DOMAIN filters : filters[i].soft /\ ~filters[j].soft => j < i

(* A query whose requirements come before its wishes throws only if no     *)
(* device meets the requirements.                                          *)
ThrowsOnlyIfNoneMeets ==
  answer = 0 /\ RequiredFirst => \A d \in DOMAIN devices : ~MeetsRequired(d)

(* "If no GPUs match these filters, an error will be thrown": the filters  *)
(* of require, and only then.                                              *)
ErrorMeansNoneMatches ==
  answer = 0 => \A d \in DOMAIN devices : ~MeetsRequired(d)
=============================================================================
