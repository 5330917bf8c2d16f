--------------------------- MODULE QueueSelection ---------------------------
(***************************************************************************)
(* The choice of the queue families a logical device is created with:      *)
(* QueueRequest (what a program asks for), LogicalDeviceBuilder            *)
(* (requestIndices, create) and the lookups of ReniLogicalDevice.          *)
(*                                                                         *)
(* A request is a record: kind "shared" asks for one family with all of    *)
(* types and count queues, "either" for the first of its members that can  *)
(* be had, "split" for two members from two different families.  Request   *)
(* objects outlive a call and may be used for several devices; what each of*)
(* them keeps between calls (its fields cache and options) is options.     *)
(***************************************************************************)
EXTENDS Integers, Sequences, FiniteSets, SequencesExt

CONSTANTS
  Types,          (* ReniQueueType                                       *)
  Requests,       (* request objects, the members of each among them     *)
  Hardware,       (* what vkGetPhysicalDeviceQueueFamilyProperties can   *)
                  (* answer: sequences of [types, count]                 *)
  Devices,        (* the physical devices                                *)
  NoId,           (* none of them                                        *)
  MaxRequests     (* bounds the calls of requestIndices                  *)

ASSUME QueueAssumption ==
  /\ IsFiniteSet(Requests)
  /\ \A r \in Requests :
       CASE r.kind = "shared" -> r.types \in Seq(Types) /\ r.count \in Nat \ {0}
         [] OTHER -> r.kind \in {"either", "split"} /\ r.of \in Seq(Requests)
  /\ \A h \in Hardware : h \in Seq([types : SUBSET Types, count : Nat \ {0}])
  /\ NoId \notin Devices
  /\ MaxRequests \in Nat

(* A request is made of requests there are already.                        *)
ASSUME Constructed ==
  \A S \in SUBSET Requests : S # {} =>
    \E r \in S : r.kind = "shared" \/ \A i \in DOMAIN r.of : r.of[i] \notin S

VARIABLES
  hardware,   (* the queue families of each device                       *)
  options,    (* what each request object found when last prepared       *)
  builder,    (* the LogicalDeviceBuilder in use                         *)
  failed,     (* the request it last threw for                           *)
  logical,    (* the logical device the last builder made                *)
  calls       (* of requestIndices                                       *)

vars == <<hardware, options, builder, failed, logical, calls>>

None == [kind |-> "none"]

(***************************************************************************)
(* Requests                                                                *)
(***************************************************************************)
QueueInfo == [types : Seq(Types), count : Nat, index : Nat \ {0}]

(* Mutant: all fields compared, so that a family found with another count  *)
(* passes for another family.                                              *)
SameInfoAllFields(a, b) == a = b

(* QueueInfo.equals and List.equals of lists of them.                      *)
SameInfo(a, b) == a.index = b.index

SameOption(o, p) ==
  Len(o) = Len(p) /\ \A i \in DOMAIN o : SameInfo(o[i], p[i])

Min2(a, b) == IF a <= b THEN a ELSE b

(* The order of the stable sort in Shared.prepare: most queues first, then *)
(* as the device lists them.                                               *)
Before(a, b) == a.count > b.count \/ (a.count = b.count /\ a.index < b.index)

Infos(h, r) ==
  LET capable == {i \in DOMAIN h : ToSet(r.types) \subseteq h[i].types}
  IN  {[types |-> r.types, count |-> Min2(r.count, h[i].count), index |-> i] :
         i \in capable}

(* In the order of the sort, each family where those before it leave it.   *)
SharedOptions(h, r) ==
  LET infos == Infos(h, r)
      place(a) == Cardinality({b \in infos : Before(b, a)}) + 1
  IN  [n \in 1 .. Cardinality(infos) |-> <<CHOOSE a \in infos : place(a) = n>>]

Found(opts) == [threw |-> FALSE, options |-> opts]
Threw == [threw |-> TRUE, options |-> <<>>]

FirstOf(S) == CHOOSE i \in S : \A j \in S : i <= j

(* The first option of member i that is not one of the other member j, and *)
(* the first of all when nothing is left without those.                    *)
Narrowed(opts, i, j) ==
  LET own == {n \in DOMAIN opts[i] : \A k \in DOMAIN opts[j] : ~SameOption(opts[i][n], opts[j][k])}
  IN  opts[i][FirstOf(IF own = {} THEN DOMAIN opts[i] ELSE own)]

(* Split.prepare, given the options of the members.  A member without      *)
(* options throws from ints.getFirst(), a third member in any case.        *)
SplitResult(opts) ==
  LET unservable == \E i \in DOMAIN opts : opts[i] = <<>>
      nested     == \E i \in DOMAIN opts : \E k \in DOMAIN opts[i] : Len(opts[i][k]) > 1
      left       == Narrowed(opts, 1, 2)[1]
      right      == Narrowed(opts, 2, 1)[1]
  IN  IF unservable \/ nested \/ Len(opts) > 2 THEN Threw
      ELSE IF Len(opts) < 2 \/ SameInfo(left, right) THEN Found(<<>>)
      ELSE Found(<<<<left, right>>>>)

Concat(s, t) == s \o t

(* Mutant: an "either" that gives up with its first member.                *)
OutcomeFirst(result, h, r) ==
  IF r.kind = "shared" THEN Found(SharedOptions(h, r))
  ELSE LET opts == [i \in DOMAIN r.of |-> result[r.of[i]].options]
       IN  IF \E i \in DOMAIN r.of : result[r.of[i]].threw THEN Threw
           ELSE IF r.kind = "either" THEN Found(opts[1])
           ELSE SplitResult(opts)

(* What prepare makes of a request, given what it makes of the members.    *)
Outcome(result, h, r) ==
  IF r.kind = "shared" THEN Found(SharedOptions(h, r))
  ELSE LET opts == [i \in DOMAIN r.of |-> result[r.of[i]].options]
       IN  IF \E i \in DOMAIN r.of : result[r.of[i]].threw THEN Threw
           ELSE IF r.kind = "either" THEN Found(FoldLeft(Concat, <<>>, opts))
           ELSE SplitResult(opts)

(* What prepare makes of every request on a device with the families h.    *)
Prepared(h) ==
  LET result[r \in Requests] == Outcome(result, h, r)
  IN  result

(* The requests whose prepare returns during a call of r's: the members in *)
(* order, up to the first that throws.                                     *)
Returning(reached, result, r) ==
  (IF result[r].threw THEN {} ELSE {r})
    \cup IF r.kind = "shared" THEN {}
         ELSE UNION {reached[r.of[i]] : i \in
                {i \in DOMAIN r.of : \A j \in 1 .. i - 1 : ~result[r.of[j]].threw}}

Reached(h) ==
  LET result == Prepared(h)
      reached[r \in Requests] == Returning(reached, result, r)
  IN  reached

(***************************************************************************)
(* The builder                                                             *)
(***************************************************************************)
NoBuilder == [device |-> NoId, request |-> None, chosen |-> <<>>, creates |-> {}]

NoDevice == [device |-> NoId, request |-> None, families |-> <<>>, created |-> {}]

Init ==
  /\ hardware \in [Devices -> Hardware]
  /\ options = [r \in Requests |-> <<>>]
  /\ builder = NoBuilder
  /\ failed = None
  /\ logical = NoDevice
  /\ calls = 0

(* A new builder.  One whose request threw may have been abandoned.        *)
createLogical(d) ==
  /\ builder.request = None
  /\ builder' = [NoBuilder EXCEPT !.device = d]
  /\ failed' = None
  /\ logical' = NoDevice
  /\ UNCHANGED <<hardware, options, calls>>

(* UNIQUE: the first of every group of equal QueueInfos.                   *)
Unique(infos) ==
  {infos[i] : i \in {i \in DOMAIN infos : \A j \in 1 .. i - 1 : ~SameInfo(infos[i], infos[j])}}

(* Mutant: a request prepared once keeps what it found.                    *)
RefreshedOnce(h, r) ==
  [q \in Requests |-> IF q \in Reached(h)[r] /\ options[q] = <<>>
                      THEN Prepared(h)[q].options ELSE options[q]]

(* prepare on the builder's device, and the caches it leaves behind.       *)
Refreshed(h, r) ==
  [q \in Requests |-> IF q \in Reached(h)[r] THEN Prepared(h)[q].options ELSE options[q]]

(* requestIndices.  A builder serves one request and ignores further ones. *)
(* select takes the first option and throws when there is none; the program*)
(* may then try another request on the same builder.                       *)
requestIndices(r) ==
  LET h == hardware[builder.device]
  IN  /\ builder # NoBuilder
      /\ calls < MaxRequests /\ calls' = calls + 1
      /\ IF builder.request # None THEN UNCHANGED <<options, builder, failed>>
         ELSE /\ options' = Refreshed(h, r)
              /\ IF Prepared(h)[r].threw \/ options'[r] = <<>>
                 THEN failed' = r /\ UNCHANGED builder
                 ELSE /\ builder' = [builder EXCEPT !.request = r,
                                                    !.chosen  = options'[r][1],
                                                    !.creates = Unique(options'[r][1])]
                      /\ failed' = None
      /\ UNCHANGED <<hardware, logical>>

(* The constructor of ReniLogicalDevice: families is a HashMap keyed by    *)
(* the ordered types of a QueueInfo, so that the later of two with the same*)
(* types replaces the earlier.                                             *)
Kept(chosen) ==
  {chosen[i] : i \in {i \in DOMAIN chosen :
     \A j \in i + 1 .. Len(chosen) : chosen[j].types # chosen[i].types}}

(* create.  The order in which the map is iterated is arbitrary, and the   *)
(* same every time.                                                        *)
create ==
  /\ builder.request # None
  /\ \E order \in SetToSeqs(Kept(builder.chosen)) :
       logical' = [device |-> builder.device, request |-> builder.request,
                   families |-> order, created |-> builder.creates]
  /\ builder' = NoBuilder
  /\ UNCHANGED <<hardware, options, failed, calls>>

Next ==
  \/ \E d \in Devices : createLogical(d)
  \/ \E r \in Requests : requestIndices(r)
  \/ create

Spec == Init /\ [][Next]_vars

(***************************************************************************)
(* The lookups of a logical device                                         *)
(***************************************************************************)
Supporting(t) == {i \in DOMAIN logical.families : t \in ToSet(logical.families[i].types)}

getQueueFamily(t) == logical.families[FirstOf(Supporting(t))]

(* Mutant: the last family that supports a type, where getQueueFamily takes*)
(* the first.                                                              *)
getStandardQueueLast(t) ==
  [index |-> logical.families[CHOOSE i \in Supporting(t) : \A j \in Supporting(t) : j <= i].index,
   queue |-> 0]

(* A queue is its family and its number in it.                             *)
getStandardQueue(t) ==
  [index |-> logical.families[FirstOf(Supporting(t))].index, queue |-> 0]

(***************************************************************************)
(* What a request means, whatever the search does                          *)
(***************************************************************************)
(* The families of h that serve a request, as the sequences of indices that*)
(* may be chosen for it.                                                   *)
Serves(serving, h, r) ==
  CASE r.kind = "shared" -> {<<i>> : i \in {i \in DOMAIN h : ToSet(r.types) \subseteq h[i].types}}
    [] r.kind = "either" -> UNION {serving[r.of[k]] : k \in DOMAIN r.of}
    [] r.kind = "split" ->
         IF Len(r.of) # 2 THEN {}
         ELSE {p \in (DOMAIN h) \X (DOMAIN h) :
                 p[1] # p[2] /\ <<p[1]>> \in serving[r.of[1]] /\ <<p[2]>> \in serving[r.of[2]]}

Serving(h) ==
  LET serving[r \in Requests] == Serves(serving, h, r)
  IN  serving

(* Requests without a split, in their members neither.                     *)
SplitFrees ==
  LET free[r \in Requests] ==
        r.kind = "shared" \/ (r.kind = "either" /\ \A i \in DOMAIN r.of : free[r.of[i]])
  IN  free

SplitFree(r) == SplitFrees[r]

(***************************************************************************)
(* Properties                                                              *)
(***************************************************************************)
TypeOK ==
  /\ hardware \in [Devices -> Hardware]
  /\ options \in [Requests -> Seq(Seq(QueueInfo))]
  /\ builder.device \in Devices \cup {NoId}
  /\ builder.request \in Requests \cup {None}
  /\ builder.chosen \in Seq(QueueInfo)
  /\ builder.creates \subseteq QueueInfo
  /\ failed \in Requests \cup {None}
  /\ logical.device \in Devices \cup {NoId}
  /\ logical.families \in Seq(QueueInfo)
  /\ logical.created \subseteq QueueInfo
  /\ calls \in 0 .. MaxRequests

(* The families chosen for a request serve it on the device it was made to:*)
(* every member of a split has a family of its own, every type is supported*)
(* by its family, whatever the request object found on another device.     *)
ChosenServe ==
  builder.request # None =>
    [i \in DOMAIN builder.chosen |-> builder.chosen[i].index]
      \in Serving(hardware[builder.device])[builder.request]

(* What vkCreateDevice is given is legal: no family is named twice, and no *)
(* family is asked for more queues than it has.                            *)
CreatesLegal ==
  /\ \A a, b \in builder.creates : a.index = b.index => a = b
  /\ \A a \in builder.creates :
       /\ a.index \in DOMAIN hardware[builder.device]
       /\ a.count \in 1 .. hardware[builder.device][a.index].count

(* requestIndices throws for a request made of "shared" and "either" only  *)
(* if no family serves it.                                                 *)
FailsOnlyIfUnserved ==
  failed # None /\ SplitFree(failed) => Serving(hardware[builder.device])[failed] = {}

(* Every type the device was built for is found again: in a family that    *)
(* supports it, on a queue the device was created with, and a command      *)
(* buffer made for getQueueFamily(t) may be submitted to                   *)
(* getStandardQueue(t).                                                    *)
LookupsServe ==
  \A c \in logical.created : \A t \in ToSet(c.types) :
    /\ Supporting(t) # {}
    /\ t \in hardware[logical.device][getQueueFamily(t).index].types
    /\ getStandardQueue(t).index = getQueueFamily(t).index
    /\ \E d \in logical.created :
         d.index = getQueueFamily(t).index /\ getStandardQueue(t).queue < d.count

(* An "either" fails only if none of its members can be served.            *)
EitherFallsBack ==
  failed # None /\ failed.kind = "either" => Serving(hardware[builder.device])[failed] = {}
=============================================================================
