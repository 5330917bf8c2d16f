---------------------------- MODULE DeviceSetup ----------------------------
(***************************************************************************)
(* How a program gets its device, as the examples do in the static         *)
(* initializer of ReniSetup: a query (DeviceQuery) selects the physical    *)
(* device, a request (QueueSelection) its queue families, and ReniContext  *)
(* keeps the logical device and the queue frames are submitted to.  What   *)
(* the query tests of the queue families of a device (SUPPORTS_INDICES) are*)
(* the capabilities "necessary" and "preferred", tied to them by Seen; the *)
(* others (the extensions, the features, being discrete or Dozen) a device *)
(* may have or lack as it likes.  The first filter of the initializer,     *)
(* which prints every device and refuses none, is left out.                *)
(***************************************************************************)
EXTENDS QueueSelection, DeviceQuery

CONSTANTS
  Necessary,  (* the types the program requires a device to support      *)
  Preferred,  (* the types it scores devices for                         *)
  Wanted      (* the requests it may then make                           *)

ASSUME SetupAssumption ==
  /\ Necessary \in Seq(Types)
  /\ Preferred \in Seq(Types)
  /\ Wanted \subseteq Requests
  /\ Devices = 1 .. Cardinality(Devices)
  /\ {"necessary", "dynamicRendering", "preferred", "dozen"} \subseteq Capabilities
  /\ NoModel \notin Capabilities
  /\ {100, -2000} \subseteq Weights
  /\ \A l \in DeviceLists : DOMAIN l = Devices

VARIABLES
  pc,         (* the step of the program                                 *)
  wanted,     (* its request for queue families                          *)
  swapQueue   (* ReniContext's, as [index, queue], or NoQueue            *)

allVars == <<vars, queryVars, pc, wanted, swapQueue>>

(* SUPPORTS_INDICES: for each type some family, not necessarily one for all*)
SupportsIndices(h, types) ==
  \A t \in ToSet(types) : \E i \in DOMAIN h : t \in h[i].types

(* What the query tests of a device's families is what they are.           *)
Seen ==
  \A d \in Devices :
    /\ "necessary" \in devices[d] <=> SupportsIndices(hardware[d], Necessary)
    /\ "preferred" \in devices[d] <=> SupportsIndices(hardware[d], Preferred)

NoQueue == [index |-> 0, queue |-> 0]

SetupInit ==
  /\ Init
  /\ QueryInit /\ Seen
  /\ pc = "require"
  /\ wanted \in Wanted
  /\ swapQueue = NoQueue

Goto(from, to) == pc = from /\ pc' = to

(* The query, call by call.                                                *)
Ask ==
  /\ UNCHANGED <<vars, wanted, swapQueue>>
  /\ \/ Goto("require", "dynamic") /\ require("necessary")
     \/ Goto("dynamic", "recommend") /\ require("dynamicRendering")
     \/ Goto("recommend", "request") /\ reniRecommended
     \/ Goto("request", "avoid") /\ request(100, "preferred")
     \/ Goto("avoid", "select") /\ request(-2000, "dozen")

(* supportingDevice.                                                       *)
Choose ==
  /\ pc = "select"
  /\ UNCHANGED <<vars, wanted, swapQueue>>
  /\ select
  /\ pc' = IF answer' = 0 THEN "no device" ELSE "create"

Build ==
  /\ \/ Goto("create", "indices") /\ createLogical(answer)
     \/ /\ pc = "indices" /\ requestIndices(wanted)
        /\ pc' = IF failed' = None THEN "logical" ELSE "failed"
     \/ Goto("logical", "context") /\ create
  /\ UNCHANGED <<queryVars, wanted, swapQueue>>

(* withLogical, which takes the queue for transfers.                       *)
withLogical ==
  /\ Goto("context", "swap queue")
  /\ swapQueue' = getStandardQueue("TRANSFER")
  /\ UNCHANGED <<vars, wanted, queryVars>>

(* Mutant: setSwapQueue forgotten: the queue for transfers stays.          *)
setSwapQueueForgotten ==
  /\ Goto("swap queue", "ready")
  /\ UNCHANGED <<vars, wanted, queryVars, swapQueue>>

(* setSwapQueue, with the first queue for graphics.                        *)
setSwapQueue ==
  /\ Goto("swap queue", "ready")
  /\ swapQueue' = [index |-> getQueueFamily("GRAPHICS").index, queue |-> 0]
  /\ UNCHANGED <<vars, wanted, queryVars>>

SetupOver == pc \in {"no device", "failed", "ready"} /\ UNCHANGED allVars

SetupNext == Ask \/ Choose \/ Build \/ withLogical \/ setSwapQueue \/ SetupOver

SetupSpec == SetupInit /\ [][SetupNext]_allVars

(***************************************************************************)
(* What a program may want                                                 *)
(***************************************************************************)
(* Requests that always bring a family for graphics: shared ones that ask  *)
(* for it, "either" of such, and splits with such a member.                *)
Drawing(G) ==
  \A r \in G : /\ r.kind = "shared" => "GRAPHICS" \in ToSet(r.types)
               /\ r.kind = "either" => \A i \in DOMAIN r.of : r.of[i] \in G
               /\ r.kind = "split" => \E i \in DOMAIN r.of : r.of[i] \in G

(***************************************************************************)
(* Properties                                                              *)
(***************************************************************************)
SetupTypeOK ==
  /\ pc \in {"require", "dynamic", "recommend", "request", "avoid", "select", "no device",
             "create", "indices", "failed", "logical", "context", "swap queue", "ready"}
  /\ wanted \in Wanted
  /\ TypeOK
  /\ QueryTypeOK
  /\ swapQueue \in [index : Nat, queue : Nat]

(* A frame is recorded for the family of getQueueFamily(GRAPHICS) and      *)
(* submitted to swapQueue: once set-up is over that is a graphics queue of *)
(* this family, and the device was created with it.                        *)
SwapQueueDrawsFrames ==
  pc = "ready" =>
    /\ swapQueue.index = getQueueFamily("GRAPHICS").index
    /\ "GRAPHICS" \in hardware[answer][swapQueue.index].types
    /\ \E c \in logical.created : c.index = swapQueue.index /\ swapQueue.queue < c.count

(* A device with all the program requires.                                 *)
Suits(d) ==
  /\ SupportsIndices(hardware[d], Necessary)
  /\ {Swapchain, "dynamicRendering"} \subseteq devices[d]

(* Set-up ends without a physical device only if none has all the program  *)
(* requires, whatever it wishes for beside; and without a logical one only *)
(* for a device that has, and, unless its request has a split, only if no  *)
(* family of this device serves the request: the query does not look for   *)
(* what the request then asks, but neither loses what there is.            *)
SetupFailsOnlyIfUnserved ==
  /\ pc = "no device" => \A d \in Devices : ~Suits(d)
  /\ pc = "failed" =>
       /\ Suits(answer)
       /\ SplitFree(wanted) => Serving(hardware[answer])[wanted] = {}
=============================================================================
