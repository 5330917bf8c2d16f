--------------------------- MODULE MCDeviceSetup ---------------------------
(* Two devices of one or two families, and three requests.  Beside what    *)
(* follows from its families a device has everything, or lacks one thing.  *)
EXTENDS DeviceSetup

Shared(types, count) == [kind |-> "shared", types |-> types, count |-> count]
Either(of) == [kind |-> "either", of |-> of]
Split(of)  == [kind |-> "split", of |-> of]

MCTypes == {"COMPUTE", "GRAPHICS", "TRANSFER"}

GT  == Shared(<<"GRAPHICS", "TRANSFER">>, 1)
CT  == Shared(<<"COMPUTE", "TRANSFER">>, 1)
GTC == Shared(<<"GRAPHICS", "TRANSFER", "COMPUTE">>, 1)
T   == Shared(<<"TRANSFER">>, 1)

(* The request of the examples, and one that asks for families for drawing *)
(* and for copying, each alone if it cannot have both.                     *)
Standard == Either(<<Split(<<GT, CT>>), GTC, GT>>)
Copying  == Either(<<Split(<<GT, T>>), GT>>)
Simple   == Either(<<GTC, GT>>)

MCRequests == {GT, CT, GTC, T, Split(<<GT, CT>>), Split(<<GT, T>>), Standard, Copying, Simple}

Families == [types : {{"GRAPHICS", "TRANSFER"}, {"COMPUTE", "TRANSFER"}, MCTypes, {"TRANSFER"}},
             count : {1}]

MCHardware == {<<f>> : f \in Families} \cup (Families \X Families)

MCWanted == {Standard, Copying, Simple}

(* Each of them brings a family for graphics, as the theorem about the     *)
(* queue frames are submitted to asks.                                     *)
ASSUME Drawable ==
  Drawing(MCRequests \ {CT, T}) /\ MCWanted \subseteq MCRequests \ {CT, T}

MCDevices == 1 .. 2
MCNecessary == <<"GRAPHICS", "TRANSFER">>
MCPreferred == <<"COMPUTE">>

MCWeights == {100, -2000}
MCRecommendedSoft == <<"multidraw">>

Full == {"swapchain", "dynamicRendering", "multidraw", "discrete"}
MCBeside == {Full, Full \cup {"dozen"}} \cup {Full \ {c} : c \in Full}

MCCapabilities == Full \cup {"dozen", "necessary", "preferred"}
MCDeviceLists == [MCDevices -> {b \cup q : b \in MCBeside, q \in SUBSET {"necessary", "preferred"}}]
=============================================================================
