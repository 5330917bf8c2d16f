-------------------------- MODULE MCQueueSelection --------------------------
(* Two devices of up to three families, and the request of the examples    *)
(* with its parts, and requests that cannot be prepared.                   *)
EXTENDS QueueSelection

Shared(types, count) == [kind |-> "shared", types |-> types, count |-> count]
Either(of) == [kind |-> "either", of |-> of]
Split(of)  == [kind |-> "split", of |-> of]

MCTypes == {"COMPUTE", "GRAPHICS", "TRANSFER"}

GT  == Shared(<<"GRAPHICS", "TRANSFER">>, 1)
CT  == Shared(<<"COMPUTE", "TRANSFER">>, 1)
GTC == Shared(<<"GRAPHICS", "TRANSFER", "COMPUTE">>, 1)
T   == Shared(<<"TRANSFER">>, 1)
TT  == Shared(<<"TRANSFER">>, 2)
Standard == Either(<<Split(<<GT, CT>>), GTC, GT>>)
Fallback == Either(<<CT, GT>>)
Twice    == Split(<<T, TT>>)
Nested   == Split(<<Split(<<GT, CT>>), TT>>)

MCRequests == {GT, CT, GTC, T, TT, Standard, Fallback, Twice, Nested, Split(<<GT, CT>>)}

(* Vulkan: a family of graphics or compute queues can transfer.            *)
F(types, count) == [types |-> types, count |-> count]
G1 == F({"GRAPHICS", "TRANSFER"}, 1)
C1 == F({"COMPUTE", "TRANSFER"}, 1)
T1 == F({"TRANSFER"}, 1)
T2 == F({"TRANSFER"}, 2)
A1 == F(MCTypes, 1)
A2 == F(MCTypes, 2)

MCHardware ==
  {<<G1>>, <<A2>>, <<T2>>, <<G1, C1>>, <<C1, G1>>, <<G1, A2>>, <<A1, A2>>, <<A2, A2>>,
   <<T2, A1>>, <<T1, T2>>, <<G1, C1, T2>>, <<T1, A1, T2>>, <<A1, C1, A2>>}
=============================================================================
