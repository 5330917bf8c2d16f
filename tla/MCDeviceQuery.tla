--------------------------- MODULE MCDeviceQuery ---------------------------
(* Up to three devices over two capabilities: every list of them, the      *)
(* empty one among them, and up to two scored requests.                    *)
EXTENDS DeviceQuery

MCCapabilities == {"swapchain", "discrete"}
MCWeights == {1, -2}
MCRecommendedSoft == <<"discrete">>

MCDeviceLists == UNION {[1 .. n -> SUBSET Capabilities] : n \in 0 .. 3}
=============================================================================
