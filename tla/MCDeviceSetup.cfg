SPECIFICATION SetupSpec
CONSTANTS
  Types <- MCTypes
  Requests <- MCRequests
  Hardware <- MCHardware
  Devices <- MCDevices
  NoId = NoId
  MaxRequests = 1
  Necessary <- MCNecessary
  Preferred <- MCPreferred
  Wanted <- MCWanted
  Capabilities <- MCCapabilities
  RecommendedSoft <- MCRecommendedSoft
  Swapchain = "swapchain"
  Dedicated = "discrete"
  Weights <- MCWeights
  DeviceLists <- MCDeviceLists
  MaxFilters = 4
  MaxScored = 2
INVARIANTS SwapQueueDrawsFrames SetupFailsOnlyIfUnserved
