SPECIFICATION QuerySpec
CONSTANTS
  Capabilities <- MCCapabilities
  RecommendedSoft <- MCRecommendedSoft
  Swapchain = "swapchain"
  Dedicated = "discrete"
  Weights <- MCWeights
  DeviceLists <- MCDeviceLists
  MaxFilters = 3
  MaxScored = 2
INVARIANTS SelectedUndominated SelectedScoresHighest ThrowsOnlyIfNoneMeets
