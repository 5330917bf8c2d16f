SPECIFICATION Spec
CONSTANTS
  Sizes = {1, 2, 3}
  Surfaces <- AnySurface
  ImageCount = 2
  DriverResults = {"success", "suboptimal", "out_of_date", "lost"}
INVARIANTS
  DestroysIdle
  SemaphoresBalanced
  FenceFresh
  AttachmentsFit
  PresentsAcquired
PROPERTIES
  OneSignal
  LoopGoesOn
  Settles
CHECK_DEADLOCK FALSE
