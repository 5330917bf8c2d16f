SPECIFICATION Spec
CONSTANTS
  Sizes = {1, 2, 3}
  Surfaces <- WideSurface
  ImageCount = 2
  DriverResults = {"success", "suboptimal", "out_of_date", "lost"}
INVARIANTS
  FramePrepared
CHECK_DEADLOCK FALSE
