SPECIFICATION Spec
CONSTANTS
  Keys = {}
  Codes = {}
  Code <- MCNoCode
  LeftCodes = {}
  Modifier <- MCNoModifier
  Typing = {}
  Desktop <- MCDesktop
  Rects <- MCRects
  Ints = 3
  MaxSent = 2
  MaxPosted = 0
INVARIANTS
  ClipMatches
PROPERTIES
  MotionCounted
  FramesGoOn
CHECK_DEADLOCK FALSE
