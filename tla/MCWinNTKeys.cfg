SPECIFICATION Spec
CONSTANTS
  Keys = {"lwin", "rwin", "a"}
  Codes = {"VK_LWIN", "VK_RWIN", "VK_A"}
  Code <- MCCode
  LeftCodes = {"VK_LWIN"}
  Modifier <- MCModifier
  Typing = {"VK_A"}
  Desktop <- MCOne
  Rects <- MCOneRect
  Ints = 1
  MaxSent = 0
  MaxPosted = 2
INVARIANTS
  ModifiersFollowKeys
CHECK_DEADLOCK FALSE
