---------------------------- MODULE MCWinNTWindow ----------------------------
EXTENDS WinNTWindow

(* A screen that reaches to the left of the primary one, and windows on it *)
(* and partly off it, the last one with its centre.                        *)
MCDesktop == [left |-> -1, right |-> 2]
MCRects == {[left |-> -1, right |-> 1], [left |-> 0, right |-> 3], [left |-> -4, right |-> 0]}
MCNoModifier == [c \in {} |-> "super"]
MCNoCode == [k \in {} |-> "VK_A"]

(* Keys only: the window is the whole screen, and that is one position.    *)
(* The third key has no case of its own, as Shift, Control and Alt have    *)
(* none: messages name these by virtual keys that have no side.            *)
MCOne == [left |-> 0, right |-> 1]
MCOneRect == {MCOne}
MCCode ==
  [k \in {"lwin", "rwin", "a"} |->
     CASE k = "lwin" -> "VK_LWIN" [] k = "rwin" -> "VK_RWIN" [] OTHER -> "VK_A"]
MCModifier == [c \in {"VK_LWIN", "VK_RWIN"} |-> "super"]
=============================================================================
