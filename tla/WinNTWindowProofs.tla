------------------------- MODULE WinNTWindowProofs -------------------------
(***************************************************************************)
(* The types of WinNTWindow, ClipMatches, ModifiersFollowKeys and          *)
(* MotionCounted, for every desktop, every set of client areas and keys, on*)
(* the screen or off it, and any number of notices and key messages on the *)
(* way.                                                                    *)
(***************************************************************************)
EXTENDS WinNTWindow, SequenceTheorems, TLAPS

(* Edge by edge, the client area comes back as it is.                      *)
LEMMA ClipIsRect == rect \in Rects => getClip = rect
BY WindowAssumption DEF getClip, GetClientRect, ClientToScreen, Rect

(* Both halvings give a position.                                          *)
LEMMA HalfIsInt == \A n \in Int : Half(n) \in Int
BY DEF Half

LEMMA WrapIsInt == \A n \in Int : Wrap(n) \in Int
<1>1. Ints \in Nat /\ Ints # 0 /\ Ints \div 2 \in Int
  BY WindowAssumption
<1>2. SUFFICES ASSUME NEW n \in Int PROVE Wrap(n) \in Int
  OBVIOUS
<1>3. n + (Ints \div 2) \in Int
  BY <1>1
<1>4. (n + (Ints \div 2)) % Ints \in Int
  BY <1>1, <1>3
<1>5. QED
  BY <1>1, <1>4 DEF Wrap

(* A cursor that is confined is somewhere.                                 *)
LEMMA ConfinedIsInt == \A c \in Int : \A r \in Rect : Confined(c, r) \in Int
BY DEF Confined, Rect

(* What is seen of an area is an area of the screen with room in it.       *)
LEMMA CutIsArea ==
  ASSUME NEW r \in Rect
  PROVE  /\ Cut(r) \in Rect /\ Cut(r).left \in Int /\ Cut(r).right \in Int
         /\ Cut(r).left < Cut(r).right
         /\ Desktop.left <= Cut(r).left /\ Cut(r).right <= Desktop.right
         /\ Desktop.left \in Int /\ Desktop.right \in Int
<1>1. Desktop \in Rect /\ Desktop.left < Desktop.right
  BY WindowAssumption
<1>2. /\ r.left \in Int /\ r.right \in Int
      /\ Desktop.left \in Int /\ Desktop.right \in Int
  BY <1>1 DEF Rect
<1>3. PICK l \in Int : l = IF r.left < Desktop.left THEN Desktop.left ELSE r.left
  BY <1>2
<1>4. PICK h \in Int : h = IF r.right > Desktop.right THEN Desktop.right ELSE r.right
  BY <1>2
<1>5. Cut(r) = IF l < h THEN [left |-> l, right |-> h] ELSE Desktop
  BY <1>3, <1>4 DEF Cut
<1>6. Desktop.left <= l /\ h <= Desktop.right
  BY <1>2, <1>3, <1>4
<1>7. CASE l < h
  BY <1>2, <1>5, <1>6, <1>7 DEF Rect
<1>8. CASE ~(l < h)
  BY <1>1, <1>2, <1>5, <1>8
<1>9. QED
  BY <1>7, <1>8

(* All of the screen is seen of it.                                        *)
LEMMA CutDesktop == Cut(Desktop) = Desktop
<1>1. /\ Desktop \in Rect /\ Desktop.left \in Int /\ Desktop.right \in Int
      /\ Desktop.left < Desktop.right
  BY WindowAssumption DEF Rect
<1>2. Cut(Desktop) = [left |-> Desktop.left, right |-> Desktop.right]
  BY <1>1 DEF Cut
<1>3. QED
  BY <1>1, <1>2 DEF Rect

(* What the cursor can be clipped to.                                      *)
Clips == {Cut(r) : r \in Rects \cup {Desktop}}

LEMMA ClipsAreAreas ==
  ASSUME NEW a \in Clips
  PROVE  /\ a \in Rect /\ a.left \in Int /\ a.right \in Int /\ a.left < a.right
         /\ Desktop.left <= a.left /\ a.right <= Desktop.right
         /\ Desktop.left \in Int /\ Desktop.right \in Int
<1>1. PICK r \in Rects \cup {Desktop} : a = Cut(r)
  BY DEF Clips
<1>2. r \in Rect
  BY WindowAssumption
<1>3. QED
  BY <1>1, <1>2, CutIsArea

LEMMA DesktopIsClip == Desktop \in Clips
BY CutDesktop DEF Clips

(* The last of what is left once the head is handled.                      *)
LEMMA LastOfTail ==
  ASSUME NEW S, NEW s \in Seq(S), s # <<>>
  PROVE  /\ Tail(s) \in Seq(S)
         /\ Len(s) \in Nat /\ Len(Tail(s)) = Len(s) - 1
         /\ Len(s) > 1 => Tail(s) # <<>> /\ Tail(s)[Len(Tail(s))] = s[Len(s)]
         /\ Len(s) = 1 => Tail(s) = <<>> /\ s[Len(s)] = Head(s)
         /\ Head(s) \in S
<1>1. /\ Tail(s) \in Seq(S) /\ Len(s) \in Nat \ {0} /\ Head(s) = s[1] /\ Head(s) \in S
      /\ Len(Tail(s)) = Len(s) - 1
      /\ \A i \in 1 .. Len(s) - 1 : Tail(s)[i] = s[i + 1]
  OBVIOUS
<1>2. CASE Len(s) > 1
  <2>1. Len(s) - 1 \in 1 .. Len(s) - 1 /\ (Len(s) - 1) + 1 = Len(s)
    BY <1>1, <1>2
  <2>2. Tail(s)[Len(Tail(s))] = s[Len(s)]
    BY <1>1, <2>1
  <2>3. Tail(s) # <<>>
    <3>1. Len(Tail(s)) # 0
      BY <1>1, <1>2
    <3>2. QED
      BY <3>1, EmptySeq
  <2>4. QED
    BY <1>1, <1>2, <2>2, <2>3
<1>3. CASE Len(s) = 1
  <2>1. Len(Tail(s)) = 0
    BY <1>1, <1>3
  <2>2. Tail(s) = <<>>
    BY <1>1, <2>1, EmptySeq
  <2>3. QED
    BY <1>1, <1>3, <2>2
<1>4. QED
  BY <1>1, <1>2, <1>3

(* What was sent last is at the end.                                       *)
LEMMA LastOfAppend ==
  ASSUME NEW S, NEW s \in Seq(S), NEW e \in S
  PROVE  /\ Append(s, e) \in Seq(S)
         /\ Append(s, e) # <<>>
         /\ Append(s, e)[Len(Append(s, e))] = e
OBVIOUS

-----------------------------------------------------------------------------
(* Types *)

(* What the calls of Windows that move cursor and clip leave behind.       *)
LEMMA ClipCursorTypes ==
  ASSUME NEW r \in Rects \cup {Desktop}, NEW c \in Int, NEW pending \in BOOLEAN,
         ClipCursor(r, c, pending)
  PROVE  clip' \in Clips /\ cursor' \in Int /\ moved' \in BOOLEAN
<1>1. Cut(r) \in Clips /\ Cut(r) \in Rect
  BY ClipsAreAreas DEF Clips
<1>2. Confined(c, Cut(r)) \in Int
  BY <1>1, ConfinedIsInt
<1>3. QED
  BY <1>1, <1>2 DEF ClipCursor

(* Clip, cursor and capture have their types.                              *)
CaptureTypes ==
  /\ captureMouse \in BOOLEAN
  /\ clip \in Clips /\ cursor \in Int /\ moved \in BOOLEAN

LEMMA TypesOfCapture == TypeOK => CaptureTypes
BY DEF TypeOK, CaptureTypes, Clips

LEMMA CaptureOrFreeTypes ==
  ASSUME TypeOK, NEW c \in Int, NEW pending \in BOOLEAN,
         Capture(c, pending) \/ Free(c, pending)
  PROVE  CaptureTypes'
<1>1. CASE Capture(c, pending)
  BY <1>1, ClipIsRect, ClipCursorTypes DEF TypeOK, Capture, CaptureTypes
<1>2. CASE Free(c, pending)
  BY <1>2, ClipCursorTypes DEF TypeOK, Free, CaptureTypes
<1>3. QED
  BY <1>1, <1>2

LEMMA ListenTypes ==
  ASSUME TypeOK, NEW c \in Int, NEW pending \in BOOLEAN, Listen(c, pending)
  PROVE  CaptureTypes'
<1>1. CASE Capture(c, pending) \/ Free(c, pending)
  BY <1>1, CaptureOrFreeTypes
<1>2. CASE cursor' = c /\ moved' = pending /\ UNCHANGED <<clip, captureMouse>>
  BY <1>2, TypesOfCapture DEF CaptureTypes
<1>3. QED
  BY <1>1, <1>2 DEF Listen

LEMMA LetGoTypes == TypeOK /\ LetGo => CaptureTypes'
<1> SUFFICES ASSUME TypeOK, LetGo PROVE CaptureTypes'
  OBVIOUS
<1>1. CASE ClipCursor(Desktop, cursor, moved)
  BY <1>1, ClipCursorTypes DEF TypeOK, LetGo, CaptureTypes
<1>2. CASE UNCHANGED <<clip, cursor, moved>>
  BY <1>2, TypesOfCapture DEF LetGo, CaptureTypes
<1>3. QED
  BY <1>1, <1>2 DEF LetGo

LEMMA InitTypes == Init => TypeOK
<1> SUFFICES ASSUME Init PROVE TypeOK
  OBVIOUS
<1>1. msg \in Message /\ pc # "dispatch"
  BY DEF Init, Message, OtherMessage, NoMessage
<1>2. cursor \in Int
  BY WindowAssumption DEF Init, Rect
<1>3. sent \in Seq(Notices) /\ posted \in Seq(KeyMessage)
  BY DEF Init
<1>4. /\ pc = "frame" /\ captureMouse \in BOOLEAN /\ shouldClose \in BOOLEAN
      /\ modsL \subseteq Modifiers /\ modsR \subseteq Modifiers /\ xSum \in Int
      /\ rect \in Rects /\ clip \in Clips
  <2>1. pc = "frame" /\ captureMouse \in BOOLEAN /\ shouldClose \in BOOLEAN
    BY DEF Init
  <2>2. modsL \subseteq Modifiers /\ modsR \subseteq Modifiers
    BY DEF Init
  <2>3. rect \in Rects /\ clip \in Clips
    BY DesktopIsClip DEF Init
  <2>4. xSum \in Int
    BY DEF Init
  <2>5. QED
    BY <2>1, <2>2, <2>3, <2>4
<1>5. /\ focused \in BOOLEAN /\ open \in BOOLEAN
      /\ held \subseteq Keys /\ unseen \subseteq Cased
      /\ aside \in BOOLEAN /\ moved \in BOOLEAN /\ typed \in BOOLEAN
      /\ menu \in BOOLEAN /\ closing \in BOOLEAN /\ painting \in BOOLEAN
  BY DEF Init
<1>6. QED
  BY <1>1, <1>2, <1>3, <1>4, <1>5 DEF TypeOK, Clips

(* Every message PeekMessage returns is one.                               *)
LEMMA PeekTypes == TypeOK /\ Peek => TypeOK'
<1> SUFFICES ASSUME TypeOK, Peek PROVE TypeOK'
  OBVIOUS
<1>1. /\ pc' = "dispatch"
      /\ UNCHANGED <<captureMouse, shouldClose, modsL, modsR, xSum, rect, clip, cursor, aside,
                     focused, open, held, unseen, sent>>
  BY DEF Peek, fields, screen, keyboard
<1> DEFINE Types ==
      /\ msg' \in Message /\ msg'.kind # "none"
      /\ posted' \in Seq(KeyMessage)
      /\ moved' \in BOOLEAN /\ typed' \in BOOLEAN
      /\ menu' \in BOOLEAN /\ closing' \in BOOLEAN /\ painting' \in BOOLEAN
<1>2. CASE posted # <<>> /\ msg' = Head(posted) /\ posted' = Tail(posted)
           /\ typed' = (msg'.kind = "WM_KEYDOWN" /\ msg'.code \in Typing)
           /\ UNCHANGED <<moved, requests>>
  <2>1. Head(posted) \in KeyMessage /\ Tail(posted) \in Seq(KeyMessage)
    BY <1>2 DEF TypeOK
  <2>2. Head(posted).kind # "none"
    BY <2>1 DEF KeyMessage, KeyKinds
  <2>3. typed' \in BOOLEAN
    BY <1>2
  <2>4. Types
    BY <1>2, <2>1, <2>2, <2>3 DEF TypeOK, Message, requests
  <2>5. QED
    BY <1>1, <2>4 DEF TypeOK
<1>3. CASE /\ msg' = [kind |-> "WM_MOUSEMOVE", x |-> cursor - rect.left, aside |-> aside]
           /\ moved' = FALSE
           /\ UNCHANGED <<posted, typed, requests>>
  <2>1. cursor - rect.left \in Int
    BY WindowAssumption DEF TypeOK, Rect
  <2>2. msg' \in MoveMessage /\ msg'.kind # "none"
    BY <1>3, <2>1 DEF TypeOK, MoveMessage
  <2>3. Types
    BY <1>3, <2>2 DEF TypeOK, Message, requests
  <2>4. QED
    BY <1>1, <2>3 DEF TypeOK
<1>4. ASSUME NEW k \in {"WM_CHAR", "WM_SYSCOMMAND", "WM_CLOSE", "WM_PAINT"},
             msg' = [kind |-> k], UNCHANGED posted,
             moved' \in BOOLEAN, typed' \in BOOLEAN,
             menu' \in BOOLEAN, closing' \in BOOLEAN, painting' \in BOOLEAN
      PROVE  TypeOK'
  <2>1. msg' \in OtherMessage /\ msg'.kind # "none"
    BY <1>4 DEF OtherMessage
  <2>2. Types
    BY <1>4, <2>1 DEF TypeOK, Message
  <2>3. QED
    BY <1>1, <2>2 DEF TypeOK
<1>5. CASE msg' = [kind |-> "WM_CHAR"] /\ typed' = FALSE /\ UNCHANGED <<posted, moved, requests>>
  BY <1>4, <1>5 DEF TypeOK, requests
<1>6. CASE /\ msg' = [kind |-> "WM_SYSCOMMAND"] /\ menu' = FALSE
           /\ UNCHANGED <<posted, moved, typed, closing, painting>>
  BY <1>4, <1>6 DEF TypeOK
<1>7. CASE /\ msg' = [kind |-> "WM_CLOSE"] /\ closing' = FALSE
           /\ UNCHANGED <<posted, moved, typed, menu, painting>>
  BY <1>4, <1>7 DEF TypeOK
<1>8. CASE /\ msg' = [kind |-> "WM_PAINT"] /\ painting' = FALSE
           /\ UNCHANGED <<posted, moved, typed, menu, closing>>
  BY <1>4, <1>8 DEF TypeOK
<1>9. QED
  BY <1>2, <1>3, <1>5, <1>6, <1>7, <1>8 DEF Peek

(* Where a captured mouse is put back to.                                  *)
LEMMA CentreTypes ==
  TypeOK => /\ getClip = rect /\ rect \in Rect /\ rect.left \in Int /\ rect.right \in Int
            /\ cCentX(getClip) \in Int /\ centerX(getClip) \in Int
<1> SUFFICES ASSUME TypeOK
             PROVE  /\ getClip = rect /\ rect \in Rect /\ rect.left \in Int /\ rect.right \in Int
                    /\ cCentX(getClip) \in Int /\ centerX(getClip) \in Int
  OBVIOUS
<1>1. getClip = rect /\ rect \in Rect /\ rect.left \in Int /\ rect.right \in Int
  BY ClipIsRect, WindowAssumption DEF TypeOK, Rect
<1>2. rect.right - rect.left \in Int /\ rect.right + rect.left \in Int
  BY <1>1
<1>3. QED
  BY <1>1, <1>2, HalfIsInt DEF cCentX, centerX

LEMMA SetCursorPosTypes ==
  ASSUME TypeOK, NEW c \in Int, SetCursorPos(c)
  PROVE  CaptureTypes' /\ aside' \in BOOLEAN
<1>1. Confined(c, clip) \in Int
  BY TypesOfCapture, ClipsAreAreas, ConfinedIsInt DEF CaptureTypes
<1>2. PICK reported \in BOOLEAN : Listen(Confined(c, clip), reported)
  BY DEF SetCursorPos, TypeOK
<1>3. QED
  BY <1>1, <1>2, ListenTypes DEF SetCursorPos

LEMMA MouseMoveTypes ==
  ASSUME TypeOK, NEW x \in Int, NEW otherAxis, mouseMove(x, otherAxis)
  PROVE  CaptureTypes' /\ aside' \in BOOLEAN /\ xSum' \in Int
<1>1. CASE xSum' = Wrap(xSum + x - cCentX(getClip)) /\ SetCursorPos(centerX(getClip))
  <2>1. xSum + x - cCentX(getClip) \in Int
    BY CentreTypes DEF TypeOK
  <2>2. QED
    BY <1>1, <2>1, WrapIsInt, CentreTypes, SetCursorPosTypes
<1>2. CASE UNCHANGED <<xSum, clip, cursor, aside, moved, captureMouse>>
  BY <1>2, TypesOfCapture DEF CaptureTypes, TypeOK
<1>3. CASE Listen(cursor, moved) /\ UNCHANGED <<xSum, aside>>
  BY <1>3, ListenTypes DEF TypeOK
<1>4. QED
  BY <1>1, <1>2, <1>3 DEF mouseMove

(* The procedure keeps what it changes in its type.                        *)
LEMMA DispatchTypes == TypeOK /\ Dispatch => TypeOK'
<1> SUFFICES ASSUME TypeOK, Dispatch PROVE TypeOK'
  OBVIOUS
<1>1. /\ pc' \in {"pump", "modal", "present"} /\ msg' = NoMessage
      /\ UNCHANGED <<rect, held, unseen>>
  BY DEF Dispatch, keyboard
<1>2. msg' \in Message
  BY <1>1 DEF Message, OtherMessage, NoMessage
<1>3. CASE /\ msg.kind = "WM_MOUSEMOVE" /\ mouseMove(msg.x, msg.aside)
           /\ UNCHANGED <<shouldClose, modsL, modsR, focused, open, sent, posted, typed, requests>>
  <2>1. msg.x \in Int
    BY <1>3 DEF TypeOK, Message, KeyMessage, KeyKinds, MoveMessage, OtherMessage
  <2>2. CaptureTypes' /\ aside' \in BOOLEAN /\ xSum' \in Int
    BY <1>3, <2>1, MouseMoveTypes
  <2>3. QED
    BY <1>1, <1>2, <1>3, <2>2 DEF TypeOK, CaptureTypes, Clips, requests
<1>4. CASE /\ \/ msg.kind = "WM_KEYDOWN" /\ keyDown(msg.code)
              \/ msg.kind = "WM_KEYUP" /\ keyUp(msg.code)
              \/ msg.kind = "WM_CHAR" /\ UNCHANGED <<modsL, modsR>>
           /\ Listen(cursor, moved)
           /\ UNCHANGED <<shouldClose, xSum, aside, focused, open, sent, posted, typed, requests>>
  <2>1. ModifiersOf(msg.code) \subseteq Modifiers
    BY DEF ModifiersOf, Modifiers
  <2>2. modsL' \subseteq Modifiers /\ modsR' \subseteq Modifiers
    BY <1>4, <2>1 DEF keyDown, keyUp, TypeOK
  <2>3. CaptureTypes'
    BY <1>4, ListenTypes DEF TypeOK
  <2>4. QED
    BY <1>1, <1>2, <1>4, <2>2, <2>3 DEF TypeOK, CaptureTypes, Clips, requests
<1>5. CASE /\ msg.kind = "WM_CLOSE" /\ close
           /\ UNCHANGED <<captureMouse, modsL, modsR, xSum, cursor, aside>>
  <2>1. /\ shouldClose' \in BOOLEAN /\ open' \in BOOLEAN /\ focused' \in BOOLEAN
        /\ moved' \in BOOLEAN /\ typed' \in BOOLEAN
        /\ menu' \in BOOLEAN /\ closing' \in BOOLEAN /\ painting' \in BOOLEAN
    BY <1>5 DEF TypeOK, close
  <2>2. clip' \in Clips
    BY <1>5, DesktopIsClip, TypesOfCapture DEF close, CaptureTypes
  <2>3. sent' \in Seq(Notices) /\ posted' \in Seq(KeyMessage)
    BY <1>5 DEF close
  <2>4. QED
    BY <1>1, <1>2, <1>5, <2>1, <2>2, <2>3 DEF TypeOK, Clips
<1>6. CASE UNCHANGED <<fields, clip, cursor, aside, focused, open, queue>>
  BY <1>1, <1>2, <1>6 DEF TypeOK, fields, queue, requests
<1>7. QED
  BY <1>3, <1>4, <1>5, <1>6 DEF Dispatch

(* So do the user and the system.                                          *)
LEMMA EnvironmentTypes == TypeOK /\ Environment => TypeOK'
<1> SUFFICES ASSUME TypeOK, Environment PROVE TypeOK'
  OBVIOUS
<1>1. UNCHANGED <<msg, captureMouse, shouldClose, modsL, modsR, xSum, open>>
  BY DEF Environment, fields
<1>2. {"WM_SIZE", "WM_CAPTURECHANGED", "WM_KILLFOCUS", "WM_SETFOCUS"} \subseteq Notices
  BY DEF Notices, Confirming
<1>3. CASE MoveCursor
  <2>1. clip.left \in Int /\ clip.right - 1 \in Int
    BY TypesOfCapture, ClipsAreAreas DEF CaptureTypes
  <2>2. cursor' \in Int /\ aside' \in BOOLEAN
    BY <1>3, <2>1 DEF MoveCursor
  <2>3. QED
    BY <1>1, <1>3, <2>2 DEF MoveCursor, TypeOK, keyboard, requests
<1>4. CASE MoveWindow
  <2>1. sent' \in Seq(Notices)
    BY <1>2, <1>4, LastOfAppend DEF MoveWindow, TypeOK
  <2>2. rect' \in Rects /\ aside' \in BOOLEAN /\ moved' \in BOOLEAN
    BY <1>4 DEF MoveWindow, TypeOK
  <2>3. clip' \in Clips
    BY <1>4, DesktopIsClip, TypesOfCapture DEF MoveWindow, CaptureTypes
  <2>4. QED
    BY <1>1, <1>4, <2>1, <2>2, <2>3 DEF MoveWindow, TypeOK, Clips, keyboard, requests
<1>5. CASE TakeCapture
  <2>1. sent' \in Seq(Notices)
    BY <1>2, <1>5, LastOfAppend DEF TakeCapture, TypeOK
  <2>2. clip' \in Clips
    BY <1>5, DesktopIsClip DEF TakeCapture
  <2>3. QED
    BY <1>1, <1>5, <2>1, <2>2 DEF TakeCapture, TypeOK, Clips, keyboard, requests
<1>6. CASE LoseFocus
  <2>1. sent' \in Seq(Notices)
    BY <1>2, <1>6, LastOfAppend DEF LoseFocus, TypeOK
  <2>2. clip' \in Clips
    BY <1>6, DesktopIsClip DEF LoseFocus
  <2>3. QED
    BY <1>1, <1>6, <2>1, <2>2 DEF LoseFocus, TypeOK, Clips, keyboard, requests
<1>7. CASE GainFocus
  BY <1>1, <1>2, <1>7, LastOfAppend DEF GainFocus, TypeOK, keyboard, requests
<1>8. ASSUME NEW k \in Keys, ChangeKey(k) PROVE TypeOK'
  <2>1. held' \subseteq Keys /\ unseen' \subseteq Cased
    BY <1>8 DEF ChangeKey, Toggled, TypeOK
  <2>2. posted' \in Seq(KeyMessage)
    <3>1. Code[k] \in Codes
      BY WindowAssumption
    <3>2. [kind |-> IF k \in held THEN "WM_KEYUP" ELSE "WM_KEYDOWN", code |-> Code[k]]
            \in KeyMessage
      BY <3>1 DEF KeyMessage, KeyKinds
    <3>3. QED
      BY <1>8, <3>2, LastOfAppend DEF ChangeKey, TypeOK
  <2>3. QED
    BY <1>1, <1>8, <2>1, <2>2 DEF ChangeKey, TypeOK, requests
<1>9. ASSUME NEW k \in Keys, ChangeKeyUnseen(k) PROVE TypeOK'
  BY <1>1, <1>9 DEF ChangeKeyUnseen, Toggled, TypeOK, queue, requests
<1>10. CASE KeepKey
  <2>1. posted' \in Seq(KeyMessage) /\ unseen' \subseteq Cased
    BY <1>10 DEF KeepKey, TypeOK
  <2>2. QED
    BY <1>1, <1>10, <2>1 DEF KeepKey, TypeOK, requests
<1>11. CASE LeaveModal
  BY <1>1, <1>11 DEF LeaveModal, TypeOK, queue, keyboard, requests
<1>12. CASE Request
  <2>1. menu' \in BOOLEAN /\ closing' \in BOOLEAN /\ painting' \in BOOLEAN
    BY <1>12 DEF Request, TypeOK
  <2>2. QED
    BY <1>1, <1>12, <2>1 DEF Request, TypeOK, keyboard
<1>13. QED
  BY <1>3, <1>4, <1>5, <1>6, <1>7, <1>8, <1>9, <1>10, <1>11, <1>12 DEF Environment

LEMMA NextTypes == TypeOK /\ [Next]_vars => TypeOK'
<1> SUFFICES ASSUME TypeOK, [Next]_vars PROVE TypeOK'
  OBVIOUS
<1>1. CASE CaptureOrFree
  <2>1. CaptureTypes'
    BY <1>1, CaptureOrFreeTypes DEF CaptureOrFree, TypeOK
  <2>2. QED
    BY <1>1, <2>1 DEF CaptureOrFree, TypeOK, CaptureTypes, Clips, keyboard, requests
<1>2. CASE swapAndPollSize
  BY <1>2 DEF swapAndPollSize, TypeOK, fields, screen, queue, keyboard, requests
<1>3. CASE HandleSent
  <2>1. CaptureTypes'
    <3>1. CASE Capture(cursor, moved)
      BY <3>1, CaptureOrFreeTypes DEF TypeOK
    <3>2. CASE LetGo
      BY <3>2, LetGoTypes
    <3>3. CASE UNCHANGED <<clip, cursor, moved, captureMouse>>
      BY <3>3, TypesOfCapture DEF CaptureTypes
    <3>4. QED
      BY <1>3, <3>1, <3>2, <3>3 DEF HandleSent, ConfirmCapture
  <2>2. sent' \in Seq(Notices)
    BY <1>3, LastOfTail DEF HandleSent, TypeOK
  <2>3. QED
    BY <1>3, <2>1, <2>2 DEF HandleSent, TypeOK, CaptureTypes, Clips, keyboard, requests
<1>4. CASE Peek
  BY <1>4, PeekTypes
<1>5. CASE PeekNothing
  BY <1>5 DEF PeekNothing, TypeOK, fields, screen, queue, keyboard, requests
<1>6. CASE Dispatch
  BY <1>6, DispatchTypes
<1>7. CASE Present
  BY <1>7 DEF Present, TypeOK, fields, screen, queue, keyboard, requests
<1>8. CASE Environment
  BY <1>8, EnvironmentTypes
<1>9. CASE UNCHANGED vars
  BY <1>9 DEF vars, TypeOK, fields, screen, queue, keyboard, requests
<1>10. QED
  BY <1>1, <1>2, <1>3, <1>4, <1>5, <1>6, <1>7, <1>8, <1>9 DEF Next, Program

(* Type correctness of window, queue and keyboard.                         *)
THEOREM TypeCorrect == Spec => []TypeOK
BY InitTypes, NextTypes, PTL DEF Spec

-----------------------------------------------------------------------------
(* The clip *)

LastSent == sent[Len(sent)]

(* A clip that is not the window's while the mouse is captured is put right*)
(* by a notice on the way, and no loss of the focus comes after it: a      *)
(* window that has the focus was told so after it was told it had lost it. *)
ClipInv ==
  /\ ~captureMouse => clip = Desktop
  /\ focused /\ sent # <<>> => LastSent # "WM_KILLFOCUS"
  /\ captureMouse /\ open /\ focused /\ clip # Cut(rect) => sent # <<>>

LEMMA InitClip == Init => ClipInv
BY DEF Init, ClipInv

(* captureMouse and freeMouse put it right at once, whatever the cursor.   *)
LEMMA ListenKeepsClip ==
  ASSUME TypeOK, ClipInv, NEW c, NEW pending, Listen(c, pending),
         UNCHANGED <<rect, open, focused, sent>>
  PROVE  ClipInv'
<1>1. CASE Capture(c, pending)
  <2>1. clip' = Cut(rect') /\ captureMouse'
    BY <1>1, ClipIsRect DEF TypeOK, Capture, ClipCursor
  <2>2. QED
    BY <2>1 DEF ClipInv, LastSent
<1>2. CASE Free(c, pending)
  <2>1. clip' = Desktop /\ ~captureMouse'
    BY <1>2, CutDesktop DEF Free, ClipCursor
  <2>2. QED
    BY <2>1 DEF ClipInv, LastSent
<1>3. CASE UNCHANGED <<clip, captureMouse>>
  BY <1>3 DEF ClipInv, LastSent
<1>4. QED
  BY <1>1, <1>2, <1>3 DEF Listen

LEMMA MouseMoveKeepsClip ==
  ASSUME TypeOK, ClipInv, NEW x, NEW otherAxis, mouseMove(x, otherAxis),
         UNCHANGED <<rect, open, focused, sent>>
  PROVE  ClipInv'
<1>1. CASE \E c : SetCursorPos(c)
  <2>1. PICK c, pending : Listen(c, pending)
    BY <1>1 DEF SetCursorPos
  <2>2. QED
    BY <2>1, ListenKeepsClip
<1>2. CASE UNCHANGED <<clip, captureMouse>>
  BY <1>2 DEF ClipInv, LastSent
<1>3. CASE Listen(cursor, moved)
  BY <1>3, ListenKeepsClip
<1>4. QED
  BY <1>1, <1>2, <1>3 DEF mouseMove

(* The last notice handled confirms the capture, or the focus is lost.     *)
LEMMA HandleSentKeepsClip ==
  ASSUME TypeOK, ClipInv, HandleSent
  PROVE  ClipInv'
<1>1. sent \in Seq(Notices) /\ sent # <<>> /\ sent' = Tail(sent) /\ UNCHANGED <<rect, open, focused>>
  BY DEF TypeOK, HandleSent
<1>2. /\ Len(sent) \in Nat
      /\ Len(sent) > 1 => sent' # <<>> /\ LastSent' = LastSent
      /\ Len(sent) = 1 => sent' = <<>> /\ LastSent = Head(sent)
      /\ Head(sent) \in Notices
      /\ Len(sent) # 0
  BY <1>1, LastOfTail, EmptySeq DEF LastSent
<1>3. focused' /\ sent' # <<>> => LastSent' # "WM_KILLFOCUS"
  BY <1>1, <1>2 DEF ClipInv
<1>4. CASE Head(sent) \in Confirming
  <2>1. CASE captureMouse
    <3>1. clip' = Cut(rect') /\ captureMouse'
      BY <1>1, <1>4, <2>1, ClipIsRect DEF TypeOK, HandleSent, ConfirmCapture, Capture, ClipCursor
    <3>2. QED
      BY <1>3, <3>1 DEF ClipInv
  <2>2. CASE ~captureMouse
    <3>1. clip' = clip /\ captureMouse' = captureMouse
      BY <1>4, <2>2 DEF HandleSent, ConfirmCapture
    <3>2. QED
      BY <1>3, <2>2, <3>1 DEF ClipInv
  <2>3. QED
    BY <2>1, <2>2
<1>5. CASE Head(sent) \notin Confirming
  <2>1. Head(sent) = "WM_KILLFOCUS"
    BY <1>2, <1>5 DEF Notices
  <2>2. /\ captureMouse' = captureMouse
        /\ ~captureMouse => clip' = clip
    BY <1>5 DEF HandleSent, LetGo
  <2>3. ASSUME focused PROVE sent' # <<>>
    <3>1. LastSent # Head(sent)
      BY <1>1, <2>1, <2>3 DEF ClipInv
    <3>2. Len(sent) # 1
      BY <1>2, <3>1
    <3>3. PICK n \in Nat : n = Len(sent)
      BY <1>2
    <3>4. n > 1
      BY <1>2, <3>2, <3>3
    <3>5. QED
      BY <1>2, <3>3, <3>4
  <2>4. QED
    BY <1>1, <1>3, <2>2, <2>3 DEF ClipInv
<1>6. QED
  BY <1>4, <1>5

(* Windows tells the program of all that makes the clip wrong.             *)
LEMMA EnvironmentKeepsClip ==
  ASSUME TypeOK, ClipInv, Environment
  PROVE  ClipInv'
<1>1. UNCHANGED <<captureMouse, open>>
  BY DEF Environment, fields
<1>2. sent \in Seq(Notices) /\ {"WM_SIZE", "WM_CAPTURECHANGED", "WM_SETFOCUS"} \subseteq Notices
  BY DEF TypeOK, Notices, Confirming
<1>3. CASE MoveWindow
  <2>1. sent' # <<>> /\ LastSent' = "WM_SIZE"
    BY <1>2, <1>3, LastOfAppend DEF MoveWindow, LastSent
  <2>2. ~captureMouse => clip' = Desktop
    BY <1>3 DEF MoveWindow, ClipInv
  <2>3. QED
    BY <1>1, <2>1, <2>2 DEF ClipInv
<1>4. CASE TakeCapture
  <2>1. sent' # <<>> /\ LastSent' = "WM_CAPTURECHANGED"
    BY <1>2, <1>4, LastOfAppend DEF TakeCapture, LastSent
  <2>2. clip' = Desktop
    BY <1>4 DEF TakeCapture
  <2>3. QED
    BY <1>1, <2>1, <2>2 DEF ClipInv
<1>5. CASE LoseFocus
  BY <1>1, <1>5 DEF LoseFocus, ClipInv
<1>6. CASE GainFocus
  <2>1. sent' # <<>> /\ LastSent' = "WM_SETFOCUS"
    BY <1>2, <1>6, LastOfAppend DEF GainFocus, LastSent
  <2>2. clip' = clip
    BY <1>6 DEF GainFocus
  <2>3. QED
    BY <1>1, <2>1, <2>2 DEF ClipInv
<1>7. CASE MoveCursor \/ KeepKey \/ LeaveModal \/ Request
           \/ \E k \in Keys : ChangeKey(k) \/ ChangeKeyUnseen(k)
  <2>1. UNCHANGED <<rect, clip, focused, sent>>
    BY <1>7 DEF MoveCursor, KeepKey, LeaveModal, Request, ChangeKey, ChangeKeyUnseen, queue
  <2>2. QED
    BY <1>1, <2>1 DEF ClipInv, LastSent
<1>8. QED
  BY <1>3, <1>4, <1>5, <1>6, <1>7 DEF Environment

LEMMA NextKeepsClip == TypeOK /\ ClipInv /\ [Next]_vars => ClipInv'
<1> SUFFICES ASSUME TypeOK, ClipInv, [Next]_vars PROVE ClipInv'
  OBVIOUS
<1>1. CASE CaptureOrFree
  BY <1>1, ListenKeepsClip DEF CaptureOrFree, Listen
<1>2. CASE swapAndPollSize \/ PeekNothing \/ Present \/ UNCHANGED vars
  <2>1. UNCHANGED <<captureMouse, rect, clip, focused, open, sent>>
    BY <1>2 DEF swapAndPollSize, PeekNothing, Present, vars, fields, screen, queue
  <2>2. QED
    BY <2>1 DEF ClipInv, LastSent
<1>3. CASE HandleSent
  BY <1>3, HandleSentKeepsClip
<1>4. CASE Peek
  <2>1. UNCHANGED <<captureMouse, rect, clip, focused, open, sent>>
    BY <1>4 DEF Peek, fields, screen
  <2>2. QED
    BY <2>1 DEF ClipInv, LastSent
<1>5. CASE Dispatch
  <2>1. rect' = rect
    BY <1>5 DEF Dispatch
  <2>2. CASE UNCHANGED <<captureMouse, clip, focused, open, sent>>
    BY <2>1, <2>2 DEF ClipInv, LastSent
  <2>3. CASE Listen(cursor, moved) /\ UNCHANGED <<focused, open, sent>>
    BY <2>1, <2>3, ListenKeepsClip
  <2>4. CASE close /\ UNCHANGED captureMouse
    <3>1. ~open' /\ ~focused' /\ clip' \in {clip, Desktop}
      BY <2>4 DEF close
    <3>2. QED
      BY <2>4, <3>1 DEF ClipInv
  <2>5. CASE mouseMove(msg.x, msg.aside) /\ UNCHANGED <<focused, open, sent>>
    BY <2>1, <2>5, MouseMoveKeepsClip
  <2>6. QED
    BY <1>5, <2>2, <2>3, <2>4, <2>5 DEF Dispatch, fields, queue
<1>6. CASE Environment
  BY <1>6, EnvironmentKeepsClip
<1>7. QED
  BY <1>1, <1>2, <1>3, <1>4, <1>5, <1>6 DEF Next, Program

(* The cursor is clipped to the window if and only if the mouse is captured*)
(* as soon as the notices on the way are handled, however many there are   *)
(* and wherever the window goes.                                           *)
THEOREM ClipAlwaysMatches == Spec => []ClipMatches
<1>1. ClipInv => ClipMatches
  BY DEF ClipInv, ClipMatches
<1>2. TypeOK /\ ClipInv /\ [Next]_vars => TypeOK' /\ ClipInv'
  BY NextTypes, NextKeepsClip
<1>3. QED
  BY <1>1, <1>2, InitTypes, InitClip, PTL DEF Spec

-----------------------------------------------------------------------------
(* Modifiers *)

(* The modifier of k is set on the side of k.                              *)
Told(k) == Modifier[Code[k]] \in (IF Code[k] \in LeftCodes THEN modsL ELSE modsR)

(* No message after the i-th posted one is for k.                          *)
NoneAfter(k, i) == \A j \in 1 .. Len(posted) : j > i => posted[j].code # Code[k]

(* The last message under way for k tells what k is now, and when there is *)
(* none the modifier is right: all that an earlier message does is undone. *)
KeyInv(k) ==
  \/ k \in unseen
  \/ /\ \A i \in 1 .. Len(posted) :
          posted[i].code = Code[k] /\ NoneAfter(k, i) => (posted[i].kind = "WM_KEYDOWN" <=> k \in held)
     /\ NoneAfter(k, 0) =>
          IF Dispatching(k) THEN msg.kind = "WM_KEYDOWN" <=> k \in held
                            ELSE k \in held <=> Told(k)

KeysInv == open => \A k \in Cased : KeyInv(k)

LEMMA InitKeys == Init => KeysInv
<1> SUFFICES ASSUME Init, NEW k \in Cased PROVE KeyInv(k)
  BY DEF KeysInv
<1>1. Len(posted) = 0 /\ k \notin held /\ ~Dispatching(k) /\ ~Told(k)
  BY EmptySeq DEF Init, Dispatching, Told
<1>2. 1 .. Len(posted) = {}
  BY <1>1
<1>3. QED
  BY <1>1, <1>2 DEF KeyInv

LEMMA KeysGiveModifiers == TypeOK /\ KeysInv => ModifiersFollowKeys
<1> SUFFICES ASSUME TypeOK, open, NEW k \in Cased, KeyInv(k),
                    k \notin unseen, MessagesFor(k) = {}, ~Dispatching(k)
             PROVE  k \in held <=> Told(k)
  BY DEF KeysInv, ModifiersFollowKeys, Told
<1>1. DOMAIN posted = 1 .. Len(posted)
  BY DEF TypeOK
<1>2. NoneAfter(k, 0)
  BY <1>1 DEF NoneAfter, MessagesFor
<1>3. QED
  BY <1>2 DEF KeyInv

(* A step that leaves keys, messages and modifiers alone.                  *)
LEMMA KeysUntouched ==
  ASSUME KeysInv, UNCHANGED <<open, held, unseen, posted, modsL, modsR>>,
         \A k \in Cased : ~Dispatching(k) /\ ~Dispatching(k)'
  PROVE  KeysInv'
BY DEF KeysInv, KeyInv, NoneAfter, Told

(* The first message is taken from those that are posted.                  *)
LEMMA TailOfPosted ==
  ASSUME TypeOK, posted # <<>>, posted' = Tail(posted)
  PROVE  /\ posted \in Seq(KeyMessage) /\ Len(posted) \in Nat \ {0}
         /\ posted[1] \in KeyMessage /\ Head(posted) = posted[1]
         /\ Len(posted') = Len(posted) - 1
         /\ \A i \in 1 .. Len(posted') : i + 1 \in 1 .. Len(posted) /\ posted'[i] = posted[i + 1]
         /\ \A k : \A i \in 0 .. Len(posted') : NoneAfter(k, i)' => NoneAfter(k, i + 1)
<1>1. /\ posted \in Seq(KeyMessage) /\ Len(posted) \in Nat \ {0}
      /\ posted[1] \in KeyMessage /\ Head(posted) = posted[1]
      /\ Len(posted') = Len(posted) - 1
      /\ \A i \in 1 .. Len(posted') : i + 1 \in 1 .. Len(posted) /\ posted'[i] = posted[i + 1]
  BY DEF TypeOK
<1>2. ASSUME NEW k, NEW i \in 0 .. Len(posted'), NoneAfter(k, i)' PROVE NoneAfter(k, i + 1)
  <2>1. SUFFICES ASSUME NEW j \in 1 .. Len(posted), j > i + 1 PROVE posted[j].code # Code[k]
    BY DEF NoneAfter
  <2>2. j - 1 \in 1 .. Len(posted') /\ j - 1 > i /\ (j - 1) + 1 = j
    BY <1>1, <2>1
  <2>3. posted'[j - 1].code # Code[k]
    BY <1>2, <2>2 DEF NoneAfter
  <2>4. QED
    BY <1>1, <2>2, <2>3
<1>3. QED
  BY <1>1, <1>2

(* What is left of the messages still tells what k is now.                 *)
LEMMA TailTells ==
  ASSUME TypeOK, posted # <<>>, posted' = Tail(posted), held' = held,
         NEW k \in Cased, k \notin unseen, KeyInv(k),
         NEW i \in 1 .. Len(posted'), posted'[i].code = Code[k], NoneAfter(k, i)'
  PROVE  posted'[i].kind = "WM_KEYDOWN" <=> k \in held'
<1>1. i \in 0 .. Len(posted') /\ i + 1 \in 1 .. Len(posted) /\ posted'[i] = posted[i + 1]
  BY TailOfPosted
<1>2. NoneAfter(k, i + 1)
  BY <1>1, TailOfPosted
<1>3. QED
  BY <1>1, <1>2 DEF KeyInv

LEMMA PeekKeepsKeys ==
  ASSUME TypeOK, KeysInv, Peek
  PROVE  KeysInv'
<1>1. /\ pc = "pump" /\ pc' = "dispatch"
      /\ UNCHANGED <<open, held, unseen, modsL, modsR>>
  BY DEF Peek, fields, screen, keyboard
<1>2. CASE posted # <<>> /\ msg' = Head(posted) /\ posted' = Tail(posted)
  <2>1. /\ posted \in Seq(KeyMessage) /\ Len(posted) \in Nat \ {0}
        /\ posted[1] \in KeyMessage /\ msg' = posted[1]
        /\ Len(posted') = Len(posted) - 1
        /\ 1 \in 1 .. Len(posted) /\ 0 \in 0 .. Len(posted')
    BY <1>2, TailOfPosted
  <2>2. SUFFICES ASSUME open, NEW k \in Cased, k \notin unseen PROVE KeyInv(k)'
    BY <1>1 DEF KeysInv, KeyInv
  <2>3. ~Dispatching(k) /\ (Dispatching(k)' <=> posted[1].code = Code[k])
    BY <1>1, <2>1 DEF Dispatching, KeyMessage
  <2>4. KeyInv(k)
    BY <2>2 DEF KeysInv
  <2>5. NoneAfter(k, 0)' => NoneAfter(k, 1)
    BY <1>2, <2>1, TailOfPosted
  <2>6. \A i \in 1 .. Len(posted') : posted'[i].code = Code[k] /\ NoneAfter(k, i)' =>
          (posted'[i].kind = "WM_KEYDOWN" <=> k \in held')
    BY <1>1, <1>2, <2>2, <2>4, TailTells
  <2>7. CASE posted[1].code = Code[k]
    <3>1. NoneAfter(k, 0)' => (msg'.kind = "WM_KEYDOWN" <=> k \in held')
      BY <1>1, <2>1, <2>2, <2>4, <2>5, <2>7 DEF KeyInv
    <3>2. QED
      BY <2>3, <2>6, <2>7, <3>1 DEF KeyInv
  <2>8. CASE posted[1].code # Code[k]
    <3>1. NoneAfter(k, 0)' => NoneAfter(k, 0)
      BY <2>1, <2>5, <2>8 DEF NoneAfter
    <3>2. Told(k)' <=> Told(k)
      BY <1>1 DEF Told
    <3>3. NoneAfter(k, 0)' => (k \in held' <=> Told(k)')
      BY <1>1, <2>2, <2>3, <2>4, <3>1, <3>2 DEF KeyInv
    <3>4. QED
      BY <2>3, <2>6, <2>8, <3>3 DEF KeyInv
  <2>9. QED
    BY <2>7, <2>8
<1>3. CASE posted' = posted /\ msg'.kind \notin KeyKinds
  BY <1>1, <1>3, KeysUntouched DEF Dispatching
<1>4. QED
  BY <1>2, <1>3 DEF Peek, KeyKinds

(* One key's message changes no modifier of another key.                   *)
LEMMA OthersKeepModifier ==
  ASSUME NEW k \in Cased, NEW c \in Codes, c # Code[k], keyDown(c) \/ keyUp(c)
  PROVE  Told(k)' <=> Told(k)
<1>1. (Code[k] \in LeftCodes <=> c \in LeftCodes) => Modifier[Code[k]] \notin ModifiersOf(c)
  BY SidesApart DEF ModifiersOf, Cased
<1>2. CASE Code[k] \in LeftCodes
  BY <1>1, <1>2 DEF keyDown, keyUp, Told
<1>3. CASE Code[k] \notin LeftCodes
  BY <1>1, <1>3 DEF keyDown, keyUp, Told
<1>4. QED
  BY <1>2, <1>3

LEMMA DispatchKeepsKeys ==
  ASSUME TypeOK, KeysInv, Dispatch
  PROVE  KeysInv'
<1>1. pc = "dispatch" /\ pc' \in {"pump", "modal", "present"} /\ UNCHANGED <<held, unseen>>
  BY DEF Dispatch, keyboard
<1>2. CASE msg.kind = "WM_CLOSE" /\ close
  BY <1>2 DEF close, KeysInv
<1>3. CASE msg.kind \notin KeyKinds /\ UNCHANGED <<modsL, modsR, open, posted>>
  BY <1>1, <1>3, KeysUntouched DEF Dispatching
<1>4. CASE /\ \/ msg.kind = "WM_KEYDOWN" /\ keyDown(msg.code)
              \/ msg.kind = "WM_KEYUP" /\ keyUp(msg.code)
           /\ UNCHANGED <<open, posted>>
  <2>1. msg.code \in Codes /\ msg.kind \in KeyKinds
    BY <1>4 DEF TypeOK, Message, KeyMessage, MoveMessage, OtherMessage, KeyKinds
  <2>2. SUFFICES ASSUME open, NEW k \in Cased, k \notin unseen PROVE KeyInv(k)'
    BY <1>1, <1>4 DEF KeysInv, KeyInv
  <2>3. KeyInv(k) /\ ~Dispatching(k)' /\ (Dispatching(k) <=> msg.code = Code[k])
    BY <1>1, <2>1, <2>2 DEF KeysInv, Dispatching
  <2>4. \A i : NoneAfter(k, i)' <=> NoneAfter(k, i)
    BY <1>4 DEF NoneAfter
  <2>5. CASE msg.code = Code[k]
    <3>1. Told(k)' <=> msg.kind = "WM_KEYDOWN"
      <4>1. ModifiersOf(Code[k]) = {Modifier[Code[k]]}
        BY DEF ModifiersOf, Cased
      <4>2. CASE Code[k] \in LeftCodes
        BY <1>4, <2>5, <4>1, <4>2 DEF keyDown, keyUp, Told
      <4>3. CASE Code[k] \notin LeftCodes
        BY <1>4, <2>5, <4>1, <4>3 DEF keyDown, keyUp, Told
      <4>4. QED
        BY <4>2, <4>3
    <3>2. QED
      BY <1>1, <1>4, <2>2, <2>3, <2>4, <2>5, <3>1 DEF KeyInv
  <2>6. CASE msg.code # Code[k]
    <3>1. Told(k)' <=> Told(k)
      BY <1>4, <2>1, <2>6, OthersKeepModifier
    <3>2. QED
      BY <1>1, <1>4, <2>2, <2>3, <2>4, <2>6, <3>1 DEF KeyInv
  <2>7. QED
    BY <2>5, <2>6
<1>5. QED
  BY <1>2, <1>3, <1>4 DEF Dispatch, KeyKinds, fields, queue

LEMMA ChangeKeepsKeys ==
  ASSUME TypeOK, KeysInv, UNCHANGED <<pc, msg, open, modsL, modsR>>,
         NEW l \in Keys, ChangeKey(l) \/ ChangeKeyUnseen(l)
  PROVE  KeysInv'
<1>1. SUFFICES ASSUME open, NEW k \in Cased, k \notin unseen' PROVE KeyInv(k)'
  BY DEF KeysInv, KeyInv
<1>2. /\ KeyInv(k)
      /\ Dispatching(k)' <=> Dispatching(k)
      /\ Told(k)' <=> Told(k)
  BY <1>1 DEF KeysInv, Dispatching, Told
<1>3. CASE ChangeKey(l)
  <2> DEFINE m == [kind |-> IF l \in held THEN "WM_KEYUP" ELSE "WM_KEYDOWN", code |-> Code[l]]
  <2>1. /\ posted \in Seq(KeyMessage) /\ m \in KeyMessage /\ posted' = Append(posted, m)
        /\ held' = Toggled(l) /\ unseen' = unseen \ {l}
    BY <1>3, WindowAssumption DEF ChangeKey, TypeOK, KeyMessage, KeyKinds
  <2>2. m.code = Code[l] /\ (m.kind = "WM_KEYDOWN" <=> l \notin held)
    OBVIOUS
  <2> HIDE DEF m
  <2>3. /\ Len(posted) \in Nat /\ Len(posted') = Len(posted) + 1
        /\ posted'[Len(posted) + 1] = m
        /\ \A i \in 1 .. Len(posted) : posted'[i] = posted[i]
    BY <2>1
  <2>4. l \in held' <=> l \notin held
    BY <2>1 DEF Toggled
  <2>5. CASE k = l
    <3>1. ~NoneAfter(k, 0)'
      BY <2>2, <2>3, <2>5 DEF NoneAfter
    <3>2. ASSUME NEW i \in 1 .. Len(posted'), NoneAfter(k, i)' PROVE i = Len(posted) + 1
      BY <2>2, <2>3, <2>5, <3>2 DEF NoneAfter
    <3>3. QED
      BY <2>2, <2>3, <2>4, <2>5, <3>1, <3>2 DEF KeyInv
  <2>6. CASE k # l
    <3>1. (k \in held' <=> k \in held) /\ k \notin unseen
      BY <1>1, <2>1, <2>6 DEF Toggled
    <3> Code[l] # Code[k]
      BY <2>6, SidesApart DEF Cased
    <3>2. ASSUME NEW i \in 0 .. Len(posted), NoneAfter(k, i)' PROVE NoneAfter(k, i)
      BY <2>3, <3>2 DEF NoneAfter
    <3>3. ASSUME NEW i \in 1 .. Len(posted'), posted'[i].code = Code[k], NoneAfter(k, i)'
          PROVE  posted'[i].kind = "WM_KEYDOWN" <=> k \in held'
      <4>1. i \in 1 .. Len(posted) /\ i \in 0 .. Len(posted) /\ posted'[i] = posted[i]
        BY <2>2, <2>3, <2>6, <3>3
      <4>2. NoneAfter(k, i)
        BY <3>2, <3>3, <4>1
      <4>3. QED
        BY <1>2, <3>1, <3>3, <4>1, <4>2 DEF KeyInv
    <3>4. NoneAfter(k, 0)' => NoneAfter(k, 0)
      BY <2>3, <3>2
    <3>5. QED
      BY <1>2, <3>1, <3>3, <3>4 DEF KeyInv
  <2>7. QED
    BY <2>5, <2>6
<1>4. CASE ChangeKeyUnseen(l)
  <2>1. k # l /\ k \notin unseen /\ posted' = posted
    BY <1>1, <1>4 DEF ChangeKeyUnseen, queue
  <2>2. k \in held' <=> k \in held
    BY <1>4, <2>1 DEF ChangeKeyUnseen, Toggled
  <2>3. QED
    BY <1>2, <2>1, <2>2 DEF KeyInv, NoneAfter
<1>5. QED
  BY <1>3, <1>4

(* A message a modal loop keeps makes its key unseen.                      *)
LEMMA KeepKeepsKeys ==
  ASSUME TypeOK, KeysInv, UNCHANGED <<msg, open, modsL, modsR>>, KeepKey
  PROVE  KeysInv'
<1>1. /\ posted # <<>> /\ posted' = Tail(posted) /\ UNCHANGED <<pc, held>> /\ pc = "modal"
      /\ unseen' = unseen \cup {k \in Cased : Code[k] = Head(posted).code}
  BY DEF KeepKey
<1>2. SUFFICES ASSUME open, NEW k \in Cased, k \notin unseen' PROVE KeyInv(k)'
  BY DEF KeysInv, KeyInv
<1>3. KeyInv(k) /\ k \notin unseen /\ Head(posted).code # Code[k]
  BY <1>1, <1>2 DEF KeysInv
<1>4. ~Dispatching(k) /\ ~Dispatching(k)' /\ (Told(k)' <=> Told(k))
  BY <1>1 DEF Dispatching, Told
<1>5. /\ Head(posted) = posted[1] /\ 0 \in 0 .. Len(posted')
      /\ Len(posted) \in Nat \ {0}
      /\ \A i \in 1 .. Len(posted') : i + 1 \in 1 .. Len(posted) /\ posted'[i] = posted[i + 1]
  BY <1>1, TailOfPosted
<1>6. NoneAfter(k, 0)' => NoneAfter(k, 0)
  <2>1. NoneAfter(k, 0)' => NoneAfter(k, 1)
    BY <1>1, <1>5, TailOfPosted
  <2>2. QED
    BY <1>3, <1>5, <2>1 DEF NoneAfter
<1>7. ASSUME NEW i \in 1 .. Len(posted'), posted'[i].code = Code[k], NoneAfter(k, i)'
      PROVE  posted'[i].kind = "WM_KEYDOWN" <=> k \in held'
  <2>1. i \in 0 .. Len(posted') /\ i + 1 \in 1 .. Len(posted) /\ posted'[i] = posted[i + 1]
    BY <1>5
  <2>2. NoneAfter(k, i + 1)
    BY <1>1, <1>7, <2>1, TailOfPosted
  <2>3. QED
    BY <1>1, <1>3, <1>7, <2>1, <2>2 DEF KeyInv
<1>8. QED
  BY <1>1, <1>3, <1>4, <1>6, <1>7 DEF KeyInv

LEMMA NextKeepsKeys == TypeOK /\ KeysInv /\ [Next]_vars => KeysInv'
<1> SUFFICES ASSUME TypeOK, KeysInv, [Next]_vars PROVE KeysInv'
  OBVIOUS
<1>1. ASSUME UNCHANGED <<open, held, unseen, posted, modsL, modsR, pc, msg>> PROVE KeysInv'
  BY <1>1 DEF KeysInv, KeyInv, NoneAfter, Told, Dispatching
<1>2. CASE CaptureOrFree \/ HandleSent \/ UNCHANGED vars
  <2>1. UNCHANGED <<open, held, unseen, posted, modsL, modsR, pc, msg>>
    BY <1>2 DEF CaptureOrFree, HandleSent, vars, fields, screen, queue, keyboard
  <2>2. QED
    BY <1>1, <2>1
<1>3. CASE swapAndPollSize \/ PeekNothing \/ Present
  <2>1. /\ UNCHANGED <<open, held, unseen, posted, modsL, modsR>>
        /\ pc # "dispatch" /\ pc' # "dispatch"
    BY <1>3 DEF swapAndPollSize, PeekNothing, Present, fields, screen, queue, keyboard
  <2>2. QED
    BY <2>1, KeysUntouched DEF Dispatching
<1>4. CASE Peek
  BY <1>4, PeekKeepsKeys
<1>5. CASE Dispatch
  BY <1>5, DispatchKeepsKeys
<1>6. CASE Environment
  <2>1. UNCHANGED <<msg, open, modsL, modsR>>
    BY <1>6 DEF Environment, fields
  <2>2. CASE \E k \in Keys : ChangeKey(k) \/ ChangeKeyUnseen(k)
    BY <2>1, <2>2, ChangeKeepsKeys DEF ChangeKey, ChangeKeyUnseen
  <2>3. CASE \/ MoveCursor \/ MoveWindow \/ TakeCapture
             \/ LoseFocus \/ GainFocus \/ Request
    <3>1. UNCHANGED <<pc, held, unseen, posted>>
      BY <2>3 DEF MoveCursor, MoveWindow, TakeCapture, LoseFocus, GainFocus, Request, keyboard
    <3>2. QED
      BY <1>1, <2>1, <3>1
  <2>4. CASE KeepKey
    BY <2>1, <2>4, KeepKeepsKeys
  <2>5. CASE LeaveModal
    <3>1. UNCHANGED <<held, unseen, posted>> /\ pc # "dispatch" /\ pc' # "dispatch"
      BY <2>5 DEF LeaveModal, keyboard, queue
    <3>2. QED
      BY <2>1, <3>1, KeysUntouched DEF Dispatching
  <2>6. QED
    BY <1>6, <2>2, <2>3, <2>4, <2>5 DEF Environment
<1>7. QED
  BY <1>2, <1>3, <1>4, <1>5, <1>6 DEF Next, Program

(* The modifiers listeners are told follow the keys whose virtual key has a*)
(* case in the procedure, whatever is pressed on either side and however   *)
(* many messages are under way.  Nothing is said of a key whose messages   *)
(* name a virtual key without a case, as those of Shift, Control and Alt do*)
THEOREM ModifiersAlwaysFollow == Spec => []ModifiersFollowKeys
<1>1. TypeOK /\ KeysInv /\ [Next]_vars => TypeOK' /\ KeysInv'
  BY NextTypes, NextKeepsKeys
<1>2. QED
  BY <1>1, InitTypes, InitKeys, KeysGiveModifiers, PTL DEF Spec

-----------------------------------------------------------------------------
(* What the mouse has moved *)

(* Whatever confines the cursor, it is inside: no capture or release drags *)
(* it out of what the next one confines it to.                             *)
CursorInv == Inside(cursor, clip)

LEMMA ConfinedInside ==
  ASSUME NEW c \in Int, NEW r \in Rect, r.left < r.right
  PROVE  /\ Confined(c, r) \in Int
         /\ Inside(Confined(c, r), r)
         /\ Inside(c, r) => Confined(c, r) = c
BY DEF Confined, Inside, Rect

LEMMA InitCursor == Init => CursorInv
BY DesktopIsClip, ClipsAreAreas DEF Init, CursorInv, Inside

(* The cursor is moved into the area it is clipped to.                     *)
LEMMA ClipCursorConfines ==
  ASSUME NEW r \in Rects \cup {Desktop}, NEW c \in Int, NEW pending, ClipCursor(r, c, pending)
  PROVE  CursorInv'
<1>1. Cut(r) \in Rect /\ Cut(r).left < Cut(r).right
  BY ClipsAreAreas DEF Clips
<1>2. QED
  BY <1>1, ConfinedInside DEF ClipCursor, CursorInv

LEMMA ListenKeepsCursor ==
  ASSUME TypeOK, NEW c \in Int, Inside(c, clip), NEW pending, Listen(c, pending)
  PROVE  CursorInv'
<1>1. CASE Capture(c, pending) \/ Free(c, pending)
  BY <1>1, ClipCursorConfines, ClipIsRect DEF Capture, Free, TypeOK
<1>2. CASE cursor' = c /\ clip' = clip
  BY <1>2 DEF CursorInv
<1> QED
  BY <1>1, <1>2 DEF Listen

(* A cursor that stays is inside the desktop as well.                      *)
LEMMA StaysOnDesktop ==
  ASSUME TypeOK, CursorInv, cursor' = cursor, clip' \in {clip, Desktop}
  PROVE  CursorInv'
<1>1. /\ clip.left \in Int /\ clip.right \in Int /\ cursor \in Int
      /\ Desktop.left \in Int /\ Desktop.right \in Int
      /\ Desktop.left <= clip.left /\ clip.right <= Desktop.right
  BY TypesOfCapture, ClipsAreAreas DEF CaptureTypes
<1> QED
  BY <1>1 DEF CursorInv, Inside

LEMMA MouseMoveKeepsCursor ==
  ASSUME TypeOK, CursorInv, NEW x, NEW otherAxis, mouseMove(x, otherAxis)
  PROVE  CursorInv'
<1>1. CASE SetCursorPos(centerX(getClip))
  <2>1. clip \in Rect /\ clip.left < clip.right /\ centerX(getClip) \in Int
    BY TypesOfCapture, ClipsAreAreas, CentreTypes DEF CaptureTypes
  <2>2. /\ Confined(centerX(getClip), clip) \in Int
        /\ Inside(Confined(centerX(getClip), clip), clip)
    BY <2>1, ConfinedInside
  <2>3. PICK pending : Listen(Confined(centerX(getClip), clip), pending)
    BY <1>1 DEF SetCursorPos
  <2> QED
    BY <2>2, <2>3, ListenKeepsCursor
<1>2. CASE UNCHANGED <<clip, cursor>>
  BY <1>2 DEF CursorInv
<1>3. CASE Listen(cursor, moved)
  BY <1>3, ListenKeepsCursor DEF CursorInv, TypeOK
<1> QED
  BY <1>1, <1>2, <1>3 DEF mouseMove

LEMMA DispatchKeepsCursor ==
  ASSUME TypeOK, CursorInv, Dispatch
  PROVE  CursorInv'
<1>1. CASE mouseMove(msg.x, msg.aside)
  BY <1>1, MouseMoveKeepsCursor
<1>2. CASE Listen(cursor, moved)
  BY <1>2, ListenKeepsCursor DEF CursorInv, TypeOK
<1>3. CASE close /\ UNCHANGED cursor
  <2>1. clip' \in {clip, Desktop}
    BY <1>3 DEF close
  <2> QED
    BY <1>3, <2>1, StaysOnDesktop
<1>4. CASE UNCHANGED <<clip, cursor>>
  BY <1>4 DEF CursorInv
<1> QED
  BY <1>1, <1>2, <1>3, <1>4 DEF Dispatch

LEMMA EnvironmentKeepsCursor ==
  ASSUME TypeOK, CursorInv, Environment
  PROVE  CursorInv'
<1>1. CASE MoveCursor
  <2>1. clip.left \in Int /\ clip.right \in Int /\ clip' = clip
    BY <1>1, TypesOfCapture, ClipsAreAreas DEF CaptureTypes, MoveCursor
  <2>2. cursor' \in clip.left .. clip.right - 1
    BY <1>1 DEF MoveCursor
  <2> QED
    BY <2>1, <2>2 DEF CursorInv, Inside
<1>2. CASE MoveWindow \/ TakeCapture \/ LoseFocus \/ GainFocus \/ KeepKey \/ LeaveModal
           \/ Request \/ \E k \in Keys : ChangeKey(k) \/ ChangeKeyUnseen(k)
  <2>1. cursor' = cursor /\ clip' \in {clip, Desktop}
    BY <1>2 DEF MoveWindow, TakeCapture, LoseFocus, GainFocus, KeepKey, LeaveModal, Request,
                ChangeKey, ChangeKeyUnseen
  <2> QED
    BY <2>1, StaysOnDesktop
<1> QED
  BY <1>1, <1>2 DEF Environment

LEMMA NextKeepsCursor == TypeOK /\ CursorInv /\ [Next]_vars => CursorInv'
<1> SUFFICES ASSUME TypeOK, CursorInv, [Next]_vars PROVE CursorInv'
  OBVIOUS
<1>1. CASE CaptureOrFree
  BY <1>1, ClipCursorConfines, ClipIsRect DEF CaptureOrFree, Capture, Free, TypeOK
<1>2. CASE HandleSent
  <2>1. CASE ClipCursor(getClip, cursor, moved) \/ ClipCursor(Desktop, cursor, moved)
    BY <2>1, ClipCursorConfines, ClipIsRect DEF TypeOK
  <2>2. CASE UNCHANGED <<clip, cursor>>
    BY <2>2 DEF CursorInv
  <2> QED
    BY <1>2, <2>1, <2>2 DEF HandleSent, ConfirmCapture, Capture, LetGo
<1>3. CASE swapAndPollSize \/ Peek \/ PeekNothing \/ Present \/ UNCHANGED vars
  BY <1>3 DEF swapAndPollSize, Peek, PeekNothing, Present, vars, screen, CursorInv
<1>4. CASE Dispatch
  BY <1>4, DispatchKeepsCursor
<1>5. CASE Environment
  BY <1>5, EnvironmentKeepsCursor
<1> QED
  BY <1>1, <1>2, <1>3, <1>4, <1>5 DEF Next, Program

(* Adding up in an int loses nothing twice.                                *)
LEMMA WrapTwice ==
  ASSUME NEW n \in Int
  PROVE  Wrap(Wrap(n)) = Wrap(n)
<1>1. Ints \in Nat /\ Ints > 0 /\ Ints \div 2 \in Int
  BY WindowAssumption
<1>2. PICK h \in Int : h = Ints \div 2
  BY <1>1
<1>3. PICK m \in Int : m = n + h
  BY <1>2
<1>4. m % Ints \in 0 .. Ints - 1
  BY <1>1, <1>3
<1>5. PICK q \in 0 .. Ints - 1 : q = m % Ints
  BY <1>4
<1>6. q % Ints = q
  BY <1>1, <1>5
<1>7. Wrap(n) = q - h
  BY <1>2, <1>3, <1>5 DEF Wrap
<1>8. (q - h) + h = q
  BY <1>1, <1>2, <1>5
<1> QED
  BY <1>2, <1>6, <1>7, <1>8 DEF Wrap

(* Half of an area is inside it.                                           *)
LEMMA HalfInside == \A n \in Int : n > 0 => Half(n) \in 0 .. n - 1
<1> SUFFICES ASSUME NEW n \in Int, n > 0 PROVE n \div 2 \in 0 .. n - 1
  BY DEF Half
<1> QED
  OBVIOUS

(* A centre that is on the screen is in what is seen of the window, if     *)
(* anything is.                                                            *)
LEMMA CentreSeen ==
  ASSUME TypeOK, Centred
  PROVE  Inside(centerX(rect), Cut(rect))
<1>1. /\ rect \in Rect /\ rect.left \in Int /\ rect.right \in Int
      /\ Desktop.left \in Int /\ Desktop.right \in Int
      /\ centerX(rect) \in Int /\ cCentX(rect) \in Int
  BY CentreTypes, DesktopIsClip, ClipsAreAreas
<1>2. PICK c \in Int : c = centerX(rect)
  BY <1>1
<1>3. Desktop.left <= c /\ c < Desktop.right /\ c = rect.left + cCentX(rect)
  BY <1>2 DEF Centred, Inside
<1>4. PICK l \in Int : l = IF rect.left < Desktop.left THEN Desktop.left ELSE rect.left
  BY <1>1
<1>5. PICK h \in Int : h = IF rect.right > Desktop.right THEN Desktop.right ELSE rect.right
  BY <1>1
<1>6. Cut(rect) = IF l < h THEN [left |-> l, right |-> h] ELSE Desktop
  BY <1>4, <1>5 DEF Cut
<1>7. CASE l < h
  <2>1. rect.left <= l /\ h <= rect.right
    BY <1>1, <1>4, <1>5
  <2>2. rect.right - rect.left \in Int /\ rect.right - rect.left > 0
    BY <1>1, <1>7, <2>1
  <2>3. cCentX(rect) \in 0 .. (rect.right - rect.left) - 1
    BY <2>2, HalfInside DEF cCentX
  <2>4. rect.left <= c /\ c < rect.right
    BY <1>1, <1>3, <2>3
  <2>5. l <= c /\ c < h
    BY <1>1, <1>3, <1>4, <1>5, <2>4
  <2> QED
    BY <1>2, <1>6, <1>7, <2>5 DEF Inside
<1>8. CASE ~(l < h)
  BY <1>2, <1>3, <1>6, <1>8 DEF Inside
<1> QED
  BY <1>7, <1>8

(* A listener that leaves the clip as it is leaves a cursor within it.     *)
LEMMA ListenStays ==
  ASSUME TypeOK, NEW c \in Int, Inside(c, clip), NEW pending, Listen(c, pending),
         clip' = clip, captureMouse'
  PROVE  cursor' = c
<1>1. CASE Capture(c, pending)
  <2>1. cursor' = Confined(c, Cut(getClip)) /\ clip' = Cut(getClip)
    BY <1>1 DEF Capture, ClipCursor
  <2>2. clip \in Rect /\ clip.left < clip.right
    BY TypesOfCapture, ClipsAreAreas DEF CaptureTypes
  <2> QED
    BY <2>1, <2>2, ConfinedInside
<1>2. ~Free(c, pending)
  BY DEF Free
<1> QED
  BY <1>1, <1>2 DEF Listen

(* The cursor is put where the message says it is away from: into the      *)
(* centre, which the clip contains.                                        *)
LEMMA PutBack ==
  ASSUME TypeOK, Centred, clip \in {Cut(rect), Desktop}, SetCursorPos(centerX(getClip)),
         clip' = clip, captureMouse'
  PROVE  cursor' - rect.left = cCentX(rect) /\ cursor' \in Int
<1>1. /\ getClip = rect /\ rect.left \in Int /\ centerX(rect) \in Int /\ cCentX(rect) \in Int
  BY CentreTypes
<1>2. clip \in Rect /\ clip.left < clip.right
  BY TypesOfCapture, ClipsAreAreas DEF CaptureTypes
<1>3. Inside(centerX(rect), clip)
  BY CentreSeen DEF Centred
<1>4. Confined(centerX(rect), clip) = centerX(rect)
  BY <1>1, <1>2, <1>3, ConfinedInside
<1>5. PICK reported : Listen(centerX(rect), reported)
  BY <1>1, <1>4 DEF SetCursorPos
<1>6. cursor' = centerX(rect)
  BY <1>1, <1>3, <1>5, ListenStays
<1>7. centerX(rect) = rect.left + cCentX(rect)
  BY DEF Centred
<1> QED
  BY <1>1, <1>6, <1>7

(* A move that is handled is counted: the cursor is back in the centre.    *)
LEMMA MoveCounted ==
  ASSUME TypeOK, CursorInv, Centred, clip \in {Cut(rect), Desktop}, clip' = clip,
         captureMouse, captureMouse',
         mouseMove(msg.x, msg.aside), msg.x = cursor - rect.left, rect' = rect
  PROVE  Travelled' = Travelled
<1>1. /\ getClip = rect /\ rect.left \in Int /\ xSum \in Int /\ cursor \in Int
      /\ cCentX(rect) \in Int
  BY CentreTypes DEF TypeOK
<1>2. CASE UNCHANGED <<xSum, cursor>>
  BY <1>2 DEF Travelled
<1>3. CASE /\ xSum' = Wrap(xSum + msg.x - cCentX(rect))
           /\ SetCursorPos(centerX(getClip))
  <2>1. PICK t \in Int : t = xSum + cursor - rect.left - cCentX(rect)
    BY <1>1
  <2>2. xSum + msg.x - cCentX(rect) = t
    BY <1>1, <2>1
  <2>3. Wrap(t) \in Int
    BY WrapIsInt
  <2>4. xSum' + cursor' - rect.left - cCentX(rect) = Wrap(t)
    BY <1>1, <1>3, <2>2, <2>3, PutBack
  <2> QED
    BY <2>1, <2>4, WrapTwice DEF Travelled
<1> QED
  BY <1>1, <1>2, <1>3 DEF mouseMove

(* No step of the program loses or invents motion.                         *)
LEMMA StepCounts ==
  ASSUME TypeOK, CursorInv, Next,
         captureMouse, captureMouse', pc' # pc, open', Centred,
         clip \in {Cut(rect), Desktop}, clip' = clip,
         msg.kind = "WM_MOUSEMOVE" => msg.x = cursor - rect.left
  PROVE  Travelled' = Travelled
<1>1. CASE swapAndPollSize \/ Peek \/ PeekNothing \/ Present
  BY <1>1 DEF swapAndPollSize, Peek, PeekNothing, Present, fields, screen, Travelled
<1>2. CASE Dispatch
  <2>1. rect' = rect
    BY <1>2 DEF Dispatch
  <2>2. CASE msg.kind = "WM_MOUSEMOVE" /\ mouseMove(msg.x, msg.aside)
    BY <2>1, <2>2, MoveCounted
  <2>3. CASE Listen(cursor, moved) /\ UNCHANGED xSum
    <3>1. cursor' = cursor
      BY <2>3, ListenStays DEF CursorInv, TypeOK
    <3> QED
      BY <2>1, <2>3, <3>1 DEF Travelled
  <2>4. ~close
    BY DEF close
  <2>5. CASE UNCHANGED <<xSum, cursor>>
    BY <2>1, <2>5 DEF Travelled
  <2> QED
    BY <1>2, <2>2, <2>3, <2>4, <2>5 DEF Dispatch, fields
<1>3. CASE LeaveModal /\ UNCHANGED fields
  BY <1>3 DEF LeaveModal, fields, Travelled
<1>4. ~CaptureOrFree /\ ~HandleSent /\ (Environment => LeaveModal /\ UNCHANGED fields)
  BY DEF CaptureOrFree, HandleSent, Environment, MoveCursor, MoveWindow, TakeCapture, LoseFocus,
         GainFocus, ChangeKey, ChangeKeyUnseen, KeepKey, Request
<1> QED
  BY <1>1, <1>2, <1>3, <1>4 DEF Next, Program

(* While the mouse is captured, putting the cursor back to the centre adds *)
(* to the sum exactly what it takes from the screen, on any desktop and for*)
(* windows that are on it, partly off it or off it.                        *)
THEOREM MotionAlwaysCounted == Spec => MotionCounted
<1>1. TypeOK /\ CursorInv /\ [Next]_vars => TypeOK' /\ CursorInv'
  BY NextTypes, NextKeepsCursor
<1>2. Init => TypeOK /\ CursorInv
  BY InitTypes, InitCursor
<1>3. TypeOK /\ CursorInv /\ [Next]_vars =>
        [/\ captureMouse /\ captureMouse' /\ pc' # pc /\ open'
         /\ Centred /\ clip \in {Cut(rect), Desktop} /\ clip' = clip
         /\ msg.kind = "WM_MOUSEMOVE" => msg.x = cursor - rect.left
         => Travelled' = Travelled]_vars
  BY StepCounts
<1> QED
  BY <1>1, <1>2, <1>3, PTL DEF Spec, MotionCounted
=============================================================================
