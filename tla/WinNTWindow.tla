---------------------------- MODULE WinNTWindow ----------------------------
(***************************************************************************)
(* A window made on User32 without GLFW, frontend/windowing/winnt/         *)
(* WinNTWindow.java: its message pump, the message procedure that runs     *)
(* inside it, and the capture of the mouse.                                *)
(*                                                                         *)
(* The user and the system act between any two steps of the program: the   *)
(* cursor moves, keys change, the window is moved, it loses and gains the  *)
(* focus.  What they do is told by messages.  sent holds those that the    *)
(* system handles inside PeekMessage, before any message it returns;       *)
(* posted holds the keys in order; moved, typed, menu, closing and painting*)
(* stand for messages there is one of at most.  One axis is modelled, since*)
(* x and y are treated alike; of the other, on which the centre can be     *)
(* reached, only whether the cursor is away from it: line 69 asks for both.*)
(***************************************************************************)
EXTENDS Integers, Sequences

CONSTANTS
  Keys,       (* the keys of the keyboard                                 *)
  Codes,      (* virtual keys, as messages name them                      *)
  Code,       (* that of each key                                         *)
  LeftCodes,  (* those whose case sets left                               *)
  Modifier,   (* the GLFW modifier of each virtual key that has a case    *)
  Typing,     (* the virtual keys that type a character                   *)
  Desktop,    (* the whole screen                                         *)
  Rects,      (* client areas the window can have, in screen coordinates  *)
  Ints,       (* an int has this many values, 2^32 in the code            *)
  MaxSent,    (* bound on messages sent and not handled                   *)
  MaxPosted   (* bound on key messages posted and not retrieved           *)

Rect == [left : Int, right : Int]

ASSUME WindowAssumption ==
  /\ Code \in [Keys -> Codes]
  /\ LeftCodes \subseteq Codes
  /\ DOMAIN Modifier \subseteq Codes
  /\ Typing \subseteq Codes
  /\ Desktop \in Rect /\ Desktop.left < Desktop.right
  /\ Rects \subseteq Rect
  /\ Ints \in Nat \ {0}
  /\ MaxSent \in Nat
  /\ MaxPosted \in Nat

(* A modifier has one virtual key on the left and one on the right, and    *)
(* these stand for one key each.                                           *)
ASSUME SidesApart ==
  /\ \A c, d \in DOMAIN Modifier :
       Modifier[c] = Modifier[d] /\ (c \in LeftCodes <=> d \in LeftCodes) => c = d
  /\ \A k, l \in Keys : Code[k] = Code[l] /\ Code[k] \in DOMAIN Modifier => k = l

VARIABLES
  pc,            (* frame, pump, dispatch, modal, present or ended        *)
  msg,           (* what PeekMessage returned                             *)
  captureMouse, shouldClose, modsL, modsR, xSum,  (* the Java fields      *)
  rect, clip, cursor,        (* client area, clipping, cursor: Windows'   *)
  aside,         (* the cursor is off the centre on the other axis        *)
  focused, open, held,       (* the window has the focus; exists; the keys*)
  sent, posted, moved, typed, menu, closing, painting,
  unseen   (* keys that last changed without a message for the procedure  *)

fields == <<captureMouse, shouldClose, modsL, modsR, xSum>>
screen == <<rect, clip, cursor, aside, focused, open>>
requests == <<menu, closing, painting>>
queue == <<sent, posted, moved, typed, requests>>
keyboard == <<held, unseen>>
vars == <<pc, msg, fields, screen, queue, keyboard>>

Confirming == {"WM_SIZE", "WM_SETFOCUS", "WM_CAPTURECHANGED"}
Notices == Confirming \cup {"WM_KILLFOCUS"}
KeyKinds == {"WM_KEYDOWN", "WM_KEYUP"}
Modifiers == {Modifier[c] : c \in DOMAIN Modifier}

KeyMessage == [kind : KeyKinds, code : Codes]
MoveMessage == [kind : {"WM_MOUSEMOVE"}, x : Int, aside : BOOLEAN]
OtherMessage == [kind : {"none", "WM_CHAR", "WM_SYSCOMMAND", "WM_CLOSE", "WM_PAINT"}]
Message == KeyMessage \cup MoveMessage \cup OtherMessage

(* The keys with a case of their own in the procedure.                     *)
Cased == {k \in Keys : Code[k] \in DOMAIN Modifier}

NoMessage == [kind |-> "none"]

(* Positions the cursor has inside an area: its right edge is outside.     *)
Inside(c, r) == r.left <= c /\ c < r.right

(* The position of the area that is nearest to c.                          *)
Confined(c, r) ==
  IF c < r.left THEN r.left ELSE IF c >= r.right THEN r.right - 1 ELSE c

(* What is seen of an area on the screen; all of the screen if nothing is. *)
Cut(r) ==
  LET left == IF r.left < Desktop.left THEN Desktop.left ELSE r.left
      right == IF r.right > Desktop.right THEN Desktop.right ELSE r.right
  IN IF left < right THEN [left |-> left, right |-> right] ELSE Desktop

(* Java divides towards zero.                                              *)
Half(n) == IF n >= 0 THEN n \div 2 ELSE -((-n) \div 2)

(* The value an int holds after n was added up in it.                      *)
Wrap(n) == ((n + (Ints \div 2)) % Ints) - (Ints \div 2)

(* cCentX, in client coordinates, and centerX, on the screen.              *)
cCentX(r) == Half(r.right - r.left)
centerX(r) == Half(r.right + r.left)

Init ==
  /\ pc = "frame" /\ msg = NoMessage
  /\ captureMouse = FALSE /\ shouldClose = FALSE
  /\ modsL = {} /\ modsR = {} /\ xSum = 0
  /\ rect \in Rects /\ clip = Desktop /\ cursor = Desktop.left /\ aside = TRUE
  /\ focused = TRUE /\ open = TRUE
  /\ held = {} /\ unseen = {}
  /\ sent = <<>> /\ posted = <<>>
  /\ moved = FALSE /\ typed = FALSE /\ menu = FALSE /\ closing = FALSE /\ painting = FALSE

-----------------------------------------------------------------------------
(* Clipping *)

GetClientRect == [left |-> 0, right |-> rect.right - rect.left]
ClientToScreen(x) == x + rect.left

(* The client area, edge by edge put on the screen.                        *)
getClip ==
  [left |-> ClientToScreen(GetClientRect.left), right |-> ClientToScreen(GetClientRect.right)]

(* ClipCursor, for a cursor at c and a move pending or not: the area is cut*)
(* to the screen and the cursor moved into it, which is a motion, and may  *)
(* be one on the other axis alone.                                         *)
ClipCursor(r, c, pending) ==
  /\ clip' = Cut(r)
  /\ cursor' = Confined(c, Cut(r))
  /\ moved' \in IF cursor' # c THEN {TRUE}
                ELSE IF r = Desktop THEN {pending} ELSE {pending, TRUE}

(* captureMouse(): the clip is the client area at the time of the call.    *)
Capture(c, pending) ==
  /\ ClipCursor(getClip, c, pending)
  /\ captureMouse' = TRUE

(* freeMouse()                                                             *)
Free(c, pending) ==
  /\ ClipCursor(Desktop, c, pending)
  /\ captureMouse' = FALSE

(* Mutant: the capture is not confirmed when the window gets the focus.    *)
ConfirmCaptureSizeOnly(kind) ==
  IF captureMouse /\ kind = "WM_SIZE"
    THEN Capture(cursor, moved) ELSE UNCHANGED <<clip, cursor, moved, captureMouse>>

(* WM_SIZE, WM_MOVE, WM_SETFOCUS, WM_CAPTURECHANGED                        *)
ConfirmCapture(kind) ==
  IF captureMouse
    THEN Capture(cursor, moved) ELSE UNCHANGED <<clip, cursor, moved, captureMouse>>

(* WM_KILLFOCUS: the cursor is let go, captureMouse stays.                 *)
LetGo ==
  /\ IF captureMouse
       THEN ClipCursor(Desktop, cursor, moved) ELSE UNCHANGED <<clip, cursor, moved>>
  /\ UNCHANGED captureMouse

(* The program captures and frees the mouse while it makes a frame.        *)
CaptureOrFree ==
  /\ pc = "frame"
  /\ Capture(cursor, moved) \/ Free(cursor, moved)
  /\ UNCHANGED <<pc, msg, shouldClose, modsL, modsR, xSum, rect, aside, focused, open,
                 sent, posted, typed, requests, keyboard>>

-----------------------------------------------------------------------------
(* The pump: swapAndPollSize *)

(* The size is polled here, before the pump, for the frame loop.           *)
swapAndPollSize ==
  /\ pc = "frame"
  /\ pc' = "pump"
  /\ UNCHANGED <<msg, fields, screen, queue, keyboard>>

(* PeekMessage calls the procedure for what was sent before it returns, and*)
(* so does a modal loop of Windows.                                        *)
HandleSent ==
  /\ pc \in {"pump", "modal"} /\ sent # <<>>
  /\ sent' = Tail(sent)
  /\ IF Head(sent) \in Confirming THEN ConfirmCapture(Head(sent)) ELSE LetGo
  /\ UNCHANGED <<pc, msg, shouldClose, modsL, modsR, xSum, rect, aside, focused, open,
                 posted, typed, requests, keyboard>>

(* A move is posted to the window the cursor is in when it is retrieved.   *)
MovePending == moved /\ Inside(cursor, rect)
Pending == posted # <<>> \/ typed \/ menu \/ closing \/ MovePending

(* PeekMessage returns a message: a character before any input, a paint    *)
(* only when there is no other.  TranslateMessage posts the character of a *)
(* key before the key is dispatched.                                       *)
Peek ==
  /\ pc = "pump" /\ sent = <<>>
  /\ \/ /\ typed
        /\ msg' = [kind |-> "WM_CHAR"] /\ typed' = FALSE
        /\ UNCHANGED <<posted, moved, requests>>
     \/ /\ ~typed /\ posted # <<>>
        /\ msg' = Head(posted) /\ posted' = Tail(posted)
        /\ typed' = (msg'.kind = "WM_KEYDOWN" /\ msg'.code \in Typing)
        /\ UNCHANGED <<moved, requests>>
     \/ /\ ~typed /\ MovePending
        /\ msg' = [kind |-> "WM_MOUSEMOVE", x |-> cursor - rect.left, aside |-> aside]
        /\ moved' = FALSE
        /\ UNCHANGED <<posted, typed, requests>>
     \/ /\ menu
        /\ msg' = [kind |-> "WM_SYSCOMMAND"] /\ menu' = FALSE
        /\ UNCHANGED <<posted, moved, typed, closing, painting>>
     \/ /\ closing
        /\ msg' = [kind |-> "WM_CLOSE"] /\ closing' = FALSE
        /\ UNCHANGED <<posted, moved, typed, menu, painting>>
     \/ /\ painting /\ ~Pending
        /\ msg' = [kind |-> "WM_PAINT"] /\ painting' = FALSE
        /\ UNCHANGED <<posted, moved, typed, menu, closing>>
  /\ pc' = "dispatch"
  /\ UNCHANGED <<fields, screen, sent, keyboard>>

PeekNothing ==
  /\ pc = "pump" /\ sent = <<>> /\ ~Pending /\ ~painting
  /\ pc' = "present"
  /\ UNCHANGED <<msg, fields, screen, queue, keyboard>>

-----------------------------------------------------------------------------
(* The message procedure *)

(* A listener, called with the cursor at c, may capture or free the mouse. *)
Listen(c, pending) ==
  \/ Capture(c, pending)
  \/ Free(c, pending)
  \/ /\ cursor' = c /\ moved' = pending
     /\ UNCHANGED <<clip, captureMouse>>

(* SetCursorPos puts the cursor to c within the clip, before the listener  *)
(* is called.  One that is there already may be reported as moved or not.  *)
SetCursorPos(c) ==
  LET there == Confined(c, clip)
  IN  /\ aside' = FALSE
      /\ \E reported \in IF there # cursor \/ aside THEN {TRUE} ELSE {moved, TRUE} :
           Listen(there, reported)

(* Away from the centre on one of the axes.                                *)
OffCentre(x, otherAxis) == x # cCentX(getClip) \/ otherAxis

(* Mutant: the return at the centre is missing.                            *)
mouseMoveEndless(x, otherAxis) ==
  IF captureMouse
    THEN /\ xSum' = Wrap(xSum + x - cCentX(getClip))
         /\ SetCursorPos(centerX(getClip))
    ELSE Listen(cursor, moved) /\ UNCHANGED <<xSum, aside>>

(* Mutant: the cursor is put to the centre in client coordinates.          *)
mouseMoveClient(x, otherAxis) ==
  \/ /\ captureMouse /\ OffCentre(x, otherAxis)
     /\ xSum' = Wrap(xSum + x - cCentX(getClip))
     /\ SetCursorPos(cCentX(getClip))
  \/ /\ captureMouse /\ ~OffCentre(x, otherAxis)
     /\ UNCHANGED <<xSum, clip, cursor, aside, moved, captureMouse>>
  \/ /\ ~captureMouse
     /\ Listen(cursor, moved)
     /\ UNCHANGED <<xSum, aside>>

(* WM_MOUSEMOVE.  A captured mouse is put back to the centre and what it   *)
(* had moved away from it is added up; the move this causes is ignored.    *)
mouseMove(x, otherAxis) ==
  \/ /\ captureMouse /\ OffCentre(x, otherAxis)
     /\ xSum' = Wrap(xSum + x - cCentX(getClip))
     /\ SetCursorPos(centerX(getClip))
  \/ /\ captureMouse /\ ~OffCentre(x, otherAxis)
     /\ UNCHANGED <<xSum, clip, cursor, aside, moved, captureMouse>>
  \/ /\ ~captureMouse
     /\ Listen(cursor, moved)
     /\ UNCHANGED <<xSum, aside>>

ModifiersOf(c) == IF c \in DOMAIN Modifier THEN {Modifier[c]} ELSE {}

keyDown(c) ==
  IF c \in LeftCodes
    THEN modsL' = modsL \cup ModifiersOf(c) /\ UNCHANGED modsR
    ELSE modsR' = modsR \cup ModifiersOf(c) /\ UNCHANGED modsL

(* Mutant: the modifier is released on both sides.                         *)
keyUpBoth(c) ==
  modsL' = modsL \ ModifiersOf(c) /\ modsR' = modsR \ ModifiersOf(c)

keyUp(c) ==
  IF c \in LeftCodes
    THEN modsL' = modsL \ ModifiersOf(c) /\ UNCHANGED modsR
    ELSE modsR' = modsR \ ModifiersOf(c) /\ UNCHANGED modsL

(* WM_CLOSE: DefWindowProc destroys the window after shouldClose is set.   *)
(* It loses the focus in this, if it has it, and its messages are gone.    *)
close ==
  /\ shouldClose' = TRUE
  /\ open' = FALSE /\ focused' = FALSE
  /\ clip' = IF captureMouse /\ focused THEN Desktop ELSE clip
  /\ sent' = <<>> /\ posted' = <<>>
  /\ moved' = FALSE /\ typed' = FALSE /\ menu' = FALSE /\ closing' = FALSE /\ painting' = FALSE

(* DispatchMessage.  DefWindowProc, which a title bar's click and the call *)
(* of the system menu are left to, loops for as long as the user likes.    *)
Dispatch ==
  /\ pc = "dispatch"
  /\ \/ /\ msg.kind = "WM_MOUSEMOVE" /\ mouseMove(msg.x, msg.aside)
        /\ UNCHANGED <<shouldClose, modsL, modsR, focused, open, sent, posted, typed, requests>>
     \/ /\ \/ msg.kind = "WM_KEYDOWN" /\ keyDown(msg.code)
           \/ msg.kind = "WM_KEYUP" /\ keyUp(msg.code)
           \/ msg.kind = "WM_CHAR" /\ UNCHANGED <<modsL, modsR>>
        /\ Listen(cursor, moved)
        /\ UNCHANGED <<shouldClose, xSum, aside, focused, open, sent, posted, typed, requests>>
     \/ /\ msg.kind = "WM_CLOSE" /\ close
        /\ UNCHANGED <<captureMouse, modsL, modsR, xSum, cursor, aside>>
     \/ /\ msg.kind \in {"WM_SYSCOMMAND", "WM_PAINT"}
        /\ UNCHANGED <<fields, clip, cursor, aside, focused, open, queue>>
  /\ pc' = CASE msg.kind = "WM_PAINT" -> "present"
             [] msg.kind = "WM_SYSCOMMAND" -> "modal"
             [] OTHER -> "pump"
  /\ msg' = NoMessage
  /\ UNCHANGED <<rect, keyboard>>

(* swapBuffers, then the test of shouldClose by the program's loop.        *)
Present ==
  /\ pc = "present"
  /\ pc' = IF shouldClose THEN "ended" ELSE "frame"
  /\ UNCHANGED <<msg, fields, screen, queue, keyboard>>

-----------------------------------------------------------------------------
(* The user and the system, while the window exists *)

MoveCursor ==
  /\ cursor' \in clip.left .. clip.right - 1
  /\ aside' \in BOOLEAN
  /\ cursor' # cursor \/ aside'
  /\ moved' = TRUE
  /\ UNCHANGED <<pc, rect, clip, focused, sent, posted, typed, requests, keyboard>>

(* The window is moved or sized; a drag lifts the clip.  A cursor over the *)
(* window may be reported as moved.                                        *)
MoveWindow ==
  /\ Len(sent) < MaxSent
  /\ rect' \in Rects \ {rect}
  /\ clip' \in {clip, Desktop}
  /\ aside' \in BOOLEAN
  /\ moved' \in {moved, TRUE}
  /\ sent' = Append(sent, "WM_SIZE")
  /\ UNCHANGED <<pc, cursor, focused, posted, typed, requests, keyboard>>

(* Another window of the program takes the mouse and lifts the clip.       *)
TakeCapture ==
  /\ Len(sent) < MaxSent
  /\ clip' = Desktop
  /\ sent' = Append(sent, "WM_CAPTURECHANGED")
  /\ UNCHANGED <<pc, rect, cursor, aside, focused, posted, moved, typed, requests, keyboard>>

(* Windows lifts the clip when another window comes to the foreground.     *)
LoseFocus ==
  /\ focused /\ Len(sent) < MaxSent
  /\ focused' = FALSE /\ clip' = Desktop
  /\ sent' = Append(sent, "WM_KILLFOCUS")
  /\ UNCHANGED <<pc, rect, cursor, aside, posted, moved, typed, requests, keyboard>>

GainFocus ==
  /\ ~focused /\ Len(sent) < MaxSent
  /\ focused' = TRUE
  /\ sent' = Append(sent, "WM_SETFOCUS")
  /\ UNCHANGED <<pc, rect, clip, cursor, aside, posted, moved, typed, requests, keyboard>>

Toggled(k) == IF k \in held THEN held \ {k} ELSE held \cup {k}

(* A key changes and the window with the focus is told, by its virtual key.*)
ChangeKey(k) ==
  /\ focused /\ Len(posted) < MaxPosted
  /\ held' = Toggled(k) /\ unseen' = unseen \ {k}
  /\ posted' = Append(posted, [kind |-> IF k \in held THEN "WM_KEYUP" ELSE "WM_KEYDOWN",
                               code |-> Code[k]])
  /\ UNCHANGED <<pc, rect, clip, cursor, aside, focused, sent, moved, typed, requests>>

(* A key changes while the window has no focus, or while Alt is held: then *)
(* it is told by WM_SYSKEYDOWN, which has no case, or by WM_SYSKEYUP, whose*)
(* case only returns.                                                      *)
ChangeKeyUnseen(k) ==
  /\ held' = Toggled(k) /\ unseen' = unseen \cup ({k} \cap Cased)
  /\ UNCHANGED <<pc, rect, clip, cursor, aside, focused, queue>>

(* A modal loop keeps the keys to itself.                                  *)
KeepKey ==
  /\ pc = "modal" /\ posted # <<>>
  /\ posted' = Tail(posted)
  /\ unseen' = unseen \cup {k \in Cased : Code[k] = Head(posted).code}
  /\ UNCHANGED <<pc, rect, clip, cursor, aside, focused, sent, moved, typed, requests, held>>

(* The title bar is let go, the system menu left.                          *)
LeaveModal ==
  /\ pc = "modal"
  /\ pc' = "pump"
  /\ UNCHANGED <<rect, clip, cursor, aside, focused, queue, keyboard>>

(* The user asks for the window's menu or title bar, to close or to paint. *)
Request ==
  /\ \/ menu' = TRUE /\ UNCHANGED <<closing, painting>>
     \/ closing' = TRUE /\ UNCHANGED <<menu, painting>>
     \/ painting' = TRUE /\ UNCHANGED <<menu, closing>>
  /\ UNCHANGED <<pc, rect, clip, cursor, aside, focused, sent, posted, moved, typed, keyboard>>

Environment ==
  /\ open
  /\ \/ MoveCursor
     \/ MoveWindow
     \/ TakeCapture
     \/ LoseFocus
     \/ GainFocus
     \/ \E k \in Keys : ChangeKey(k) \/ ChangeKeyUnseen(k)
     \/ KeepKey
     \/ LeaveModal
     \/ Request
  /\ UNCHANGED <<msg, fields, open>>

Program ==
  \/ CaptureOrFree
  \/ swapAndPollSize
  \/ HandleSent
  \/ Peek
  \/ PeekNothing
  \/ Dispatch
  \/ Present

Next == Program \/ Environment

(* Nothing the program calls blocks but the modal loops, which the user    *)
(* ends or does not.                                                       *)
Spec == Init /\ [][Next]_vars /\ WF_vars(Program)

-----------------------------------------------------------------------------
(* Properties *)

TypeOK ==
  /\ pc \in {"frame", "pump", "dispatch", "modal", "present", "ended"}
  /\ msg \in Message /\ (pc = "dispatch" => msg.kind # "none")
  /\ captureMouse \in BOOLEAN /\ shouldClose \in BOOLEAN
  /\ modsL \subseteq Modifiers /\ modsR \subseteq Modifiers
  /\ xSum \in Int
  /\ rect \in Rects /\ clip \in {Cut(r) : r \in Rects \cup {Desktop}} /\ cursor \in Int
  /\ aside \in BOOLEAN /\ focused \in BOOLEAN /\ open \in BOOLEAN
  /\ held \subseteq Keys /\ unseen \subseteq Cased
  /\ sent \in Seq(Notices) /\ posted \in Seq(KeyMessage)
  /\ moved \in BOOLEAN /\ typed \in BOOLEAN
  /\ menu \in BOOLEAN /\ closing \in BOOLEAN /\ painting \in BOOLEAN

(* The cursor is clipped to the window if and only if the mouse is         *)
(* captured: never once it was freed, and to what is on the screen of the  *)
(* place the window has now, whatever was moved, resized, lost and         *)
(* regained, as soon as the window has the focus and the notices sent to it*)
(* are handled.                                                            *)
ClipMatches ==
  /\ ~captureMouse => clip = Desktop
  /\ captureMouse /\ open /\ focused /\ sent = <<>> => clip = Cut(rect)

MessagesFor(k) == {i \in DOMAIN posted : posted[i].code = Code[k]}
Dispatching(k) == pc = "dispatch" /\ msg.kind \in KeyKinds /\ msg.code = Code[k]

(* Of the keys that have a case in the procedure, the modifiers listeners  *)
(* are told are those of the keys that are down, left and right apart: such*)
(* a key is only out of step while a message for it is under way, or when  *)
(* it changed where the procedure does not look.                           *)
ModifiersFollowKeys ==
  open => \A k \in Cased :
            \/ k \in unseen \/ MessagesFor(k) # {} \/ Dispatching(k)
            \/ k \in held <=>
                 Modifier[Code[k]] \in (IF Code[k] \in LeftCodes THEN modsL ELSE modsR)

(* The centre the cursor is put back to is that from which the message     *)
(* measures, and on the screen.  It is not that from which the message     *)
(* measures where the sum of the edges is odd and negative: halving edge by*)
(* edge and as a whole disagree there.  It is not on the screen when less  *)
(* than half of the window is.                                             *)
Centred ==
  /\ centerX(rect) = rect.left + cCentX(rect)
  /\ Inside(centerX(rect), Desktop)

(* What the mouse has moved: counted, and on the screen still to be counted*)
Travelled == Wrap(xSum + cursor - rect.left - cCentX(rect))

(* The program neither loses nor invents motion while the mouse is         *)
(* captured: putting the cursor back moves what it was away from the centre*)
(* into the sum.  Excepted are a cursor or a window that moved after the   *)
(* message was retrieved, a clip that is changed, which drags the cursor,  *)
(* or is of another place, and a window whose centre the cursor is not put *)
(* back to: there each move counts again what it could not put back.       *)
MotionCounted ==
  [][/\ captureMouse /\ captureMouse' /\ pc' # pc /\ open'
     /\ Centred /\ clip \in {Cut(rect), Desktop} /\ clip' = clip
     /\ msg.kind = "WM_MOUSEMOVE" => msg.x = cursor - rect.left
     => Travelled' = Travelled]_vars

(* Putting the cursor back causes a message that puts the cursor back: the *)
(* pump ends all the same, so that frames go on, once nobody but the       *)
(* program acts, whatever its listeners do to the mouse; unless the cursor *)
(* cannot be put back to the centre, or the user stays in a modal loop.    *)
FramesGoOn ==
  <>[][~Environment]_vars /\ <>[]Centred =>
    []<>(pc \in {"frame", "ended"}) \/ <>[](pc = "modal")
=============================================================================
