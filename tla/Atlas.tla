------------------------------- MODULE Atlas -------------------------------
(***************************************************************************)
(* The glyph atlas of the font examples: where add puts a glyph, and the   *)
(* GPU commands an atlas and its image live by.  An atlas is a record:     *)
(*                                                                         *)
(*   lastX, lastY, rwHeight   the place for the next glyph, and the height *)
(*                            of the row it is in                          *)
(*   glyphBounds              where the glyph of a character is, in texels *)
(*   modifying                AtlasInfo.modifying                          *)
(*   recorded                 what its command buffer holds                *)
(*   rs                       the temporary textures to be destroyed       *)
(*                                                                         *)
(* glyphBoundsByIndex is never filled, so that the first lines of add are  *)
(* not reached; reset is not called by the text renderer.                  *)
(***************************************************************************)
EXTENDS Integers, Sequences

CONSTANTS
  Width, Height,  (* of an atlas                                           *)
  Chars,
  Glyph           (* the size of each character's bitmap                   *)

(* add does not ask whether a glyph is wider than the atlas.               *)
ASSUME AtlasAssumption ==
  /\ Width \in Nat \ {0} /\ Height \in Nat \ {0}
  /\ Glyph \in [Chars -> [width : 0 .. Width, height : Nat]]

(* Map.put                                                                 *)
Put(map, key, value) ==
  [k \in DOMAIN map \cup {key} |-> IF k = key THEN value ELSE map[k]]

Rect == [x : Nat, y : Nat, width : Nat, height : Nat]

Texels(r) == (r.x .. r.x + r.width - 1) \X (r.y .. r.y + r.height - 1)

EmptyAtlas ==
  [lastX |-> 0, lastY |-> 0, rwHeight |-> 0, glyphBounds |-> <<>>,
   modifying |-> FALSE, recorded |-> <<>>, rs |-> {}]

-----------------------------------------------------------------------------
(* add *)

(* add, up to its return false: a glyph the row has no room for starts the *)
(* next one, even if it is refused then.                                   *)
Wrapped(a, c) ==
  IF a.lastX + Glyph[c].width >= Width
    THEN [a EXCEPT !.lastX = 0, !.lastY = @ + a.rwHeight, !.rwHeight = 0]
    ELSE a

Accepts(a, c) == Wrapped(a, c).lastY + Glyph[c].height < Height

(* Where a glyph goes.                                                     *)
PlaceOf(a, c) ==
  [x |-> a.lastX, y |-> a.lastY, width |-> Glyph[c].width, height |-> Glyph[c].height]

(* Mutant: the row is as high as the glyph added last.                     *)
PlacedLast(a, c) ==
  [a EXCEPT !.rwHeight = Glyph[c].height,
            !.glyphBounds = Put(@, c, PlaceOf(a, c)),
            !.lastX = @ + Glyph[c].width]

(* Mutant: a glyph without a bitmap gets no bounds.                        *)
PlacedDrawn(a, c) ==
  IF Glyph[c].width = 0 THEN a
  ELSE [a EXCEPT !.rwHeight = IF Glyph[c].height > @ THEN Glyph[c].height ELSE @,
                 !.glyphBounds = Put(@, c, PlaceOf(a, c)),
                 !.lastX = @ + Glyph[c].width]

(* add, from there on, but for blitGlyph.                                  *)
Placed(a, c) ==
  [a EXCEPT !.rwHeight = IF Glyph[c].height > @ THEN Glyph[c].height ELSE @,
            !.glyphBounds = Put(@, c, PlaceOf(a, c)),
            !.lastX = @ + Glyph[c].width]

(* glyph.buffer: a blank has none.                                         *)
HasBitmap(c) == Glyph[c].width > 0 /\ Glyph[c].height > 0

-----------------------------------------------------------------------------
(* Images and the commands on them.  An image is its layout and what its   *)
(* texels show: a character, or Blank.  The one buffer, TextRenderer.draw, *)
(* has a number no image has.                                              *)

Blank == "blank"

NewImage(w, h) ==
  [layout |-> "UNDEFINED", texels |-> [t \in Texels([x |-> 0, y |-> 0, width |-> w, height |-> h]) |-> Blank]]

DrawBuffer == 0

(* StageMask, as the sets of the stages these commands have, and one of    *)
(* the two scopes of a barrier: stages and the accesses in them.           *)
TOP_OF_PIPE == {}
GRAPHICS == {"vertex input", "fragment shader", "attachment output"}
COLOR_ATTACHMENT_OUTPUT == {"attachment output"}
TRANSFER == {"transfer"}

Scope(stages, access) == [stages |-> stages, access |-> access]

Transition(image, from, to, before, after) ==
  [op |-> "transition", image |-> image, from |-> from, to |-> to, before |-> before, after |-> after]
TransitionBuffer(before, after) ==
  [op |-> "transitionBuffer", image |-> DrawBuffer, before |-> before, after |-> after]
CopyBuffer(image, c) == [op |-> "copyBuffer", image |-> image, symbol |-> c]
CopyImage(src, dst, r) == [op |-> "copyImage", src |-> src, image |-> dst, at |-> r]
UpdateBuffer(data) == [op |-> "updateBuffer", data |-> data]
Draw(image, count) == [op |-> "draw", image |-> image, count |-> count]

(* The barriers of the constructor, beginModifications and submit.         *)
Prepare(i) ==
  Transition(i, "UNDEFINED", "SHADER_READONLY",
             Scope(TOP_OF_PIPE, "NONE"), Scope(GRAPHICS, "SHADER_READ"))
BeginModifications(i) ==
  Transition(i, "SHADER_READONLY", "TRANSFER_DST",
             Scope(GRAPHICS, "SHADER_READ"), Scope(COLOR_ATTACHMENT_OUTPUT, "TRANSFER_WRITE"))
EndModifications(i) ==
  Transition(i, "TRANSFER_DST", "SHADER_READONLY",
             Scope(COLOR_ATTACHMENT_OUTPUT, "TRANSFER_WRITE"), Scope(GRAPHICS, "SHADER_READ"))

(* What Texture.create submits for the bitmap of a glyph.                  *)
Filling(t, c) ==
  <<Transition(t, "UNDEFINED", "TRANSFER_DST",
               Scope(TOP_OF_PIPE, "NONE"), Scope(TRANSFER, "TRANSFER_WRITE")),
    CopyBuffer(t, c),
    Transition(t, "TRANSFER_DST", "TRANSFER_SRC",
               Scope(TRANSFER, "TRANSFER_WRITE"), Scope(GRAPHICS, "COLOR_READ"))>>

-----------------------------------------------------------------------------
(* Which commands of a submission wait for which *)

Use(on, stage, access) == [on |-> on, stage |-> stage, access |-> access]

(* What a command other than a barrier reads and writes.                   *)
Uses(cmd) ==
  CASE cmd.op = "copyBuffer" -> {Use(cmd.image, "transfer", "TRANSFER_WRITE")}
    [] cmd.op = "copyImage" -> {Use(cmd.src, "transfer", "TRANSFER_READ"),
                                Use(cmd.image, "transfer", "TRANSFER_WRITE")}
    [] cmd.op = "updateBuffer" -> {Use(DrawBuffer, "transfer", "TRANSFER_WRITE")}
    [] cmd.op = "draw" -> {Use(DrawBuffer, "vertex input", "VERTEX_READ"),
                           Use(cmd.image, "fragment shader", "SHADER_READ")}

IsBarrier(cmd) == cmd.op \in {"transition", "transitionBuffer"}

Covers(barrier, scope, cmd) ==
  \E u \in Uses(cmd) :
    u.on = barrier.image /\ u.stage \in scope.stages /\ u.access = scope.access

(* Whether a command waits for an earlier one: only barriers make it so,   *)
(* for what their scopes cover, and barriers that share a stage.           *)
Ordered(first, second) ==
  CASE IsBarrier(first) /\ IsBarrier(second) -> first.after.stages \cap second.before.stages # {}
    [] IsBarrier(first) /\ ~IsBarrier(second) -> Covers(first, first.after, second)
    [] ~IsBarrier(first) /\ IsBarrier(second) -> Covers(second, second.before, first)
    [] OTHER -> FALSE

-----------------------------------------------------------------------------
(* Whether a command is legal for the images there are, and a draw shows   *)
(* the characters its instances are for.  In which layout an atlas is when *)
(* glyphs are copied into it is not asked: its barriers name               *)
(* COLOR_ATTACHMENT_OUTPUT, so that no copy is ordered with them.          *)
Legal(cmd, images, instances) ==
  IF cmd.op \in {"updateBuffer", "transitionBuffer"} THEN TRUE
  ELSE
    /\ cmd.image \in DOMAIN images
    /\ LET image == images[cmd.image] IN
       CASE cmd.op = "transition" -> cmd.from \in {"UNDEFINED", image.layout}
         [] cmd.op = "copyBuffer" -> image.layout = "TRANSFER_DST"
         [] cmd.op = "copyImage" ->
              /\ Texels(cmd.at) \subseteq DOMAIN image.texels
              /\ cmd.src \in DOMAIN images
              /\ images[cmd.src].layout = "TRANSFER_SRC"
         [] cmd.op = "draw" ->
              /\ image.layout = "SHADER_READONLY"
              /\ cmd.count <= Len(instances)
              /\ \A i \in 1 .. cmd.count : \A t \in Texels(instances[i].uv) :
                   t \in DOMAIN image.texels /\ image.texels[t] = instances[i].symbol

(* The images after a command: its image gets a layout and texels.         *)
After(cmd, images) ==
  LET image == images[cmd.image]
      Written(layout, texels) ==
        [images EXCEPT ![cmd.image] = [layout |-> layout, texels |-> texels]]
  IN CASE cmd.op = "transition" ->
            Written(cmd.to, IF cmd.from = "UNDEFINED"
                            THEN [t \in DOMAIN image.texels |-> Blank] ELSE image.texels)
       [] cmd.op = "copyBuffer" ->
            Written(image.layout, [t \in DOMAIN image.texels |-> cmd.symbol])
       [] cmd.op = "copyImage" ->
            Written(image.layout,
                    [t \in DOMAIN image.texels |->
                       IF t \in Texels(cmd.at)
                       THEN images[cmd.src].texels[<<t[1] - cmd.at.x, t[2] - cmd.at.y>>]
                       ELSE image.texels[t]])
       [] OTHER -> images

-----------------------------------------------------------------------------
(* No two glyphs of an atlas share a texel, and none leaves it.            *)
Packed(a) ==
  /\ \A c \in DOMAIN a.glyphBounds :
       Texels(a.glyphBounds[c]) \subseteq (0 .. Width - 1) \X (0 .. Height - 1)
  /\ \A c, d \in DOMAIN a.glyphBounds :
       c # d => Texels(a.glyphBounds[c]) \cap Texels(a.glyphBounds[d]) = {}
=============================================================================
