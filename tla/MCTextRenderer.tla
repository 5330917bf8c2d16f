--------------------------- MODULE MCTextRenderer ---------------------------
(* Atlases of a few texels: rows wrap, atlases fill up, one glyph has no   *)
(* bitmap and one is too high for every atlas.                             *)
EXTENDS TextRenderer

G(w, h) == [width |-> w, height |-> h]

MCChars == {"a", "i", "space", "tall"}
MCGlyph == [c \in MCChars |->
  CASE c = "a" -> G(2, 2) [] c = "i" -> G(1, 1)
    [] c = "space" -> G(0, 0) [] c = "tall" -> G(1, 3)]
=============================================================================
