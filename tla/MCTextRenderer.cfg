SPECIFICATION Spec
CONSTANTS
  Width = 4
  Height = 3
  Chars <- MCChars
  Glyph <- MCGlyph
  MaxAtlases = 2
  MaxText = 2
INVARIANTS CommandsLegal AtlasesPacked FrameShowsText FailsOnlyIfTooHigh TexturesFreed
CHECK_DEADLOCK FALSE
