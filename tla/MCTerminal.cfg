\* Terminal: a two-by-two screen over a ring of three rows, one parameter byte
\* per sequence in a three-bit int.
SPECIFICATION Spec
CONSTANTS
  Rows = 2
  Cols = 2
  Scrollback = 3
  TabStop = 8
  CsiMax = 1
  IntHalf = 4
  Bytes <- MCBytes
  GlyphOf <- MCGlyphOf
  Deltas <- MCDeltas
INVARIANTS
  TypeOK
  DrawsTheWindow
PROPERTIES
  KeepsLog
  WritesAtCursor
CHECK_DEADLOCK TRUE
