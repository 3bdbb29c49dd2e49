------------------------------- MODULE TermFont -------------------------------
(***************************************************************************)
(* The terminal's renderer (client/source/termfont.c, termfont.h): the     *)
(* glyph atlas in the GPU's tile order, the run-coalescing fallback, and   *)
(* what a frame draws for each cell of the view.  Palettes are left out: a *)
(* colour is the index it has in them.  A glyph is its rows, each the set  *)
(* of its lit columns.                                                     *)
(***************************************************************************)
EXTENDS Terminal

TilesX == 16
TilePixels == 0..7

TileIndex(ch) == IF ch \in 32..126 THEN ch - 32 ELSE -1

(* The bits of x and y interleaved, x lowest: the PICA200 tile order. *)
Morton(x, y) ==
  (x % 2) + 2 * (y % 2) + 4 * ((x \div 2) % 2) + 8 * ((y \div 2) % 2)
  + 16 * (x \div 4) + 32 * (y \div 4)

ByteOffset(idx, x, y) ==
  ((idx \div TilesX) * TilesX + (idx % TilesX)) * 64 + Morton(x, y)

(* A lit pixel is 1; out[ab_atlas_morton(x, y)] for every pixel. *)
ExpandGlyph(rows) ==
  [o \in 0..63 |-> IF \E x, y \in TilePixels : o = Morton(x, y) /\ x \in rows[y]
                   THEN 1 ELSE 0]

(* ab_termfont_init: tile i is copied to where its first pixel goes. *)
Atlas(font, size) ==
  [o \in 0..size-1 |->
     IF \E i \in DOMAIN font : o \in ByteOffset(i, 0, 0)..(ByteOffset(i, 0, 0) + 63)
     THEN LET i == CHOOSE i \in DOMAIN font :
                     o \in ByteOffset(i, 0, 0)..(ByteOffset(i, 0, 0) + 63)
          IN  ExpandGlyph(font[i])[o - ByteOffset(i, 0, 0)]
     ELSE 0]

(* draw_glyph: one rectangle per maximal run of lit columns. *)
Runs(bits) == {r \in TilePixels \X TilePixels :
                 /\ r[1]..r[2] # {} /\ r[1]..r[2] \subseteq bits
                 /\ r[1] - 1 \notin bits /\ r[2] + 1 \notin bits}

(* ab_termfont_draw, one cell: the glyph (0 when nothing is drawn), the    *)
(* two colours, and whether a background is drawn.                         *)
Drawn(s, r, c) ==
  LET cell    == Cell(s, r, c)
      cursor  == s.off = 0 /\ r = s.row /\ c = CursorCol(s)
      inverse == cell.attr.inverse # cursor
      ink     == [table |-> IF cell.attr.bold THEN "bold" ELSE "fg", index |-> cell.attr.fg]
      paper   == [table |-> "bg", index |-> cell.attr.bg]
  IN  [glyph  |-> IF cell.ch = 32 THEN 0 ELSE cell.ch,
       fg     |-> IF inverse THEN paper ELSE ink,
       bg     |-> IF inverse THEN ink ELSE paper,
       filled |-> cell.attr.bg # DefaultColor \/ inverse]

(* A frame shows the log's window at the scroll offset, at every offset    *)
(* and every turn of the ring, and one block cursor exactly when the view  *)
(* is the live screen: a cell whose colours are swapped without its        *)
(* attribute saying so.                                                    *)
DrawsTheWindow ==
  \A r \in 0..Rows-1, c \in 0..Cols-1 :
    LET cell == Log!Window[r + 1][c]
        d    == Drawn(t, r, c)
        block == t.off = 0 /\ <<r, c>> = <<t.row, CursorCol(t)>>
    IN  /\ d.glyph = (IF cell.ch = 32 THEN 0 ELSE cell.ch)
        /\ (d.bg.table # "bg") <=> (cell.attr.inverse # block)
        /\ {d.fg.index, d.bg.index} = {cell.attr.fg, cell.attr.bg}

=============================================================================
