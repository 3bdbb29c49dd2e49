------------------------------ MODULE MCTerminal ------------------------------
(* Bounds for checking Terminal with TLC, and known answers of its pure     *)
(* parts.                                                                   *)
EXTENDS TermFont, FiniteSets

(* '?' 'A'..'D' 'H' 'J' 'K' 'd' 'm' '[' '1' '2' '5' ';', the controls BS HT *)
(* LF CR ESC, a UTF-8 lead byte and a continuation byte.                    *)
MCBytes == {63, 65, 66, 67, 68, 72, 74, 75, 100, 109, 91, 49, 50, 53, 59,
            8, 9, 10, 13, 27, 195, 169}
MCGlyphOf == [b \in 32..126 |-> IF b = 32 THEN 32 ELSE 63]
MCDeltas == {-1, 1}

(* The emulator at its real size (a shorter ring), for sequences longer     *)
(* than the ones TLC enumerates.                                            *)
Real == INSTANCE Terminal WITH Rows <- 24, Cols <- 50, Scrollback <- 26,
          CsiMax <- 32, IntHalf <- 2^29, Bytes <- 0..255,
          GlyphOf <- [b \in 32..126 |-> b]
After(bytes) == FoldLeft(Real!FeedByte, Real!Fresh, bytes)

(* client/test/termTest.c: CUP with both, one and no parameter, SGR lists,  *)
(* a tab stop, and a private or unknown sequence that leaves no trace.      *)
ASSUME CursorPositions ==
  LET At(bytes) == LET s == After(bytes) IN <<s.row, s.col>>
  IN  /\ At(<<27, 91, 51, 59, 53, 72>>) = <<2, 4>>      \* ESC [ 3 ; 5 H
      /\ At(<<65, 65, 27, 91, 51, 72>>) = <<2, 0>>      \* ESC [ 3 H
      /\ At(<<65, 65, 27, 91, 59, 55, 72>>) = <<0, 6>>  \* ESC [ ; 7 H
      /\ At(<<65, 65, 27, 91, 72>>) = <<0, 0>>
      /\ At(<<65, 9>>) = <<0, 8>>
      /\ At(<<65, 27, 91, 63, 50, 53, 108>>) = <<0, 1>> \* ESC [ ? 2 5 l
ASSUME Attributes ==
  /\ After(<<27, 91, 51, 49, 109>>).attr = [DefaultAttr EXCEPT !.fg = 1]
  /\ After(<<27, 91, 49, 59, 52, 52, 109>>).attr
       = [DefaultAttr EXCEPT !.bold = TRUE, !.bg = 4]
  /\ After(<<27, 91, 49, 59, 52, 52, 109, 27, 91, 48, 109>>).attr = DefaultAttr

(* The atlas: every pixel of every glyph has a byte of its own inside the   *)
(* 128 by 64 texture, and the byte holds the glyph's pixel.                 *)
Pixels == TilePixels \X TilePixels
ASSUME OffsetsAreOwn ==
  Cardinality({ByteOffset(i, p[1], p[2]) : i \in 0..94, p \in Pixels}) = 95 * 64
ASSUME OffsetsAreInside ==
  \A i \in 0..94, p \in Pixels : ByteOffset(i, p[1], p[2]) \in 0..(128 * 64 - 1)
Sample == [i \in 0..2 |-> [y \in TilePixels |-> {(y + i) % 8, (3 * y + i) % 8}]]
ASSUME AtlasHoldsGlyphs ==
  LET atlas == Atlas(Sample, 192)
  IN  \A i \in 0..2, p \in Pixels :
        (atlas[ByteOffset(i, p[1], p[2])] = 1) <=> (p[1] \in Sample[i][p[2]])

(* The fallback's rectangles are the lit columns, in at most four runs.     *)
ASSUME RunsCoverRow ==
  \A bits \in SUBSET TilePixels :
    /\ UNION {r[1]..r[2] : r \in Runs(bits)} = bits
    /\ Cardinality(Runs(bits)) <= 4
ASSUME TilesOfPrintables ==
  \A ch \in 0..255 : TileIndex(ch) \in (IF ch \in 32..126 THEN 0..94 ELSE {-1})
=============================================================================
