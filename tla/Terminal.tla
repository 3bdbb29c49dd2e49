------------------------------- MODULE Terminal -------------------------------
(***************************************************************************)
(* The device's terminal emulator (client/source/term.c): a ring of rows   *)
(* whose last Rows are the live screen, a cursor with a deferred wrap, the *)
(* current SGR attribute, a three-phase escape parser with a bounded CSI   *)
(* buffer, and a scroll offset into the history.  One record t is one      *)
(* ab_term; the operators are the file's functions on it.                  *)
(*                                                                         *)
(* ab_term_feed takes a chunk; here each byte is a step, so what holds in  *)
(* every state holds at every cut of a sequence over two chunks.  Bytes    *)
(* are their codes.  A C int has 2 * IntHalf values and its arithmetic     *)
(* wraps, which is what the compiled adds and multiplies of the parameter  *)
(* code do (the C standard leaves it undefined).                           *)
(***************************************************************************)
EXTENDS Integers, Sequences, SequencesExt

CONSTANTS Rows,        \* AB_TERM_ROWS
          Cols,        \* AB_TERM_COLS
          Scrollback,  \* AB_TERM_SCROLLBACK, the live rows included
          TabStop,     \* 8
          CsiMax,      \* AB_TERM_CSI_MAX
          IntHalf,     \* INT_MAX + 1
          Bytes,       \* the bytes a pane may emit
          GlyphOf,     \* what a cell keeps of a printable byte: the program
                       \* keeps the byte and never branches on it
          Deltas       \* the scroll distances of the keys

ASSUME TerminalAssumption ==
  /\ Rows \in Nat \ {0}
  /\ Cols \in Nat \ {0}
  /\ Scrollback \in Nat /\ Scrollback >= Rows
  /\ TabStop \in Nat \ {0}
  /\ CsiMax \in Nat
  /\ IntHalf \in Nat /\ IntHalf > Cols /\ IntHalf > Rows
  /\ Bytes \subseteq 0..255
  /\ GlyphOf \in [32..126 -> 32..126]
  /\ Deltas \subseteq Int

VARIABLE t

-----------------------------------------------------------------------------
(* Cells and attributes.                                                   *)

DefaultColor == 9
DefaultAttr == [fg |-> DefaultColor, bg |-> DefaultColor,
                bold |-> FALSE, inverse |-> FALSE]
Attr == [fg : (0..7) \cup {DefaultColor}, bg : (0..7) \cup {DefaultColor},
         bold : BOOLEAN, inverse : BOOLEAN]
Blank == [ch |-> 32, attr |-> DefaultAttr]
BlankRow == [c \in 0..Cols-1 |-> Blank]

(* Two's complement. *)
Wrapped(n) == ((n + IntHalf) % (2 * IntHalf)) - IntHalf
Clamp(n, lo, hi) == IF n \in lo..hi THEN n ELSE IF n < lo THEN lo ELSE hi

-----------------------------------------------------------------------------
(* The ring.                                                               *)

RingIndex(s, logical) == (s.base + logical) % Scrollback
LiveTop(s) == IF s.count > Rows THEN s.count - Rows ELSE 0
LiveIndex(s, r) == RingIndex(s, LiveTop(s) + r)

(* The same ring when a full one blanks the row after its oldest. *)
PushLineOffByOne(s) ==
  IF s.count < Scrollback
  THEN [s EXCEPT !.rows[RingIndex(s, s.count)] = BlankRow, !.count = @ + 1]
  ELSE [s EXCEPT !.rows[RingIndex(s, 1)] = BlankRow, !.base = (@ + 1) % Scrollback]

PushLine(s) ==
  IF s.count < Scrollback
  THEN [s EXCEPT !.rows[RingIndex(s, s.count)] = BlankRow, !.count = @ + 1]
  ELSE [s EXCEPT !.rows[s.base] = BlankRow, !.base = (@ + 1) % Scrollback]

Fresh == [rows |-> [i \in 0..Scrollback-1 |-> BlankRow],
          base |-> 0, count |-> Rows, off |-> 0,
          row |-> 0, col |-> 0, attr |-> DefaultAttr,
          phase |-> "ground", csi |-> <<>>]

-----------------------------------------------------------------------------
(* Cursor and editing primitives.                                          *)

(* The clamp that trusts the row not to be negative. *)
MoveToUnclamped(s, r, c) ==
  [s EXCEPT !.row = IF Wrapped(r) >= Rows THEN Rows - 1 ELSE Wrapped(r),
            !.col = Clamp(Wrapped(c), 0, Cols)]

(* clamp_cursor after an int assignment; column Cols means "wrap first". *)
MoveTo(s, r, c) == [s EXCEPT !.row = Clamp(Wrapped(r), 0, Rows - 1),
                             !.col = Clamp(Wrapped(c), 0, Cols)]

LineFeed(s) ==
  LET home == [s EXCEPT !.col = 0]
  IN  IF s.row >= Rows - 1 THEN [PushLine(home) EXCEPT !.row = Rows - 1]
                           ELSE [home EXCEPT !.row = @ + 1]

(* The wrap that forgets that the live screen has moved. *)
PutCharStaleRow(s, ch) ==
  LET at == IF s.col >= Cols THEN LineFeed(s) ELSE s
  IN  [at EXCEPT !.rows[LiveIndex(s, at.row)][at.col] = [ch |-> GlyphOf[ch], attr |-> at.attr],
                 !.col = @ + 1]

PutChar(s, ch) ==
  LET at == IF s.col >= Cols THEN LineFeed(s) ELSE s
  IN  [at EXCEPT !.rows[LiveIndex(at, at.row)][at.col] = [ch |-> GlyphOf[ch], attr |-> at.attr],
                 !.col = @ + 1]

(* Blank columns from..to of live row r. *)
BlankCells(s, r, from, to) ==
  [s EXCEPT !.rows[LiveIndex(s, r)] =
     [c \in 0..Cols-1 |-> IF c \in from..to THEN Blank ELSE @[c]]]

(* Blank all live rows from r down. *)
BlankRowsFrom(s, r) ==
  [s EXCEPT !.rows = [i \in 0..Scrollback-1 |->
     IF \E q \in r..Rows-1 : i = LiveIndex(s, q) THEN BlankRow ELSE @[i]]]

EraseAt(s) == IF s.col < Cols THEN s.col ELSE Cols - 1

EraseLine(s, mode) ==
  CASE mode = 1 -> BlankCells(s, s.row, 0, EraseAt(s))
    [] mode = 2 -> BlankCells(s, s.row, 0, Cols - 1)
    [] OTHER    -> BlankCells(s, s.row, EraseAt(s), Cols - 1)

EraseDisplay(s, mode) ==
  IF mode \in {1, 2, 3} THEN BlankRowsFrom(s, 0)
  ELSE BlankRowsFrom(BlankCells(s, s.row, EraseAt(s), Cols - 1), s.row + 1)

-----------------------------------------------------------------------------
(* Control sequences.                                                      *)

Semicolon == 59
IsDigit(b) == b \in 48..57

(* csi_params: the values up to the max-th; other bytes are skipped. *)
Params(csi, max, dflt) ==
  LET Value(acc) == IF acc.have THEN acc.val ELSE dflt
      Read(acc, b) ==
        CASE Len(acc.out) = max -> acc
          [] Len(acc.out) < max /\ IsDigit(b) ->
               [acc EXCEPT !.val = Wrapped(@ * 10 + (b - 48)), !.have = TRUE]
          [] Len(acc.out) < max /\ b = Semicolon ->
               [out |-> Append(acc.out, Value(acc)), val |-> 0, have |-> FALSE]
          [] OTHER -> acc
      end == FoldLeft(Read, [out |-> <<>>, val |-> 0, have |-> FALSE], csi)
  IN  IF Len(end.out) < max THEN Append(end.out, Value(end)) ELSE end.out

(* out[i], which holds the default when it was not written. *)
Param(csi, max, dflt, i) ==
  LET out == Params(csi, max, dflt) IN IF i <= Len(out) THEN out[i] ELSE dflt

Sgr(attr, code) ==
  CASE code = 0       -> DefaultAttr
    [] code = 1       -> [attr EXCEPT !.bold = TRUE]
    [] code = 7       -> [attr EXCEPT !.inverse = TRUE]
    [] code = 22      -> [attr EXCEPT !.bold = FALSE]
    [] code = 27      -> [attr EXCEPT !.inverse = FALSE]
    [] code \in 30..37 -> [attr EXCEPT !.fg = code - 30]
    [] code = 39      -> [attr EXCEPT !.fg = DefaultColor]
    [] code \in 40..47 -> [attr EXCEPT !.bg = code - 40]
    [] code = 49      -> [attr EXCEPT !.bg = DefaultColor]
    [] OTHER          -> attr

(* dispatch_csi, by final byte. *)
Dispatch(s, final) ==
  LET first == Param(s.csi, 1, 1, 1)
      steps == IF first > 0 THEN first ELSE 1
      mode  == Param(s.csi, 1, 0, 1)
  IN  CASE final \in {72, 102} ->                                   \* H f
             MoveTo(s, Param(s.csi, 2, 1, 1) - 1, Param(s.csi, 2, 1, 2) - 1)
        [] final = 65  -> MoveTo(s, s.row - steps, s.col)           \* A
        [] final = 66  -> MoveTo(s, s.row + steps, s.col)           \* B
        [] final = 67  -> MoveTo(s, s.row, s.col + steps)           \* C
        [] final = 68  -> MoveTo(s, s.row, s.col - steps)           \* D
        [] final = 71  -> MoveTo(s, s.row, first - 1)               \* G
        [] final = 100 -> MoveTo(s, first - 1, s.col)               \* d
        [] final = 75  -> EraseLine(s, mode)                        \* K
        [] final = 74  -> EraseDisplay(s, mode)                     \* J
        [] final = 109 ->                                           \* m
             [s EXCEPT !.attr = FoldLeft(Sgr, @, Params(s.csi, 16, 0))]
        [] OTHER       -> s

-----------------------------------------------------------------------------
(* The parser.                                                             *)

Esc == 27

Tab(s) == LET next == (s.col \div TabStop + 1) * TabStop
          IN  [s EXCEPT !.col = IF next >= Cols THEN Cols - 1 ELSE next]

FeedGround(s, b) ==
  CASE b = Esc              -> [s EXCEPT !.phase = "esc"]
    [] b = 13               -> [s EXCEPT !.col = 0]
    [] b \in {10, 11, 12}   -> LineFeed(s)
    [] b = 8                -> [s EXCEPT !.col = IF @ > 0 THEN @ - 1 ELSE 0]
    [] b = 9                -> Tab(s)
    [] b \in 32..126        -> PutChar(s, b)
    [] b \in 192..255       -> PutChar(s, 63)    \* a UTF-8 lead byte: one '?'
    [] OTHER                -> s                 \* a continuation, BEL, NUL ...

FeedEsc(s, b) ==
  CASE b = 91  -> [s EXCEPT !.phase = "csi", !.csi = <<>>]
    [] b = Esc -> s
    [] OTHER   -> [s EXCEPT !.phase = "ground"]

(* The bytes Params skips are all kept as one. *)
Buffered(b) == IF IsDigit(b) \/ b = Semicolon THEN b ELSE 63

FeedCsi(s, b) ==
  CASE b \in 64..126 -> [Dispatch(s, b) EXCEPT !.phase = "ground", !.csi = <<>>]
    [] b = Esc       -> [s EXCEPT !.phase = "esc", !.csi = <<>>]
    [] OTHER         -> IF Len(s.csi) < CsiMax
                        THEN [s EXCEPT !.csi = Append(@, Buffered(b))] ELSE s

FeedByte(s, b) ==
  CASE s.phase = "ground" -> FeedGround(s, b)
    [] s.phase = "esc"    -> FeedEsc(s, b)
    [] s.phase = "csi"    -> FeedCsi(s, b)

-----------------------------------------------------------------------------
(* Reading the view.                                                       *)

ScrollMax(s) == IF s.count > Rows THEN s.count - Rows ELSE 0

(* The read that forgets that the ring has turned. *)
CellUnturned(s, r, c) ==
  LET panned == LiveTop(s) - s.off
      top == IF panned < 0 THEN 0 ELSE panned
  IN  IF r \notin 0..Rows-1 \/ c \notin 0..Cols-1 \/ top + r >= s.count
      THEN Blank ELSE s.rows[(top + r) % Scrollback][c]

Cell(s, r, c) ==
  LET panned == LiveTop(s) - s.off
      top == IF panned < 0 THEN 0 ELSE panned
  IN  IF r \notin 0..Rows-1 \/ c \notin 0..Cols-1 \/ top + r >= s.count
      THEN Blank ELSE s.rows[RingIndex(s, top + r)][c]

CursorCol(s) == IF s.col < Cols THEN s.col ELSE Cols - 1

-----------------------------------------------------------------------------
Init == t = Fresh

Feed(b) == t' = [FeedByte(t, b) EXCEPT !.off = 0]
Scroll(d) == t' = [t EXCEPT !.off = Clamp(@ + d, 0, ScrollMax(t))]
ScrollToBottom == t' = [t EXCEPT !.off = 0]
Reset == t' = Fresh

Next ==
  \/ \E b \in Bytes : Feed(b)
  \/ \E d \in Deltas : Scroll(d)
  \/ ScrollToBottom
  \/ Reset

Spec == Init /\ [][Next]_t

-----------------------------------------------------------------------------
(* The abstract log: the history is what the ring holds above the live     *)
(* screen.                                                                 *)

Line(s, logical) == s.rows[RingIndex(s, logical)]
History(s) == [i \in 1..LiveTop(s) |-> Line(s, i - 1)]
Screen(s) == [i \in 1..Rows |-> Line(s, LiveTop(s) + i - 1)]

Log == INSTANCE ScrollLog WITH Height <- Rows, Depth <- Scrollback - Rows,
         BlankLine <- BlankRow, past <- History(t), live <- Screen(t), view <- t.off

(* The cursor stays in the grid (column Cols is the deferred wrap) however *)
(* far a control sequence moves it and however its parameter overflows:    *)
(* it indexes the ring at the next print or erase.                         *)
TypeOK ==
  /\ t.rows \in [0..Scrollback-1 -> [0..Cols-1 -> [ch : 32..126, attr : Attr]]]
  /\ t.base \in 0..Scrollback-1
  /\ t.count \in Rows..Scrollback
  /\ t.off \in 0..ScrollMax(t)
  /\ t.row \in 0..Rows-1
  /\ t.col \in 0..Cols
  /\ t.attr \in Attr
  /\ t.phase \in {"ground", "esc", "csi"}
  /\ t.csi \in Seq(0..255) /\ Len(t.csi) <= CsiMax

(* The emulator is a scrolling log: no output, erase, cursor move or       *)
(* malformed sequence changes or loses a line of history, and a scroll     *)
(* moves exactly one line into it, across the wrap of the ring.            *)
KeepsLog == Log!Spec

(* One byte writes one cell: a live cell that changes (compared with the   *)
(* line that is there after a scroll) was blanked, or it is the one just   *)
(* left of the cursor.  A partial or malformed sequence writes nowhere     *)
(* else (term.c: "absorbed without corrupting the grid").                  *)
WritesAtCursor ==
  [][LET scrolled == t'.count # t.count \/ t'.base # t.base
         before == IF scrolled THEN Append(Tail(Screen(t)), BlankRow) ELSE Screen(t)
     IN  t'.phase # "csi" /\ t' # Fresh =>
           \A r \in 0..Rows-1, c \in 0..Cols-1 :
             \/ Screen(t')[r + 1][c] = before[r + 1][c]
             \/ Screen(t')[r + 1][c] = Blank
             \/ t'.row = r /\ t'.col = c + 1]_t

=============================================================================
