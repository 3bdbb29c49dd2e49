---------------------------- MODULE TerminalProofs ----------------------------
(***************************************************************************)
(* The terminal emulator for every size of the screen, of the ring and of  *)
(* the parameter buffer, every width of an int, every set of bytes and     *)
(* every scroll distance.  One record type holds of the emulator in every  *)
(* state; FeedShape says of each byte that it either edits live cells or   *)
(* pushes one line, and from it follow the refinement of the scrolling     *)
(* log, the writes at the cursor and what a frame draws.                   *)
(***************************************************************************)
EXTENDS TermFont, FoldFacts

CellSet == [ch : 32..126, attr : Attr]
LineSet == [0..Cols-1 -> CellSet]
RingSet == [0..Scrollback-1 -> LineSet]
CsiSet == {q \in Seq(0..255) : Len(q) <= CsiMax}

(* One emulator: the ring, the cursor on the grid or one past its right    *)
(* edge, and a parser with a bounded buffer.                               *)
Term == [rows  : RingSet,
         base  : 0..Scrollback-1,
         count : Rows..Scrollback,
         off   : Nat,
         row   : 0..Rows-1,
         col   : 0..Cols,
         attr  : Attr,
         phase : {"ground", "esc", "csi"},
         csi   : CsiSet]

(* Output that stays on the screen: no line above it changes, and a live   *)
(* cell that does was blanked or is the one just left of the cursor.       *)
Edited(s, u) ==
  /\ u.base = s.base /\ u.count = s.count
  /\ \A m \in 0..(LiveTop(s) - 1) : Line(u, m) = Line(s, m)
  /\ \A r \in 0..Rows-1, c \in 0..Cols-1 :
       \/ Line(u, LiveTop(s) + r)[c] = Line(s, LiveTop(s) + r)[c]
       \/ Line(u, LiveTop(s) + r)[c] = Blank
       \/ u.row = r /\ u.col = c + 1

(* Output past the bottom: every line moves up by one, the oldest of a     *)
(* full ring is gone, and the new bottom line is blank but for the cell    *)
(* just left of the cursor.                                                *)
Moved(s, u) ==
  /\ u.count = IF s.count < Scrollback THEN s.count + 1 ELSE s.count
  /\ \A m \in 0..(u.count - 2) : Line(u, m) = Line(s, m + s.count + 1 - u.count)
  /\ \A c \in 0..Cols-1 :
       \/ Line(u, u.count - 1)[c] = Blank
       \/ u.row = Rows - 1 /\ u.col = c + 1
  /\ u.count # s.count \/ u.base # s.base \/ Rows = 1

(* The same before anything is written on the new line. *)
Pushed(s, u) ==
  /\ u.count = IF s.count < Scrollback THEN s.count + 1 ELSE s.count
  /\ \A m \in 0..(u.count - 2) : Line(u, m) = Line(s, m + s.count + 1 - u.count)
  /\ Line(u, u.count - 1) = BlankRow
  /\ u.count # s.count \/ u.base # s.base \/ Rows = 1

(* An erase: live cells are blanked, the cursor stays. *)
Blanked(s, u) ==
  /\ u.base = s.base /\ u.count = s.count /\ u.row = s.row /\ u.col = s.col
  /\ \A m \in 0..(LiveTop(s) - 1) : Line(u, m) = Line(s, m)
  /\ \A r \in 0..Rows-1, c \in 0..Cols-1 :
       \/ Line(u, LiveTop(s) + r)[c] = Line(s, LiveTop(s) + r)[c]
       \/ Line(u, LiveTop(s) + r)[c] = Blank

(* What a byte may make of s. *)
Shape(s) == {u \in Term : Edited(s, u) \/ Moved(s, u)}

-----------------------------------------------------------------------------
(* The ring. *)

LEMMA Sizes ==
  /\ Rows \in Nat /\ Rows >= 1 /\ Cols \in Nat /\ Cols >= 1
  /\ Scrollback \in Nat /\ Scrollback >= Rows /\ CsiMax \in Nat
  /\ TabStop \in Nat /\ TabStop >= 1
BY TerminalAssumption

(* The index of a logical line, without the modulus. *)
LEMMA IndexWraps ==
  ASSUME NEW s, s.base \in 0..Scrollback-1, NEW l \in 0..Scrollback
  PROVE  /\ RingIndex(s, l) = IF s.base + l < Scrollback THEN s.base + l
                              ELSE s.base + l - Scrollback
         /\ RingIndex(s, l) \in 0..Scrollback-1
<1> DEFINE b == s.base
<1> HIDE DEF b
<1>1. b \in 0..Scrollback-1 /\ Scrollback \in Nat /\ Scrollback >= 1
  BY Sizes DEF b
<1>2. (b + l) % Scrollback = IF b + l < Scrollback THEN b + l ELSE b + l - Scrollback
  <2>1. CASE b + l < Scrollback
    BY <1>1, <2>1
  <2>2. CASE b + l >= Scrollback
    BY <1>1, <2>2
  <2> QED  BY <1>1, <2>1, <2>2
<1>3. RingIndex(s, l) = (b + l) % Scrollback
  BY DEF RingIndex, b
<1>4. (b + l) % Scrollback \in 0..Scrollback-1
  BY <1>1, <1>2
<1> QED  BY <1>2, <1>3, <1>4 DEF b

(* Two logical lines of the ring are two rows. *)
LEMMA IndicesDiffer ==
  ASSUME NEW s, s.base \in 0..Scrollback-1,
         NEW l \in 0..Scrollback-1, NEW m \in 0..Scrollback-1, l # m
  PROVE  RingIndex(s, l) # RingIndex(s, m)
<1>1. l \in 0..Scrollback /\ m \in 0..Scrollback
  BY Sizes
<1>2. RingIndex(s, l) = IF s.base + l < Scrollback THEN s.base + l
                        ELSE s.base + l - Scrollback
  BY <1>1, IndexWraps
<1>3. RingIndex(s, m) = IF s.base + m < Scrollback THEN s.base + m
                        ELSE s.base + m - Scrollback
  BY <1>1, IndexWraps
<1> QED  BY <1>2, <1>3, Sizes

LEMMA TopOfLive ==
  ASSUME NEW s \in Term
  PROVE  /\ LiveTop(s) = s.count - Rows /\ ScrollMax(s) = s.count - Rows
         /\ LiveTop(s) \in 0..(Scrollback - Rows)
         /\ \A r \in 0..Rows-1 : LiveTop(s) + r \in 0..Scrollback-1
         /\ s.base \in 0..Scrollback-1
<1>1. s.count \in Rows..Scrollback /\ s.base \in 0..Scrollback-1
  BY DEF Term
<1> QED  BY <1>1, Sizes DEF LiveTop, ScrollMax

(* A row rewritten at one logical line leaves the others. *)
LEMMA OneLineWritten ==
  ASSUME NEW s \in Term, NEW u, NEW l \in 0..Scrollback-1, NEW line,
         u.base = s.base, u.rows = [s.rows EXCEPT ![RingIndex(s, l)] = line]
  PROVE  \A m \in 0..Scrollback-1 : Line(u, m) = IF m = l THEN line ELSE Line(s, m)
<1> TAKE m \in 0..Scrollback-1
<1>1. s.base \in 0..Scrollback-1 /\ DOMAIN s.rows = 0..Scrollback-1
  BY DEF Term, RingSet
<1>2. l \in 0..Scrollback /\ m \in 0..Scrollback
  BY Sizes
<1>3. RingIndex(u, m) = RingIndex(s, m)
  BY DEF RingIndex
<1>4. RingIndex(s, m) \in 0..Scrollback-1 /\ RingIndex(s, l) \in 0..Scrollback-1
  BY <1>1, <1>2, IndexWraps
<1>5. m # l => RingIndex(s, m) # RingIndex(s, l)
  BY <1>1, IndicesDiffer
<1> QED  BY <1>1, <1>3, <1>4, <1>5 DEF Line

LEMMA BlankTyped ==
  /\ DefaultAttr \in Attr /\ Blank \in CellSet /\ BlankRow \in LineSet
  /\ \A c \in 0..Cols-1 : BlankRow[c] = Blank
<1>1. DefaultAttr \in Attr
  BY DEF DefaultAttr, Attr, DefaultColor
<1>2. Blank \in CellSet
  BY <1>1 DEF Blank, CellSet
<1> QED  BY <1>1, <1>2 DEF BlankRow, LineSet

(* ab_term's push_line: the lines keep their places, or all move up by one *)
(* when the ring was full, and the last is blank.                          *)
LEMMA PushLineMoves ==
  ASSUME NEW s \in Term, NEW u, u = PushLine(s)
  PROVE  /\ u \in Term
         /\ u.row = s.row /\ u.col = s.col /\ u.off = s.off
         /\ Pushed(s, u)
<1>1. s.count \in Rows..Scrollback /\ s.base \in 0..Scrollback-1
  BY DEF Term
<1>2. CASE s.count < Scrollback
  <2>1. u = [s EXCEPT !.rows[RingIndex(s, s.count)] = BlankRow, !.count = @ + 1]
    BY <1>2 DEF PushLine
  <2>2. s.count \in 0..Scrollback-1 /\ s.count + 1 \in Rows..Scrollback
    BY <1>1, <1>2, Sizes
  <2>3. RingIndex(s, s.count) \in 0..Scrollback-1
    BY <1>1, <2>2, IndexWraps
  <2>4. u \in Term
    <3>1. [s.rows EXCEPT ![RingIndex(s, s.count)] = BlankRow] \in RingSet
      BY <2>3, BlankTyped DEF Term, RingSet
    <3>2. u = [s EXCEPT !.rows = [s.rows EXCEPT ![RingIndex(s, s.count)] = BlankRow],
                        !.count = s.count + 1]
      BY <2>1
    <3> QED  BY <2>2, <3>1, <3>2 DEF Term
  <2>5. /\ u.rows = [s.rows EXCEPT ![RingIndex(s, s.count)] = BlankRow]
        /\ u.base = s.base /\ u.count = s.count + 1
        /\ u.row = s.row /\ u.col = s.col /\ u.off = s.off
    BY <2>1 DEF Term
  <2>6. \A m \in 0..Scrollback-1 :
          Line(u, m) = IF m = s.count THEN BlankRow ELSE Line(s, m)
    BY <2>2, <2>5, OneLineWritten
  <2>7. \A m \in 0..(u.count - 2) : Line(u, m) = Line(s, m + s.count + 1 - u.count)
    <3> TAKE m \in 0..(u.count - 2)
    <3>1. m \in 0..(s.count + 1 - 2) /\ m + s.count + 1 - u.count = m
      BY <1>1, <2>5, Sizes
    <3>2. m \in 0..Scrollback-1 /\ m # s.count
      BY <1>1, <2>2, <3>1, Sizes
    <3> QED  BY <2>6, <3>1, <3>2
  <2>8. Line(u, u.count - 1) = BlankRow
    BY <2>2, <2>5, <2>6
  <2> QED  BY <1>1, <1>2, <2>4, <2>5, <2>7, <2>8 DEF Pushed
<1>3. CASE s.count = Scrollback
  <2>1. u = [s EXCEPT !.rows[s.base] = BlankRow, !.base = (@ + 1) % Scrollback]
    BY <1>3, Sizes DEF PushLine
  <2>2. RingIndex(s, 1) = (s.base + 1) % Scrollback
    BY DEF RingIndex
  <2>3. 1 \in 0..Scrollback /\ 0 \in 0..Scrollback
    BY Sizes
  <2>4. /\ RingIndex(s, 1) = IF s.base + 1 < Scrollback THEN s.base + 1
                             ELSE s.base + 1 - Scrollback
        /\ RingIndex(s, 1) \in 0..Scrollback-1
    BY <1>1, <2>3, IndexWraps
  <2>5. u = [s EXCEPT !.rows[s.base] = BlankRow, !.base = RingIndex(s, 1)]
    BY <2>1, <2>2
  <2>6. u \in Term
    <3>1. [s.rows EXCEPT ![s.base] = BlankRow] \in RingSet
      BY <1>1, BlankTyped DEF Term, RingSet
    <3>2. u = [s EXCEPT !.rows = [s.rows EXCEPT ![s.base] = BlankRow],
                        !.base = RingIndex(s, 1)]
      BY <2>5
    <3> QED  BY <2>4, <3>1, <3>2 DEF Term
  <2>7. /\ u.rows = [s.rows EXCEPT ![s.base] = BlankRow]
        /\ u.base = RingIndex(s, 1) /\ u.count = s.count
        /\ u.row = s.row /\ u.col = s.col /\ u.off = s.off
    BY <2>5 DEF Term
  <2>8. DOMAIN s.rows = 0..Scrollback-1
    BY DEF Term, RingSet
  <2>9. ASSUME NEW m \in 0..(Scrollback - 2)
        PROVE  Line(u, m) = Line(s, m + 1)
    <3>1. m \in 0..Scrollback /\ m + 1 \in 0..Scrollback /\ u.base \in 0..Scrollback-1
      BY Sizes, <2>4, <2>7
    <3>2. /\ RingIndex(u, m) = IF u.base + m < Scrollback THEN u.base + m
                               ELSE u.base + m - Scrollback
          /\ RingIndex(u, m) \in 0..Scrollback-1
      BY <3>1, IndexWraps
    <3>3. RingIndex(s, m + 1) = IF s.base + (m + 1) < Scrollback THEN s.base + (m + 1)
                               ELSE s.base + (m + 1) - Scrollback
      BY <1>1, <3>1, IndexWraps
    <3>4. RingIndex(u, m) = RingIndex(s, m + 1) /\ RingIndex(u, m) # s.base
      BY <1>1, <2>4, <2>7, <3>2, <3>3, Sizes
    <3> QED  BY <2>7, <2>8, <3>2, <3>4 DEF Line
  <2>10. Line(u, Scrollback - 1) = BlankRow
    <3>1. Scrollback - 1 \in 0..Scrollback /\ u.base \in 0..Scrollback-1
      BY Sizes, <2>4, <2>7
    <3>2. RingIndex(u, Scrollback - 1) =
            IF u.base + (Scrollback - 1) < Scrollback THEN u.base + (Scrollback - 1)
            ELSE u.base + (Scrollback - 1) - Scrollback
      BY <3>1, IndexWraps
    <3>3. RingIndex(u, Scrollback - 1) = s.base
      BY <1>1, <2>4, <2>7, <3>2, Sizes
    <3> QED  BY <1>1, <2>7, <2>8, <3>3 DEF Line
  <2>11. \A m \in 0..(u.count - 2) : Line(u, m) = Line(s, m + s.count + 1 - u.count)
    <3> TAKE m \in 0..(u.count - 2)
    <3>1. m \in 0..(Scrollback - 2) /\ m + s.count + 1 - u.count = m + 1
      BY <1>3, <2>7, Sizes
    <3> QED  BY <2>9, <3>1
  <2>12. u.base # s.base \/ Rows = 1
    BY <1>1, <2>4, <2>7, Sizes
  <2> QED  BY <1>1, <1>3, <2>6, <2>7, <2>10, <2>11, <2>12 DEF Pushed
<1> QED  BY <1>1, <1>2, <1>3, Sizes

-----------------------------------------------------------------------------
(* Attributes. *)

(* One SGR code leaves an attribute an attribute, whatever the code is. *)
LEMMA SgrTyped ==
  ASSUME NEW a \in Attr, NEW code
  PROVE  Sgr(a, code) \in Attr
<1>1. DefaultAttr \in Attr
  BY BlankTyped
<1>2. [a EXCEPT !.bold = TRUE] \in Attr
  BY DEF Attr
<1>3. [a EXCEPT !.bold = FALSE] \in Attr
  BY DEF Attr
<1>4. [a EXCEPT !.inverse = TRUE] \in Attr
  BY DEF Attr
<1>5. [a EXCEPT !.inverse = FALSE] \in Attr
  BY DEF Attr
<1>6. [a EXCEPT !.fg = DefaultColor] \in Attr
  BY DEF Attr
<1>7. [a EXCEPT !.bg = DefaultColor] \in Attr
  BY DEF Attr
<1>8. code \in 30..37 => [a EXCEPT !.fg = code - 30] \in Attr
  BY DEF Attr
<1>9. code \in 40..47 => [a EXCEPT !.bg = code - 40] \in Attr
  BY DEF Attr
<1> QED
  BY <1>1, <1>2, <1>3, <1>4, <1>5, <1>6, <1>7, <1>8, <1>9, Zenon DEF Sgr

(* So does the list of codes of one sequence. *)
LEMMA SgrFoldTyped ==
  ASSUME NEW a \in Attr, NEW n \in Nat, NEW seq, DOMAIN seq = 1..n
  PROVE  FoldLeft(Sgr, a, seq) \in Attr
<1> DEFINE F == [p \in (1..n) \X Attr |-> Sgr(p[2], seq[p[1]])]
           Step(h) == [s \in SUBSET (1..n) |->
                         IF s = {} THEN a ELSE Sgr(h[s \ {Max(s)}], seq[Max(s)])]
           it == CHOOSE h : h = Step(h)
<1>1. FoldLeft(Sgr, a, seq) = it[1..n]
  BY DEF FoldLeft, MapThenFoldSet
<1>2. \A i \in 1..n, b \in Attr : F[<<i, b>>] = Sgr(b, seq[i]) /\ F[<<i, b>>] \in Attr
  BY SgrTyped
<1>3. PICK h \in [SUBSET (1..n) -> Attr] :
        IsFold(h, n, a, F)
  <2>1. \A i \in 1..n, b \in Attr : F[<<i, b>>] \in Attr
    BY <1>2
  <2> HIDE DEF F
  <2> QED  BY <2>1, FoldFunctionExists
<1>4. h = Step(h)
  <2>0. \A s \in SUBSET (1..n) :
          h[s] = IF s = {} THEN a ELSE F[<<Max(s), h[s \ {Max(s)}]>>]
    <3> HIDE DEF F
    <3> QED  BY <1>3 DEF IsFold
  <2>1. ASSUME NEW s \in SUBSET (1..n), s # {}
        PROVE  h[s] = Sgr(h[s \ {Max(s)}], seq[Max(s)])
    <3>1. Max(s) \in 1..n
      BY <2>1, MaxOfIndices
    <3>2. s \ {Max(s)} \in SUBSET (1..n)
      OBVIOUS
    <3>3. h[s \ {Max(s)}] \in Attr
      BY <3>2
    <3> HIDE DEF F
    <3> QED  BY <1>2, <2>0, <2>1, <3>1, <3>3
  <2>2. h[{}] = a
    BY <2>0
  <2> QED  BY <2>1, <2>2
<1>5. it = Step(it)
  <2> HIDE DEF Step
  <2> QED  BY <1>4
<1>6. it[1..0] = a
  <2>1. 1..0 = {} /\ {} \in SUBSET (1..n)
    OBVIOUS
  <2> HIDE DEF it
  <2> QED  BY <1>5, <2>1
<1>7. \A k \in 1..n : it[1..k] = Sgr(it[1..(k - 1)], seq[k])
  <2> HIDE DEF it
  <2> TAKE k \in 1..n
  <2>1. 1..k # {} /\ 1..k \in SUBSET (1..n) /\ Max(1..k) = k /\ (1..k) \ {k} = 1..(k - 1)
    BY MaxOfRange
  <2>2. it[1..k] = Sgr(it[(1..k) \ {Max(1..k)}], seq[Max(1..k)])
    BY <1>5, <2>1
  <2> QED  BY <2>1, <2>2
<1>8. 0..n \subseteq {k \in Nat : it[1..k] \in Attr}
  <2> DEFINE P == {k \in Nat : it[1..k] \in Attr}
  <2> HIDE DEF it
  <2>1. 0 \in P
    BY <1>6
  <2>2. ASSUME NEW k \in 1..n, k - 1 \in P PROVE k \in P
    BY <1>7, <2>2, SgrTyped
  <2> HIDE DEF P
  <2>3. 0..n \subseteq P
    BY <2>1, <2>2, Climb
  <2> QED  BY <2>3 DEF P
<1>9. n \in 0..n
  OBVIOUS
<1> HIDE DEF it
<1> QED  BY <1>1, <1>8, <1>9

-----------------------------------------------------------------------------
(* What each primitive makes of the ring. *)

LEMMA SameRing ==
  ASSUME NEW s \in Term, NEW u \in Term,
         u.rows = s.rows, u.base = s.base, u.count = s.count
  PROVE  u \in Shape(s)
BY DEF Shape, Edited, Line, RingIndex

(* What a step made of the ring does not depend on the parser's state. *)
LEMMA ParserAside ==
  ASSUME NEW s \in Term, NEW u \in Shape(s), NEW v \in Term,
         v.rows = u.rows, v.base = u.base, v.count = u.count,
         v.row = u.row, v.col = u.col
  PROVE  v \in Shape(s)
<1>1. \A m : Line(v, m) = Line(u, m)
  BY DEF Line, RingIndex
<1>2. Edited(s, u) => Edited(s, v)
  BY <1>1 DEF Edited
<1>3. Moved(s, u) => Moved(s, v)
  BY <1>1 DEF Moved
<1> QED  BY <1>2, <1>3 DEF Shape

LEMMA BlankedShape ==
  ASSUME NEW s \in Term, NEW u \in Term, Blanked(s, u)
  PROVE  u \in Shape(s)
BY DEF Shape, Edited, Blanked

LEMMA BlankedTwice ==
  ASSUME NEW s \in Term, NEW u \in Term, NEW v, Blanked(s, u), Blanked(u, v)
  PROVE  Blanked(s, v)
<1>1. LiveTop(u) = LiveTop(s)
  BY DEF Blanked, LiveTop
<1> QED  BY <1>1 DEF Blanked

LEMMA LineTyped ==
  ASSUME NEW s \in Term, NEW m \in 0..Scrollback-1
  PROVE  Line(s, m) \in LineSet
<1>1. RingIndex(s, m) \in 0..Scrollback-1
  BY IndexWraps, TopOfLive, Sizes
<1> QED  BY <1>1 DEF Term, RingSet, Line

(* Blank columns of one live row. *)
LEMMA BlankCellsBlanks ==
  ASSUME NEW s \in Term, NEW r \in 0..Rows-1, NEW from, NEW to,
         NEW u, u = BlankCells(s, r, from, to)
  PROVE  u \in Term /\ Blanked(s, u)
<1> DEFINE l == LiveTop(s) + r
           line == [c \in 0..Cols-1 |-> IF c \in from..to THEN Blank ELSE Line(s, l)[c]]
<1>1. l \in 0..Scrollback-1 /\ LiveTop(s) \in Nat
  BY TopOfLive, Sizes
<1>2. LiveIndex(s, r) = RingIndex(s, l) /\ RingIndex(s, l) \in 0..Scrollback-1
  BY <1>1, TopOfLive, IndexWraps, Sizes DEF LiveIndex
<1>3. Line(s, l) \in LineSet
  BY <1>1, LineTyped
<1>4. line \in LineSet
  BY <1>3, BlankTyped DEF LineSet
<1>5. u = [s EXCEPT !.rows = [s.rows EXCEPT ![RingIndex(s, l)] = line]]
  BY <1>2 DEF BlankCells, Line, Term, RingSet
<1> HIDE DEF line, l
<1>6. [s.rows EXCEPT ![RingIndex(s, l)] = line] \in RingSet
  BY <1>2, <1>4 DEF Term, RingSet
<1>7. u \in Term
  BY <1>5, <1>6 DEF Term
<1>8. /\ u.rows = [s.rows EXCEPT ![RingIndex(s, l)] = line]
      /\ u.base = s.base /\ u.count = s.count /\ u.row = s.row /\ u.col = s.col
  BY <1>5 DEF Term
<1>9. \A m \in 0..Scrollback-1 : Line(u, m) = IF m = l THEN line ELSE Line(s, m)
  BY <1>1, <1>8, OneLineWritten
<1>10. \A m \in 0..(LiveTop(s) - 1) : Line(u, m) = Line(s, m)
  <2> TAKE m \in 0..(LiveTop(s) - 1)
  <2>1. m \in 0..Scrollback-1 /\ m # l
    BY <1>1, TopOfLive, Sizes DEF l
  <2> QED  BY <1>9, <2>1
<1>11. ASSUME NEW q \in 0..Rows-1, NEW c \in 0..Cols-1
       PROVE  \/ Line(u, LiveTop(s) + q)[c] = Line(s, LiveTop(s) + q)[c]
              \/ Line(u, LiveTop(s) + q)[c] = Blank
  <2>1. LiveTop(s) + q \in 0..Scrollback-1
    BY TopOfLive
  <2>2. line[c] = Blank \/ line[c] = Line(s, l)[c]
    BY DEF line
  <2> QED  BY <1>9, <2>1, <2>2
<1> QED  BY <1>7, <1>8, <1>10, <1>11 DEF Blanked

(* Blank all live rows from one down. *)
LEMMA BlankRowsBlanks ==
  ASSUME NEW s \in Term, NEW r \in Nat, NEW u, u = BlankRowsFrom(s, r)
  PROVE  u \in Term /\ Blanked(s, u)
<1> DEFINE hit(i) == \E q \in r..Rows-1 : i = LiveIndex(s, q)
           rs == [i \in 0..Scrollback-1 |-> IF hit(i) THEN BlankRow ELSE s.rows[i]]
<1>1. u = [s EXCEPT !.rows = rs]
  BY DEF BlankRowsFrom
<1>2. rs \in RingSet
  BY BlankTyped DEF Term, RingSet
<1>3. \A m \in 0..Scrollback-1 : RingIndex(s, m) \in 0..Scrollback-1
  BY TopOfLive, IndexWraps, Sizes
<1>4. \A i \in 0..Scrollback-1 : rs[i] = IF hit(i) THEN BlankRow ELSE s.rows[i]
  OBVIOUS
<1> HIDE DEF rs
<1>5. u \in Term
  BY <1>1, <1>2 DEF Term
<1>6. /\ u.rows = rs
      /\ u.base = s.base /\ u.count = s.count /\ u.row = s.row /\ u.col = s.col
  BY <1>1 DEF Term
<1>7. \A m \in 0..Scrollback-1 :
        Line(u, m) = IF hit(RingIndex(s, m)) THEN BlankRow ELSE Line(s, m)
  BY <1>3, <1>4, <1>6 DEF Line, RingIndex
<1>8. \A m \in 0..(LiveTop(s) - 1) : Line(u, m) = Line(s, m)
  <2> TAKE m \in 0..(LiveTop(s) - 1)
  <2>1. m \in 0..Scrollback-1
    BY TopOfLive, Sizes
  <2>2. ASSUME NEW q \in r..Rows-1
        PROVE  RingIndex(s, m) # LiveIndex(s, q)
    <3>1. q \in 0..Rows-1
      BY Sizes
    <3>2. LiveTop(s) + q \in 0..Scrollback-1 /\ LiveTop(s) + q # m
      BY <3>1, TopOfLive
    <3> QED  BY <2>1, <3>2, TopOfLive, IndicesDiffer DEF LiveIndex
  <2>3. ~ hit(RingIndex(s, m))
    BY <2>2
  <2> QED  BY <1>7, <2>1, <2>3
<1>9. ASSUME NEW q \in 0..Rows-1, NEW c \in 0..Cols-1
      PROVE  \/ Line(u, LiveTop(s) + q)[c] = Line(s, LiveTop(s) + q)[c]
             \/ Line(u, LiveTop(s) + q)[c] = Blank
  <2>1. LiveTop(s) + q \in 0..Scrollback-1
    BY TopOfLive
  <2> HIDE DEF hit
  <2> QED  BY <1>7, <2>1, BlankTyped
<1> QED  BY <1>5, <1>6, <1>8, <1>9 DEF Blanked

(* A line feed moves the cursor down, or the lines up. *)
LEMMA LineFeedMoves ==
  ASSUME NEW s \in Term, NEW u, u = LineFeed(s)
  PROVE  /\ u \in Term /\ u.col = 0
         /\ \/ u.rows = s.rows /\ u.base = s.base /\ u.count = s.count
            \/ u.row = Rows - 1 /\ Pushed(s, u)
<1> DEFINE home == [s EXCEPT !.col = 0]
           p == PushLine(home)
<1>1. /\ home \in Term /\ home.col = 0 /\ home.row = s.row
      /\ home.rows = s.rows /\ home.base = s.base /\ home.count = s.count
  BY Sizes DEF Term
<1>2. CASE s.row >= Rows - 1
  <2>1. u = [p EXCEPT !.row = Rows - 1]
    BY <1>2 DEF LineFeed
  <2> HIDE DEF home
  <2>2. p \in Term /\ p.col = 0 /\ Pushed(home, p)
    BY <1>1, PushLineMoves
  <2> HIDE DEF p
  <2>3. /\ u \in Term /\ u.col = 0 /\ u.row = Rows - 1
        /\ u.rows = p.rows /\ u.base = p.base /\ u.count = p.count
    BY <2>1, <2>2, Sizes DEF Term
  <2>4. \A m : Line(u, m) = Line(p, m) /\ Line(home, m) = Line(s, m)
    BY <1>1, <2>3 DEF Line, RingIndex
  <2>5. Pushed(s, u)
    BY <1>1, <2>2, <2>3, <2>4 DEF Pushed
  <2> QED  BY <2>3, <2>5
<1>3. CASE ~(s.row >= Rows - 1)
  <2>1. u = [home EXCEPT !.row = s.row + 1]
    BY <1>1, <1>3 DEF LineFeed
  <2>2. s.row + 1 \in 0..Rows-1
    BY <1>3, Sizes DEF Term
  <2> HIDE DEF home
  <2> QED  BY <1>1, <2>1, <2>2 DEF Term
<1> QED  BY <1>2, <1>3

LEMMA LineFeedShape ==
  ASSUME NEW s \in Term
  PROVE  LineFeed(s) \in Shape(s)
<1> DEFINE u == LineFeed(s)
<1>1. /\ u \in Term /\ u.col = 0
      /\ \/ u.rows = s.rows /\ u.base = s.base /\ u.count = s.count
         \/ u.row = Rows - 1 /\ Pushed(s, u)
  BY LineFeedMoves
<1> HIDE DEF u
<1>2. Pushed(s, u) => Moved(s, u)
  BY BlankTyped DEF Pushed, Moved
<1>3. u \in Shape(s)
  BY <1>1, <1>2, SameRing DEF Shape
<1> QED  BY <1>3 DEF u

(* A cell written at the cursor: no other line changes, nor another cell   *)
(* of that line.                                                           *)
Put(s, cell) == [s EXCEPT !.rows[LiveIndex(s, s.row)][s.col] = cell, !.col = @ + 1]

LEMMA CellWritten ==
  ASSUME NEW s \in Term, s.col \in 0..Cols-1, NEW cell \in CellSet, NEW u,
         u = Put(s, cell)
  PROVE  /\ u \in Term
         /\ u.base = s.base /\ u.count = s.count /\ u.row = s.row /\ u.col = s.col + 1
         /\ LiveTop(s) + s.row \in 0..Scrollback-1
         /\ \A m \in 0..Scrollback-1 : m # LiveTop(s) + s.row => Line(u, m) = Line(s, m)
         /\ \A c \in 0..Cols-1 :
              c # s.col => Line(u, LiveTop(s) + s.row)[c] = Line(s, LiveTop(s) + s.row)[c]
<1> DEFINE l == LiveTop(s) + s.row
           line == [Line(s, l) EXCEPT ![s.col] = cell]
<1>1. s.row \in 0..Rows-1
  BY DEF Term
<1>2. l \in 0..Scrollback-1
  BY <1>1, TopOfLive
<1>3. LiveIndex(s, s.row) = RingIndex(s, l) /\ RingIndex(s, l) \in 0..Scrollback-1
  BY <1>2, TopOfLive, IndexWraps, Sizes DEF LiveIndex
<1>4. Line(s, l) \in LineSet
  BY <1>2, LineTyped
<1>5. line \in LineSet
  BY <1>4 DEF LineSet
<1>6. s.rows[RingIndex(s, l)] = Line(s, l)
  BY DEF Line
<1>7. u = [s EXCEPT !.rows = [s.rows EXCEPT ![RingIndex(s, l)] = line], !.col = s.col + 1]
  BY <1>3, <1>6 DEF Term, RingSet, Put
<1>8. \A c \in 0..Cols-1 : c # s.col => line[c] = Line(s, l)[c]
  BY <1>4 DEF LineSet
<1> HIDE DEF line, l
<1>9. [s.rows EXCEPT ![RingIndex(s, l)] = line] \in RingSet
  BY <1>3, <1>5 DEF Term, RingSet
<1>10. s.col + 1 \in 0..Cols
  BY Sizes
<1>11. u \in Term
  BY <1>7, <1>9, <1>10 DEF Term
<1>12. /\ u.rows = [s.rows EXCEPT ![RingIndex(s, l)] = line]
       /\ u.base = s.base /\ u.count = s.count /\ u.row = s.row /\ u.col = s.col + 1
  BY <1>7 DEF Term
<1>13. \A m \in 0..Scrollback-1 : Line(u, m) = IF m = l THEN line ELSE Line(s, m)
  <2>1. u.base = s.base /\ u.rows = [s.rows EXCEPT ![RingIndex(s, l)] = line]
    BY <1>12
  <2>2. s \in Term
    OBVIOUS
  <2> QED  BY ONLY <1>2, <2>1, <2>2, OneLineWritten, Z3
<1> QED  BY <1>2, <1>8, <1>11, <1>12, <1>13 DEF l

(* A printed byte is one cell, after the wrap it was waiting for. *)
LEMMA PutCharShape ==
  ASSUME NEW s \in Term, NEW ch \in 32..126
  PROVE  PutChar(s, ch) \in Shape(s)
<1> DEFINE at == IF s.col >= Cols THEN LineFeed(s) ELSE s
           u == PutChar(s, ch)
           cell == [ch |-> GlyphOf[ch], attr |-> at.attr]
           l == LiveTop(at) + at.row
<1>1. /\ at \in Term /\ at.col \in 0..Cols-1
      /\ \/ at.rows = s.rows /\ at.base = s.base /\ at.count = s.count
         \/ at.row = Rows - 1 /\ Pushed(s, at)
  <2>1. CASE s.col >= Cols
    <3>1. at = LineFeed(s)
      BY <2>1
    <3> HIDE DEF at
    <3>2. 0 \in 0..Cols-1
      BY Sizes
    <3> QED  BY <3>1, <3>2, LineFeedMoves
  <2>2. CASE ~(s.col >= Cols)
    <3>1. s.col \in 0..Cols-1
      BY <2>2, Sizes DEF Term
    <3> QED  BY <2>2, <3>1
  <2> QED  BY <2>1, <2>2
<1>2. u = Put(at, cell)
  BY DEF PutChar, Put
<1> HIDE DEF at, u
<1>3. cell \in CellSet
  BY <1>1, TerminalAssumption DEF CellSet, Term
<1> HIDE DEF cell
<1>4. at.row \in 0..Rows-1
  BY <1>1 DEF Term
<1>5. at \in Term /\ at.col \in 0..Cols-1
  BY <1>1
<1>6. /\ u \in Term
      /\ u.base = at.base /\ u.count = at.count /\ u.row = at.row /\ u.col = at.col + 1
      /\ l \in 0..Scrollback-1
      /\ \A m \in 0..Scrollback-1 : m # l => Line(u, m) = Line(at, m)
      /\ \A c \in 0..Cols-1 : c # at.col => Line(u, l)[c] = Line(at, l)[c]
  BY <1>2, <1>3, <1>5, CellWritten
<1>7. CASE at.rows = s.rows /\ at.base = s.base /\ at.count = s.count
  <2>1. \A m : Line(at, m) = Line(s, m)
    BY <1>7 DEF Line, RingIndex
  <2>2. LiveTop(at) = LiveTop(s)
    BY <1>7 DEF LiveTop
  <2>3. \A m \in 0..(LiveTop(s) - 1) : Line(u, m) = Line(s, m)
    <3> TAKE m \in 0..(LiveTop(s) - 1)
    <3>1. m \in 0..Scrollback-1 /\ m # l
      BY <1>4, <2>2, TopOfLive, Sizes
    <3> QED  BY <1>6, <2>1, <3>1
  <2>4. ASSUME NEW r \in 0..Rows-1, NEW c \in 0..Cols-1
        PROVE  \/ Line(u, LiveTop(s) + r)[c] = Line(s, LiveTop(s) + r)[c]
               \/ u.row = r /\ u.col = c + 1
    <3>1. LiveTop(s) + r \in 0..Scrollback-1
      BY TopOfLive
    <3>2. LiveTop(s) + r = l => r = at.row
      BY <1>4, <2>2, TopOfLive
    <3> HIDE DEF l
    <3> QED  BY <1>1, <1>6, <2>1, <3>1, <3>2
  <2>5. Edited(s, u)
    BY <1>6, <1>7, <2>3, <2>4 DEF Edited
  <2> QED  BY <1>6, <2>5 DEF Shape, u
<1>8. CASE at.row = Rows - 1 /\ Pushed(s, at)
  <2>1. l = at.count - 1 /\ at.count \in Rows..Scrollback
    BY <1>1, <1>8, TopOfLive, Sizes DEF Term
  <2> HIDE DEF l
  <2>2. \A m \in 0..(u.count - 2) : Line(u, m) = Line(s, m + s.count + 1 - u.count)
    <3> TAKE m \in 0..(u.count - 2)
    <3>1. m \in 0..Scrollback-1 /\ m # l /\ m \in 0..(at.count - 2)
      BY <1>6, <2>1, Sizes
    <3> QED  BY <1>6, <1>8, <3>1 DEF Pushed
  <2>3. \A c \in 0..Cols-1 :
          \/ Line(u, u.count - 1)[c] = Blank
          \/ u.row = Rows - 1 /\ u.col = c + 1
    <3> TAKE c \in 0..Cols-1
    <3>1. u.count - 1 = l
      BY <1>6, <2>1
    <3>2. Line(at, l) = BlankRow
      BY <1>8, <2>1 DEF Pushed
    <3> QED  BY <1>1, <1>6, <1>8, <3>1, <3>2, BlankTyped
  <2>4. Moved(s, u)
    BY <1>6, <1>8, <2>2, <2>3 DEF Moved, Pushed
  <2> QED  BY <1>6, <2>4 DEF Shape, u
<1> QED  BY <1>1, <1>7, <1>8

-----------------------------------------------------------------------------
(* The parameters of a sequence. *)

CInt == -IntHalf..IntHalf-1

(* Two's complement: what an add or a multiply leaves is an int again. *)
LEMMA WrappedIsInt ==
  ASSUME NEW n \in Int
  PROVE  Wrapped(n) \in CInt
<1> DEFINE m == 2 * IntHalf
           x == n + IntHalf
<1>1. IntHalf \in Nat /\ IntHalf > 1
  BY TerminalAssumption
<1>2. m \in Nat /\ m > 0 /\ x \in Int
  BY <1>1
<1>3. Wrapped(n) = (x % m) - IntHalf
  BY DEF Wrapped
<1> HIDE DEF x
<1>4. x % m \in 0..m-1
  <2> HIDE DEF m
  <2> QED  BY <1>2
<1> QED  BY <1>1, <1>3, <1>4 DEF CInt

LEMMA BytesOfSeq ==
  ASSUME NEW q \in Seq(0..255)
  PROVE  \A i \in 1..Len(q) : q[i] \in 0..255
<1> DEFINE S == 0..255
<1>1. q \in Seq(S)
  OBVIOUS
<1> HIDE DEF S
<1>2. \A i \in 1..Len(q) : q[i] \in S
  BY <1>1
<1> QED  BY <1>2 DEF S

(* What csi_params has read so far. *)
Acc == [out : Seq(CInt), val : CInt, have : BOOLEAN]

(* The values of a sequence are ints, however many digits a parameter has, *)
(* and they are a sequence however malformed its bytes are.                *)
LEMMA ParamsTyped ==
  ASSUME NEW csi \in Seq(0..255), NEW max \in Nat, NEW dflt \in {0, 1}
  PROVE  Params(csi, max, dflt) \in Seq(CInt)
<1> DEFINE n == Len(csi)
           Value(acc) == IF acc.have THEN acc.val ELSE dflt
           Read(acc, b) ==
             CASE Len(acc.out) = max -> acc
               [] Len(acc.out) < max /\ IsDigit(b) ->
                    [acc EXCEPT !.val = Wrapped(@ * 10 + (b - 48)), !.have = TRUE]
               [] Len(acc.out) < max /\ b = Semicolon ->
                    [out |-> Append(acc.out, Value(acc)), val |-> 0, have |-> FALSE]
               [] OTHER -> acc
           start == [out |-> <<>>, val |-> 0, have |-> FALSE]
           Step(h) == [s \in SUBSET (1..n) |->
                         IF s = {} THEN start ELSE Read(h[s \ {Max(s)}], csi[Max(s)])]
           it == CHOOSE h : h = Step(h)
           end == FoldLeft(Read, start, csi)
           F == [p \in (1..n) \X Acc |-> Read(p[2], csi[p[1]])]
<1>1. n \in Nat /\ DOMAIN csi = 1..n /\ \A i \in 1..n : csi[i] \in 0..255
  <2>1. Len(csi) \in Nat /\ DOMAIN csi = 1..Len(csi)
    OBVIOUS
  <2>2. \A i \in 1..Len(csi) : csi[i] \in 0..255
    BY BytesOfSeq
  <2> QED  BY <2>1, <2>2 DEF n
<1>2. end = it[1..n]
  <2>1. DOMAIN csi = 1..n
    BY <1>1
  <2> HIDE DEF n
  <2> QED  BY <2>1, Zenon DEF FoldLeft, MapThenFoldSet
<1>3. Params(csi, max, dflt) =
        IF Len(end.out) < max THEN Append(end.out, Value(end)) ELSE end.out
  BY Zenon DEF Params
<1>4. 0 \in CInt /\ 1 \in CInt /\ dflt \in CInt /\ start \in Acc
  <2>1. 0 \in CInt /\ 1 \in CInt
    BY TerminalAssumption DEF CInt
  <2>2. dflt \in CInt
    BY <2>1
  <2>3. start \in Acc
    BY <2>1 DEF Acc
  <2> QED  BY <2>1, <2>2, <2>3
<1>5. ASSUME NEW acc \in Acc PROVE Value(acc) \in CInt
  BY <1>4 DEF Acc
<1>6. ASSUME NEW acc \in Acc, NEW b \in 0..255 PROVE Read(acc, b) \in Acc
  <2>1. [acc EXCEPT !.val = Wrapped(acc.val * 10 + (b - 48)), !.have = TRUE] \in Acc
    <3>1. acc.val \in Int
      BY TerminalAssumption DEF Acc, CInt
    <3>2. Wrapped(acc.val * 10 + (b - 48)) \in CInt
      BY <3>1, WrappedIsInt
    <3> QED  BY <3>2 DEF Acc
  <2>2. [out |-> Append(acc.out, Value(acc)), val |-> 0, have |-> FALSE] \in Acc
    BY <1>4, <1>5 DEF Acc
  <2> HIDE DEF Value
  <2> QED  BY <2>1, <2>2, Zenon
<1> HIDE DEF Read, Value, start, n
<1>7. \A i \in 1..n, acc \in Acc : F[<<i, acc>>] = Read(acc, csi[i]) /\ F[<<i, acc>>] \in Acc
  BY <1>1, <1>6
<1>8. PICK h \in [SUBSET (1..n) -> Acc] : IsFold(h, n, start, F)
  <2>1. \A i \in 1..n, acc \in Acc : F[<<i, acc>>] \in Acc
    BY <1>7
  <2> HIDE DEF F
  <2> QED  BY <1>1, <1>4, <2>1, FoldFunctionExists
<1> HIDE DEF F
<1>9. h = Step(h)
  <2>1. \A s \in SUBSET (1..n) :
          h[s] = IF s = {} THEN start ELSE F[<<Max(s), h[s \ {Max(s)}]>>]
    BY <1>8 DEF IsFold
  <2>2. ASSUME NEW s \in SUBSET (1..n), s # {}
        PROVE  h[s] = Read(h[s \ {Max(s)}], csi[Max(s)])
    <3>1. Max(s) \in 1..n
      BY <1>1, <2>2, MaxOfIndices
    <3>2. s \ {Max(s)} \in SUBSET (1..n)
      OBVIOUS
    <3>3. h[s \ {Max(s)}] \in Acc
      BY <3>2
    <3> QED  BY <1>7, <2>1, <2>2, <3>1, <3>3
  <2>3. h[{}] = start
    BY <2>1
  <2> QED  BY <2>2, <2>3
<1>10. it = Step(it)
  <2> HIDE DEF Step
  <2> QED  BY <1>9
<1> HIDE DEF it
<1>11. it[1..0] = start
  <2>1. 1..0 = {} /\ {} \in SUBSET (1..n)
    OBVIOUS
  <2> QED  BY <1>10, <2>1
<1>12. \A k \in 1..n : it[1..k] = Read(it[1..(k - 1)], csi[k])
  <2> TAKE k \in 1..n
  <2>1. 1..k # {} /\ 1..k \in SUBSET (1..n) /\ Max(1..k) = k /\ (1..k) \ {k} = 1..(k - 1)
    BY <1>1, MaxOfRange
  <2>2. it[1..k] = Read(it[(1..k) \ {Max(1..k)}], csi[Max(1..k)])
    BY <1>10, <2>1
  <2> QED  BY <2>1, <2>2
<1> DEFINE P == {k \in Nat : it[1..k] \in Acc}
<1>13. 0 \in P
  BY <1>4, <1>11
<1>14. ASSUME NEW k \in 1..n, k - 1 \in P PROVE k \in P
  <2>1. it[1..(k - 1)] \in Acc /\ csi[k] \in 0..255
    BY <1>1, <1>14
  <2>2. Read(it[1..(k - 1)], csi[k]) \in Acc
    BY <1>6, <2>1
  <2> QED  BY <1>1, <1>12, <2>2
<1>15. 0..n \subseteq P
  <2> HIDE DEF P
  <2> QED  BY <1>1, <1>13, <1>14, Climb
<1>16. it[1..n] \in Acc
  <2>1. n \in 0..n
    BY <1>1
  <2> QED  BY <1>15, <2>1
<1>17. end \in Acc
  BY <1>2, <1>16
<1> HIDE DEF end
<1>18. end.out \in Seq(CInt) /\ Value(end) \in CInt
  BY <1>5, <1>17 DEF Acc
<1> QED  BY <1>3, <1>18

-----------------------------------------------------------------------------
(* One byte. *)

(* A move lands on the grid, or past its right edge, wherever it aims. *)
LEMMA MoveToShape ==
  ASSUME NEW s \in Term, NEW r, NEW c
  PROVE  MoveTo(s, r, c) \in Shape(s)
<1> DEFINE u == MoveTo(s, r, c)
<1>1. Clamp(Wrapped(r), 0, Rows - 1) \in 0..Rows-1 /\ Clamp(Wrapped(c), 0, Cols) \in 0..Cols
  BY Sizes DEF Clamp
<1>2. u \in Term /\ u.rows = s.rows /\ u.base = s.base /\ u.count = s.count
  BY <1>1 DEF MoveTo, Term
<1> HIDE DEF u
<1>3. u \in Shape(s)
  BY <1>2, SameRing
<1> QED  BY <1>3 DEF u

LEMMA TabShape ==
  ASSUME NEW s \in Term
  PROVE  Tab(s) \in Shape(s)
<1> DEFINE u == Tab(s)
           next == ((s.col \div TabStop) + 1) * TabStop
<1>1. s.col \in 0..Cols
  BY DEF Term
<1>2. s.col \div TabStop \in Nat
  BY <1>1, Sizes
<1>3. next \in Nat
  BY <1>2, Sizes
<1>4. u = [s EXCEPT !.col = IF next >= Cols THEN Cols - 1 ELSE next]
  BY DEF Tab
<1> HIDE DEF next, u
<1>5. (IF next >= Cols THEN Cols - 1 ELSE next) \in 0..Cols
  BY <1>3, Sizes
<1>6. u \in Term /\ u.rows = s.rows /\ u.base = s.base /\ u.count = s.count
  BY <1>4, <1>5 DEF Term
<1>7. u \in Shape(s)
  BY <1>6, SameRing
<1> QED  BY <1>7 DEF u

LEMMA StaysShape ==
  ASSUME NEW s \in Term
  PROVE  s \in Shape(s)
BY SameRing

(* The erases touch live cells only. *)
LEMMA EraseShape ==
  ASSUME NEW s \in Term, NEW mode
  PROVE  EraseLine(s, mode) \in Shape(s) /\ EraseDisplay(s, mode) \in Shape(s)
<1>1. s.row \in 0..Rows-1 /\ s.row + 1 \in Nat /\ 0 \in Nat
  BY Sizes DEF Term
<1>2. ASSUME NEW from, NEW to
      PROVE  /\ BlankCells(s, s.row, from, to) \in Term
             /\ Blanked(s, BlankCells(s, s.row, from, to))
             /\ BlankCells(s, s.row, from, to) \in Shape(s)
  BY <1>1, BlankCellsBlanks, BlankedShape
<1>3. EraseLine(s, mode) \in Shape(s)
  BY <1>2, Zenon DEF EraseLine
<1>4. BlankRowsFrom(s, 0) \in Shape(s)
  BY <1>1, BlankRowsBlanks, BlankedShape
<1> DEFINE v == BlankCells(s, s.row, EraseAt(s), Cols - 1)
           w == BlankRowsFrom(v, s.row + 1)
<1>5. v \in Term /\ Blanked(s, v)
  BY <1>2
<1>6. w \in Term /\ Blanked(v, w)
  <2> HIDE DEF v
  <2> QED  BY <1>1, <1>5, BlankRowsBlanks
<1>7. w \in Shape(s)
  <2> HIDE DEF v, w
  <2> QED  BY <1>5, <1>6, BlankedTwice, BlankedShape
<1>8. EraseDisplay(s, mode) \in {BlankRowsFrom(s, 0), w}
  BY DEF EraseDisplay
<1> HIDE DEF w
<1> QED  BY <1>3, <1>4, <1>7, <1>8

(* A complete control sequence, whatever its parameters. *)
LEMMA DispatchShape ==
  ASSUME NEW s \in Term, NEW final
  PROVE  Dispatch(s, final) \in Shape(s)
<1>1. [s EXCEPT !.attr = FoldLeft(Sgr, s.attr, Params(s.csi, 16, 0))] \in Shape(s)
  <2> DEFINE ps == Params(s.csi, 16, 0)
             a == FoldLeft(Sgr, s.attr, ps)
             u == [s EXCEPT !.attr = a]
  <2>1. s.csi \in Seq(0..255) /\ s.attr \in Attr
    BY DEF Term, CsiSet
  <2>2. ps \in Seq(CInt)
    BY <2>1, ParamsTyped
  <2> HIDE DEF ps
  <2>3. Len(ps) \in Nat /\ DOMAIN ps = 1..Len(ps)
    BY <2>2
  <2>4. a \in Attr
    BY <2>1, <2>3, SgrFoldTyped
  <2> HIDE DEF a
  <2>5. u \in Term /\ u.rows = s.rows /\ u.base = s.base /\ u.count = s.count
    BY <2>4 DEF Term
  <2> HIDE DEF u
  <2>6. u \in Shape(s)
    BY <2>5, SameRing
  <2> QED  BY <2>6 DEF u, a, ps
<1>2. \A mode : EraseLine(s, mode) \in Shape(s) /\ EraseDisplay(s, mode) \in Shape(s)
  BY EraseShape
<1>3. \A r, c : MoveTo(s, r, c) \in Shape(s)
  BY MoveToShape
<1>4. s \in Shape(s)
  BY StaysShape
<1> DEFINE first == Param(s.csi, 1, 1, 1)
           steps == IF first > 0 THEN first ELSE 1
           mode  == Param(s.csi, 1, 0, 1)
           sgr   == [s EXCEPT !.attr = FoldLeft(Sgr, s.attr, Params(s.csi, 16, 0))]
<1>5. /\ MoveTo(s, Param(s.csi, 2, 1, 1) - 1, Param(s.csi, 2, 1, 2) - 1) \in Shape(s)
      /\ MoveTo(s, s.row - steps, s.col) \in Shape(s)
      /\ MoveTo(s, s.row + steps, s.col) \in Shape(s)
      /\ MoveTo(s, s.row, s.col + steps) \in Shape(s)
      /\ MoveTo(s, s.row, s.col - steps) \in Shape(s)
      /\ MoveTo(s, s.row, first - 1) \in Shape(s)
      /\ MoveTo(s, first - 1, s.col) \in Shape(s)
  <2> HIDE DEF steps, first
  <2> QED  BY <1>3
<1>6. EraseLine(s, mode) \in Shape(s) /\ EraseDisplay(s, mode) \in Shape(s)
  BY <1>2
<1>7. Dispatch(s, final) =
        CASE final \in {72, 102} ->
               MoveTo(s, Param(s.csi, 2, 1, 1) - 1, Param(s.csi, 2, 1, 2) - 1)
          [] final = 65  -> MoveTo(s, s.row - steps, s.col)
          [] final = 66  -> MoveTo(s, s.row + steps, s.col)
          [] final = 67  -> MoveTo(s, s.row, s.col + steps)
          [] final = 68  -> MoveTo(s, s.row, s.col - steps)
          [] final = 71  -> MoveTo(s, s.row, first - 1)
          [] final = 100 -> MoveTo(s, first - 1, s.col)
          [] final = 75  -> EraseLine(s, mode)
          [] final = 74  -> EraseDisplay(s, mode)
          [] final = 109 -> sgr
          [] OTHER       -> s
  BY Zenon DEF Dispatch
<1>8. sgr \in Shape(s)
  BY <1>1 DEF sgr
<1> DEFINE to    == MoveTo(s, Param(s.csi, 2, 1, 1) - 1, Param(s.csi, 2, 1, 2) - 1)
           up    == MoveTo(s, s.row - steps, s.col)
           down  == MoveTo(s, s.row + steps, s.col)
           right == MoveTo(s, s.row, s.col + steps)
           left  == MoveTo(s, s.row, s.col - steps)
           col   == MoveTo(s, s.row, first - 1)
           row   == MoveTo(s, first - 1, s.col)
           line  == EraseLine(s, mode)
           all   == EraseDisplay(s, mode)
           shape == Shape(s)
<1>9. {to, up, down, right, left, col, row, line, all, sgr, s} \subseteq shape
  BY <1>4, <1>5, <1>6, <1>8
<1> HIDE DEF first, steps, mode, sgr, to, up, down, right, left, col, row, line, all, shape
<1>10. Dispatch(s, final) \in {to, up, down, right, left, col, row, line, all, sgr, s}
  BY <1>7, ZenonT(60) DEF to, up, down, right, left, col, row, line, all
<1> QED  BY <1>9, <1>10 DEF shape

LEMMA GroundShape ==
  ASSUME NEW s \in Term, NEW b \in 0..255
  PROVE  FeedGround(s, b) \in Shape(s)
<1>1. [s EXCEPT !.phase = "esc"] \in Shape(s)
  <2> DEFINE u == [s EXCEPT !.phase = "esc"]
  <2>1. u \in Term /\ u.rows = s.rows /\ u.base = s.base /\ u.count = s.count
    BY DEF Term
  <2> HIDE DEF u
  <2>2. u \in Shape(s)
    BY <2>1, SameRing
  <2> QED  BY <2>2 DEF u
<1>2. ASSUME NEW c \in 0..Cols PROVE [s EXCEPT !.col = c] \in Shape(s)
  <2> DEFINE u == [s EXCEPT !.col = c]
  <2>1. u \in Term /\ u.rows = s.rows /\ u.base = s.base /\ u.count = s.count
    BY DEF Term
  <2> HIDE DEF u
  <2>2. u \in Shape(s)
    BY <2>1, SameRing
  <2> QED  BY <2>2 DEF u
<1>3. [s EXCEPT !.col = 0] \in Shape(s)
  BY <1>2, Sizes
<1>4. [s EXCEPT !.col = IF s.col > 0 THEN s.col - 1 ELSE 0] \in Shape(s)
  <2>1. (IF s.col > 0 THEN s.col - 1 ELSE 0) \in 0..Cols
    BY Sizes DEF Term
  <2> QED  BY <1>2, <2>1
<1>5. \A ch \in 32..126 : PutChar(s, ch) \in Shape(s)
  BY PutCharShape
<1>6. PutChar(s, 63) \in Shape(s)
  BY <1>5
<1>7. LineFeed(s) \in Shape(s) /\ Tab(s) \in Shape(s) /\ s \in Shape(s)
  BY LineFeedShape, TabShape, StaysShape
<1> QED  BY <1>1, <1>3, <1>4, <1>5, <1>6, <1>7, Zenon DEF FeedGround

LEMMA EscShape ==
  ASSUME NEW s \in Term, NEW b
  PROVE  FeedEsc(s, b) \in Shape(s)
<1>1. ASSUME NEW p \in {"ground", "esc", "csi"}, NEW q \in CsiSet
      PROVE  [s EXCEPT !.phase = p, !.csi = q] \in Shape(s)
  <2> DEFINE u == [s EXCEPT !.phase = p, !.csi = q]
  <2>1. u \in Term /\ u.rows = s.rows /\ u.base = s.base /\ u.count = s.count
    BY DEF Term
  <2> HIDE DEF u
  <2>2. u \in Shape(s)
    BY <2>1, SameRing
  <2> QED  BY <2>2 DEF u
<1>2. <<>> \in CsiSet /\ s.csi \in CsiSet
  BY Sizes DEF CsiSet, Term
<1>3. [s EXCEPT !.phase = "csi", !.csi = <<>>] \in Shape(s)
  BY <1>1, <1>2
<1>4. [s EXCEPT !.phase = "ground"] = [s EXCEPT !.phase = "ground", !.csi = s.csi]
  BY DEF Term
<1>5. [s EXCEPT !.phase = "ground"] \in Shape(s)
  BY <1>1, <1>2, <1>4
<1> QED  BY <1>3, <1>5, StaysShape, Zenon DEF FeedEsc

LEMMA CsiShape ==
  ASSUME NEW s \in Term, NEW b \in 0..255
  PROVE  FeedCsi(s, b) \in Shape(s)
<1>1. ASSUME NEW v \in Shape(s), NEW p \in {"ground", "esc", "csi"}, NEW q \in CsiSet
      PROVE  [v EXCEPT !.phase = p, !.csi = q] \in Shape(s)
  <2> DEFINE u == [v EXCEPT !.phase = p, !.csi = q]
  <2>1. v \in Term
    BY DEF Shape
  <2>2. /\ u \in Term /\ u.rows = v.rows /\ u.base = v.base /\ u.count = v.count
        /\ u.row = v.row /\ u.col = v.col
    BY <2>1 DEF Term
  <2> HIDE DEF u
  <2>3. u \in Shape(s)
    BY <2>2, ParserAside
  <2> QED  BY <2>3 DEF u
<1>2. <<>> \in CsiSet /\ s.csi \in CsiSet /\ s.phase \in {"ground", "esc", "csi"}
  BY Sizes DEF CsiSet, Term
<1>3. [Dispatch(s, b) EXCEPT !.phase = "ground", !.csi = <<>>] \in Shape(s)
  BY <1>1, <1>2, DispatchShape
<1>4. [s EXCEPT !.phase = "esc", !.csi = <<>>] \in Shape(s)
  BY <1>1, <1>2, StaysShape
<1>5. Buffered(b) \in 0..255
  BY DEF Buffered
<1>6. Len(s.csi) < CsiMax => Append(s.csi, Buffered(b)) \in CsiSet
  BY <1>2, <1>5, Sizes DEF CsiSet
<1>7. \A q : [s EXCEPT !.csi = q] = [s EXCEPT !.phase = s.phase, !.csi = q]
  BY DEF Term
<1>8. Len(s.csi) < CsiMax => [s EXCEPT !.csi = Append(s.csi, Buffered(b))] \in Shape(s)
  BY <1>1, <1>2, <1>6, <1>7, StaysShape
<1>9. (IF Len(s.csi) < CsiMax
       THEN [s EXCEPT !.csi = Append(s.csi, Buffered(b))] ELSE s) \in Shape(s)
  BY <1>8, StaysShape
<1> QED  BY <1>3, <1>4, <1>9, Zenon DEF FeedCsi

(* Every byte, in every phase of the parser, edits live cells or pushes    *)
(* one line.                                                               *)
LEMMA FeedShape ==
  ASSUME NEW s \in Term, NEW b \in 0..255
  PROVE  FeedByte(s, b) \in Shape(s)
<1>1. s.phase = "ground" \/ s.phase = "esc" \/ s.phase = "csi"
  BY DEF Term
<1>2. FeedGround(s, b) \in Shape(s) /\ FeedEsc(s, b) \in Shape(s) /\ FeedCsi(s, b) \in Shape(s)
  BY GroundShape, EscShape, CsiShape
<1> QED  BY <1>1, <1>2, Zenon DEF FeedByte

-----------------------------------------------------------------------------
(* The inductive invariant: the record is an emulator, and the view does   *)
(* not look above the history.                                             *)

IInv == t \in Term /\ t.off \in 0..ScrollMax(t)

LEMMA FreshTyped ==
  /\ Fresh \in Term /\ Fresh.off = 0 /\ LiveTop(Fresh) = 0
  /\ \A m \in 0..Scrollback-1 : Line(Fresh, m) = BlankRow
<1>1. [i \in 0..Scrollback-1 |-> BlankRow] \in RingSet
  BY BlankTyped DEF RingSet
<1>2. <<>> \in CsiSet
  BY Sizes DEF CsiSet
<1>3. /\ 0 \in 0..Scrollback-1 /\ Rows \in Rows..Scrollback
      /\ 0 \in 0..Rows-1 /\ 0 \in 0..Cols
  BY Sizes
<1>4. Fresh \in Term
  BY <1>1, <1>2, <1>3, BlankTyped DEF Fresh, Term
<1>5. /\ Fresh.off = 0 /\ Fresh.count = Rows /\ Fresh.base = 0
      /\ Fresh.rows = [i \in 0..Scrollback-1 |-> BlankRow]
  BY DEF Fresh
<1>6. LiveTop(Fresh) = 0
  BY <1>5, Sizes DEF LiveTop
<1>7. \A m \in 0..Scrollback-1 : RingIndex(Fresh, m) \in 0..Scrollback-1
  BY <1>4, TopOfLive, IndexWraps, Sizes
<1>8. \A m \in 0..Scrollback-1 : Line(Fresh, m) = BlankRow
  BY <1>5, <1>7 DEF Line
<1> QED  BY <1>4, <1>5, <1>6, <1>8

(* Forgetting or moving the view leaves the ring alone. *)
LEMMA ViewAside ==
  ASSUME NEW s \in Term, NEW n \in Nat, NEW u, u = [s EXCEPT !.off = n]
  PROVE  /\ u \in Term /\ u.off = n
         /\ u.rows = s.rows /\ u.base = s.base /\ u.count = s.count
         /\ u.row = s.row /\ u.col = s.col
         /\ LiveTop(u) = LiveTop(s) /\ ScrollMax(u) = ScrollMax(s)
         /\ \A m : Line(u, m) = Line(s, m)
BY DEF Term, Line, RingIndex, LiveTop, ScrollMax

(* What a step makes of the emulator. *)
LEMMA StepShape ==
  ASSUME IInv, Next
  PROVE  /\ IInv'
         /\ \/ t' \in Shape(t) /\ t'.off = 0
            \/ \E n \in 0..ScrollMax(t) : t' = [t EXCEPT !.off = n]
            \/ t' = Fresh
<1>1. t \in Term /\ ScrollMax(t) \in Nat /\ t.off \in 0..ScrollMax(t)
  BY TopOfLive, Sizes DEF IInv
<1>2. ASSUME NEW b \in Bytes, Feed(b)
      PROVE  IInv' /\ t' \in Shape(t) /\ t'.off = 0
  <2>1. b \in 0..255
    BY TerminalAssumption
  <2>2. PICK u : u = FeedByte(t, b)
    OBVIOUS
  <2>3. u \in Shape(t) /\ u \in Term
    BY <1>1, <2>1, <2>2, FeedShape DEF Shape
  <2>4. t' = [u EXCEPT !.off = 0]
    BY <1>2, <2>2 DEF Feed
  <2>5. /\ t' \in Term /\ t'.off = 0
        /\ t'.rows = u.rows /\ t'.base = u.base /\ t'.count = u.count
        /\ t'.row = u.row /\ t'.col = u.col
    BY <2>3, <2>4, ViewAside
  <2>6. t' \in Shape(t)
    BY <1>1, <2>3, <2>5, ParserAside
  <2>7. ScrollMax(t') \in Nat
    BY <2>5, TopOfLive, Sizes
  <2> QED  BY <2>5, <2>6, <2>7 DEF IInv
<1>3. ASSUME NEW n \in 0..ScrollMax(t), t' = [t EXCEPT !.off = n]
      PROVE  IInv'
  <2>1. n \in Nat
    BY <1>1
  <2>2. t' \in Term /\ t'.off = n /\ ScrollMax(t') = ScrollMax(t)
    BY <1>1, <1>3, <2>1, ViewAside
  <2> QED  BY <2>2 DEF IInv
<1>4. ASSUME NEW d \in Deltas, Scroll(d)
      PROVE  \E n \in 0..ScrollMax(t) : t' = [t EXCEPT !.off = n]
  <2>1. t' = [t EXCEPT !.off = Clamp(t.off + d, 0, ScrollMax(t))]
    BY <1>4 DEF Scroll
  <2>2. Clamp(t.off + d, 0, ScrollMax(t)) \in 0..ScrollMax(t)
    BY <1>1 DEF Clamp
  <2> QED  BY <2>1, <2>2
<1>5. CASE ScrollToBottom
  <2>1. 0 \in 0..ScrollMax(t) /\ t' = [t EXCEPT !.off = 0]
    BY <1>1, <1>5 DEF ScrollToBottom
  <2> QED  BY <1>3, <2>1
<1>6. CASE Reset
  <2>1. t' = Fresh
    BY <1>6 DEF Reset
  <2>2. t' \in Term /\ t'.off = 0
    BY <2>1, FreshTyped
  <2>3. ScrollMax(t') \in Nat
    BY <2>2, TopOfLive, Sizes
  <2> QED  BY <2>1, <2>2, <2>3 DEF IInv
<1> QED  BY <1>2, <1>3, <1>4, <1>5, <1>6 DEF Next

LEMMA InitInv == Init => IInv
<1> SUFFICES ASSUME Init PROVE IInv
  OBVIOUS
<1>1. t = Fresh
  BY DEF Init
<1>2. ScrollMax(t) \in Nat
  BY <1>1, FreshTyped, TopOfLive, Sizes
<1> QED  BY <1>1, <1>2, FreshTyped DEF IInv

(* The inductive invariant, for every size of the screen and the ring,     *)
(* every width of an int and every stream of bytes.                        *)
THEOREM TermInductive == Spec => []IInv
<1>1. IInv /\ [Next]_t => IInv'
  <2>1. IInv /\ UNCHANGED t => IInv'
    BY DEF IInv
  <2> QED  BY <2>1, StepShape
<1> QED  BY InitInv, <1>1, PTL DEF Spec

(* The cursor stays on the grid or one past its right edge, the ring and   *)
(* the parameter buffer within their sizes, and the view in the history,   *)
(* after any bytes, cut anywhere.                                          *)
THEOREM TermTypeCorrect == Spec => []TypeOK
<1>1. IInv => TypeOK
  BY DEF IInv, TypeOK, Term, RingSet, LineSet, CellSet, CsiSet
<1> QED  BY <1>1, TermInductive, PTL

-----------------------------------------------------------------------------
(* The scrolling log. *)

(* The lines above the screen and on it are sequences of lines. *)
LEMMA LinesAreSequences ==
  ASSUME NEW s \in Term
  PROVE  /\ History(s) \in Seq(LineSet) /\ Len(History(s)) = LiveTop(s)
         /\ \A i \in 1..LiveTop(s) : History(s)[i] = Line(s, i - 1)
         /\ Screen(s) \in Seq(LineSet) /\ Len(Screen(s)) = Rows
         /\ \A i \in 1..Rows : Screen(s)[i] = Line(s, LiveTop(s) + i - 1)
         /\ LiveTop(s) \in Nat
<1>1. LiveTop(s) \in 0..(Scrollback - Rows) /\ Rows \in Nat
  BY TopOfLive, Sizes
<1>2. ASSUME NEW i \in 1..LiveTop(s) PROVE Line(s, i - 1) \in LineSet
  <2>1. i - 1 \in 0..Scrollback-1
    BY <1>1, Sizes
  <2> QED  BY <2>1, LineTyped
<1>3. ASSUME NEW i \in 1..Rows PROVE Line(s, LiveTop(s) + i - 1) \in LineSet
  <2>1. LiveTop(s) + i - 1 \in 0..Scrollback-1
    BY <1>1, Sizes
  <2> QED  BY <2>1, LineTyped
<1>4. History(s) \in [1..LiveTop(s) -> LineSet]
  BY <1>2 DEF History
<1>5. Screen(s) \in [1..Rows -> LineSet]
  BY <1>3 DEF Screen
<1>6. LiveTop(s) \in Nat
  BY <1>1, Sizes
<1>7. History(s) \in Seq(LineSet) /\ Len(History(s)) = LiveTop(s)
  BY <1>4, <1>6
<1>8. Screen(s) \in Seq(LineSet) /\ Len(Screen(s)) = Rows
  BY <1>1, <1>5
<1>9. \A i \in 1..LiveTop(s) : History(s)[i] = Line(s, i - 1)
  BY DEF History
<1>10. \A i \in 1..Rows : Screen(s)[i] = Line(s, LiveTop(s) + i - 1)
  BY DEF Screen
<1> QED  BY <1>6, <1>7, <1>8, <1>9, <1>10

LEMMA SameHistory ==
  ASSUME NEW s, NEW u, LiveTop(u) = LiveTop(s), LiveTop(s) \in Nat,
         \A m \in 0..(LiveTop(s) - 1) : Line(u, m) = Line(s, m)
  PROVE  History(u) = History(s)
<1>1. \A i \in 1..LiveTop(s) : i - 1 \in 0..(LiveTop(s) - 1)
  OBVIOUS
<1> QED  BY <1>1 DEF History

(* A push hands the top line of the screen to the history, which forgets   *)
(* its oldest when it is full.                                             *)
LEMMA MovedScrolls ==
  ASSUME NEW s \in Term, NEW u \in Term, Moved(s, u)
  PROVE  /\ History(u) = LET longer == Append(History(s), Head(Screen(s)))
                         IN  IF Len(longer) > Scrollback - Rows THEN Tail(longer) ELSE longer
         /\ \A i \in 1..(Rows - 1) : Screen(u)[i] = Screen(s)[i + 1]
<1> DEFINE top == LiveTop(s)
           longer == Append(History(s), Head(Screen(s)))
<1>1. /\ s.count \in Rows..Scrollback /\ u.count \in Rows..Scrollback
      /\ top = s.count - Rows /\ LiveTop(u) = u.count - Rows
  BY TopOfLive DEF Term
<1>2. u.count = IF s.count < Scrollback THEN s.count + 1 ELSE s.count
  BY DEF Moved
<1>3. Head(Screen(s)) = Line(s, top)
  <2>1. Screen(s) # <<>> /\ 1 \in 1..Rows /\ top + 1 - 1 = top
    BY LinesAreSequences, Sizes
  <2>2. Head(Screen(s)) = Screen(s)[1]
    BY LinesAreSequences, <2>1
  <2> QED  BY <2>1, <2>2, LinesAreSequences
<1>4. Line(s, top) \in LineSet
  <2>1. top \in 0..Scrollback-1
    BY <1>1, Sizes
  <2> QED  BY <2>1, LineTyped
<1>5. /\ longer \in Seq(LineSet) /\ Len(longer) = top + 1
      /\ \A i \in 1..(top + 1) : longer[i] = Line(s, i - 1)
  <2>1. History(s) \in Seq(LineSet) /\ Len(History(s)) = top /\ top \in Nat
    BY LinesAreSequences
  <2>2. longer \in Seq(LineSet) /\ Len(longer) = top + 1 /\ longer[top + 1] = Line(s, top)
    BY <1>3, <1>4, <2>1
  <2>3. ASSUME NEW i \in 1..(top + 1) PROVE longer[i] = Line(s, i - 1)
    <3>1. CASE i = top + 1
      <4>1. i - 1 = top
        BY <2>1, <3>1
      <4> QED  BY <2>2, <3>1, <4>1
    <3>2. CASE i # top + 1
      <4>1. i \in 1..top
        BY <2>1, <3>2
      <4>2. longer[i] = History(s)[i]
        BY <1>3, <1>4, <2>1, <4>1
      <4> QED  BY <4>1, <4>2, LinesAreSequences
    <3> QED  BY <3>1, <3>2
  <2> QED  BY <2>2, <2>3
<1>6. /\ History(u) \in Seq(LineSet) /\ Len(History(u)) = LiveTop(u)
      /\ \A i \in 1..LiveTop(u) : History(u)[i] = Line(u, i - 1)
  BY LinesAreSequences
<1> HIDE DEF longer
<1>7. CASE s.count < Scrollback
  <2>1. LiveTop(u) = top + 1 /\ ~(Len(longer) > Scrollback - Rows)
    BY <1>1, <1>2, <1>5, <1>7, Sizes
  <2>2. ASSUME NEW i \in 1..(top + 1) PROVE History(u)[i] = longer[i]
    <3>1. i - 1 \in 0..(u.count - 2) /\ (i - 1) + s.count + 1 - u.count = i - 1
      BY <1>1, <1>2, <1>7, Sizes
    <3>2. Line(u, i - 1) = Line(s, i - 1)
      BY <3>1 DEF Moved
    <3> QED  BY <1>5, <1>6, <2>1, <3>2
  <2>3. History(u) = longer
    BY <1>5, <1>6, <2>1, <2>2
  <2>4. ASSUME NEW i \in 1..(Rows - 1) PROVE Screen(u)[i] = Screen(s)[i + 1]
    <3>1. /\ i \in 1..Rows /\ i + 1 \in 1..Rows
          /\ LiveTop(u) + i - 1 \in 0..(u.count - 2)
          /\ (LiveTop(u) + i - 1) + s.count + 1 - u.count = top + (i + 1) - 1
      BY <1>1, <1>2, <1>7, Sizes
    <3>2. Line(u, LiveTop(u) + i - 1) = Line(s, top + (i + 1) - 1)
      BY <3>1 DEF Moved
    <3> QED  BY <3>1, <3>2, LinesAreSequences
  <2> QED  BY <2>1, <2>3, <2>4 DEF longer
<1>8. CASE s.count = Scrollback
  <2>1. LiveTop(u) = top /\ Len(longer) > Scrollback - Rows
    BY <1>1, <1>2, <1>5, <1>8, Sizes
  <2>2. longer # <<>> /\ top \in Nat
    BY <1>1, <1>5, Sizes
  <2>3. /\ Tail(longer) \in Seq(LineSet) /\ Len(Tail(longer)) = top
        /\ \A i \in 1..top : Tail(longer)[i] = longer[i + 1]
    BY <1>5, <2>2
  <2>4. ASSUME NEW i \in 1..top PROVE History(u)[i] = Tail(longer)[i]
    <3>1. /\ i - 1 \in 0..(u.count - 2) /\ (i - 1) + s.count + 1 - u.count = (i + 1) - 1
          /\ i + 1 \in 1..(top + 1)
      BY <1>1, <1>2, <1>8, Sizes
    <3>2. Line(u, i - 1) = Line(s, (i + 1) - 1)
      BY <3>1 DEF Moved
    <3> QED  BY <1>5, <1>6, <2>1, <2>3, <3>1, <3>2
  <2>5. History(u) = Tail(longer)
    BY <1>6, <2>1, <2>3, <2>4
  <2>6. ASSUME NEW i \in 1..(Rows - 1) PROVE Screen(u)[i] = Screen(s)[i + 1]
    <3>1. /\ i \in 1..Rows /\ i + 1 \in 1..Rows
          /\ LiveTop(u) + i - 1 \in 0..(u.count - 2)
          /\ (LiveTop(u) + i - 1) + s.count + 1 - u.count = top + (i + 1) - 1
      BY <1>1, <1>2, <1>8, Sizes
    <3>2. Line(u, LiveTop(u) + i - 1) = Line(s, top + (i + 1) - 1)
      BY <3>1 DEF Moved
    <3> QED  BY <3>1, <3>2, LinesAreSequences
  <2> QED  BY <2>1, <2>5, <2>6 DEF longer
<1> QED  BY <1>1, <1>7, <1>8, Sizes

LEMMA InitLog == Init => Log!Init
<1> SUFFICES ASSUME Init PROVE Log!Init
  OBVIOUS
<1>1. t = Fresh
  BY DEF Init
<1>2. Len(History(t)) = 0 /\ History(t) \in Seq(LineSet) /\ t.off = 0
  BY <1>1, FreshTyped, LinesAreSequences
<1>3. ASSUME NEW i \in 1..Rows PROVE Line(t, LiveTop(t) + i - 1) = BlankRow
  <2>1. LiveTop(t) + i - 1 \in 0..Scrollback-1
    BY <1>1, FreshTyped, Sizes
  <2> QED  BY <1>1, <2>1, FreshTyped
<1>4. Screen(t) = [i \in 1..Rows |-> BlankRow]
  BY <1>3 DEF Screen
<1> QED  BY <1>2, <1>4 DEF Log!Init, Log!BlankScreen

(* Every step of the emulator is a step of the log. *)
LEMMA StepsLog ==
  ASSUME IInv, Next
  PROVE  Log!Next
<1>1. t \in Term /\ t' \in Term /\ t'.off \in 0..ScrollMax(t')
  BY StepShape DEF IInv
<1>2. /\ Len(History(t)) = LiveTop(t) /\ Len(Screen(t)) = Rows
      /\ Len(History(t')) = LiveTop(t') /\ Len(Screen(t')) = Rows
      /\ Screen(t) \in Seq(LineSet) /\ Screen(t') \in Seq(LineSet)
      /\ LiveTop(t) \in Nat /\ ScrollMax(t) = LiveTop(t)
  BY <1>1, LinesAreSequences, TopOfLive
<1>3. CASE Edited(t, t') /\ t'.off = 0
  <2>1. LiveTop(t') = LiveTop(t)
    BY <1>3 DEF Edited, LiveTop
  <2>2. History(t') = History(t)
    BY <1>2, <1>3, <2>1, SameHistory DEF Edited
  <2>3. Log!Edit
    BY <1>2, <1>3, <2>2 DEF Log!Edit
  <2> QED  BY <2>3 DEF Log!Next
<1>4. CASE Moved(t, t') /\ t'.off = 0
  <2>1. /\ History(t') = LET longer == Append(History(t), Head(Screen(t)))
                         IN  IF Len(longer) > Scrollback - Rows THEN Tail(longer) ELSE longer
        /\ \A i \in 1..(Rows - 1) : Screen(t')[i] = Screen(t)[i + 1]
    BY <1>1, <1>4, MovedScrolls
  <2>2. SubSeq(Screen(t'), 1, Rows - 1) = Tail(Screen(t))
    <3>1. Screen(t) # <<>> /\ Rows - 1 \in Nat /\ Rows \in Nat
      BY <1>2, Sizes
    <3>2. /\ Tail(Screen(t)) \in Seq(LineSet) /\ Len(Tail(Screen(t))) = Rows - 1
          /\ \A i \in 1..(Rows - 1) : Tail(Screen(t))[i] = Screen(t)[i + 1]
      BY <1>2, <3>1
    <3>3. \A i \in 1..(Rows - 1) : i \in 1..Rows
      BY <3>1
    <3>4. /\ SubSeq(Screen(t'), 1, Rows - 1) \in Seq(LineSet)
          /\ Len(SubSeq(Screen(t'), 1, Rows - 1)) = Rows - 1
          /\ \A i \in 1..(Rows - 1) : SubSeq(Screen(t'), 1, Rows - 1)[i] = Screen(t')[i]
      BY <1>2, <3>1, <3>3
    <3> QED  BY <2>1, <3>2, <3>4
  <2>3. Log!ScrollUp
    BY <1>2, <1>4, <2>1, <2>2 DEF Log!ScrollUp
  <2> QED  BY <2>3 DEF Log!Next
<1>5. ASSUME NEW n \in 0..ScrollMax(t), t' = [t EXCEPT !.off = n]
      PROVE  Log!Next
  <2>1. n \in Nat
    BY <1>2
  <2>2. t'.off = n /\ LiveTop(t') = LiveTop(t) /\ \A m : Line(t', m) = Line(t, m)
    BY <1>1, <1>5, <2>1, ViewAside
  <2>3. History(t') = History(t) /\ Screen(t') = Screen(t)
    BY <2>2 DEF History, Screen
  <2>4. Log!Pan
    BY <1>2, <2>2, <2>3 DEF Log!Pan
  <2> QED  BY <2>4 DEF Log!Next
<1>6. CASE t' = Fresh
  <2>1. Len(History(t')) = 0 /\ History(t') \in Seq(LineSet) /\ t'.off = 0
    BY <1>6, FreshTyped, LinesAreSequences
  <2>2. ASSUME NEW i \in 1..Rows PROVE Line(t', LiveTop(t') + i - 1) = BlankRow
    <3>1. LiveTop(t') + i - 1 \in 0..Scrollback-1
      BY <1>6, FreshTyped, Sizes
    <3> QED  BY <1>6, <3>1, FreshTyped
  <2>3. Screen(t') = [i \in 1..Rows |-> BlankRow]
    BY <2>2 DEF Screen
  <2>4. Log!Clear
    BY <2>1, <2>3 DEF Log!Clear, Log!BlankScreen
  <2> QED  BY <2>4 DEF Log!Next
<1> QED  BY <1>3, <1>4, <1>5, <1>6, StepShape DEF Shape

(* The ring is a scrolling log: whatever is printed, erased or malformed,  *)
(* no line of the history changes or is lost before its time.              *)
THEOREM RingKeepsLog == Spec => KeepsLog
<1>1. IInv /\ [Next]_t => [Log!Next]_(Log!logvars)
  <2>1. UNCHANGED t => UNCHANGED Log!logvars
    BY DEF Log!logvars, History, Screen, LiveTop, Line, RingIndex
  <2> QED  BY <2>1, StepsLog
<1> QED  BY InitLog, <1>1, TermInductive, PTL DEF Spec, KeepsLog, Log!Spec

-----------------------------------------------------------------------------
(* Writes at the cursor. *)

(* The lines of the screen after a push, compared with those before it     *)
(* scrolled.                                                               *)
LEMMA ScrolledScreen ==
  ASSUME NEW s \in Term
  PROVE  /\ \A r \in 0..(Rows - 2) :
              Append(Tail(Screen(s)), BlankRow)[r + 1] = Screen(s)[r + 2]
         /\ Append(Tail(Screen(s)), BlankRow)[Rows] = BlankRow
<1>1. /\ Screen(s) \in Seq(LineSet) /\ Len(Screen(s)) = Rows
      /\ Rows \in Nat /\ Rows >= 1 /\ BlankRow \in LineSet
  BY LinesAreSequences, Sizes, BlankTyped
<1> DEFINE rest == Tail(Screen(s))
<1>2. /\ rest \in Seq(LineSet) /\ Len(rest) = Rows - 1
      /\ \A i \in 1..(Rows - 1) : rest[i] = Screen(s)[i + 1]
  BY <1>1
<1> HIDE DEF rest
<1>3. Append(rest, BlankRow)[Rows] = BlankRow
  BY <1>1, <1>2
<1>4. ASSUME NEW r \in 0..(Rows - 2)
      PROVE  Append(rest, BlankRow)[r + 1] = Screen(s)[r + 2]
  <2>1. r + 1 \in 1..(Rows - 1) /\ (r + 1) + 1 = r + 2
    BY <1>1
  <2>2. Append(rest, BlankRow)[r + 1] = rest[r + 1]
    BY <1>1, <1>2, <2>1
  <2> QED  BY <1>2, <2>1, <2>2
<1> QED  BY <1>3, <1>4 DEF rest

Before(s, u) == IF u.count # s.count \/ u.base # s.base
                THEN Append(Tail(Screen(s)), BlankRow) ELSE Screen(s)

WrittenCell(s, u, r, c) ==
  \/ Screen(u)[r + 1][c] = Before(s, u)[r + 1][c]
  \/ Screen(u)[r + 1][c] = Blank
  \/ u.row = r /\ u.col = c + 1

LEMMA StepWrites ==
  ASSUME IInv, Next, NEW r \in 0..Rows-1, NEW c \in 0..Cols-1
  PROVE  WrittenCell(t, t', r, c)
<1>1. /\ t \in Term /\ t' \in Term /\ r + 1 \in 1..Rows /\ Rows \in Nat
      /\ LiveTop(t) \in Nat /\ LiveTop(t') \in Nat
      /\ LiveTop(t) + (r + 1) - 1 = LiveTop(t) + r
      /\ LiveTop(t') + (r + 1) - 1 = LiveTop(t') + r
  <2>1. t \in Term /\ t' \in Term
    BY StepShape DEF IInv
  <2>2. LiveTop(t) \in Nat /\ LiveTop(t') \in Nat
    BY <2>1, LinesAreSequences
  <2>3. Rows \in Nat /\ r \in 0..Rows-1
    BY Sizes
  <2>4. \A top \in Nat : top + (r + 1) - 1 = top + r
    BY ONLY <2>3
  <2>5. r + 1 \in 1..Rows
    BY ONLY <2>3
  <2> QED  BY <2>1, <2>2, <2>3, <2>4, <2>5
<1>2. /\ Screen(t)[r + 1] = Line(t, LiveTop(t) + r)
      /\ Screen(t')[r + 1] = Line(t', LiveTop(t') + r)
  BY <1>1, LinesAreSequences
<1>3. CASE Edited(t, t')
  <2>1. LiveTop(t') = LiveTop(t) /\ t'.count = t.count /\ t'.base = t.base
    BY <1>3 DEF Edited, LiveTop
  <2> QED  BY <1>2, <1>3, <2>1 DEF Edited, WrittenCell, Before
<1>4. CASE Moved(t, t')
  <2>1. /\ t.count \in Rows..Scrollback /\ t'.count \in Rows..Scrollback
        /\ LiveTop(t) = t.count - Rows /\ LiveTop(t') = t'.count - Rows
    BY <1>1, TopOfLive DEF Term
  <2>2. CASE r = Rows - 1
    <3>1. LiveTop(t') + r = t'.count - 1
      BY <2>1, <2>2, Sizes
    <3> QED  BY <1>2, <1>4, <2>2, <3>1 DEF Moved, WrittenCell
  <2>3. CASE r # Rows - 1
    <3>1. r \in 0..(Rows - 2) /\ Rows # 1
      BY <2>3, Sizes
    <3>2. Before(t, t')[r + 1] = Screen(t)[r + 2]
      BY <1>1, <1>4, <3>1, ScrolledScreen DEF Moved, Before
    <3>3. /\ r + 2 \in 1..Rows
          /\ LiveTop(t') + r \in 0..(t'.count - 2)
          /\ (LiveTop(t') + r) + t.count + 1 - t'.count = LiveTop(t) + (r + 2) - 1
      BY <2>1, <3>1, Sizes
    <3>4. Line(t', LiveTop(t') + r) = Line(t, LiveTop(t) + (r + 2) - 1)
      BY <1>4, <3>3 DEF Moved
    <3>5. Screen(t)[r + 2] = Line(t, LiveTop(t) + (r + 2) - 1)
      BY <1>1, <3>3, LinesAreSequences
    <3> QED  BY <1>2, <3>2, <3>4, <3>5 DEF WrittenCell
  <2> QED  BY <2>2, <2>3
<1>5. ASSUME NEW n \in 0..ScrollMax(t), t' = [t EXCEPT !.off = n]
      PROVE  WrittenCell(t, t', r, c)
  <2>1. n \in Nat
    BY <1>1, TopOfLive, Sizes
  <2>2. /\ t'.base = t.base /\ t'.count = t.count /\ LiveTop(t') = LiveTop(t)
        /\ \A m : Line(t', m) = Line(t, m)
    BY <1>1, <1>5, <2>1, ViewAside
  <2> QED  BY <1>2, <2>2 DEF WrittenCell, Before
<1>6. CASE t' = Fresh
  <2>1. LiveTop(t') + r \in 0..Scrollback-1
    BY <1>1, TopOfLive
  <2>2. Screen(t')[r + 1] = BlankRow
    BY <1>2, <1>6, <2>1, FreshTyped
  <2> QED  BY <2>2, BlankTyped DEF WrittenCell
<1> QED  BY <1>3, <1>4, <1>5, <1>6, StepShape DEF Shape

(* One byte writes one cell, just left of the cursor, or blanks; partial   *)
(* and malformed sequences write nowhere.                                  *)
THEOREM OneByteOneCell == Spec => WritesAtCursor
<1>1. IInv /\ [Next]_t =>
        [LET scrolled == t'.count # t.count \/ t'.base # t.base
             before == IF scrolled THEN Append(Tail(Screen(t)), BlankRow) ELSE Screen(t)
         IN  t'.phase # "csi" /\ t' # Fresh =>
               \A r \in 0..Rows-1, c \in 0..Cols-1 :
                 \/ Screen(t')[r + 1][c] = before[r + 1][c]
                 \/ Screen(t')[r + 1][c] = Blank
                 \/ t'.row = r /\ t'.col = c + 1]_t
  BY StepWrites DEF WrittenCell, Before
<1> QED  BY <1>1, TermInductive, PTL DEF Spec, WritesAtCursor

-----------------------------------------------------------------------------
(* What a frame draws. *)

LEMMA Concatenated ==
  ASSUME NEW S, NEW p \in Seq(S), NEW q \in Seq(S)
  PROVE  /\ p \o q \in Seq(S) /\ Len(p \o q) = Len(p) + Len(q)
         /\ \A i \in 1..Len(p) : (p \o q)[i] = p[i]
         /\ \A i \in 1..Len(q) : (p \o q)[Len(p) + i] = q[i]
<1>1. p \o q \in Seq(S) /\ Len(p \o q) = Len(p) + Len(q)
  OBVIOUS
<1>2. \A i \in 1..Len(p) : (p \o q)[i] = p[i]
  OBVIOUS
<1>3. ASSUME NEW i \in 1..Len(q) PROVE (p \o q)[Len(p) + i] = q[i]
  <2>1. Len(p) + i \in 1..(Len(p) + Len(q)) /\ Len(p) + i > Len(p) /\ Len(p) + i - Len(p) = i
    OBVIOUS
  <2> QED  BY <2>1
<1> QED  BY <1>1, <1>2, <1>3

(* The cell the renderer reads is the log's, through the ring. *)
LEMMA WindowIsRead ==
  ASSUME IInv, NEW r \in 0..Rows-1, NEW c \in 0..Cols-1
  PROVE  Log!Window[r + 1][c] = Cell(t, r, c) /\ Cell(t, r, c) \in CellSet
<1> DEFINE top == LiveTop(t) - t.off
           all == History(t) \o Screen(t)
<1>1. /\ t \in Term /\ t.off \in 0..LiveTop(t) /\ LiveTop(t) = t.count - Rows
      /\ LiveTop(t) \in Nat /\ t.count \in Rows..Scrollback
  <2>1. t \in Term /\ t.off \in 0..ScrollMax(t) /\ t.count \in Rows..Scrollback
    BY DEF IInv, Term
  <2>2. LiveTop(t) = t.count - Rows /\ ScrollMax(t) = t.count - Rows
    BY <2>1, TopOfLive
  <2> QED  BY <2>1, <2>2, Sizes
<1>2. /\ History(t) \in Seq(LineSet) /\ Len(History(t)) = LiveTop(t)
      /\ \A i \in 1..LiveTop(t) : History(t)[i] = Line(t, i - 1)
      /\ Screen(t) \in Seq(LineSet) /\ Len(Screen(t)) = Rows
      /\ \A i \in 1..Rows : Screen(t)[i] = Line(t, LiveTop(t) + i - 1)
  BY <1>1, LinesAreSequences
<1>3. top \in Nat /\ top + r \in 0..(LiveTop(t) + Rows - 1) /\ top + r < t.count
  BY <1>1, Sizes
<1>4. all \in Seq(LineSet) /\ Len(all) = LiveTop(t) + Rows
  BY <1>2, Concatenated
<1>5. all[top + r + 1] = Line(t, top + r)
  <2>1. CASE top + r + 1 \in 1..LiveTop(t)
    <3>1. all[top + r + 1] = History(t)[top + r + 1]
      BY <1>2, <2>1, Sizes
    <3>2. (top + r + 1) - 1 = top + r
      BY <1>3
    <3> QED  BY <1>2, <2>1, <3>1, <3>2
  <2>2. CASE top + r + 1 \notin 1..LiveTop(t)
    <3> DEFINE i == top + r + 1 - LiveTop(t)
    <3>1. i \in 1..Rows /\ LiveTop(t) + i - 1 = top + r /\ top + r + 1 = LiveTop(t) + i
      BY <1>1, <1>3, <2>2, Sizes
    <3> HIDE DEF i, top
    <3>2. all[LiveTop(t) + i] = Screen(t)[i]
      BY <1>2, <3>1, Concatenated
    <3> QED  BY <1>2, <3>1, <3>2
  <2> QED  BY <2>1, <2>2
<1>6. Log!Window = SubSeq(all, top + 1, top + Rows)
  BY <1>2 DEF Log!Window
<1>7. Log!Window[r + 1] = all[top + r + 1]
  <2> HIDE DEF all, top
  <2>1. /\ top + 1 \in 1..(Len(all) + 1) /\ top + Rows \in top..Len(all)
        /\ r + 1 \in 1..Rows /\ (top + Rows) - (top + 1) + 1 = Rows
        /\ (top + 1) + (r + 1) - 1 = top + r + 1
    <3>1. top + Rows <= LiveTop(t) + Rows
      BY <1>1, Sizes DEF top
    <3> QED  BY <1>1, <1>3, <1>4, <3>1, Sizes
  <2> QED  BY <1>3, <1>4, <1>6, <2>1, Sizes
<1>8. top + r \in 0..Scrollback-1
  BY <1>1, <1>3, Sizes
<1>9. Cell(t, r, c) = Line(t, top + r)[c]
  <2>1. ~(top < 0) /\ ~(top + r >= t.count)
    <3> HIDE DEF top
    <3> QED  BY <1>1, <1>3, Sizes
  <2> QED  BY <2>1 DEF Cell, Line
<1>10. Line(t, top + r)[c] \in CellSet
  BY <1>1, <1>8, LineTyped DEF LineSet
<1> QED  BY <1>5, <1>7, <1>9, <1>10

(* A frame shows the log's window at the scroll offset and one block       *)
(* cursor exactly when the view is the live screen.                        *)
THEOREM FrameIsWindow == Spec => []DrawsTheWindow
<1>1. ASSUME IInv, NEW r \in 0..Rows-1, NEW c \in 0..Cols-1
      PROVE  LET cell == Log!Window[r + 1][c]
                 d    == Drawn(t, r, c)
                 block == t.off = 0 /\ <<r, c>> = <<t.row, CursorCol(t)>>
             IN  /\ d.glyph = (IF cell.ch = 32 THEN 0 ELSE cell.ch)
                 /\ (d.bg.table # "bg") <=> (cell.attr.inverse # block)
                 /\ {d.fg.index, d.bg.index} = {cell.attr.fg, cell.attr.bg}
  <2> DEFINE cell == Cell(t, r, c)
             block == t.off = 0 /\ <<r, c>> = <<t.row, CursorCol(t)>>
             cursor == t.off = 0 /\ r = t.row /\ c = CursorCol(t)
             inverse == cell.attr.inverse # cursor
             ink == [table |-> IF cell.attr.bold THEN "bold" ELSE "fg", index |-> cell.attr.fg]
             paper == [table |-> "bg", index |-> cell.attr.bg]
             d == Drawn(t, r, c)
  <2>1. Log!Window[r + 1][c] = cell /\ cell \in CellSet
    BY <1>1, WindowIsRead
  <2>2. /\ d.glyph = (IF cell.ch = 32 THEN 0 ELSE cell.ch)
        /\ d.fg = (IF inverse THEN paper ELSE ink)
        /\ d.bg = (IF inverse THEN ink ELSE paper)
    BY DEF Drawn
  <2>3. block <=> cursor
    OBVIOUS
  <2>4. /\ paper.table = "bg" /\ ink.table # "bg"
        /\ paper.index = cell.attr.bg /\ ink.index = cell.attr.fg
    OBVIOUS
  <2>5. cell.attr.inverse \in BOOLEAN
    BY <2>1 DEF CellSet, Attr
  <2> HIDE DEF cell, paper, ink, d, cursor, block
  <2>6. (d.bg.table # "bg") <=> inverse
    BY <2>2, <2>4
  <2>7. inverse <=> (cell.attr.inverse # block)
    BY <2>3, <2>5
  <2>8. {d.fg.index, d.bg.index} = {cell.attr.fg, cell.attr.bg}
    BY <2>2, <2>4
  <2> QED  BY <2>1, <2>2, <2>6, <2>7, <2>8 DEF cell, block, d
<1>2. IInv => DrawsTheWindow
  BY <1>1 DEF DrawsTheWindow
<1> QED  BY <1>2, TermInductive, PTL

=============================================================================
