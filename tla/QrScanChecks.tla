---------------------------- MODULE QrScanChecks ----------------------------
(* The scan of QrScan on small frames, against the definition of connected   *)
(* regions and of a finder pattern.                                           *)
EXTENDS QrScan

Filled(spans) == UNION {Pixels(spans[i]) : i \in DOMAIN spans}
Area(spans) == MapThenSumSet(LAMBDA i : spans[i].right - spans[i].left + 1, DOMAIN spans)

RECURSIVE Component(_, _)
Component(S, open) ==
  LET more == {p \in open \ S : \E q \in S : (p[1] - q[1])^2 + (p[2] - q[2])^2 = 1}
  IN  IF more = {} THEN S ELSE Component(S \cup more, open)

Frame(w, h) == (0..(w - 1)) \X (0..(h - 1))

(* A ring as wide as its stone's modules are, m pixels, turned by nothing  *)
(* or by an eighth, its top left at the origin.                            *)
Square(m) == {p \in Frame(7 * m, 7 * m) : ~(p[1] \in m..(6 * m - 1) /\ p[2] \in m..(6 * m - 1))}
Stone(m) == ((2 * m)..(5 * m - 1)) \X ((2 * m)..(5 * m - 1))
Distance(a, b) == IF a < b THEN b - a ELSE a - b
Diamond(r, t) == {p \in Frame(2 * r + 1, 2 * r + 1) :
                    Distance(p[1], r) + Distance(p[2], r) \in (r - t)..r}
Shift(S, dx, dy) == {<<p[1] + dx, p[2] + dy>> : p \in S}

(* With room on the stack a fill takes the whole region of its seed and    *)
(* no pixel twice; with less room it takes a part of it.                   *)
ASSUME FillsItsRegion ==
  \A open \in SUBSET Frame(3, 3) : \A seed \in open :
    LET full == flood_fill_seed(open, seed, 9)
        short == flood_fill_seed(open, seed, 2)
    IN  /\ Filled(full) = Component({seed}, open)
        /\ Area(full) = Cardinality(Filled(full))
        /\ Filled(short) \subseteq Filled(full) /\ Area(short) = Cardinality(Filled(short))

(* The depth that is allocated holds for the rings it was chosen for:      *)
(* upright or on a corner, as high as a third of the frame.                *)
ASSUME RingsFit ==
  /\ \A m \in 1..2 : Filled(flood_fill_seed(Square(m), <<0, 0>>, FillDepth(21 * m))) = Square(m)
  /\ \A r \in 3..6 : \A t \in 1..2 :
       Filled(flood_fill_seed(Diamond(r, t), <<r, 0>>, FillDepth(3 * (2 * r + 1)))) = Diamond(r, t)

(* A finder pattern anywhere in a frame, a white pixel after it, is found  *)
(* once, over all the rows that cross its stone.                           *)
ASSUME FindsTheFinder ==
  \A dx, dy \in 0..1 :
    LET dark == Shift(Square(1) \cup Stone(1), dx, dy)
        q == Capstones(9, 21, dark)
    IN  /\ Len(q.capstones) = 1
        /\ q.regions[q.capstones[1].ring].count = 24
        /\ q.regions[q.capstones[1].stone].count = 9

(* Without the white pixel after it, with a broken ring, or in a frame too *)
(* low for the stack to fill the ring, it is not.                          *)
ASSUME NoFinder ==
  /\ Capstones(9, 9, Square(1) \cup Stone(1)).capstones = <<>>
  /\ Capstones(8, 21, Shift(Square(1) \cup Stone(1), 1, 1)).capstones = <<>>
  /\ Capstones(9, 21, (Square(1) \cup Stone(1)) \ {<<3, 0>>, <<3, 6>>}).capstones = <<>>

(* The runs may be off by three quarters of a module and no more. *)
ASSUME FinderRuns ==
  /\ \A m \in 1..4 : IsFinder(<<m, m, 3 * m, m, m>>)
  /\ IsFinder(<<4, 4, 9, 4, 4>>) /\ IsFinder(<<4, 4, 15, 4, 4>>)
  /\ ~IsFinder(<<4, 4, 8, 4, 4>>) /\ ~IsFinder(<<4, 4, 16, 4, 4>>)

(* Of two levels of grey the threshold parts the dark one from the bright. *)
ASSUME ThresholdParts ==
  \A a, b \in 0..5 : \A na, nb \in 1..3 :
    a < b => LET n == [i \in 0..5 |-> IF i = a THEN na ELSE IF i = b THEN nb ELSE 0]
             IN  otsu(n, 5) \in a..(b - 1)
=============================================================================
