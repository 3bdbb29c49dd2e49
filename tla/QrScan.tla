------------------------------- MODULE QrScan -------------------------------
(***************************************************************************)
(* How quirc.c finds the corners of a code in a camera frame: the          *)
(* threshold, the regions filled span by span on a stack of bounded depth, *)
(* and the rows searched for the 1:1:3:1:1 runs of a finder pattern.       *)
(* Pixels are <<x, y>>; a frame is its size and its black pixels.          *)
(***************************************************************************)
EXTENDS Integers, SequencesExt

(* QUIRC_PIXEL_REGION to QUIRC_MAX_REGIONS: how many regions there may be. *)
CONSTANT MaxRegions

-----------------------------------------------------------------------------
(* otsu over the histogram of levels 0..top: the last level that parts the *)
(* pixels with the largest variance between the two sides.  Variances are  *)
(* compared exactly, as fractions.                                         *)
otsu(histogram, top) ==
  LET Sum(f(_), S) == MapThenSumSet(f, S)
      total == Sum(LAMBDA i : histogram[i], 0..top)
      sum == Sum(LAMBDA i : i * histogram[i], 0..top)
      q1(i) == Sum(LAMBDA j : histogram[j], 0..i)
      sumB(i) == Sum(LAMBDA j : j * histogram[j], 0..i)
      Num(i) == (sumB(i) * (total - q1(i)) - (sum - sumB(i)) * q1(i))^2
      Den(i) == q1(i) * (total - q1(i))
      parts == {i \in 0..top : q1(i) > 0 /\ q1(i) < total}
      best == {i \in parts : \A j \in parts : Num(i) * Den(j) >= Num(j) * Den(i)}
  IN  IF best = {} THEN 0 ELSE Max(best)

(* pixels_setup: darker than the threshold is black. *)
Black(image, threshold) == {p \in DOMAIN image : image[p] < threshold}

-----------------------------------------------------------------------------
(* flood_fill_seed.  open is what may still be filled; the pixels of a     *)
(* span leave it.  The search of a span's upper and lower neighbours may   *)
(* start over from its left end: what was passed is no longer open.        *)

Pixels(span) == (span.left .. span.right) \X {span.y}

(* flood_fill_line *)
SpanAt(open, x, y) ==
  LET Runs(a, b) == (a .. b) \X {y} \subseteq open
  IN  [y |-> y,
       left |-> CHOOSE l \in 0..x : Runs(l, x) /\ <<l - 1, y>> \notin open,
       right |-> LET xs == {p[1] : p \in {q \in open : q[2] = y /\ q[1] >= x}}
                 IN  Max({r \in xs : Runs(x, r)})]

(* flood_fill_call_next: where the fill goes on above or below a span. *)
Seeds(open, span, dir) ==
  {x \in span.left .. span.right : <<x, span.y + dir>> \in open}

RECURSIVE Fill(_, _, _, _)
Fill(open, spans, stack, depth) ==
  LET span == Last(stack)
      dirs == {d \in {-1, 1} : Seeds(open, span, d) # {}}
      dir == Min(dirs)
      next == SpanAt(open, Min(Seeds(open, span, dir)), span.y + dir)
  IN  IF Len(stack) = depth \/ (dirs = {} /\ Len(stack) = 1) THEN spans
      ELSE IF dirs # {} THEN Fill(open \ Pixels(next), Append(spans, next), Append(stack, next), depth)
      ELSE Fill(open, spans, Front(stack), depth)

flood_fill_seed(open, seed, depth) ==
  LET first == SpanAt(open, seed[1], seed[2])
  IN  Fill(open \ Pixels(first), <<first>>, <<first>>, depth)

(* quirc_resize: the depth of the stack for a frame of height h. *)
FillDepth(h) == Max({(h * 2) \div 3, 1})

-----------------------------------------------------------------------------
(* A scan: black pixels in no region yet, the regions, the capstones.  A  *)
(* region is known by its number from 1; 0 is none.                        *)

Scan(w, h, black) == [w |-> w, h |-> h, black |-> black, regions |-> <<>>, capstones |-> <<>>]

(* region_code: the region of a pixel, made when there is none. *)
RegionAt(q, p) ==
  LET of == {r \in DOMAIN q.regions : p \in q.regions[r].pixels}
  IN  IF of = {} THEN 0 ELSE Max(of)
WithRegion(q, p) ==
  LET spans == flood_fill_seed(q.black, p, FillDepth(q.h))
      filled == UNION {Pixels(spans[i]) : i \in DOMAIN spans}
      area == MapThenSumSet(LAMBDA i : spans[i].right - spans[i].left + 1, DOMAIN spans)
  IN  IF p \notin q.black \/ Len(q.regions) >= MaxRegions THEN q
      ELSE [q EXCEPT !.black = @ \ filled,
                     !.regions = Append(@, [seed |-> p, pixels |-> filled, count |-> area,
                                            capstone |-> FALSE])]

(* test_capstone, the runs pb ending before x: a ring around a stone of    *)
(* ten to seventy hundredths of its area, neither of them taken.           *)
test_capstone(q, x, y, pb) ==
  LET right == x - pb[5]
      middle == right - pb[4] - pb[3]
      left == middle - pb[2] - pb[1]
      found == WithRegion(WithRegion(WithRegion(q, <<right, y>>), <<middle, y>>), <<left, y>>)
      ring == RegionAt(found, <<left, y>>)
      stone == RegionAt(found, <<middle, y>>)
      ratio == (found.regions[stone].count * 100) \div found.regions[ring].count
  IN  IF /\ ring # 0 /\ stone # 0
         /\ ring = RegionAt(found, <<right, y>>) /\ ring # stone
         /\ ~found.regions[stone].capstone /\ ~found.regions[ring].capstone
         /\ ratio \in 10..70
      THEN [found EXCEPT !.regions[ring].capstone = TRUE, !.regions[stone].capstone = TRUE,
                         !.capstones = Append(@, [ring |-> ring, stone |-> stone])]
      ELSE found

(* The runs of a finder pattern, each within three quarters of a module. *)
IsFinder(pb) ==
  LET avg == ((pb[1] + pb[2] + pb[4] + pb[5]) * 16) \div 4
      err == (avg * 3) \div 4
      check == <<1, 1, 3, 1, 1>>
  IN  \A i \in 1..5 : pb[i] * 16 - check[i] * avg \in -err..err

finder_scan(q, y, dark) ==
  LET At(st, x) ==
        LET color == <<x, y>> \in dark
            edge == x > 0 /\ color # st.color
            pb == Append(Tail(st.pb), st.length)
            turned == IF edge THEN [st EXCEPT !.pb = pb, !.length = 0, !.count = @ + 1] ELSE st
            tested == IF edge /\ ~color /\ st.count + 1 >= 5 /\ IsFinder(pb)
                        THEN [turned EXCEPT !.q = test_capstone(@, x, y, pb)] ELSE turned
        IN  [tested EXCEPT !.length = @ + 1, !.color = color]
      Start == [q |-> q, color |-> FALSE, length |-> 0, count |-> 0, pb |-> <<0, 0, 0, 0, 0>>]
  IN  FoldLeft(At, Start, [x \in 1..q.w |-> x - 1]).q

(* quirc_end, up to the capstones. *)
Capstones(w, h, dark) ==
  FoldLeft(LAMBDA q, y : finder_scan(q, y, dark), Scan(w, h, dark), [y \in 1..h |-> y - 1])
=============================================================================
