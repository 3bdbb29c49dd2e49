------------------------------- MODULE MCDevice -------------------------------
(* Model values and bounds for checking Device with TLC, and the checks of  *)
(* its pure parts: rings, microphone and touch geometry.                    *)
EXTENDS Device, TLC

CONSTANTS a, b, c, p, q    \* three sessions, two approvals

MCIds == {a, b, c}
MCApprovals == {p, q}
Sym == Permutations(MCIds) \cup Permutations(MCApprovals)
MCPresses == {{}, {"A"}, {"B"}, {"A", "B"}, {"X"}, {"Y"}, {"SELECT"}, {"UP"}, {"DOWN"}, {"ZL"}}

(* Fewer slots than sessions, so that the table is full.                    *)
ASSUME SlotsRunOut == Slots < Cardinality(Ids)

(* A log of capacity three shows the last entries noted, newest first.      *)
ASSUME AlertLogIsLatest ==
  \A n \in 0..8 :
    LET note(ring, i) == PushEvicting(ring, 3, i)
        ring == FoldLeft(note, EmptyRing(3, 0), [i \in 1..n |-> i])
    IN  /\ ring.count = IF n < 3 THEN n ELSE 3
        /\ \A i \in 0..(ring.count - 1) : Newest(ring, 3, i) = n - i

(* Tapping an alert row twice changes nothing; once, it flips its session   *)
(* alone, and never one whose id is beyond the mask.                        *)
ASSUME MutesAreOwn ==
  \A muted \in SUBSET (0..2), tapped, id \in 0..4 :
    LET once == ToggleMute(muted, 3, tapped)
    IN  /\ ToggleMute(once, 3, tapped) = muted
        /\ IsMuted(once, 3, id) # IsMuted(muted, 3, id) <=> id = tapped /\ id < 3

(* Successive reads of any capacity return every sample from the last       *)
(* position to the current one, once and in order, across the wrap.         *)
ASSUME MicReadsEverySample ==
  \A size \in 1..5, cap \in 1..4 : \A last, cur \in 0..(size - 1) :
    LET read(s, i) == LET r == ReadFresh(s.last, cur, size, cap)
                      IN  [last |-> r.last, offsets |-> s.offsets \o r.offsets]
        all == FoldLeft(read, [last |-> last, offsets |-> <<>>], [i \in 1..5 |-> i])
        fresh == (cur + size - last) % size
    IN  /\ all.offsets = [i \in 1..fresh |-> (last + i - 1) % size]
        /\ all.last = cur

(* At every pixel, in every state of the bottom screen, a touch hits the    *)
(* widget that is seen there.  Rectangles begin and end only at the edges   *)
(* below, so one pixel on each side of every edge stands for all.           *)
Edges(drawn, at(_), size(_)) ==
  {0} \cup UNION {{at(drawn[i]), at(drawn[i]) + size(drawn[i])} : i \in 1..Len(drawn)}
ASSUME TouchHitsWhatIsSeen ==
  \A usable \in BOOLEAN, scr \in {"board", "terminal"}, md \in {"terminal", "pad", "alerts"},
     n \in {0, 1, 7, 8} :
    LET drawn == Drawn(usable, scr, md, n, 2 * n)
        tested == Tested(usable, scr, md, n, 2 * n)
        xs == Edges(drawn, LAMBDA w : w.x, LAMBDA w : w.w)
        ys == Edges(drawn, LAMBDA w : w.y, LAMBDA w : w.h)
    IN  \A x \in xs \cup {e - 1 : e \in xs}, y \in ys \cup {e - 1 : e \in ys} :
          HitAt(tested, x, y) = SeenAt(drawn, x, y)

(* A key means the same bytes on the strip, the pad and the deck.           *)
ASSUME KeysAgree ==
  /\ \A i \in DOMAIN PadLabels :
       PadLabels[i] \in ToSet(StripKeys) => PadBytes[i] = ControlBytes(PadLabels[i])
  /\ \A i \in DOMAIN DeckLabels :
       DeckLabels[i] \in ToSet(StripKeys) => DeckBytes[i] = ControlBytes(DeckLabels[i])
  /\ \A i \in DOMAIN PadLabels, j \in DOMAIN DeckLabels :
       PadLabels[i] = DeckLabels[j] => PadBytes[i] = DeckBytes[j]
===============================================================================
