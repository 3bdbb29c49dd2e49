--------------------------------- MODULE Ring ---------------------------------
(***************************************************************************)
(* The fixed-capacity rings of the device: the approval queue of           *)
(* approval.h, which refuses when full, and the alert log of alert.h,      *)
(* which evicts its oldest entry.  Both count cells from 0 and find the    *)
(* i-th entry from a head, modulo the capacity.  And the microphone's      *)
(* sample ring, whose reader follows a hardware position (mic.h, mic.c).   *)
(***************************************************************************)
EXTENDS Naturals, Sequences

(* ab_approvalq_init, ab_alertlog_init *)
EmptyRing(cap, filler) ==
  [head |-> 0, count |-> 0, cells |-> [i \in 0..(cap - 1) |-> filler]]

(* The entry i places behind the oldest one. *)
EntryAt(ring, cap, i) == ring.cells[(ring.head + i) % cap]

(* The entries, oldest first. *)
Entries(ring, cap) == [i \in 1..ring.count |-> EntryAt(ring, cap, i - 1)]

(* A tail that forgets the head has moved. *)
PushAtCount(ring, cap, x) ==
  IF ring.count = cap THEN ring
  ELSE [ring EXCEPT !.cells[ring.count] = x, !.count = @ + 1]

(* ab_approvalq_push: a full queue refuses. *)
Push(ring, cap, x) ==
  IF ring.count = cap THEN ring
  ELSE [ring EXCEPT !.cells[(ring.head + ring.count) % cap] = x, !.count = @ + 1]

(* ab_approvalq_pop *)
Pop(ring, cap) ==
  IF ring.count = 0 THEN ring
  ELSE [ring EXCEPT !.head = (@ + 1) % cap, !.count = @ - 1]

(* ab_alertlog_note: a full log overwrites its oldest entry. *)
PushEvicting(ring, cap, x) ==
  IF ring.count < cap THEN Push(ring, cap, x)
  ELSE [ring EXCEPT !.cells[ring.head] = x, !.head = (@ + 1) % cap]

(* ab_alertlog_get: entry i counted from the newest, which is 0. *)
Newest(ring, cap, i) == EntryAt(ring, cap, ring.count - 1 - i)

(* ab_alertlog_toggle_mute and ab_alertlog_is_muted: a bit per session id, *)
(* for the ids the mask is wide enough for.                                *)
ToggleMute(muted, width, id) ==
  IF id >= width THEN muted ELSE IF id \in muted THEN muted \ {id} ELSE muted \cup {id}
IsMuted(muted, width, id) == id < width /\ id \in muted

-----------------------------------------------------------------------------
(* ab_mic_ring_delta: the offsets between the last position read and the   *)
(* current one, as one span, or two when the ring has wrapped.             *)
Span(off, len) == [off |-> off, len |-> len]

RingDelta(last, cur, size) ==
  IF size = 0 \/ last >= size \/ cur >= size \/ cur = last THEN <<>>
  ELSE IF cur > last THEN <<Span(last, cur - last)>>
  ELSE IF cur = 0 THEN <<Span(last, size - last)>>
  ELSE <<Span(last, size - last), Span(0, cur)>>

SpanOffsets(span) == [i \in 1..span.len |-> span.off + i - 1]

(* ab_mic_read_fresh: at most cap bytes are copied out of the spans; a     *)
(* read that ran out of room resumes where it stopped, not at cur.         *)
ReadFresh(last, cur, size, cap) ==
  LET spans == RingDelta(last, cur, size)
      fresh == CASE Len(spans) = 0 -> <<>>
                 [] Len(spans) = 1 -> SpanOffsets(spans[1])
                 [] Len(spans) = 2 -> SpanOffsets(spans[1]) \o SpanOffsets(spans[2])
      taken == IF Len(fresh) < cap THEN fresh ELSE SubSeq(fresh, 1, cap)
  IN  [offsets |-> taken,
       last    |-> IF cap = 0 THEN last
                   ELSE IF Len(fresh) < cap THEN cur
                   ELSE (taken[cap] + 1) % size]
===============================================================================
