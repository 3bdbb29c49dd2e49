----------------------------- MODULE DeviceProofs ------------------------------
(***************************************************************************)
(* Proofs about Device, for any number of sessions, slots, board rows and  *)
(* approvals: the rings keep what was put in them, the overlay shows the   *)
(* oldest approval not answered, focus, grid and keys agree, the board     *)
(* keeps its own invariant inside the loop, and an answer does no more.    *)
(***************************************************************************)
EXTENDS Device, SequenceTheorems, WellFoundedInduction, TLAPS

(* The states of a ring of cap cells over S. *)
RingOf(cap, S) == [head : 0..(cap - 1), count : 0..cap, cells : [0..(cap - 1) -> S]]

-----------------------------------------------------------------------------
(* A position on a ring, without the modulus. *)
LEMMA Wraps ==
  ASSUME NEW cap \in Nat \ {0}, NEW h \in 0..(cap - 1), NEW i \in 0..cap
  PROVE  (h + i) % cap = IF h + i < cap THEN h + i ELSE h + i - cap
<1>1. CASE h + i < cap
  BY <1>1
<1>2. CASE h + i >= cap
  BY <1>2
<1> QED  BY <1>1, <1>2

LEMMA EndOnRing ==
  ASSUME NEW cap \in Nat \ {0}, NEW h \in 0..(cap - 1), NEW n \in 0..cap
  PROVE  (h + n) % cap \in 0..(cap - 1)
BY Wraps

LEMMA PlaceOnRing ==
  ASSUME NEW cap \in Nat \ {0}, NEW h \in 0..(cap - 1), NEW i \in 1..cap
  PROVE  (h + (i - 1)) % cap \in 0..(cap - 1)
<1>1. i - 1 \in 0..cap
  OBVIOUS
<1> QED  BY <1>1, EndOnRing

(* The place behind the last entry is none of theirs. *)
LEMMA PlacesDiffer ==
  ASSUME NEW cap \in Nat \ {0}, NEW h \in 0..(cap - 1),
         NEW n \in 0..(cap - 1), NEW i \in 1..n
  PROVE  (h + (i - 1)) % cap # (h + n) % cap
<1>1. i - 1 \in 0..cap /\ n \in 0..cap
  OBVIOUS
<1>2. (h + (i - 1)) % cap = IF h + (i - 1) < cap THEN h + (i - 1) ELSE h + (i - 1) - cap
  BY <1>1, Wraps
<1>3. (h + n) % cap = IF h + n < cap THEN h + n ELSE h + n - cap
  BY <1>1, Wraps
<1> QED  BY <1>2, <1>3

(* Behind a head moved by one, the places count from the second on. *)
LEMMA PlacesShift ==
  ASSUME NEW cap \in Nat \ {0}, NEW h \in 0..(cap - 1), NEW i \in 1..(cap - 1)
  PROVE  /\ (h + 1) % cap \in 0..(cap - 1)
         /\ (((h + 1) % cap) + (i - 1)) % cap = (h + i) % cap
<1>1. i - 1 \in 0..cap /\ i \in 0..cap /\ 1 \in 0..cap
  OBVIOUS
<1>2. (h + 1) % cap = IF h + 1 < cap THEN h + 1 ELSE h + 1 - cap
  BY <1>1, Wraps
<1>3. (h + i) % cap = IF h + i < cap THEN h + i ELSE h + i - cap
  BY <1>1, Wraps
<1> DEFINE g == (h + 1) % cap
<1>4. g \in 0..(cap - 1)
  BY <1>2
<1> HIDE DEF g
<1>5. (g + (i - 1)) % cap = IF g + (i - 1) < cap THEN g + (i - 1) ELSE g + (i - 1) - cap
  BY <1>1, <1>4, Wraps
<1>6. g = IF h + 1 < cap THEN h + 1 ELSE h + 1 - cap
  BY <1>2 DEF g
<1>7. (g + (i - 1)) % cap = (h + i) % cap
  BY <1>3, <1>5, <1>6
<1> QED  BY <1>4, <1>7 DEF g

(* The entries of a ring are a sequence, each at its place. *)
LEMMA EntriesAreSequence ==
  ASSUME NEW cap \in Nat \ {0}, NEW S, NEW ring \in RingOf(cap, S)
  PROVE  /\ Entries(ring, cap) \in Seq(S)
         /\ Len(Entries(ring, cap)) = ring.count
         /\ \A i \in 1..ring.count :
              Entries(ring, cap)[i] = ring.cells[(ring.head + (i - 1)) % cap]
<1>1. /\ ring.head \in 0..(cap - 1) /\ ring.count \in 0..cap
      /\ ring.cells \in [0..(cap - 1) -> S]
  BY DEF RingOf
<1>2. ASSUME NEW i \in 1..ring.count
      PROVE  ring.cells[(ring.head + (i - 1)) % cap] \in S
  <2>1. i \in 1..cap
    BY <1>1
  <2>2. (ring.head + (i - 1)) % cap \in 0..(cap - 1)
    BY <1>1, <2>1, PlaceOnRing
  <2> QED  BY <1>1, <2>2
<1>3. Entries(ring, cap) = [i \in 1..ring.count |-> ring.cells[(ring.head + (i - 1)) % cap]]
  BY <1>1 DEF Entries, EntryAt
<1>4. Entries(ring, cap) \in [1..ring.count -> S]
  BY <1>2, <1>3
<1>5. Entries(ring, cap) \in Seq(S)
  BY <1>1, <1>4, SeqDef
<1>6. Len(Entries(ring, cap)) = ring.count
  BY <1>1, <1>4, <1>5, LenProperties
<1> QED  BY <1>3, <1>5, <1>6

(* ab_approvalq_push on a queue with room appends. *)
LEMMA PushAppends ==
  ASSUME NEW cap \in Nat \ {0}, NEW S, NEW ring \in RingOf(cap, S), NEW x \in S,
         ring.count # cap
  PROVE  /\ Push(ring, cap, x) \in RingOf(cap, S)
         /\ Entries(Push(ring, cap, x), cap) = Append(Entries(ring, cap), x)
<1> DEFINE new == Push(ring, cap, x)
           tail == (ring.head + ring.count) % cap
<1>1. /\ ring.head \in 0..(cap - 1) /\ ring.count \in 0..(cap - 1)
      /\ ring.cells \in [0..(cap - 1) -> S]
  BY DEF RingOf
<1>2. tail \in 0..(cap - 1)
  <2>1. ring.count \in 0..cap
    BY <1>1
  <2> QED  BY <1>1, <2>1, EndOnRing
<1>3. new = [head |-> ring.head, count |-> ring.count + 1,
             cells |-> [ring.cells EXCEPT ![tail] = x]]
  BY <1>1 DEF Push, RingOf
<1> HIDE DEF new
<1>4. new \in RingOf(cap, S)
  BY <1>1, <1>2, <1>3 DEF RingOf
<1>5. ASSUME NEW i \in 1..ring.count
      PROVE  new.cells[(new.head + (i - 1)) % cap] = ring.cells[(ring.head + (i - 1)) % cap]
  <2>1. (ring.head + (i - 1)) % cap # tail
    BY <1>1, PlacesDiffer
  <2> QED  BY <1>1, <1>2, <1>3, <2>1
<1>6. new.cells[(new.head + ring.count) % cap] = x
  BY <1>1, <1>2, <1>3
<1> DEFINE old == Entries(ring, cap)
<1>7. /\ old \in Seq(S) /\ Len(old) = ring.count
      /\ \A i \in 1..ring.count : old[i] = ring.cells[(ring.head + (i - 1)) % cap]
  BY EntriesAreSequence
<1>8. /\ Entries(new, cap) \in Seq(S) /\ Len(Entries(new, cap)) = ring.count + 1
      /\ \A i \in 1..(ring.count + 1) :
           Entries(new, cap)[i] = new.cells[(new.head + (i - 1)) % cap]
  <2>1. new.count = ring.count + 1
    BY <1>3
  <2>2. /\ Entries(new, cap) \in Seq(S) /\ Len(Entries(new, cap)) = new.count
        /\ \A i \in 1..new.count :
             Entries(new, cap)[i] = new.cells[(new.head + (i - 1)) % cap]
    BY <1>4, EntriesAreSequence
  <2> QED  BY <2>1, <2>2
<1> HIDE DEF old, tail
<1>9. /\ Append(old, x) \in Seq(S) /\ Len(Append(old, x)) = ring.count + 1
      /\ \A i \in 1..ring.count : Append(old, x)[i] = old[i]
      /\ Append(old, x)[ring.count + 1] = x
  <2>1. /\ Append(old, x) \in Seq(S) /\ Len(Append(old, x)) = Len(old) + 1
        /\ \A i \in 1..Len(old) : Append(old, x)[i] = old[i]
        /\ Append(old, x)[Len(old) + 1] = x
    BY <1>7, AppendProperties
  <2> QED  BY <1>7, <2>1
<1>10. ASSUME NEW i \in 1..(ring.count + 1)
       PROVE  Entries(new, cap)[i] = Append(old, x)[i]
  <2>1. CASE i = ring.count + 1
    BY <1>1, <1>6, <1>8, <1>9, <2>1
  <2>2. CASE i \in 1..ring.count
    BY <1>5, <1>7, <1>8, <1>9, <2>2
  <2>3. i = ring.count + 1 \/ i \in 1..ring.count
    BY <1>1
  <2> QED  BY <2>1, <2>2, <2>3
<1>11. Entries(new, cap) = Append(old, x)
  BY <1>8, <1>9, <1>10, SeqEqual
<1> QED  BY <1>4, <1>11 DEF new, old

(* ab_approvalq_pop drops the oldest entry. *)
LEMMA PopTails ==
  ASSUME NEW cap \in Nat \ {0}, NEW S, NEW ring \in RingOf(cap, S), ring.count # 0
  PROVE  /\ Pop(ring, cap) \in RingOf(cap, S)
         /\ Entries(ring, cap) # <<>>
         /\ Entries(Pop(ring, cap), cap) = Tail(Entries(ring, cap))
<1> DEFINE new == Pop(ring, cap)
           old == Entries(ring, cap)
<1>1. /\ ring.head \in 0..(cap - 1) /\ ring.count \in 1..cap
      /\ ring.cells \in [0..(cap - 1) -> S]
  BY DEF RingOf
<1>2. new = [head |-> (ring.head + 1) % cap, count |-> ring.count - 1, cells |-> ring.cells]
  BY <1>1 DEF Pop, RingOf
<1>3. (ring.head + 1) % cap \in 0..(cap - 1)
  <2>1. 1 \in 0..cap
    OBVIOUS
  <2> QED  BY <1>1, <2>1, EndOnRing
<1> HIDE DEF new
<1>4. new \in RingOf(cap, S)
  BY <1>1, <1>2, <1>3 DEF RingOf
<1>5. ASSUME NEW i \in 1..(ring.count - 1)
      PROVE  (new.head + (i - 1)) % cap = (ring.head + i) % cap
  <2>1. i \in 1..(cap - 1) /\ new.head = (ring.head + 1) % cap
    BY <1>1, <1>2
  <2>2. (((ring.head + 1) % cap) + (i - 1)) % cap = (ring.head + i) % cap
    BY <1>1, <2>1, PlacesShift
  <2> QED  BY <2>1, <2>2
<1>6. /\ old \in Seq(S) /\ Len(old) = ring.count
      /\ \A i \in 1..ring.count : old[i] = ring.cells[(ring.head + (i - 1)) % cap]
  BY EntriesAreSequence
<1>7. /\ Entries(new, cap) \in Seq(S) /\ Len(Entries(new, cap)) = ring.count - 1
      /\ \A i \in 1..(ring.count - 1) :
           Entries(new, cap)[i] = new.cells[(new.head + (i - 1)) % cap]
  BY <1>2, <1>4, EntriesAreSequence
<1> HIDE DEF old
<1>8. old # <<>>
  BY <1>1, <1>6
<1>9. /\ Tail(old) \in Seq(S) /\ Len(Tail(old)) = ring.count - 1
      /\ \A i \in 1..(ring.count - 1) : Tail(old)[i] = old[i + 1]
  BY <1>6, <1>8, HeadTailProperties
<1>10. ASSUME NEW i \in 1..(ring.count - 1)
       PROVE  Entries(new, cap)[i] = Tail(old)[i]
  <2>1. i + 1 \in 1..ring.count /\ (i + 1) - 1 = i
    BY <1>1
  <2>2. old[i + 1] = ring.cells[(ring.head + i) % cap]
    BY <1>6, <2>1
  <2> QED  BY <1>2, <1>5, <1>7, <1>9, <2>2
<1>11. Entries(new, cap) = Tail(old)
  BY <1>7, <1>9, <1>10, SeqEqual
<1> QED  BY <1>4, <1>8, <1>11 DEF new, old

-----------------------------------------------------------------------------
(* The overlay queue. *)
ApprovalIds == Approvals \cup {NoSession}

QueueInv ==
  /\ approvals \in RingOf(ApprovalCap, ApprovalIds)
  /\ asked \in Seq(Approvals)
  /\ OverlayIsOldest

LEMMA InitQueue == Init => QueueInv
<1> SUFFICES ASSUME Init PROVE QueueInv
  OBVIOUS
<1>1. ApprovalCap \in Nat \ {0}
  BY DeviceAssumption
<1>2. approvals = [head |-> 0, count |-> 0, cells |-> [i \in 0..(ApprovalCap - 1) |-> NoSession]]
  BY DEF Init, EmptyRing
<1>3. approvals \in RingOf(ApprovalCap, ApprovalIds)
  BY <1>1, <1>2 DEF RingOf, ApprovalIds
<1>4. asked = <<>> /\ asked \in Seq(Approvals)
  BY EmptySeq DEF Init
<1>5. /\ Entries(approvals, ApprovalCap) \in Seq(ApprovalIds)
      /\ Len(Entries(approvals, ApprovalCap)) = 0
  BY <1>1, <1>2, <1>3, EntriesAreSequence
<1>6. Entries(approvals, ApprovalCap) = <<>>
  BY <1>5, EmptySeq
<1> QED  BY <1>3, <1>4, <1>6 DEF QueueInv, OverlayIsOldest

(* A request joins both the ring and the list, or neither. *)
LEMMA RequestKeepsQueue ==
  ASSUME QueueInv, NEW a \in Approvals, OnApprovalRequest(a)
  PROVE  QueueInv'
<1>1. ApprovalCap \in Nat \ {0} /\ a \in ApprovalIds
  BY DeviceAssumption DEF ApprovalIds
<1>2. CASE approvals.count = ApprovalCap
  <2>1. approvals' = approvals /\ asked' = asked
    BY <1>2 DEF OnApprovalRequest, Push
  <2> QED  BY <2>1 DEF QueueInv, OverlayIsOldest
<1>3. CASE approvals.count # ApprovalCap
  <2>1. approvals' = Push(approvals, ApprovalCap, a) /\ asked' = Append(asked, a)
    BY <1>3 DEF OnApprovalRequest
  <2>2. /\ approvals' \in RingOf(ApprovalCap, ApprovalIds)
        /\ Entries(approvals', ApprovalCap) = Append(Entries(approvals, ApprovalCap), a)
    BY <1>1, <1>3, <2>1, PushAppends DEF QueueInv
  <2>3. asked' \in Seq(Approvals)
    BY <2>1, AppendProperties DEF QueueInv
  <2> QED  BY <2>1, <2>2, <2>3 DEF QueueInv, OverlayIsOldest
<1> QED  BY <1>2, <1>3

(* An answer takes the oldest off both. *)
LEMMA RespondKeepsQueue ==
  ASSUME QueueInv, NEW down, Respond(down)
  PROVE  QueueInv'
<1>1. ApprovalCap \in Nat \ {0}
  BY DeviceAssumption
<1>2. CASE Answers(down)
  <2>1. approvals' = Pop(approvals, ApprovalCap) /\ asked' = Tail(asked)
    BY <1>2 DEF Respond
  <2>2. approvals.count # 0
    BY <1>2 DEF Answers, QueueInv, RingOf
  <2>3. /\ approvals' \in RingOf(ApprovalCap, ApprovalIds)
        /\ Entries(approvals, ApprovalCap) # <<>>
        /\ Entries(approvals', ApprovalCap) = Tail(Entries(approvals, ApprovalCap))
    BY <1>1, <2>1, <2>2, PopTails DEF QueueInv
  <2>4. asked # <<>> /\ asked' \in Seq(Approvals)
    BY <2>1, <2>3, HeadTailProperties DEF QueueInv, OverlayIsOldest
  <2> QED  BY <2>1, <2>3, <2>4 DEF QueueInv, OverlayIsOldest
<1>3. CASE ~Answers(down)
  BY <1>3 DEF Respond, queue, QueueInv, OverlayIsOldest
<1> QED  BY <1>2, <1>3

(* Everything else leaves the queue alone, HELLO included. *)
LEMMA NextKeepsQueue == ASSUME QueueInv, [Next]_vars PROVE QueueInv'
<1>1. ASSUME UNCHANGED queue PROVE QueueInv'
  BY <1>1 DEF queue, QueueInv, OverlayIsOldest
<1>2. CASE FrameStart \/ Reconnect \/ PollFails \/ UNCHANGED vars
  BY <1>1, <1>2 DEF FrameStart, Reconnect, PollFails, vars
<1>3. CASE OnFrame
  <2>1. CASE OnHello
    BY <1>1, <2>1 DEF OnHello
  <2>2. ASSUME NEW row \in Board!Row, OnSessionState(row) PROVE QueueInv'
    BY <1>1, <2>2 DEF OnSessionState
  <2>3. ASSUME NEW id \in Ids, OnTerminalData(id) PROVE QueueInv'
    BY <1>1, <2>3 DEF OnTerminalData
  <2>4. ASSUME NEW id \in Ids, NEW ended \in BOOLEAN, OnAlert(id, ended) PROVE QueueInv'
    BY <1>1, <2>4 DEF OnAlert
  <2> QED  BY <1>3, <2>1, <2>2, <2>3, <2>4, RequestKeepsQueue DEF OnFrame
<1>4. ASSUME NEW down \in Presses, NEW zl \in BOOLEAN, NEW micOk \in BOOLEAN,
             HandleButtons(down, zl, micOk)
      PROVE  QueueInv'
  BY <1>4, RespondKeepsQueue DEF HandleButtons
<1>5. ASSUME NEW hit \in Touchable, HandleTouch(hit) PROVE QueueInv'
  BY <1>1, <1>5 DEF HandleTouch
<1> QED  BY <1>2, <1>3, <1>4, <1>5 DEF Next

(* The overlay shows the oldest approval not answered, for every capacity  *)
(* of the queue and however often the ring turns over.                     *)
THEOREM OverlayShowsOldest == Spec => []OverlayIsOldest
<1>1. QueueInv => OverlayIsOldest
  BY DEF QueueInv
<1> QED  BY InitQueue, NextKeepsQueue, <1>1, PTL DEF Spec

-----------------------------------------------------------------------------
(* What the focus needs to know of the board: its rows are rows, and no    *)
(* step brings in an id the frame did not name.                            *)
BoardIds == Board!RowIds(rows)

LEMMA RemovalKeepsIds ==
  ASSUME NEW S, NEW s \in Seq(S), NEW i \in 1..Len(s)
  PROVE  /\ RemoveAt(s, i) \in Seq(S)
         /\ \A k \in 1..Len(RemoveAt(s, i)) : \E j \in 1..Len(s) : RemoveAt(s, i)[k] = s[j]
<1> DEFINE front == SubSeq(s, 1, i - 1)
           back == SubSeq(s, i + 1, Len(s))
<1>1. Len(s) \in Nat
  BY LenProperties
<1>2. /\ front \in Seq(S) /\ Len(front) = i - 1
      /\ \A k \in 1..(i - 1) : front[k] = s[k]
  BY <1>1, SubSeqProperties
<1>3. /\ back \in Seq(S) /\ Len(back) = Len(s) - i
      /\ \A k \in 1..(Len(s) - i) : back[k] = s[i + k]
  <2>1. /\ back \in Seq(S)
        /\ Len(back) = IF i + 1 <= Len(s) THEN Len(s) - (i + 1) + 1 ELSE 0
        /\ \A k \in 1..(Len(s) - (i + 1) + 1) : back[k] = s[(i + 1) + k - 1]
    BY <1>1, SubSeqProperties
  <2> QED  BY <1>1, <2>1
<1>4. RemoveAt(s, i) = front \o back
  BY DEF RemoveAt
<1> HIDE DEF front, back
<1>5. /\ front \o back \in Seq(S)
      /\ Len(front \o back) = Len(front) + Len(back)
      /\ \A k \in 1..(Len(front) + Len(back)) :
           (front \o back)[k] = IF k <= Len(front) THEN front[k] ELSE back[k - Len(front)]
  BY <1>2, <1>3, ConcatProperties
<1>6. ASSUME NEW k \in 1..Len(front \o back)
      PROVE  \E j \in 1..Len(s) : (front \o back)[k] = s[j]
  <2>1. CASE k <= Len(front)
    BY <1>1, <1>2, <1>3, <1>5, <2>1
  <2>2. CASE ~(k <= Len(front))
    <3>1. k - Len(front) \in 1..(Len(s) - i) /\ i + (k - Len(front)) \in 1..Len(s)
      BY <1>1, <1>2, <1>3, <1>5, <2>2
    <3>2. (front \o back)[k] = back[k - Len(front)]
      BY <1>2, <1>3, <1>5, <2>2
    <3>3. back[k - Len(front)] = s[i + (k - Len(front))]
      BY <1>3, <3>1
    <3> QED  BY <3>1, <3>2, <3>3
  <2> QED  BY <2>1, <2>2
<1> QED  BY <1>4, <1>5, <1>6

LEMMA AppendBringsIds ==
  ASSUME NEW r \in Seq(Board!Row), NEW row \in Board!Row
  PROVE  /\ Append(r, row) \in Seq(Board!Row)
         /\ Board!RowIds(Append(r, row)) \subseteq Board!RowIds(r) \cup {row.id}
<1>1. /\ Append(r, row) \in Seq(Board!Row) /\ Len(Append(r, row)) = Len(r) + 1
      /\ \A i \in 1..Len(r) : Append(r, row)[i] = r[i]
      /\ Append(r, row)[Len(r) + 1] = row
  BY AppendProperties
<1>2. Len(r) \in Nat
  BY LenProperties
<1>3. ASSUME NEW i \in 1..Len(Append(r, row))
      PROVE  Append(r, row)[i].id \in Board!RowIds(r) \cup {row.id}
  <2>1. i \in 1..Len(r) \/ i = Len(r) + 1
    BY <1>1, <1>2
  <2> QED  BY <1>1, <2>1 DEF Board!RowIds
<1> QED  BY <1>1, <1>3 DEF Board!RowIds

LEMMA RemovalOfRow ==
  ASSUME NEW r \in Seq(Board!Row), NEW i \in 1..Len(r)
  PROVE  /\ RemoveAt(r, i) \in Seq(Board!Row)
         /\ Board!RowIds(RemoveAt(r, i)) \subseteq Board!RowIds(r)
BY RemovalKeepsIds DEF Board!RowIds

LEMMA UpdateOfRow ==
  ASSUME NEW r \in Seq(Board!Row), NEW i \in 1..Len(r), NEW row \in Board!Row
  PROVE  /\ [r EXCEPT ![i] = row] \in Seq(Board!Row)
         /\ Board!RowIds([r EXCEPT ![i] = row]) \subseteq Board!RowIds(r) \cup {row.id}
<1>1. /\ [r EXCEPT ![i] = row] \in Seq(Board!Row)
      /\ Len([r EXCEPT ![i] = row]) = Len(r)
      /\ \A j \in 1..Len(r) : [r EXCEPT ![i] = row][j] = IF j = i THEN row ELSE r[j]
  BY ExceptSeq
<1> QED  BY <1>1 DEF Board!RowIds

LEMMA UpsertBringsIds ==
  ASSUME rows \in Seq(Board!Row), NEW row \in Board!Row, BoardUpsert(row)
  PROVE  rows' \in Seq(Board!Row) /\ BoardIds' \subseteq BoardIds \cup {row.id}
<1>1. ASSUME NEW i \in 1..Board!Count, Board!UpdateRow(row, i)
      PROVE  rows' \in Seq(Board!Row) /\ BoardIds' \subseteq BoardIds \cup {row.id}
  <2>1. rows' = [rows EXCEPT ![i] = row] /\ i \in 1..Len(rows)
    BY <1>1 DEF Board!UpdateRow, Board!Count
  <2> QED  BY <2>1, UpdateOfRow DEF BoardIds
<1>2. CASE Board!InsertRow(row)
  <2>1. rows' = Append(rows, row)
    BY <1>2 DEF Board!InsertRow, Board!InsertInto
  <2> QED  BY <2>1, AppendBringsIds DEF BoardIds
<1>3. ASSUME NEW i \in 1..Board!Count, Board!EvictAndInsert(row, i)
      PROVE  rows' \in Seq(Board!Row) /\ BoardIds' \subseteq BoardIds \cup {row.id}
  <2>1. rows' = Append(RemoveAt(rows, i), row) /\ i \in 1..Len(rows)
    BY <1>3 DEF Board!EvictAndInsert, Board!InsertInto, Board!Count, Board!RemoveAt, RemoveAt
  <2>2. /\ RemoveAt(rows, i) \in Seq(Board!Row)
        /\ Board!RowIds(RemoveAt(rows, i)) \subseteq BoardIds
    BY <2>1, RemovalOfRow DEF BoardIds
  <2>3. /\ Append(RemoveAt(rows, i), row) \in Seq(Board!Row)
        /\ Board!RowIds(Append(RemoveAt(rows, i), row))
             \subseteq Board!RowIds(RemoveAt(rows, i)) \cup {row.id}
    BY <2>2, AppendBringsIds
  <2> QED  BY <2>1, <2>2, <2>3 DEF BoardIds
<1>4. CASE UNCHANGED board
  BY <1>4 DEF board, BoardIds
<1> QED  BY <1>1, <1>2, <1>3, <1>4 DEF BoardUpsert, Board!Upsert

LEMMA RemoveBringsNone ==
  ASSUME rows \in Seq(Board!Row), NEW id, BoardRemove(id)
  PROVE  rows' \in Seq(Board!Row) /\ BoardIds' \subseteq BoardIds
<1>1. CASE Board!RemoveRow(id)
  <2>1. PICK i \in 1..Len(rows) : rows' = RemoveAt(rows, i)
    BY <1>1 DEF Board!RemoveRow, Board!Count, Board!RemoveAt, RemoveAt
  <2> QED  BY <2>1, RemovalOfRow DEF BoardIds
<1>2. CASE UNCHANGED board
  BY <1>2 DEF board, BoardIds
<1> QED  BY <1>1, <1>2 DEF BoardRemove

-----------------------------------------------------------------------------
(* What a touch hits: the row of a session is one the picker has. *)
LEMMA HitsOfBoth ==
  ASSUME NEW A, NEW B, NEW s \in Seq(A), NEW t \in Seq(B)
  PROVE  s \o t \in Seq(A \cup B) /\ HitsOf(s \o t) = HitsOf(s) \cup HitsOf(t)
<1>1. s \in Seq(A \cup B) /\ t \in Seq(A \cup B)
  BY SeqMonotonic
<1>2. /\ s \o t \in Seq(A \cup B)
      /\ Len(s \o t) = Len(s) + Len(t)
      /\ \A i \in 1..(Len(s) + Len(t)) :
           (s \o t)[i] = IF i <= Len(s) THEN s[i] ELSE t[i - Len(s)]
  BY <1>1, ConcatProperties
<1>3. Len(s) \in Nat /\ Len(t) \in Nat
  BY LenProperties
<1>4. ASSUME NEW i \in 1..Len(s \o t)
      PROVE  (s \o t)[i].hit \in HitsOf(s) \cup HitsOf(t)
  <2>1. CASE i <= Len(s)
    BY <1>2, <1>3, <2>1 DEF HitsOf
  <2>2. CASE ~(i <= Len(s))
    <3>1. i - Len(s) \in 1..Len(t) /\ (s \o t)[i] = t[i - Len(s)]
      BY <1>2, <1>3, <2>2
    <3> QED  BY <3>1 DEF HitsOf
  <2> QED  BY <2>1, <2>2
<1>5. ASSUME NEW i \in 1..Len(s)
      PROVE  s[i].hit \in HitsOf(s \o t)
  <2>1. i \in 1..Len(s \o t) /\ (s \o t)[i] = s[i]
    BY <1>2, <1>3
  <2> QED  BY <2>1 DEF HitsOf
<1>6. ASSUME NEW i \in 1..Len(t)
      PROVE  t[i].hit \in HitsOf(s \o t)
  <2>1. Len(s) + i \in 1..Len(s \o t) /\ (s \o t)[Len(s) + i] = t[i]
    BY <1>2, <1>3
  <2> QED  BY <2>1 DEF HitsOf
<1> QED  BY <1>2, <1>4, <1>5, <1>6 DEF HitsOf

(* A row of widgets, over whatever its widgets are. *)
IsRow(s) == s \in Seq(Range(s))

LEMMA RowsJoin ==
  ASSUME NEW s, NEW t, IsRow(s), IsRow(t)
  PROVE  IsRow(s \o t) /\ HitsOf(s \o t) = HitsOf(s) \cup HitsOf(t)
<1> DEFINE A == Range(s)
           B == Range(t)
<1>0. s \in Seq(A) /\ t \in Seq(B)
  BY DEF IsRow
<1> HIDE DEF A, B
<1>1. /\ s \o t \in Seq(A \cup B)
      /\ HitsOf(s \o t) = HitsOf(s) \cup HitsOf(t)
  BY <1>0, HitsOfBoth
<1>2. s \o t \in Seq(Range(s \o t))
  BY <1>1, SeqOfRange
<1> QED  BY <1>1, <1>2 DEF IsRow

(* A row of widgets, one per index. *)
LEMMA RowOfWidgets ==
  ASSUME NEW n \in Nat, NEW s, s \in [1..n -> Range(s)]
  PROVE  IsRow(s) /\ HitsOf(s) = {s[i].hit : i \in 1..n}
<1> DEFINE W == Range(s)
<1>0. s \in [1..n -> W]
  OBVIOUS
<1> HIDE DEF W
<1>1. s \in Seq(W)
  BY <1>0, SeqDef
<1>2. Len(s) = n
  BY <1>0, <1>1, LenProperties
<1> QED  BY <1>1, <1>2 DEF HitsOf, IsRow, W

LEMMA SessionHits ==
  ASSUME picker \in Seq(Ids), mode \in {"terminal", "pad", "alerts"},
         NEW hit \in Touchable, hit.kind = "session"
  PROVE  hit.n \in 1..Len(picker)
<1> DEFINE n == Len(picker)
           Plain(S) == \A h \in S : h.kind # "session"
           top == <<Toggle>>
           pair == <<Accept, Deny>>
<1>1. n \in Nat
  BY LenProperties
<1>2. hit \in HitsOf(Tested(connected, screen, mode, n, 0))
  BY DEF Touchable, KeyHit, Hit
<1>3. /\ IsRow(StripWidgets) /\ Plain(HitsOf(StripWidgets))
  <2>1. StripWidgets \in [1..9 -> Range(StripWidgets)]
    BY DEF StripWidgets, StripKeys, Range
  <2>2. \A i \in 1..9 : StripWidgets[i].hit.kind # "session"
    BY DEF StripWidgets, StripKeys, Widget, Hit
  <2>3. IsRow(StripWidgets) /\ HitsOf(StripWidgets) = {StripWidgets[i].hit : i \in 1..9}
    BY <2>1, RowOfWidgets
  <2> QED  BY <2>2, <2>3
<1>4. /\ IsRow(PadWidgets) /\ Plain(HitsOf(PadWidgets))
  <2>1. PadWidgets \in [1..8 -> Range(PadWidgets)]
    BY DEF PadWidgets, PadBytes, Range
  <2>2. \A i \in 1..8 : PadWidgets[i].hit.kind # "session"
    BY DEF PadWidgets, PadBytes, Widget, Hit
  <2>3. IsRow(PadWidgets) /\ HitsOf(PadWidgets) = {PadWidgets[i].hit : i \in 1..8}
    BY <2>1, RowOfWidgets
  <2> QED  BY <2>2, <2>3
<1>5. /\ IsRow(DeckWidgets) /\ Plain(HitsOf(DeckWidgets))
  <2>1. DeckWidgets \in [1..9 -> Range(DeckWidgets)]
    BY DEF DeckWidgets, DeckBytes, Range
  <2>2. \A i \in 1..9 : DeckWidgets[i].hit.kind # "session"
    BY DEF DeckWidgets, DeckBytes, Widget, Hit
  <2>3. IsRow(DeckWidgets) /\ HitsOf(DeckWidgets) = {DeckWidgets[i].hit : i \in 1..9}
    BY <2>1, RowOfWidgets
  <2> QED  BY <2>2, <2>3
<1>6. /\ IsRow(AlertWidgets(0)) /\ Plain(HitsOf(AlertWidgets(0)))
  <2>1. AlertWidgets(0) \in [1..0 -> Range(AlertWidgets(0))]
    BY DEF AlertWidgets, VisibleAlerts, Range
  <2>3. IsRow(AlertWidgets(0)) /\ HitsOf(AlertWidgets(0)) = {AlertWidgets(0)[i].hit : i \in 1..0}
    BY <2>1, RowOfWidgets
  <2> QED  BY <2>3
<1>7. /\ IsRow(PickerWidgets(n))
      /\ \A h \in HitsOf(PickerWidgets(n)) : h.n \in 1..n
  <2>1. PickerWidgets(n) \in [1..n -> Range(PickerWidgets(n))]
    BY DEF PickerWidgets, Range
  <2>2. \A i \in 1..n : PickerWidgets(n)[i].hit.n = i
    BY DEF PickerWidgets, RowWidget, Widget, Hit
  <2>3. IsRow(PickerWidgets(n)) /\ HitsOf(PickerWidgets(n)) = {PickerWidgets(n)[i].hit : i \in 1..n}
    BY <1>1, <2>1, RowOfWidgets
  <2> QED  BY <2>2, <2>3
<1>8. IsRow(top) /\ Plain(HitsOf(top)) /\ IsRow(pair) /\ Plain(HitsOf(pair))
  BY DEF HitsOf, Toggle, Accept, Deny, Widget, Hit, IsRow, Range
<1>9. CASE ~connected
  <2>1. Tested(connected, screen, mode, n, 0) = <<>> /\ Len(<<>>) = 0
    BY <1>9 DEF Tested
  <2>2. HitsOf(<<>>) = {}
    BY <2>1 DEF HitsOf
  <2> QED  BY <1>2, <2>1, <2>2
<1>10. CASE connected /\ screen = "board"
  <2>1. Tested(connected, screen, mode, n, 0) = pair \o DeckWidgets
    BY <1>10 DEF Tested
  <2> HIDE DEF pair
  <2>2. HitsOf(pair \o DeckWidgets) = HitsOf(pair) \cup HitsOf(DeckWidgets)
    BY <1>5, <1>8, RowsJoin
  <2> QED  BY <1>2, <1>5, <1>8, <2>1, <2>2
<1>11. CASE connected /\ screen # "board"
  <2> DEFINE below == CASE mode = "terminal" -> StripWidgets \o PickerWidgets(n)
                        [] mode = "pad"      -> PadWidgets
                        [] mode = "alerts"   -> AlertWidgets(0)
  <2>1. Tested(connected, screen, mode, n, 0) = top \o below
    BY <1>11 DEF Tested
  <2>2. /\ IsRow(below)
        /\ \A h \in HitsOf(below) : h.kind = "session" => h.n \in 1..n
    <3>1. CASE mode = "terminal"
      <4>1. below = StripWidgets \o PickerWidgets(n)
        BY <3>1
      <4> HIDE DEF below
      <4>2. /\ IsRow(below)
            /\ HitsOf(below) = HitsOf(StripWidgets) \cup HitsOf(PickerWidgets(n))
        BY <1>3, <1>7, <4>1, RowsJoin
      <4> QED  BY <1>3, <1>7, <4>2
    <3>2. CASE mode = "pad"
      BY <1>4, <3>2
    <3>3. CASE mode = "alerts"
      BY <1>6, <3>3
    <3> QED  BY <3>1, <3>2, <3>3
  <2> HIDE DEF top, below
  <2>3. HitsOf(top \o below) = HitsOf(top) \cup HitsOf(below)
    BY <1>8, <2>2, RowsJoin
  <2> QED  BY <1>2, <1>8, <2>1, <2>2, <2>3
<1> QED  BY <1>9, <1>10, <1>11

-----------------------------------------------------------------------------
(* The slots and the focus. *)
Seats == [1..Slots -> Ids \cup {NoSession}]
OneSlotEach(seats) ==
  \A i, j \in 1..Slots : seats[i] = seats[j] /\ seats[i] # NoSession => i = j

(* Focus, grid and header, given the slots. *)
FocusOn(seats) ==
  /\ focused \in 0..Slots /\ grid = focused
  /\ focused = 0 <=> shown = NoSession
  /\ focused # 0 => seats[focused] = shown

(* Every id the device keeps is one the host named on this connection. *)
Heard ==
  /\ \A i \in 1..Slots : slots[i] \in heard \cup {NoSession}
  /\ \A i \in 1..Len(picker) : picker[i] \in heard
  /\ BoardIds \subseteq heard

FocusInv ==
  /\ slots \in Seats /\ OneSlotEach(slots) /\ FocusOn(slots)
  /\ mode \in {"terminal", "pad", "alerts"}
  /\ rows \in Seq(Board!Row) /\ picker \in Seq(Ids)
  /\ net = "greeted" => Heard

LEMMA LeastOf ==
  ASSUME NEW T, T \subseteq Nat, T # {}
  PROVE  \E x \in T : \A y \in T : x <= y
<1>1. PICK x \in T : \A y \in T : ~ (<<y, x>> \in OpToRel(<, Nat))
  BY NatLessThanWellFounded, WFMin
<1>2. \A y \in T : ~(y < x)
  BY <1>1 DEF OpToRel
<1>3. \A y \in T : x \in Nat /\ y \in Nat
  OBVIOUS
<1> QED  BY <1>2, <1>3

(* session_for: the id's own slot, else the first that is free. *)
LEMMA SlotFound ==
  ASSUME slots \in Seats, NEW id \in Ids, SlotOf(id) # 0
  PROVE  SlotOf(id) \in 1..Slots /\ slots[SlotOf(id)] \in {id, NoSession}
<1>1. Range(slots) = {slots[i] : i \in 1..Slots}
  BY DEF Seats, Range
<1>2. CASE id \in Range(slots)
  <2>1. \E i \in 1..Slots : slots[i] = id
    BY <1>1, <1>2
  <2>2. SlotOf(id) = CHOOSE i \in 1..Slots : slots[i] = id
    BY <1>2 DEF SlotOf
  <2> QED  BY <2>1, <2>2
<1>3. CASE id \notin Range(slots) /\ NoSession \in Range(slots)
  <2> DEFINE Free == {i \in 1..Slots : slots[i] = NoSession}
  <2>1. Free # {} /\ Free \subseteq Nat
    BY <1>1, <1>3
  <2>2. PICK i \in Free : \A j \in Free : i <= j
    BY <2>1, LeastOf
  <2>3. i \in 1..Slots /\ slots[i] = NoSession /\ \A j \in 1..(i - 1) : slots[j] # NoSession
    BY <2>2, DeviceAssumption
  <2>4. SlotOf(id) = CHOOSE k \in 1..Slots : /\ slots[k] = NoSession
                                             /\ \A j \in 1..(k - 1) : slots[j] # NoSession
    BY <1>3 DEF SlotOf
  <2> QED  BY <2>3, <2>4
<1> QED  BY <1>2, <1>3 DEF SlotOf

(* An allocated slot is the id's alone, and nobody else's slot moves. *)
LEMMA SlotAllocated ==
  ASSUME slots \in Seats, OneSlotEach(slots), NEW id \in Ids
  PROVE  /\ Allocated(id) \in Seats
         /\ OneSlotEach(Allocated(id))
         /\ \A i \in 1..Slots : Allocated(id)[i] \in {slots[i], id}
         /\ \A i \in 1..Slots : slots[i] # NoSession => Allocated(id)[i] = slots[i]
         /\ SlotOf(id) # 0 => SlotOf(id) \in 1..Slots /\ Allocated(id)[SlotOf(id)] = id
<1>1. id # NoSession
  BY DeviceAssumption
<1>2. CASE SlotOf(id) = 0
  BY <1>2 DEF Allocated
<1>3. CASE SlotOf(id) # 0
  <2> DEFINE s == SlotOf(id)
  <2>1. s \in 1..Slots /\ slots[s] \in {id, NoSession}
    BY <1>3, SlotFound
  <2>2. Allocated(id) = [slots EXCEPT ![s] = id]
    BY <1>3 DEF Allocated
  <2>3. slots[s] = id \/ \A i \in 1..Slots : slots[i] # id
    <3>1. CASE id \in Range(slots)
      <4>1. \E i \in 1..Slots : slots[i] = id
        BY <3>1 DEF Range, Seats
      <4>2. s = CHOOSE i \in 1..Slots : slots[i] = id
        BY <3>1 DEF SlotOf
      <4> QED  BY <4>1, <4>2
    <3>2. CASE id \notin Range(slots)
      BY <3>2 DEF Range, Seats
    <3> QED  BY <3>1, <3>2
  <2> HIDE DEF s
  <2>4. /\ [slots EXCEPT ![s] = id] \in Seats
        /\ \A i \in 1..Slots : [slots EXCEPT ![s] = id][i] = IF i = s THEN id ELSE slots[i]
    BY <2>1 DEF Seats
  <2>5. OneSlotEach([slots EXCEPT ![s] = id])
    BY <1>1, <2>1, <2>3, <2>4 DEF OneSlotEach
  <2> QED  BY <1>1, <2>1, <2>2, <2>4, <2>5 DEF s
<1> QED  BY <1>2, <1>3

(* session_for and focus_index: the focus lands on the id, or stays. *)
LEMMA FocusLands ==
  ASSUME slots \in Seats, OneSlotEach(slots), FocusOn(slots), NEW id \in Ids,
         slots' = Allocated(id),
         \/ SlotOf(id) # 0 /\ FocusIndex(SlotOf(id), Allocated(id))
         \/ UNCHANGED <<focused, grid, shown>>
  PROVE  /\ slots' \in Seats /\ OneSlotEach(slots') /\ FocusOn(slots)'
         /\ \A i \in 1..Slots : slots'[i] \in {slots[i], id}
<1>1. /\ slots' \in Seats /\ OneSlotEach(slots')
      /\ \A i \in 1..Slots : slots'[i] \in {slots[i], id}
      /\ \A i \in 1..Slots : slots[i] # NoSession => slots'[i] = slots[i]
  BY SlotAllocated
<1>2. id # NoSession /\ Slots \in Nat
  BY DeviceAssumption
<1>3. CASE SlotOf(id) # 0 /\ FocusIndex(SlotOf(id), Allocated(id))
  <2>1. SlotOf(id) \in 1..Slots /\ slots'[SlotOf(id)] = id
    BY <1>3, SlotAllocated
  <2>2. focused' = SlotOf(id) /\ grid' = SlotOf(id) /\ shown' = id
    BY <1>3, <2>1 DEF FocusIndex
  <2> QED  BY <1>1, <1>2, <2>1, <2>2 DEF FocusOn
<1>4. CASE UNCHANGED <<focused, grid, shown>>
  <2>1. focused # 0 => focused \in 1..Slots /\ slots[focused] # NoSession
    BY <1>2 DEF FocusOn
  <2> QED  BY <1>1, <1>4, <2>1 DEF FocusOn
<1> QED  BY <1>3, <1>4

LEMMA FocusSlotLands ==
  ASSUME slots \in Seats, OneSlotEach(slots), FocusOn(slots), NEW id \in Ids, FocusSlotOf(id)
  PROVE  /\ slots' \in Seats /\ OneSlotEach(slots') /\ FocusOn(slots)'
         /\ \A i \in 1..Slots : slots'[i] \in {slots[i], id}
BY FocusLands DEF FocusSlotOf

(* release_session_slot *)
LEMMA FocusReleased ==
  ASSUME slots \in Seats, OneSlotEach(slots), FocusOn(slots), NEW id \in Ids, ReleaseSlot(id)
  PROVE  /\ slots' \in Seats /\ OneSlotEach(slots') /\ FocusOn(slots)'
         /\ \A i \in 1..Slots : slots'[i] \in {slots[i], NoSession}
<1>1. /\ slots' \in Seats
      /\ \A i \in 1..Slots : slots'[i] = IF slots[i] = id THEN NoSession ELSE slots[i]
  BY DEF ReleaseSlot, Seats
<1>2. OneSlotEach(slots') /\ \A i \in 1..Slots : slots'[i] \in {slots[i], NoSession}
  BY <1>1 DEF OneSlotEach
<1>3. Slots \in Nat
  BY DeviceAssumption
<1>4. FocusOn(slots)'
  <2>1. CASE focused # 0 /\ slots[focused] = id
    BY <1>3, <2>1 DEF ReleaseSlot, LandOnBoard, FocusIndex, FocusOn
  <2>2. CASE ~(focused # 0 /\ slots[focused] = id)
    <3>1. UNCHANGED <<focused, grid, shown>>
      BY <2>2 DEF ReleaseSlot
    <3>2. focused # 0 => focused \in 1..Slots /\ slots'[focused] = slots[focused]
      BY <1>1, <1>3, <2>2 DEF FocusOn
    <3> QED  BY <3>1, <3>2 DEF FocusOn
  <2> QED  BY <2>1, <2>2
<1> QED  BY <1>1, <1>2, <1>4

-----------------------------------------------------------------------------
(* What a step may do to the ids the device keeps: they stay, go, or are   *)
(* the one id that was heard or was kept before.                           *)
LEMMA HeardKept ==
  ASSUME FocusInv, slots' \in Seats, OneSlotEach(slots'), FocusOn(slots)', mode' \in {"terminal", "pad", "alerts"},
         rows' \in Seq(Board!Row), picker' \in Seq(Ids),
         net' = "greeted" => net = "greeted", heard \subseteq heard',
         net = "greeted" => \A i \in 1..Slots : slots'[i] \in {slots[i], NoSession} \cup heard',
         \A i \in 1..Len(picker') : picker'[i] \in heard' \/ \E j \in 1..Len(picker) : picker'[i] = picker[j],
         BoardIds' \subseteq BoardIds \cup heard'
  PROVE  FocusInv'
<1>1. ASSUME net' = "greeted" PROVE Heard'
  <2>1. Heard
    BY <1>1 DEF FocusInv
  <2>2. \A i \in 1..Slots : slots'[i] \in heard' \cup {NoSession}
    BY <1>1, <2>1 DEF Heard
  <2>3. \A i \in 1..Len(picker') : picker'[i] \in heard'
    BY <2>1 DEF Heard
  <2>4. BoardIds' \subseteq heard'
    BY <2>1 DEF Heard
  <2> QED  BY <2>2, <2>3, <2>4 DEF Heard
<1> QED  BY <1>1 DEF FocusInv

LEMMA InitFocus == Init => FocusInv
<1> SUFFICES ASSUME Init PROVE FocusInv
  OBVIOUS
<1>1. Slots \in Nat \ {0}
  BY DeviceAssumption
<1>2. slots \in Seats /\ OneSlotEach(slots) /\ FocusOn(slots)
  BY <1>1 DEF Init, Seats, OneSlotEach, FocusOn
<1>3. rows \in Seq(Board!Row) /\ picker \in Seq(Ids)
  BY EmptySeq DEF Init, Board!Init
<1> QED  BY <1>2, <1>3 DEF FocusInv, Init

(* HELLO forgets every id there was. *)
LEMMA HelloFocus == ASSUME FocusInv, OnHello PROVE FocusInv'
<1>1. Slots \in Nat \ {0}
  BY DeviceAssumption
<1>2. slots' \in Seats /\ OneSlotEach(slots') /\ FocusOn(slots)'
  BY <1>1 DEF OnHello, Seats, OneSlotEach, FocusOn, LandOnBoard, FocusIndex
<1>3. rows' = <<>> /\ picker' = <<>> /\ Len(<<>>) = 0
  BY DEF OnHello, Board!Hello
<1>4. rows' \in Seq(Board!Row) /\ picker' \in Seq(Ids)
  BY <1>3, EmptySeq
<1>5. BoardIds' = {}
  BY <1>3 DEF BoardIds, Board!RowIds
<1>6. Heard'
  BY <1>3, <1>5 DEF Heard, OnHello
<1> QED  BY <1>2, <1>4, <1>6 DEF FocusInv, OnHello

LEMMA StateFocus ==
  ASSUME FocusInv, NEW row \in Board!Row, OnSessionState(row)
  PROVE  FocusInv'
<1>1. row.id \in Ids
  BY DEF Board!Row
<1>2. rows' \in Seq(Board!Row) /\ BoardIds' \subseteq BoardIds \cup {row.id}
  BY UpsertBringsIds DEF OnSessionState, FocusInv
<1>3. /\ picker' \in Seq(Ids)
      /\ \A i \in 1..Len(picker') : picker'[i] = row.id \/ \E j \in 1..Len(picker) : picker'[i] = picker[j]
  <2>1. CASE picker' = picker
    BY <2>1 DEF FocusInv
  <2>2. CASE picker' = Append(picker, row.id)
    <3>1. /\ picker' \in Seq(Ids) /\ Len(picker') = Len(picker) + 1
          /\ \A i \in 1..Len(picker) : picker'[i] = picker[i]
          /\ picker'[Len(picker) + 1] = row.id
      BY <1>1, <2>2, AppendProperties DEF FocusInv
    <3>2. Len(picker) \in Nat
      BY LenProperties DEF FocusInv
    <3>3. \A i \in 1..Len(picker') : i \in 1..Len(picker) \/ i = Len(picker) + 1
      BY <3>1, <3>2
    <3> QED  BY <3>1, <3>3
  <2> QED  BY <2>1, <2>2 DEF OnSessionState, UpsertPicker
<1>4. /\ slots' \in Seats /\ OneSlotEach(slots') /\ FocusOn(slots)'
      /\ \A i \in 1..Slots : slots'[i] \in {slots[i], row.id}
  <2>1. CASE focused # 0
    BY <2>1 DEF OnSessionState, FocusIndex, FocusInv, FocusOn
  <2>2. CASE focused = 0 /\ screen = "terminal"
    BY <1>1, <2>2, FocusSlotLands DEF OnSessionState, FocusInv
  <2>3. CASE focused = 0 /\ screen # "terminal"
    BY <2>3 DEF OnSessionState, FocusInv, FocusOn, focus
  <2> QED  BY <2>1, <2>2, <2>3
<1>5. heard' = heard \cup {row.id} /\ UNCHANGED <<mode, net>>
  BY DEF OnSessionState, link
<1> QED  BY <1>2, <1>3, <1>4, <1>5, HeardKept DEF FocusInv

LEMMA DataFocus ==
  ASSUME FocusInv, NEW id \in Ids, OnTerminalData(id)
  PROVE  FocusInv'
<1>1. /\ slots' \in Seats /\ OneSlotEach(slots') /\ FocusOn(slots)'
      /\ \A i \in 1..Slots : slots'[i] \in {slots[i], id}
  BY FocusLands DEF OnTerminalData, FocusInv
<1>2. heard' = heard \cup {id} /\ UNCHANGED <<mode, net, picker, rows>>
  BY DEF OnTerminalData, link, ui, board
<1>3. BoardIds' = BoardIds
  BY <1>2 DEF BoardIds
<1> QED  BY <1>1, <1>2, <1>3, HeardKept DEF FocusInv

LEMMA AlertFocus ==
  ASSUME FocusInv, NEW id \in Ids, NEW ended \in BOOLEAN, OnAlert(id, ended)
  PROVE  FocusInv'
<1>1. heard' = heard \cup {id} /\ UNCHANGED <<mode, net, picker>>
  BY DEF OnAlert, link
<1>2. CASE ended
  <2>1. rows' \in Seq(Board!Row) /\ BoardIds' \subseteq BoardIds
    BY <1>2, RemoveBringsNone DEF OnAlert, FocusInv
  <2>2. /\ slots' \in Seats /\ OneSlotEach(slots') /\ FocusOn(slots)'
        /\ \A i \in 1..Slots : slots'[i] \in {slots[i], NoSession}
    BY <1>2, FocusReleased DEF OnAlert, FocusInv
  <2> QED  BY <1>1, <2>1, <2>2, HeardKept DEF FocusInv
<1>3. CASE ~ended
  <2>1. UNCHANGED <<rows, slots, focused, grid, shown>>
    BY <1>3 DEF OnAlert, board, focus
  <2>2. BoardIds' = BoardIds
    BY <2>1 DEF BoardIds
  <2> QED  BY <1>1, <2>1, <2>2, HeardKept DEF FocusInv, FocusOn
<1> QED  BY <1>2, <1>3

(* A key or a touch focuses a session of the picker or of the board. *)
LEMMA KeptIdFocus ==
  ASSUME FocusInv, NEW id, FocusSession(id),
         (\E i \in 1..Len(picker) : id = picker[i]) \/ id \in BoardIds,
         UNCHANGED <<rows, picker, heard>>, mode' \in {"terminal", "pad", "alerts"},
         net' = "greeted" => net = "greeted"
  PROVE  FocusInv'
<1>1. id \in Ids
  <2>1. \A i \in 1..Len(picker) : picker[i] \in Ids
    BY ElementOfSeq DEF FocusInv
  <2>2. \A i \in 1..Len(rows) : rows[i].id \in Ids
    <3>1. \A i \in 1..Len(rows) : rows[i] \in Board!Row
      BY ElementOfSeq DEF FocusInv
    <3> QED  BY <3>1 DEF Board!Row
  <2> QED  BY <2>1, <2>2 DEF BoardIds, Board!RowIds
<1>2. /\ slots' \in Seats /\ OneSlotEach(slots') /\ FocusOn(slots)'
      /\ \A i \in 1..Slots : slots'[i] \in {slots[i], id}
  BY <1>1, FocusSlotLands DEF FocusSession, FocusInv
<1>3. net = "greeted" => id \in heard'
  BY DEF FocusInv, Heard
<1>4. BoardIds' = BoardIds
  BY DEF BoardIds
<1> QED  BY <1>2, <1>3, <1>4, HeardKept DEF FocusInv

(* Nothing the focus depends on moves. *)
LEMMA SameFocus ==
  ASSUME FocusInv, UNCHANGED <<slots, focused, grid, shown, rows, picker, heard>>,
         mode' \in {"terminal", "pad", "alerts"}, net' = "greeted" => net = "greeted"
  PROVE  FocusInv'
<1>1. BoardIds' = BoardIds
  BY DEF BoardIds
<1> QED  BY <1>1, HeardKept DEF FocusInv, FocusOn

(* SELECT's next row is a row of the picker. *)
LEMMA NextRowIsRow ==
  ASSUME picker \in Seq(Ids), Len(picker) >= 2
  PROVE  \E i \in 1..Len(picker) : NextRow = picker[i]
<1> DEFINE n == Len(picker)
           Found == {i \in 1..n : picker[i] = shown}
           at == SelectInSeq(picker, LAMBDA id : id = shown)
<1>1. n \in Nat /\ n >= 2
  BY LenProperties
<1>2. at \in Nat
  <2>1. at = IF Found # {} THEN Min(Found) ELSE 0
    BY DEF SelectInSeq
  <2> HIDE DEF at
  <2>2. Found \subseteq Nat
    BY <1>1
  <2> HIDE DEF Found
  <2>3. CASE Found # {}
    <3>1. \E x \in Found : \A y \in Found : x <= y
      BY <2>2, <2>3, LeastOf
    <3>2. Min(Found) \in Found
      BY <3>1 DEF Min
    <3> QED  BY <2>1, <2>2, <2>3, <3>2
  <2> QED  BY <2>1, <2>3
<1>3. NextRow = picker[(at % n) + 1]
  BY DEF NextRow
<1> HIDE DEF at, n
<1>4. at % n \in 0..(n - 1)
  BY <1>1, <1>2
<1>5. (at % n) + 1 \in 1..n
  BY <1>1, <1>4
<1> QED  BY <1>3, <1>5 DEF n

LEMMA ButtonsFocus ==
  ASSUME FocusInv, NEW down, NEW zl, NEW micOk, HandleButtons(down, zl, micOk)
  PROVE  FocusInv'
<1> DEFINE rest == Claimed(down)
<1>1. net' = "greeted" => net = "greeted"
  BY DEF HandleButtons, SendIf, MaySend, link
<1>2. heard' = heard
  BY DEF HandleButtons
<1>3. CASE screen = "board"
  <2>1. BoardButtons(rest)
    BY <1>3 DEF HandleButtons
  <2> HIDE DEF rest
  <2>2. rows' = rows /\ mode' = mode /\ picker' = picker
    BY <2>1 DEF BoardButtons, Board!CursorMove, board
  <2>3. CASE Opens(rest)
    <3>1. FocusSession(cursor') /\ cursor' \in BoardIds
      BY <2>1, <2>3 DEF BoardButtons, Opens, BoardIds
    <3> QED  BY <1>1, <1>2, <2>2, <3>1, KeptIdFocus DEF FocusInv
  <2>4. CASE ~Opens(rest)
    BY <1>1, <1>2, <2>1, <2>2, <2>4, SameFocus DEF BoardButtons, focus, FocusInv
  <2> QED  BY <2>3, <2>4
<1>4. CASE screen # "board"
  <2>1. TerminalButtons(rest)
    BY <1>4 DEF HandleButtons
  <2> HIDE DEF rest
  <2>2. rows' = rows /\ picker' = picker /\ mode' \in {"terminal", "pad", "alerts"}
    BY <2>1 DEF TerminalButtons, board, NextMode, FocusInv
  <2>3. CASE Cycles(rest)
    <3>1. FocusSession(NextRow) /\ Len(picker) >= 2
      BY <2>1, <2>3 DEF TerminalButtons, Cycles
    <3>2. \E i \in 1..Len(picker) : NextRow = picker[i]
      BY <3>1, NextRowIsRow DEF FocusInv
    <3> QED  BY <1>1, <1>2, <2>2, <3>1, <3>2, KeptIdFocus
  <2>4. CASE ~Cycles(rest)
    BY <1>1, <1>2, <2>1, <2>2, <2>4, SameFocus DEF TerminalButtons, focus
  <2> QED  BY <2>3, <2>4
<1> QED  BY <1>3, <1>4

LEMMA TouchFocus ==
  ASSUME FocusInv, NEW hit \in Touchable, HandleTouch(hit)
  PROVE  FocusInv'
<1>1. heard' = heard
  BY DEF HandleTouch
<1>2. CASE TouchSession(hit)
  <2>1. /\ hit.kind = "session" /\ FocusSession(picker[hit.n])
        /\ UNCHANGED <<rows, picker, mode>>
        /\ (net' = "greeted" => net = "greeted")
    BY <1>2 DEF TouchSession, MaySend, board, ui
  <2>2. hit.n \in 1..Len(picker)
    BY <2>1, SessionHits DEF FocusInv
  <2> QED  BY <1>1, <2>1, <2>2, KeptIdFocus DEF FocusInv
<1>3. CASE TouchApproval(hit)
  <2>1. rows' = rows
    BY <1>3 DEF TouchApproval, Board!ArmApproval, board
  <2> QED  BY <1>1, <1>3, <2>1, SameFocus
              DEF TouchApproval, SendIf, MaySend, link, focus, ui, FocusInv
<1>4. CASE TouchToggle(hit)
  BY <1>1, <1>4, SameFocus DEF TouchToggle, NextMode, link, focus, board, FocusInv
<1>5. CASE TouchKey(hit)
  BY <1>1, <1>5, SameFocus DEF TouchKey, SendIf, MaySend, link, focus, board, ui, FocusInv
<1> QED  BY <1>2, <1>3, <1>4, <1>5 DEF HandleTouch

LEMMA NextKeepsFocus == ASSUME FocusInv, [Next]_vars PROVE FocusInv'
<1>1. CASE FrameStart \/ Reconnect \/ PollFails \/ UNCHANGED vars
  BY <1>1, SameFocus
     DEF FrameStart, Reconnect, PollFails, vars, board, focus, ui, link, FocusInv
<1>2. ASSUME NEW a \in Approvals, OnApprovalRequest(a) PROVE FocusInv'
  BY <1>2, SameFocus DEF OnApprovalRequest, board, focus, ui, link, FocusInv
<1>3. CASE OnFrame
  BY <1>2, <1>3, HelloFocus, StateFocus, DataFocus, AlertFocus DEF OnFrame
<1> QED  BY <1>1, <1>3, ButtonsFocus, TouchFocus DEF Next

(* Header, grid and keys name one session, in its own slot, and once the   *)
(* host has greeted one it has named on this connection: for any number of *)
(* sessions and slots, however they fill up.                               *)
THEOREM FocusIsSound == Spec => []FocusSound
<1>1. FocusInv => FocusSound
  <2> SUFFICES ASSUME FocusInv PROVE FocusSound
    OBVIOUS
  <2>1. /\ grid = focused /\ (focused = 0 <=> shown = NoSession)
        /\ focused # 0 => slots[focused] = shown
    BY DEF FocusInv, FocusOn
  <2>2. \A i, j \in 1..Slots : slots[i] = slots[j] /\ slots[i] # NoSession => i = j
    BY DEF FocusInv, OneSlotEach
  <2>3. focused # 0 /\ net = "greeted" => shown \in heard
    <3> SUFFICES ASSUME focused # 0, net = "greeted" PROVE shown \in heard
      OBVIOUS
    <3>1. focused \in 1..Slots
      BY DeviceAssumption DEF FocusInv, FocusOn
    <3>2. slots[focused] \in heard \cup {NoSession}
      BY <3>1 DEF FocusInv, Heard
    <3> QED  BY <2>1, <3>2
  <2> QED  BY <2>1, <2>2, <2>3 DEF FocusSound
<1> QED  BY InitFocus, NextKeepsFocus, <1>1, PTL DEF Spec
-----------------------------------------------------------------------------
(* The board inside the loop.  Its own proofs are used as they stand, for  *)
(* the board of BoardCap rows that one window height is asked of.          *)
BP == INSTANCE AgentBoardProofs WITH Cap <- BoardCap, Visible <- {BoardVisible}

LEMMA BoardFits == BP!BoardAssumption
BY DeviceAssumption DEF BP!BoardAssumption

(* The two instances of the board are one board: their definitions agree. *)
LEMMA SameBoard ==
  /\ BP!Row = Board!Row
  /\ BP!TypeOK <=> Board!TypeOK
  /\ BP!DisplayOrder <=> Board!DisplayOrder
  /\ BP!InflightRowBlocked <=> Board!InflightRowBlocked
<1>1. BP!Row = Board!Row
  BY DEF BP!Row, Board!Row
<1>2. BP!TypeOK <=> Board!TypeOK
  BY <1>1 DEF BP!TypeOK, Board!TypeOK, BP!Count, Board!Count
<1>3. BP!DisplayOrder <=> Board!DisplayOrder
  BY DEF BP!DisplayOrder, Board!DisplayOrder, BP!BlockedFirst, Board!BlockedFirst,
         BP!ComesBefore, Board!ComesBefore, BP!IsBlocked, Board!IsBlocked,
         BP!Bijection, Board!Bijection, BP!Injection, Board!Injection,
         BP!Surjection, Board!Surjection, BP!IsInjective, Board!IsInjective
<1>4. BP!InflightRowBlocked <=> Board!InflightRowBlocked
  BY DEF BP!InflightRowBlocked, Board!InflightRowBlocked, BP!Count, Board!Count,
         BP!IsBlocked, Board!IsBlocked
<1> QED  BY <1>1, <1>2, <1>3, <1>4

LEMMA SameOrder == \A r : BP!BlockedFirst(r) = Board!BlockedFirst(r)
BY DEF BP!BlockedFirst, Board!BlockedFirst,
         BP!ComesBefore, Board!ComesBefore, BP!IsBlocked, Board!IsBlocked,
         BP!Bijection, Board!Bijection, BP!Injection, Board!Injection,
         BP!Surjection, Board!Surjection, BP!IsInjective, Board!IsInjective

LEMMA SameRemoval == \A s, i : BP!RemoveAt(s, i) = Board!RemoveAt(s, i)
BY DEF BP!RemoveAt, Board!RemoveAt

LEMMA SameFallback ==
  /\ \A left, o, i : BP!CursorAfterDrop(left, o, i) = Board!CursorAfterDrop(left, o, i)
  /\ \A i : BP!InflightAfterDrop(i) = Board!InflightAfterDrop(i)
  /\ \A id : BP!PositionOf(id) = Board!PositionOf(id)
<1>1. \A id : BP!PositionOf(id) = Board!PositionOf(id)
  BY DEF BP!PositionOf, Board!PositionOf, BP!Count, Board!Count
<1> QED  BY <1>1 DEF BP!CursorAfterDrop, Board!CursorAfterDrop, BP!AtMost, Board!AtMost,
               BP!InflightAfterDrop, Board!InflightAfterDrop

(* Each call the loop makes is an action of the board. *)
LEMMA HelloKeepsBoard ==
  ASSUME BP!BoardInv, Board!Hello
  PROVE  BP!BoardInv'
<1>1. BP!Hello
  BY DEF BP!Hello, Board!Hello
<1> QED  BY <1>1, BoardFits, BP!HelloKeeps

LEMMA IdleKeepsBoard ==
  ASSUME BP!BoardInv, UNCHANGED board
  PROVE  BP!BoardInv'
BY DEF board, BP!BoardInv, BP!TypeOK, BP!UniqueIds, BP!DisplayOrder,
       BP!SomethingSelected, BP!InflightRowBlocked, BP!HoldIsRest, BP!Elapsed, BP!Count

LEMMA UpsertKeepsBoard ==
  ASSUME BP!BoardInv, NEW row \in Board!Row, BoardUpsert(row)
  PROVE  BP!BoardInv'
<1>1. row \in BP!Row
  BY SameBoard
<1>2. ASSUME NEW i \in 1..Board!Count, Board!UpdateRow(row, i)
      PROVE  BP!BoardInv'
  <2>1. i \in 1..BP!Count
    BY <1>2 DEF BP!Count, Board!Count
  <2>2. BP!UpdateRow(row, i)
    BY <1>2, SameOrder DEF BP!UpdateRow, Board!UpdateRow
  <2> QED  BY <1>1, <2>1, <2>2, BoardFits, BP!UpdateRowKeeps
<1>3. CASE Board!InsertRow(row)
  <2>1. BP!InsertRow(row)
    BY <1>3, SameOrder
       DEF BP!InsertRow, Board!InsertRow, BP!InsertInto, Board!InsertInto, BP!Present,
           Board!Present, BP!FreeSeat, Board!FreeSeat, BP!Count, Board!Count,
           BP!RowIds, Board!RowIds
  <2> QED  BY <1>1, <2>1, BoardFits, BP!InsertRowKeeps
<1>4. ASSUME NEW i \in 1..Board!Count, Board!EvictAndInsert(row, i)
      PROVE  BP!BoardInv'
  <2>1. i \in 1..BP!Count
    BY <1>4 DEF BP!Count, Board!Count
  <2>2. BP!EvictAndInsert(row, i)
    BY <1>4, SameOrder, SameRemoval, SameFallback
       DEF BP!EvictAndInsert, Board!EvictAndInsert, BP!InsertInto, Board!InsertInto,
           BP!Present, Board!Present, BP!FreeSeat, Board!FreeSeat, BP!Count, Board!Count,
           BP!RowIds, Board!RowIds, BP!IsVictim, Board!IsVictim, BP!IsBlocked,
           Board!IsBlocked
  <2> QED  BY <1>1, <2>1, <2>2, BoardFits, BP!EvictAndInsertKeeps
<1>5. CASE UNCHANGED board
  BY <1>5, IdleKeepsBoard
<1> QED  BY <1>2, <1>3, <1>4, <1>5 DEF BoardUpsert, Board!Upsert

LEMMA RemoveKeepsBoard ==
  ASSUME BP!BoardInv, NEW id \in Ids, BoardRemove(id)
  PROVE  BP!BoardInv'
<1>1. CASE Board!RemoveRow(id)
  <2>1. BP!RemoveRow(id)
    BY <1>1, SameOrder, SameRemoval, SameFallback
       DEF BP!RemoveRow, Board!RemoveRow, BP!Count, Board!Count
  <2> QED  BY <2>1, BoardFits, BP!RemoveRowKeeps
<1>2. CASE UNCHANGED board
  BY <1>2, IdleKeepsBoard
<1> QED  BY <1>1, <1>2 DEF BoardRemove

LEMMA MoveKeepsBoard ==
  ASSUME BP!BoardInv, NEW down \in BOOLEAN, Board!CursorMove(down)
  PROVE  BP!BoardInv'
<1>1. BP!CursorMove(down)
  BY SameFallback DEF BP!CursorMove, Board!CursorMove, BP!Count, Board!Count,
                      BP!AtMost, Board!AtMost
<1> QED  BY <1>1, BoardFits, BP!CursorMoveKeeps

LEMMA ArmKeepsBoard ==
  ASSUME BP!BoardInv, Board!ArmApproval
  PROVE  BP!BoardInv'
<1>1. BP!ArmApproval
  BY DEF BP!ArmApproval, Board!ArmApproval, BP!ApprovalEnabled, Board!ApprovalEnabled,
         BP!Count, Board!Count, BP!IsBlocked, Board!IsBlocked, BP!InCooldown,
         Board!InCooldown, BP!Elapsed, Board!Elapsed
<1> QED  BY <1>1, BoardFits, BP!ArmApprovalKeeps

(* The tick and the scroll window of one frame. *)
LEMMA FrameKeepsBoard ==
  ASSUME BP!BoardInv, FrameStart
  PROVE  BP!BoardInv'
<1>1. /\ now \in 0..(TickMod - 1) /\ since \in 0..(TickMod - 1)
      /\ TickMod \in Nat /\ Cooldown \in Nat \ {0} /\ Cooldown < TickMod
      /\ hold \in [Ids -> 0..Cooldown]
  BY DeviceAssumption DEF BP!BoardInv, BP!TypeOK
<1>2. /\ now' = IF now + 1 = TickMod THEN 0 ELSE now + 1
      /\ hold' = [id \in Ids |-> IF hold[id] > 0 THEN hold[id] - 1 ELSE 0]
      /\ UNCHANGED <<rows, order, cursor, inflight, since>>
  <2>1. (now + 1) % TickMod = IF now + 1 = TickMod THEN 0 ELSE now + 1
    BY <1>1
  <2> QED  BY <2>1 DEF FrameStart
<1>3. now' \in 0..(TickMod - 1)
  BY <1>1, <1>2
<1>4. hold' \in [Ids -> 0..Cooldown]
  <2>1. \A id \in Ids : (IF hold[id] > 0 THEN hold[id] - 1 ELSE 0) \in 0..Cooldown
    BY <1>1
  <2> QED  BY <1>2, <2>1
<1>5. scroll' \in Nat
  <2>1. Board!Count \in Nat /\ scroll \in Nat /\ BoardVisible \in Nat \ {0}
    BY LenProperties, DeviceAssumption, SameBoard DEF BP!BoardInv, Board!TypeOK, Board!Count
  <2>2. Board!PositionOf(cursor) \in 0..Board!Count
    BY <2>1 DEF Board!PositionOf
  <2>3. Board!FollowCursor(BoardVisible) \in Nat
    BY <2>1, <2>2 DEF Board!FollowCursor
  <2> QED  BY <2>1, <2>3 DEF FrameStart, Board!ViewportTop, Board!AtMost
<1>6. BP!HoldIsRest'
  <2> SUFFICES ASSUME inflight' # NoSession, hold'[inflight'] > 0
               PROVE  BP!Elapsed' + hold'[inflight'] = Cooldown
    BY DEF BP!HoldIsRest
  <2>1. inflight' = inflight /\ inflight \in Ids /\ inflight # NoSession /\ since' = since
    BY <1>2 DEF BP!BoardInv, BP!TypeOK
  <2>2. hold[inflight] \in Nat /\ hold[inflight] > 1 /\ hold'[inflight] = hold[inflight] - 1
    BY <1>1, <1>2, <2>1
  <2>3. BP!Elapsed + hold[inflight] = Cooldown
    BY <2>1, <2>2 DEF BP!BoardInv, BP!HoldIsRest
  <2>4. BP!Elapsed' = BP!Elapsed + 1
    BY <1>1, <1>2, <2>1, <2>2, <2>3 DEF BP!Elapsed
  <2>5. BP!Elapsed \in Nat
    BY <1>1 DEF BP!Elapsed
  <2> QED  BY <1>1, <2>1, <2>2, <2>3, <2>4, <2>5
<1> QED
  BY <1>2, <1>3, <1>4, <1>5, <1>6
  DEF BP!BoardInv, BP!TypeOK, BP!UniqueIds, BP!DisplayOrder, BP!SomethingSelected,
      BP!InflightRowBlocked, BP!Count

LEMMA InitKeepsBoard == Init => BP!BoardInv
<1> SUFFICES ASSUME Init PROVE BP!BoardInv
  OBVIOUS
<1>1. BP!Init
  BY DEF Init, BP!Init, Board!Init
<1> QED  BY <1>1, BoardFits, BP!InitBoard

(* Whatever the loop does, the board keeps its own inductive invariant. *)
LEMMA NextKeepsBoard == ASSUME BP!BoardInv, [Next]_vars PROVE BP!BoardInv'
<1>1. CASE Reconnect \/ PollFails \/ UNCHANGED vars
  BY <1>1, IdleKeepsBoard DEF Reconnect, PollFails, vars
<1>2. CASE OnFrame
  <2>1. CASE OnHello
    BY <2>1, HelloKeepsBoard DEF OnHello
  <2>2. ASSUME NEW row \in Board!Row, OnSessionState(row) PROVE BP!BoardInv'
    BY <2>2, UpsertKeepsBoard DEF OnSessionState
  <2>3. ASSUME NEW id \in Ids, OnTerminalData(id) PROVE BP!BoardInv'
    BY <2>3, IdleKeepsBoard DEF OnTerminalData
  <2>4. ASSUME NEW id \in Ids, NEW ended \in BOOLEAN, OnAlert(id, ended) PROVE BP!BoardInv'
    BY <2>4, RemoveKeepsBoard, IdleKeepsBoard DEF OnAlert
  <2>5. ASSUME NEW a \in Approvals, OnApprovalRequest(a) PROVE BP!BoardInv'
    BY <2>5, IdleKeepsBoard DEF OnApprovalRequest
  <2> QED  BY <1>2, <2>1, <2>2, <2>3, <2>4, <2>5 DEF OnFrame
<1>3. ASSUME NEW down \in Presses, NEW zl \in BOOLEAN, NEW micOk \in BOOLEAN,
             HandleButtons(down, zl, micOk)
      PROVE  BP!BoardInv'
  <2> DEFINE rest == Claimed(down)
  <2>1. BoardButtons(rest) \/ TerminalButtons(rest)
    BY <1>3 DEF HandleButtons
  <2> HIDE DEF rest
  <2>2. Board!CursorMove(FALSE) \/ Board!CursorMove(TRUE) \/ UNCHANGED board
    BY <2>1 DEF BoardButtons, TerminalButtons
  <2> QED  BY <2>2, MoveKeepsBoard, IdleKeepsBoard
<1>4. ASSUME NEW hit \in Touchable, HandleTouch(hit) PROVE BP!BoardInv'
  BY <1>4, ArmKeepsBoard, IdleKeepsBoard
     DEF HandleTouch, TouchApproval, TouchSession, TouchToggle, TouchKey
<1> QED  BY <1>1, <1>2, <1>3, <1>4, FrameKeepsBoard DEF Next

-----------------------------------------------------------------------------
(* The rest of the loop's types.  The capture follows push-to-talk in      *)
(* every state, so a press that finds it running also finds the flag set.  *)
LoopInv ==
  /\ screen \in {"board", "terminal"}
  /\ Len(picker) <= Slots
  /\ net \in {"off", "attached", "greeted"} /\ connected \in BOOLEAN
  /\ connected => net # "attached"
  /\ ptt \in BOOLEAN /\ mic = ptt

LEMMA InitLoop == Init => LoopInv
<1> SUFFICES ASSUME Init PROVE LoopInv
  OBVIOUS
<1>1. Len(picker) <= Slots
  <2>1. Slots \in Nat /\ picker = <<>> /\ Len(<<>>) = 0
    BY DeviceAssumption DEF Init
  <2> QED  BY <2>1
<1>2. screen = "board" /\ net = "off" /\ connected = FALSE /\ ptt = FALSE /\ mic = FALSE
  BY DEF Init
<1> QED  BY <1>1, <1>2 DEF LoopInv

(* One row more, and only with room. *)
LEMMA PickerFits ==
  ASSUME picker \in Seq(Ids), Len(picker) <= Slots, NEW id \in Ids, UpsertPicker(id)
  PROVE  Len(picker') <= Slots
<1>1. Slots \in Nat /\ Len(picker) \in Nat
  BY LenProperties, DeviceAssumption
<1>2. CASE picker' = Append(picker, id) /\ Len(picker) # Slots
  <2>1. Len(picker') = Len(picker) + 1
    BY <1>2, AppendProperties
  <2> QED  BY <1>1, <1>2, <2>1
<1>3. CASE picker' = picker
  BY <1>3
<1> QED  BY <1>2, <1>3 DEF UpsertPicker

(* The talk button starts, holds and ends the capture. *)
LEMMA TalkKeeps ==
  ASSUME ptt \in BOOLEAN, mic = ptt, NEW down, NEW zl \in BOOLEAN, NEW micOk,
         PushToTalk(down, zl, micOk)
  PROVE  ptt' \in BOOLEAN /\ mic' = ptt'
BY DEF PushToTalk, TalksFrom

LEMMA SameLoop ==
  ASSUME LoopInv, screen' \in {"board", "terminal"}, picker' = picker,
         UNCHANGED voice, (net' \in {net, "off"} /\ connected' = connected)
  PROVE  LoopInv'
BY DEF LoopInv, voice

LEMMA ButtonsLoop ==
  ASSUME LoopInv, NEW down, NEW zl \in BOOLEAN, NEW micOk \in BOOLEAN,
         HandleButtons(down, zl, micOk)
  PROVE  LoopInv'
<1> DEFINE rest == Claimed(down)
<1>1. ptt' \in BOOLEAN /\ mic' = ptt'
  BY TalkKeeps DEF HandleButtons, LoopInv
<1>2. net' \in {net, "off"} /\ connected' = connected
  BY DEF HandleButtons, SendIf, MaySend, link
<1>3. BoardButtons(rest) \/ TerminalButtons(rest)
  BY DEF HandleButtons
<1> HIDE DEF rest
<1>4. screen' \in {"board", "terminal"} /\ picker' = picker
  BY <1>3 DEF BoardButtons, TerminalButtons, LoopInv
<1> QED  BY <1>1, <1>2, <1>4 DEF LoopInv

LEMMA NextKeepsLoop == ASSUME FocusInv, LoopInv, [Next]_vars PROVE LoopInv'
<1>1. CASE FrameStart \/ UNCHANGED vars
  BY <1>1, SameLoop DEF FrameStart, vars, ui, link, LoopInv
<1>2. CASE Reconnect \/ PollFails
  <2>1. UNCHANGED <<screen, picker, ptt, mic>>
    BY <1>2 DEF Reconnect, PollFails, ui, voice
  <2>2. CASE Reconnect
    <3>1. net' = "attached" /\ ~connected /\ connected' = connected
      BY <2>2 DEF Reconnect
    <3> QED  BY <2>1, <3>1 DEF LoopInv
  <2>3. CASE PollFails
    <3>1. net' = "off" /\ connected' = FALSE
      BY <2>3 DEF PollFails
    <3> QED  BY <2>1, <3>1 DEF LoopInv
  <2> QED  BY <1>2, <2>2, <2>3
<1>3. CASE OnFrame
  <2>1. CASE OnHello
    <3>1. Slots \in Nat /\ picker' = <<>> /\ Len(<<>>) = 0
      BY <2>1, DeviceAssumption DEF OnHello
    <3> QED  BY <2>1, <3>1 DEF OnHello, LandOnBoard, voice, LoopInv
  <2>2. ASSUME NEW row \in Board!Row, OnSessionState(row) PROVE LoopInv'
    <3>1. row.id \in Ids
      BY DEF Board!Row
    <3>2. Len(picker') <= Slots
      BY <2>2, <3>1, PickerFits DEF OnSessionState, FocusInv, LoopInv
    <3> QED  BY <2>2, <3>2 DEF OnSessionState, link, voice, LoopInv
  <2>3. ASSUME NEW id \in Ids, OnTerminalData(id) PROVE LoopInv'
    BY <2>3, SameLoop DEF OnTerminalData, ui, link, LoopInv
  <2>4. ASSUME NEW id \in Ids, NEW ended \in BOOLEAN, OnAlert(id, ended) PROVE LoopInv'
    <3>1. screen' \in {"board", "terminal"}
      BY <2>4 DEF OnAlert, ReleaseSlot, LandOnBoard, LoopInv
    <3> QED  BY <2>4, <3>1, SameLoop DEF OnAlert, link
  <2>5. ASSUME NEW a \in Approvals, OnApprovalRequest(a) PROVE LoopInv'
    BY <2>5, SameLoop DEF OnApprovalRequest, ui, link, LoopInv
  <2> QED  BY <1>3, <2>1, <2>2, <2>3, <2>4, <2>5 DEF OnFrame
<1>4. ASSUME NEW hit \in Touchable, HandleTouch(hit) PROVE LoopInv'
  <2>1. screen' = screen /\ picker' = picker
    BY <1>4 DEF HandleTouch, TouchApproval, TouchSession, TouchToggle, TouchKey, ui
  <2>2. net' \in {net, "off"} /\ connected' = connected
    BY <1>4 DEF HandleTouch, TouchApproval, TouchSession, TouchToggle, TouchKey, SendIf,
                MaySend, link
  <2> QED  BY <1>4, <2>1, <2>2, SameLoop DEF HandleTouch, LoopInv
<1> QED  BY <1>1, <1>2, <1>3, <1>4, ButtonsLoop DEF Next

(* The types of the loop, the capture that runs exactly while the talk     *)
(* button does, and the board's order and slot, through every reconnect.   *)
THEOREM DeviceTypeCorrect == Spec => []TypeOK
<1> DEFINE Inv == BP!BoardInv /\ FocusInv /\ LoopInv
<1>1. Init => Inv
  BY InitKeepsBoard, InitFocus, InitLoop
<1>2. Inv /\ [Next]_vars => Inv'
  BY NextKeepsBoard, NextKeepsFocus, NextKeepsLoop
<1>3. Inv => TypeOK
  <2> SUFFICES ASSUME Inv PROVE TypeOK
    OBVIOUS
  <2>1. Board!TypeOK /\ Board!DisplayOrder /\ Board!InflightRowBlocked
    BY SameBoard DEF BP!BoardInv
  <2>2. /\ slots \in [1..Slots -> Ids \cup {NoSession}] /\ focused \in 0..Slots
        /\ mode \in {"terminal", "pad", "alerts"} /\ picker \in Seq(Ids)
    BY DEF FocusInv, Seats, FocusOn
  <2> QED  BY <2>1, <2>2 DEF LoopInv, TypeOK
<1> QED  BY <1>1, <1>2, <1>3, PTL DEF Spec

-----------------------------------------------------------------------------
(* A press takes an approval off the queue only by answering it. *)
LEMMA OnlyAnswersShorten ==
  ASSUME QueueInv, [Next]_vars, Len(asked') < Len(asked)
  PROVE  \E down \in Presses, zl, micOk \in BOOLEAN :
           HandleButtons(down, zl, micOk) /\ Answers(down)
<1>1. Len(asked) \in Nat
  BY LenProperties DEF QueueInv
<1>2. asked' # asked
  BY <1>1
<1>3. ~ \E a \in Approvals : OnApprovalRequest(a)
  <2> SUFFICES ASSUME NEW a \in Approvals, OnApprovalRequest(a) PROVE FALSE
    OBVIOUS
  <2>1. asked' = Append(asked, a)
    BY <1>2 DEF OnApprovalRequest
  <2>2. Len(asked') = Len(asked) + 1
    BY <2>1, AppendProperties DEF QueueInv
  <2> QED  BY <1>1, <2>2
<1>4. ~UNCHANGED queue
  BY <1>2 DEF queue
<1>5. \E down \in Presses, zl, micOk \in BOOLEAN : HandleButtons(down, zl, micOk)
  BY <1>3, <1>4 DEF Next, vars, FrameStart, Reconnect, PollFails, OnFrame, OnHello,
                    OnSessionState, OnTerminalData, OnAlert, HandleTouch
<1>6. PICK down \in Presses, zl \in BOOLEAN, micOk \in BOOLEAN : HandleButtons(down, zl, micOk)
  BY <1>5
<1>7. Answers(down)
  BY <1>4, <1>6 DEF HandleButtons, Respond
<1> QED  BY <1>6, <1>7

(* Whatever else goes down with it, the A or B that answers an approval    *)
(* opens no row and leaves no screen; what is shown can only change by     *)
(* SELECT in the terminal.                                                 *)
AnswerOpensNothing ==
  Len(asked') < Len(asked) => UNCHANGED screen /\ (screen = "board" => UNCHANGED focus)

THEOREM AnswersOpenNothing == Spec => [][AnswerOpensNothing]_vars
<1>1. QueueInv /\ [Next]_vars => [AnswerOpensNothing]_vars
  <2> SUFFICES ASSUME QueueInv, [Next]_vars, Len(asked') < Len(asked)
               PROVE  UNCHANGED screen /\ (screen = "board" => UNCHANGED focus)
    BY DEF AnswerOpensNothing
  <2>1. PICK down \in Presses, zl \in BOOLEAN, micOk \in BOOLEAN :
          HandleButtons(down, zl, micOk) /\ Answers(down)
    BY OnlyAnswersShorten
  <2> DEFINE rest == Claimed(down)
  <2>2. "A" \notin rest /\ "B" \notin rest
    BY <2>1 DEF Claimed
  <2>3. IF screen = "board" THEN BoardButtons(rest) ELSE TerminalButtons(rest)
    BY <2>1 DEF HandleButtons
  <2> HIDE DEF rest
  <2> QED  BY <2>2, <2>3 DEF BoardButtons, TerminalButtons, Opens
<1> QED  BY InitQueue, NextKeepsQueue, <1>1, PTL DEF Spec

(* Where A and B go down alone or together but with no third button, as in *)
(* the runs, a press that answers does nothing else at all.                *)
THEOREM AnswersAreClaimed ==
  ASSUME \A down \in Presses : down \cap {"A", "B"} # {} => down \subseteq {"A", "B"}
  PROVE  Spec => AnswerIsClaimed
<1>1. QueueInv /\ [Next]_vars => [Len(asked') < Len(asked) => UNCHANGED <<focus, screen, cursor>>]_vars
  <2> SUFFICES ASSUME QueueInv, [Next]_vars, Len(asked') < Len(asked)
               PROVE  UNCHANGED <<focus, screen, cursor>>
    OBVIOUS
  <2>1. PICK down \in Presses, zl \in BOOLEAN, micOk \in BOOLEAN :
          HandleButtons(down, zl, micOk) /\ Answers(down)
    BY OnlyAnswersShorten
  <2> DEFINE rest == Claimed(down)
  <2>2. rest = {}
    BY <2>1 DEF Claimed, Answers
  <2>3. IF screen = "board" THEN BoardButtons(rest) ELSE TerminalButtons(rest)
    BY <2>1 DEF HandleButtons
  <2> HIDE DEF rest
  <2>4. UNCHANGED <<focus, screen>> /\ UNCHANGED board
    BY <2>2, <2>3 DEF BoardButtons, TerminalButtons, Opens, Cycles
  <2> QED  BY <2>4 DEF board
<1> QED  BY InitQueue, NextKeepsQueue, <1>1, PTL DEF Spec, AnswerIsClaimed
===============================================================================
