--------------------------- MODULE AgentBoardProofs ---------------------------
(***************************************************************************)
(* Proofs about AgentBoard, for every capacity, cooldown, set of ids and   *)
(* tick width.  The inductive invariant BoardInv adds to the checked       *)
(* invariants the exact meaning of the auxiliary `hold` of the row in      *)
(* flight: what is left of the cooldown.                                   *)
(***************************************************************************)
EXTENDS AgentBoard, SequenceTheorems, TLAPS

(* The tables the board may hold: packed, within capacity, one row per id. *)
Table ==
  {r \in Seq(Row) :
     /\ Len(r) <= Cap
     /\ \A i, j \in 1..Len(r) : r[i].id = r[j].id => i = j}

(* While the row in flight is held, the elapsed ticks and the ticks left   *)
(* make up the cooldown: so the hold never outlives the cooldown test.     *)
HoldIsRest ==
  inflight # NoSession /\ hold[inflight] > 0 => Elapsed + hold[inflight] = Cooldown

BoardInv ==
  /\ TypeOK
  /\ UniqueIds
  /\ DisplayOrder
  /\ SomethingSelected
  /\ InflightRowBlocked
  /\ HoldIsRest

-----------------------------------------------------------------------------
(* RemoveAt drops one element and keeps the others in order. *)
LEMMA RemoveAtProperties ==
  ASSUME NEW S, NEW s \in Seq(S), NEW i \in 1..Len(s)
  PROVE  /\ RemoveAt(s, i) \in Seq(S)
         /\ Len(RemoveAt(s, i)) = Len(s) - 1
         /\ \A k \in 1..(Len(s) - 1) : RemoveAt(s, i)[k] = IF k < i THEN s[k] ELSE s[k + 1]
<1> DEFINE front == SubSeq(s, 1, i - 1)
           back  == SubSeq(s, i + 1, Len(s))
<1>1. Len(s) \in Nat /\ \A k \in 1..Len(s) : s[k] \in S
  BY LenProperties, ElementOfSeq
<1>2. /\ front \in Seq(S)
      /\ Len(front) = i - 1
      /\ \A k \in 1..(i - 1) : front[k] = s[k]
  BY <1>1, SubSeqProperties
<1>3. /\ back \in Seq(S)
      /\ Len(back) = Len(s) - i
      /\ \A k \in 1..(Len(s) - i) : back[k] = s[i + k]
  <2>1. /\ back \in Seq(S)
        /\ Len(back) = IF i + 1 <= Len(s) THEN Len(s) - (i + 1) + 1 ELSE 0
        /\ \A k \in 1..(Len(s) - (i + 1) + 1) : back[k] = s[(i + 1) + k - 1]
    BY <1>1, SubSeqProperties
  <2> QED  BY <2>1, <1>1
<1>4. /\ front \o back \in Seq(S)
      /\ Len(front \o back) = Len(front) + Len(back)
      /\ \A k \in 1..(Len(front) + Len(back)) :
           (front \o back)[k] = IF k <= Len(front) THEN front[k] ELSE back[k - Len(front)]
  BY <1>2, <1>3, ConcatProperties
<1>0. RemoveAt(s, i) = front \o back
  BY DEF RemoveAt
<1> HIDE DEF front, back
<1>5. ASSUME NEW k \in 1..(Len(s) - 1)
      PROVE  (front \o back)[k] = IF k < i THEN s[k] ELSE s[k + 1]
  <2>1. CASE k < i
    BY <2>1, <1>1, <1>2, <1>3, <1>4
  <2>2. CASE ~(k < i)
    <3>1. k - (i - 1) \in 1..(Len(s) - i) /\ k \in 1..(Len(front) + Len(back)) /\ ~(k <= Len(front))
      BY <2>2, <1>1, <1>2, <1>3
    <3>2. (front \o back)[k] = back[k - (i - 1)]
      BY <3>1, <1>2, <1>4
    <3>3. back[k - (i - 1)] = s[i + (k - (i - 1))]
      BY <3>1, <1>3
    <3> QED  BY <2>2, <3>2, <3>3, <1>1
  <2> QED  BY <2>1, <2>2
<1> QED  BY <1>0, <1>1, <1>2, <1>3, <1>4, <1>5

(* A row replaced under its own id leaves a table with the same ids. *)
LEMMA UpdateTable ==
  ASSUME NEW r \in Table, NEW i \in 1..Len(r), NEW row \in Row, r[i].id = row.id
  PROVE  LET t == [r EXCEPT ![i] = row]
         IN  /\ t \in Table
             /\ Len(t) = Len(r)
             /\ RowIds(t) = RowIds(r)
             /\ \A j \in 1..Len(r) : t[j] = IF j = i THEN row ELSE r[j]
<1> DEFINE t == [r EXCEPT ![i] = row]
<1>1. /\ t \in Seq(Row)
      /\ Len(t) = Len(r)
      /\ \A j \in 1..Len(r) : t[j] = IF j = i THEN row ELSE r[j]
  BY ExceptSeq DEF Table
<1>2. \A j \in 1..Len(r) : t[j].id = r[j].id
  BY <1>1
<1>3. RowIds(t) = RowIds(r)
  BY <1>1, <1>2 DEF RowIds
<1>4. t \in Table
  BY <1>1, <1>2 DEF Table
<1> QED  BY <1>1, <1>3, <1>4

(* Appending a row with a new id below capacity leaves a table. *)
LEMMA AppendTable ==
  ASSUME NEW r \in Table, Len(r) < Cap, NEW row \in Row, row.id \notin RowIds(r)
  PROVE  LET t == Append(r, row)
         IN  /\ t \in Table
             /\ t # <<>>
             /\ Len(t) = Len(r) + 1
             /\ RowIds(t) = RowIds(r) \cup {row.id}
             /\ \A j \in 1..Len(r) : t[j] = r[j]
<1> DEFINE t == Append(r, row)
<1>1. /\ t \in Seq(Row)
      /\ t # <<>>
      /\ Len(t) = Len(r) + 1
      /\ \A j \in 1..Len(r) : t[j] = r[j]
      /\ t[Len(r) + 1] = row
      /\ Len(r) \in Nat
  BY AppendProperties, LenProperties DEF Table
<1>2. RowIds(t) = RowIds(r) \cup {row.id}
  BY <1>1 DEF RowIds
<1>3. t \in Table
  <2>1. Len(t) <= Cap
    BY <1>1, BoardAssumption
  <2>2. ASSUME NEW p \in 1..Len(t), NEW q \in 1..Len(t), t[p].id = t[q].id
        PROVE  p = q
    BY <1>1, <2>2 DEF Table, RowIds
  <2> QED  BY <1>1, <2>1, <2>2 DEF Table
<1> QED  BY <1>1, <1>2, <1>3

(* Dropping a row leaves a table without its id, and the others intact. *)
LEMMA DropTable ==
  ASSUME NEW r \in Table, NEW i \in 1..Len(r)
  PROVE  LET t == RemoveAt(r, i)
         IN  /\ t \in Table
             /\ Len(t) = Len(r) - 1
             /\ RowIds(t) = RowIds(r) \ {r[i].id}
             /\ \A j \in 1..Len(r) : j # i => \E k \in 1..Len(t) : t[k] = r[j]
<1> DEFINE t == RemoveAt(r, i)
<1>1. /\ t \in Seq(Row)
      /\ Len(t) = Len(r) - 1
      /\ \A k \in 1..(Len(r) - 1) : t[k] = IF k < i THEN r[k] ELSE r[k + 1]
      /\ Len(r) \in Nat
  BY RemoveAtProperties, LenProperties DEF Table
<1>2. \A j \in 1..Len(r) : j # i => \E k \in 1..Len(t) : t[k] = r[j]
  <2>1. ASSUME NEW j \in 1..Len(r), j < i
        PROVE  j \in 1..Len(t) /\ t[j] = r[j]
    BY <1>1, <2>1
  <2>2. ASSUME NEW j \in 1..Len(r), j > i
        PROVE  j - 1 \in 1..Len(t) /\ t[j - 1] = r[j]
    BY <1>1, <2>2
  <2> QED  BY <2>1, <2>2, <1>1
<1>3. \A k \in 1..Len(t) : \E j \in 1..Len(r) : j # i /\ t[k] = r[j]
  <2>1. ASSUME NEW k \in 1..Len(t)
        PROVE  \E j \in 1..Len(r) : j # i /\ t[k] = r[j]
    <3>1. CASE k < i  BY <1>1, <3>1
    <3>2. CASE ~(k < i)
      <4>1. k + 1 \in 1..Len(r) /\ k + 1 # i /\ t[k] = r[k + 1]
        BY <1>1, <3>2
      <4> QED  BY <4>1
    <3> QED  BY <3>1, <3>2
  <2> QED  BY <2>1
<1>4. RowIds(t) = RowIds(r) \ {r[i].id}
  <2>1. \A j \in 1..Len(r) : j # i => r[j].id # r[i].id
    BY DEF Table
  <2> HIDE DEF t
  <2>2. ASSUME NEW x \in RowIds(t)
        PROVE  x \in RowIds(r) /\ x # r[i].id
    BY <1>3, <2>1 DEF RowIds
  <2>3. ASSUME NEW x \in RowIds(r), x # r[i].id
        PROVE  x \in RowIds(t)
    BY <1>2, <2>3 DEF RowIds
  <2> QED  BY <2>2, <2>3
<1>5. t \in Table
  <2>1. ASSUME NEW p \in 1..Len(t), NEW q \in 1..Len(t), t[p].id = t[q].id
        PROVE  p = q
    <3> DEFINE old(k) == IF k < i THEN k ELSE k + 1
    <3>1. old(p) \in 1..Len(r) /\ old(q) \in 1..Len(r) /\ t[p] = r[old(p)] /\ t[q] = r[old(q)]
      BY <1>1
    <3>2. old(p) = old(q)
      BY <3>1, <2>1 DEF Table
    <3>3. p \in Nat /\ q \in Nat /\ i \in Nat
      BY <1>1
    <3> HIDE DEF t
    <3> QED  BY <3>2, <3>3
  <2> QED  BY <1>1, <2>1, BoardAssumption DEF Table
<1> QED  BY <1>1, <1>2, <1>4, <1>5

-----------------------------------------------------------------------------
(* A blocked-first order is a function onto the indices of its table. *)
LEMMA OrderOnto ==
  ASSUME NEW r \in Seq(Row), NEW o \in BlockedFirst(r)
  PROVE  /\ o \in [1..Len(r) -> 1..Len(r)]
         /\ \A k \in 1..Len(r) : \E p \in 1..Len(r) : o[p] = k
BY DEF BlockedFirst, Bijection, Injection, Surjection, IsInjective

(* The rows are a table; the display order reaches every row. *)
LEMMA BoardTable ==
  ASSUME TypeOK, UniqueIds
  PROVE  rows \in Table /\ Count \in Nat
BY LenProperties DEF TypeOK, UniqueIds, Table, Count

LEMMA RowIdsAre ==
  ASSUME NEW r \in Table
  PROVE  /\ RowIds(r) \subseteq Ids
         /\ \A k \in 1..Len(r) : r[k] \in Row /\ r[k].id \in RowIds(r)
         /\ NoSession \notin RowIds(r)
         /\ Len(r) \in Nat
         /\ (r = <<>> <=> Len(r) = 0)
<1>1. Len(r) \in Nat /\ \A k \in 1..Len(r) : r[k] \in Row
  BY LenProperties, ElementOfSeq DEF Table
<1>2. r = <<>> <=> Len(r) = 0
  BY EmptySeq DEF Table
<1> QED  BY <1>1, <1>2, BoardAssumption DEF RowIds, Row

(* ab_board_cursor_pos resolves every id that has a row. *)
LEMMA PositionResolves ==
  ASSUME TypeOK, UniqueIds, DisplayOrder, NEW id \in RowIds(rows)
  PROVE  PositionOf(id) \in 1..Count /\ rows[order[PositionOf(id)]].id = id
<1>1. rows \in Seq(Row) /\ Count = Len(rows)
  BY DEF TypeOK, Count
<1>2. PICK k \in 1..Len(rows) : rows[k].id = id
  BY DEF RowIds
<1>3. \E p \in 1..Count : rows[order[p]].id = id
  BY <1>1, <1>2, OrderOnto DEF DisplayOrder
<1> QED  BY <1>3 DEF PositionOf

(* The nearest-row fallback keeps a cursor on another row, and otherwise   *)
(* lands on a row of the board that is left, if there is one.              *)
LEMMA FallbackSelects ==
  ASSUME BoardInv, NEW i \in 1..Count,
         NEW o, o \in BlockedFirst(RemoveAt(rows, i))
  PROVE  LET left == RemoveAt(rows, i)
             c    == CursorAfterDrop(left, o, i)
         IN  /\ c \in Ids \cup {NoSession}
             /\ cursor # rows[i].id => c = cursor
             /\ cursor = rows[i].id /\ left # <<>> => c \in RowIds(left)
             /\ left # <<>> => c # NoSession
<1> DEFINE left == RemoveAt(rows, i)
           c == CursorAfterDrop(left, o, i)
           pos == AtMost(PositionOf(cursor), Len(left))
<1>1. rows \in Table /\ i \in 1..Len(rows) /\ cursor \in Ids \cup {NoSession}
  BY BoardTable DEF BoardInv, TypeOK, Count
<1>2. left \in Table /\ Len(left) = Len(rows) - 1 /\ Len(left) \in Nat
  BY <1>1, DropTable, RowIdsAre
<1>3. CASE cursor # rows[i].id
  <2>1. c = cursor
    BY <1>3 DEF CursorAfterDrop
  <2>2. cursor # NoSession
    BY <1>1, RowIdsAre DEF BoardInv, SomethingSelected
  <2> QED  BY <2>1, <2>2, <1>1, <1>3
<1>4. CASE cursor = rows[i].id /\ left = <<>>
  BY <1>4 DEF CursorAfterDrop
<1>5. CASE cursor = rows[i].id /\ left # <<>>
  <2>1. cursor \in RowIds(rows)
    BY <1>1, <1>5, RowIdsAre
  <2>2. PositionOf(cursor) \in Nat \ {0}
    BY <2>1, PositionResolves, <1>1 DEF BoardInv, Count
  <2>3. Len(left) # 0
    BY <1>2, <1>5, RowIdsAre
  <2>4. pos \in 1..Len(left)
    <3> HIDE DEF left
    <3> QED  BY <2>2, <2>3, <1>2 DEF AtMost
  <2>5. o \in [1..Len(left) -> 1..Len(left)]
    BY <1>2, OrderOnto DEF Table
  <2>6. c = left[o[pos]].id
    BY <1>5 DEF CursorAfterDrop
  <2>7. o[pos] \in 1..Len(left)
    BY <2>4, <2>5
  <2>8. c \in RowIds(left)
    BY <2>6, <2>7, <1>2, RowIdsAre
  <2> QED  BY <2>8, <1>2, <1>5, RowIdsAre
<1> QED  BY <1>3, <1>4, <1>5

-----------------------------------------------------------------------------
(* Preservation of BoardInv, one lemma per action. *)

(* The conjuncts about the table and the order follow from the shape of    *)
(* the new table alone.                                                    *)
LEMMA NewTable ==
  ASSUME rows' \in Table, order' \in BlockedFirst(rows')
  PROVE  /\ rows' \in Seq(Row) /\ Count' <= Cap
         /\ order' \in [1..Count' -> 1..Count']
         /\ UniqueIds'
         /\ DisplayOrder'
<1>1. rows' \in Seq(Row) /\ Len(rows') <= Cap
  BY DEF Table
<1>2. order' \in [1..Len(rows') -> 1..Len(rows')]
  BY <1>1, OrderOnto
<1>3. \A i, j \in 1..Len(rows') : rows'[i].id = rows'[j].id => i = j
  BY DEF Table
<1> QED  BY <1>1, <1>2, <1>3 DEF UniqueIds, DisplayOrder, Count

LEMMA EmptyTable ==
  <<>> \in Table /\ <<>> \in BlockedFirst(<<>>)
<1>1. <<>> \in Seq(Row) /\ Len(<<>>) = 0
  BY EmptySeq
<1>2. <<>> \in Table
  BY <1>1, BoardAssumption DEF Table
<1>3. 1..0 = {} /\ <<>> \in [{} -> {}]
  BY SMT
<1>4. <<>> \in BlockedFirst(<<>>)
  BY <1>1, <1>3 DEF BlockedFirst, Bijection, Injection, Surjection, IsInjective
<1> QED  BY <1>2, <1>4

LEMMA InitBoard ==
  ASSUME Init
  PROVE  BoardInv
<1>1. rows \in Seq(Row) /\ Count = 0 /\ Count <= Cap
  BY EmptySeq, BoardAssumption DEF Init, Count
<1>2. order \in BlockedFirst(rows)
  BY EmptyTable DEF Init
<1>3. order \in [1..Count -> 1..Count]
  BY <1>1, <1>2, OrderOnto DEF Count
<1>4. UniqueIds
  BY <1>1 DEF UniqueIds
<1>5. TypeOK
  BY <1>1, <1>3, BoardAssumption DEF Init, TypeOK
<1> QED
  BY <1>2, <1>4, <1>5, BoardAssumption
  DEF Init, BoardInv, DisplayOrder, SomethingSelected, InflightRowBlocked, HoldIsRest

LEMMA HelloKeeps ==
  ASSUME BoardInv, Hello
  PROVE  BoardInv'
<1>1. rows' \in Table /\ order' \in BlockedFirst(rows') /\ Len(rows') = 0
  BY EmptyTable, EmptySeq DEF Hello
<1>2. TypeOK'
  BY <1>1, NewTable, BoardAssumption DEF BoardInv, Hello, TypeOK, Count
<1> QED
  BY <1>1, <1>2, NewTable
  DEF Hello, BoardInv, SomethingSelected, InflightRowBlocked, HoldIsRest

LEMMA UpdateRowKeeps ==
  ASSUME BoardInv, NEW row \in Row, NEW i \in 1..Count, UpdateRow(row, i)
  PROVE  /\ BoardInv'
         /\ RowIds(rows') = RowIds(rows) /\ rows' # <<>> /\ cursor' = cursor
<1>1. rows \in Table /\ i \in 1..Len(rows) /\ rows[i].id = row.id
  BY BoardTable DEF BoardInv, UpdateRow, Count
<1>2. /\ rows' \in Table /\ order' \in BlockedFirst(rows')
      /\ Len(rows') = Len(rows)
      /\ RowIds(rows') = RowIds(rows)
      /\ \A j \in 1..Len(rows) : rows'[j] = IF j = i THEN row ELSE rows[j]
  <2> DEFINE t == [rows EXCEPT ![i] = row]
  <2>1. rows' = t /\ order' \in BlockedFirst(rows')
    BY DEF UpdateRow
  <2>2. /\ t \in Table
        /\ Len(t) = Len(rows)
        /\ RowIds(t) = RowIds(rows)
        /\ \A j \in 1..Len(rows) : t[j] = IF j = i THEN row ELSE rows[j]
    BY <1>1, UpdateTable
  <2> HIDE DEF t
  <2> QED  BY <2>1, <2>2
<1>3. rows' # <<>> /\ rows # <<>>
  BY <1>1, <1>2, RowIdsAre
<1>4. row.id \in Ids /\ row.id # NoSession
  BY BoardAssumption DEF Row
<1>5. TypeOK'
  <2>1. hold' \in [Ids -> 0..Cooldown]
    BY <1>4, BoardAssumption DEF UpdateRow, BoardInv, TypeOK
  <2> QED  BY <1>2, <2>1, NewTable, BoardAssumption DEF UpdateRow, BoardInv, TypeOK
<1>6. SomethingSelected'
  BY <1>3 DEF UpdateRow, BoardInv, SomethingSelected
<1>7. inflight' # NoSession =>
        inflight' = inflight /\ (inflight = row.id => rows[i].status = row.status)
  BY <1>4 DEF UpdateRow
<1>8. InflightRowBlocked'
  <2> SUFFICES ASSUME inflight' # NoSession
               PROVE  \E k \in 1..Count' : rows'[k].id = inflight' /\ IsBlocked(rows'[k])
    BY DEF InflightRowBlocked
  <2>1. PICK k \in 1..Len(rows) : rows[k].id = inflight /\ IsBlocked(rows[k])
    BY <1>7 DEF BoardInv, InflightRowBlocked, Count
  <2>2. CASE k = i
    <3>1. rows[i].status = row.status /\ rows'[k] = row
      BY <2>1, <2>2, <1>1, <1>2, <1>7
    <3> QED  BY <3>1, <2>1, <2>2, <1>1, <1>2, <1>7 DEF IsBlocked, Count
  <2>3. CASE k # i
    BY <2>1, <2>3, <1>2, <1>7 DEF IsBlocked, Count
  <2> QED  BY <2>2, <2>3
<1>9. HoldIsRest'
  <2>1. inflight' # NoSession => hold'[inflight'] = hold[inflight]
    BY <1>4, <1>7 DEF UpdateRow, BoardInv, TypeOK
  <2> QED  BY <2>1, <1>7 DEF UpdateRow, BoardInv, HoldIsRest, Elapsed
<1> QED
  BY <1>2, <1>3, <1>5, <1>6, <1>8, <1>9, NewTable DEF BoardInv, UpdateRow

(* The insert tail, on any board `base` with a free seat and no row of the *)
(* new id.                                                                 *)
LEMMA InsertIntoKeeps ==
  ASSUME NEW base \in Table, Len(base) < Cap,
         NEW c \in Ids \cup {NoSession},
         NEW row \in Row, row.id \notin RowIds(base),
         rows' = Append(base, row), order' \in BlockedFirst(rows'),
         cursor' = IF c = NoSession THEN row.id ELSE c
  PROVE  /\ rows' \in Table /\ order' \in BlockedFirst(rows')
         /\ rows' # <<>>
         /\ Len(rows') = Len(base) + 1
         /\ RowIds(rows') = RowIds(base) \cup {row.id}
         /\ \A j \in 1..Len(base) : j \in 1..Len(rows') /\ rows'[j] = base[j]
         /\ cursor' \in Ids /\ (c # NoSession => cursor' = c)
         /\ (c = NoSession => cursor' = row.id)
<1> DEFINE t == Append(base, row)
<1>1. rows' = t
  OBVIOUS
<1>2. /\ t \in Table /\ t # <<>>
      /\ Len(t) = Len(base) + 1
      /\ RowIds(t) = RowIds(base) \cup {row.id}
      /\ \A j \in 1..Len(base) : t[j] = base[j]
  BY AppendTable
<1> HIDE DEF t
<1>3. \A j \in 1..Len(base) : j \in 1..Len(t)
  BY <1>2, RowIdsAre
<1>4. row.id \in Ids
  BY DEF Row
<1> QED  BY <1>1, <1>2, <1>3, <1>4

(* Whoever still has the in-flight slot keeps its blocked row. *)
LEMMA SlotKeeps ==
  ASSUME BoardInv,
         inflight' \in {inflight, NoSession},
         since' = since, now' = now,
         inflight' # NoSession =>
           /\ hold'[inflight'] = hold[inflight]
           /\ \A k \in 1..Len(rows) : rows[k].id = inflight =>
                \E j \in 1..Len(rows') : rows'[j] = rows[k]
  PROVE  InflightRowBlocked' /\ HoldIsRest'
<1>1. InflightRowBlocked'
  <2> SUFFICES ASSUME inflight' # NoSession
               PROVE  \E j \in 1..Count' : rows'[j].id = inflight' /\ IsBlocked(rows'[j])
    BY DEF InflightRowBlocked
  <2>1. PICK k \in 1..Len(rows) : rows[k].id = inflight /\ IsBlocked(rows[k])
    BY DEF BoardInv, InflightRowBlocked, Count
  <2>2. PICK j \in 1..Len(rows') : rows'[j] = rows[k]
    BY <2>1
  <2> QED  BY <2>1, <2>2 DEF Count, IsBlocked
<1>2. HoldIsRest'
  BY DEF BoardInv, HoldIsRest, Elapsed
<1> QED  BY <1>1, <1>2

LEMMA InsertRowKeeps ==
  ASSUME BoardInv, NEW row \in Row, InsertRow(row)
  PROVE  /\ BoardInv'
         /\ RowIds(rows) \subseteq RowIds(rows') /\ rows' # <<>>
         /\ cursor # NoSession => cursor' = cursor
<1>1. rows \in Table /\ Len(rows) < Cap /\ row.id \notin RowIds(rows)
  BY BoardTable DEF BoardInv, InsertRow, Count, FreeSeat, Present
<1>2. /\ cursor \in Ids \cup {NoSession}
      /\ rows' = Append(rows, row) /\ order' \in BlockedFirst(rows')
      /\ cursor' = IF cursor = NoSession THEN row.id ELSE cursor
  BY DEF BoardInv, TypeOK, InsertRow, InsertInto
<1>3. /\ rows' \in Table /\ order' \in BlockedFirst(rows')
      /\ rows' # <<>>
      /\ RowIds(rows') = RowIds(rows) \cup {row.id}
      /\ \A j \in 1..Len(rows) : j \in 1..Len(rows') /\ rows'[j] = rows[j]
      /\ cursor' \in Ids /\ (cursor # NoSession => cursor' = cursor)
  BY <1>1, <1>2, InsertIntoKeeps
<1>4. TypeOK'
  BY <1>3, NewTable DEF InsertRow, BoardInv, TypeOK
<1>5. SomethingSelected'
  BY <1>3, BoardAssumption DEF SomethingSelected
<1>6. InflightRowBlocked' /\ HoldIsRest'
  <2>1. inflight' \in {inflight, NoSession} /\ since' = since /\ now' = now /\ hold' = hold
    BY DEF InsertRow
  <2> QED  BY <2>1, <1>3, SlotKeeps
<1> QED  BY <1>3, <1>4, <1>5, <1>6, NewTable DEF BoardInv

LEMMA EvictAndInsertKeeps ==
  ASSUME BoardInv, NEW row \in Row, NEW i \in 1..Count, EvictAndInsert(row, i)
  PROVE  /\ BoardInv'
         /\ RowIds(rows') = (RowIds(rows) \ {rows[i].id}) \cup {row.id} /\ rows' # <<>>
         /\ cursor # rows[i].id /\ cursor # NoSession => cursor' = cursor
         /\ cursor = rows[i].id => cursor' \in RowIds(rows')
         /\ ~IsBlocked(rows[i])
<1> DEFINE left == RemoveAt(rows, i)
<1>1. /\ rows \in Table /\ i \in 1..Len(rows) /\ Len(rows) \in Nat /\ Len(rows) <= Cap
      /\ row.id \notin RowIds(rows) /\ ~IsBlocked(rows[i]) /\ rows[i].id \in Ids
  <2>1. rows \in Table /\ i \in 1..Len(rows)
    BY BoardTable DEF BoardInv, Count
  <2>2. row.id \notin RowIds(rows) /\ ~IsBlocked(rows[i])
    BY DEF EvictAndInsert, Present, IsVictim
  <2>3. rows[i].id \in Ids
    BY <2>1, RowIdsAre
  <2> QED  BY <2>1, <2>2, <2>3, RowIdsAre DEF Table
<1>2. /\ left \in Table
      /\ Len(left) = Len(rows) - 1
      /\ RowIds(left) = RowIds(rows) \ {rows[i].id}
      /\ \A j \in 1..Len(rows) : j # i => \E k \in 1..Len(left) : left[k] = rows[j]
  BY <1>1, DropTable
<1>3. PICK c \in Ids \cup {NoSession} :
        /\ rows' = Append(left, row) /\ order' \in BlockedFirst(rows')
        /\ cursor' = IF c = NoSession THEN row.id ELSE c
        /\ cursor # rows[i].id => c = cursor
        /\ cursor = rows[i].id /\ left # <<>> => c \in RowIds(left)
        /\ left # <<>> => c # NoSession
        /\ cursor = rows[i].id /\ left = <<>> => c = NoSession
  <2>1. PICK mid \in BlockedFirst(left) : InsertInto(left, CursorAfterDrop(left, mid, i), row)
    BY DEF EvictAndInsert
  <2> DEFINE d == CursorAfterDrop(left, mid, i)
  <2>4. /\ rows' = Append(left, row) /\ order' \in BlockedFirst(rows')
        /\ cursor' = IF d = NoSession THEN row.id ELSE d
    BY <2>1 DEF InsertInto
  <2>2. /\ d \in Ids \cup {NoSession}
        /\ cursor # rows[i].id => d = cursor
        /\ cursor = rows[i].id /\ left # <<>> => d \in RowIds(left)
        /\ left # <<>> => d # NoSession
    BY <2>1, FallbackSelects
  <2>3. cursor = rows[i].id /\ left = <<>> => d = NoSession
    BY DEF CursorAfterDrop
  <2> HIDE DEF left, d
  <2> QED  BY <2>2, <2>3, <2>4
<1> HIDE DEF left
<1>6. /\ rows' \in Table /\ order' \in BlockedFirst(rows')
      /\ rows' # <<>>
      /\ RowIds(rows') = RowIds(left) \cup {row.id}
      /\ \A j \in 1..Len(left) : j \in 1..Len(rows') /\ rows'[j] = left[j]
      /\ cursor' \in Ids /\ (c # NoSession => cursor' = c)
      /\ (c = NoSession => cursor' = row.id)
  <2>1. Len(left) < Cap /\ row.id \notin RowIds(left)
    BY <1>1, <1>2, BoardAssumption
  <2> QED  BY <1>2, <1>3, <2>1, InsertIntoKeeps
<1>7. hold' \in [Ids -> 0..Cooldown] /\ \A id \in Ids : id # rows[i].id => hold'[id] = hold[id]
  BY <1>1, BoardAssumption DEF EvictAndInsert, BoardInv, TypeOK
<1>8. /\ inflight' \in {inflight, NoSession}
      /\ inflight' # NoSession => inflight' # rows[i].id
      /\ since' = since /\ now' = now /\ scroll' = scroll
  BY DEF EvictAndInsert, InflightAfterDrop
<1>9. TypeOK'
  BY <1>6, <1>7, <1>8, NewTable DEF BoardInv, TypeOK
<1>10. SomethingSelected'
  BY <1>6, BoardAssumption DEF SomethingSelected
<1>11. InflightRowBlocked' /\ HoldIsRest'
  <2>1. inflight' # NoSession =>
          \A k \in 1..Len(rows) : rows[k].id = inflight =>
            \E j \in 1..Len(rows') : rows'[j] = rows[k]
    <3> SUFFICES ASSUME inflight' # NoSession, NEW k \in 1..Len(rows), rows[k].id = inflight
                 PROVE  \E j \in 1..Len(rows') : rows'[j] = rows[k]
      OBVIOUS
    <3>1. k # i
      BY <1>8
    <3>2. PICK j \in 1..Len(left) : left[j] = rows[k]
      BY <1>2, <3>1
    <3> QED  BY <1>6, <3>2
  <2>2. inflight' # NoSession => hold'[inflight'] = hold[inflight]
    BY <1>7, <1>8 DEF BoardInv, TypeOK
  <2> QED  BY <1>8, <2>1, <2>2, SlotKeeps
<1>12. cursor = rows[i].id => cursor' \in RowIds(rows')
  BY <1>2, <1>3, <1>6, RowIdsAre
<1> QED
  BY <1>1, <1>2, <1>3, <1>6, <1>9, <1>10, <1>11, <1>12, NewTable DEF BoardInv

LEMMA RemoveRowKeeps ==
  ASSUME BoardInv, NEW id \in Ids, RemoveRow(id)
  PROVE  /\ BoardInv'
         /\ RowIds(rows') = RowIds(rows) \ {id} /\ Len(rows') < Len(rows)
         /\ cursor # id => cursor' = cursor
         /\ cursor = id /\ rows' # <<>> => cursor' \in RowIds(rows')
<1>1. PICK i \in 1..Count :
        /\ rows[i].id = id
        /\ rows' = RemoveAt(rows, i)
        /\ order' \in BlockedFirst(rows')
        /\ cursor' = CursorAfterDrop(rows', order', i)
        /\ inflight' = InflightAfterDrop(i)
        /\ hold' = [hold EXCEPT ![id] = 0]
        /\ UNCHANGED <<scroll, since, now>>
  BY DEF RemoveRow
<1> DEFINE left == RemoveAt(rows, i)
<1>2. rows \in Table /\ i \in 1..Len(rows) /\ Len(rows) \in Nat
  BY BoardTable DEF BoardInv, Count
<1>3. /\ left \in Table
      /\ Len(left) = Len(rows) - 1
      /\ RowIds(left) = RowIds(rows) \ {rows[i].id}
      /\ \A j \in 1..Len(rows) : j # i => \E k \in 1..Len(left) : left[k] = rows[j]
  BY <1>2, DropTable
<1>4. LET c == CursorAfterDrop(left, order', i)
      IN  /\ c \in Ids \cup {NoSession}
          /\ cursor # rows[i].id => c = cursor
          /\ cursor = rows[i].id /\ left # <<>> => c \in RowIds(left)
          /\ left # <<>> => c # NoSession
  BY <1>1, FallbackSelects
<1>5. left = rows' /\ rows[i].id = id
  BY <1>1
<1> HIDE DEF left
<1>6. /\ cursor' \in Ids \cup {NoSession}
      /\ cursor # id => cursor' = cursor
      /\ cursor = id /\ rows' # <<>> => cursor' \in RowIds(rows')
      /\ rows' # <<>> => cursor' # NoSession
  BY <1>1, <1>4, <1>5
<1>7. rows' \in Table /\ order' \in BlockedFirst(rows')
  BY <1>1, <1>3, <1>5
<1>8. hold' \in [Ids -> 0..Cooldown] /\ \A x \in Ids : x # id => hold'[x] = hold[x]
  BY <1>1, BoardAssumption DEF BoardInv, TypeOK
<1>9. /\ inflight' \in {inflight, NoSession}
      /\ inflight' # NoSession => inflight' # id
  BY <1>1 DEF InflightAfterDrop
<1>10. TypeOK'
  BY <1>1, <1>6, <1>7, <1>8, <1>9, NewTable DEF BoardInv, TypeOK
<1>11. SomethingSelected'
  BY <1>6 DEF SomethingSelected
<1>12. InflightRowBlocked' /\ HoldIsRest'
  <2>1. inflight' # NoSession =>
          \A k \in 1..Len(rows) : rows[k].id = inflight =>
            \E j \in 1..Len(rows') : rows'[j] = rows[k]
    <3> SUFFICES ASSUME inflight' # NoSession, NEW k \in 1..Len(rows), rows[k].id = inflight
                 PROVE  \E j \in 1..Len(rows') : rows'[j] = rows[k]
      OBVIOUS
    <3>1. k # i
      BY <1>5, <1>9
    <3> QED  BY <1>3, <1>5, <3>1
  <2>2. inflight' # NoSession => hold'[inflight'] = hold[inflight]
    BY <1>8, <1>9 DEF BoardInv, TypeOK
  <2> QED  BY <1>1, <1>9, <2>1, <2>2, SlotKeeps
<1> QED
  BY <1>2, <1>3, <1>5, <1>6, <1>7, <1>10, <1>11, <1>12, NewTable DEF BoardInv

(* The actions that leave the table alone. *)
LEMMA CursorSetKeeps ==
  ASSUME BoardInv, NEW id \in Ids, CursorSet(id)
  PROVE  BoardInv'
BY BoardAssumption
DEF CursorSet, BoardInv, TypeOK, UniqueIds, DisplayOrder, SomethingSelected,
    InflightRowBlocked, HoldIsRest, Elapsed, Count

LEMMA CursorMoveKeeps ==
  ASSUME BoardInv, NEW down \in BOOLEAN, CursorMove(down)
  PROVE  BoardInv'
<1>1. rows \in Table /\ Count = Len(rows) /\ Count \in Nat
  BY BoardTable DEF BoardInv, Count
<1>2. order \in [1..Count -> 1..Count] /\ cursor \in Ids \cup {NoSession}
  BY DEF BoardInv, TypeOK
<1>3. PositionOf(cursor) \in 0..Count
  BY <1>1 DEF PositionOf
<1>4. IF Count = 0 THEN cursor' = NoSession ELSE cursor' \in RowIds(rows)
  <2>1. CASE Count = 0
    BY <2>1 DEF CursorMove
  <2>2. CASE Count # 0
    <3> DEFINE pos  == PositionOf(cursor)
               next == IF pos = 0 THEN 1
                       ELSE IF down THEN AtMost(pos + 1, Count)
                       ELSE IF pos > 1 THEN pos - 1 ELSE 1
    <3>1. next \in 1..Count
      BY <1>1, <1>3, <2>2 DEF AtMost
    <3>2. cursor' = rows[order[next]].id
      BY <2>2 DEF CursorMove
    <3>3. order[next] \in 1..Len(rows)
      BY <3>1, <1>1, <1>2
    <3> HIDE DEF next
    <3> QED  BY <2>2, <3>2, <3>3, <1>1, RowIdsAre
  <2> QED  BY <2>1, <2>2
<1>5. cursor' \in Ids \cup {NoSession} /\ (rows # <<>> => cursor' # NoSession)
  BY <1>1, <1>4, RowIdsAre
<1> QED
  BY <1>5
  DEF CursorMove, BoardInv, TypeOK, UniqueIds, DisplayOrder, SomethingSelected,
      InflightRowBlocked, HoldIsRest, Elapsed, Count

LEMMA ArmApprovalKeeps ==
  ASSUME BoardInv, ArmApproval
  PROVE  BoardInv'
<1>1. PICK i \in 1..Count : rows[i].id = cursor /\ IsBlocked(rows[i])
  BY DEF ArmApproval, ApprovalEnabled
<1>2. cursor \in Ids
  BY <1>1, BoardTable, RowIdsAre DEF BoardInv, Count
<1>3. hold' \in [Ids -> 0..Cooldown] /\ hold'[cursor] = Cooldown
  BY <1>2, BoardAssumption DEF ArmApproval, BoardInv, TypeOK
<1>4. TypeOK'
  BY <1>2, <1>3 DEF ArmApproval, BoardInv, TypeOK, Count
<1>5. InflightRowBlocked'
  BY <1>1 DEF ArmApproval, InflightRowBlocked, IsBlocked, Count
<1>6. HoldIsRest'
  <2>1. Elapsed' = 0
    BY DEF ArmApproval, Elapsed, BoardInv, TypeOK
  <2> QED  BY <1>3, <2>1, BoardAssumption DEF ArmApproval, HoldIsRest
<1> QED
  BY <1>4, <1>5, <1>6
  DEF ArmApproval, BoardInv, UniqueIds, DisplayOrder, SomethingSelected, Count

LEMMA ViewportKeeps ==
  ASSUME BoardInv, NEW visible \in Visible, Viewport(visible)
  PROVE  BoardInv'
<1>1. Count \in Nat /\ visible \in Nat \ {0} /\ scroll \in Nat
  BY BoardTable, BoardAssumption DEF BoardInv, TypeOK
<1>2. PositionOf(cursor) \in 0..Count
  BY <1>1 DEF PositionOf
<1>3. FollowCursor(visible) \in Nat
  BY <1>1, <1>2 DEF FollowCursor
<1>4. scroll' \in Nat
  BY <1>1, <1>3 DEF Viewport, ViewportTop, AtMost
<1> QED
  BY <1>4
  DEF Viewport, BoardInv, TypeOK, UniqueIds, DisplayOrder, SomethingSelected,
      InflightRowBlocked, HoldIsRest, Elapsed, Count

LEMMA TickKeeps ==
  ASSUME BoardInv, Tick
  PROVE  BoardInv'
<1>1. /\ now \in 0..(TickMod - 1) /\ since \in 0..(TickMod - 1)
      /\ TickMod \in Nat /\ Cooldown \in Nat \ {0} /\ Cooldown < TickMod
      /\ hold \in [Ids -> 0..Cooldown]
  BY BoardAssumption DEF BoardInv, TypeOK
<1>2. now' \in 0..(TickMod - 1)
  BY <1>1 DEF Tick
<1>3. hold' \in [Ids -> 0..Cooldown]
  <2>1. \A id \in Ids : (IF hold[id] > 0 THEN hold[id] - 1 ELSE 0) \in 0..Cooldown
    BY <1>1
  <2> QED  BY <2>1 DEF Tick
<1>4. HoldIsRest'
  <2> SUFFICES ASSUME inflight' # NoSession, hold'[inflight'] > 0
               PROVE  Elapsed' + hold'[inflight'] = Cooldown
    BY DEF HoldIsRest
  <2>1. inflight' = inflight /\ inflight \in Ids /\ inflight # NoSession /\ since' = since
    BY DEF Tick, BoardInv, TypeOK
  <2>2. hold[inflight] \in Nat /\ hold[inflight] > 1 /\ hold'[inflight] = hold[inflight] - 1
    BY <1>1, <2>1 DEF Tick
  <2>3. Elapsed + hold[inflight] = Cooldown
    BY <2>1, <2>2 DEF BoardInv, HoldIsRest
  <2>4. Elapsed' = Elapsed + 1
    BY <1>1, <2>1, <2>2, <2>3 DEF Elapsed, Tick
  <2>5. Elapsed \in Nat
    BY <1>1 DEF Elapsed
  <2> QED  BY <1>1, <2>1, <2>2, <2>3, <2>4, <2>5
<1> QED
  BY <1>2, <1>3, <1>4
  DEF Tick, BoardInv, TypeOK, UniqueIds, DisplayOrder, SomethingSelected,
      InflightRowBlocked, Count

-----------------------------------------------------------------------------
(* BoardInv is inductive. *)
THEOREM BoardInductive == Spec => []BoardInv
<1>1. Init => BoardInv
  BY InitBoard
<1>2. BoardInv /\ [Next]_vars => BoardInv'
  <2> SUFFICES ASSUME BoardInv, [Next]_vars PROVE BoardInv'
    OBVIOUS
  <2>1. CASE Hello
    BY <2>1, HelloKeeps
  <2>2. ASSUME NEW row \in Row, Upsert(row) PROVE BoardInv'
    BY <2>2, UpdateRowKeeps, InsertRowKeeps, EvictAndInsertKeeps DEF Upsert
  <2>3. ASSUME NEW id \in Ids, RemoveRow(id) PROVE BoardInv'
    BY <2>3, RemoveRowKeeps
  <2>4. ASSUME NEW id \in Ids, CursorSet(id) PROVE BoardInv'
    BY <2>4, CursorSetKeeps
  <2>5. ASSUME NEW down \in BOOLEAN, CursorMove(down) PROVE BoardInv'
    BY <2>5, CursorMoveKeeps
  <2>6. CASE ArmApproval
    BY <2>6, ArmApprovalKeeps
  <2>7. ASSUME NEW visible \in Visible, Viewport(visible) PROVE BoardInv'
    BY <2>7, ViewportKeeps
  <2>8. CASE Tick
    BY <2>8, TickKeeps
  <2>9. CASE UNCHANGED vars
    BY <2>9
    DEF vars, BoardInv, TypeOK, UniqueIds, DisplayOrder, SomethingSelected,
        InflightRowBlocked, HoldIsRest, Elapsed, Count
  <2> QED
    BY <2>1, <2>2, <2>3, <2>4, <2>5, <2>6, <2>7, <2>8, <2>9 DEF Next
<1> QED  BY <1>1, <1>2, PTL DEF Spec

(* The board's state keeps its type: the packed table never outgrows its   *)
(* capacity, whatever the host sends.                                      *)
THEOREM TypeCorrect == Spec => []TypeOK
<1>1. BoardInv => TypeOK
  BY DEF BoardInv
<1> QED  BY <1>1, BoardInductive, PTL

(* No session ever has two rows, and the display order is always the       *)
(* blocked-first order of the table it indexes.                            *)
THEOREM BoardDisplaysTable == Spec => [](UniqueIds /\ DisplayOrder)
<1>1. BoardInv => UniqueIds /\ DisplayOrder
  BY DEF BoardInv
<1> QED  BY <1>1, BoardInductive, PTL

(* A board with rows always has a selected session. *)
THEOREM SelectionKept == Spec => []SomethingSelected
<1>1. BoardInv => SomethingSelected
  BY DEF BoardInv
<1> QED  BY <1>1, BoardInductive, PTL

(* The in-flight slot never outlives the blocked row it was armed for. *)
THEOREM SlotBelongsToBlockedRow == Spec => []InflightRowBlocked
<1>1. BoardInv => InflightRowBlocked
  BY DEF BoardInv
<1> QED  BY <1>1, BoardInductive, PTL

(* Whatever the stored scroll position, the window of the next frame       *)
(* contains the cursor's row and stays inside a list that fills it.        *)
THEOREM WindowShowsCursor == Spec => []ViewportShowsCursor
<1>1. BoardInv => ViewportShowsCursor
  <2> SUFFICES ASSUME BoardInv, NEW visible \in Visible
               PROVE  /\ CursorResolves =>
                           PositionOf(cursor) \in
                             (ViewportTop(visible) + 1)..(ViewportTop(visible) + visible)
                      /\ Count >= visible => ViewportTop(visible) + visible <= Count
    BY DEF ViewportShowsCursor
  <2> DEFINE pos == PositionOf(cursor)
             follow == FollowCursor(visible)
             top == ViewportTop(visible)
  <2>1. Count \in Nat /\ visible \in Nat \ {0} /\ scroll \in Nat
    BY BoardTable, BoardAssumption DEF BoardInv, TypeOK
  <2>2. pos \in 0..Count
    BY <2>1 DEF PositionOf
  <2>3. CursorResolves => pos # 0
    BY <2>1, PositionResolves DEF BoardInv, CursorResolves
  <2>4. follow = IF pos = 0 THEN scroll
                 ELSE IF pos - 1 < scroll THEN pos - 1
                 ELSE IF pos - 1 >= scroll + visible THEN pos - visible
                 ELSE scroll
    BY DEF FollowCursor
  <2>5. top = LET most == IF Count > visible THEN Count - visible ELSE 0
              IN  IF follow > most THEN most ELSE follow
    BY DEF ViewportTop, AtMost
  <2> HIDE DEF pos, follow, top
  <2>6. /\ CursorResolves => pos \in (top + 1)..(top + visible)
        /\ Count >= visible => top + visible <= Count
    BY <2>1, <2>2, <2>3, <2>4, <2>5
  <2> QED  BY <2>6 DEF pos, top
<1> QED  BY <1>1, BoardInductive, PTL

-----------------------------------------------------------------------------
(* The actions that can change the table. *)
LEMMA TableChanges ==
  ASSUME BoardInv, [Next]_vars, rows' # rows, rows' # <<>>
  PROVE  \/ \E row \in Row, i \in 1..Count : UpdateRow(row, i)
         \/ \E row \in Row : InsertRow(row)
         \/ \E row \in Row, i \in 1..Count : EvictAndInsert(row, i)
         \/ \E id \in Ids : RemoveRow(id)
<1>1. ~Hello /\ ~ArmApproval /\ ~Tick /\ ~UNCHANGED vars
  BY DEF Hello, ArmApproval, Tick, vars
<1>2. \A id \in Ids : ~CursorSet(id)
  BY DEF CursorSet
<1>3. \A down \in BOOLEAN : ~CursorMove(down)
  BY DEF CursorMove
<1>4. \A visible \in Visible : ~Viewport(visible)
  BY DEF Viewport
<1> QED  BY <1>1, <1>2, <1>3, <1>4 DEF Next, Upsert

(* The cursor follows its session through every re-sort, removal and       *)
(* eviction, for every capacity and every order of frames.                 *)
THEOREM CursorFollowsSession == Spec => CursorTracksIdentity
<1>1. BoardInv /\ [Next]_vars =>
        [rows' # rows /\ rows' # <<>> /\ CursorResolves =>
           IF cursor \in RowIds(rows') THEN cursor' = cursor ELSE cursor' \in RowIds(rows')]_vars
  <2> SUFFICES ASSUME BoardInv, [Next]_vars,
                      rows' # rows, rows' # <<>>, cursor \in RowIds(rows)
               PROVE  IF cursor \in RowIds(rows') THEN cursor' = cursor
                      ELSE cursor' \in RowIds(rows')
    BY DEF CursorResolves
  <2>0. cursor # NoSession
    BY BoardTable, RowIdsAre DEF BoardInv
  <2>1. ASSUME NEW row \in Row, NEW i \in 1..Count, UpdateRow(row, i)
        PROVE  cursor' = cursor /\ cursor \in RowIds(rows')
    BY <2>1, UpdateRowKeeps
  <2>2. ASSUME NEW row \in Row, InsertRow(row)
        PROVE  cursor' = cursor /\ cursor \in RowIds(rows')
    BY <2>0, <2>2, InsertRowKeeps
  <2>3. ASSUME NEW row \in Row, NEW i \in 1..Count, EvictAndInsert(row, i)
        PROVE  IF cursor \in RowIds(rows') THEN cursor' = cursor
               ELSE cursor' \in RowIds(rows')
    <3>1. /\ RowIds(rows') = (RowIds(rows) \ {rows[i].id}) \cup {row.id}
          /\ cursor # rows[i].id /\ cursor # NoSession => cursor' = cursor
          /\ cursor = rows[i].id => cursor' \in RowIds(rows')
      BY <2>3, EvictAndInsertKeeps
    <3>2. row.id \notin RowIds(rows)
      BY <2>3 DEF EvictAndInsert, Present
    <3> QED  BY <2>0, <3>1, <3>2
  <2>4. ASSUME NEW id \in Ids, RemoveRow(id)
        PROVE  IF cursor \in RowIds(rows') THEN cursor' = cursor
               ELSE cursor' \in RowIds(rows')
    BY <2>4, RemoveRowKeeps
  <2> QED  BY <2>1, <2>2, <2>3, <2>4, TableChanges
<1> QED  BY <1>1, BoardInductive, PTL DEF Spec, CursorTracksIdentity

(* A blocked row leaves the table only by its own session ending or by     *)
(* HELLO, never to make room.                                              *)
THEOREM BlockedNeverEvicted == Spec => BlockedKeepsSeat
<1>1. BoardInv /\ [Next]_vars =>
        [\A i \in 1..Count :
           IsBlocked(rows[i]) /\ rows[i].id \notin RowIds(rows') =>
             rows' = <<>> \/ Len(rows') < Count]_vars
  <2> SUFFICES ASSUME BoardInv, [Next]_vars, NEW k \in 1..Count,
                      IsBlocked(rows[k]), rows[k].id \notin RowIds(rows'),
                      rows' # <<>>
               PROVE  Len(rows') < Count
    OBVIOUS
  <2>0. rows \in Table /\ k \in 1..Len(rows) /\ rows[k].id \in RowIds(rows)
    BY BoardTable, RowIdsAre DEF BoardInv, Count
  <2>1. rows' # rows
    BY <2>0
  <2>2. ASSUME NEW row \in Row, NEW i \in 1..Count
        PROVE  ~UpdateRow(row, i)
    BY <2>0, UpdateRowKeeps
  <2>3. ASSUME NEW row \in Row
        PROVE  ~InsertRow(row)
    BY <2>0, InsertRowKeeps
  <2>4. ASSUME NEW row \in Row, NEW i \in 1..Count
        PROVE  ~EvictAndInsert(row, i)
    <3> SUFFICES ASSUME EvictAndInsert(row, i) PROVE FALSE
      OBVIOUS
    <3>1. /\ RowIds(rows') = (RowIds(rows) \ {rows[i].id}) \cup {row.id}
          /\ ~IsBlocked(rows[i])
      BY EvictAndInsertKeeps
    <3>2. rows[k].id = rows[i].id
      BY <2>0, <3>1
    <3>3. k = i
      BY <2>0, <3>2 DEF BoardInv, UniqueIds
    <3> QED  BY <3>1, <3>3
  <2>5. ASSUME NEW id \in Ids, RemoveRow(id)
        PROVE  Len(rows') < Count
    BY <2>5, RemoveRowKeeps DEF Count
  <2> QED  BY <2>1, <2>2, <2>3, <2>4, <2>5, TableChanges
<1> QED  BY <1>1, BoardInductive, PTL DEF Spec, BlockedKeepsSeat

-----------------------------------------------------------------------------
(* The in-flight slot is emptied only together with the hold it stands     *)
(* for: by HELLO, by the row's removal or eviction, or by a status change. *)
LEMMA SlotEmptied ==
  ASSUME BoardInv, Next, inflight # NoSession, inflight' = NoSession
  PROVE  hold'[inflight] = 0
<1>0. inflight \in Ids /\ inflight \in RowIds(rows) /\ hold \in [Ids -> 0..Cooldown]
  BY BoardTable, RowIdsAre DEF BoardInv, TypeOK, InflightRowBlocked, Count
<1>1. CASE Hello
  BY <1>0, <1>1 DEF Hello
<1>2. ASSUME NEW row \in Row, Upsert(row) PROVE hold'[inflight] = 0
  <2>1. ASSUME NEW i \in 1..Count, UpdateRow(row, i) PROVE hold'[inflight] = 0
    BY <1>0, <2>1 DEF UpdateRow
  <2>2. CASE InsertRow(row)
    BY <1>0, <2>2 DEF InsertRow, Present
  <2>3. ASSUME NEW i \in 1..Count, EvictAndInsert(row, i) PROVE hold'[inflight] = 0
    <3>1. inflight # row.id
      BY <1>0, <2>3 DEF EvictAndInsert, Present
    <3>2. InflightAfterDrop(i) = NoSession
      BY <1>0, <2>3, <3>1 DEF EvictAndInsert, InflightAfterDrop
    <3>3. inflight = rows[i].id
      BY <3>2 DEF InflightAfterDrop
    <3> QED  BY <1>0, <2>3, <3>3 DEF EvictAndInsert
  <2> QED  BY <1>2, <2>1, <2>2, <2>3 DEF Upsert
<1>3. ASSUME NEW id \in Ids, RemoveRow(id) PROVE hold'[inflight] = 0
  BY <1>0, <1>3 DEF RemoveRow, InflightAfterDrop
<1>4. ~ArmApproval
  BY BoardTable, RowIdsAre
  DEF ArmApproval, ApprovalEnabled, BoardInv, Count
<1>5. ~Tick /\ (\A id \in Ids : ~CursorSet(id)) /\ (\A down \in BOOLEAN : ~CursorMove(down))
  BY DEF Tick, CursorSet, CursorMove
<1>6. \A visible \in Visible : ~Viewport(visible)
  BY DEF Viewport
<1> QED  BY <1>1, <1>2, <1>3, <1>4, <1>5, <1>6 DEF Next

(* A held row stays disabled for the whole cooldown, for every width of    *)
(* the tick counter above it, and only an answer releases it early.        *)
THEOREM CooldownHolds == Spec => DoubleTapHeld
<1>1. BoardInv /\ [Next]_vars =>
        [inflight # NoSession /\ hold[inflight] > 0 =>
           /\ InCooldown
           /\ inflight' = NoSession => hold'[inflight] = 0]_vars
  <2> SUFFICES ASSUME BoardInv, [Next]_vars, vars' # vars,
                      inflight # NoSession, hold[inflight] > 0
               PROVE  InCooldown /\ (inflight' = NoSession => hold'[inflight] = 0)
    OBVIOUS
  <2>1. hold[inflight] \in Nat /\ Elapsed \in Nat /\ Elapsed + hold[inflight] = Cooldown
    BY BoardAssumption DEF BoardInv, TypeOK, HoldIsRest, Elapsed
  <2>2. InCooldown
    BY <2>1, BoardAssumption DEF InCooldown
  <2> QED  BY <2>2, SlotEmptied
<1> QED  BY <1>1, BoardInductive, PTL DEF Spec, DoubleTapHeld
=============================================================================
